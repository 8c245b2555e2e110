------------------------------- MODULE MCSkill -------------------------------
(***************************************************************************)
(* Small instances of SkillSystem for TLC.                                 *)
(***************************************************************************)
EXTENDS SkillSystem, TLC

CONSTANTS v1, v2, s1

MCSkillOf == v1 :> s1 @@ v2 :> s1

(* One version is installed, the other can arrive as a package; a model is  *)
(* configured, until an edit removes it.                                   *)
MCInit == Init /\ space.embed /\ version = (v1 :> "installed" @@ v2 :> "new")
MCSpec == MCInit /\ [][Next]_vars
MCFairSpec == MCSpec /\ Fairness

Symmetry == Permutations(Workers) \cup Permutations(Ops)
=============================================================================

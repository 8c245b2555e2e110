----------------------------- MODULE SkillCatalog -----------------------------
(***************************************************************************)
(* What a skill space promises its readers, without operations rows,       *)
(* leases, generations, threads or sweeps: a publication switches the      *)
(* active version and the index in one step and once per operation; what   *)
(* is served otherwise changes only by losing versions that no usable      *)
(* skill shows, or by the deletion of the space.                           *)
(***************************************************************************)
EXTENDS FiniteSets

CONSTANTS Ops, Skills, Versions, SkillOf, None

VARIABLES
    open,       \* is the space in use?
    usable,     \* skills not under deletion
    active,     \* the version each skill shows
    serving,    \* the versions in the index that searches read, or None
    applied     \* operations whose publication took place

catalog == <<open, usable, active, serving, applied>>

(* The index of what the usable skills show. *)
IndexOf(act) == {act[s] : s \in usable} \ {None}

Start ==
    /\ open = TRUE /\ usable = Skills
    /\ active = [s \in Skills |-> None]
    /\ serving = None /\ applied = {}

(* An operation takes effect once. *)
Apply(o) == open /\ o \notin applied /\ applied' = applied \cup {o}

(* An activation, with the new index or, without a model, with none. *)
Activate(s, v) ==
    /\ s \in usable
    /\ v # None => SkillOf[v] = s
    /\ active' = [active EXCEPT ![s] = v]
    /\ serving' \in {None, IndexOf(active')}
    /\ UNCHANGED <<open, usable>>

Reindex ==
    /\ serving' = IndexOf(active)
    /\ UNCHANGED <<open, usable, active>>

(* Deletion of a skill: taken out of use, no longer shown, its versions    *)
(* and those of abandoned or deleted versions removed from the index.      *)
Withdraw(s) ==
    /\ s \in usable
    /\ usable' = usable \ {s}
    /\ UNCHANGED <<open, active, serving, applied>>

Hide(s) ==
    /\ s \notin usable
    /\ active' = [active EXCEPT ![s] = None]
    /\ UNCHANGED <<open, usable, serving, applied>>

Purge ==
    /\ serving # None /\ serving' # None
    /\ serving' \subseteq serving
    /\ (serving \ serving') \cap IndexOf(active) = {}
    /\ UNCHANGED <<open, usable, active, applied>>

(* Deletion of the space: closed first, then emptied in one step. *)
Close == open /\ open' = FALSE /\ UNCHANGED <<usable, active, serving, applied>>

Empty ==
    /\ ~open
    /\ usable' = {} /\ active' = [s \in Skills |-> None] /\ serving' = None
    /\ UNCHANGED <<open, applied>>

Step ==
    \/ \E o \in Ops : /\ Apply(o)
                      /\ \/ Reindex
                         \/ \E s \in Skills, v \in Versions \cup {None} : Activate(s, v)
    \/ \E s \in Skills : Withdraw(s) \/ Hide(s)
    \/ Purge \/ Close \/ Empty

CatalogSpec == Start /\ [][Step]_catalog
=============================================================================

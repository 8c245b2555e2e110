------------------------------ MODULE MCIngest ------------------------------
(***************************************************************************)
(* Small instances of IngestSystem for TLC, and the sub-systems that some  *)
(* questions are about.                                                    *)
(***************************************************************************)
EXTENDS IngestSystem, TLC

(* Requests alone that are served. *)
RequestFairSpec == RequestSpec /\ \A o \in Ops : SF_vars(OpWork(o))

(* The whole system where only executors crash, and only once the request  *)
(* has been answered and its work is there.                                *)
TaskNext ==
    \/ \E o \in Ops : OpStep(o)
    \/ WorkerNext /\ (UNCHANGED crashes \/ (sql.gen # Origin /\ \A o \in Ops : Inactive(o)))
    \/ Poll
TaskFairSpec == Init /\ [][TaskNext]_vars /\ Fairness

(* Every property is symmetric in these sets; used for safety runs only. *)
Symmetry ==
    UNION {Permutations(Ops), Permutations(Workers), Permutations(Pages), Permutations(Cfgs)}
=============================================================================

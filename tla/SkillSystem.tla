----------------------------- MODULE SkillSystem -----------------------------
(***************************************************************************)
(* The skill API and its workers together, and what they promise.          *)
(***************************************************************************)
EXTENDS SkillService, SkillCleanup

WorkerStep(w) ==
    \/ Install(w) \/ Fail(w) \/ Finish(w) \/ LeaseLost(w)
    \/ PublishAgain(w) \/ PublishRefused(w) \/ PublishUnindexed(w) \/ PublishStart(w)
    \/ ReadContent(w) \/ Seal(w)
    \/ SwitchStart(w) \/ SwitchCommit(w) \/ SwitchRefused(w) \/ MarkFailed(w)
    \/ CleanupStart(w) \/ CleanupMark(w) \/ CleanupFailed(w)
    \/ RemoveStart(w) \/ RemoveNothing(w) \/ PurgeMark(w)
    \/ RemoveFiles(w) \/ RemoveDone(w) \/ RemoveFailed(w)
    \/ SweepMark(w)

ThreadStep(w, g) ==
    IndexCreate(w, g) \/ IndexInsert(w, g) \/ IndexDrop(w, g) \/ IndexPurge(w, g)

Disturbed(w) ==
    HeartbeatFails(w) \/ Crash(w) \/ BuildFails(w) \/ SwitchUnanswered(w) \/ DeletionFails(w)

Pick(w) ==
    \/ SweepStart(w)
    \/ \E o \in Ops : Claim(w, o)
    \/ \E o, c \in Ops : RecoverStaging(w, o, c)

Next ==
    \/ \E o \in Ops : Request(o) \/ HeartbeatLate(o) \/ AbandonedLeaseEnds(o)
    \/ EditSpace
    \/ \E w \in Workers : WorkerStep(w) \/ Pick(w) \/ Disturbed(w)
    \/ \E w \in Workers, g \in Gens : ThreadStep(w, g)

Spec == Init /\ [][Next]_vars

(***************************************************************************)
(* A publishing transaction that waits for the space row may commit after  *)
(* the end of its lease, which it compares with the time it began          *)
(* (locked, func.now()).  TimelySpec has the behaviours in which no sweep  *)
(* reads its list while that is so; in those of Spec it may.               *)
(***************************************************************************)
Overdue(w) == At(w, "commit") /\ ~Row(w).lease
InTime == (\E w \in Workers : Overdue(w)) => \A w \in Workers : ~SweepStart(w)

TimelySpec == Init /\ [][Next /\ InTime]_vars

(***************************************************************************)
(* Fairness: index calls return, a worker goes on with what it has begun,  *)
(* an idle one keeps sweeping and claiming (run), and a lease that nobody  *)
(* renews ends.  Nothing forces requests, retries or trouble.              *)
(***************************************************************************)
Fairness ==
    /\ \A w \in Workers : /\ WF_vars(WorkerStep(w))
                          /\ SF_vars(SweepStart(w))
                          /\ SF_vars(\E o \in Ops : Claim(w, o))
    /\ \A w \in Workers, g \in Gens : WF_vars(ThreadStep(w, g))
    /\ \A o \in Ops : WF_vars(AbandonedLeaseEnds(o))

FairSpec == Spec /\ Fairness

-----------------------------------------------------------------------------
(* Safety *)

(***************************************************************************)
(* A search never reads a collection that is missing or that belongs to a  *)
(* generation already taken out of service: sweeps, cleanups and late      *)
(* threads do not touch the generation that is, or is about to become,     *)
(* active (worker.py 546-551).                                             *)
(***************************************************************************)
ActiveIsServed ==
    space.active # None => gen[space.active].state = Active /\ Serving # None

(* The index that is served holds exactly the versions that the skills     *)
(* show as active; a skill under deletion may already be gone from it.     *)
IndexMatchesSkills ==
    Serving # None =>
        \A s \in Skills :
            skill[s].state = Active => Serving \cap Of(s) = {skill[s].active} \ {None}

(* What a deletion removed is not served, and nothing served has lost its  *)
(* files (remove_one cleans every generation before it deletes files).     *)
ServedHasFiles == Serving # None => Serving \subseteq files

(* However often an operation is retried, reclaimed or its commit goes     *)
(* unanswered, it is published at most once.                               *)
PublishedOnce == \A o \in Ops : published[o] <= 1

(***************************************************************************)
(* Readers see the catalogue of SkillCatalog: late threads, sweeps, lost   *)
(* leases and repeated attempts never show in what is active or served.    *)
(***************************************************************************)
Catalog == INSTANCE SkillCatalog WITH
    open <- space.state = Active,
    usable <- {s \in Skills : skill[s].state = Active},
    active <- [s \in Skills |-> skill[s].active],
    serving <- Serving,
    applied <- {o \in Ops : op[o].done}

(* The worker and the API implement the catalogue. *)
ImplementsCatalog == Catalog!CatalogSpec

-----------------------------------------------------------------------------
(* Liveness *)

(* Every operation that a worker may claim comes to an end, through lost   *)
(* leases, crashes and failing calls.                                      *)
OperationsEnd ==
    \A o \in Ops : (op[o].state \in {"pending", "running"} /\ op[o].phase = "sealed")
                      ~> op[o].state \in {"succeeded", "failed"}

(* No collection outlives its use: also one that a late thread creates     *)
(* after its generation was deleted is dropped in the end.                 *)
OrphansGo ==
    \A g \in Gens : (coll[g] # None /\ space.active # g)
                      ~> (coll[g] = None \/ space.active = g)
=============================================================================

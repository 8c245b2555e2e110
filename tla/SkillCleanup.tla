----------------------------- MODULE SkillCleanup -----------------------------
(***************************************************************************)
(* What the skill worker takes away (api/skills/worker.py): generations    *)
(* after a publication, versions, skills and the space on request,         *)
(* abandoned uploads, and the collections that late threads leave behind.  *)
(***************************************************************************)
EXTENDS SkillWorker

(* Start a call on one of the generations still to do, and wait for it at  *)
(* pc; with none left, go to end.  ids are the versions it is about.       *)
CallNext(w, todo, call, ids, pc, end) ==
    \/ /\ todo = {}
       /\ wk' = [wk EXCEPT ![w] = IF end = "idle" THEN IdleWorker
                                  ELSE [@ EXCEPT !.pc = end, !.gen = None, !.ids = ids]]
       /\ UNCHANGED threads
    \/ \E g \in todo :
          /\ wk' = [wk EXCEPT ![w].pc = pc, ![w].gen = g, ![w].todo = todo \ {g}, ![w].ids = ids]
          /\ threads' = threads \cup {<<call, g, w, IF call = "purge" THEN ids ELSE {}>>}

(* The deletion that a worker awaits: a collection, or versions of it. *)
Purges(w) == At(w, "purging") /\ Row(w).kind # "delete_space"
Awaited(w) == IF Purges(w) THEN <<"purge", wk[w].gen, w, wk[w].ids>>
                           ELSE <<"drop", wk[w].gen, w, {}>>

NextPc(pc) == CASE pc = "drop" -> "dropped"
                [] pc = "purging" -> "purged"
                [] pc = "sweep_drop" -> "sweep_mark"

(* The call takes effect; the worker goes on if it still waits for it. *)
Deleted(w, call) ==
    IF wk[w].pc \in {"drop", "purging", "sweep_drop"} /\ call = Awaited(w)
    THEN Goto(w, NextPc(wk[w].pc)) ELSE UNCHANGED wk

IndexDrop(w, g) ==
    LET call == <<"drop", g, w, {}>> IN
    /\ call \in threads
    /\ threads' = threads \ {call}
    /\ coll' = [coll EXCEPT ![g] = None]
    /\ Deleted(w, call)
    /\ UNCHANGED <<assetVars, op, gen, trouble, published>>

IndexPurge(w, g) ==
    \E docs \in SUBSET Versions :
        LET call == <<"purge", g, w, docs>> IN
        /\ call \in threads
        /\ threads' = threads \ {call}
        /\ coll' = [coll EXCEPT ![g] = IF @ = None THEN None ELSE @ \ docs]
        /\ Deleted(w, call)
        /\ UNCHANGED <<assetVars, op, gen, trouble, published>>

(* The call of a waiting worker fails without effect. *)
CallFails(w, pc, then) ==
    /\ At(w, pc)
    /\ Trouble
    /\ threads' = threads \ {Awaited(w)}
    /\ Goto(w, then)
    /\ UNCHANGED <<assetVars, op, gen, coll, published>>

(***************************************************************************)
(* cleanup_generations: generations that ended, and those of this          *)
(* operation's earlier leases.                                             *)
(***************************************************************************)
Fenced(row, rev) == {r.id : r \in {x \in row.gens : x.rev < rev}}
CleanupTargetsAll(w) ==
    {g \in Gens : \/ gen[g].state \in {"retired", "failed", "cleanup_failed"}
                  \/ g \in Fenced(Row(w), wk[w].rev)}

CleanupTargets(w) ==
    {g \in Gens : \/ gen[g].state \in {"retired", "failed", "cleanup_failed"}
                  \/ g \in Fenced(Row(w), wk[w].rev)} \ {space.active}

Cleanup(w, todo) == CallNext(w, todo, "drop", {}, "drop", "finish")

CleanupStart(w) ==
    /\ At(w, "list") /\ Locked(w)
    /\ Cleanup(w, CleanupTargets(w))
    /\ UNCHANGED <<assetVars, op, gen, coll, trouble, published>>

CleanupMark(w) ==
    /\ At(w, "dropped") /\ Locked(w)
    /\ gen' = [gen EXCEPT ![wk[w].gen].state = "deleted"]
    /\ Cleanup(w, wk[w].todo)
    /\ UNCHANGED <<assetVars, op, coll, trouble, published>>

CleanupFailed(w) ==
    /\ At(w, "drop_failed") /\ Locked(w)
    /\ gen' = [gen EXCEPT ![wk[w].gen].state = "cleanup_failed"]
    /\ Goto(w, "fail")
    /\ UNCHANGED <<assetVars, op, coll, threads, trouble, published>>

(***************************************************************************)
(* remove and remove_one, for a deletion of one asset.                     *)
(***************************************************************************)
AssetState(row) == CASE row.kind = "delete_version" -> version[row.ver]
                     [] row.kind = "delete_skill" -> skill[row.skill].state
                     [] row.kind = "delete_space" -> space.state

DoomedSkills(row) ==
    CASE row.kind = "delete_version" -> {}
      [] row.kind = "delete_skill" -> {row.skill}
      [] row.kind = "delete_space" -> {s \in Skills : skill[s].state # "deleted"}

DoomedVersions(row) ==
    IF row.kind = "delete_version" THEN {row.ver}
    ELSE {v \in Versions : SkillOf[v] \in DoomedSkills(row) /\ version[v] \notin {"new", "deleted"}}

VersionsAre(ids, state) ==
    version' = [v \in Versions |-> IF v \in ids THEN state ELSE version[v]]

(* Mutant: the files go first. *)
PurgeSkipped(w, todo, ids) ==
    CallNext(w, {}, IF Row(w).kind = "delete_space" THEN "drop" ELSE "purge", ids,
             "purging", "files")

(* Every generation is cleaned before any file goes. *)
Purge(w, todo, ids) ==
    CallNext(w, todo, IF Row(w).kind = "delete_space" THEN "drop" ELSE "purge", ids,
             "purging", "files")

RemoveStart(w) ==
    LET row == Row(w) IN
    /\ At(w, "remove") /\ Locked(w)
    /\ AssetState(row) # "deleted"
    /\ VersionsAre(DoomedVersions(row), "deleting")
    /\ skill' = [s \in Skills |->
                    IF s \notin DoomedSkills(row) THEN skill[s]
                    ELSE [state |-> "deleting", active |-> None, rev |-> skill[s].rev + 1]]
    /\ space' = IF row.kind = "delete_space"
                THEN [space EXCEPT !.state = "deleting", !.active = None] ELSE space
    /\ Purge(w, {g \in Gens : gen[g].state \notin {"new", "deleted"}}, DoomedVersions(row))
    /\ UNCHANGED <<files, op, gen, coll, trouble, published>>

RemoveNothing(w) ==
    /\ At(w, "remove") /\ Locked(w)
    /\ AssetState(Row(w)) = "deleted"
    /\ Goto(w, "finish")
    /\ UNCHANGED <<assetVars, op, gen, coll, threads, trouble, published>>

PurgeMark(w) ==
    /\ At(w, "purged")
    /\ IF Row(w).kind = "delete_space"
       THEN Locked(w) /\ gen' = [gen EXCEPT ![wk[w].gen].state = "deleted"]
       ELSE UNCHANGED gen
    /\ Purge(w, wk[w].todo, wk[w].ids)
    /\ UNCHANGED <<assetVars, op, coll, trouble, published>>

(* File rows and stored objects, verified by reading back. *)
RemoveFiles(w) ==
    /\ At(w, "files") /\ Locked(w)
    /\ files' = files \ wk[w].ids
    /\ \/ Goto(w, "erase") /\ UNCHANGED trouble
       \/ Goto(w, "remove_failed") /\ Trouble
    /\ UNCHANGED <<space, skill, version, op, gen, coll, threads, published>>

RemoveDone(w) ==
    LET row == Row(w) IN
    /\ At(w, "erase") /\ Locked(w)
    /\ VersionsAre(wk[w].ids, "deleted")
    /\ skill' = [s \in Skills |-> IF s \notin DoomedSkills(row) THEN skill[s]
                                  ELSE [skill[s] EXCEPT !.state = "deleted", !.active = None]]
    /\ space' = IF row.kind = "delete_space"
                THEN [space EXCEPT !.state = "deleted", !.active = None] ELSE space
    /\ Goto(w, "finish")
    /\ UNCHANGED <<files, op, gen, coll, threads, trouble, published>>

DeleteFailedPlain(state) == IF state = "deleted" THEN state ELSE "failed"

DeleteFailed(state) == IF state = "deleted" THEN state ELSE "delete_failed"

RemoveFailed(w) ==
    LET row == Row(w) IN
    /\ At(w, "remove_failed") /\ Locked(w)
    /\ version' = IF row.kind = "delete_version"
                  THEN [version EXCEPT ![row.ver] = DeleteFailed(@)] ELSE version
    /\ skill' = IF row.kind = "delete_skill"
                THEN [skill EXCEPT ![row.skill].state = DeleteFailed(@)] ELSE skill
    /\ space' = IF row.kind = "delete_space"
                THEN [space EXCEPT !.state = DeleteFailed(@)] ELSE space
    /\ Goto(w, "finish_failed")
    /\ UNCHANGED <<files, op, gen, coll, threads, trouble, published>>

(***************************************************************************)
(* recover_staging: an upload that failed, or stood still for 30 minutes,  *)
(* gets an operation that deletes its version.                             *)
(***************************************************************************)
RecoverStaging(w, o, cleanup) ==
    /\ At(w, "idle")
    /\ op[o].phase = "staging" /\ op[o].state \in {"pending", "failed"} /\ ~op[o].cleaned
    /\ op[cleanup].state = "new"
    /\ version' = [version EXCEPT ![op[o].ver] = IF @ = "staging" THEN "deleting" ELSE @]
    /\ op' = [op EXCEPT ![o].state = "failed", ![o].cleaned = TRUE,
                        ![cleanup] = [NoOp EXCEPT !.kind = "delete_version", !.state = "pending",
                                                  !.skill = op[o].skill, !.ver = op[o].ver,
                                                  !.rev = 1]]
    /\ UNCHANGED <<space, skill, files, gen, coll, threads, wk, trouble, published>>

(***************************************************************************)
(* sweep_orphan_generations: every generation that an operation started,   *)
(* except the active one and those of a valid lease.  The list is read     *)
(* without locks, and nothing is checked again before a collection is      *)
(* dropped.                                                                *)
(***************************************************************************)
Known == UNION {{r.id : r \in op[o].gens} : o \in Ops}
Leased == UNION {{r.id : r \in {x \in op[o].gens : x.rev = op[o].rev}} :
                    o \in {x \in Ops : op[x].state = "running" /\ op[x].lease}}
SweepTargetsLeased == Known \ {space.active}
SweepTargetsOnce == {g \in (Known \ Leased) \ {space.active} : gen[g].state # "deleted"}

SweepTargets == (Known \ Leased) \ {space.active}

Sweep(w, todo) == CallNext(w, todo, "drop", {}, "sweep_drop", "idle")

SweepStart(w) ==
    /\ At(w, "idle")
    /\ SweepTargets # {}
    /\ Sweep(w, SweepTargets)
    /\ UNCHANGED <<assetVars, op, gen, coll, trouble, published>>

SweepMark(w) ==
    /\ At(w, "sweep_mark") \/ At(w, "sweep_failed")
    /\ gen' = [gen EXCEPT ![wk[w].gen].state =
                  IF @ = Active THEN @
                  ELSE IF At(w, "sweep_mark") THEN "deleted" ELSE "cleanup_failed"]
    /\ Sweep(w, wk[w].todo)
    /\ UNCHANGED <<assetVars, op, coll, trouble, published>>

DeletionFails(w) ==
    \/ CallFails(w, "drop", "drop_failed")
    \/ CallFails(w, "purging", "remove_failed")
    \/ CallFails(w, "sweep_drop", "sweep_failed")
=============================================================================

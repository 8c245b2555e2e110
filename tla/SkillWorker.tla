----------------------------- MODULE SkillWorker -----------------------------
(***************************************************************************)
(* The skill worker (api/skills/worker.py).  A worker leases an operation, *)
(* builds a fresh index generation on threads that cannot be cancelled,    *)
(* publishes it, cleans up older generations and finishes; between         *)
(* operations it sweeps the collections nobody owns.  Every database write *)
(* re-checks the lease (Locked), except where the code does not.           *)
(***************************************************************************)
EXTENDS SkillState

assetVars == <<space, skill, version, files>>

(* locked: the row still carries this worker's lease. *)
Locked(w) ==
    /\ wk[w].op # None
    /\ LET row == op[wk[w].op] IN
          row.state = "running" /\ row.owner = w /\ row.rev = wk[w].rev /\ row.lease

At(w, pc) == wk[w].pc = pc
Goto(w, pc) == wk' = [wk EXCEPT ![w].pc = pc]
Idle(w) == wk' = [wk EXCEPT ![w] = IdleWorker]
Row(w) == op[wk[w].op]

(***************************************************************************)
(* Leases.                                                                 *)
(***************************************************************************)

(* claim: pending and sealed, or running under an expired lease.  The row  *)
(* of a transaction in progress is skipped (skip_locked).                  *)
ClaimablePending(o) ==
    /\ op[o].phase # "staging"
    /\ op[o].state = "pending"
    /\ \A w \in Workers : wk[w].op = o => ~At(w, "commit")

Claimable(o) ==
    /\ op[o].phase # "staging"
    /\ \/ op[o].state = "pending"
       \/ op[o].state = "running" /\ ~op[o].lease
    /\ \A w \in Workers : wk[w].op = o => ~At(w, "commit")

(* process: where the work on an operation begins. *)
Begin(kind) == CASE kind = "install" -> "install"
                 [] kind \in DeleteKinds -> "remove"
                 [] OTHER -> "publish"

Claim(w, o) ==
    /\ At(w, "idle") /\ Claimable(o)
    /\ op' = [op EXCEPT ![o].state = "running", ![o].rev = @ + 1,
                        ![o].owner = w, ![o].lease = TRUE]
    /\ wk' = [wk EXCEPT ![w] = [IdleWorker EXCEPT !.pc = Begin(op[o].kind), !.op = o,
                                                  !.rev = op[o].rev + 1]]
    /\ UNCHANGED <<assetVars, gen, coll, threads, trouble, published>>

(* Time passes lease_expires_at.  A live worker's heartbeat prevents it    *)
(* unless it is late, or waits for the row that the publishing transaction *)
(* of the worker holds; nobody renews the lease of a dead one.             *)
LeaseEnds(o) ==
    /\ op[o].lease
    /\ op' = [op EXCEPT ![o].lease = FALSE]
    /\ UNCHANGED <<assetVars, gen, coll, threads, wk, published>>

LeaseAbandoned(o) == \A w \in Workers : wk[w].op = o => ~Locked(w)

HeartbeatLate(o) ==
    /\ Trouble
    /\ LeaseEnds(o)

AbandonedLeaseEnds(o) == LeaseAbandoned(o) /\ LeaseEnds(o) /\ UNCHANGED trouble

Working(w) == wk[w].op # None

(* The heartbeat, or any later write, finds the lease lost: the work is    *)
(* cancelled and index calls in flight are left behind.                    *)
LeaseLost(w) ==
    /\ Working(w) /\ ~At(w, "commit") /\ ~Locked(w)
    /\ \/ Idle(w)
       \/ At(w, "switch") /\ Goto(w, "mark_lost")
    /\ UNCHANGED <<assetVars, op, gen, coll, threads, trouble, published>>

(* A heartbeat that fails for another reason fails the operation. *)
HeartbeatFails(w) ==
    /\ Working(w) /\ ~At(w, "commit") /\ Locked(w)
    /\ Trouble
    /\ Goto(w, "fail")
    /\ UNCHANGED <<assetVars, op, gen, coll, threads, published>>

(* The process dies, and its threads with it; a new one starts. *)
Crash(w) ==
    /\ ~At(w, "idle") \/ \E t \in threads : t[3] = w
    /\ Trouble
    /\ Idle(w)
    /\ threads' = {t \in threads : t[3] # w}
    /\ UNCHANGED <<assetVars, op, gen, coll, published>>

(* fail and finish give the lease back. *)
Closed(row, state) == [row EXCEPT !.state = state, !.owner = None, !.lease = FALSE]

Fail(w) ==
    /\ At(w, "fail") /\ Locked(w)
    /\ op' = [op EXCEPT ![wk[w].op] = Closed(@, "failed")]
    /\ Idle(w)
    /\ UNCHANGED <<assetVars, gen, coll, threads, trouble, published>>

Finish(w) ==
    /\ At(w, "finish") \/ At(w, "finish_failed")
    /\ Locked(w)
    /\ op' = [op EXCEPT ![wk[w].op] =
                 Closed(@, IF At(w, "finish") THEN "succeeded" ELSE "failed")]
    /\ Idle(w)
    /\ UNCHANGED <<assetVars, gen, coll, threads, trouble, published>>

(* The first transaction of install. *)
Installable(v) == version[v] \in {"staging", "installed", "install_failed"}

Install(w) ==
    LET row == Row(w) IN
    /\ At(w, "install") /\ Locked(w)
    /\ IF space.state = Active /\ Installable(row.ver)
       THEN /\ version' = [version EXCEPT ![row.ver] = "installed"]
            /\ Goto(w, IF row.activate THEN "publish" ELSE "finish")
       ELSE Goto(w, "fail") /\ UNCHANGED version
    /\ UNCHANGED <<space, skill, files, op, gen, coll, threads, trouble, published>>

(***************************************************************************)
(* Publication.                                                            *)
(***************************************************************************)

(* The version a skill has once the operation is applied. *)
Selected(row, s) == IF row.activate /\ s = row.skill THEN row.ver ELSE skill[s].active
Snapshot(row) == {Selected(row, s) : s \in {t \in Skills : skill[t].state = Active}} \ {None}

Admissible(row) ==
    /\ space.state = Active
    /\ row.skill # None => skill[row.skill].state = Active
    /\ row.kind = "activate" => skill[row.skill].rev = row.expect
    /\ row.activate /\ row.ver # None => version[row.ver] = "installed"
    /\ ~space.embed => row.activate
    /\ space.embed => \A v \in Snapshot(row) : version[v] = "installed"

PublishedUnmarked(o) ==
    /\ op' = op
    /\ published' = [published EXCEPT ![o] = @ + 1]

Published(o) ==
    /\ op' = [op EXCEPT ![o].done = TRUE]
    /\ published' = [published EXCEPT ![o] = @ + 1]

Activated(row) ==
    IF row.activate
    THEN [skill EXCEPT ![row.skill].active = row.ver, ![row.skill].rev = @ + 1]
    ELSE skill

Retired(g) == IF g = None THEN gen ELSE [gen EXCEPT ![g].state = "retired"]

(* A second attempt after the publication only cleans up. *)
PublishAgain(w) ==
    /\ At(w, "publish") /\ Locked(w)
    /\ space.state = Active /\ Row(w).done
    /\ Goto(w, "list")
    /\ UNCHANGED <<assetVars, op, gen, coll, threads, trouble, published>>

PublishRefused(w) ==
    /\ At(w, "publish") /\ Locked(w)
    /\ space.state # Active \/ (~Row(w).done /\ ~Admissible(Row(w)))
    /\ Goto(w, "fail")
    /\ UNCHANGED <<assetVars, op, gen, coll, threads, trouble, published>>

(* Without an embedding model the activation alone is published. *)
PublishUnindexed(w) ==
    /\ At(w, "publish") /\ Locked(w)
    /\ ~Row(w).done /\ Admissible(Row(w)) /\ ~space.embed
    /\ skill' = Activated(Row(w))
    /\ gen' = Retired(space.active)
    /\ space' = [space EXCEPT !.rev = @ + 1, !.active = None]
    /\ Published(wk[w].op)
    /\ Goto(w, "list")
    /\ UNCHANGED <<version, files, coll, threads, trouble>>

(* Snapshot, generation row and operation row in one transaction.  The new *)
(* identity has never been used before.                                    *)
FreshGen == CHOOSE g \in Gens : gen[g].state = "new"

PublishStart(w) ==
    /\ At(w, "publish") /\ Locked(w)
    /\ ~Row(w).done /\ Admissible(Row(w)) /\ space.embed
    /\ \E g \in Gens : gen[g].state = "new"
    /\ gen' = [gen EXCEPT ![FreshGen] = [state |-> "building", src |-> space.rev,
                                         docs |-> Snapshot(Row(w))]]
    /\ op' = [op EXCEPT ![wk[w].op].gens = @ \cup {[id |-> FreshGen, rev |-> wk[w].rev]}]
    /\ wk' = [wk EXCEPT ![w].pc = "content", ![w].gen = FreshGen]
    /\ UNCHANGED <<assetVars, coll, threads, trouble, published>>

(* Reading the files fails outside the handler that marks the generation. *)
ReadContent(w) ==
    /\ At(w, "content")
    /\ IF gen[wk[w].gen].docs \subseteq files
       THEN Goto(w, "build") /\ threads' = threads \cup {<<"create", wk[w].gen, w, {}>>}
       ELSE Goto(w, "fail") /\ UNCHANGED threads
    /\ UNCHANGED <<assetVars, op, gen, coll, trouble, published>>

(***************************************************************************)
(* Index calls run on threads (asyncio.to_thread): they take effect even   *)
(* after the worker that awaited them has been cancelled.                  *)
(***************************************************************************)
Awaits(w, g, pc) == At(w, pc) /\ wk[w].gen = g

(* build awaits create, then insert. *)
IndexCreate(w, g) ==
    LET call == <<"create", g, w, {}>> IN
    /\ call \in threads
    /\ coll' = [coll EXCEPT ![g] = IF @ = None THEN {} ELSE @]
    /\ IF ~Awaits(w, g, "build")
       THEN threads' = threads \ {call} /\ UNCHANGED wk
       ELSE IF coll[g] = None
       THEN threads' = (threads \ {call}) \cup {<<"insert", g, w, gen[g].docs>>}
            /\ UNCHANGED wk
       ELSE threads' = threads \ {call} /\ Goto(w, "mark_failed")
    /\ UNCHANGED <<assetVars, op, gen, trouble, published>>

IndexInsert(w, g) ==
    LET call == <<"insert", g, w, gen[g].docs>> IN
    /\ call \in threads
    /\ threads' = threads \ {call}
    /\ coll' = [coll EXCEPT ![g] = IF @ = None THEN @ ELSE @ \cup gen[g].docs]
    /\ IF Awaits(w, g, "build")
       THEN Goto(w, IF coll[g] = None THEN "mark_failed" ELSE "seal")
       ELSE UNCHANGED wk
    /\ UNCHANGED <<assetVars, op, gen, trouble, published>>

(* seal reads everything back. *)
Seal(w) ==
    /\ At(w, "seal")
    /\ Goto(w, IF coll[wk[w].gen] = gen[wk[w].gen].docs THEN "switch" ELSE "mark_failed")
    /\ UNCHANGED <<assetVars, op, gen, coll, threads, trouble, published>>

(* The model or the index fails while the index is built. *)
BuildFails(w) ==
    /\ At(w, "build") \/ At(w, "seal")
    /\ Trouble
    /\ Goto(w, "mark_failed")
    /\ threads' = {t \in threads : ~(t[3] = w /\ t[2] = wk[w].gen)}
    /\ UNCHANGED <<assetVars, op, gen, coll, published>>

(***************************************************************************)
(* The publishing transaction: the lease is checked when it starts, the    *)
(* space row is locked afterwards, and the operation row stays locked.     *)
(***************************************************************************)
SwitchStart(w) ==
    /\ At(w, "switch") /\ Locked(w)
    /\ Goto(w, "commit")
    /\ UNCHANGED <<assetVars, op, gen, coll, threads, trouble, published>>

SourceAssumed(w) == space.state = Active

SourceUnchanged(w) == space.state = Active /\ space.rev = gen[wk[w].gen].src

Switch(w) ==
    LET g == wk[w].gen IN
    /\ SourceUnchanged(w)
    /\ gen' = [Retired(space.active) EXCEPT ![g].state = Active]
    /\ skill' = Activated(Row(w))
    /\ space' = [space EXCEPT !.rev = @ + 1, !.active = g]
    /\ Published(wk[w].op)
    /\ UNCHANGED <<version, files, coll, threads>>

SwitchCommit(w) == At(w, "commit") /\ Switch(w) /\ Goto(w, "list") /\ UNCHANGED trouble

(* The commit is done but its answer is lost. *)
SwitchUnanswered(w) ==
    At(w, "commit") /\ Switch(w) /\ Goto(w, "mark_failed") /\ Trouble

SwitchRefused(w) ==
    /\ At(w, "commit") /\ ~SourceUnchanged(w)
    /\ Goto(w, "mark_failed")
    /\ UNCHANGED <<assetVars, op, gen, coll, threads, trouble, published>>

(* Marking the generation failed does not look at the lease. *)
MarkFailed(w) ==
    /\ At(w, "mark_failed") \/ At(w, "mark_lost")
    /\ gen' = [gen EXCEPT ![wk[w].gen].state = IF @ = "building" THEN "failed" ELSE @]
    /\ IF At(w, "mark_lost") THEN Idle(w) ELSE Goto(w, "fail")
    /\ UNCHANGED <<assetVars, op, coll, threads, trouble, published>>
=============================================================================

--------------------------- MODULE DocumentIngest ---------------------------
(***************************************************************************)
(* One ingestion request (_operate): start ("1"), reset ("0") or cancel    *)
(* ("2") the parsing of a document, optionally clearing its history.       *)
(*                                                                         *)
(* The request holds the Doc -> Task row locks up to its SQL commit, takes *)
(* them again to enqueue, and again to compensate.  Everything it does to  *)
(* the document store in between is covered by a journal in Redis, which a *)
(* later request replays when the writer died.                             *)
(***************************************************************************)
EXTENDS IngestState

NewOp(cfg) ==
    [pc |-> "idle", kind |-> "1", clear |-> FALSE, cfg |-> cfg, rev |-> None, sel |-> {},
     rec |-> None, snap |-> {}, orig |-> None, appl |-> None, chg |-> FALSE, jn |-> "none",
     ack |-> {}, unc |-> {}, fl |-> {}, failed |-> FALSE, res |-> "none"]

workerVars == <<pel, wk, poll, crashes>>
streamVars == <<sent, unread>>

Become(o, x) == op' = [op EXCEPT ![o] = x]
Goto(o, pc) == Become(o, [op[o] EXCEPT !.pc = pc])

(* The exception handler rolls the transaction back, which frees the rows. *)
Raise(o) == Goto(o, "except") /\ lock' = None

(***************************************************************************)
(* A finished request forgets what it knew, except the tasks it stopped    *)
(* when it confirmed a cancel that keeps their rows.                       *)
(***************************************************************************)
Stopped(o, res) == IF res = "ok" /\ op[o].kind = "2" /\ ~op[o].clear THEN op[o].fl ELSE {}
Ended(o, pc, res) ==
    [NewOp(op[o].cfg) EXCEPT !.pc = pc, !.res = res, !.fl = Stopped(o, res)]

-----------------------------------------------------------------------------
(* preflight: remember which tasks and which revision were selected. *)
Preflight(o) ==
    /\ op[o].pc = "idle"
    /\ \E kind \in Kinds, clear \in BOOLEAN, cfg \in Cfgs :
         /\ kind = "1" \/ cfg = sql.cfg
         /\ Become(o, [op[o] EXCEPT !.pc = "locking", !.kind = kind, !.clear = clear,
                                    !.cfg = cfg, !.rev = sql.rev, !.sel = Ids(sql)])
    /\ UNCHANGED <<sql, lock, guard, store, journal, flag, streamVars, src, workerVars, faults>>

SelectionCurrent(o) == Ids(sql) = op[o].sel /\ sql.rev = op[o].rev

(* Lock Document, then its tasks; refuse work that changed since preflight. *)
LockRows(o) ==
    /\ op[o].pc = "locking"
    /\ lock = None
    /\ \/ /\ SelectionCurrent(o)
          /\ lock' = o
          /\ Become(o, [op[o] EXCEPT !.pc = "loading", !.rev = None])
       \/ /\ ~SelectionCurrent(o)
          /\ Become(o, Ended(o, "done", "refused"))
          /\ UNCHANGED lock
    /\ UNCHANGED <<sql, guard, store, journal, flag, streamVars, src, workerVars, faults>>

-----------------------------------------------------------------------------
(* Replaying the journal of an earlier request *)

(* StoredRecovery.clear: delete the material only if it is still this one. *)
Clearable(material) == journal \in {None, material}

(* StoredRecovery.load: what is read here is acted on only later. *)
LoadJournal(o) ==
    /\ op[o].pc = "loading"
    /\ Become(o, [op[o] EXCEPT !.pc = IF journal = None THEN "begin" ELSE "recover",
                               !.rec = journal])
    /\ UNCHANGED <<sql, lock, guard, store, journal, flag, streamVars, src, workerVars, faults>>

JournalUnchanged(j, s) == s = j.orig
JournalOwned(j, s) == j.appl # None /\ s = j.appl
JournalStale(j) == ~JournalUnchanged(j, sql) /\ ~JournalOwned(j, sql)

(* The advisory lock of the writer dies with its process. *)
OwnerActive(j) == op[j.own].pc \notin {"done", "dead"}

(* _recovery_submitted: nothing was left to queue, or a task reached it. *)
RecoverySubmitted(s) ==
    \/ Present(s) # {} /\ \A p \in Present(s) : s.row[p].st = "done"
    \/ Ids(s) \cap sent # {}
JournalSettled(j) ==
    JournalOwned(j, sql) /\ ~JournalUnchanged(j, sql) /\ RecoverySubmitted(j.appl)

FlagsRestorable(own, notes) == \A n \in notes : flag[n[1]] \in {own, n[2]}
FlagsRestored(own, notes) ==
    [t \in TaskIds |->
        IF \E n \in notes : n[1] = t /\ flag[t] = own
        THEN (CHOOSE n \in notes : n[1] = t)[2] ELSE flag[t]]

(* The loop over the flags stops at the first that cannot be restored. *)
FlagsFail(own, notes) ==
    /\ IF FlagsRestorable(own, notes) THEN Fault /\ notes # {} ELSE UNCHANGED faults
    /\ \E done \in SUBSET notes : flag' = FlagsRestored(own, done)

(* restore_document_history deletes, then inserts; it may fail in between. *)
PartlyRestored(snap) == (SUBSET store) \cup (SUBSET snap)

(* Failing to replay refuses the request and frees what it holds. *)
Refuse(o) == Become(o, Ended(o, "done", "refused")) /\ lock' = None

(* The material is nobody's any more, or its writer is still at work. *)
SkipJournal(o) ==
    LET j == op[o].rec
        dead == JournalStale(j) \/ (~OwnerActive(j) /\ JournalSettled(j))
        alive == ~JournalStale(j) /\ OwnerActive(j)
        go == Become(o, [op[o] EXCEPT !.pc = "begin", !.rec = None]) /\ UNCHANGED lock
    IN
    /\ op[o].pc = "recover"
    /\ GuardsImages(j.snap) => guard = None
    /\ \/ alive /\ go /\ UNCHANGED <<journal, faults>>
       \/ dead /\ Clearable(j) /\ journal' = None /\ go /\ UNCHANGED faults
       \/ dead /\ Clearable(j) /\ Fault /\ journal' \in {journal, None} /\ Refuse(o)
       \/ dead /\ ~Clearable(j) /\ Refuse(o) /\ UNCHANGED <<journal, faults>>
    /\ UNCHANGED <<sql, guard, store, flag, streamVars, src, workerVars>>

(* Put the snapshot and the flags back, before the rows of the same transaction. *)
ReplayHistory(o) ==
    LET j == op[o].rec IN
    /\ op[o].pc = "recover"
    /\ GuardsImages(j.snap) => guard = None
    /\ ~JournalStale(j) /\ ~OwnerActive(j) /\ ~JournalSettled(j)
    /\ \/ /\ FlagsRestorable(j.own, j.fl)
          /\ store' = j.snap
          /\ flag' = FlagsRestored(j.own, j.fl)
          /\ guard' = IF GuardsImages(j.snap) THEN o ELSE guard
          /\ Goto(o, "recommit")
          /\ UNCHANGED <<lock, faults>>
       \/ /\ Fault
          /\ store' \in PartlyRestored(j.snap)
          /\ Refuse(o)
          /\ UNCHANGED <<guard, flag>>
       \/ /\ FlagsFail(j.own, j.fl)
          /\ store' = j.snap
          /\ Refuse(o)
          /\ UNCHANGED guard
    /\ UNCHANGED <<sql, journal, streamVars, src, workerVars>>

Release(o) == guard' = IF guard = o THEN None ELSE guard

ReplayCommit(o) ==
    /\ op[o].pc = "recommit"
    /\ \/ /\ sql' = op[o].rec.orig
          /\ Goto(o, "relock")
          /\ UNCHANGED <<guard, faults>>
       \/ /\ Fault
          /\ sql' \in {sql, op[o].rec.orig}
          /\ Become(o, Ended(o, "done", "refused"))
          /\ Release(o)
    /\ lock' = None
    /\ UNCHANGED <<store, journal, flag, streamVars, src, workerVars>>

(***************************************************************************)
(* The commit released the rows: go on only from the restored state, and   *)
(* otherwise keep the material for a retry.                                *)
(***************************************************************************)
ReplayRelock(o) ==
    LET j == op[o].rec
        restored == sql = j.orig /\ Clearable(j)
    IN
    /\ op[o].pc = "relock"
    /\ \/ /\ lock = None /\ restored
          /\ lock' = o
          /\ journal' = None
          /\ Become(o, [op[o] EXCEPT !.pc = "begin", !.rec = None])
          /\ UNCHANGED faults
       \/ /\ \/ (RelockBusy(o) \/ (lock = None /\ ~restored)) /\ UNCHANGED <<journal, faults>>
             \/ lock = None /\ restored /\ Fault /\ journal' \in {journal, None}
          /\ Become(o, Ended(o, "done", "refused"))
          /\ UNCHANGED lock
    /\ Release(o)
    /\ UNCHANGED <<sql, store, flag, streamVars, src, workerVars>>

-----------------------------------------------------------------------------
(* The request's own work, under the row locks *)

LiveIds(s) == {<<s.gen, p>> : p \in LivePages(s)}

(* A reset or a cancel tells running tasks to stop, before anything commits. *)
Stops(x) == x.kind \in {"0", "2"}
Refused(o) == op[o].kind = "2" /\ sql.run \notin {"1", "2"} /\ LivePages(sql) = {}

Begin(o) ==
    /\ op[o].pc = "begin"
    /\ \/ /\ Refused(o)
          /\ Become(o, [op[o] EXCEPT !.pc = "except", !.orig = sql])
          /\ lock' = None
          /\ UNCHANGED <<flag, faults>>
       \/ /\ ~Refused(o) /\ ~Stops(op[o])
          /\ Become(o, [op[o] EXCEPT !.pc = "plan", !.orig = sql])
          /\ UNCHANGED <<lock, flag, faults>>
       \/ /\ ~Refused(o) /\ Stops(op[o])
          /\ LET notes == {<<t, flag[t]>> : t \in LiveIds(sql)} IN
             \/ /\ flag' = [t \in TaskIds |-> IF t \in LiveIds(sql) THEN o ELSE flag[t]]
                /\ Become(o, [op[o] EXCEPT !.pc = "plan", !.orig = sql, !.fl = notes])
                /\ UNCHANGED <<lock, faults>>
             \/ /\ Fault /\ notes # {}
                /\ \E reached \in SUBSET LiveIds(sql) :
                     flag' = [t \in TaskIds |-> IF t \in reached THEN o ELSE flag[t]]
                /\ Become(o, [op[o] EXCEPT !.pc = "except", !.orig = sql, !.fl = notes])
                /\ lock' = None
    /\ UNCHANGED <<sql, guard, store, journal, streamVars, src, workerVars>>

(* Mutant: the digest of the parser configuration is not compared. *)
ReusedPagesAnyCfg(o) ==
    {p \in Pages : ~op[o].clear /\ sql.row[p].st = "done" /\ sql.row[p].chunk}

(***************************************************************************)
(* _plan: one fresh task per page range.  A finished task of the same      *)
(* digest hands its chunks over; the chunks of the others are obsolete.    *)
(***************************************************************************)
ReusedPages(o) ==
    {p \in Pages : /\ ~op[o].clear /\ op[o].cfg = sql.cfg
                   /\ sql.row[p].st = "done" /\ sql.row[p].chunk}
Obsolete(o) ==
    IF op[o].kind = "1" /\ ~op[o].clear
    THEN {c \in RegisteredChunks(sql) : c[1] \notin ReusedPages(o)} ELSE {}
Retained(o) == IF op[o].clear THEN {} ELSE store \ Obsolete(o)

NoRow == [st |-> "none", chunk |-> FALSE]
PlannedRow(o, p) ==
    IF p \in ReusedPages(o) THEN [st |-> "done", chunk |-> TRUE]
                            ELSE [st |-> "queued", chunk |-> FALSE]
(* Mutant: the task is told to stop but its row is left as it was. *)
CancelledRowKept(r) == r
CancelledRow(r) == IF r.st \in Unfinished THEN [r EXCEPT !.st = "cancelled"] ELSE r
ResetRow(r) == IF r.st = "done" THEN r ELSE NoRow
NewRow(o, p) ==
    CASE op[o].kind = "1" -> PlannedRow(o, p)
      [] op[o].kind # "1" /\ op[o].clear -> NoRow
      [] op[o].kind = "2" /\ ~op[o].clear -> CancelledRow(sql.row[p])
      [] op[o].kind = "0" /\ ~op[o].clear -> ResetRow(sql.row[p])

AllReused(o) == op[o].kind = "1" /\ ReusedPages(o) = Pages

(* The rows the transaction will commit. *)
Applied(o) ==
    [sql EXCEPT
       !.run = IF AllReused(o) THEN "3" ELSE op[o].kind,
       !.prog = IF AllReused(o) THEN "one" ELSE "zero",
       !.num = IF op[o].kind = "1" \/ op[o].clear THEN Cardinality(Retained(o)) ELSE @,
       !.cfg = IF op[o].kind = "1" THEN op[o].cfg ELSE @,
       !.rev = FreshRev,
       !.log = FreshLog,
       !.gen = IF op[o].kind = "1" THEN o ELSE @,
       !.row = [p \in Pages |-> NewRow(o, p)]]

(* The ledger promises chunks that the store does not have. *)
HistoryMissing(o) ==
    /\ op[o].kind = "1" \/ op[o].clear
    /\ store = {}
    /\ sql.num > 0 \/ ChunkPages(sql) # {}

(* _existing_submission: the same work already waits in the stream. *)
AlreadySubmitted(o) ==
    /\ op[o].kind = "1" /\ sql.run = "1" /\ op[o].cfg = sql.cfg
    /\ op[o].clear => store = {} /\ sql.num = 0
    /\ \A p \in Pages : LET t == <<sql.gen, p>> IN
         /\ sql.row[p].st \in {"queued", "done"}
         /\ flag[t] = None
         /\ sql.row[p].st = "queued" => t \in sent

Plan(o) ==
    /\ op[o].pc = "plan"
    /\ \/ HistoryMissing(o) /\ Raise(o)
       \/ /\ ~HistoryMissing(o) /\ AlreadySubmitted(o)
          /\ Become(o, Ended(o, "done", "ok"))
          /\ lock' = None
       \/ /\ ~HistoryMissing(o) /\ ~AlreadySubmitted(o)
          /\ Become(o, [op[o] EXCEPT
                !.pc = IF op[o].clear \/ Obsolete(o) # {} THEN "journal" ELSE "commit",
                !.snap = IF op[o].kind = "1" \/ op[o].clear THEN store ELSE {},
                !.appl = Applied(o)])
          /\ UNCHANGED lock
    /\ UNCHANGED <<sql, guard, store, journal, flag, streamVars, src, workerVars, faults>>

(* The material as this request last had it confirmed (StoredRecovery.wire). *)
Material(o, stage) ==
    [own |-> o, phase |-> "active", snap |-> op[o].snap, orig |-> op[o].orig,
     appl |-> IF stage = "full" THEN op[o].appl ELSE None, fl |-> op[o].fl]

(* Mutant: only a request to clear the history writes a journal. *)
CreateJournalClearOnly(o) ==
    /\ op[o].pc = "journal"
    /\ GuardsImages(op[o].snap) => guard = None
    /\ journal = None
    /\ journal' = IF op[o].clear THEN Material(o, "bare") ELSE None
    /\ Become(o, [op[o] EXCEPT !.pc = "delete", !.jn = IF op[o].clear THEN "bare" ELSE "none"])
    /\ guard' = IF GuardsImages(op[o].snap) THEN o ELSE guard
    /\ UNCHANGED <<sql, lock, store, flag, streamVars, src, workerVars, faults>>

(* StoredRecovery.create: SET NX, then the exact readback decides. *)
CreateJournal(o) ==
    /\ op[o].pc = "journal"
    /\ GuardsImages(op[o].snap) => guard = None
    /\ LET material == Material(o, "bare")
       IN \/ /\ journal = None
             /\ journal' = material
             /\ Become(o, [op[o] EXCEPT !.pc = "delete", !.jn = "bare"])
             /\ UNCHANGED <<lock, faults>>
          \/ /\ IF journal = None THEN Fault /\ journal' \in {None, material}
                                  ELSE UNCHANGED <<journal, faults>>
             /\ Become(o, [op[o] EXCEPT !.pc = "except", !.jn = "bare"])
             /\ lock' = None
    /\ guard' = IF GuardsImages(op[o].snap) THEN o ELSE guard
    /\ UNCHANGED <<sql, store, flag, streamVars, src, workerVars>>

Doomed(o) == IF op[o].clear THEN store ELSE Obsolete(o)

(* Mutant: changed_store is set only after the deletion returned. *)
DeleteHistoryLateMark(o) ==
    /\ op[o].pc = "delete"
    /\ \/ /\ store' = store \ Doomed(o)
          /\ Become(o, [op[o] EXCEPT !.pc = "record", !.chg = TRUE])
          /\ UNCHANGED <<lock, faults>>
       \/ /\ Fault
          /\ \E gone \in SUBSET Doomed(o) : store' = store \ gone
          /\ Raise(o)
    /\ UNCHANGED <<sql, guard, journal, flag, streamVars, src, workerVars>>

(* delete_document_history: a failing deletion may have removed any part. *)
DeleteHistory(o) ==
    /\ op[o].pc = "delete"
    /\ \/ /\ store' = store \ Doomed(o)
          /\ Become(o, [op[o] EXCEPT !.pc = "record", !.chg = TRUE])
          /\ UNCHANGED <<lock, faults>>
       \/ /\ Fault
          /\ \E gone \in SUBSET Doomed(o) : store' = store \ gone
          /\ Become(o, [op[o] EXCEPT !.pc = "except", !.chg = TRUE])
          /\ lock' = None
    /\ UNCHANGED <<sql, guard, journal, flag, streamVars, src, workerVars>>

(* Nobody replaced the journal since this request last confirmed it. *)
OwnsJournal(o) == journal = Material(o, op[o].jn)
MayClear(o) == Clearable(Material(o, op[o].jn))

(* clear() raises: the journal is another's, or the answer was lost. *)
ClearFails(o) ==
    IF MayClear(o) THEN Fault /\ journal' \in {journal, None} ELSE UNCHANGED <<journal, faults>>

(* StoredRecovery.update: the rows about to be committed join the journal. *)
RecordApplied(o) ==
    /\ op[o].pc = "record"
    /\ \/ /\ OwnsJournal(o)
          /\ journal' = Material(o, "full")
          /\ Become(o, [op[o] EXCEPT !.pc = "commit", !.jn = "full"])
          /\ UNCHANGED <<lock, faults>>
       \/ /\ IF OwnsJournal(o) THEN Fault /\ journal' \in {journal, Material(o, "full")}
                               ELSE UNCHANGED <<journal, faults>>
          /\ Raise(o)
    /\ UNCHANGED <<sql, guard, store, flag, streamVars, src, workerVars>>

(* The commit frees the rows; its answer may be lost either way. *)
Commit(o) ==
    /\ op[o].pc = "commit"
    /\ \/ /\ sql' = op[o].appl
          /\ Goto(o, IF op[o].kind = "1" THEN "requeue" ELSE "clear")
          /\ UNCHANGED faults
       \/ /\ Fault
          /\ sql' \in {sql, op[o].appl}
          /\ Goto(o, "except")
    /\ lock' = None
    /\ UNCHANGED <<guard, store, journal, flag, streamVars, src, workerVars>>

-----------------------------------------------------------------------------
(* Enqueueing, under the row locks again *)

PendingIds(o) == LiveIds(op[o].appl)

(* Mutant: the rows are locked again but not compared. *)
StillOursUnchecked(o) == TRUE

(* Still the rows this request committed, and none of its tasks cancelled. *)
StillOurs(o) == sql = op[o].appl /\ \A t \in PendingIds(o) : flag[t] = None

Requeue(o) ==
    /\ op[o].pc = "requeue"
    /\ \/ /\ lock = None /\ StillOurs(o)
          /\ lock' = o
          /\ Goto(o, "submit")
       \/ /\ RelockBusy(o) \/ (lock = None /\ ~StillOurs(o))
          /\ Goto(o, "except")
          /\ UNCHANGED lock
    /\ UNCHANGED <<sql, guard, store, journal, flag, streamVars, src, workerVars, faults>>

(* submit_task: one XADD, then a readback tells accepted, refused or unknown. *)
Submit(o) ==
    /\ op[o].pc = "submit"
    /\ \E t \in PendingIds(o) \ op[o].ack :
         \/ /\ sent' = sent \cup {t} /\ unread' = unread \cup {t}
            /\ Become(o, [op[o] EXCEPT !.ack = @ \cup {t}])
            /\ UNCHANGED <<lock, faults>>
         \/ /\ Fault
            /\ Become(o, [op[o] EXCEPT !.pc = "except"])
            /\ lock' = None
            /\ UNCHANGED streamVars
         \/ /\ Fault
            /\ \E reached \in SUBSET {t} :
                 sent' = sent \cup reached /\ unread' = unread \cup reached
            /\ Become(o, [op[o] EXCEPT !.pc = "except", !.unc = {t}])
            /\ lock' = None
    /\ UNCHANGED <<sql, guard, store, journal, flag, src, workerVars>>

(* Mutant: one accepted task counts as all of them. *)
SubmittedEarly(o) ==
    /\ op[o].pc = "submit"
    /\ PendingIds(o) \cap op[o].ack # {}
    /\ lock' = None
    /\ Goto(o, "clear")
    /\ UNCHANGED <<sql, guard, store, journal, flag, streamVars, src, workerVars, faults>>

(* Everything was accepted; the commit that frees the rows may still fail. *)
Submitted(o) ==
    /\ op[o].pc = "submit"
    /\ PendingIds(o) \subseteq op[o].ack
    /\ lock' = None
    /\ \/ Goto(o, "clear") /\ UNCHANGED faults
       \/ Goto(o, "except") /\ Fault
    /\ UNCHANGED <<sql, guard, store, journal, flag, streamVars, src, workerVars>>

(* Mutant: success is reported but the journal stays. *)
ClearJournalForgotten(o) ==
    /\ op[o].pc = "clear"
    /\ Become(o, [op[o] EXCEPT !.pc = "closing", !.res = "ok"])
    /\ Release(o)
    /\ UNCHANGED <<sql, lock, store, journal, flag, streamVars, src, workerVars, faults>>

(* Retire the journal, if there is one, and report success. *)
ClearJournal(o) ==
    /\ op[o].pc = "clear"
    /\ \/ /\ op[o].jn # "none" => MayClear(o)
          /\ journal' = IF op[o].jn # "none" THEN None ELSE journal
          /\ Become(o, [op[o] EXCEPT !.pc = "closing", !.res = "ok"])
          /\ Release(o)
          /\ UNCHANGED faults
       \/ /\ op[o].jn # "none"
          /\ ClearFails(o)
          /\ Goto(o, "except")
          /\ UNCHANGED guard
    /\ UNCHANGED <<sql, lock, store, flag, streamVars, src, workerVars>>

-----------------------------------------------------------------------------
(* The exception handler *)

(* Mutant: a commit that never reached the server is not recognised. *)
UnchangedSqlForgotten(o) == FALSE
UnchangedSql(o) == sql = op[o].orig
(* Mutant: whoever committed something compensates. *)
OwnedSqlAssumed(o) == op[o].appl # None
OwnedSql(o) == op[o].appl # None /\ sql = op[o].appl
Exposed(o) == op[o].ack \cup op[o].unc

(* Tasks that never reached the stream must not look queued. *)
Unexposed(o) ==
    {p \in Pages : <<sql.gen, p>> \notin Exposed(o) /\ sql.row[p].st \notin {"none", "done"}}
MarkUnsubmitted(o) ==
    [sql EXCEPT
       !.log = IF Unexposed(o) = {} THEN @ ELSE FreshLog,
       !.row = [p \in Pages |-> IF p \in Unexposed(o) THEN [@[p] EXCEPT !.st = "bad"] ELSE @[p]]]

(***************************************************************************)
(* The actual rows decide what may be undone: a partial submission keeps   *)
(* its rows, untouched or own rows are compensated, anything else is left. *)
(***************************************************************************)
KeepPartial(o) ==
    /\ op[o].pc = "except"
    /\ lock = None
    /\ Exposed(o) # {} /\ OwnedSql(o)
    /\ \/ /\ sql' = MarkUnsubmitted(o)
          /\ Goto(o, "undoflags")
          /\ UNCHANGED faults
       \/ /\ Fault
          /\ sql' \in {sql, MarkUnsubmitted(o)}
          /\ Become(o, [op[o] EXCEPT !.pc = "finalize", !.failed = TRUE])
    /\ UNCHANGED <<lock, guard, store, journal, flag, streamVars, src, workerVars>>

Compensate(o) ==
    /\ op[o].pc = "except"
    /\ lock = None
    /\ ~(Exposed(o) # {} /\ OwnedSql(o))
    /\ UnchangedSql(o) \/ OwnedSql(o)
    /\ lock' = o
    /\ Goto(o, "undo")
    /\ UNCHANGED <<sql, guard, store, journal, flag, streamVars, src, workerVars, faults>>

(* "A later document operation won recovery." *)
YieldToLater(o) ==
    /\ op[o].pc = "except"
    /\ lock = None
    /\ ~UnchangedSql(o) /\ ~OwnedSql(o)
    /\ \/ /\ op[o].jn # "none" => MayClear(o)
          /\ journal' = IF op[o].jn # "none" THEN None ELSE journal
          /\ Become(o, [op[o] EXCEPT !.pc = "closing", !.res = "lost"])
          /\ Release(o)
          /\ UNCHANGED faults
       \/ /\ op[o].jn # "none"
          /\ ClearFails(o)
          /\ Become(o, [op[o] EXCEPT !.pc = "finalize", !.failed = TRUE])
          /\ UNCHANGED guard
    /\ UNCHANGED <<sql, lock, store, flag, streamVars, src, workerVars>>

(* The rows are busy while images are guarded, or cannot be read again. *)
CompensateBusy(o) ==
    /\ op[o].pc = "except"
    /\ (RelockBusy(o) /\ UNCHANGED faults) \/ Fault
    /\ Become(o, [op[o] EXCEPT !.pc = "finalize", !.failed = TRUE])
    /\ UNCHANGED <<sql, lock, guard, store, journal, flag, streamVars, src, workerVars>>

UndoStore(o) ==
    /\ op[o].pc = "undo"
    /\ \/ /\ store' = IF op[o].chg THEN op[o].snap ELSE store
          /\ Goto(o, "undosql")
          /\ UNCHANGED <<lock, faults>>
       \/ /\ op[o].chg /\ Fault
          /\ store' \in PartlyRestored(op[o].snap)
          /\ Become(o, [op[o] EXCEPT !.pc = "finalize", !.failed = TRUE])
          /\ lock' = None
    /\ UNCHANGED <<sql, guard, journal, flag, streamVars, src, workerVars>>

UndoSql(o) ==
    /\ op[o].pc = "undosql"
    /\ \/ /\ sql' = op[o].orig
          /\ Goto(o, "undoflags")
          /\ UNCHANGED faults
       \/ /\ OwnedSql(o) /\ Fault
          /\ sql' \in {sql, op[o].orig}
          /\ Become(o, [op[o] EXCEPT !.pc = "finalize", !.failed = TRUE])
    /\ lock' = None
    /\ UNCHANGED <<guard, store, journal, flag, streamVars, src, workerVars>>

(* _restore_flags: only a flag that still carries this request's nonce. *)
UndoFlags(o) ==
    /\ op[o].pc = "undoflags"
    /\ \/ /\ FlagsRestorable(o, op[o].fl)
          /\ flag' = FlagsRestored(o, op[o].fl)
          /\ Goto(o, "finalize")
          /\ UNCHANGED faults
       \/ /\ FlagsFail(o, op[o].fl)
          /\ Become(o, [op[o] EXCEPT !.pc = "finalize", !.failed = TRUE])
    /\ UNCHANGED <<sql, lock, guard, store, journal, streamVars, src, workerVars>>

(* A failed compensation keeps the journal for the next request. *)
KeepsJournal(o) == op[o].failed /\ Exposed(o) = {}
FinalJournal(o) ==
    IF KeepsJournal(o)
    THEN IF OwnsJournal(o) THEN [journal EXCEPT !.phase = "failed"] ELSE journal
    ELSE IF MayClear(o) THEN None ELSE journal
Finalize(o) ==
    LET close(j, unknown) ==
          /\ journal' = j
          /\ Become(o, [op[o] EXCEPT !.pc = "closing",
                                     !.res = IF unknown THEN "unknown" ELSE "error"])
    IN
    /\ op[o].pc = "finalize"
    /\ \/ op[o].jn = "none" /\ close(journal, op[o].failed) /\ UNCHANGED faults
       \/ op[o].jn # "none" /\ close(FinalJournal(o), op[o].failed \/ ~MayClear(o)) /\ UNCHANGED faults
       \/ op[o].jn # "none" /\ Fault /\ \E j \in {journal, FinalJournal(o)} : close(j, TRUE)
    /\ Release(o)
    /\ UNCHANGED <<sql, lock, store, flag, streamVars, src, workerVars>>

(***************************************************************************)
(* The image locks are free now; the owner lock goes next, and a confirmed *)
(* request retires the source records of the tasks it replaced.            *)
(***************************************************************************)
RetiredSrc(o) ==
    [t \in TaskIds |-> IF op[o].res = "ok" /\ t \in op[o].sel \ Ids(sql) THEN "none" ELSE src[t]]
Close(o) ==
    /\ op[o].pc = "closing"
    /\ src' = RetiredSrc(o)
    /\ Become(o, Ended(o, "done", op[o].res))
    /\ UNCHANGED <<sql, lock, guard, store, journal, flag, streamVars, workerVars, faults>>

(* The server dies: its connections, and with them its locks, are gone. *)
CrashOp(o) ==
    /\ op[o].pc \notin {"idle", "done", "dead"}
    /\ crashes < MaxCrashes
    /\ crashes' = crashes + 1
    /\ Become(o, Ended(o, "dead", "none"))
    /\ lock' = IF lock = o THEN None ELSE lock
    /\ Release(o)
    /\ UNCHANGED <<sql, store, journal, flag, streamVars, src, pel, wk, poll, faults>>

OpStep(o) ==
    \/ Preflight(o) \/ LockRows(o) \/ LoadJournal(o)
    \/ SkipJournal(o) \/ ReplayHistory(o) \/ ReplayCommit(o) \/ ReplayRelock(o)
    \/ Begin(o) \/ Plan(o) \/ CreateJournal(o) \/ DeleteHistory(o)
    \/ RecordApplied(o) \/ Commit(o)
    \/ Requeue(o) \/ Submit(o) \/ Submitted(o) \/ ClearJournal(o)
    \/ KeepPartial(o) \/ Compensate(o) \/ YieldToLater(o) \/ CompensateBusy(o)
    \/ UndoStore(o) \/ UndoSql(o) \/ UndoFlags(o) \/ Finalize(o) \/ Close(o)
=============================================================================

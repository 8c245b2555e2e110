---------------------------- MODULE IngestSystem ----------------------------
(***************************************************************************)
(* Ingestion requests, task executors and the progress poller on one       *)
(* document.                                                               *)
(***************************************************************************)
EXTENDS DocumentIngest, TaskExecutor

-----------------------------------------------------------------------------
(* The poller *)

(* get_unfinished_docs: documents whose aggregate may be out of date. *)
NeedsSync(s) ==
    /\ s.run # "2"
    /\ \/ s.prog = "part"
       \/ LivePages(s) # {}
       \/ /\ s.prog = "bad" /\ s.run = "4"
          /\ \E p \in Pages : s.row[p].st \in {"queued", "run", "done"}

PollSelect ==
    /\ ~poll
    /\ NeedsSync(sql)
    /\ poll' = TRUE
    /\ UNCHANGED <<sql, lock, guard, store, journal, flag, sent, unread, pel, src, op, wk, faults, crashes>>

(* The selection is acted on later, from the rows as they are then. *)
PollSync ==
    /\ poll
    /\ lock = None
    /\ poll' = FALSE
    /\ sql' = SyncDoc(sql)
    /\ UNCHANGED <<lock, guard, store, journal, flag, sent, unread, pel, src, op, wk, faults, crashes>>

Poll == PollSelect \/ PollSync

-----------------------------------------------------------------------------
(* The specification *)

Row(st, chunk) == [st |-> st, chunk |-> chunk]
Doc(run, prog, cfg, row) ==
    [run |-> run, prog |-> prog, cfg |-> cfg, gen |-> Origin, row |-> row,
     num |-> Cardinality({p \in Pages : row[p].chunk}),
     rev |-> CHOOSE r \in Revs : TRUE, log |-> CHOOSE r \in Revs : TRUE]

(* A new document, one whose tasks wait in the stream, one parsed           *)
(* completely, one of which some ranges failed.                            *)
FreshDocs(cfg) == {Doc("0", "zero", cfg, [p \in Pages |-> NoRow])}
QueuedDocs(cfg) == {Doc("1", "zero", cfg, [p \in Pages |-> Row("queued", FALSE)])}
ParsedDocs(cfg) == {Doc("3", "one", cfg, [p \in Pages |-> Row("done", TRUE)])}
FailedDocs(cfg) ==
    {Doc("4", "bad", cfg, [p \in Pages |-> IF p \in ok THEN Row("done", TRUE) ELSE Row("bad", FALSE)])
       : ok \in (SUBSET Pages) \ {{}, Pages}}

Init ==
    /\ \E cfg \in Cfgs :
         /\ sql \in FreshDocs(cfg) \cup QueuedDocs(cfg) \cup ParsedDocs(cfg) \cup FailedDocs(cfg)
         /\ op = [o \in Ops |-> NewOp(cfg)]
    /\ store = RegisteredChunks(sql)
    /\ lock = None /\ guard = None /\ journal = None
    /\ flag = [t \in TaskIds |-> None]
    /\ sent = Ids(sql)
    /\ unread = LiveIds(sql)
    /\ pel = [w \in Workers |-> {}]
    /\ src = [t \in TaskIds |-> IF t \in Ids(sql) /\ sql.row[t[2]].chunk THEN "ready" ELSE "none"]
    /\ wk = [w \in Workers |-> NewWorker]
    /\ poll = FALSE
    /\ faults = 0 /\ crashes = 0

OpNext == \E o \in Ops : OpStep(o) \/ CrashOp(o)
WorkerNext == \E w \in Workers : WorkerStep(w) \/ CrashWorker(w) \/ Restart(w)

Next == OpNext \/ WorkerNext \/ Poll
Spec == Init /\ [][Next]_vars

(* Requests alone: no executor, no poller. *)
RequestSpec == Init /\ [][OpNext]_vars

(* Requests that follow one another: the client waits for each to end.     *)
(* In a behaviour either calls fail or servers crash, not both.            *)
Inactive(o) == op[o].pc \in {"idle", "done", "dead"}
OneKindOfFailure == faults' = 0 \/ crashes' = 0
SequentialNext ==
    \E o \in Ops : /\ \A other \in Ops \ {o} : Inactive(other)
                   /\ OpStep(o) \/ CrashOp(o)
                   /\ OneKindOfFailure
SequentialSpec == Init /\ [][SequentialNext]_vars

(***************************************************************************)
(* Fairness: a request that was sent, a running executor and the polling   *)
(* thread keep taking steps.  Steps that wait for row locks are strongly   *)
(* fair, because PostgreSQL serves the waiters of a row in turn.  Nothing  *)
(* forces a new request, a parse failure or a crash.                       *)
(***************************************************************************)
OpWork(o) == op[o].pc # "idle" /\ OpStep(o)
WorkerWork(w) == WorkerStep(w) /\ ~ParseFails(w)
Fairness ==
    /\ \A o \in Ops : SF_vars(OpWork(o))
    /\ \A w \in Workers : SF_vars(WorkerWork(w)) /\ WF_vars(Restart(w))
    /\ WF_vars(PollSelect) /\ SF_vars(PollSync)
FairSpec == Spec /\ Fairness

-----------------------------------------------------------------------------
(* Safety *)

(***************************************************************************)
(* Chunks are written for a task only while it is the document's current   *)
(* work: from the fence check over the durable intent and the native write *)
(* to the registration, nobody cancels, resets or replaces the task        *)
(* (insert_source_chunks inside current_document_task).                    *)
(***************************************************************************)
FencedWrites ==
    \A w \in Workers :
        wk[w].pc \in {"prepare", "native", "register"} => Fence(sql, wk[w].t)

(***************************************************************************)
(* What a request plans from the rows it read still holds when it commits, *)
(* what it enqueues is exactly what it committed, and what it compensates  *)
(* is still its own: the rows never move under _operate while it has them. *)
(***************************************************************************)
RowsDoNotMove ==
    \A o \in Ops :
        /\ op[o].pc \in {"plan", "journal", "delete", "record", "commit"} => sql = op[o].orig
        /\ op[o].pc = "submit" => sql = op[o].appl
        /\ op[o].pc \in {"undo", "undosql"} => UnchangedSql(o) \/ OwnedSql(o)

(***************************************************************************)
(* Whenever the ledger (chunk_num) and the stored history disagree and     *)
(* nobody holds the document, the journal is there and still applies: some *)
(* request can put the history back (_recover_history).                    *)
(***************************************************************************)
LedgerDiffers == sql.num # Cardinality(store)
HistoryRecoverable ==
    lock = None /\ LedgerDiffers => journal # None /\ ~JournalStale(journal)

(***************************************************************************)
(* A request that reports an error, and exposed no task to the executors,  *)
(* changed nothing: rows, chunks and cancel flags are as it found them     *)
(* (the compensation in the exception handler of _operate).                *)
(***************************************************************************)
ErrorMeansUndone ==
    \A o \in Ops : op[o].pc = "closing" /\ op[o].res = "error" /\ Exposed(o) = {} =>
        /\ sql = op[o].orig
        /\ op[o].appl # None /\ op[o].snap # {} => store = op[o].snap
        /\ \A n \in op[o].fl : flag[n[1]] = n[2]

(***************************************************************************)
(* A finished task is searchable: while nobody holds the rows, the chunks  *)
(* of every "done" row are registered and stored under the document's      *)
(* current configuration (prepare_parse_tasks, reuse_prev_task_chunks and  *)
(* the fence keep rows and chunks of different generations apart).  A      *)
(* journal that stands says that a request may have the store changed and  *)
(* the rows not; runs and theorem are about work that nothing disturbs.    *)
(***************************************************************************)
DoneIsStored ==
    lock = None /\ journal = None => \A p \in Pages : sql.row[p].st = "done" =>
        sql.row[p].chunk /\ <<p, sql.cfg>> \in store

(* Without failures chunk_num counts exactly the stored chunks. *)
LedgerAgrees == lock = None => ~LedgerDiffers

(***************************************************************************)
(* Only unconfirmed work is rolled back: the history a request restores    *)
(* from the journal was removed by a request that did not report success   *)
(* (recovery_owner_active, _recovery_submitted in _recover_history).       *)
(***************************************************************************)
ConfirmedIsKept ==
    \A o \in Ops : op[o].pc \in {"recommit", "relock"} => op[op[o].rec.own].res # "ok"

(***************************************************************************)
(* A cancel that was confirmed holds: as long as a task row it stopped     *)
(* exists, no executor, no compensation of another request and no poller   *)
(* that selected the document earlier revives the task or the document     *)
(* (TASK_CANCEL_MARKER in get_task and update_progress, _sync_progress).   *)
(***************************************************************************)
CancelSticks ==
    \A o \in Ops : op[o].pc = "done" =>
        \A n \in op[o].fl : n[1] \in Ids(sql) =>
            sql.row[n[1][2]].st = "cancelled" /\ sql.run = "2"

(***************************************************************************)
(* A confirmed start is never lost: a task of it that still waits to run   *)
(* has its message in the stream, or delivered and unacknowledged          *)
(* (submit_task before success is reported; XACK only after the work).     *)
(***************************************************************************)
ConfirmedWorkWaits ==
    \A o \in Ops : op[o].pc = "done" /\ op[o].res = "ok" /\ sql.gen = o =>
        \A p \in Pages : sql.row[p].st = "queued" =>
            <<o, p>> \in unread \cup UNION {pel[w] : w \in Workers}

(***************************************************************************)
(* A request that gives up its compensation for "a later document          *)
(* operation" did meet another document operation.                         *)
(***************************************************************************)
YieldsOnlyToRequests ==
    \A o \in Ops : op[o].res = "lost" =>
        \E other \in Ops \ {o} : op[other].pc \notin {"idle", "locking"}

(***************************************************************************)
(* A committed result is final: neither redelivery after a crash nor a late*)
(* report takes a finished task back while its row exists (the progress    *)
(* >= 1 check of collect). It does not survive a failed clearing that      *)
(* restores the row behind that check: README, known limits.               *)
(***************************************************************************)
DoneIsFinal ==
    [][\A p \in Pages :
          sql.row[p].st = "done" /\ sql'.gen = sql.gen /\ sql'.row[p].st # "none"
          => sql'.row[p].st = "done"]_vars

-----------------------------------------------------------------------------
(* Liveness *)

(* Every request that was sent ends: no wait among row locks, image locks  *)
(* and the owner lock is circular (with_for_update(nowait=...)).           *)
RequestsEnd == \A o \in Ops : op[o].pc = "locking" ~> op[o].pc \in {"done", "dead"}

(***************************************************************************)
(* A task whose start was confirmed ends, whatever crashes: its message is *)
(* redelivered until the executor has reported a result.                   *)
(***************************************************************************)
Waiting(o, p) ==
    op[o].pc = "done" /\ op[o].res = "ok" /\ sql.gen = o /\ sql.row[p].st \in Unfinished
ConfirmedTasksEnd == \A o \in Ops, p \in Pages : Waiting(o, p) ~> ~Waiting(o, p)

(***************************************************************************)
(* A task that waits in the stream ends, also when requests to stop or to  *)
(* replace it come in between (_cancel_flags, collect), as long as no call *)
(* fails and nobody crashes: a compensated cancel may have consumed the    *)
(* message of the task it restores.                                        *)
(***************************************************************************)
Undisturbed == faults = 0 /\ crashes = 0
InStream(p) == Undisturbed /\ sql.gen = Origin /\ sql.row[p].st \in Unfinished
QueuedTasksEnd == \A p \in Pages : InStream(p) ~> ~InStream(p)

(***************************************************************************)
(* A confirmed start leaves RUNNING: its document becomes DONE or FAIL,    *)
(* unless a later request took the document over (_sync_progress) or an    *)
(* executor crashed between its last report and record_task_pipeline.      *)
(***************************************************************************)
Running(o) ==
    Undisturbed /\ op[o].pc = "done" /\ op[o].res = "ok" /\ sql.gen = o /\ sql.run = "1"
WorkSettles == \A o \in Ops : Running(o) ~> ~Running(o)
=============================================================================

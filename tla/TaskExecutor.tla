---------------------------- MODULE TaskExecutor ----------------------------
(***************************************************************************)
(* A task executor process: collect a task from the stream, parse, index   *)
(* under the document fence, report progress, record, acknowledge.         *)
(*                                                                         *)
(* One process here handles one task at a time.  A restarted process has   *)
(* the same consumer name and first replays the entries it never           *)
(* acknowledged.                                                           *)
(***************************************************************************)
EXTENDS IngestState

NewWorker == [pc |-> "idle", t |-> None, stage |-> "parse", stop |-> FALSE, replay |-> {}]

requestVars == <<op, journal, flag, sent, poll, faults>>

WkBecome(w, x) == wk' = [wk EXCEPT ![w] = x]
WkGoto(w, pc) == WkBecome(w, [wk[w] EXCEPT !.pc = pc])
Say(w, stage) == WkBecome(w, [wk[w] EXCEPT !.pc = "report", !.stage = stage])
Page(w) == wk[w].t[2]
ChunkOf(w) == <<Page(w), sql.cfg>>

-----------------------------------------------------------------------------
(* collect *)

(* Own unacknowledged entries first, once after a start; then new entries. *)
Deliver(w) ==
    /\ wk[w].pc = "idle"
    /\ \/ \E t \in wk[w].replay :
            /\ WkBecome(w, [wk[w] EXCEPT !.pc = "got", !.t = t, !.replay = @ \ {t}])
            /\ UNCHANGED <<unread, pel>>
       \/ /\ wk[w].replay = {}
          /\ \E t \in unread :
               /\ unread' = unread \ {t}
               /\ pel' = [pel EXCEPT ![w] = @ \cup {t}]
               /\ WkBecome(w, [wk[w] EXCEPT !.pc = "got", !.t = t])
    /\ UNCHANGED <<sql, lock, guard, store, src, requestVars, crashes>>

(* Mutant: every redelivery runs again. *)
CompletedIgnored(t) == FALSE
Completed(t) == t \in Ids(sql) /\ sql.row[t[2]].st = "done"

(* A result committed before a crash is kept: acknowledge, do not run again. *)
Receive(w) ==
    /\ wk[w].pc = "got"
    /\ WkGoto(w, IF Completed(wk[w].t) THEN "ack" ELSE "load")
    /\ UNCHANGED <<sql, lock, guard, store, pel, unread, src, requestVars, crashes>>

(* Mutant: the cancel marker is not part of the update's condition. *)
LoadableUnmarked(t) == t \in Ids(sql)
Loadable(t) == t \in Ids(sql) /\ sql.row[t[2]].st # "cancelled"

(* get_task: any row without the cancel marker goes back to small progress. *)
GetTask(w) ==
    /\ wk[w].pc = "load"
    /\ lock = None
    /\ IF Loadable(wk[w].t)
       THEN /\ sql' = [sql EXCEPT !.row[Page(w)].st = "run", !.log = FreshLog]
            /\ WkGoto(w, "check")
       ELSE /\ WkGoto(w, "ack")
            /\ UNCHANGED sql
    /\ UNCHANGED <<lock, guard, store, pel, unread, src, requestVars, crashes>>

HasCanceled(t) == flag[t] # None

CheckCanceled(w) ==
    /\ wk[w].pc = "check"
    /\ IF HasCanceled(wk[w].t) THEN WkGoto(w, "ack") ELSE Say(w, "parse")
    /\ UNCHANGED <<sql, lock, guard, store, pel, unread, src, requestVars, crashes>>

-----------------------------------------------------------------------------
(* set_progress and update_progress *)

(* Parsing, chunking or embedding raises. *)
ParseFails(w) ==
    /\ wk[w].pc = "report" /\ wk[w].stage = "parse"
    /\ Say(w, "fail")
    /\ UNCHANGED <<sql, lock, guard, store, pel, unread, src, requestVars, crashes>>

(* The flag is read first, outside the transaction of the write. *)
Report(w) ==
    /\ wk[w].pc = "report"
    /\ WkBecome(w, [wk[w] EXCEPT !.pc = "write", !.stop = HasCanceled(wk[w].t)])
    /\ UNCHANGED <<sql, lock, guard, store, pel, unread, src, requestVars, crashes>>

Reported(w) ==
    IF wk[w].stop \/ wk[w].stage = "fail" THEN "bad"
    ELSE IF wk[w].stage = "finish" THEN "done" ELSE "run"

(***************************************************************************)
(* Completion overrides a failure; a failure overrides progress; progress  *)
(* never overrides a failure or goes back; the cancel marker stops all.    *)
(***************************************************************************)
Progressed(st, new) ==
    CASE st = "cancelled" -> st
      [] st # "cancelled" /\ new = "done" -> "done"
      [] st # "cancelled" /\ new = "bad" -> "bad"
      [] st # "cancelled" /\ new = "run" -> IF st \in {"bad", "done"} THEN st ELSE "run"

(* Mutant: the stage is taken for the next step. *)
AfterReportStage(w) == IF wk[w].stop THEN "end" ELSE wk[w].stage
AfterReport(w) ==
    IF wk[w].stop THEN "end"
    ELSE CASE wk[w].stage = "parse" -> "insert"
           [] wk[w].stage = "index" -> "count"
           [] wk[w].stage \in {"finish", "fail"} -> "end"

WriteProgress(w) ==
    /\ wk[w].pc = "write"
    /\ lock = None
    /\ IF Loadable(wk[w].t)
       THEN sql' = [sql EXCEPT !.row[Page(w)].st = Progressed(@, Reported(w)), !.log = FreshLog]
       ELSE UNCHANGED sql
    /\ WkBecome(w, [wk[w] EXCEPT !.pc = AfterReport(w), !.stage = "parse", !.stop = FALSE])
    /\ UNCHANGED <<lock, guard, store, pel, unread, src, requestVars, crashes>>

-----------------------------------------------------------------------------
(* insert_source_chunks *)

(* Mutant: the fence is checked without FOR UPDATE. *)
EnterFenceUnlocked(w) ==
    /\ wk[w].pc = "insert"
    /\ lock = None
    /\ IF Fence(sql, wk[w].t) /\ src[wk[w].t] # "open" THEN WkGoto(w, "prepare") ELSE Say(w, "fail")
    /\ UNCHANGED <<sql, lock, guard, store, pel, unread, src, requestVars, crashes>>

(* Take the row locks, unless the task is superseded or must be reconciled. *)
EnterFence(w) ==
    /\ wk[w].pc = "insert"
    /\ lock = None
    /\ \/ /\ Fence(sql, wk[w].t) /\ src[wk[w].t] # "open"
          /\ lock' = w
          /\ WkGoto(w, "prepare")
       \/ /\ ~Fence(sql, wk[w].t) \/ src[wk[w].t] = "open"
          /\ Say(w, "fail")
          /\ UNCHANGED lock
    /\ UNCHANGED <<sql, guard, store, pel, unread, src, requestVars, crashes>>

(* A record that is ready claims rows which must still be stored. *)
SourceLost(w) == src[wk[w].t] = "ready" /\ ChunkOf(w) \notin store

(* The durable intent, under the image locks, precedes the native write. *)
PrepareSource(w) ==
    /\ wk[w].pc = "prepare"
    /\ Images => guard = None
    /\ src' = [src EXCEPT ![wk[w].t] = "open"]
    /\ IF SourceLost(w)
       THEN Say(w, "fail") /\ lock' = None /\ UNCHANGED guard
       ELSE WkGoto(w, "native") /\ guard' = (IF Images THEN w ELSE guard) /\ UNCHANGED lock
    /\ UNCHANGED <<sql, store, pel, unread, requestVars, crashes>>

NativeInsert(w) ==
    /\ wk[w].pc = "native"
    /\ store' = store \cup {ChunkOf(w)}
    /\ WkGoto(w, "register")
    /\ UNCHANGED <<sql, lock, guard, pel, unread, src, requestVars, crashes>>

(* Chunk identifiers and the ledger commit together, still under the fence. *)
Registered(w) == [Reconcile(sql, store) EXCEPT !.row[Page(w)].chunk = TRUE, !.log = FreshLog]

RegisterChunks(w) ==
    /\ wk[w].pc = "register"
    /\ sql' = Registered(w)
    /\ lock' = None
    /\ WkGoto(w, "ready")
    /\ UNCHANGED <<guard, store, pel, unread, src, requestVars, crashes>>

MarkReady(w) ==
    /\ wk[w].pc = "ready"
    /\ IF src[wk[w].t] = "open"
       THEN src' = [src EXCEPT ![wk[w].t] = "ready"] /\ Say(w, "index")
       ELSE Say(w, "fail") /\ UNCHANGED src
    /\ guard' = IF guard = w THEN None ELSE guard
    /\ UNCHANGED <<sql, lock, store, pel, unread, requestVars, crashes>>

(* increment_task_document, behind the same fence *)
CountChunks(w) ==
    /\ wk[w].pc = "count"
    /\ lock = None
    /\ \/ /\ Fence(sql, wk[w].t)
          /\ sql' = [Reconcile(sql, store) EXCEPT !.log = FreshLog]
          /\ Say(w, "finish")
       \/ /\ ~Fence(sql, wk[w].t)
          /\ Say(w, "fail")
          /\ UNCHANGED sql
    /\ UNCHANGED <<lock, guard, store, pel, unread, src, requestVars, crashes>>

-----------------------------------------------------------------------------
(* The end of handle_task *)

(* Mutant: the log entry is written but progress is not aggregated. *)
RecordPipelineSilent(w) ==
    /\ wk[w].pc = "end"
    /\ lock = None
    /\ WkGoto(w, "ack")
    /\ UNCHANGED <<sql, lock, guard, store, pel, unread, src, requestVars, crashes>>

(* record_task_pipeline aggregates progress while it holds the row locks. *)
RecordPipeline(w) ==
    /\ wk[w].pc = "end"
    /\ lock = None
    /\ sql' = IF wk[w].t \in Ids(sql) THEN SyncDoc(sql) ELSE sql
    /\ WkGoto(w, "ack")
    /\ UNCHANGED <<lock, guard, store, pel, unread, src, requestVars, crashes>>

Ack(w) ==
    /\ wk[w].pc = "ack"
    /\ pel' = [pel EXCEPT ![w] = @ \ {wk[w].t}]
    /\ WkBecome(w, [NewWorker EXCEPT !.replay = wk[w].replay])
    /\ UNCHANGED <<sql, lock, guard, store, unread, src, requestVars, crashes>>

(* A crash while waiting for a message changes nothing and is left out. *)
CrashWorker(w) ==
    /\ wk[w].pc \notin {"idle", "down"}
    /\ crashes < MaxCrashes
    /\ crashes' = crashes + 1
    /\ WkBecome(w, [NewWorker EXCEPT !.pc = "down"])
    /\ lock' = IF lock = w THEN None ELSE lock
    /\ guard' = IF guard = w THEN None ELSE guard
    /\ UNCHANGED <<sql, store, pel, unread, src, requestVars>>

(* Mutant: a restarted executor only asks for new entries. *)
RestartForgets(w) ==
    /\ wk[w].pc = "down"
    /\ WkBecome(w, [wk[w] EXCEPT !.pc = "idle"])
    /\ UNCHANGED <<sql, lock, guard, store, pel, unread, src, requestVars, crashes>>

Restart(w) ==
    /\ wk[w].pc = "down"
    /\ WkBecome(w, [wk[w] EXCEPT !.pc = "idle", !.replay = pel[w]])
    /\ UNCHANGED <<sql, lock, guard, store, pel, unread, src, requestVars, crashes>>

WorkerStep(w) ==
    \/ Deliver(w) \/ Receive(w) \/ GetTask(w) \/ CheckCanceled(w)
    \/ ParseFails(w) \/ Report(w) \/ WriteProgress(w)
    \/ EnterFence(w) \/ PrepareSource(w) \/ NativeInsert(w) \/ RegisterChunks(w) \/ MarkReady(w)
    \/ CountChunks(w) \/ RecordPipeline(w) \/ Ack(w)
=============================================================================

----------------------------- MODULE TaskRuntime -----------------------------
(***************************************************************************)
(* One execution attempt, its runtime binding in Redis, and the requests   *)
(* that cancel it (core/utils/task_runtime.py,                             *)
(* api/db/services/task_cancellation_service.py).  An attempt is a canvas  *)
(* completion ("agent": a binding, no task row), a debug dataflow (a       *)
(* binding and a row) or an ordinary background task ("task": a row only). *)
(*                                                                         *)
(* Lua scripts are atomic.  A request holds the task row from its first    *)
(* read to its commit or rollback, and compensates after the rollback.     *)
(* Its scripts run on threads: one whose answer is lost, or which nobody   *)
(* awaits any more, still runs, now or later, if it runs at all.           *)
(***************************************************************************)
EXTENDS Naturals

CONSTANTS
    Requests,       \* cancel requests; each is its own nonce
    MaxFaults,      \* bound: failing calls, crashes, expired keys
    None

Kinds == {"agent", "dataflow", "task"}
NoBinding == [state |-> "none", token |-> None]
Fresh == [state |-> "active", token |-> None]
Mark == "x"

ASSUME RuntimeAssumption ==
    /\ MaxFaults \in Nat
    /\ None \notin Requests
    /\ Mark \notin Requests /\ Mark # None
    /\ None \notin {"success", "failed", "cancelled", "already", "restored"}

VARIABLES
    kind,       \* which kind of attempt this is
    binding,    \* task-runtime:v1:<id>
    flag,       \* <id>-cancel
    row,        \* the Task row: progress, and does it carry the cancel marker?
    lock,       \* the request that holds the row
    rn,         \* where the attempt is
    outcome,    \* what the attempt made durable
    cr,         \* cancel requests: position, binding read, answer to the client
    faults

vars == <<kind, binding, flag, row, lock, rn, outcome, cr, faults>>
attempt == <<kind, rn, outcome>>

BindingStates == {"none", "active", "cancel_requested", "finished"}
Bindings == [state : BindingStates, token : Requests \cup {None}]
Rows == [progress : {"none", "open", "done", "failed"}, marked : BOOLEAN]
RunnerPcs == {"bind", "queue", "running", "report", "finish", "persist", "close", "mark", "ended"}
AtWork == {"flag", "reread", "commit", "compensate"}
(* Requests that are over; "late_cancel" and "late_restore" have left a    *)
(* script behind, and at "undone" that restore has taken effect.           *)
Over == {"end", "late_cancel", "late_restore", "undone"}
RequestPcs == {"idle"} \cup AtWork \cup Over
(* "already" and "noop" are both acknowledged without a change: another    *)
(* cancellation is in force, or there is nothing to cancel.  "restored",   *)
(* "error" and "unconfirmed" report an error after a compensation, without *)
(* one, and after one that failed.                                         *)
Answers == {None, "cancelled", "already", "noop", "restored", "error", "unconfirmed"}

HasRow == row.progress # "none"
Fault == faults < MaxFaults /\ faults' = faults + 1

Init ==
    /\ kind \in Kinds
    /\ binding = NoBinding
    /\ flag = None
    /\ row = [progress |-> IF kind = "task" THEN "open" ELSE "none", marked |-> FALSE]
    /\ lock = None
    /\ rn = IF kind = "task" THEN "running" ELSE "bind"
    /\ outcome = None
    /\ cr = [c \in Requests |-> [pc |-> "idle", raw |-> NoBinding, answer |-> None]]
    /\ faults = 0

-----------------------------------------------------------------------------
(***************************************************************************)
(* The attempt.                                                            *)
(***************************************************************************)

(* register_runtime, with SET NX. *)
Bind ==
    /\ rn = "bind"
    /\ binding' = Fresh
    /\ rn' = IF kind = "dataflow" THEN "queue" ELSE "running"
    /\ UNCHANGED <<kind, flag, row, lock, outcome, cr, faults>>

(* queue_dataflow checks the binding and inserts the row, or fails. *)
Queue ==
    /\ rn = "queue"
    /\ \/ /\ binding.state # "none"
          /\ row' = [row EXCEPT !.progress = "open"]
          /\ rn' = "running" /\ UNCHANGED faults
       \/ /\ binding.state # "none" /\ Fault
          /\ row' \in {row, [row EXCEPT !.progress = "open"]}
          /\ rn' = "close"
       \/ binding.state = "none" /\ rn' = "close" /\ UNCHANGED <<row, faults>>
    /\ UNCHANGED <<kind, binding, flag, lock, outcome, cr>>

(* The attempt stops early: it fails, its client is gone, or it sees the   *)
(* flag.  An executor records a failure in the row, and the flag nowhere.  *)
Stop ==
    /\ rn = "running"
    /\ \/ kind # "agent" /\ rn' = "report"
       \/ (kind = "agent" \/ flag # None) /\ rn' = "close"
    /\ outcome' = "failed"
    /\ UNCHANGED <<kind, binding, flag, row, lock, cr, faults>>

(* The work is done.  set_progress reads the flag here and writes later. *)
Complete ==
    /\ rn = "running"
    /\ rn' = CASE kind = "agent" -> "finish"
               [] kind = "dataflow" -> "close"
               [] kind = "task" -> "report"
    /\ outcome' = IF kind = "task" /\ flag # None THEN "failed" ELSE None
    /\ UNCHANGED <<kind, binding, flag, row, lock, cr, faults>>

(* update_progress: nothing is written to a row with the cancel marker. *)
ReportUnmarked ==
    /\ rn = "report" /\ lock = None
    /\ row' = [row EXCEPT !.progress = IF outcome = None THEN "done" ELSE "failed"]
    /\ outcome' = IF outcome = None THEN "success" ELSE "failed"
    /\ rn' = "close"
    /\ UNCHANGED <<kind, binding, flag, lock, cr, faults>>

Report ==
    /\ rn = "report" /\ lock = None
    /\ row' = IF row.marked THEN row
              ELSE [row EXCEPT !.progress = IF outcome = None THEN "done" ELSE "failed"]
    /\ outcome' = IF outcome = None /\ ~row.marked THEN "success" ELSE "failed"
    /\ rn' = "close"
    /\ UNCHANGED <<kind, binding, flag, lock, cr, faults>>

(* FINISH_RUNTIME_SCRIPT *)
Finished == IF binding.state = "active" THEN [binding EXCEPT !.state = "finished"] ELSE binding

(* require_runtime_finish: only "finished" lets the agent persist. *)
FinishUnlessExpired ==
    /\ rn = "finish"
    /\ binding' = Finished
    /\ IF binding.state # "none"
       THEN rn' = "persist" /\ UNCHANGED outcome
       ELSE rn' = "mark" /\ outcome' = "failed"
    /\ UNCHANGED <<kind, flag, row, lock, cr, faults>>

Finish ==
    /\ rn = "finish"
    /\ binding' = Finished
    /\ IF binding.state \in {"active", "finished"}
       THEN rn' = "persist" /\ UNCHANGED outcome
       ELSE rn' = "mark" /\ outcome' = "failed"
    /\ UNCHANGED <<kind, flag, row, lock, cr, faults>>

(* The call fails before or after the script ran; it is not repeated. *)
FinishFails ==
    /\ rn = "finish" /\ Fault
    /\ binding' \in {binding, Finished}
    /\ rn' = "mark" /\ outcome' = "failed"
    /\ UNCHANGED <<kind, flag, row, lock, cr>>

(* append_message succeeds, or the failure is persisted in its place. *)
Persist ==
    /\ rn = "persist"
    /\ \/ outcome' = "success" /\ UNCHANGED faults
       \/ outcome' = "failed" /\ Fault
    /\ rn' = "mark"
    /\ UNCHANGED <<kind, binding, flag, row, lock, cr>>

(* finish_runtime in the cleanup, whatever it answers. *)
Close ==
    /\ rn = "close"
    /\ binding' = Finished
    /\ rn' = IF kind = "agent" THEN "mark" ELSE "ended"
    /\ UNCHANGED <<kind, flag, row, lock, outcome, cr, faults>>

(* Canvas.cancel_task keeps a request's nonce. *)
MarkFlagAlways ==
    /\ rn = "mark"
    /\ flag' = Mark
    /\ rn' = "ended"
    /\ UNCHANGED <<kind, binding, row, lock, outcome, cr, faults>>

MarkFlag ==
    /\ rn = "mark"
    /\ flag' = IF flag = None THEN Mark ELSE flag
    /\ rn' = "ended"
    /\ UNCHANGED <<kind, binding, row, lock, outcome, cr, faults>>

AttemptCrash ==
    /\ rn # "ended" /\ Fault
    /\ rn' = "ended"
    /\ UNCHANGED <<kind, binding, flag, row, lock, outcome, cr>>

(* The binding expires after a day, with the flag that was set with it; a  *)
(* task's flag expires alone.                                              *)
Expire ==
    /\ Fault
    /\ \/ /\ binding.state # "none"
          /\ flag' = IF binding.token # None /\ flag = binding.token THEN None ELSE flag
       \/ kind = "task" /\ flag # None /\ flag' = None
    /\ binding' = NoBinding
    /\ UNCHANGED <<kind, row, lock, rn, outcome, cr>>

-----------------------------------------------------------------------------
(***************************************************************************)
(* cancel_task.                                                            *)
(***************************************************************************)
Leave(c, pc, answer) ==
    /\ cr' = [cr EXCEPT ![c].pc = pc, ![c].answer = answer]
    /\ lock' = IF lock = c THEN None ELSE lock

Answer(c, answer) == Leave(c, "end", answer)

Goto(c, pc) == cr' = [cr EXCEPT ![c].pc = pc]

Terminal == HasRow /\ row.progress # "open"
Acknowledge(c) == Answer(c, IF binding.state = "cancel_requested" THEN "already" ELSE "noop")

(* Lock the row, read the binding, and decide whether there is anything to *)
(* cancel.                                                                 *)
Ask(c) ==
    /\ cr[c].pc = "idle"
    /\ HasRow => lock = None
    /\ IF HasRow /\ kind = "dataflow" /\ binding.state = "none" THEN Answer(c, "error")
       ELSE IF \/ ~HasRow /\ binding.state = "none"
               \/ Terminal
               \/ binding.state \in {"cancel_requested", "finished"} THEN Acknowledge(c)
       ELSE /\ cr' = [cr EXCEPT ![c].pc = "flag", ![c].raw = binding]
            /\ lock' = IF HasRow THEN c ELSE lock
    /\ UNCHANGED <<attempt, binding, flag, row, faults>>

(* CANCEL_RUNTIME_SCRIPT compares the whole binding; a task without one    *)
(* only gets the flag.                                                     *)
FlagWritten(c) ==
    IF cr[c].raw = NoBinding THEN flag' = c /\ UNCHANGED binding
    ELSE /\ binding = cr[c].raw
         /\ binding' = [state |-> "cancel_requested", token |-> c]
         /\ flag' = c

Cancel(c) ==
    /\ cr[c].pc = "flag"
    /\ FlagWritten(c) /\ Goto(c, "commit")
    /\ UNCHANGED <<attempt, row, lock, faults>>

CancelLoses(c) ==
    /\ cr[c].pc = "flag"
    /\ cr[c].raw # NoBinding /\ binding # cr[c].raw
    /\ Goto(c, "reread")
    /\ UNCHANGED <<attempt, binding, flag, row, lock, faults>>

(* The call fails, or nobody waits for it any more; the script may run all *)
(* the same, and nothing is compensated.                                   *)
CancelFails(c) ==
    /\ cr[c].pc = "flag" /\ Fault
    /\ Leave(c, "late_cancel", "error")
    /\ UNCHANGED <<attempt, binding, flag, row>>

LateCancel(c) ==
    /\ cr[c].pc = "late_cancel"
    /\ FlagWritten(c) /\ Goto(c, "end")
    /\ UNCHANGED <<attempt, row, lock, faults>>

Reread(c) ==
    /\ cr[c].pc = "reread"
    /\ IF binding.state = "active" THEN Answer(c, "error") ELSE Acknowledge(c)
    /\ UNCHANGED <<attempt, binding, flag, row, faults>>

(* The row is updated if the request found, and so locked, one. *)
RowCancelledByState(c) ==
    IF lock = c /\ row.progress = "open" THEN [row EXCEPT !.progress = "cancelled"] ELSE row

RowCancelled(c) ==
    IF lock = c /\ row.progress = "open" THEN [progress |-> "failed", marked |-> TRUE] ELSE row

Commit(c) ==
    /\ cr[c].pc = "commit"
    /\ row' = RowCancelled(c)
    /\ Answer(c, "cancelled")
    /\ UNCHANGED <<attempt, binding, flag, faults>>

(* The commit fails, or succeeds without an answer; the rollback frees the *)
(* row before the compensation.                                            *)
CommitFails(c) ==
    /\ cr[c].pc = "commit" /\ Fault
    /\ row' \in {row, RowCancelled(c)}
    /\ Goto(c, "compensate")
    /\ lock' = IF lock = c THEN None ELSE lock
    /\ UNCHANGED <<attempt, binding, flag>>

(* RESTORE_RUNTIME_SCRIPT or DELETE_CANCEL_SCRIPT: only this nonce. *)
Restorable(c) == flag = c /\ (cr[c].raw # NoBinding => binding.token = c)

RestoredFlagOnly(c) ==
    /\ binding' = binding
    /\ flag' = None

Restored(c) ==
    /\ binding' = IF cr[c].raw = NoBinding THEN binding ELSE cr[c].raw
    /\ flag' = None

Compensate(c) ==
    /\ cr[c].pc = "compensate"
    /\ IF Restorable(c)
       THEN Restored(c) /\ Answer(c, "restored")
       ELSE Answer(c, "unconfirmed") /\ UNCHANGED <<binding, flag>>
    /\ UNCHANGED <<attempt, row, faults>>

(* The error says that the compensation could not be confirmed, which does *)
(* not keep the script from running.                                       *)
CompensateFails(c) ==
    /\ cr[c].pc = "compensate" /\ Fault
    /\ Leave(c, "late_restore", "unconfirmed")
    /\ UNCHANGED <<attempt, binding, flag, row>>

LateRestore(c) ==
    /\ cr[c].pc = "late_restore" /\ Restorable(c)
    /\ Restored(c) /\ Goto(c, "undone")
    /\ UNCHANGED <<attempt, row, lock, faults>>

(* The server dies: no answer, and the database frees the row.  What it    *)
(* has sent to Redis or to the database may still take effect.             *)
RequestCrash(c) ==
    /\ cr[c].pc \in AtWork /\ Fault
    /\ Leave(c, CASE cr[c].pc = "flag" -> "late_cancel"
                  [] cr[c].pc = "compensate" -> "late_restore"
                  [] OTHER -> "end", None)
    /\ row' = row \/ (cr[c].pc = "commit" /\ row' = RowCancelled(c))
    /\ UNCHANGED <<attempt, binding, flag>>

AttemptStep ==
    \/ Bind \/ Queue \/ Stop \/ Complete \/ Report \/ Finish \/ FinishFails \/ Persist
    \/ Close \/ MarkFlag \/ AttemptCrash \/ Expire
RequestStep(c) ==
    \/ Ask(c) \/ Cancel(c) \/ CancelLoses(c) \/ CancelFails(c) \/ Reread(c) \/ Commit(c)
    \/ CommitFails(c) \/ Compensate(c) \/ CompensateFails(c) \/ RequestCrash(c)
    \/ LateCancel(c) \/ LateRestore(c)

Next == AttemptStep \/ \E c \in Requests : RequestStep(c)
Spec == Init /\ [][Next]_vars

-----------------------------------------------------------------------------
(* The values that the variables may have. *)
TypeOK ==
    /\ kind \in Kinds
    /\ binding \in Bindings
    /\ flag \in Requests \cup {None, Mark}
    /\ row \in Rows
    /\ lock \in Requests \cup {None}
    /\ rn \in RunnerPcs
    /\ outcome \in {None, "success", "failed"}
    /\ cr \in [Requests -> [pc : RequestPcs, raw : Bindings, answer : Answers]]
    /\ faults \in Nat

(***************************************************************************)
(* An attempt whose cancellation was committed never makes a success       *)
(* durable, whichever of finish, cancel, restore, expiry and commit come   *)
(* first (finish_runtime: "without reviving a cancelled run").             *)
(***************************************************************************)
CancelExcludesSuccess ==
    outcome = "success" => \A c \in Requests : cr[c].answer # "cancelled"

(* The runner learns of a cancellation from the flag alone, so while the   *)
(* binding says cancel_requested the flag carries the same nonce; in that  *)
(* state no other request can remove it.                                   *)
CancellationIsVisible ==
    binding.state = "cancel_requested" => flag = binding.token

(* A request that reported a compensated error, or that found nothing to   *)
(* cancel, is not the reason why an attempt is refused its success.        *)
CancellationHasOwner ==
    binding.state = "cancel_requested" =>
        cr[binding.token].pc \in {"commit", "compensate"}
        \/ cr[binding.token].answer \in {"cancelled", "error", "unconfirmed", None}

(***************************************************************************)
(* Every request that was acknowledged because the attempt is cancelled,   *)
(* by itself or by another request, can rely on it: the attempt does not   *)
(* succeed.  "Re-read through the same authorization path before           *)
(* acknowledging" (cancel_task) does not achieve this when the other       *)
(* request compensates later.                                              *)
(***************************************************************************)
AcknowledgedHolds ==
    outcome = "success" => \A c \in Requests : cr[c].answer \notin {"cancelled", "already"}

(* The restore of a request took effect, whatever the request reported. *)
Undone(c) == cr[c].answer = "restored" \/ cr[c].pc = "undone"

(* It holds as long as no restore takes effect: a compensation that failed *)
(* without effect, a request that died, or a lost answer do not matter.    *)
AcknowledgedUnlessRestored ==
    (\A c \in Requests : ~Undone(c)) => AcknowledgedHolds
=============================================================================

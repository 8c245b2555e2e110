-------------------------- MODULE TaskRuntimeProofs --------------------------
(***************************************************************************)
(* Proofs that the cancellation protocol of TaskRuntime is safe for any    *)
(* number of concurrent cancel requests and failures.                      *)
(*                                                                         *)
(* The argument: a binding leaves "active" once, either to "finished" or   *)
(* to a cancellation by one request, and only that request may undo it,    *)
(* once its commit has failed, be it after its answer.  So a request that  *)
(* is about to commit or has committed still finds its own nonce there (or *)
(* the key expired), and an agent that passed finish_runtime finds no such *)
(* request.  For a background task the row plays the part of the binding:  *)
(* a request holds it, open, from its decision to its commit.              *)
(***************************************************************************)
EXTENDS TaskRuntime, TLAPS

(* The attempt may no longer be denied its success. *)
Settled == rn = "persist" \/ outcome = "success"

(* The request has cancelled the attempt, or is about to. *)
Cancelling(c) == cr[c].pc = "commit" \/ cr[c].answer = "cancelled"

(* What goes with each kind of attempt. *)
KindInv ==
    /\ kind = "task" => binding = NoBinding /\ row.progress # "none" /\ rn # "bind"
    /\ kind = "agent" => row.progress = "none"
    /\ rn \in {"finish", "persist", "mark"} => kind = "agent"
    /\ rn = "report" => kind # "agent"
    /\ rn = "queue" => kind = "dataflow"
    /\ rn \in {"bind", "queue", "running", "finish"} => outcome = None
    /\ kind = "dataflow" => outcome # "success" /\ (rn = "report" => outcome = "failed")

(* Bindings as the scripts write them. *)
BindingInv ==
    /\ binding.state \in {"none", "active", "finished"} => binding.token = None
    /\ binding.state = "cancel_requested" =>
         /\ binding.token \in Requests
         /\ flag = binding.token
         /\ cr[binding.token].pc \in {"commit", "compensate", "end", "late_restore"}
         /\ cr[binding.token].answer \in {"cancelled", "error", "unconfirmed", None}

(* No request gets anywhere before the binding exists. *)
UnboundInv ==
    rn = "bind" => /\ binding = NoBinding
                   /\ \A c \in Requests : cr[c].pc \in {"idle", "end"} /\ cr[c].answer # "cancelled"

(* What a request with a binding relies on. *)
RequestInv ==
    \A c \in Requests :
        /\ cr[c].pc \notin Over => cr[c].answer = None
        /\ cr[c].pc = "late_cancel" => cr[c].answer \in {"error", None}
        /\ cr[c].pc \in {"late_restore", "undone"} => cr[c].answer \in {"unconfirmed", None}
        /\ kind # "task" /\ cr[c].pc \in {"flag", "commit", "compensate", "late_cancel",
                                          "late_restore"} => cr[c].raw = Fresh
        /\ kind # "task" /\ Cancelling(c) =>
             binding = NoBinding \/ binding = [state |-> "cancel_requested", token |-> c]

(* What a request for a background task relies on. *)
RowInv ==
    kind = "task" =>
        /\ \A c \in Requests :
             /\ cr[c].pc \in {"flag", "commit"} =>
                   lock = c /\ row.progress = "open" /\ cr[c].raw = NoBinding
             /\ cr[c].pc \in {"compensate", "late_cancel", "late_restore"} =>
                   cr[c].raw = NoBinding
             /\ cr[c].pc # "reread"
             /\ cr[c].answer = "cancelled" => row.marked
        /\ outcome = "success" => row.progress = "done" /\ ~row.marked

(* A settled agent finds no cancellation and never will. *)
SettledInv ==
    kind = "agent" /\ Settled =>
        /\ binding.state \in {"finished", "none"}
        /\ \A c \in Requests : ~Cancelling(c)

(* The inductive invariant. *)
RuntimeInv ==
    /\ TypeOK
    /\ KindInv
    /\ BindingInv
    /\ UnboundInv
    /\ RequestInv
    /\ RowInv
    /\ SettledInv

-----------------------------------------------------------------------------
(* A request that is over keeps the types of the requests and of the lock. *)
LEMMA LeaveTypes ==
    ASSUME TypeOK, NEW c \in Requests, NEW pc \in RequestPcs, NEW a \in Answers,
           Leave(c, pc, a)
    PROVE  /\ cr' \in [Requests -> [pc : RequestPcs, raw : Bindings, answer : Answers]]
           /\ lock' \in Requests \cup {None}
<1>1. cr' \in [Requests -> [pc : RequestPcs, raw : Bindings, answer : Answers]]
  BY DEF TypeOK, Leave
<1>2. lock' \in Requests \cup {None}
  BY DEF TypeOK, Leave
<1>3. QED BY <1>1, <1>2

(* A cancelled row is a row. *)
LEMMA RowTypes ==
    ASSUME TypeOK, NEW c \in Requests
    PROVE  RowCancelled(c) \in Rows
  BY DEF TypeOK, Rows, RowCancelled

(* The invariant is preserved by the registration of the binding. *)
LEMMA BindPreserves ==
    ASSUME RuntimeInv, Bind
    PROVE  RuntimeInv'
<1>1. TypeOK'
  BY DEF Bind, RuntimeInv, TypeOK, Bindings, BindingStates, RunnerPcs, Fresh
<1>2. KindInv'
  BY DEF Bind, RuntimeInv, KindInv
<1>3. BindingInv'
  BY DEF Bind, RuntimeInv, BindingInv, Fresh
<1>4. UnboundInv'
  BY DEF Bind, RuntimeInv, UnboundInv
<1>5. RequestInv'
  BY DEF Bind, RuntimeInv, UnboundInv, RequestInv, Cancelling
<1>6. RowInv'
  BY DEF Bind, RuntimeInv, RowInv
<1>7. SettledInv'
  BY RuntimeAssumption DEF Bind, RuntimeInv, KindInv, SettledInv, Settled
<1>8. QED BY <1>1, <1>2, <1>3, <1>4, <1>5, <1>6, <1>7 DEF RuntimeInv

(* The invariant is preserved by queue_dataflow. *)
LEMMA QueuePreserves ==
    ASSUME RuntimeInv, Queue
    PROVE  RuntimeInv'
<1>1. TypeOK'
  BY DEF Queue, RuntimeInv, TypeOK, Rows, RunnerPcs, Fault
<1>2. KindInv'
  BY DEF Queue, RuntimeInv, KindInv
<1>3. BindingInv'
  BY DEF Queue, RuntimeInv, BindingInv
<1>4. UnboundInv'
  BY DEF Queue, RuntimeInv, UnboundInv
<1>5. RequestInv'
  BY DEF Queue, RuntimeInv, RequestInv, Cancelling
<1>6. RowInv'
  BY DEF Queue, RuntimeInv, KindInv, RowInv
<1>7. SettledInv'
  BY DEF Queue, RuntimeInv, SettledInv, Settled, Cancelling
<1>8. QED BY <1>1, <1>2, <1>3, <1>4, <1>5, <1>6, <1>7 DEF RuntimeInv

(* The invariant is preserved by an attempt that stops early. *)
LEMMA StopPreserves ==
    ASSUME RuntimeInv, Stop
    PROVE  RuntimeInv'
<1>1. TypeOK'
  BY DEF Stop, RuntimeInv, TypeOK, RunnerPcs
<1>2. KindInv'
  BY DEF Stop, RuntimeInv, KindInv
<1>3. BindingInv'
  BY DEF Stop, RuntimeInv, BindingInv
<1>4. UnboundInv'
  BY DEF Stop, RuntimeInv, UnboundInv
<1>5. RequestInv'
  BY DEF Stop, RuntimeInv, RequestInv, Cancelling
<1>6. RowInv'
  BY DEF Stop, RuntimeInv, RowInv
<1>7. SettledInv'
  BY DEF Stop, RuntimeInv, SettledInv, Settled
<1>8. QED BY <1>1, <1>2, <1>3, <1>4, <1>5, <1>6, <1>7 DEF RuntimeInv

(* The invariant is preserved by an attempt whose work is done. *)
LEMMA CompletePreserves ==
    ASSUME RuntimeInv, Complete
    PROVE  RuntimeInv'
<1>1. TypeOK'
  BY DEF Complete, RuntimeInv, TypeOK, Kinds, RunnerPcs
<1>2. KindInv'
  BY DEF Complete, RuntimeInv, TypeOK, KindInv, Kinds
<1>3. BindingInv'
  BY DEF Complete, RuntimeInv, BindingInv
<1>4. UnboundInv'
  BY DEF Complete, RuntimeInv, TypeOK, UnboundInv, Kinds
<1>5. RequestInv'
  BY DEF Complete, RuntimeInv, RequestInv, Cancelling
<1>6. RowInv'
  BY RuntimeAssumption DEF Complete, RuntimeInv, RowInv
<1>7. SettledInv'
  BY RuntimeAssumption DEF Complete, RuntimeInv, SettledInv, Settled
<1>8. QED BY <1>1, <1>2, <1>3, <1>4, <1>5, <1>6, <1>7 DEF RuntimeInv

(* The invariant is preserved by update_progress. *)
LEMMA ReportPreserves ==
    ASSUME RuntimeInv, Report
    PROVE  RuntimeInv'
<1>1. TypeOK'
  BY DEF Report, RuntimeInv, TypeOK, Rows, RunnerPcs
<1>2. KindInv'
  BY RuntimeAssumption DEF Report, RuntimeInv, KindInv
<1>3. BindingInv'
  BY DEF Report, RuntimeInv, BindingInv
<1>4. UnboundInv'
  BY DEF Report, RuntimeInv, UnboundInv
<1>5. RequestInv'
  BY DEF Report, RuntimeInv, RequestInv, Cancelling
<1>6. RowInv'
  BY RuntimeAssumption DEF Report, RuntimeInv, RowInv
<1>7. SettledInv'
  BY DEF Report, RuntimeInv, KindInv, SettledInv
<1>8. QED BY <1>1, <1>2, <1>3, <1>4, <1>5, <1>6, <1>7 DEF RuntimeInv

(* The invariant is preserved by require_runtime_finish. *)
LEMMA FinishPreserves ==
    ASSUME RuntimeInv, Finish
    PROVE  RuntimeInv'
<1>1. TypeOK'
  BY DEF Finish, Finished, RuntimeInv, TypeOK, Bindings, BindingStates, RunnerPcs
<1>2. KindInv'
  BY DEF Finish, RuntimeInv, KindInv
<1>3. BindingInv'
  BY DEF Finish, Finished, RuntimeInv, BindingInv
<1>4. UnboundInv'
  BY DEF Finish, RuntimeInv, UnboundInv
<1>5. RequestInv'
  BY DEF Finish, Finished, RuntimeInv, RequestInv, Cancelling, NoBinding
<1>6. RowInv'
  BY DEF Finish, RuntimeInv, RowInv
<1>7. SettledInv'
  BY DEF Finish, Finished, RuntimeInv, RequestInv, SettledInv, Settled, Cancelling,
     NoBinding
<1>8. QED BY <1>1, <1>2, <1>3, <1>4, <1>5, <1>6, <1>7 DEF RuntimeInv

(* The invariant is preserved by a finish that fails. *)
LEMMA FinishFailsPreserves ==
    ASSUME RuntimeInv, FinishFails
    PROVE  RuntimeInv'
<1>1. TypeOK'
  BY DEF FinishFails, Finished, RuntimeInv, TypeOK, Bindings, BindingStates, RunnerPcs,
     Fault
<1>2. KindInv'
  BY DEF FinishFails, RuntimeInv, KindInv
<1>3. BindingInv'
  BY DEF FinishFails, Finished, RuntimeInv, TypeOK, BindingInv, Bindings
<1>4. UnboundInv'
  BY DEF FinishFails, RuntimeInv, UnboundInv
<1>5. RequestInv'
  BY DEF FinishFails, Finished, RuntimeInv, RequestInv, Cancelling, NoBinding
<1>6. RowInv'
  BY DEF FinishFails, RuntimeInv, RowInv
<1>7. SettledInv'
  BY DEF FinishFails, RuntimeInv, SettledInv, Settled
<1>8. QED BY <1>1, <1>2, <1>3, <1>4, <1>5, <1>6, <1>7 DEF RuntimeInv

(* The invariant is preserved by the append of the answer. *)
LEMMA PersistPreserves ==
    ASSUME RuntimeInv, Persist
    PROVE  RuntimeInv'
<1>1. TypeOK'
  BY DEF Persist, RuntimeInv, TypeOK, RunnerPcs, Fault
<1>2. KindInv'
  BY DEF Persist, RuntimeInv, KindInv
<1>3. BindingInv'
  BY DEF Persist, RuntimeInv, BindingInv
<1>4. UnboundInv'
  BY DEF Persist, RuntimeInv, UnboundInv
<1>5. RequestInv'
  BY DEF Persist, RuntimeInv, RequestInv, Cancelling
<1>6. RowInv'
  BY DEF Persist, RuntimeInv, KindInv, RowInv
<1>7. SettledInv'
  BY DEF Persist, RuntimeInv, SettledInv, Settled, Cancelling
<1>8. QED BY <1>1, <1>2, <1>3, <1>4, <1>5, <1>6, <1>7 DEF RuntimeInv

(* The invariant is preserved by the final finish_runtime. *)
LEMMA ClosePreserves ==
    ASSUME RuntimeInv, Close
    PROVE  RuntimeInv'
<1>1. TypeOK'
  BY DEF Close, Finished, RuntimeInv, TypeOK, Bindings, BindingStates, RunnerPcs
<1>2. KindInv'
  BY DEF Close, Finished, RuntimeInv, KindInv, NoBinding
<1>3. BindingInv'
  BY DEF Close, Finished, RuntimeInv, BindingInv
<1>4. UnboundInv'
  BY DEF Close, RuntimeInv, UnboundInv
<1>5. RequestInv'
  BY DEF Close, Finished, RuntimeInv, RequestInv, Cancelling, NoBinding
<1>6. RowInv'
  BY DEF Close, RuntimeInv, RowInv
<1>7. SettledInv'
  BY DEF Close, Finished, RuntimeInv, SettledInv, Settled, Cancelling
<1>8. QED BY <1>1, <1>2, <1>3, <1>4, <1>5, <1>6, <1>7 DEF RuntimeInv

(* The invariant is preserved by Canvas.cancel_task. *)
LEMMA MarkFlagPreserves ==
    ASSUME RuntimeInv, MarkFlag
    PROVE  RuntimeInv'
<1>1. TypeOK'
  BY DEF MarkFlag, RuntimeInv, TypeOK, RunnerPcs
<1>2. KindInv'
  BY DEF MarkFlag, RuntimeInv, KindInv
<1>3. BindingInv'
  BY RuntimeAssumption DEF MarkFlag, RuntimeInv, BindingInv
<1>4. UnboundInv'
  BY DEF MarkFlag, RuntimeInv, UnboundInv
<1>5. RequestInv'
  BY DEF MarkFlag, RuntimeInv, RequestInv, Cancelling
<1>6. RowInv'
  BY DEF MarkFlag, RuntimeInv, RowInv
<1>7. SettledInv'
  BY DEF MarkFlag, RuntimeInv, SettledInv, Settled, Cancelling
<1>8. QED BY <1>1, <1>2, <1>3, <1>4, <1>5, <1>6, <1>7 DEF RuntimeInv

(* The invariant is preserved by the death of the attempt. *)
LEMMA AttemptCrashPreserves ==
    ASSUME RuntimeInv, AttemptCrash
    PROVE  RuntimeInv'
<1>1. TypeOK'
  BY DEF AttemptCrash, RuntimeInv, TypeOK, RunnerPcs, Fault
<1>2. KindInv'
  BY DEF AttemptCrash, RuntimeInv, KindInv
<1>3. BindingInv'
  BY DEF AttemptCrash, RuntimeInv, BindingInv
<1>4. UnboundInv'
  BY DEF AttemptCrash, RuntimeInv, UnboundInv
<1>5. RequestInv'
  BY DEF AttemptCrash, RuntimeInv, RequestInv, Cancelling
<1>6. RowInv'
  BY DEF AttemptCrash, RuntimeInv, RowInv
<1>7. SettledInv'
  BY DEF AttemptCrash, RuntimeInv, SettledInv, Settled, Cancelling
<1>8. QED BY <1>1, <1>2, <1>3, <1>4, <1>5, <1>6, <1>7 DEF RuntimeInv

(* The invariant is preserved by expiring keys. *)
LEMMA ExpirePreserves ==
    ASSUME RuntimeInv, Expire
    PROVE  RuntimeInv'
<1>1. TypeOK'
  BY DEF Expire, RuntimeInv, TypeOK, Bindings, BindingStates, Fault, NoBinding
<1>2. KindInv'
  BY DEF Expire, RuntimeInv, KindInv
<1>3. BindingInv'
  BY DEF Expire, RuntimeInv, BindingInv, NoBinding
<1>4. UnboundInv'
  BY DEF Expire, RuntimeInv, UnboundInv
<1>5. RequestInv'
  BY DEF Expire, RuntimeInv, RequestInv
<1>6. RowInv'
  BY DEF Expire, RuntimeInv, RowInv
<1>7. SettledInv'
  BY DEF Expire, RuntimeInv, SettledInv, Settled, Cancelling, NoBinding
<1>8. QED BY <1>1, <1>2, <1>3, <1>4, <1>5, <1>6, <1>7 DEF RuntimeInv

(* The invariant is preserved by the decision of cancel_task. *)
LEMMA AskPreserves ==
    ASSUME NEW c \in Requests, RuntimeInv, Ask(c)
    PROVE  RuntimeInv'
<1>1. TypeOK'
  BY DEF Ask, Answer, Leave, Acknowledge, RuntimeInv, TypeOK, RequestPcs, AtWork, Over, attempt
<1>2. KindInv'
  BY DEF Ask, RuntimeInv, KindInv, attempt
<1>3. BindingInv'
  BY DEF Ask, Answer, Leave, Acknowledge, RuntimeInv, TypeOK, BindingInv
<1>4. UnboundInv'
  BY RuntimeAssumption DEF Ask, Answer, Leave, Acknowledge, HasRow, RuntimeInv, TypeOK,
     KindInv, UnboundInv, Kinds, attempt, NoBinding
<1>5. RequestInv'
  BY DEF Ask, Answer, Leave, Acknowledge, HasRow, RuntimeInv, TypeOK, KindInv, BindingInv,
     RequestInv, Over, Cancelling, Kinds, Bindings, BindingStates, attempt, Fresh
<1>6. RowInv'
  BY RuntimeAssumption DEF Ask, Answer, Leave, Acknowledge, Terminal, HasRow, RuntimeInv,
     TypeOK, KindInv, RowInv, attempt
<1>7. SettledInv'
  BY RuntimeAssumption DEF Ask, Answer, Leave, Acknowledge, RuntimeInv, TypeOK, SettledInv,
     Settled, Cancelling, attempt
<1>8. QED BY <1>1, <1>2, <1>3, <1>4, <1>5, <1>6, <1>7 DEF RuntimeInv

(* The invariant is preserved by CANCEL_RUNTIME_SCRIPT. *)
LEMMA CancelPreserves ==
    ASSUME NEW c \in Requests, RuntimeInv, Cancel(c)
    PROVE  RuntimeInv'
<1>1. TypeOK'
  BY DEF Cancel, FlagWritten, Goto, RuntimeInv, TypeOK, Bindings, BindingStates, RequestPcs,
     AtWork, Over, attempt
<1>2. KindInv'
  BY DEF Cancel, FlagWritten, RuntimeInv, KindInv, attempt
<1>3. BindingInv'
  BY DEF Cancel, FlagWritten, Goto, RuntimeInv, TypeOK, KindInv, BindingInv, RequestInv, Over,
     Fresh, NoBinding
<1>4. UnboundInv'
  BY DEF Cancel, RuntimeInv, UnboundInv, attempt
<1>5. RequestInv'
  BY DEF Cancel, FlagWritten, Goto, RuntimeInv, RequestInv, Over, Cancelling, attempt, Fresh,
     NoBinding
<1>6. RowInv'
  BY DEF Cancel, Goto, RuntimeInv, RowInv, attempt
<1>7. SettledInv'
  BY DEF Cancel, FlagWritten, RuntimeInv, RequestInv, Over, SettledInv, Settled, attempt,
     Fresh, NoBinding
<1>8. QED BY <1>1, <1>2, <1>3, <1>4, <1>5, <1>6, <1>7 DEF RuntimeInv

(* The invariant is preserved by a lost compare-and-set. *)
LEMMA CancelLosesPreserves ==
    ASSUME NEW c \in Requests, RuntimeInv, CancelLoses(c)
    PROVE  RuntimeInv'
<1>1. TypeOK'
  BY DEF CancelLoses, Goto, RuntimeInv, TypeOK, RequestPcs, AtWork, Over, attempt
<1>2. KindInv'
  BY DEF CancelLoses, RuntimeInv, KindInv, attempt
<1>3. BindingInv'
  BY DEF CancelLoses, Goto, RuntimeInv, BindingInv
<1>4. UnboundInv'
  BY DEF CancelLoses, RuntimeInv, UnboundInv, attempt
<1>5. RequestInv'
  BY DEF CancelLoses, Goto, RuntimeInv, RequestInv, Over, Cancelling, attempt
<1>6. RowInv'
  BY DEF CancelLoses, RuntimeInv, RowInv, attempt
<1>7. SettledInv'
  BY DEF CancelLoses, Goto, RuntimeInv, SettledInv, Settled, Cancelling, attempt
<1>8. QED BY <1>1, <1>2, <1>3, <1>4, <1>5, <1>6, <1>7 DEF RuntimeInv

(* The invariant is preserved by a failing cancellation. *)
LEMMA CancelFailsPreserves ==
    ASSUME NEW c \in Requests, RuntimeInv, CancelFails(c)
    PROVE  RuntimeInv'
<1>1. TypeOK'
  <2>1. "error" \in Answers /\ "late_cancel" \in RequestPcs BY DEF Answers, RequestPcs, Over
  <2>2. /\ cr' \in [Requests -> [pc : RequestPcs, raw : Bindings, answer : Answers]]
        /\ lock' \in Requests \cup {None}
    BY <2>1, LeaveTypes DEF RuntimeInv, CancelFails
  <2>3. QED BY <2>2 DEF CancelFails, RuntimeInv, TypeOK, Fault, attempt
<1>2. KindInv'
  BY DEF CancelFails, RuntimeInv, KindInv, attempt
<1>3. BindingInv'
  BY DEF CancelFails, Leave, RuntimeInv, TypeOK, BindingInv
<1>4. UnboundInv'
  BY DEF CancelFails, RuntimeInv, UnboundInv, attempt
<1>5. RequestInv'
  BY DEF CancelFails, Leave, RuntimeInv, TypeOK, RequestInv, Cancelling, Over, attempt
<1>6. RowInv'
  BY DEF CancelFails, Leave, RuntimeInv, TypeOK, RowInv, attempt
<1>7. SettledInv'
  BY DEF CancelFails, Leave, RuntimeInv, TypeOK, SettledInv, Settled, Cancelling, attempt
<1>8. QED BY <1>1, <1>2, <1>3, <1>4, <1>5, <1>6, <1>7 DEF RuntimeInv

(* The invariant is preserved by a cancellation that nobody waits for. *)
LEMMA LateCancelPreserves ==
    ASSUME NEW c \in Requests, RuntimeInv, LateCancel(c)
    PROVE  RuntimeInv'
<1>1. TypeOK'
  BY DEF LateCancel, FlagWritten, Goto, RuntimeInv, TypeOK, Bindings, BindingStates,
     RequestPcs, Over, attempt
<1>2. KindInv'
  BY DEF LateCancel, FlagWritten, RuntimeInv, KindInv, attempt
<1>3. BindingInv'
  BY DEF LateCancel, FlagWritten, Goto, RuntimeInv, TypeOK, KindInv, BindingInv, RequestInv,
     Fresh, NoBinding
<1>4. UnboundInv'
  BY DEF LateCancel, RuntimeInv, UnboundInv, attempt
<1>5. RequestInv'
  BY RuntimeAssumption DEF LateCancel, FlagWritten, Goto, RuntimeInv, TypeOK, RequestInv,
     Cancelling, Over, attempt, Fresh, NoBinding
<1>6. RowInv'
  BY DEF LateCancel, Goto, RuntimeInv, RowInv, attempt
<1>7. SettledInv'
  BY DEF LateCancel, FlagWritten, RuntimeInv, RequestInv, SettledInv, Settled, attempt,
     Fresh, NoBinding
<1>8. QED BY <1>1, <1>2, <1>3, <1>4, <1>5, <1>6, <1>7 DEF RuntimeInv

(* The invariant is preserved by the second read. *)
LEMMA RereadPreserves ==
    ASSUME NEW c \in Requests, RuntimeInv, Reread(c)
    PROVE  RuntimeInv'
<1>1. TypeOK'
  BY DEF Reread, Answer, Leave, Acknowledge, RuntimeInv, TypeOK, RequestPcs, AtWork, Over,
     attempt
<1>2. KindInv'
  BY DEF Reread, RuntimeInv, KindInv, attempt
<1>3. BindingInv'
  BY DEF Reread, Answer, Leave, Acknowledge, RuntimeInv, TypeOK, BindingInv
<1>4. UnboundInv'
  BY DEF Reread, RuntimeInv, UnboundInv, attempt
<1>5. RequestInv'
  BY DEF Reread, Answer, Leave, Acknowledge, RuntimeInv, TypeOK, RequestInv, Over,
     Cancelling, Kinds, attempt
<1>6. RowInv'
  BY DEF Reread, RuntimeInv, RowInv, attempt
<1>7. SettledInv'
  BY DEF Reread, Answer, Leave, Acknowledge, RuntimeInv, TypeOK, SettledInv, Settled,
     Cancelling, attempt
<1>8. QED BY <1>1, <1>2, <1>3, <1>4, <1>5, <1>6, <1>7 DEF RuntimeInv

(* The invariant is preserved by the commit of cancel_task. *)
LEMMA CommitPreserves ==
    ASSUME NEW c \in Requests, RuntimeInv, Commit(c)
    PROVE  RuntimeInv'
<1>1. TypeOK'
  <2>1. "cancelled" \in Answers /\ "end" \in RequestPcs BY DEF Answers, RequestPcs, Over
  <2>2. /\ cr' \in [Requests -> [pc : RequestPcs, raw : Bindings, answer : Answers]]
        /\ lock' \in Requests \cup {None}
    BY <2>1, LeaveTypes DEF RuntimeInv, Commit, Answer
  <2>3. QED BY <2>2 DEF Commit, RowCancelled, RuntimeInv, TypeOK, Rows, attempt
<1>2. KindInv'
  BY DEF Commit, RowCancelled, RuntimeInv, KindInv, attempt
<1>3. BindingInv'
  BY DEF Commit, Answer, Leave, RuntimeInv, TypeOK, BindingInv
<1>4. UnboundInv'
  BY DEF Commit, RuntimeInv, UnboundInv, attempt
<1>5. RequestInv'
  BY RuntimeAssumption DEF Commit, Answer, Leave, RuntimeInv, TypeOK, RequestInv, Over
<1>6. RowInv'
  BY DEF Commit, RowCancelled, Answer, Leave, RuntimeInv, TypeOK, RowInv, attempt
<1>7. SettledInv'
  BY DEF Commit, RuntimeInv, SettledInv, Settled, Cancelling, attempt
<1>8. QED BY <1>1, <1>2, <1>3, <1>4, <1>5, <1>6, <1>7 DEF RuntimeInv

(* The invariant is preserved by a failing commit. *)
LEMMA CommitFailsPreserves ==
    ASSUME NEW c \in Requests, RuntimeInv, CommitFails(c)
    PROVE  RuntimeInv'
<1>1. TypeOK'
  <2>1. row' \in Rows BY RowTypes DEF RuntimeInv, TypeOK, CommitFails
  <2>2. QED BY <2>1 DEF CommitFails, Goto, RuntimeInv, TypeOK, RequestPcs, AtWork, Over,
        Fault, attempt
<1>2. KindInv'
  BY DEF CommitFails, RowCancelled, RuntimeInv, KindInv, attempt
<1>3. BindingInv'
  BY DEF CommitFails, Goto, RuntimeInv, BindingInv
<1>4. UnboundInv'
  BY DEF CommitFails, RuntimeInv, UnboundInv, attempt
<1>5. RequestInv'
  BY DEF CommitFails, Goto, RuntimeInv, RequestInv, Over, Cancelling, attempt
<1>6. RowInv'
  BY DEF CommitFails, RowCancelled, Goto, RuntimeInv, TypeOK, RowInv, attempt
<1>7. SettledInv'
  BY DEF CommitFails, RuntimeInv, SettledInv, Settled, Cancelling, attempt
<1>8. QED BY <1>1, <1>2, <1>3, <1>4, <1>5, <1>6, <1>7 DEF RuntimeInv

(* The invariant is preserved by restore_runtime. *)
LEMMA CompensatePreserves ==
    ASSUME NEW c \in Requests, RuntimeInv, Compensate(c)
    PROVE  RuntimeInv'
<1>1. TypeOK'
  BY DEF Compensate, Restored, Answer, Leave, RuntimeInv, TypeOK, RequestPcs, AtWork, Over,
     attempt
<1>2. KindInv'
  BY RuntimeAssumption DEF Compensate, Restorable, Restored, RuntimeInv, KindInv, attempt,
     NoBinding
<1>3. BindingInv'
  BY RuntimeAssumption DEF Compensate, Restorable, Restored, Answer, Leave, RuntimeInv,
     TypeOK, BindingInv, Bindings, BindingStates
<1>4. UnboundInv'
  BY DEF Compensate, RuntimeInv, UnboundInv, attempt
<1>5. RequestInv'
  BY RuntimeAssumption DEF Compensate, Restored, Answer, Leave, RuntimeInv, TypeOK,
     RequestInv, Over, Cancelling, attempt
<1>6. RowInv'
  BY DEF Compensate, Restored, Answer, Leave, RuntimeInv, TypeOK, RowInv, attempt
<1>7. SettledInv'
  BY SMTT(30), RuntimeAssumption DEF Compensate, Restorable, Restored, Answer, Leave,
     RuntimeInv, TypeOK, BindingInv, SettledInv, Settled, Cancelling, attempt
<1>8. QED BY <1>1, <1>2, <1>3, <1>4, <1>5, <1>6, <1>7 DEF RuntimeInv

(* The invariant is preserved by a failing restore_runtime. *)
LEMMA CompensateFailsPreserves ==
    ASSUME NEW c \in Requests, RuntimeInv, CompensateFails(c)
    PROVE  RuntimeInv'
<1>1. TypeOK'
  <2>1. "unconfirmed" \in Answers /\ "late_restore" \in RequestPcs
    BY DEF Answers, RequestPcs, Over
  <2>2. /\ cr' \in [Requests -> [pc : RequestPcs, raw : Bindings, answer : Answers]]
        /\ lock' \in Requests \cup {None}
    BY <2>1, LeaveTypes DEF RuntimeInv, CompensateFails
  <2>3. QED BY <2>2 DEF CompensateFails, RuntimeInv, TypeOK, Fault, attempt
<1>2. KindInv'
  BY DEF CompensateFails, RuntimeInv, KindInv, attempt
<1>3. BindingInv'
  BY DEF CompensateFails, Leave, RuntimeInv, TypeOK, BindingInv
<1>4. UnboundInv'
  BY DEF CompensateFails, RuntimeInv, UnboundInv, attempt
<1>5. RequestInv'
  BY DEF CompensateFails, Leave, RuntimeInv, TypeOK, RequestInv, Cancelling, Over, attempt
<1>6. RowInv'
  BY DEF CompensateFails, Leave, RuntimeInv, TypeOK, RowInv, attempt
<1>7. SettledInv'
  BY DEF CompensateFails, Leave, RuntimeInv, TypeOK, SettledInv, Settled, Cancelling, attempt
<1>8. QED BY <1>1, <1>2, <1>3, <1>4, <1>5, <1>6, <1>7 DEF RuntimeInv

(* The invariant is preserved by a restore that nobody waits for. *)
LEMMA LateRestorePreserves ==
    ASSUME NEW c \in Requests, RuntimeInv, LateRestore(c)
    PROVE  RuntimeInv'
<1>1. TypeOK'
  BY DEF LateRestore, Restored, Goto, RuntimeInv, TypeOK, RequestPcs, Over, attempt
<1>2. KindInv'
  BY RuntimeAssumption DEF LateRestore, Restorable, Restored, RuntimeInv, KindInv, RowInv,
     attempt, NoBinding
<1>3. BindingInv'
  BY RuntimeAssumption DEF LateRestore, Restorable, Restored, Goto, RuntimeInv, TypeOK,
     KindInv, BindingInv, RequestInv, RowInv, Fresh, NoBinding
<1>4. UnboundInv'
  BY DEF LateRestore, RuntimeInv, UnboundInv, attempt
<1>5. RequestInv'
  BY RuntimeAssumption DEF LateRestore, Restorable, Restored, Goto, RuntimeInv, TypeOK,
     RequestInv, Cancelling, Over, attempt, Fresh, NoBinding
<1>6. RowInv'
  BY DEF LateRestore, Goto, RuntimeInv, TypeOK, RowInv, attempt
<1>7. SettledInv'
  BY RuntimeAssumption DEF LateRestore, Restorable, Restored, Goto, RuntimeInv, TypeOK,
     BindingInv, RequestInv, SettledInv, Settled, Cancelling, attempt, Fresh, NoBinding
<1>8. QED BY <1>1, <1>2, <1>3, <1>4, <1>5, <1>6, <1>7 DEF RuntimeInv

(* The invariant is preserved by the death of a request. *)
LEMMA RequestCrashPreserves ==
    ASSUME NEW c \in Requests, RuntimeInv, RequestCrash(c)
    PROVE  RuntimeInv'
<1> DEFINE pc == CASE cr[c].pc = "flag" -> "late_cancel"
                   [] cr[c].pc = "compensate" -> "late_restore"
                   [] OTHER -> "end"
<1>1. /\ Leave(c, pc, None)
      /\ row' = row \/ (cr[c].pc = "commit" /\ row' = RowCancelled(c))
      /\ cr[c].pc \in AtWork
      /\ UNCHANGED <<attempt, binding, flag>>
  BY DEF RequestCrash
<1>2. /\ cr[c].pc = "flag" => pc = "late_cancel"
      /\ cr[c].pc = "compensate" => pc = "late_restore"
      /\ cr[c].pc \in {"reread", "commit"} => pc = "end"
  OBVIOUS
<1> HIDE DEF pc
<1>3. TypeOK'
  <2>1. None \in Answers /\ pc \in RequestPcs
    BY <1>1, <1>2 DEF Answers, RequestPcs, Over, AtWork
  <2>2. /\ cr' \in [Requests -> [pc : RequestPcs, raw : Bindings, answer : Answers]]
        /\ lock' \in Requests \cup {None}
    BY <1>1, <2>1, LeaveTypes DEF RuntimeInv
  <2>3. row' \in Rows
    BY <1>1, RowTypes DEF RuntimeInv, TypeOK
  <2>4. QED BY <1>1, <2>2, <2>3 DEF RequestCrash, RuntimeInv, TypeOK, Fault, attempt
<1>4. KindInv'
  BY <1>1 DEF RowCancelled, RuntimeInv, KindInv, attempt
<1>5. BindingInv'
  BY <1>1, <1>2 DEF Leave, AtWork, RuntimeInv, TypeOK, BindingInv
<1>6. UnboundInv'
  BY <1>1 DEF AtWork, RuntimeInv, UnboundInv, attempt
<1>7. RequestInv'
  BY RuntimeAssumption, <1>1, <1>2 DEF Leave, AtWork, RuntimeInv, TypeOK, RequestInv,
     Cancelling, Over, attempt
<1>8. RowInv'
  BY RuntimeAssumption, <1>1, <1>2 DEF Leave, AtWork, RowCancelled, RuntimeInv, TypeOK, RowInv,
     attempt
<1>9. SettledInv'
  BY RuntimeAssumption, <1>1, <1>2 DEF Leave, AtWork, RuntimeInv, TypeOK, SettledInv,
     Settled, Cancelling, attempt
<1>10. QED BY <1>3, <1>4, <1>5, <1>6, <1>7, <1>8, <1>9 DEF RuntimeInv

-----------------------------------------------------------------------------
(* The invariant holds when the attempt starts. *)
LEMMA InitEstablishes == Init => RuntimeInv
  BY RuntimeAssumption
     DEF Init, RuntimeInv, TypeOK, KindInv, BindingInv, UnboundInv, RequestInv, RowInv,
         SettledInv, Settled, Cancelling, Kinds, Bindings, BindingStates, Rows, RunnerPcs,
         RequestPcs, Answers, AtWork, Over, NoBinding, Fresh, Mark

(* Every step preserves it. *)
LEMMA NextPreserves == RuntimeInv /\ [Next]_vars => RuntimeInv'
<1> SUFFICES ASSUME RuntimeInv, [Next]_vars PROVE RuntimeInv'
  OBVIOUS
<1>1. CASE AttemptStep
  BY <1>1, BindPreserves, QueuePreserves, StopPreserves, CompletePreserves, ReportPreserves,
     FinishPreserves, FinishFailsPreserves, PersistPreserves, ClosePreserves, MarkFlagPreserves,
     AttemptCrashPreserves, ExpirePreserves DEF AttemptStep
<1>2. ASSUME NEW c \in Requests, RequestStep(c) PROVE RuntimeInv'
  BY <1>2, AskPreserves, CancelPreserves, CancelLosesPreserves, CancelFailsPreserves,
     RereadPreserves, CommitPreserves, CommitFailsPreserves, CompensatePreserves,
     CompensateFailsPreserves, RequestCrashPreserves, LateCancelPreserves,
     LateRestorePreserves DEF RequestStep
<1>3. CASE UNCHANGED vars
  BY <1>3 DEF vars, RuntimeInv, TypeOK, KindInv, BindingInv, UnboundInv, RequestInv, RowInv,
              SettledInv, Settled, Cancelling
<1>4. QED BY <1>1, <1>2, <1>3 DEF Next

(* The inductive invariant holds of every execution: whatever the attempt, *)
(* the requests and the failures do, bindings, rows and requests stand in  *)
(* the relation the argument above needs.                                  *)
THEOREM RuntimeInvHolds == Spec => []RuntimeInv
<1>1. QED BY InitEstablishes, NextPreserves, PTL DEF Spec

(* Bindings, rows, requests and attempt keep to the values the scripts and *)
(* the services write.                                                     *)
THEOREM RuntimeTypes == Spec => []TypeOK
<1>1. RuntimeInv => TypeOK
  BY DEF RuntimeInv
<1>2. QED BY <1>1, RuntimeInvHolds, PTL

(* The invariant excludes a success after a committed cancellation. *)
LEMMA RuntimeExcludes == RuntimeInv => CancelExcludesSuccess
<1> SUFFICES ASSUME RuntimeInv, outcome = "success", NEW c \in Requests
             PROVE  cr[c].answer # "cancelled"
  BY Zenon DEF CancelExcludesSuccess
<1>1. CASE kind = "agent"
  BY <1>1 DEF RuntimeInv, SettledInv, Settled, Cancelling
<1>2. CASE kind = "task"
  BY <1>2 DEF RuntimeInv, RowInv
<1>3. CASE kind = "dataflow"
  BY <1>3 DEF RuntimeInv, KindInv
<1>4. QED BY <1>1, <1>2, <1>3 DEF RuntimeInv, TypeOK, Kinds

(* No attempt makes a success durable once its cancellation was committed  *)
(* (finish_runtime and update_progress against cancel_task).               *)
THEOREM CancelledNeverSucceeds == Spec => []CancelExcludesSuccess
<1>1. QED BY RuntimeExcludes, RuntimeInvHolds, PTL

(* A binding that says cancel_requested has its nonce in the flag, which   *)
(* is all that a running attempt looks at.                                 *)
THEOREM CancellationVisible == Spec => []CancellationIsVisible
<1>1. RuntimeInv => CancellationIsVisible
  BY DEF RuntimeInv, BindingInv, CancellationIsVisible
<1>2. QED BY <1>1, RuntimeInvHolds, PTL

(* A binding is cancelled by a request that is still at work, succeeded,   *)
(* or reported an error that it could not compensate.                      *)
THEOREM CancellationOwned == Spec => []CancellationHasOwner
<1>1. RuntimeInv => CancellationHasOwner
  BY DEF RuntimeInv, BindingInv, CancellationHasOwner
<1>2. QED BY <1>1, RuntimeInvHolds, PTL

-----------------------------------------------------------------------------
(* An acknowledgement that another cancellation is in force: while no      *)
(* restore has taken effect, the attempt it was given for has a binding    *)
(* that refuses finish_runtime, and has not passed it.                     *)
AckInv ==
    /\ \A c \in Requests : cr[c].answer = "already" => kind # "task" /\ rn # "bind"
    /\ (\A c \in Requests : ~Undone(c)) =>
         \A c \in Requests : cr[c].answer = "already" =>
             binding.state \in {"cancel_requested", "none"} /\ ~Settled

(* It is kept by a request that leaves attempt and binding alone and is    *)
(* acknowledged because the binding is cancelled.                          *)
LEMMA AcknowledgeKeeps ==
    ASSUME RuntimeInv, AckInv, NEW c \in Requests, UNCHANGED <<kind, rn, outcome, binding>>,
           cr'[c].answer = "already" => binding.state = "cancel_requested",
           ~Undone(c), \A d \in Requests \ {c} : cr'[d] = cr[d]
    PROVE  AckInv'
<1>1. binding.state = "cancel_requested" => kind # "task" /\ rn # "bind" /\ ~Settled
  BY DEF RuntimeInv, TypeOK, KindInv, UnboundInv, SettledInv, Settled, Kinds, NoBinding
<1>2. \A d \in Requests : cr'[d].answer = "already" =>
          cr[d].answer = "already" \/ binding.state = "cancel_requested"
  OBVIOUS
<1>3. \A d \in Requests : Undone(d) => Undone(d)'
  BY DEF Undone
<1>4. Settled' <=> Settled
  BY DEF Settled
<1>5. QED BY <1>1, <1>2, <1>3, <1>4 DEF AckInv

(* Every step preserves it. *)
LEMMA AckPreserves == RuntimeInv /\ AckInv /\ [Next]_vars => AckInv'
<1> SUFFICES ASSUME RuntimeInv, AckInv, [Next]_vars PROVE AckInv'
  OBVIOUS
<1> USE RuntimeAssumption
<1>1. CASE Bind
  BY <1>1 DEF Bind, AckInv, Undone, Settled, RuntimeInv, TypeOK, KindInv, Kinds, UnboundInv,
     Fresh, BindingInv
<1>2. CASE Queue
  BY <1>2 DEF Queue, AckInv, Undone, Settled, RuntimeInv, TypeOK, KindInv, Kinds
<1>3. CASE Stop
  BY <1>3 DEF Stop, AckInv, Undone, Settled, RuntimeInv, TypeOK, KindInv, Kinds
<1>4. CASE Complete
  BY <1>4 DEF Complete, AckInv, Undone, Settled, RuntimeInv, TypeOK, KindInv, Kinds
<1>5. CASE Report
  BY <1>5 DEF Report, AckInv, Undone, Settled, RuntimeInv, TypeOK, KindInv, Kinds
<1>6. CASE Finish
  BY <1>6 DEF Finish, AckInv, Undone, Settled, RuntimeInv, TypeOK, KindInv, Kinds, Finished,
     NoBinding
<1>7. CASE FinishFails
  BY <1>7 DEF FinishFails, AckInv, Undone, Settled, RuntimeInv, TypeOK, KindInv, Kinds,
     Finished
<1>8. CASE Persist
  BY <1>8 DEF Persist, AckInv, Undone, Settled, RuntimeInv, TypeOK, KindInv, Kinds
<1>9. CASE Close
  BY <1>9 DEF Close, AckInv, Undone, Settled, RuntimeInv, TypeOK, KindInv, Kinds, Finished
<1>10. CASE MarkFlag
  BY <1>10 DEF MarkFlag, AckInv, Undone, Settled, RuntimeInv, TypeOK, KindInv, Kinds
<1>11. CASE AttemptCrash
  BY <1>11 DEF AttemptCrash, AckInv, Undone, Settled, RuntimeInv, TypeOK, KindInv, Kinds
<1>12. CASE Expire
  BY <1>12 DEF Expire, AckInv, Undone, Settled, RuntimeInv, TypeOK, KindInv, Kinds, NoBinding
<1>13. ASSUME NEW c \in Requests, RequestStep(c) PROVE AckInv'
  <2> USE DEF AckInv, Undone, Settled, Over, Kinds, attempt
  <2>1. CASE Ask(c)
    <3>1. /\ UNCHANGED <<kind, rn, outcome, binding>>
          /\ cr'[c].answer = "already" => binding.state = "cancel_requested"
          /\ \A d \in Requests \ {c} : cr'[d] = cr[d]
      BY <2>1 DEF Ask, Acknowledge, Answer, Leave, RuntimeInv, TypeOK, RequestInv
    <3>2. ~Undone(c)
      BY <2>1 DEF Ask, RuntimeInv, RequestInv
    <3>3. QED BY <3>1, <3>2, AcknowledgeKeeps
  <2>2. CASE Cancel(c)
    BY <2>2 DEF Cancel, RuntimeInv, TypeOK, KindInv, RequestInv, RowInv, SettledInv,
       UnboundInv, FlagWritten, Goto
  <2>3. CASE CancelLoses(c)
    BY <2>3 DEF CancelLoses, RuntimeInv, TypeOK, KindInv, RequestInv, RowInv, SettledInv,
       UnboundInv, Goto
  <2>4. CASE CancelFails(c)
    BY <2>4 DEF CancelFails, RuntimeInv, TypeOK, KindInv, RequestInv, RowInv, SettledInv,
       UnboundInv, Leave
  <2>5. CASE LateCancel(c)
    BY <2>5 DEF LateCancel, RuntimeInv, TypeOK, KindInv, RequestInv, RowInv, SettledInv,
       UnboundInv, FlagWritten, Goto
  <2>6. CASE Reread(c)
    <3>1. /\ UNCHANGED <<kind, rn, outcome, binding>>
          /\ cr'[c].answer = "already" => binding.state = "cancel_requested"
          /\ \A d \in Requests \ {c} : cr'[d] = cr[d]
      BY <2>6 DEF Reread, Acknowledge, Answer, Leave, RuntimeInv, TypeOK, RequestInv
    <3>2. ~Undone(c)
      BY <2>6 DEF Reread, RuntimeInv, RequestInv
    <3>3. QED BY <3>1, <3>2, AcknowledgeKeeps
  <2>7. CASE Commit(c)
    BY <2>7 DEF Commit, RuntimeInv, TypeOK, KindInv, RequestInv, RowInv, SettledInv,
       UnboundInv, Answer, Leave
  <2>8. CASE CommitFails(c)
    BY <2>8 DEF CommitFails, RuntimeInv, TypeOK, KindInv, RequestInv, RowInv, SettledInv,
       UnboundInv, Goto
  <2>9. CASE Compensate(c)
    BY <2>9 DEF Compensate, RuntimeInv, TypeOK, KindInv, RequestInv, RowInv, SettledInv,
       UnboundInv, Restored, Answer, Leave
  <2>10. CASE CompensateFails(c)
    BY <2>10 DEF CompensateFails, RuntimeInv, TypeOK, KindInv, RequestInv, RowInv, SettledInv,
       UnboundInv, Leave
  <2>11. CASE LateRestore(c)
    BY <2>11 DEF LateRestore, RuntimeInv, TypeOK, KindInv, RequestInv, RowInv, SettledInv,
       UnboundInv, Restored, Goto
  <2>12. CASE RequestCrash(c)
    BY <2>12 DEF RequestCrash, RuntimeInv, TypeOK, KindInv, RequestInv, RowInv, SettledInv,
       UnboundInv, Leave, AtWork
  <2>13. QED BY <1>13, <2>1, <2>2, <2>3, <2>4, <2>5, <2>6, <2>7, <2>8, <2>9, <2>10, <2>11,
        <2>12 DEF RequestStep
<1>14. CASE UNCHANGED vars
  BY <1>14 DEF vars, AckInv, Undone, Settled
<1>15. QED BY <1>1, <1>2, <1>3, <1>4, <1>5, <1>6, <1>7, <1>8, <1>9, <1>10, <1>11, <1>12, <1>13,
      <1>14 DEF Next, AttemptStep

(* As long as no restore took effect, whatever the request that sent it    *)
(* reported, a request that was told the attempt is cancelled, by itself   *)
(* or by another request, can rely on it: the attempt does not succeed.    *)
THEOREM AcknowledgedRelies == Spec => []AcknowledgedUnlessRestored
<1>1. Init => AckInv
  BY RuntimeAssumption DEF Init, AckInv, Settled
<1>2. RuntimeInv /\ AckInv => AcknowledgedUnlessRestored
  <2> SUFFICES ASSUME RuntimeInv, AckInv, \A c \in Requests : ~Undone(c),
                      outcome = "success", NEW c \in Requests
               PROVE  cr[c].answer \notin {"cancelled", "already"}
    BY Zenon DEF AcknowledgedUnlessRestored, AcknowledgedHolds
  <2>1. cr[c].answer # "cancelled"
    BY RuntimeExcludes DEF CancelExcludesSuccess
  <2>2. cr[c].answer # "already"
    BY DEF AckInv, Settled
  <2>3. QED BY <2>1, <2>2
<1>3. QED BY <1>1, <1>2, AckPreserves, RuntimeInvHolds, PTL DEF Spec
=============================================================================

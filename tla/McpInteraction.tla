---------------------------- MODULE McpInteraction ----------------------------
(***************************************************************************)
(* The durable rounds of an MCP interaction and the worker that resumes    *)
(* the remote call once a response is there                                *)
(* (api/identity/mcp_interactions/repository.py and service.py).           *)
(***************************************************************************)
EXTENDS InteractionState

channelVars == <<pres, rc, cw, gw>>

Closed(row, state) == [row EXCEPT !.state = state, !.owner = None, !.lease = FALSE]

(***************************************************************************)
(* submit_response for the response of event e to round r: one job per     *)
(* round, and the event decides whether a second response is the same one. *)
(***************************************************************************)
VerdictAnyKey(e, r) ==
    IF inter.rev # r THEN "conflict" ELSE IF job[r].state # "none" THEN "claim"
    ELSE IF late THEN "reject" ELSE IF inter.state # "awaiting_input" THEN "conflict" ELSE "claim"

Verdict(e, r) ==
    CASE inter.rev # r -> "conflict"
      [] inter.rev = r /\ job[r].state # "none" -> IF job[r].key = e THEN "claim" ELSE "conflict"
      [] inter.rev = r /\ job[r].state = "none" ->
            IF late THEN "reject" ELSE IF inter.state # "awaiting_input" THEN "conflict" ELSE "claim"

SubmittedExpiryFirst(e, r, answer) ==
    IF inter.rev = r /\ late
    THEN inter' = [inter EXCEPT !.state = "expired"] /\ UNCHANGED job
    ELSE IF Verdict(e, r) = "claim" /\ job[r].state = "none"
    THEN /\ inter' = [inter EXCEPT !.state = IF answer = "refuse" THEN "declined" ELSE "response_ready"]
         /\ job' = [job EXCEPT ![r].key = e,
                        ![r].state = IF answer = "refuse" THEN "succeeded" ELSE "response_ready"]
    ELSE UNCHANGED <<inter, job>>

SubmittedAlwaysReady(e, r, answer) ==
    IF Verdict(e, r) = "claim" /\ job[r].state = "none"
    THEN /\ inter' = [inter EXCEPT !.state = IF answer = "refuse" THEN "declined" ELSE "response_ready"]
         /\ job' = [job EXCEPT ![r].key = e, ![r].state = "response_ready"]
    ELSE UNCHANGED <<inter, job>>

Submitted(e, r, answer) ==
    /\ inter' = CASE inter.rev # r \/ job[r].state # "none" -> inter
                  [] OTHER -> IF late THEN [inter EXCEPT !.state = "expired"]
                              ELSE IF inter.state # "awaiting_input" THEN inter
                              ELSE [inter EXCEPT !.state =
                                      IF answer = "refuse" THEN "declined" ELSE "response_ready"]
    /\ job' = IF Verdict(e, r) = "claim" /\ job[r].state = "none"
              THEN [job EXCEPT ![r].key = e,
                               ![r].state = IF answer = "refuse" THEN "succeeded" ELSE "response_ready"]
              ELSE job

(***************************************************************************)
(* Leases on jobs.                                                         *)
(***************************************************************************)
LeasableReady(r) == job[r].state = "response_ready"

Leasable(r) ==
    job[r].state = "response_ready" \/ (job[r].state = "leased" /\ ~job[r].lease)

(* Why a job is closed when a worker picks it up, if it is. *)
Refusal(r) ==
    CASE inter.rev # r -> inter.state
      [] inter.rev = r /\ late -> "expired"
      [] inter.rev = r /\ ~late ->
            IF inter.mode = "side_effect" \/ (job[r].state = "leased" /\ inter.mode # "reusable")
            THEN "failed" ELSE None

(* lease_ready *)
LeaseJob(w, r) ==
    /\ rw[w].pc = "idle" /\ Leasable(r)
    /\ IF Refusal(r) # None
       THEN /\ job' = [job EXCEPT ![r] = Closed(@, "terminal_failed")]
            /\ inter' = [inter EXCEPT !.state = Refusal(r)]
            /\ UNCHANGED rw
       ELSE /\ job' = [job EXCEPT ![r].state = "leased", ![r].owner = w, ![r].lease = TRUE,
                                  ![r].attempt = @ + 1]
            /\ inter' = [inter EXCEPT !.state = "resuming"]
            /\ rw' = [rw EXCEPT ![w] = [pc |-> "call", rev |-> r, attempt |-> job[r].attempt + 1]]
    /\ UNCHANGED <<channelVars, late, faults, calls>>

(* _locked_lease *)
HoldsJobRow(w) ==
    LET r == rw[w].rev IN
    /\ rw[w].pc # "idle"
    /\ job[r].state = "leased" /\ job[r].owner = w /\ job[r].attempt = rw[w].attempt
    /\ job[r].lease

HoldsJob(w) ==
    LET r == rw[w].rev IN
    /\ rw[w].pc # "idle"
    /\ job[r].state = "leased" /\ job[r].owner = w /\ job[r].attempt = rw[w].attempt
    /\ job[r].lease
    /\ inter.state = "resuming" /\ inter.rev = r
    /\ ~late

Stand(w) == rw' = [rw EXCEPT ![w] = IdleResumer]

(* execute: the authority is read again, then the tool is called.  Nothing *)
(* looks at the lease here.                                                *)
Call(w) ==
    /\ rw[w].pc = "call"
    /\ rw' = [rw EXCEPT ![w].pc = "answer"]
    /\ calls' = [calls EXCEPT ![rw[w].rev] = @ + 1]
    /\ UNCHANGED <<inter, job, channelVars, late, faults>>

(* The tool returned a result. *)
Complete(w) ==
    /\ rw[w].pc = "answer" /\ HoldsJob(w)
    /\ inter' = [inter EXCEPT !.state = "completed"]
    /\ job' = [job EXCEPT ![rw[w].rev] = Closed(@, "succeeded")]
    /\ Stand(w)
    /\ UNCHANGED <<channelVars, late, faults, calls>>

(* The tool asks for more input: pause advances the interaction. *)
AdvanceUnbounded(w) ==
    /\ rw[w].pc = "answer" /\ HoldsJob(w)
    /\ inter' = [inter EXCEPT !.state = "awaiting_input", !.rev = @ + 1]
    /\ job' = [job EXCEPT ![rw[w].rev] = Closed(@, "succeeded")]
    /\ Stand(w)
    /\ UNCHANGED <<channelVars, late, faults, calls>>

Advance(w) ==
    /\ rw[w].pc = "answer" /\ HoldsJob(w)
    /\ inter.rev < MaxRounds
    /\ inter' = [inter EXCEPT !.state = "awaiting_input", !.rev = @ + 1]
    /\ job' = [job EXCEPT ![rw[w].rev] = Closed(@, "succeeded")]
    /\ Stand(w)
    /\ UNCHANGED <<channelVars, late, faults, calls>>

(* terminal_fail: authority denied, an error, a result that does not fit   *)
(* its schema, or one round too many.                                      *)
TerminalFail(w) ==
    /\ HoldsJob(w)
    /\ inter' = [inter EXCEPT !.state = "failed"]
    /\ job' = [job EXCEPT ![rw[w].rev] = Closed(@, "terminal_failed")]
    /\ Stand(w)
    /\ UNCHANGED <<channelVars, late, faults, calls>>

(* The executor raises TimeoutError or ConnectionError; whatever else it   *)
(* makes of a failing call ends in TerminalFail.  Only a reusable call may *)
(* be repeated.                                                            *)
RetryAny(w) ==
    /\ HoldsJob(w) /\ Fault
    /\ inter' = [inter EXCEPT !.state = "response_ready"]
    /\ job' = [job EXCEPT ![rw[w].rev] = Closed(@, "response_ready")]
    /\ Stand(w)
    /\ UNCHANGED <<channelVars, late, calls>>

Retry(w) ==
    /\ HoldsJob(w) /\ Fault
    /\ LET again == inter.mode = "reusable" IN
          /\ inter' = [inter EXCEPT !.state = IF again THEN "response_ready" ELSE "failed"]
          /\ job' = [job EXCEPT ![rw[w].rev] =
                        Closed(@, IF again THEN "response_ready" ELSE "terminal_failed")]
    /\ Stand(w)
    /\ UNCHANGED <<channelVars, late, calls>>

(* The renewal, or whatever comes after the call, finds the lease gone. *)
ResumeLost(w) ==
    /\ rw[w].pc # "idle" /\ ~HoldsJob(w)
    /\ Stand(w)
    /\ UNCHANGED <<inter, job, channelVars, late, faults, calls>>

(* The worker dies, or its last transaction fails. *)
ResumeCrash(w) ==
    /\ rw[w].pc # "idle" /\ Fault
    /\ Stand(w)
    /\ UNCHANGED <<inter, job, channelVars, late, calls>>

JobLeaseEnds(r) ==
    /\ job[r].lease
    /\ job' = [job EXCEPT ![r].lease = FALSE]
    /\ \/ (\A w \in Resumers : HoldsJob(w) => rw[w].rev # r) /\ UNCHANGED faults
       \/ Fault
    /\ UNCHANGED <<inter, rw, channelVars, late, calls>>

(* Time passes expires_at. *)
Expire ==
    /\ ~late /\ late' = TRUE
    /\ UNCHANGED <<inter, job, rw, channelVars, faults, calls>>

ResumeStep(w) ==
    Call(w) \/ Complete(w) \/ Advance(w) \/ TerminalFail(w) \/ ResumeLost(w)
=============================================================================

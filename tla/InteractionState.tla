--------------------------- MODULE InteractionState ---------------------------
(***************************************************************************)
(* One MCP interaction and its presentation in a chat channel: the rows in *)
(* PostgreSQL (api/identity/mcp_interactions/repository.py,                *)
(* api/channel_execution/interaction_presentations.py) and the processes   *)
(* that lease them.  All transactions lock what they read and take the     *)
(* clock after the last lock, so each of them is one step.                 *)
(*                                                                         *)
(* Every round of an interaction has the deadline of the first one, so     *)
(* "late" is a single fact; back-off times are left out, and a lease is    *)
(* valid until it ends.                                                    *)
(***************************************************************************)
EXTENDS Naturals, FiniteSets

CONSTANTS
    Events,         \* clicks on a form; each is its own idempotency key
    Callbacks,      \* processes that work off callbacks
    Resumers,       \* processes that resume the remote call
    Gateways,       \* channel workers that deliver to the chat
    MaxRounds,      \* rounds of input per interaction
    MaxCallbacks,   \* attempts per callback (5 in the code)
    MaxDeliveries,  \* attempts per delivery (5 in the code)
    MaxFaults,      \* bound: crashes, late renewals, lost answers, failing calls
    None

Revs == 1..MaxRounds
Ended == {"completed", "declined", "expired", "failed"}
InterStates == {"awaiting_input", "response_ready", "resuming"} \cup Ended
Responses == {"accept", "refuse", "invalid"}
Reasons == {"settled", "conflict", "other"}   \* for the rejection of a click

ASSUME InteractionAssumption ==
    /\ {MaxRounds, MaxCallbacks, MaxDeliveries} \subseteq Nat \ {0}
    /\ MaxFaults \in Nat
    /\ None \notin Events \cup Callbacks \cup Resumers \cup Gateways
    /\ None \notin InterStates \cup Responses \cup Reasons

VARIABLES
    inter,      \* the McpInteraction row
    job,        \* the resume job of each round
    pres,       \* the presentation of each round
    rc,         \* callback receipts
    cw,         \* callback processors
    rw,         \* resuming processors
    gw,         \* channel workers
    late,       \* has expires_at passed?
    faults,
    calls       \* how often the remote tool was called in a round (history)

vars == <<inter, job, pres, rc, cw, rw, gw, late, faults, calls>>

Maybe(S) == S \cup {None}
Modes == {"reusable", "single_use", "side_effect"}
JobStates == {"none", "response_ready", "leased", "succeeded", "terminal_failed"}
ResponseStates == {"none", "open", "received", "claimed", "terminal"}
DeliveryStates == {"pending", "leased", "delivered", "failed"}
ReceiptStates == {"none", "received", "leased", "claimed", "rejected"}
CallbackPcs == {"idle", "process", "claim", "conflict", "reject", "reopen", "retry"}
ResumePcs == {"idle", "call", "answer"}

NoJob == [state |-> "none", key |-> None, owner |-> None, attempt |-> 0, lease |-> FALSE]
NoForm == [resp |-> "none", kind |-> "form", shows |-> None, deliv |-> "pending",
           owner |-> None, attempt |-> 0, lease |-> FALSE]
NoReceipt == [state |-> "none", rev |-> 1, answer |-> None, owner |-> None, attempt |-> 0,
              lease |-> FALSE, why |-> None]
IdleCallback == [pc |-> "idle", ev |-> None, attempt |-> 0]
IdleResumer == [pc |-> "idle", rev |-> 1, attempt |-> 0]
IdleGateway == [rev |-> 0, attempt |-> 0]

Fault == faults < MaxFaults /\ faults' = faults + 1

(* The tool call has just paused and created the interaction. *)
Init ==
    /\ inter \in [state : {"awaiting_input"}, rev : {1}, mode : Modes]
    /\ job = [r \in Revs |-> NoJob]
    /\ pres = [r \in Revs |-> NoForm]
    /\ rc = [e \in Events |-> NoReceipt]
    /\ cw = [w \in Callbacks |-> IdleCallback]
    /\ rw = [w \in Resumers |-> IdleResumer]
    /\ gw = [g \in Gateways |-> IdleGateway]
    /\ late = FALSE
    /\ faults = 0
    /\ calls = [r \in Revs |-> 0]

(* The rows and what the processes remember. *)
Jobs == [state : JobStates, key : Maybe(Events), owner : Maybe(Resumers), attempt : Nat,
         lease : BOOLEAN]
Forms == [resp : ResponseStates, kind : {"form", "terminal"}, shows : Maybe(Ended),
          deliv : DeliveryStates, owner : Maybe(Gateways), attempt : Nat, lease : BOOLEAN]
Receipts == [state : ReceiptStates, rev : Revs, answer : Maybe(Responses),
             owner : Maybe(Callbacks), attempt : Nat, lease : BOOLEAN, why : Maybe(Reasons)]
CallbackWorkers == [pc : CallbackPcs, ev : Maybe(Events), attempt : Nat]
ResumeWorkers == [pc : ResumePcs, rev : Revs, attempt : Nat]
ChannelWorkers == [rev : 0..MaxRounds, attempt : Nat]

(* The values that the variables may have. *)
TypeOK ==
    /\ inter \in [state : InterStates, rev : Revs, mode : Modes]
    /\ job \in [Revs -> Jobs]
    /\ pres \in [Revs -> Forms]
    /\ rc \in [Events -> Receipts]
    /\ cw \in [Callbacks -> CallbackWorkers]
    /\ rw \in [Resumers -> ResumeWorkers]
    /\ gw \in [Gateways -> ChannelWorkers]
    /\ late \in BOOLEAN
    /\ faults \in 0..MaxFaults
    /\ calls \in [Revs -> Nat]
=============================================================================

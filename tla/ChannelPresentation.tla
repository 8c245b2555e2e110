------------------------- MODULE ChannelPresentation -------------------------
(***************************************************************************)
(* How a round is shown in a chat and answered there: the forms and their  *)
(* delivery, the receipts of clicks, and the worker that turns a click     *)
(* into a response (api/channel_execution/interaction_presentations.py and *)
(* interaction_worker.py).                                                 *)
(*                                                                         *)
(* Transactions that end in an exception leave no trace, so a late         *)
(* registration, a click on a late form, a click with an old nonce and a   *)
(* repeated click are not steps.                                           *)
(***************************************************************************)
EXTENDS McpInteraction

resumeVars == <<job, rw, calls>>

Form == [NoForm EXCEPT !.resp = "open"]

(* _terminalize: the attempts are not counted anew. *)
Terminalize(p, state) ==
    [p EXCEPT !.resp = "terminal", !.kind = "terminal", !.shows = state, !.deliv = "pending",
              !.owner = None, !.lease = FALSE]

Reopened(p) ==
    [p EXCEPT !.resp = "open", !.kind = "form", !.deliv = "pending", !.owner = None, !.lease = FALSE]

(* The chat turn that paused registers the form. *)
Register ==
    /\ pres[1].resp = "none"
    /\ inter.rev = 1 /\ inter.state = "awaiting_input" /\ ~late
    /\ pres' = [pres EXCEPT ![1] = Form]
    /\ UNCHANGED <<inter, rc, cw, gw, resumeVars, late, faults>>

(***************************************************************************)
(* Delivery.                                                               *)
(***************************************************************************)
DeliverablePending(p) == p.deliv = "pending"

Deliverable(p) == p.deliv = "pending" \/ (p.deliv = "leased" /\ ~p.lease)

(* claim_delivery: a form that comes too late turns into the message that  *)
(* says so.                                                                *)
ClaimDelivery(g, r) ==
    LET p == IF pres[r].kind = "form" /\ late THEN Terminalize(pres[r], "expired") ELSE pres[r] IN
    /\ gw[g].rev = 0 /\ pres[r].resp # "none" /\ Deliverable(pres[r])
    /\ p.kind = "form" => p.resp = "open"
    /\ inter' = IF p # pres[r] THEN [inter EXCEPT !.state = "expired"] ELSE inter
    /\ pres' = [pres EXCEPT ![r] = [p EXCEPT !.deliv = "leased", !.owner = g, !.lease = TRUE,
                                             !.attempt = @ + 1]]
    /\ gw' = [gw EXCEPT ![g] = [rev |-> r, attempt |-> p.attempt + 1]]
    /\ UNCHANGED <<rc, cw, resumeVars, late, faults>>

HoldsDelivery(g) ==
    LET r == gw[g].rev IN
    /\ r # 0
    /\ pres[r].deliv = "leased" /\ pres[r].owner = g /\ pres[r].lease
    /\ pres[r].attempt = gw[g].attempt

Leave(g) == gw' = [gw EXCEPT ![g] = IdleGateway]

(* acknowledge_delivery of a message that was sent *)
AckDelivery(g) ==
    /\ HoldsDelivery(g)
    /\ pres' = [pres EXCEPT ![gw[g].rev].deliv = "delivered", ![gw[g].rev].owner = None,
                            ![gw[g].rev].lease = FALSE]
    /\ Leave(g)
    /\ UNCHANGED <<inter, rc, cw, resumeVars, late, faults>>

(* acknowledge_delivery of a message that could not be sent *)
FailDelivery(g) ==
    /\ HoldsDelivery(g) /\ Fault
    /\ pres' = [pres EXCEPT ![gw[g].rev].deliv =
                               IF gw[g].attempt >= MaxDeliveries THEN "failed" ELSE "pending",
                            ![gw[g].rev].owner = None, ![gw[g].rev].lease = FALSE]
    /\ Leave(g)
    /\ UNCHANGED <<inter, rc, cw, resumeVars, late>>

DeliveryLost(g) ==
    /\ gw[g].rev # 0 /\ ~HoldsDelivery(g)
    /\ Leave(g)
    /\ UNCHANGED <<inter, pres, rc, cw, resumeVars, late, faults>>

(* The channel worker dies, perhaps after it sent the message. *)
DeliveryCrash(g) ==
    /\ gw[g].rev # 0 /\ Fault
    /\ Leave(g)
    /\ UNCHANGED <<inter, pres, rc, cw, resumeVars, late>>

DeliveryLeaseEnds(r) ==
    /\ pres[r].lease
    /\ pres' = [pres EXCEPT ![r].lease = FALSE]
    /\ \/ (\A g \in Gateways : HoldsDelivery(g) => gw[g].rev # r) /\ UNCHANGED faults
       \/ Fault
    /\ UNCHANGED <<inter, rc, cw, gw, resumeVars, late>>

(***************************************************************************)
(* Clicks.                                                                 *)
(***************************************************************************)
ReceiveCallback(e, r) ==
    /\ rc[e].state = "none"
    /\ pres[r].resp = "open" /\ pres[r].kind = "form" /\ pres[r].deliv = "delivered" /\ ~late
    /\ \E answer \in Responses :
          rc' = [rc EXCEPT ![e].state = "received", ![e].rev = r, ![e].answer = answer]
    /\ pres' = [pres EXCEPT ![r].resp = "received"]
    /\ UNCHANGED <<inter, cw, gw, resumeVars, late, faults>>

Rejected(c, why) == [Closed(c, "rejected") EXCEPT !.why = why]

Waiting(e) == rc[e].state = "received"

WaitingOrLeased(e) == rc[e].state \in {"received", "leased"}

CallbackLeasable(e) ==
    rc[e].state = "received" \/ (rc[e].state = "leased" /\ ~rc[e].lease)

(* lease_callback: a receipt that leads nowhere is rejected on the spot. *)
LeaseCallback(w, e) ==
    LET r == rc[e].rev IN
    /\ cw[w].pc = "idle" /\ CallbackLeasable(e)
    /\ \/ /\ pres[r].resp # "received"
          /\ rc' = [rc EXCEPT ![e] = Rejected(@, "settled")]
          /\ UNCHANGED <<pres, cw, faults>>
       \/ /\ pres[r].resp = "received" /\ rc[e].answer = "invalid"
          /\ rc' = [rc EXCEPT ![e] = Rejected(@, "other")]
          /\ pres' = [pres EXCEPT ![r] = Reopened(@)]
          /\ UNCHANGED <<cw, faults>>
       \/ /\ pres[r].resp = "received" /\ Fault   \* the payload cannot be decrypted
          /\ rc' = [rc EXCEPT ![e] = Rejected(@, "other")]
          /\ pres' = [pres EXCEPT ![r] = Terminalize(@, "failed")]
          /\ UNCHANGED cw
       \/ /\ pres[r].resp = "received" /\ rc[e].answer # "invalid"
          /\ rc' = [rc EXCEPT ![e].state = "leased", ![e].owner = w, ![e].lease = TRUE,
                              ![e].attempt = @ + 1]
          /\ cw' = [cw EXCEPT ![w] = [pc |-> "process", ev |-> e, attempt |-> rc[e].attempt + 1]]
          /\ UNCHANGED <<pres, faults>>
    /\ UNCHANGED <<inter, gw, resumeVars, late>>

(* _locked_callback *)
HoldsCallback(w) ==
    LET c == rc[cw[w].ev] IN
    /\ cw[w].pc # "idle"
    /\ c.state = "leased" /\ c.owner = w /\ c.attempt = cw[w].attempt /\ c.lease
    /\ pres[c.rev].resp = "received"

(* The binding or the actor is no longer what it was, or cannot be looked  *)
(* up just now.                                                            *)
Resolve(w) ==
    /\ cw[w].pc = "process"
    /\ \E next \in {"reject", "reopen", "retry"} : cw' = [cw EXCEPT ![w].pc = next]
    /\ UNCHANGED <<inter, pres, rc, gw, resumeVars, late, faults>>

(* submit_response: it does not look at the lease of the callback. *)
Submit(w) ==
    LET e == cw[w].ev IN
    /\ cw[w].pc = "process"
    /\ Submitted(e, rc[e].rev, rc[e].answer)
    /\ cw' = [cw EXCEPT ![w].pc = Verdict(e, rc[e].rev)]
    /\ UNCHANGED <<pres, rc, gw, rw, calls, late, faults>>

Rest(w) == cw' = [cw EXCEPT ![w] = IdleCallback]

(* mark_callback_claimed *)
MarkClaimed(w) ==
    LET e == cw[w].ev IN
    /\ cw[w].pc = "claim" /\ HoldsCallback(w)
    /\ rc' = [rc EXCEPT ![e] = Closed(@, "claimed")]
    /\ pres' = [pres EXCEPT ![rc[e].rev].resp = "claimed"]
    /\ Rest(w)
    /\ UNCHANGED <<inter, gw, resumeVars, late, faults>>

(* reject_callback, for good or with the form opened again *)
RejectCallback(w) ==
    LET e == cw[w].ev IN
    /\ cw[w].pc \in {"conflict", "reject", "reopen"} /\ HoldsCallback(w)
    /\ rc' = [rc EXCEPT ![e] = Rejected(@, IF cw[w].pc = "conflict" THEN "conflict" ELSE "other")]
    /\ pres' = [pres EXCEPT ![rc[e].rev] =
                   IF cw[w].pc = "reopen" THEN Reopened(@) ELSE Terminalize(@, "failed")]
    /\ Rest(w)
    /\ UNCHANGED <<inter, gw, resumeVars, late, faults>>

RetryCallback(w) ==
    LET e == cw[w].ev IN
    /\ cw[w].pc = "retry" /\ HoldsCallback(w)
    /\ IF rc[e].attempt >= MaxCallbacks
       THEN /\ rc' = [rc EXCEPT ![e] = Rejected(@, "other")]
            /\ pres' = [pres EXCEPT ![rc[e].rev] = Terminalize(@, "failed")]
       ELSE /\ rc' = [rc EXCEPT ![e] = Closed(@, "received")]
            /\ UNCHANGED pres
    /\ Rest(w)
    /\ UNCHANGED <<inter, gw, resumeVars, late, faults>>

(* A transaction fails, or its answer is lost. *)
CallbackFails(w) ==
    /\ cw[w].pc \in {"claim", "conflict", "reject", "reopen"} /\ Fault
    /\ cw' = [cw EXCEPT ![w].pc = "retry"]
    /\ UNCHANGED <<inter, pres, rc, gw, resumeVars, late>>

(* The renewal, or whatever comes next, finds the lease gone. *)
CallbackLost(w) ==
    /\ cw[w].pc # "idle" /\ ~HoldsCallback(w)
    /\ Rest(w)
    /\ UNCHANGED <<inter, pres, rc, gw, resumeVars, late, faults>>

CallbackCrash(w) ==
    /\ cw[w].pc # "idle" /\ Fault
    /\ Rest(w)
    /\ UNCHANGED <<inter, pres, rc, gw, resumeVars, late>>

CallbackLeaseEnds(e) ==
    /\ rc[e].lease
    /\ rc' = [rc EXCEPT ![e].lease = FALSE]
    /\ \/ (\A w \in Callbacks : HoldsCallback(w) => cw[w].ev # e) /\ UNCHANGED faults
       \/ Fault
    /\ UNCHANGED <<inter, pres, cw, gw, resumeVars, late>>

(***************************************************************************)
(* reconcile, which an idle callback worker runs.  A form is registered    *)
(* for the first round only; later ones are made here.                     *)
(***************************************************************************)
Reconcile(r) ==
    /\ \E w \in Callbacks : cw[w].pc = "idle"
    /\ pres[r].resp \in {"open", "received", "claimed"}
    /\ \/ /\ inter.state = "awaiting_input" /\ late /\ inter.rev = r
          /\ inter' = [inter EXCEPT !.state = "expired"]
          /\ pres' = [pres EXCEPT ![r] = Terminalize(@, "expired")]
       \/ /\ inter.rev > r /\ inter.state = "awaiting_input" /\ pres[r].resp = "claimed"
          /\ pres' = [pres EXCEPT ![r].resp = "terminal",
                                  ![inter.rev] = IF @.resp = "none" THEN Form ELSE @]
          /\ UNCHANGED inter
       \/ /\ inter.rev = r /\ inter.state \in Ended
          /\ pres' = [pres EXCEPT ![r] = Terminalize(@, inter.state)]
          /\ UNCHANGED inter
    /\ UNCHANGED <<rc, cw, gw, resumeVars, late, faults>>
=============================================================================

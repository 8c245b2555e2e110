-------------------------- MODULE InteractionSystem --------------------------
(***************************************************************************)
(* One MCP interaction from the first form to the message that ends it.    *)
(***************************************************************************)
EXTENDS ChannelPresentation

GatewayNext ==
    \/ \E g \in Gateways, r \in Revs : ClaimDelivery(g, r)
    \/ \E g \in Gateways :
          AckDelivery(g) \/ FailDelivery(g) \/ DeliveryLost(g) \/ DeliveryCrash(g)
    \/ \E r \in Revs : DeliveryLeaseEnds(r)

CallbackStep(w) ==
    Resolve(w) \/ Submit(w) \/ MarkClaimed(w) \/ RejectCallback(w) \/ RetryCallback(w) \/ CallbackLost(w)

CallbackNext ==
    \/ \E w \in Callbacks, e \in Events : LeaseCallback(w, e)
    \/ \E w \in Callbacks : CallbackStep(w) \/ CallbackFails(w) \/ CallbackCrash(w)
    \/ \E e \in Events : CallbackLeaseEnds(e)
    \/ \E r \in Revs : Reconcile(r)

ResumeNext ==
    \/ \E w \in Resumers, r \in Revs : LeaseJob(w, r)
    \/ \E w \in Resumers : ResumeStep(w) \/ Retry(w) \/ ResumeCrash(w)
    \/ \E r \in Revs : JobLeaseEnds(r)

Next ==
    \/ Register
    \/ \E e \in Events, r \in Revs : ReceiveCallback(e, r)
    \/ Expire
    \/ GatewayNext \/ CallbackNext \/ ResumeNext

Spec == Init /\ [][Next]_vars

(***************************************************************************)
(* The three workers poll for ever, renewals only keep a lease that is     *)
(* held, and time passes.  Nothing is assumed of the user.  A row that is  *)
(* skipped because another one comes first, or waits for its back-off, is  *)
(* found again and again, hence the strong fairness of the leases.         *)
(***************************************************************************)
Fairness ==
    /\ WF_vars(Expire)
    /\ \A w \in Callbacks : WF_vars(CallbackStep(w))
    /\ \A w \in Resumers : WF_vars(ResumeStep(w))
    /\ \A g \in Gateways : WF_vars(AckDelivery(g) \/ DeliveryLost(g))
    /\ \A e \in Events : /\ SF_vars(\E w \in Callbacks : LeaseCallback(w, e))
                         /\ WF_vars(CallbackLeaseEnds(e))
    /\ \A r \in Revs : /\ SF_vars(\E w \in Resumers : LeaseJob(w, r))
                       /\ SF_vars(\E g \in Gateways : ClaimDelivery(g, r))
                       /\ SF_vars(Reconcile(r))
                       /\ WF_vars(JobLeaseEnds(r)) /\ WF_vars(DeliveryLeaseEnds(r))

FairSpec == Spec /\ Fairness

-----------------------------------------------------------------------------
(* A response was accepted, and the click that brought it was rejected     *)
(* while its form still waited: the worker died, or lost its answer or its *)
(* lease, between submit_response and mark_callback_claimed.               *)
Orphaned ==
    \E e \in Events : rc[e].why \in {"conflict", "other"} /\ \E r \in Revs : job[r].key = e

(* A tool that may be called once is called at most once in a round, and   *)
(* one with side effects never, whatever crashes and whoever still works   *)
(* under a lease that has ended.                                           *)
OneShotRunsOnce ==
    \A r \in Revs : /\ inter.mode = "single_use" => calls[r] <= 1
                    /\ inter.mode = "side_effect" => calls[r] = 0

(* A click that is recorded as claimed is the one whose response the round *)
(* was answered with.                                                      *)
ClaimedIsAccepted == \A e \in Events : rc[e].state = "claimed" => job[rc[e].rev].key = e

(* Without a crash, a lost lease or a failing call no accepted response is *)
(* disowned.                                                               *)
DisownedOnlyAfterFault == Orphaned => faults > 0

(* A job that is waiting or leased is the one the interaction row stands   *)
(* for, so the fences of complete, retry and pause never refuse its owner  *)
(* for the row's sake; and while a form can be answered there is none.     *)
RowsAgree ==
    Orphaned \/
    \A r \in Revs :
        /\ job[r].state = "response_ready" => inter.rev = r /\ inter.state = "response_ready"
        /\ job[r].state = "leased" => inter.rev = r /\ inter.state = "resuming"
        /\ pres[r].resp = "open" => inter.rev = r /\ job[r].state = "none"

(* What the user is told, if not just that it failed, is how the           *)
(* interaction ended.                                                      *)
ShownIsTrue ==
    \A r \in Revs : pres[r].shows \in Ended \ {"failed"} => inter.state = pres[r].shows

(* An interaction that has ended stays as it is, though a form that        *)
(* expires and a job that is refused write its state without reading it.   *)
EndIsFinal ==
    [][inter.state \in Ended /\ ~Orphaned => inter'.state = inter.state /\ inter'.rev = inter.rev]_vars

(* Every click is dealt with. *)
CallbacksEnd == \A e \in Events : rc[e].state # "none" ~> rc[e].state \in {"claimed", "rejected"}

(* Once a form is registered, a last message reaches the chat or has used  *)
(* up its attempts, unless a response was disowned: its form may be open   *)
(* again for a round that is over, which nothing expires.                  *)
UserIsTold ==
    pres[1].resp # "none" ~>
        \/ \E r \in Revs : pres[r].kind = "terminal" /\ pres[r].deliv \in {"delivered", "failed"}
        \/ Orphaned

(* Once a form is registered the interaction ends, or the user was told    *)
(* that it failed: a rejection for good closes the form and leaves the     *)
(* interaction waiting.                                                    *)
InteractionEnds ==
    pres[1].resp # "none" ~>
        inter.state \in Ended \/ (\E r \in Revs : pres[r].shows = "failed") \/ Orphaned
=============================================================================

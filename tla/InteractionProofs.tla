-------------------------- MODULE InteractionProofs --------------------------
(***************************************************************************)
(* Proofs that an MCP interaction is safe for any number of rounds,        *)
(* clicks, workers and failures.                                           *)
(*                                                                         *)
(* The argument: only the current round can have a job that is waiting or  *)
(* leased, and at most one round has a form that is not closed.  A click   *)
(* that is being dealt with belongs to the form that waits for it, so a    *)
(* form can be open beside an accepted response only if the click that     *)
(* brought it was rejected; and while nothing has failed the worker that   *)
(* submits a response is the one that holds the click.                     *)
(***************************************************************************)
EXTENDS InteractionSystem, TLAPS

(* The click is waiting for a worker or with one. *)
Live(e) == rc[e].state \in {"received", "leased"}

(* Rounds: what is over succeeded, what is to come is empty, and only the  *)
(* current one has a job at work, unless the deadline ended it.            *)
RoundInv ==
    /\ \A r \in Revs :
         /\ r > inter.rev => job[r].state = "none" /\ pres[r].resp = "none"
         /\ r < inter.rev => job[r].state = "succeeded"
         /\ job[r].state = "response_ready" =>
              inter.rev = r /\ (inter.state = "response_ready" \/ (inter.state = "expired" /\ late))
         /\ job[r].state = "leased" =>
              inter.rev = r /\ (inter.state = "resuming" \/ (inter.state = "expired" /\ late))
    /\ inter.state \in {"completed", "declined", "failed"} => job[inter.rev].state # "none"

(* Forms: one at a time, delivered before it is answered, closed for good. *)
FormInv ==
    /\ \A r \in Revs :
         /\ pres[r].resp \in {"received", "claimed"} => pres[r].deliv = "delivered"
         /\ pres[r].resp # "terminal" => pres[r].kind = "form" /\ pres[r].shows = None
         /\ pres[r].resp = "terminal" /\ pres[r].kind = "form" =>
              pres[r].deliv = "delivered" /\ pres[r].shows = None
         /\ job[r].state # "none" => pres[r].resp # "none"
    /\ \A r1, r2 \in Revs :
         r1 < r2 /\ pres[r2].resp # "none" => pres[r1].resp = "terminal"

(* Messages: true, and a success or a refusal is told in its own round. *)
ShownInv ==
    /\ ShownIsTrue
    /\ \A r \in Revs : pres[r].shows \in {"completed", "declined"} => r = inter.rev

(* Keys: a job knows the click that brought its response. *)
KeyInv ==
    /\ \A r \in Revs : job[r].state = "none" <=> job[r].key = None
    /\ \A r \in Revs, e \in Events :
         job[r].key = e => rc[e].rev = r /\ rc[e].state # "none" /\ rc[e].answer # "invalid"
    /\ \A w \in Callbacks : cw[w].pc # "idle" =>
         /\ cw[w].ev \in Events
         /\ rc[cw[w].ev].state # "none"
         /\ rc[cw[w].ev].answer # "invalid"
    /\ \A w \in Callbacks : cw[w].pc = "claim" => job[rc[cw[w].ev].rev].key = cw[w].ev
    /\ ClaimedIsAccepted

(* Receipts: a click that is being dealt with is the one its form waits    *)
(* for, unless the form was closed.                                        *)
ReceiptInv ==
    /\ \A e \in Events :
         /\ rc[e].state # "none" => pres[rc[e].rev].resp # "none"
         /\ rc[e].state # "rejected" => rc[e].why = None
         /\ Live(e) => pres[rc[e].rev].resp \in {"received", "terminal"}
         /\ rc[e].state = "claimed" => pres[rc[e].rev].resp \in {"claimed", "terminal"}
         /\ rc[e].state = "rejected" /\ rc[e].why \notin {"conflict", "other"} =>
              pres[rc[e].rev].resp = "terminal"
    /\ \A e1, e2 \in Events : Live(e1) /\ Live(e2) /\ rc[e1].rev = rc[e2].rev => e1 = e2

(* Calls: unless it is reusable, a job that was leased once never waits    *)
(* again, so nobody is on the way to a second call.                        *)
CallInv ==
    /\ OneShotRunsOnce
    /\ inter.mode = "side_effect" => \A w \in Resumers : rw[w].pc = "idle"
    /\ inter.mode = "single_use" =>
         /\ \A r \in Revs : job[r].state \in {"none", "response_ready"} => calls[r] = 0
         /\ \A w \in Resumers : rw[w].pc # "idle" =>
               job[rw[w].rev].state \notin {"none", "response_ready"}
         /\ \A w \in Resumers : rw[w].pc = "call" => calls[rw[w].rev] = 0
         /\ \A w1, w2 \in Resumers :
               rw[w1].pc # "idle" /\ rw[w2].pc # "idle" /\ rw[w1].rev = rw[w2].rev => w1 = w2

(* A job at work is what the interaction row says, unless a response was   *)
(* disowned.                                                               *)
RowsInv ==
    Orphaned \/
    \A r \in Revs :
        /\ job[r].state = "response_ready" => inter.state = "response_ready"
        /\ job[r].state = "leased" => inter.state = "resuming"

(* Until something fails, whoever works on a click holds it, or its form   *)
(* is closed, ...                                                          *)
WorkersHold ==
    \A w \in Callbacks : cw[w].pc # "idle" =>
        /\ HoldsCallback(w) \/ pres[rc[cw[w].ev].rev].resp = "terminal"
        /\ rc[cw[w].ev].why \notin {"conflict", "other"}

(* ... a click that is leased has such a worker, ... *)
ClicksHeld ==
    \A e \in Events : rc[e].state = "leased" /\ pres[rc[e].rev].resp = "received" =>
        /\ rc[e].owner \in Callbacks
        /\ HoldsCallback(rc[e].owner)
        /\ cw[rc[e].owner].ev = e

(* ... and nothing is submitted for a click before its worker is about to  *)
(* mark it.                                                                *)
SubmittedIsMarked ==
    /\ \A w \in Callbacks : cw[w].pc \notin {"idle", "claim"} /\ HoldsCallback(w) =>
          job[rc[cw[w].ev].rev].key # cw[w].ev
    /\ \A e \in Events : rc[e].state = "received" /\ pres[rc[e].rev].resp = "received" =>
          job[rc[e].rev].key # e

FaultInv == faults = 0 => WorkersHold /\ ClicksHeld /\ SubmittedIsMarked /\ ~Orphaned

(* The inductive invariant. *)
InteractionInv ==
    /\ TypeOK
    /\ RoundInv
    /\ FormInv
    /\ ShownInv
    /\ KeyInv
    /\ ReceiptInv
    /\ CallInv
    /\ RowsInv
    /\ FaultInv


-----------------------------------------------------------------------------
(* Deliveries: the forms stay as they are and what is delivered stays so. *)
LEMMA DeliveryMove ==
    ASSUME InteractionInv, TypeOK',
           UNCHANGED <<inter, rc, cw, resumeVars, late>>,
           faults' = faults \/ faults' # 0,
           \A r \in Revs : /\ pres'[r].resp = pres[r].resp
                           /\ pres'[r].kind = pres[r].kind
                           /\ pres'[r].shows = pres[r].shows
                           /\ pres[r].deliv = "delivered" => pres'[r].deliv = "delivered"
    PROVE  InteractionInv'
<1>1. RoundInv'
  BY DEF InteractionInv, RoundInv, resumeVars
<1>2. FormInv'
  BY DEF InteractionInv, FormInv, resumeVars
<1>3. ShownInv'
  BY DEF InteractionInv, ShownInv, ShownIsTrue
<1>4. KeyInv'
  BY DEF InteractionInv, KeyInv, ClaimedIsAccepted, resumeVars
<1>5. ReceiptInv'
  BY DEF InteractionInv, ReceiptInv, Live, TypeOK, Receipts
<1>6. CallInv' /\ RowsInv'
  BY DEF InteractionInv, CallInv, RowsInv, OneShotRunsOnce, Orphaned, resumeVars
<1>7. FaultInv'
  <2> SUFFICES ASSUME faults' = 0 PROVE FaultInv'
    BY DEF FaultInv
  <2>1. \A e \in Events : pres'[rc'[e].rev].resp = pres[rc[e].rev].resp
    BY DEF InteractionInv, TypeOK, Receipts
  <2>2. \A w \in Callbacks : cw[w].pc # "idle" => cw[w].ev \in Events
    BY DEF InteractionInv, KeyInv
  <2>3. \A w \in Callbacks : cw[w].pc # "idle" => HoldsCallback(w)' = HoldsCallback(w)
    BY <2>1, <2>2 DEF HoldsCallback
  <2>4. WorkersHold /\ ClicksHeld /\ SubmittedIsMarked /\ ~Orphaned
    BY DEF InteractionInv, FaultInv
  <2>5. WorkersHold'
    BY <2>1, <2>2, <2>3, <2>4 DEF WorkersHold
  <2>6. ClicksHeld'
    <3> SUFFICES ASSUME NEW e \in Events, rc[e].state = "leased", pres'[rc[e].rev].resp = "received"
                 PROVE  /\ rc[e].owner \in Callbacks /\ HoldsCallback(rc[e].owner)'
                        /\ cw[rc[e].owner].ev = e
      BY DEF ClicksHeld
    <3>1. PICK w \in Callbacks : w = rc[e].owner /\ HoldsCallback(w) /\ cw[w].ev = e
      BY <2>1, <2>4 DEF ClicksHeld
    <3>2. HoldsCallback(w)'
      BY <2>3, <3>1 DEF HoldsCallback
    <3>3. QED BY <3>1, <3>2 DEF HoldsCallback
  <2>7. SubmittedIsMarked'
    BY <2>1, <2>3, <2>4 DEF SubmittedIsMarked, resumeVars
  <2>8. ~Orphaned'
    BY <2>4 DEF Orphaned, resumeVars
  <2>9. QED BY <2>5, <2>6, <2>7, <2>8 DEF FaultInv
<1>8. QED BY <1>1, <1>2, <1>3, <1>4, <1>5, <1>6, <1>7 DEF InteractionInv

(* The invariant is preserved by a delivery. *)
LEMMA AckDeliveryPreserves ==
    ASSUME NEW g \in Gateways, InteractionInv, AckDelivery(g)
    PROVE  InteractionInv'
<1>1. pres' \in [Revs -> Forms]
  <2>1. ASSUME NEW p \in Forms
        PROVE  [p EXCEPT !.deliv = "delivered", !.owner = None, !.lease = FALSE] \in Forms
    BY DEF Forms, Maybe, DeliveryStates
  <2>2. QED BY <2>1 DEF InteractionInv, TypeOK, AckDelivery
<1>2. gw' \in [Gateways -> ChannelWorkers]
  BY InteractionAssumption DEF InteractionInv, TypeOK, AckDelivery, Leave, IdleGateway,
     ChannelWorkers
<1>3. TypeOK'
  BY <1>1, <1>2 DEF InteractionInv, TypeOK, AckDelivery, resumeVars
<1>4. \A r \in Revs : /\ pres'[r].resp = pres[r].resp
                      /\ pres'[r].kind = pres[r].kind
                      /\ pres'[r].shows = pres[r].shows
                      /\ pres[r].deliv = "delivered" => pres'[r].deliv = "delivered"
  BY DEF InteractionInv, TypeOK, AckDelivery, Forms
<1>5. QED BY <1>3, <1>4, DeliveryMove DEF AckDelivery

(* The invariant is preserved by a delivery that fails. *)
LEMMA FailDeliveryPreserves ==
    ASSUME NEW g \in Gateways, InteractionInv, FailDelivery(g)
    PROVE  InteractionInv'
<1>1. pres' \in [Revs -> Forms]
  <2>1. ASSUME NEW p \in Forms, NEW d \in DeliveryStates
        PROVE  [p EXCEPT !.deliv = d, !.owner = None, !.lease = FALSE] \in Forms
    BY DEF Forms, Maybe
  <2>2. QED BY <2>1 DEF InteractionInv, TypeOK, FailDelivery, DeliveryStates
<1>2. gw' \in [Gateways -> ChannelWorkers]
  BY InteractionAssumption DEF InteractionInv, TypeOK, FailDelivery, Leave, IdleGateway,
     ChannelWorkers
<1>3. faults' \in 0..MaxFaults /\ faults' # 0
  BY InteractionAssumption DEF InteractionInv, TypeOK, FailDelivery, Fault
<1>4. TypeOK'
  BY <1>1, <1>2, <1>3 DEF InteractionInv, TypeOK, FailDelivery, resumeVars
<1>5. \A r \in Revs : /\ pres'[r].resp = pres[r].resp
                      /\ pres'[r].kind = pres[r].kind
                      /\ pres'[r].shows = pres[r].shows
                      /\ pres[r].deliv = "delivered" => pres'[r].deliv = "delivered"
  BY DEF InteractionInv, TypeOK, FailDelivery, HoldsDelivery, Forms
<1>6. QED BY <1>3, <1>4, <1>5, DeliveryMove DEF FailDelivery

(* The invariant is preserved when a channel worker finds its lease gone. *)
LEMMA DeliveryLostPreserves ==
    ASSUME NEW g \in Gateways, InteractionInv, DeliveryLost(g)
    PROVE  InteractionInv'
<1>1. gw' \in [Gateways -> ChannelWorkers]
  BY InteractionAssumption DEF InteractionInv, TypeOK, DeliveryLost, Leave, IdleGateway,
     ChannelWorkers
<1>2. TypeOK'
  BY <1>1 DEF InteractionInv, TypeOK, DeliveryLost, resumeVars
<1>3. QED BY <1>2, DeliveryMove DEF DeliveryLost

(* The invariant is preserved by the death of a channel worker. *)
LEMMA DeliveryCrashPreserves ==
    ASSUME NEW g \in Gateways, InteractionInv, DeliveryCrash(g)
    PROVE  InteractionInv'
<1>1. gw' \in [Gateways -> ChannelWorkers]
  BY InteractionAssumption DEF InteractionInv, TypeOK, DeliveryCrash, Leave, IdleGateway,
     ChannelWorkers
<1>2. faults' \in 0..MaxFaults /\ faults' # 0
  BY InteractionAssumption DEF InteractionInv, TypeOK, DeliveryCrash, Fault
<1>3. TypeOK'
  BY <1>1, <1>2 DEF InteractionInv, TypeOK, DeliveryCrash, resumeVars
<1>4. QED BY <1>2, <1>3, DeliveryMove DEF DeliveryCrash

(* The invariant is preserved by the end of a delivery lease. *)
LEMMA DeliveryLeaseEndsPreserves ==
    ASSUME NEW r \in Revs, InteractionInv, DeliveryLeaseEnds(r)
    PROVE  InteractionInv'
<1>1. pres' \in [Revs -> Forms]
  BY ZenonT(30) DEF InteractionInv, TypeOK, DeliveryLeaseEnds, Forms
<1>2. faults' \in 0..MaxFaults /\ (faults' = faults \/ faults' # 0)
  BY InteractionAssumption DEF InteractionInv, TypeOK, DeliveryLeaseEnds, Fault
<1>3. TypeOK'
  BY <1>1, <1>2 DEF InteractionInv, TypeOK, DeliveryLeaseEnds, resumeVars
<1>4. \A x \in Revs : /\ pres'[x].resp = pres[x].resp
                      /\ pres'[x].kind = pres[x].kind
                      /\ pres'[x].shows = pres[x].shows
                      /\ pres[x].deliv = "delivered" => pres'[x].deliv = "delivered"
  BY DEF InteractionInv, TypeOK, DeliveryLeaseEnds, Forms
<1>5. QED BY <1>2, <1>3, <1>4, DeliveryMove DEF DeliveryLeaseEnds

-----------------------------------------------------------------------------
(* The resume worker: it leaves, or a lease on a job ends. *)
LEMMA ResumeMove ==
    ASSUME InteractionInv, TypeOK',
           UNCHANGED <<inter, channelVars, late, calls>>,
           faults' = faults \/ faults' # 0,
           \A r \in Revs : job'[r].state = job[r].state /\ job'[r].key = job[r].key,
           \A w \in Resumers : rw'[w] = rw[w] \/ rw'[w].pc = "idle"
    PROVE  InteractionInv'
<1>1. RoundInv' /\ FormInv' /\ ShownInv'
  BY SMTT(20) DEF InteractionInv, TypeOK, RoundInv, FormInv, ShownInv, ShownIsTrue, channelVars
<1>2. \A e \in Events : rc[e].rev \in Revs
  BY DEF InteractionInv, TypeOK, Receipts
<1>3. KeyInv'
  BY <1>2 DEF InteractionInv, KeyInv, ClaimedIsAccepted, channelVars
<1>4. ReceiptInv'
  BY DEF InteractionInv, ReceiptInv, Live, channelVars
<1>5. CallInv'
  <2>1. OneShotRunsOnce'
    BY DEF InteractionInv, CallInv, OneShotRunsOnce
  <2>2. \A w \in Resumers : rw[w].rev \in Revs
    BY DEF InteractionInv, TypeOK, ResumeWorkers
  <2>3. QED BY <2>1, <2>2 DEF InteractionInv, CallInv
<1>6. Orphaned' = Orphaned
  BY DEF Orphaned, channelVars
<1>7. RowsInv'
  BY <1>6 DEF InteractionInv, RowsInv
<1>8. FaultInv'
  <2> SUFFICES ASSUME faults' = 0 PROVE FaultInv'
    BY DEF FaultInv
  <2>1. WorkersHold /\ ClicksHeld /\ SubmittedIsMarked /\ ~Orphaned
    BY DEF InteractionInv, FaultInv
  <2>2. WorkersHold' /\ ClicksHeld'
    BY ZenonT(30), <2>1 DEF WorkersHold, ClicksHeld, HoldsCallback, channelVars
  <2>3. \A w \in Callbacks : cw[w].pc # "idle" => cw[w].ev \in Events
    BY DEF InteractionInv, KeyInv
  <2>4. SubmittedIsMarked'
    BY <1>2, <2>1, <2>3 DEF SubmittedIsMarked, HoldsCallback, channelVars
  <2>5. QED BY <1>6, <2>1, <2>2, <2>4 DEF FaultInv
<1>9. QED BY <1>1, <1>3, <1>4, <1>5, <1>7, <1>8 DEF InteractionInv

(* The invariant is preserved when a resume worker finds its lease gone. *)
LEMMA ResumeLostPreserves ==
    ASSUME NEW w \in Resumers, InteractionInv, ResumeLost(w)
    PROVE  InteractionInv'
<1>1. TypeOK' /\ \A v \in Resumers : rw'[v] = rw[v] \/ rw'[v].pc = "idle"
  BY InteractionAssumption DEF InteractionInv, TypeOK, ResumeLost, Stand, IdleResumer,
     ResumeWorkers, ResumePcs, Revs, channelVars
<1>2. QED BY <1>1, ResumeMove DEF ResumeLost

(* The invariant is preserved by the death of a resume worker. *)
LEMMA ResumeCrashPreserves ==
    ASSUME NEW w \in Resumers, InteractionInv, ResumeCrash(w)
    PROVE  InteractionInv'
<1>1. faults' \in 0..MaxFaults /\ faults' # 0
  BY InteractionAssumption DEF InteractionInv, TypeOK, ResumeCrash, Fault
<1>2. TypeOK' /\ \A v \in Resumers : rw'[v] = rw[v] \/ rw'[v].pc = "idle"
  BY InteractionAssumption, <1>1 DEF InteractionInv, TypeOK, ResumeCrash, Stand, IdleResumer,
     ResumeWorkers, ResumePcs, Revs, channelVars
<1>3. QED BY <1>1, <1>2, ResumeMove DEF ResumeCrash

(* The invariant is preserved by the end of a job lease. *)
LEMMA JobLeaseEndsPreserves ==
    ASSUME NEW r \in Revs, InteractionInv, JobLeaseEnds(r)
    PROVE  InteractionInv'
<1>1. faults' \in 0..MaxFaults /\ (faults' = faults \/ faults' # 0)
  BY InteractionAssumption DEF InteractionInv, TypeOK, JobLeaseEnds, Fault
<1>2. job' \in [Revs -> Jobs]
  <2>1. ASSUME NEW j \in Jobs PROVE [j EXCEPT !.lease = FALSE] \in Jobs
    BY DEF Jobs
  <2>2. QED BY <2>1 DEF InteractionInv, TypeOK, JobLeaseEnds
<1>3. TypeOK'
  BY <1>1, <1>2 DEF InteractionInv, TypeOK, JobLeaseEnds, channelVars
<1>4. \A x \in Revs : job'[x].state = job[x].state /\ job'[x].key = job[x].key
  BY DEF InteractionInv, TypeOK, JobLeaseEnds, Jobs
<1>5. QED BY <1>1, <1>3, <1>4, ResumeMove DEF JobLeaseEnds

-----------------------------------------------------------------------------
(* The callback worker: it goes on, gives up or leaves, or a lease on a    *)
(* click ends.  Only a click whose response is there is to be marked.      *)
LEMMA CallbackMove ==
    ASSUME InteractionInv, TypeOK', FaultInv',
           UNCHANGED <<inter, pres, resumeVars, late>>,
           \A e \in Events : /\ rc'[e].state = rc[e].state
                             /\ rc'[e].rev = rc[e].rev
                             /\ rc'[e].answer = rc[e].answer
                             /\ rc'[e].why = rc[e].why,
           \A w \in Callbacks : cw'[w].pc # "idle" =>
              /\ cw'[w].ev = cw[w].ev
              /\ cw[w].pc # "idle"
              /\ cw'[w].pc = "claim" => cw[w].pc = "claim" \/ job[rc[cw[w].ev].rev].key = cw[w].ev
    PROVE  InteractionInv'
<1>1. RoundInv' /\ FormInv' /\ ShownInv'
  BY DEF InteractionInv, RoundInv, FormInv, ShownInv, ShownIsTrue, resumeVars
<1>2. KeyInv'
  BY DEF InteractionInv, KeyInv, ClaimedIsAccepted, resumeVars
<1>3. ReceiptInv'
  BY DEF InteractionInv, ReceiptInv, Live
<1>4. CallInv' /\ RowsInv'
  BY DEF InteractionInv, CallInv, RowsInv, OneShotRunsOnce, Orphaned, resumeVars
<1>5. QED BY <1>1, <1>2, <1>3, <1>4 DEF InteractionInv

(* The invariant is preserved when the look-up of the actor fails. *)
LEMMA ResolvePreserves ==
    ASSUME NEW w \in Callbacks, InteractionInv, Resolve(w)
    PROVE  InteractionInv'
<1>1. cw' \in [Callbacks -> CallbackWorkers]
  BY DEF InteractionInv, TypeOK, Resolve, CallbackWorkers, CallbackPcs
<1>2. TypeOK'
  BY <1>1 DEF InteractionInv, TypeOK, Resolve, resumeVars
<1>3. /\ cw[w].pc = "process" /\ cw'[w].pc \notin {"idle", "claim"}
      /\ \A x \in Callbacks : /\ cw'[x].ev = cw[x].ev /\ cw'[x].attempt = cw[x].attempt
                              /\ x # w => cw'[x].pc = cw[x].pc
  BY DEF InteractionInv, TypeOK, Resolve, CallbackWorkers
<1>4. \A x \in Callbacks : HoldsCallback(x)' = HoldsCallback(x)
  BY <1>3 DEF Resolve, HoldsCallback
<1>5. FaultInv'
  <2> SUFFICES ASSUME faults = 0 PROVE FaultInv'
    BY DEF FaultInv, Resolve
  <2>1. WorkersHold /\ ClicksHeld /\ SubmittedIsMarked /\ ~Orphaned
    BY DEF InteractionInv, FaultInv
  <2>2. WorkersHold'
    BY <1>3, <1>4, <2>1 DEF WorkersHold, Resolve
  <2>3. ClicksHeld'
    BY <1>3, <1>4, <2>1 DEF ClicksHeld, Resolve
  <2>4. SubmittedIsMarked'
    BY <1>3, <1>4, <2>1 DEF SubmittedIsMarked, Resolve, resumeVars
  <2>5. ~Orphaned'
    BY <2>1 DEF Orphaned, Resolve, resumeVars
  <2>6. QED BY <2>2, <2>3, <2>4, <2>5 DEF FaultInv
<1>6. QED BY <1>2, <1>3, <1>5, CallbackMove DEF Resolve

(* The invariant is preserved by a transaction that fails. *)
LEMMA CallbackFailsPreserves ==
    ASSUME NEW w \in Callbacks, InteractionInv, CallbackFails(w)
    PROVE  InteractionInv'
<1>1. faults' \in 0..MaxFaults /\ faults' # 0
  BY InteractionAssumption DEF InteractionInv, TypeOK, CallbackFails, Fault
<1>2. cw' \in [Callbacks -> CallbackWorkers]
  BY DEF InteractionInv, TypeOK, CallbackFails, CallbackWorkers, CallbackPcs
<1>3. TypeOK'
  BY <1>1, <1>2 DEF InteractionInv, TypeOK, CallbackFails, resumeVars
<1>4. \A x \in Callbacks : cw'[x].pc # "idle" =>
         cw'[x].ev = cw[x].ev /\ cw[x].pc # "idle" /\ (cw'[x].pc = "claim" => cw[x].pc = "claim")
  BY DEF InteractionInv, TypeOK, CallbackFails, CallbackWorkers
<1>5. QED BY <1>1, <1>3, <1>4, CallbackMove DEF CallbackFails, FaultInv

(* The invariant is preserved when a callback worker finds its lease gone. *)
LEMMA CallbackLostPreserves ==
    ASSUME NEW w \in Callbacks, InteractionInv, CallbackLost(w)
    PROVE  InteractionInv'
<1>1. cw' \in [Callbacks -> CallbackWorkers]
  BY DEF InteractionInv, TypeOK, CallbackLost, Rest, IdleCallback, CallbackWorkers,
     CallbackPcs, Maybe
<1>2. TypeOK'
  BY <1>1 DEF InteractionInv, TypeOK, CallbackLost, resumeVars
<1>3. cw'[w].pc = "idle" /\ \A x \in Callbacks : x # w => cw'[x] = cw[x]
  BY DEF InteractionInv, TypeOK, CallbackLost, Rest, IdleCallback
<1>4. \A x \in Callbacks : x # w => HoldsCallback(x)' = HoldsCallback(x)
  BY <1>3 DEF CallbackLost, HoldsCallback
<1>5. FaultInv'
  <2> SUFFICES ASSUME faults = 0 PROVE FaultInv'
    BY DEF FaultInv, CallbackLost
  <2>1. WorkersHold /\ ClicksHeld /\ SubmittedIsMarked /\ ~Orphaned
    BY DEF InteractionInv, FaultInv
  <2>2. WorkersHold'
    BY <1>3, <1>4, <2>1 DEF WorkersHold, CallbackLost
  <2>3. ClicksHeld'
    BY <1>3, <1>4, <2>1 DEF ClicksHeld, CallbackLost
  <2>4. SubmittedIsMarked'
    BY <1>3, <1>4, <2>1 DEF SubmittedIsMarked, CallbackLost, resumeVars
  <2>5. ~Orphaned'
    BY <2>1 DEF Orphaned, CallbackLost, resumeVars
  <2>6. QED BY <2>2, <2>3, <2>4, <2>5 DEF FaultInv
<1>6. QED BY <1>2, <1>3, <1>5, CallbackMove DEF CallbackLost

(* The invariant is preserved by the death of a callback worker. *)
LEMMA CallbackCrashPreserves ==
    ASSUME NEW w \in Callbacks, InteractionInv, CallbackCrash(w)
    PROVE  InteractionInv'
<1>1. faults' \in 0..MaxFaults /\ faults' # 0
  BY InteractionAssumption DEF InteractionInv, TypeOK, CallbackCrash, Fault
<1>2. cw' \in [Callbacks -> CallbackWorkers]
  BY DEF InteractionInv, TypeOK, CallbackCrash, Rest, IdleCallback, CallbackWorkers,
     CallbackPcs, Maybe
<1>3. TypeOK'
  BY <1>1, <1>2 DEF InteractionInv, TypeOK, CallbackCrash, resumeVars
<1>4. \A x \in Callbacks : cw'[x] = cw[x] \/ cw'[x].pc = "idle"
  BY DEF InteractionInv, TypeOK, CallbackCrash, Rest, IdleCallback
<1>5. QED BY <1>1, <1>3, <1>4, CallbackMove DEF CallbackCrash, FaultInv

(* The invariant is preserved by the end of the lease on a click. *)
LEMMA CallbackLeaseEndsPreserves ==
    ASSUME NEW e \in Events, InteractionInv, CallbackLeaseEnds(e)
    PROVE  InteractionInv'
<1>1. faults' \in 0..MaxFaults /\ (UNCHANGED faults \/ faults' # 0)
  BY InteractionAssumption DEF InteractionInv, TypeOK, CallbackLeaseEnds, Fault
<1>2. rc' \in [Events -> Receipts]
  <2>1. ASSUME NEW c \in Receipts PROVE [c EXCEPT !.lease = FALSE] \in Receipts
    BY DEF Receipts
  <2>2. QED BY <2>1 DEF InteractionInv, TypeOK, CallbackLeaseEnds
<1>3. TypeOK'
  BY <1>1, <1>2 DEF InteractionInv, TypeOK, CallbackLeaseEnds, resumeVars
<1>4. /\ \A x \in Events : /\ rc'[x].state = rc[x].state /\ rc'[x].rev = rc[x].rev
                           /\ rc'[x].answer = rc[x].answer /\ rc'[x].why = rc[x].why
                           /\ rc'[x].owner = rc[x].owner
      /\ rc'[e].lease = FALSE /\ \A x \in Events : x # e => rc'[x] = rc[x]
  BY DEF InteractionInv, TypeOK, CallbackLeaseEnds, Receipts
<1>5. FaultInv'
  <2> SUFFICES ASSUME faults' = 0 PROVE FaultInv'
    BY DEF FaultInv
  <2>1. WorkersHold /\ ClicksHeld /\ SubmittedIsMarked /\ ~Orphaned
    BY <1>1 DEF InteractionInv, FaultInv
  <2>2. \A w \in Callbacks : HoldsCallback(w) => cw[w].ev # e
    BY DEF CallbackLeaseEnds, InteractionInv, TypeOK, Fault
  <2>3. \A w \in Callbacks : cw[w].pc # "idle" => cw[w].ev \in Events
    BY DEF InteractionInv, KeyInv
  <2>4. ASSUME NEW w \in Callbacks, HoldsCallback(w) PROVE HoldsCallback(w)'
    <3>1. rc'[cw[w].ev] = rc[cw[w].ev]
      BY <1>4, <2>2, <2>3, <2>4 DEF HoldsCallback
    <3>2. QED BY <2>4, <3>1 DEF HoldsCallback, CallbackLeaseEnds
  <2>5. ASSUME NEW w \in Callbacks, HoldsCallback(w)' PROVE HoldsCallback(w)
    <3>1. rc'[cw[w].ev] = rc[cw[w].ev]
      BY <1>4, <2>3, <2>5 DEF HoldsCallback, CallbackLeaseEnds
    <3>2. QED BY <2>5, <3>1 DEF HoldsCallback, CallbackLeaseEnds
  <2>6. WorkersHold'
    BY <1>4, <2>1, <2>3, <2>4 DEF WorkersHold, CallbackLeaseEnds
  <2>7. ClicksHeld'
    BY <1>4, <2>1, <2>4 DEF ClicksHeld, CallbackLeaseEnds
  <2>8. SubmittedIsMarked'
    BY <1>4, <2>1, <2>3, <2>5 DEF SubmittedIsMarked, CallbackLeaseEnds, resumeVars
  <2>9. ~Orphaned'
    BY <1>4, <2>1 DEF Orphaned, CallbackLeaseEnds, resumeVars
  <2>10. QED BY <2>6, <2>7, <2>8, <2>9 DEF FaultInv
<1>6. QED BY <1>3, <1>4, <1>5, CallbackMove DEF CallbackLeaseEnds

-----------------------------------------------------------------------------
(* Jobs: leased, ended or waiting again, with the form and the click as    *)
(* they are and the interaction still open, or left as it is.              *)
LEMMA JobMove ==
    ASSUME InteractionInv, TypeOK', RoundInv', CallInv', RowsInv',
           UNCHANGED <<channelVars, late>>,
           faults' = faults \/ faults' # 0,
           \A r \in Revs : /\ job'[r].key = job[r].key
                           /\ job'[r].state = "none" <=> job[r].state = "none",
           inter.state \notin Ended \/ (inter'.state = inter.state /\ inter'.rev = inter.rev)
    PROVE  InteractionInv'
<1>1. FormInv'
  BY DEF InteractionInv, FormInv, channelVars
<1>2. ShownInv'
  BY DEF InteractionInv, ShownInv, ShownIsTrue, Ended, channelVars
<1>3. \A e \in Events : rc[e].rev \in Revs
  BY DEF InteractionInv, TypeOK, Receipts
<1>4. KeyInv'
  BY <1>3 DEF InteractionInv, KeyInv, ClaimedIsAccepted, channelVars
<1>5. ReceiptInv'
  BY DEF InteractionInv, ReceiptInv, Live, channelVars
<1>6. FaultInv'
  <2> SUFFICES ASSUME faults' = 0 PROVE FaultInv'
    BY DEF FaultInv
  <2>1. WorkersHold /\ ClicksHeld /\ SubmittedIsMarked /\ ~Orphaned
    BY DEF InteractionInv, FaultInv
  <2>2. WorkersHold' /\ ClicksHeld'
    BY <2>1 DEF WorkersHold, ClicksHeld, HoldsCallback, channelVars
  <2>3. \A w \in Callbacks : cw[w].pc # "idle" => cw[w].ev \in Events
    BY DEF InteractionInv, KeyInv
  <2>4. SubmittedIsMarked'
    BY <1>3, <2>1, <2>3 DEF SubmittedIsMarked, HoldsCallback, channelVars
  <2>5. ~Orphaned'
    BY <2>1 DEF Orphaned, channelVars
  <2>6. QED BY <2>2, <2>4, <2>5 DEF FaultInv
<1>7. QED BY <1>1, <1>2, <1>4, <1>5, <1>6 DEF InteractionInv

(* The invariant is preserved by a holder that ends its job, and with it   *)
(* Rounds are counted one by one. *)
LEMMA Succession ==
    /\ \A a, x \in Nat : (x > a => x # a) /\ (x < a => x # a) /\ a # a + 1
    /\ \A a, b, x \in Nat : b = a + 1 =>
          /\ x > b => x > a /\ x # a
          /\ x < b => x < a \/ x = a
OBVIOUS

(* the round or the interaction.                                           *)
LEMMA HolderMove ==
    ASSUME NEW w \in Resumers, InteractionInv, HoldsJob(w), Stand(w),
           NEW st \in {"succeeded", "terminal_failed", "response_ready"},
           job' = [job EXCEPT ![rw[w].rev] = Closed(@, st)],
           inter' \in [state : InterStates, rev : Revs, mode : Modes],
           inter'.mode = inter.mode,
           \/ inter'.rev = inter.rev /\ st = "succeeded" /\ inter'.state = "completed"
           \/ inter'.rev = inter.rev /\ st = "terminal_failed" /\ inter'.state = "failed"
           \/ inter'.rev = inter.rev /\ st = "response_ready" /\ inter'.state = "response_ready"
                /\ inter.mode = "reusable"
           \/ inter'.rev = inter.rev + 1 /\ st = "succeeded" /\ inter'.state = "awaiting_input",
           faults' \in 0..MaxFaults, faults' = faults \/ faults' # 0,
           UNCHANGED <<channelVars, late, calls>>
    PROVE  InteractionInv'
<1> DEFINE r == rw[w].rev
<1>1. /\ r \in Revs /\ inter.rev = r /\ inter.state = "resuming" /\ job[r].state = "leased"
      /\ Revs \subseteq Nat
  BY InteractionAssumption DEF HoldsJob, InteractionInv, TypeOK, ResumeWorkers, Revs
<1>2. job' \in [Revs -> Jobs]
  <2>1. ASSUME NEW j \in Jobs PROVE Closed(j, st) \in Jobs
    BY DEF Closed, Jobs, JobStates, Maybe
  <2>2. QED BY <2>1 DEF InteractionInv, TypeOK
<1>3. rw' \in [Resumers -> ResumeWorkers]
  BY InteractionAssumption DEF InteractionInv, TypeOK, Stand, IdleResumer, ResumeWorkers,
     ResumePcs, Revs
<1>4. TypeOK'
  BY <1>2, <1>3 DEF InteractionInv, TypeOK, channelVars
<1>5. /\ job'[r].state = st /\ job'[r].key = job[r].key
      /\ \A x \in Revs : x # r => job'[x] = job[x]
  BY <1>1 DEF InteractionInv, TypeOK, Closed, Jobs
<1>6. rw'[w].pc = "idle" /\ \A v \in Resumers : v # w => rw'[v] = rw[v]
  BY DEF InteractionInv, TypeOK, Stand, IdleResumer
<1>7. RoundInv'
  <2>1. CASE inter'.rev = inter.rev
    <3>1. /\ \A x \in Revs : x > inter.rev => x # r
          /\ \A x \in Revs : x < inter.rev => x # r
      BY <1>1, Succession
    <3>2. /\ \A x \in Revs : x > inter'.rev => job'[x].state = "none" /\ pres'[x].resp = "none"
          /\ \A x \in Revs : x < inter'.rev => job'[x].state = "succeeded"
      BY <1>5, <2>1, <3>1 DEF InteractionInv, RoundInv, channelVars
    <3>3. \A x \in Revs : x # r => job'[x].state \notin {"response_ready", "leased"}
      <4>1. \A x \in Revs : job[x].state \in {"response_ready", "leased"} => inter.rev = x
        BY DEF InteractionInv, RoundInv
      <4>2. QED BY <1>1, <1>5, <4>1
    <3>4. /\ st = "response_ready" => inter'.state = "response_ready"
          /\ st \notin {"none", "leased"}
      BY <2>1, <1>1, Succession
    <3>5. QED BY <1>1, <1>5, <2>1, <3>2, <3>3, <3>4 DEF RoundInv
  <2>2. CASE inter'.rev = inter.rev + 1
    <3>1. inter.rev \in Nat /\ Revs \subseteq Nat /\ r = inter.rev
      BY <1>1 DEF Revs
    <3>2. \A x \in Revs : /\ x > inter'.rev => x > inter.rev /\ x # r
                          /\ x < inter'.rev => x < inter.rev \/ x = r
      BY <2>2, <3>1, Succession
    <3>3. st = "succeeded" /\ inter'.state = "awaiting_input"
      BY <2>2, <3>1
    <3>4. QED BY <1>1, <1>5, <3>2, <3>3 DEF InteractionInv, RoundInv, channelVars
  <2>3. QED BY <2>1, <2>2
<1>8. CallInv'
  <2>1. OneShotRunsOnce'
    BY DEF InteractionInv, CallInv, OneShotRunsOnce
  <2>2. inter'.mode = "side_effect" => \A v \in Resumers : rw'[v].pc = "idle"
    BY <1>6 DEF InteractionInv, CallInv
  <2>3. inter'.mode = "single_use" => st # "response_ready"
    OBVIOUS
  <2>4. QED BY <1>5, <1>6, <2>1, <2>2, <2>3 DEF InteractionInv, CallInv
<1>9. RowsInv'
  BY <1>1, <1>5 DEF InteractionInv, RoundInv, RowsInv
<1>10. inter.state \notin Ended
  BY <1>1 DEF Ended
<1>11. QED BY <1>1, <1>4, <1>5, <1>7, <1>8, <1>9, <1>10, JobMove

(* The invariant is preserved by complete. *)
LEMMA CompletePreserves ==
    ASSUME NEW w \in Resumers, InteractionInv, Complete(w)
    PROVE  InteractionInv'
<1>1. /\ inter' \in [state : InterStates, rev : Revs, mode : Modes]
      /\ inter'.mode = inter.mode /\ inter'.rev = inter.rev /\ inter'.state = "completed"
  BY DEF InteractionInv, TypeOK, Complete, InterStates, Ended
<1>2. QED BY <1>1, HolderMove DEF Complete, InteractionInv, TypeOK

(* The invariant is preserved when the tool asks for more input. *)
LEMMA AdvancePreserves ==
    ASSUME NEW w \in Resumers, InteractionInv, Advance(w)
    PROVE  InteractionInv'
<1>1. /\ inter' \in [state : InterStates, rev : Revs, mode : Modes]
      /\ inter'.mode = inter.mode /\ inter'.rev = inter.rev + 1 /\ inter'.state = "awaiting_input"
  <2>1. inter.rev + 1 \in Revs
    BY InteractionAssumption DEF InteractionInv, TypeOK, Advance, Revs
  <2>2. QED BY <2>1 DEF InteractionInv, TypeOK, Advance, InterStates
<1>2. QED BY <1>1, HolderMove DEF Advance, InteractionInv, TypeOK

(* The invariant is preserved by terminal_fail. *)
LEMMA TerminalFailPreserves ==
    ASSUME NEW w \in Resumers, InteractionInv, TerminalFail(w)
    PROVE  InteractionInv'
<1>1. /\ inter' \in [state : InterStates, rev : Revs, mode : Modes]
      /\ inter'.mode = inter.mode /\ inter'.rev = inter.rev /\ inter'.state = "failed"
  BY DEF InteractionInv, TypeOK, TerminalFail, InterStates, Ended
<1>2. QED BY <1>1, HolderMove DEF TerminalFail, InteractionInv, TypeOK

(* The invariant is preserved by a call that breaks. *)
LEMMA RetryPreserves ==
    ASSUME NEW w \in Resumers, InteractionInv, Retry(w)
    PROVE  InteractionInv'
<1>1. faults' \in 0..MaxFaults /\ faults' # 0
  BY InteractionAssumption DEF InteractionInv, TypeOK, Retry, Fault
<1>2. /\ inter' \in [state : InterStates, rev : Revs, mode : Modes]
      /\ inter'.mode = inter.mode /\ inter'.rev = inter.rev
      /\ inter'.state = IF inter.mode = "reusable" THEN "response_ready" ELSE "failed"
  BY DEF InteractionInv, TypeOK, Retry, InterStates, Ended
<1>3. CASE inter.mode = "reusable"
  BY <1>1, <1>2, <1>3, HolderMove DEF Retry
<1>4. CASE inter.mode # "reusable"
  BY <1>1, <1>2, <1>4, HolderMove DEF Retry
<1>5. QED BY <1>3, <1>4

(* The invariant is preserved by lease_ready. *)
LEMMA LeaseJobPreserves ==
    ASSUME NEW w \in Resumers, NEW r \in Revs, InteractionInv, LeaseJob(w, r)
    PROVE  InteractionInv'
<1>1. /\ inter.rev = r /\ job[r].state \in {"response_ready", "leased"}
      /\ inter.state \in {"response_ready", "resuming"} \/ (inter.state = "expired" /\ late)
  BY DEF LeaseJob, Leasable, InteractionInv, RoundInv
<1>2. CASE Refusal(r) # None
  <2>1. /\ Refusal(r) \in {"expired", "failed"}
        /\ late => Refusal(r) = "expired"
    BY <1>1, <1>2 DEF Refusal, InteractionInv, TypeOK
  <2>2. /\ inter' \in [state : InterStates, rev : Revs, mode : Modes]
        /\ inter'.mode = inter.mode /\ inter'.rev = inter.rev /\ inter'.state = Refusal(r)
    BY <1>2, <2>1 DEF InteractionInv, TypeOK, LeaseJob, InterStates, Ended
  <2>3. job' \in [Revs -> Jobs]
    <3>1. ASSUME NEW j \in Jobs PROVE Closed(j, "terminal_failed") \in Jobs
      BY DEF Closed, Jobs, JobStates, Maybe
    <3>2. QED BY <1>2, <3>1 DEF InteractionInv, TypeOK, LeaseJob
  <2>4. TypeOK'
    BY <1>2, <2>2, <2>3 DEF InteractionInv, TypeOK, LeaseJob, channelVars
  <2>5. /\ job'[r].state = "terminal_failed" /\ job'[r].key = job[r].key
        /\ \A x \in Revs : x # r => job'[x] = job[x]
    <3>1. ASSUME NEW j \in Jobs
          PROVE  LET k == Closed(j, "terminal_failed") IN k.state = "terminal_failed" /\ k.key = j.key
      BY DEF Closed, Jobs
    <3>2. QED BY <1>2, <3>1 DEF InteractionInv, TypeOK, LeaseJob
  <2>6. RoundInv'
    BY <1>1, <2>2, <2>5 DEF InteractionInv, RoundInv, LeaseJob, channelVars
  <2>7. CallInv'
    <3>1. OneShotRunsOnce'
      BY <2>2 DEF InteractionInv, CallInv, OneShotRunsOnce, LeaseJob
    <3>2. \A v \in Resumers : rw[v].rev \in Revs
      BY DEF InteractionInv, TypeOK, ResumeWorkers
    <3>3. \A x \in Revs : job[x].state \notin {"none", "response_ready"} =>
                             job'[x].state \notin {"none", "response_ready"}
      BY <2>5
    <3>4. \A x \in Revs : job'[x].state \in {"none", "response_ready"} => job'[x] = job[x]
      BY <2>5
    <3>5. QED BY <1>2, <2>2, <3>1, <3>2, <3>3, <3>4 DEF InteractionInv, CallInv, LeaseJob
  <2>8. RowsInv'
    BY <1>1, <2>5 DEF InteractionInv, RoundInv, RowsInv
  <2>9. inter.state \notin Ended \/ inter'.state = inter.state
    BY <1>1, <2>1, <2>2 DEF Ended
  <2>10. QED BY <1>1, <2>2, <2>4, <2>5, <2>6, <2>7, <2>8, <2>9, JobMove DEF LeaseJob
<1>3. CASE Refusal(r) = None
  <2>1. /\ ~late /\ inter.mode # "side_effect"
        /\ inter.mode = "single_use" => job[r].state = "response_ready"
    BY <1>1, <1>3, InteractionAssumption DEF Refusal, InteractionInv, TypeOK, Modes,
       InterStates, Ended
  <2>2. /\ inter' \in [state : InterStates, rev : Revs, mode : Modes]
        /\ inter'.mode = inter.mode /\ inter'.rev = inter.rev /\ inter'.state = "resuming"
    BY <1>3 DEF InteractionInv, TypeOK, LeaseJob, InterStates
  <2>3. job' \in [Revs -> Jobs]
    <3>1. ASSUME NEW j \in Jobs, NEW n \in Nat
          PROVE  [j EXCEPT !.state = "leased", !.owner = w, !.lease = TRUE, !.attempt = n] \in Jobs
      BY DEF Jobs, JobStates, Maybe
    <3>2. job[r].attempt + 1 \in Nat /\ job[r] \in Jobs
      BY DEF InteractionInv, TypeOK, Jobs
    <3>3. job' = [job EXCEPT ![r] = [job[r] EXCEPT !.state = "leased", !.owner = w, !.lease = TRUE,
                                                   !.attempt = job[r].attempt + 1]]
      BY <1>3, <3>2 DEF LeaseJob, InteractionInv, TypeOK, Jobs
    <3>4. QED BY <3>1, <3>2, <3>3 DEF InteractionInv, TypeOK
  <2>4. rw' \in [Resumers -> ResumeWorkers]
    BY <1>3 DEF InteractionInv, TypeOK, LeaseJob, ResumeWorkers, ResumePcs, Jobs
  <2>5. TypeOK'
    BY <2>2, <2>3, <2>4 DEF InteractionInv, TypeOK, LeaseJob, channelVars
  <2>6. /\ job'[r].state = "leased" /\ job'[r].key = job[r].key
        /\ \A x \in Revs : x # r => job'[x] = job[x]
    BY <1>3 DEF InteractionInv, TypeOK, LeaseJob, Jobs
  <2>7. rw'[w].pc = "call" /\ rw'[w].rev = r /\ \A v \in Resumers : v # w => rw'[v] = rw[v]
    BY <1>3 DEF InteractionInv, TypeOK, LeaseJob
  <2>8. RoundInv'
    BY <1>1, <2>2, <2>6 DEF InteractionInv, RoundInv, LeaseJob, channelVars
  <2>9. CallInv'
    <3>1. OneShotRunsOnce'
      BY <2>2 DEF InteractionInv, CallInv, OneShotRunsOnce, LeaseJob
    <3>2. inter.mode = "single_use" =>
             calls[r] = 0 /\ \A v \in Resumers : rw[v].pc # "idle" => rw[v].rev # r
      BY <2>1 DEF InteractionInv, CallInv
    <3>3. \A v \in Resumers : rw[v].rev \in Revs
      BY DEF InteractionInv, TypeOK, ResumeWorkers
    <3>4. QED BY <2>1, <2>2, <2>6, <2>7, <3>1, <3>2, <3>3 DEF InteractionInv, CallInv, LeaseJob
  <2>10. RowsInv'
    BY <1>1, <2>2, <2>6 DEF InteractionInv, RoundInv, RowsInv
  <2>11. inter.state \notin Ended
    BY <1>1, <2>1 DEF Ended
  <2>12. QED BY <1>1, <2>5, <2>6, <2>8, <2>9, <2>10, <2>11, JobMove DEF LeaseJob
<1>4. QED BY <1>2, <1>3

(* The invariant is preserved by the call of the tool. *)
LEMMA CallPreserves ==
    ASSUME NEW w \in Resumers, InteractionInv, Call(w)
    PROVE  InteractionInv'
<1>1. rw[w].rev \in Revs
  BY DEF InteractionInv, TypeOK, ResumeWorkers
<1>2. calls' \in [Revs -> Nat] /\ rw' \in [Resumers -> ResumeWorkers]
  BY DEF InteractionInv, TypeOK, Call, ResumeWorkers, ResumePcs
<1>3. TypeOK'
  BY <1>2 DEF InteractionInv, TypeOK, Call, channelVars
<1>4. /\ \A v \in Resumers : rw'[v].rev = rw[v].rev
      /\ rw[w].pc = "call" /\ rw'[w].pc = "answer"
      /\ \A v \in Resumers : v # w => rw'[v].pc = rw[v].pc
  BY DEF InteractionInv, TypeOK, Call, ResumeWorkers
<1>5. /\ calls'[rw[w].rev] = calls[rw[w].rev] + 1
      /\ \A x \in Revs : x # rw[w].rev => calls'[x] = calls[x]
  BY <1>1 DEF InteractionInv, TypeOK, Call
<1>6. inter.mode # "side_effect"
  BY <1>4 DEF InteractionInv, CallInv
<1>7. CallInv'
  <2>1. CASE inter.mode = "single_use"
    <3>1. calls[rw[w].rev] = 0 /\ job[rw[w].rev].state \notin {"none", "response_ready"}
      BY <1>4, <2>1 DEF InteractionInv, CallInv
    <3>2. OneShotRunsOnce'
      BY <1>5, <2>1, <3>1 DEF InteractionInv, CallInv, OneShotRunsOnce, Call
    <3>3. \A v \in Resumers : rw'[v].pc = "call" => calls'[rw'[v].rev] = 0
      BY <1>4, <1>5, <2>1 DEF InteractionInv, CallInv, TypeOK, ResumeWorkers
    <3>4. QED BY <1>4, <1>5, <2>1, <3>1, <3>2, <3>3 DEF InteractionInv, CallInv, Call
  <2>2. CASE inter.mode # "single_use"
    BY <1>6, <2>2 DEF CallInv, OneShotRunsOnce, Call
  <2>3. QED BY <2>1, <2>2
<1>8. RoundInv' /\ RowsInv'
  BY DEF InteractionInv, RoundInv, RowsInv, Orphaned, Call, channelVars
<1>9. QED BY <1>3, <1>7, <1>8, JobMove DEF Call

(* The invariant is preserved when the deadline passes. *)
LEMMA ExpirePreserves ==
    ASSUME InteractionInv, Expire
    PROVE  InteractionInv'
<1>1. TypeOK' /\ RoundInv' /\ FormInv' /\ ShownInv'
  BY DEF InteractionInv, TypeOK, RoundInv, FormInv, ShownInv, ShownIsTrue, Expire, channelVars
<1>2. KeyInv' /\ ReceiptInv' /\ CallInv' /\ RowsInv'
  BY DEF InteractionInv, KeyInv, ClaimedIsAccepted, ReceiptInv, Live, CallInv, OneShotRunsOnce,
     RowsInv, Orphaned, Expire, channelVars
<1>3. FaultInv'
  BY ZenonT(30) DEF InteractionInv, FaultInv, WorkersHold, ClicksHeld, SubmittedIsMarked,
     HoldsCallback, Orphaned, Expire, channelVars
<1>4. QED BY <1>1, <1>2, <1>3 DEF InteractionInv

-----------------------------------------------------------------------------
(* A form that is open beside an accepted response belongs to a click that *)
(* was disowned; otherwise the round it is for is the current one and has  *)
(* no job.                                                                 *)
LEMMA OpenForm ==
    ASSUME InteractionInv, ~Orphaned, NEW r \in Revs, pres[r].resp = "open"
    PROVE  inter.rev = r /\ job[r].state = "none"
<1>1. job[r].state = "none"
  <2> SUFFICES ASSUME job[r].state # "none" PROVE FALSE
    OBVIOUS
  <2>1. job[r].key \in Events
    BY DEF InteractionInv, TypeOK, KeyInv, Jobs, Maybe
  <2>2. rc[job[r].key].rev = r /\ rc[job[r].key].state # "none"
    BY <2>1 DEF InteractionInv, KeyInv
  <2>3. rc[job[r].key].state \in {"received", "leased", "claimed", "rejected"}
    BY <2>1, <2>2 DEF InteractionInv, TypeOK, Receipts, ReceiptStates
  <2>4. rc[job[r].key].why \in {"conflict", "other"}
    BY <2>1, <2>2, <2>3 DEF InteractionInv, ReceiptInv, Live
  <2>5. QED BY <2>1, <2>4 DEF Orphaned
<1>2. ~(r < inter.rev) /\ ~(r > inter.rev)
  BY <1>1 DEF InteractionInv, RoundInv
<1>3. QED BY <1>1, <1>2, InteractionAssumption DEF InteractionInv, TypeOK, Revs

(* A form is closed, by the deadline or because the interaction has ended. *)
LEMMA CloseMove ==
    ASSUME InteractionInv, TypeOK', NEW r \in Revs,
           pres[r].resp \in {"open", "received", "claimed"},
           pres'[r].resp = "terminal", pres'[r].kind = "terminal",
           \A x \in Revs : x # r => pres'[x] = pres[x],
           inter'.rev = inter.rev, inter'.mode = inter.mode,
           pres'[r].shows = inter'.state,
           \/ inter'.state = inter.state /\ inter.rev = r
           \/ /\ inter'.state = "expired" /\ late
              /\ pres[r].resp = "open" \/ inter.state = "awaiting_input",
           UNCHANGED <<rc, cw, resumeVars, late, faults>>
    PROVE  InteractionInv'
<1>1. RoundInv'
  BY DEF InteractionInv, RoundInv, resumeVars
<1>2. FormInv'
  BY DEF InteractionInv, FormInv, resumeVars
<1>3. ShownInv'
  <2>1. CASE inter'.state = inter.state /\ inter.rev = r
    BY <2>1 DEF InteractionInv, ShownInv, ShownIsTrue
  <2>2. CASE inter'.state = "expired"
    <3>1. ASSUME NEW x \in Revs, x # r, pres[x].shows \in {"completed", "declined"} PROVE FALSE
      <4>1. x = inter.rev /\ pres[x].resp = "terminal"
        BY <3>1, InteractionAssumption DEF InteractionInv, ShownInv, FormInv, Ended, InterStates
      <4>2. ~(r > x)
        BY <4>1 DEF InteractionInv, RoundInv
      <4>3. ~(r < x)
        BY <4>1 DEF InteractionInv, FormInv
      <4>4. QED BY <3>1, <4>2, <4>3, InteractionAssumption DEF Revs
    <3>2. QED BY <2>2, <3>1 DEF InteractionInv, ShownInv, ShownIsTrue, Ended
  <2>3. QED BY <2>1, <2>2
<1>4. KeyInv'
  BY DEF InteractionInv, KeyInv, ClaimedIsAccepted, resumeVars
<1>5. \A e \in Events : rc[e].rev \in Revs
  BY DEF InteractionInv, TypeOK, Receipts
<1>6. ReceiptInv'
  BY <1>5 DEF InteractionInv, ReceiptInv, Live
<1>7. CallInv'
  BY DEF InteractionInv, CallInv, OneShotRunsOnce, resumeVars
<1>8. RowsInv'
  <2>1. Orphaned' = Orphaned
    BY DEF Orphaned, resumeVars
  <2>2. CASE inter'.state = inter.state
    BY <2>1, <2>2 DEF InteractionInv, RowsInv, resumeVars
  <2>3. CASE inter.state = "awaiting_input"
    BY <2>3 DEF InteractionInv, RoundInv, RowsInv, resumeVars
  <2>4. CASE pres[r].resp = "open" /\ ~Orphaned
    BY <2>4, OpenForm DEF InteractionInv, RoundInv, RowsInv, resumeVars
  <2>5. QED BY <2>1, <2>2, <2>3, <2>4 DEF RowsInv
<1>9. FaultInv'
  <2> SUFFICES ASSUME faults = 0 PROVE FaultInv'
    BY DEF FaultInv
  <2>1. WorkersHold /\ ClicksHeld /\ SubmittedIsMarked /\ ~Orphaned
    BY DEF InteractionInv, FaultInv
  <2>2. \A w \in Callbacks : cw[w].pc # "idle" => cw[w].ev \in Events
    BY DEF InteractionInv, KeyInv
  <2>3. \A w \in Callbacks : HoldsCallback(w)' => HoldsCallback(w)
    BY <1>5, <2>2 DEF HoldsCallback
  <2>4. \A w \in Callbacks : HoldsCallback(w) => HoldsCallback(w)' \/ rc[cw[w].ev].rev = r
    BY <1>5, <2>2 DEF HoldsCallback
  <2>5. WorkersHold'
    BY <1>5, <2>1, <2>2, <2>4 DEF WorkersHold
  <2>6. ClicksHeld'
    BY <1>5, <2>1, <2>4 DEF ClicksHeld
  <2>7. SubmittedIsMarked'
    BY <1>5, <2>1, <2>3 DEF SubmittedIsMarked, resumeVars
  <2>8. ~Orphaned'
    BY <2>1 DEF Orphaned, resumeVars
  <2>9. QED BY <2>5, <2>6, <2>7, <2>8 DEF FaultInv
<1>10. QED BY <1>1, <1>2, <1>3, <1>4, <1>6, <1>7, <1>8, <1>9 DEF InteractionInv

(* A closed form is still a form. *)
LEMMA TerminalizeType ==
    ASSUME NEW p \in Forms, NEW s \in Ended
    PROVE  /\ Terminalize(p, s) \in Forms
           /\ Terminalize(p, s).resp = "terminal"
           /\ Terminalize(p, s).kind = "terminal"
           /\ Terminalize(p, s).shows = s
  BY DEF Terminalize, Forms, ResponseStates, DeliveryStates, Maybe

(* The invariant is preserved by claim_delivery. *)
LEMMA ClaimDeliveryPreserves ==
    ASSUME NEW g \in Gateways, NEW r \in Revs, InteractionInv, ClaimDelivery(g, r)
    PROVE  InteractionInv'
<1> DEFINE p == IF pres[r].kind = "form" /\ late THEN Terminalize(pres[r], "expired") ELSE pres[r]
           q == [p EXCEPT !.deliv = "leased", !.owner = g, !.lease = TRUE, !.attempt = @ + 1]
<1>1. pres[r] \in Forms
  BY DEF InteractionInv, TypeOK
<1>2. p \in Forms
  BY <1>1, TerminalizeType DEF Ended
<1>3. /\ q \in Forms
      /\ q.resp = p.resp /\ q.kind = p.kind /\ q.shows = p.shows
  <2> HIDE DEF p
  <2>1. p.attempt + 1 \in Nat
    BY <1>2 DEF Forms
  <2>2. QED BY <1>2, <2>1 DEF Forms, DeliveryStates, Maybe
<1>4. pres' = [pres EXCEPT ![r] = q]
  BY DEF ClaimDelivery
<1>5. gw' \in [Gateways -> ChannelWorkers]
  <2>1. gw' = [gw EXCEPT ![g] = [rev |-> r, attempt |-> p.attempt + 1]]
    BY DEF ClaimDelivery
  <2> HIDE DEF p
  <2>2. p.attempt + 1 \in Nat /\ r \in 0..MaxRounds
    BY <1>2, InteractionAssumption DEF Forms, Revs
  <2>3. QED BY <2>1, <2>2 DEF InteractionInv, TypeOK, ChannelWorkers
<1>6. /\ inter' \in [state : InterStates, rev : Revs, mode : Modes]
      /\ inter'.rev = inter.rev /\ inter'.mode = inter.mode
      /\ inter' = IF p # pres[r] THEN [inter EXCEPT !.state = "expired"] ELSE inter
  BY DEF InteractionInv, TypeOK, ClaimDelivery, InterStates, Ended
<1>7. TypeOK'
  BY <1>3, <1>4, <1>5, <1>6 DEF InteractionInv, TypeOK, ClaimDelivery, resumeVars
<1>8. pres'[r] = q /\ \A x \in Revs : x # r => pres'[x] = pres[x]
  BY <1>4 DEF InteractionInv, TypeOK
<1>9. CASE pres[r].kind = "form" /\ late
  <2>1. p.resp = "terminal" /\ p.kind = "terminal" /\ p.shows = "expired"
    BY <1>1, <1>9, TerminalizeType DEF Ended
  <2>2. p # pres[r] /\ inter'.state = "expired"
    BY <1>6, <1>9, <2>1 DEF InteractionInv, TypeOK
  <2>3. pres[r].resp = "open"
    BY <1>1, <1>9 DEF InteractionInv, FormInv, ClaimDelivery, Deliverable, Forms, ResponseStates
  <2> HIDE DEF p, q
  <2>4. QED BY ZenonT(30), <1>3, <1>6, <1>7, <1>8, <1>9, <2>1, <2>2, <2>3, CloseMove DEF
        ClaimDelivery
<1>10. CASE ~(pres[r].kind = "form" /\ late)
  <2>1. p = pres[r] /\ inter' = inter
    BY <1>6, <1>10
  <2>2. pres[r].deliv # "delivered"
    BY DEF ClaimDelivery, Deliverable
  <2> HIDE DEF p, q
  <2>3. QED BY <1>3, <1>7, <1>8, <2>1, <2>2, DeliveryMove DEF ClaimDelivery
<1>11. QED BY <1>9, <1>10

(* The invariant is preserved by the registration of the first form. *)
LEMMA RegisterPreserves ==
    ASSUME InteractionInv, Register
    PROVE  InteractionInv'
<1>1. 1 \in Revs /\ Revs \subseteq Nat /\ \A x \in Revs : x = 1 \/ x > 1
  BY InteractionAssumption DEF Revs
<1>2. /\ Form \in Forms /\ Form.resp = "open" /\ Form.kind = "form" /\ Form.shows = None
  BY DEF Form, NoForm, Forms, ResponseStates, DeliveryStates, Maybe
<1>3. /\ pres' \in [Revs -> Forms] /\ pres'[1] = Form
      /\ \A x \in Revs : x # 1 => pres'[x] = pres[x]
  BY <1>1, <1>2 DEF InteractionInv, TypeOK, Register
<1>4. TypeOK'
  BY <1>3 DEF InteractionInv, TypeOK, Register, resumeVars
<1>5. \A x \in Revs : job[x].state = "none" /\ (x # 1 => pres[x].resp = "none")
  BY <1>1 DEF InteractionInv, RoundInv, FormInv, Register
<1>6. RoundInv'
  BY <1>1, <1>2, <1>3, <1>5 DEF InteractionInv, RoundInv, Register, resumeVars
<1>7. FormInv'
  BY <1>1, <1>2, <1>3, <1>5 DEF InteractionInv, FormInv, Register, resumeVars
<1>8. ShownInv'
  BY <1>2, <1>3, InteractionAssumption DEF InteractionInv, ShownInv, ShownIsTrue, Register,
     InterStates, Ended
<1>9. KeyInv'
  BY DEF InteractionInv, KeyInv, ClaimedIsAccepted, Register, resumeVars
<1>10. \A e \in Events : rc[e].rev \in Revs /\ (rc[e].state # "none" => rc[e].rev # 1)
  BY DEF InteractionInv, TypeOK, Receipts, ReceiptInv, Register
<1>11. \A e \in Events : rc[e].state # "none" => pres'[rc[e].rev] = pres[rc[e].rev]
  BY <1>3, <1>10
<1>12. ReceiptInv'
  BY <1>10, <1>11 DEF InteractionInv, ReceiptInv, Live, Register
<1>13. CallInv' /\ RowsInv'
  BY DEF InteractionInv, CallInv, RowsInv, OneShotRunsOnce, Orphaned, Register, resumeVars
<1>14. FaultInv'
  <2> SUFFICES ASSUME faults = 0 PROVE FaultInv'
    BY DEF FaultInv, Register
  <2>1. WorkersHold /\ ClicksHeld /\ SubmittedIsMarked /\ ~Orphaned
    BY DEF InteractionInv, FaultInv
  <2>2. \A w \in Callbacks : cw[w].pc # "idle" => cw[w].ev \in Events /\ rc[cw[w].ev].state # "none"
    BY DEF InteractionInv, KeyInv
  <2>3. \A w \in Callbacks : HoldsCallback(w)' = HoldsCallback(w)
    BY <1>11, <2>2 DEF HoldsCallback, Register
  <2>4. WorkersHold'
    BY <1>11, <2>1, <2>2, <2>3 DEF WorkersHold, Register
  <2>5. ClicksHeld'
    BY <1>11, <2>1, <2>3 DEF ClicksHeld, Register
  <2>6. SubmittedIsMarked'
    BY <1>11, <2>1, <2>3 DEF SubmittedIsMarked, Register, resumeVars
  <2>7. ~Orphaned'
    BY <2>1 DEF Orphaned, Register, resumeVars
  <2>8. QED BY <2>4, <2>5, <2>6, <2>7 DEF FaultInv
<1>15. QED BY <1>4, <1>6, <1>7, <1>8, <1>9, <1>12, <1>13, <1>14 DEF InteractionInv

(* The invariant is preserved by reconcile. *)
LEMMA ReconcilePreserves ==
    ASSUME NEW r \in Revs, InteractionInv, Reconcile(r)
    PROVE  InteractionInv'
<1>1. pres[r].resp \in {"open", "received", "claimed"}
  BY DEF Reconcile
<1>2. ASSUME NEW s \in Ended, pres' = [pres EXCEPT ![r] = Terminalize(@, s)],
             inter' \in [state : InterStates, rev : Revs, mode : Modes],
             inter'.rev = inter.rev, inter'.mode = inter.mode, inter'.state = s,
             \/ inter'.state = inter.state /\ inter.rev = r
             \/ s = "expired" /\ late /\ inter.state = "awaiting_input"
      PROVE  InteractionInv'
  <2>1. pres[r] \in Forms
    BY DEF InteractionInv, TypeOK
  <2>2. /\ pres' \in [Revs -> Forms]
        /\ pres'[r].resp = "terminal" /\ pres'[r].kind = "terminal" /\ pres'[r].shows = s
        /\ \A x \in Revs : x # r => pres'[x] = pres[x]
    BY <1>2, <2>1, TerminalizeType DEF InteractionInv, TypeOK
  <2>3. TypeOK'
    BY <1>2, <2>2 DEF InteractionInv, TypeOK, Reconcile, resumeVars
  <2>4. QED BY <1>1, <1>2, <2>2, <2>3, CloseMove DEF Reconcile
<1>3. CASE /\ inter.state = "awaiting_input" /\ late /\ inter.rev = r
           /\ inter' = [inter EXCEPT !.state = "expired"]
           /\ pres' = [pres EXCEPT ![r] = Terminalize(@, "expired")]
  <2>1. /\ inter' \in [state : InterStates, rev : Revs, mode : Modes]
        /\ inter'.rev = inter.rev /\ inter'.mode = inter.mode /\ inter'.state = "expired"
    BY <1>3 DEF InteractionInv, TypeOK, InterStates, Ended
  <2>2. QED BY <1>2, <1>3, <2>1 DEF Ended
<1>4. CASE /\ inter.rev = r /\ inter.state \in Ended
           /\ pres' = [pres EXCEPT ![r] = Terminalize(@, inter.state)]
           /\ UNCHANGED inter
  BY <1>2, <1>4 DEF InteractionInv, TypeOK
<1>5. CASE /\ inter.rev > r /\ inter.state = "awaiting_input" /\ pres[r].resp = "claimed"
           /\ pres' = [pres EXCEPT ![r].resp = "terminal",
                                   ![inter.rev] = IF @.resp = "none" THEN Form ELSE @]
           /\ UNCHANGED inter
  <2> DEFINE n == inter.rev
             p == [pres[r] EXCEPT !.resp = "terminal"]
             q == IF pres[n].resp = "none" THEN Form ELSE pres[n]
  <2>1. /\ Form \in Forms /\ Form.resp = "open" /\ Form.kind = "form" /\ Form.shows = None
    BY DEF Form, NoForm, Forms, ResponseStates, DeliveryStates, Maybe
  <2>2. n \in Revs /\ r # n /\ pres[r] \in Forms /\ pres[n] \in Forms
    BY <1>5, InteractionAssumption DEF InteractionInv, TypeOK, Revs
  <2>3. /\ p \in Forms /\ p.resp = "terminal" /\ p.kind = pres[r].kind /\ p.shows = pres[r].shows
        /\ p.deliv = pres[r].deliv
    <3>1. ASSUME NEW f \in Forms
          PROVE  LET h == [f EXCEPT !.resp = "terminal"] IN
                 h \in Forms /\ h.resp = "terminal" /\ h.kind = f.kind /\ h.shows = f.shows /\ h.deliv = f.deliv
      BY DEF Forms, ResponseStates
    <3>2. QED BY <2>2, <3>1
  <2>4. /\ pres' \in [Revs -> Forms] /\ pres'[r] = p /\ pres'[n] = q
        /\ \A x \in Revs : x # r /\ x # n => pres'[x] = pres[x]
    <3>1. q \in Forms
      BY <2>1, <2>2
    <3>2. pres' = [pres EXCEPT ![r] = p, ![n] = q]
      BY <1>5, <2>2 DEF InteractionInv, TypeOK
    <3> HIDE DEF p, q, n
    <3>3. QED BY <2>2, <2>3, <3>1, <3>2 DEF InteractionInv, TypeOK
  <2>5. TypeOK'
    BY <1>5, <2>4 DEF InteractionInv, TypeOK, Reconcile, resumeVars
  <2>6. /\ q.resp # "none"
        /\ pres[n].resp # "none" => q = pres[n]
        /\ pres[n].resp = "none" => q = Form
    BY <2>1
  <2>7. pres[n].resp = "none" /\ \A x \in Revs : x < n /\ x # r => pres[x].resp = "terminal"
    <3>1. pres[n].resp = "none"
      BY <1>5, <2>2 DEF InteractionInv, FormInv
    <3>2. ASSUME NEW x \in Revs, x < n, x # r PROVE pres[x].resp = "terminal"
      <4>1. pres[x].resp # "none"
        BY <2>2, <3>2 DEF InteractionInv, RoundInv, FormInv
      <4>2. x < r \/ r < x
        BY <2>2, <3>2, InteractionAssumption DEF Revs
      <4>3. QED BY <1>5, <4>1, <4>2 DEF InteractionInv, FormInv
    <3>3. QED BY <3>1, <3>2
  <2>8. pres[r].deliv = "delivered" /\ pres[r].shows = None
    BY <1>5 DEF InteractionInv, FormInv
  <2> HIDE DEF p, q
  <2>9. RoundInv'
    <3>1. \A x \in Revs : x > n => x # r /\ x # n
      BY <1>5, <2>2, InteractionAssumption DEF Revs
    <3>2. QED BY <1>5, <2>4, <3>1 DEF InteractionInv, RoundInv, Reconcile, resumeVars
  <2>10. FormInv'
    <3>1. \A x \in Revs : /\ pres'[x].resp \in {"received", "claimed"} => pres'[x].deliv = "delivered"
                          /\ pres'[x].resp # "terminal" => pres'[x].kind = "form" /\ pres'[x].shows = None
                          /\ pres'[x].resp = "terminal" /\ pres'[x].kind = "form" =>
                                pres'[x].deliv = "delivered" /\ pres'[x].shows = None
                          /\ job'[x].state # "none" => pres'[x].resp # "none"
      BY <2>1, <2>3, <2>4, <2>6, <2>7, <2>8 DEF InteractionInv, FormInv, Reconcile, resumeVars
    <3>2. ASSUME NEW r1 \in Revs, NEW r2 \in Revs, r1 < r2, pres'[r2].resp # "none"
          PROVE  pres'[r1].resp = "terminal"
      <4>1. ~(r2 > n)
        BY <1>5, <2>2, <2>4, <3>2, InteractionAssumption DEF InteractionInv, RoundInv, Revs
      <4>2. r1 < n
        BY <2>2, <3>2, <4>1, InteractionAssumption DEF Revs
      <4>3. QED BY <2>2, <2>3, <2>4, <2>7, <4>2, InteractionAssumption DEF Revs
    <3>3. QED BY <3>1, <3>2 DEF FormInv
  <2>11. \A x \in Revs : pres'[x].shows = pres[x].shows
    BY <2>1, <2>2, <2>3, <2>4, <2>6, <2>7 DEF InteractionInv, FormInv
  <2>12. ShownInv'
    BY <1>5, <2>11 DEF InteractionInv, ShownInv, ShownIsTrue
  <2>13. KeyInv' /\ CallInv' /\ RowsInv'
    BY SMTT(20), <1>5 DEF InteractionInv, KeyInv, ClaimedIsAccepted, CallInv, OneShotRunsOnce,
       RowsInv, Orphaned, Reconcile, resumeVars
  <2>14. \A e \in Events : rc[e].state # "none" =>
           /\ rc[e].rev \in Revs /\ rc[e].rev # n
           /\ rc[e].rev # r => pres'[rc[e].rev] = pres[rc[e].rev]
    BY <2>4, <2>7 DEF InteractionInv, TypeOK, Receipts, ReceiptInv
  <2>15. \A e \in Events : rc[e].state # "none" =>
           /\ pres'[rc[e].rev].resp = "received" <=> pres[rc[e].rev].resp = "received"
           /\ pres[rc[e].rev].resp = "terminal" => pres'[rc[e].rev].resp = "terminal"
    BY <1>5, <2>3, <2>4, <2>14
  <2>16. ReceiptInv'
    BY SMTT(20), <1>5, <2>3, <2>4, <2>14 DEF InteractionInv, ReceiptInv, Live, Reconcile
  <2>17. FaultInv'
    <3> SUFFICES ASSUME faults = 0 PROVE FaultInv'
      BY DEF FaultInv, Reconcile
    <3>1. WorkersHold /\ ClicksHeld /\ SubmittedIsMarked /\ ~Orphaned
      BY DEF InteractionInv, FaultInv
    <3>2. \A w \in Callbacks : cw[w].pc # "idle" => cw[w].ev \in Events /\ rc[cw[w].ev].state # "none"
      BY DEF InteractionInv, KeyInv
    <3>3. \A w \in Callbacks : HoldsCallback(w)' = HoldsCallback(w)
      BY <2>15, <3>2 DEF HoldsCallback, Reconcile
    <3>4. WorkersHold'
      BY <2>15, <3>1, <3>2, <3>3 DEF WorkersHold, Reconcile
    <3>5. ClicksHeld'
      BY <2>15, <3>1, <3>3 DEF ClicksHeld, Reconcile
    <3>6. SubmittedIsMarked'
      BY <2>15, <3>1, <3>3 DEF SubmittedIsMarked, Reconcile, resumeVars
    <3>7. ~Orphaned'
      BY <3>1 DEF Orphaned, Reconcile, resumeVars
    <3>8. QED BY <3>4, <3>5, <3>6, <3>7 DEF FaultInv
  <2>18. QED BY <2>5, <2>9, <2>10, <2>12, <2>13, <2>16, <2>17 DEF InteractionInv
<1>6. QED BY <1>3, <1>4, <1>5 DEF Reconcile

-----------------------------------------------------------------------------
(* A click is rejected while its form waits for it, which opens the form   *)
(* again or closes it with a failure.  Unless something failed, nothing    *)
(* was submitted for it and its worker leaves.                             *)
LEMMA RejectMove ==
    ASSUME NEW e \in Events, NEW r \in Revs, InteractionInv, TypeOK',
           Live(e), rc[e].rev = r, pres[r].resp = "received",
           rc'[e].state = "rejected", rc'[e].why \in {"conflict", "other"},
           rc'[e].rev = r, rc'[e].answer = rc[e].answer,
           \A x \in Events : x # e => rc'[x] = rc[x],
           \/ pres'[r].resp = "open" /\ pres'[r].kind = "form" /\ pres'[r].shows = pres[r].shows
           \/ pres'[r].resp = "terminal" /\ pres'[r].kind = "terminal" /\ pres'[r].shows = "failed",
           \A x \in Revs : x # r => pres'[x] = pres[x],
           UNCHANGED <<inter, resumeVars, late>>,
           \A w \in Callbacks : cw'[w] = cw[w] \/ cw'[w].pc = "idle",
           \/ faults' # 0
           \/ /\ UNCHANGED faults
              /\ faults = 0 => job[r].key # e
              /\ \A w \in Callbacks :
                    /\ HoldsCallback(w) /\ cw[w].ev = e => cw'[w].pc = "idle"
                    /\ cw'[w] # cw[w] => cw[w].ev = e
    PROVE  InteractionInv'
<1>1. RoundInv'
  BY DEF InteractionInv, RoundInv, resumeVars
<1>2. FormInv'
  <2>1. \A x \in Revs : pres'[x].resp = "none" <=> pres[x].resp = "none"
    OBVIOUS
  <2>2. \A r1, r2 \in Revs : r1 < r2 /\ pres'[r2].resp # "none" => pres'[r1].resp = "terminal"
    BY <2>1 DEF InteractionInv, FormInv
  <2>3. QED BY <2>1, <2>2 DEF InteractionInv, FormInv, resumeVars
<1>3. ShownInv'
  BY DEF InteractionInv, ShownInv, ShownIsTrue, Ended
<1>4. \A x \in Events : rc'[x].rev = rc[x].rev /\ rc'[x].answer = rc[x].answer
                        /\ (rc[x].state # "none" => rc'[x].state # "none")
  OBVIOUS
<1>5. KeyInv'
  BY <1>4 DEF InteractionInv, KeyInv, ClaimedIsAccepted, resumeVars
<1>6. \A x \in Events : x # e /\ rc[x].state # "none" /\ rc[x].rev = r =>
        rc[x].state = "rejected" /\ rc[x].why \in {"conflict", "other"}
  BY DEF InteractionInv, ReceiptInv, Live, TypeOK, Receipts, ReceiptStates
<1>7. \A x \in Events : rc[x].rev \in Revs
  BY DEF InteractionInv, TypeOK, Receipts
<1>8. ReceiptInv'
  <2>1. ASSUME NEW x \in Events
        PROVE /\ rc'[x].state # "none" => pres'[rc'[x].rev].resp # "none"
              /\ rc'[x].state # "rejected" => rc'[x].why = None
              /\ Live(x)' => pres'[rc'[x].rev].resp \in {"received", "terminal"}
              /\ rc'[x].state = "claimed" => pres'[rc'[x].rev].resp \in {"claimed", "terminal"}
              /\ rc'[x].state = "rejected" /\ rc'[x].why \notin {"conflict", "other"} =>
                   pres'[rc'[x].rev].resp = "terminal"
    <3>1. CASE x = e
      BY <3>1 DEF Live
    <3>2. CASE x # e /\ rc[x].rev = r
      BY <1>6, <3>2 DEF InteractionInv, ReceiptInv, Live
    <3>3. CASE x # e /\ rc[x].rev # r
      BY <1>7, <3>3 DEF InteractionInv, ReceiptInv, Live
    <3>4. QED BY <3>1, <3>2, <3>3
  <2>2. \A x, y \in Events : Live(x)' /\ Live(y)' /\ rc'[x].rev = rc'[y].rev => x = y
    BY DEF InteractionInv, ReceiptInv, Live
  <2>3. QED BY <2>1, <2>2 DEF ReceiptInv
<1>9. CallInv'
  BY DEF InteractionInv, CallInv, OneShotRunsOnce, resumeVars
<1>10. Orphaned => Orphaned'
  BY DEF Orphaned, resumeVars
<1>11. RowsInv'
  BY <1>10 DEF InteractionInv, RowsInv, resumeVars
<1>12. FaultInv'
  <2> SUFFICES ASSUME faults' = 0 PROVE FaultInv'
    BY DEF FaultInv
  <2>1. WorkersHold /\ ClicksHeld /\ SubmittedIsMarked /\ ~Orphaned
    BY DEF InteractionInv, FaultInv
  <2>2. \A x \in Revs : job[x].key # e
    BY DEF InteractionInv, KeyInv
  <2>3. ~Orphaned'
    BY <2>1, <2>2 DEF Orphaned, resumeVars
  <2>4. \A w \in Callbacks : cw[w].pc # "idle" => cw[w].ev \in Events /\ rc[cw[w].ev].state # "none"
    BY DEF InteractionInv, KeyInv
  <2>5. \A w \in Callbacks : cw'[w].pc # "idle" =>
          /\ cw'[w] = cw[w] /\ cw[w].ev # e
          /\ rc[cw[w].ev].rev # r
    <3>1. ASSUME NEW w \in Callbacks, cw'[w].pc # "idle" PROVE cw'[w] = cw[w] /\ cw[w].ev # e /\ rc[cw[w].ev].rev # r
      <4>1. cw'[w] = cw[w] /\ cw[w].ev \in Events /\ ~(HoldsCallback(w) /\ cw[w].ev = e)
        BY <2>4, <3>1
      <4>2. cw[w].ev # e
        BY <2>1, <3>1, <4>1 DEF WorkersHold
      <4>3. rc[cw[w].ev].rev # r
        BY <1>6, <2>1, <2>4, <3>1, <4>1, <4>2 DEF WorkersHold
      <4>4. QED BY <4>1, <4>2, <4>3
    <3>2. QED BY <3>1
  <2>6. \A w \in Callbacks : cw'[w].pc # "idle" => HoldsCallback(w)' = HoldsCallback(w)
    BY <1>7, <2>4, <2>5 DEF HoldsCallback
  <2>7. WorkersHold'
    BY <1>7, <2>1, <2>4, <2>5, <2>6 DEF WorkersHold
  <2>8. ClicksHeld'
    <3> SUFFICES ASSUME NEW x \in Events, rc'[x].state = "leased", pres'[rc'[x].rev].resp = "received"
                 PROVE  /\ rc'[x].owner \in Callbacks /\ HoldsCallback(rc[x].owner)'
                        /\ cw'[rc'[x].owner].ev = x
      BY DEF ClicksHeld
    <3>1. x # e /\ rc[x].rev # r /\ rc'[x] = rc[x] /\ pres[rc[x].rev].resp = "received"
      BY <1>7
    <3>2. rc[x].owner \in Callbacks /\ HoldsCallback(rc[x].owner) /\ cw[rc[x].owner].ev = x
      BY <2>1, <3>1 DEF ClicksHeld
    <3>3. PICK w \in Callbacks : w = rc[x].owner
      BY <3>2
    <3>4. cw'[w] = cw[w] /\ cw[w].pc # "idle"
      BY <3>1, <3>2, <3>3 DEF HoldsCallback
    <3>5. HoldsCallback(w)'
      BY <2>6, <3>2, <3>3, <3>4
    <3>6. rc'[x].owner = w /\ cw'[w].ev = x
      BY <3>1, <3>2, <3>3, <3>4
    <3>7. HoldsCallback(rc[x].owner)'
      BY <3>5, <3>6 DEF HoldsCallback
    <3>8. QED BY <3>6, <3>7
  <2>9. SubmittedIsMarked'
    <3>1. ASSUME NEW w \in Callbacks, cw'[w].pc \notin {"idle", "claim"}, HoldsCallback(w)'
          PROVE  job'[rc'[cw'[w].ev].rev].key # cw'[w].ev
      <4>1. cw'[w] = cw[w] /\ cw[w].ev # e /\ cw[w].ev \in Events /\ HoldsCallback(w)
        BY <2>4, <2>5, <2>6, <3>1
      <4>2. rc'[cw[w].ev].rev = rc[cw[w].ev].rev
        BY <1>7, <4>1
      <4>3. QED BY <2>1, <3>1, <4>1, <4>2 DEF SubmittedIsMarked, resumeVars
    <3>2. ASSUME NEW x \in Events, rc'[x].state = "received", pres'[rc'[x].rev].resp = "received"
          PROVE  job'[rc'[x].rev].key # x
      BY <1>7, <2>1, <3>2 DEF SubmittedIsMarked, resumeVars
    <3>3. QED BY <3>1, <3>2 DEF SubmittedIsMarked
  <2>10. QED BY <2>3, <2>7, <2>8, <2>9 DEF FaultInv
<1>13. QED BY <1>1, <1>2, <1>3, <1>5, <1>8, <1>9, <1>11, <1>12 DEF InteractionInv

(* What becomes of a click and its form is still a click and a form. *)
LEMMA RejectedType ==
    ASSUME NEW c \in Receipts, NEW why \in {"settled", "conflict", "other"}
    PROVE  /\ Rejected(c, why) \in Receipts
           /\ Rejected(c, why).state = "rejected" /\ Rejected(c, why).why = why
           /\ Rejected(c, why).rev = c.rev /\ Rejected(c, why).answer = c.answer
  BY DEF Rejected, Closed, Receipts, ReceiptStates, Reasons, Maybe

(* A form that is opened again is a form. *)
LEMMA ReopenedType ==
    ASSUME NEW p \in Forms
    PROVE  /\ Reopened(p) \in Forms
           /\ Reopened(p).resp = "open" /\ Reopened(p).kind = "form" /\ Reopened(p).shows = p.shows
  BY DEF Reopened, Forms, ResponseStates, DeliveryStates, Maybe

(* The invariant is preserved by reject_callback. *)
LEMMA RejectCallbackPreserves ==
    ASSUME NEW w \in Callbacks, InteractionInv, RejectCallback(w)
    PROVE  InteractionInv'
<1>1. PICK e \in Events : e = cw[w].ev
  BY DEF InteractionInv, KeyInv, RejectCallback
<1>2. PICK r \in Revs : r = rc[e].rev
  BY DEF InteractionInv, TypeOK, Receipts
<1> DEFINE why == IF cw[w].pc = "conflict" THEN "conflict" ELSE "other"
           p == IF cw[w].pc = "reopen" THEN Reopened(pres[r]) ELSE Terminalize(pres[r], "failed")
<1>3. /\ cw[w].pc \in {"conflict", "reject", "reopen"} /\ HoldsCallback(w)
      /\ Live(e) /\ pres[r].resp = "received" /\ rc[e].owner = w
      /\ rc[e] \in Receipts /\ pres[r] \in Forms
  BY <1>1, <1>2 DEF InteractionInv, TypeOK, RejectCallback, HoldsCallback, Live
<1>4. /\ p \in Forms
      /\ \/ p.resp = "open" /\ p.kind = "form" /\ p.shows = pres[r].shows
         \/ p.resp = "terminal" /\ p.kind = "terminal" /\ p.shows = "failed"
  BY <1>3, TerminalizeType, ReopenedType DEF Ended
<1>5. rc' = [rc EXCEPT ![e] = Rejected(rc[e], why)] /\ pres' = [pres EXCEPT ![r] = p]
  BY <1>1, <1>2 DEF RejectCallback
<1>6. why \in {"conflict", "other"}
  OBVIOUS
<1> HIDE DEF p, why
<1>7. /\ pres' \in [Revs -> Forms] /\ rc' \in [Events -> Receipts]
      /\ pres'[r] = p /\ \A x \in Revs : x # r => pres'[x] = pres[x]
      /\ rc'[e] = Rejected(rc[e], why) /\ \A x \in Events : x # e => rc'[x] = rc[x]
  BY <1>3, <1>4, <1>5, <1>6, RejectedType DEF InteractionInv, TypeOK
<1>8. /\ cw' \in [Callbacks -> CallbackWorkers] /\ cw'[w].pc = "idle"
      /\ \A x \in Callbacks : x # w => cw'[x] = cw[x]
  BY DEF InteractionInv, TypeOK, RejectCallback, Rest, IdleCallback, CallbackWorkers,
     CallbackPcs, Maybe
<1>9. TypeOK'
  BY <1>7, <1>8 DEF InteractionInv, TypeOK, RejectCallback, resumeVars
<1>10. \A x \in Callbacks : HoldsCallback(x) /\ cw[x].ev = e => x = w
  BY <1>3 DEF HoldsCallback
<1>11. faults = 0 => job[r].key # e
  BY <1>1, <1>2, <1>3 DEF InteractionInv, FaultInv, SubmittedIsMarked
<1>12. /\ rc'[e].state = "rejected" /\ rc'[e].why \in {"conflict", "other"}
       /\ rc'[e].rev = r /\ rc'[e].answer = rc[e].answer
  BY <1>2, <1>3, <1>6, <1>7, RejectedType
<1>13. UNCHANGED <<inter, resumeVars, late>> /\ UNCHANGED faults
  BY DEF RejectCallback
<1>14. QED
  BY SMTT(20), <1>1, <1>2, <1>3, <1>4, <1>7, <1>8, <1>9, <1>10, <1>11, <1>12, <1>13, RejectMove

(* The invariant is preserved when a click is tried again or given up. *)
LEMMA RetryCallbackPreserves ==
    ASSUME NEW w \in Callbacks, InteractionInv, RetryCallback(w)
    PROVE  InteractionInv'
<1>1. PICK e \in Events : e = cw[w].ev
  BY DEF InteractionInv, KeyInv, RetryCallback
<1>2. PICK r \in Revs : r = rc[e].rev
  BY DEF InteractionInv, TypeOK, Receipts
<1>3. /\ cw[w].pc = "retry" /\ HoldsCallback(w) /\ rc[e].owner = w
      /\ rc[e].state = "leased" /\ pres[r].resp = "received"
  BY <1>1, <1>2 DEF RetryCallback, HoldsCallback
<1>4. rc[e] \in Receipts /\ pres[r] \in Forms
  BY DEF InteractionInv, TypeOK
<1>5. cw' \in [Callbacks -> CallbackWorkers] /\ cw'[w].pc = "idle"
      /\ \A x \in Callbacks : x # w => cw'[x] = cw[x]
  BY DEF InteractionInv, TypeOK, RetryCallback, Rest, IdleCallback, CallbackWorkers,
     CallbackPcs, Maybe
<1>6. \A x \in Callbacks : HoldsCallback(x) /\ cw[x].ev = e => x = w
  BY <1>3 DEF HoldsCallback
<1>7. faults = 0 => job[r].key # e
  BY <1>3, <1>1, <1>2 DEF InteractionInv, FaultInv, SubmittedIsMarked
<1>8. CASE rc[e].attempt >= MaxCallbacks
  <2>1. /\ pres' \in [Revs -> Forms] /\ rc' \in [Events -> Receipts]
        /\ pres'[r] = Terminalize(pres[r], "failed") /\ \A x \in Revs : x # r => pres'[x] = pres[x]
        /\ rc'[e] = Rejected(rc[e], "other") /\ \A x \in Events : x # e => rc'[x] = rc[x]
    BY <1>3, <1>4, <1>8, <1>1, <1>2, RejectedType, TerminalizeType DEF InteractionInv, TypeOK,
       RetryCallback, Ended
  <2>2. TypeOK'
    BY <1>5, <2>1 DEF InteractionInv, TypeOK, RetryCallback, resumeVars
  <2>3. /\ pres'[r].resp = "terminal" /\ pres'[r].kind = "terminal" /\ pres'[r].shows = "failed"
    BY <1>4, <2>1, TerminalizeType DEF Ended
  <2>4. /\ rc'[e].state = "rejected" /\ rc'[e].why \in {"conflict", "other"}
        /\ rc'[e].rev = r /\ rc'[e].answer = rc[e].answer
    BY <1>4, <1>2, <2>1, RejectedType
  <2>5. Live(e) /\ UNCHANGED <<inter, resumeVars, late>> /\ UNCHANGED faults
    BY <1>3 DEF RetryCallback, Live
  <2>6. QED
    BY SMTT(40), <1>3, <1>5, <1>6, <1>7, <1>1, <1>2, <2>1, <2>2, <2>3, <2>4, <2>5, RejectMove
<1>9. CASE ~(rc[e].attempt >= MaxCallbacks)
  <2>1. ASSUME NEW c \in Receipts
        PROVE  LET d == Closed(c, "received") IN
               /\ d \in Receipts /\ d.state = "received" /\ d.rev = c.rev /\ d.answer = c.answer /\ d.why = c.why
    BY DEF Closed, Receipts, ReceiptStates, Maybe
  <2>2. /\ rc' \in [Events -> Receipts] /\ pres' = pres
        /\ rc'[e].state = "received"
        /\ \A x \in Events : /\ x # e => rc'[x] = rc[x]
                             /\ rc'[x].rev = rc[x].rev /\ rc'[x].answer = rc[x].answer /\ rc'[x].why = rc[x].why
    BY <1>3, <1>4, <1>9, <1>1, <1>2, <2>1 DEF InteractionInv, TypeOK, RetryCallback
  <2>3. TypeOK'
    BY <1>5, <2>2 DEF InteractionInv, TypeOK, RetryCallback, resumeVars
  <2>4. RoundInv' /\ FormInv' /\ ShownInv'
    BY <2>2 DEF InteractionInv, RoundInv, FormInv, ShownInv, ShownIsTrue, RetryCallback,
       resumeVars
  <2>5. KeyInv'
    <3>1. \A x \in Events : rc[x].state # "none" => rc'[x].state # "none"
      BY <2>2
    <3>2. ClaimedIsAccepted'
      BY <2>2 DEF InteractionInv, KeyInv, ClaimedIsAccepted, RetryCallback, resumeVars
    <3>3. \A x \in Callbacks : cw'[x].pc # "idle" => cw'[x] = cw[x]
      BY <1>5
    <3>4. QED BY <2>2, <3>1, <3>2, <3>3 DEF InteractionInv, KeyInv, RetryCallback, resumeVars
  <2>6. ReceiptInv'
    <3>1. \A x \in Events : Live(x)' = Live(x)
      BY <1>3, <2>2 DEF Live
    <3>2. QED BY <1>3, <2>2, <3>1 DEF InteractionInv, ReceiptInv, Live
  <2>7. CallInv' /\ RowsInv'
    BY <2>2 DEF InteractionInv, CallInv, OneShotRunsOnce, RowsInv, Orphaned, RetryCallback,
       resumeVars
  <2>8. FaultInv'
    <3> SUFFICES ASSUME faults = 0 PROVE FaultInv'
      BY DEF FaultInv, RetryCallback
    <3>1. WorkersHold /\ ClicksHeld /\ SubmittedIsMarked /\ ~Orphaned
      BY DEF InteractionInv, FaultInv
    <3>2. \A x \in Callbacks : cw[x].pc # "idle" => cw[x].ev \in Events
      BY DEF InteractionInv, KeyInv
    <3>3. \A x \in Callbacks : x # w /\ HoldsCallback(x) => HoldsCallback(x)' /\ cw[x].ev # e
      BY <1>5, <1>6, <2>2, <3>2 DEF HoldsCallback
    <3>4. ASSUME NEW x \in Callbacks, HoldsCallback(x)' PROVE x # w /\ HoldsCallback(x)
      <4>1. x # w /\ cw'[x] = cw[x] /\ cw[x].ev \in Events
        BY <1>5, <3>2, <3>4 DEF HoldsCallback
      <4>2. cw[x].ev # e
        BY <2>2, <3>4, <4>1 DEF HoldsCallback
      <4>3. QED BY <2>2, <3>4, <4>1, <4>2 DEF HoldsCallback
    <3>5. WorkersHold'
      BY <1>5, <2>2, <3>1, <3>2, <3>3 DEF WorkersHold
    <3>6. ClicksHeld'
      BY <1>3, <1>5, <1>1, <2>2, <3>1, <3>3 DEF ClicksHeld
    <3>7. SubmittedIsMarked'
      BY <1>5, <1>7, <1>2, <2>2, <3>1, <3>2, <3>4 DEF SubmittedIsMarked, RetryCallback,
         resumeVars
    <3>8. ~Orphaned'
      BY <2>2, <3>1 DEF Orphaned, RetryCallback, resumeVars
    <3>9. QED BY <3>5, <3>6, <3>7, <3>8 DEF FaultInv
  <2>9. QED BY <2>3, <2>4, <2>5, <2>6, <2>7, <2>8 DEF InteractionInv
<1>10. QED BY <1>8, <1>9

(* The invariant is preserved by mark_callback_claimed. *)
LEMMA MarkClaimedPreserves ==
    ASSUME NEW w \in Callbacks, InteractionInv, MarkClaimed(w)
    PROVE  InteractionInv'
<1> DEFINE e == cw[w].ev
           r == rc[e].rev
<1>1. /\ e \in Events /\ cw[w].pc = "claim" /\ HoldsCallback(w) /\ job[r].key = e
      /\ rc[e].state = "leased" /\ pres[r].resp = "received"
  BY DEF InteractionInv, KeyInv, MarkClaimed, HoldsCallback
<1>2. r \in Revs /\ rc[e] \in Receipts /\ pres[r] \in Forms
  BY <1>1 DEF InteractionInv, TypeOK, Receipts
<1>3. cw' \in [Callbacks -> CallbackWorkers] /\ cw'[w].pc = "idle"
      /\ \A x \in Callbacks : x # w => cw'[x] = cw[x]
  BY DEF InteractionInv, TypeOK, MarkClaimed, Rest, IdleCallback, CallbackWorkers, CallbackPcs,
     Maybe
<1>4. ASSUME NEW c \in Receipts
      PROVE  LET d == Closed(c, "claimed") IN
             /\ d \in Receipts /\ d.state = "claimed" /\ d.rev = c.rev /\ d.answer = c.answer /\ d.why = c.why
  BY DEF Closed, Receipts, ReceiptStates, Maybe
<1>5. /\ rc' \in [Events -> Receipts] /\ rc'[e].state = "claimed"
      /\ \A x \in Events : /\ x # e => rc'[x] = rc[x]
                           /\ rc'[x].rev = rc[x].rev /\ rc'[x].answer = rc[x].answer /\ rc'[x].why = rc[x].why
  BY <1>1, <1>2, <1>4 DEF InteractionInv, TypeOK, MarkClaimed
<1>6. ASSUME NEW p \in Forms
      PROVE  LET q == [p EXCEPT !.resp = "claimed"] IN
             /\ q \in Forms /\ q.resp = "claimed"
             /\ q.kind = p.kind /\ q.shows = p.shows /\ q.deliv = p.deliv
  BY DEF Forms, ResponseStates
<1>7. /\ pres' \in [Revs -> Forms] /\ pres'[r].resp = "claimed"
      /\ \A x \in Revs : /\ x # r => pres'[x] = pres[x]
                         /\ pres'[x].kind = pres[x].kind /\ pres'[x].shows = pres[x].shows
                         /\ pres'[x].deliv = pres[x].deliv
  BY <1>2, <1>6 DEF InteractionInv, TypeOK, MarkClaimed
<1>8. TypeOK'
  BY <1>3, <1>5, <1>7 DEF InteractionInv, TypeOK, MarkClaimed, resumeVars
<1>9. \A x \in Revs : /\ pres'[x].resp = "none" <=> pres[x].resp = "none"
                      /\ pres'[x].resp = "terminal" <=> pres[x].resp = "terminal"
  BY <1>1, <1>7
<1>10. RoundInv'
  BY <1>9 DEF InteractionInv, RoundInv, MarkClaimed, resumeVars
<1>11. FormInv'
  <2>1. \A x \in Revs : pres'[x].resp \in {"received", "claimed"} => pres[x].resp \in {"received", "claimed"}
    BY <1>1, <1>7
  <2>2. UNCHANGED job
    BY DEF MarkClaimed, resumeVars
  <2>3. \A r1, r2 \in Revs : r1 < r2 /\ pres'[r2].resp # "none" => pres'[r1].resp = "terminal"
    BY <1>9 DEF InteractionInv, FormInv
  <2>4. QED BY <1>7, <1>9, <2>1, <2>3, <2>2 DEF InteractionInv, FormInv
<1>12. ShownInv'
  BY <1>7 DEF InteractionInv, ShownInv, ShownIsTrue, MarkClaimed
<1>13. KeyInv'
  <2>1. \A x \in Events : rc[x].state # "none" => rc'[x].state # "none"
    BY <1>5
  <2>2. ClaimedIsAccepted'
    BY <1>1, <1>5 DEF InteractionInv, KeyInv, ClaimedIsAccepted, MarkClaimed, resumeVars
  <2>3. \A x \in Callbacks : cw'[x].pc # "idle" => cw'[x] = cw[x]
    BY <1>3
  <2>4. UNCHANGED job
    BY DEF MarkClaimed, resumeVars
  <2>5. \A x \in Events : rc'[x].rev = rc[x].rev /\ rc'[x].answer = rc[x].answer
    BY <1>5
  <2>6. QED BY <2>1, <2>2, <2>3, <2>4, <2>5 DEF InteractionInv, KeyInv
<1>14. \A x \in Events : x # e /\ Live(x) => rc[x].rev # r
  BY <1>1 DEF InteractionInv, ReceiptInv, Live
<1>15. \A x \in Events : rc[x].rev \in Revs
  BY DEF InteractionInv, TypeOK, Receipts
<1>16. ReceiptInv'
  <2>1. ASSUME NEW x \in Events
        PROVE /\ rc'[x].state # "none" => pres'[rc'[x].rev].resp # "none"
              /\ rc'[x].state # "rejected" => rc'[x].why = None
              /\ Live(x)' => pres'[rc'[x].rev].resp \in {"received", "terminal"}
              /\ rc'[x].state = "claimed" => pres'[rc'[x].rev].resp \in {"claimed", "terminal"}
              /\ rc'[x].state = "rejected" /\ rc'[x].why \notin {"conflict", "other"} =>
                   pres'[rc'[x].rev].resp = "terminal"
    <3>1. CASE x = e
      BY SMTT(20), <1>1, <1>5, <1>7, <3>1 DEF InteractionInv, ReceiptInv, Live
    <3>2. CASE x # e
      BY <1>5, <1>7, <1>9, <1>14, <1>15, <3>2 DEF InteractionInv, ReceiptInv, Live
    <3>3. QED BY <3>1, <3>2
  <2>2. \A x, y \in Events : Live(x)' /\ Live(y)' /\ rc'[x].rev = rc'[y].rev => x = y
    BY <1>5 DEF InteractionInv, ReceiptInv, Live
  <2>3. QED BY <2>1, <2>2 DEF ReceiptInv
<1>17. CallInv' /\ RowsInv'
  BY <1>5 DEF InteractionInv, CallInv, OneShotRunsOnce, RowsInv, Orphaned, MarkClaimed,
     resumeVars
<1>18. FaultInv'
  <2> SUFFICES ASSUME faults = 0 PROVE FaultInv'
    BY DEF FaultInv, MarkClaimed
  <2>1. WorkersHold /\ ClicksHeld /\ SubmittedIsMarked /\ ~Orphaned
    BY DEF InteractionInv, FaultInv
  <2>2. \A x \in Callbacks : cw[x].pc # "idle" => cw[x].ev \in Events
    BY DEF InteractionInv, KeyInv
  <2>3. \A x \in Callbacks : x # w /\ HoldsCallback(x) => cw[x].ev # e /\ rc[cw[x].ev].rev # r
    BY <1>1, <1>14, <2>2 DEF HoldsCallback, Live
  <2>4. \A x \in Callbacks : x # w /\ HoldsCallback(x) => HoldsCallback(x)'
    BY <1>3, <1>5, <1>7, <1>15, <2>2, <2>3 DEF HoldsCallback
  <2>5. ASSUME NEW x \in Callbacks, HoldsCallback(x)' PROVE x # w /\ HoldsCallback(x)
    <3>1. x # w /\ cw'[x] = cw[x] /\ cw[x].ev \in Events
      BY <1>3, <2>2, <2>5 DEF HoldsCallback
    <3>2. cw[x].ev # e
      BY <1>5, <2>5, <3>1 DEF HoldsCallback
    <3>3. rc[cw[x].ev].rev # r
      BY <1>5, <1>7, <2>5, <3>1, <3>2 DEF HoldsCallback
    <3>4. QED BY <1>5, <1>7, <1>15, <2>5, <3>1, <3>2, <3>3 DEF HoldsCallback
  <2>6. WorkersHold'
    BY <1>3, <1>5, <1>9, <1>15, <2>1, <2>2, <2>4 DEF WorkersHold
  <2>7. ClicksHeld'
    <3> SUFFICES ASSUME NEW x \in Events, rc'[x].state = "leased", pres'[rc'[x].rev].resp = "received"
                 PROVE  /\ rc'[x].owner \in Callbacks /\ HoldsCallback(rc[x].owner)'
                        /\ cw'[rc'[x].owner].ev = x /\ rc'[x] = rc[x]
      BY DEF ClicksHeld
    <3>1. x # e /\ rc[x].rev # r /\ rc'[x] = rc[x] /\ pres[rc[x].rev].resp = "received"
      BY <1>5, <1>7, <1>15
    <3>2. rc[x].owner \in Callbacks /\ HoldsCallback(rc[x].owner) /\ cw[rc[x].owner].ev = x
      BY <2>1, <3>1 DEF ClicksHeld
    <3>3. QED BY <1>3, <2>4, <3>1, <3>2
  <2>8. SubmittedIsMarked'
    <3>1. \A x \in Callbacks : HoldsCallback(x)' => rc[cw[x].ev].rev = rc'[cw'[x].ev].rev /\ cw'[x] = cw[x]
      BY <1>3, <1>5, <2>2, <2>5 DEF HoldsCallback
    <3>2. \A x \in Events : rc'[x].state = "received" /\ pres'[rc'[x].rev].resp = "received" =>
             rc'[x] = rc[x] /\ pres[rc[x].rev].resp = "received"
      BY <1>5, <1>7, <1>15
    <3>3. QED BY ZenonT(30), <2>1, <2>5, <3>1, <3>2 DEF SubmittedIsMarked, MarkClaimed,
          resumeVars
  <2>9. ~Orphaned'
    BY <1>5, <2>1 DEF Orphaned, MarkClaimed, resumeVars
  <2>10. QED BY <2>6, <2>7, <2>8, <2>9 DEF FaultInv
<1>19. QED BY <1>8, <1>10, <1>11, <1>12, <1>13, <1>16, <1>17, <1>18 DEF InteractionInv

(* The invariant is preserved by lease_callback. *)
LEMMA LeaseCallbackPreserves ==
    ASSUME NEW w \in Callbacks, NEW e \in Events, InteractionInv, LeaseCallback(w, e)
    PROVE  InteractionInv'
<1>1. PICK r \in Revs : r = rc[e].rev
  BY DEF InteractionInv, TypeOK, Receipts
<1>2. /\ cw[w].pc = "idle" /\ CallbackLeasable(e) /\ Live(e)
      /\ rc[e] \in Receipts /\ pres[r] \in Forms
      /\ pres[r].resp \in {"received", "terminal"}
  BY <1>1 DEF InteractionInv, TypeOK, ReceiptInv, LeaseCallback, CallbackLeasable, Live
<1>3. CASE /\ pres[r].resp # "received"
           /\ rc' = [rc EXCEPT ![e] = Rejected(@, "settled")]
           /\ UNCHANGED <<pres, cw, faults>>
  <2>1. /\ rc' \in [Events -> Receipts] /\ rc'[e].state = "rejected" /\ rc'[e].why = "settled"
        /\ \A x \in Events : /\ x # e => rc'[x] = rc[x]
                             /\ rc'[x].rev = rc[x].rev /\ rc'[x].answer = rc[x].answer
    BY <1>2, <1>3, RejectedType DEF InteractionInv, TypeOK
  <2>2. TypeOK'
    BY <1>3, <2>1 DEF InteractionInv, TypeOK, LeaseCallback, resumeVars
  <2>3. RoundInv' /\ FormInv' /\ ShownInv'
    BY <1>3 DEF InteractionInv, RoundInv, FormInv, ShownInv, ShownIsTrue, LeaseCallback,
       resumeVars
  <2>4. KeyInv'
    <3>1. UNCHANGED <<job, cw>>
      BY <1>3 DEF LeaseCallback, resumeVars
    <3>2. \A x \in Events : (rc[x].state # "none" => rc'[x].state # "none")
                            /\ (rc'[x].state = "claimed" => rc[x].state = "claimed")
      BY <2>1
    <3>3. QED BY <2>1, <3>1, <3>2 DEF InteractionInv, KeyInv, ClaimedIsAccepted
  <2>5. ReceiptInv'
    <3>1. \A x \in Events : x # e => rc'[x] = rc[x] /\ Live(x)' = Live(x)
      BY <2>1 DEF Live
    <3>2. ~Live(e)'
      BY <2>1 DEF Live
    <3>3. QED BY <1>1, <1>2, <1>3, <2>1, <3>1, <3>2 DEF InteractionInv, ReceiptInv
  <2>6. CallInv'
    BY DEF InteractionInv, CallInv, OneShotRunsOnce, LeaseCallback, resumeVars
  <2>7. Orphaned' = Orphaned
    <3>1. rc[e].why \notin {"conflict", "other"}
      BY <1>2, InteractionAssumption DEF InteractionInv, ReceiptInv, Live, Reasons
    <3>2. QED BY <2>1, <3>1 DEF Orphaned, LeaseCallback, resumeVars
  <2>8. RowsInv'
    BY <2>7 DEF InteractionInv, RowsInv, LeaseCallback, resumeVars
  <2>9. FaultInv'
    <3> SUFFICES ASSUME faults = 0 PROVE FaultInv'
      BY <1>3 DEF FaultInv
    <3>1. WorkersHold /\ ClicksHeld /\ SubmittedIsMarked /\ ~Orphaned
      BY DEF InteractionInv, FaultInv
    <3>2. \A x \in Callbacks : cw[x].pc # "idle" => cw[x].ev \in Events
      BY DEF InteractionInv, KeyInv
    <3>3. \A x \in Callbacks : HoldsCallback(x) => cw[x].ev # e
      BY <1>1, <1>3 DEF HoldsCallback
    <3>4. \A x \in Callbacks : HoldsCallback(x)' => cw[x].ev # e
      BY <1>3, <2>1 DEF HoldsCallback
    <3>5. \A x \in Callbacks : HoldsCallback(x)' = HoldsCallback(x)
      BY <1>3, <2>1, <3>2, <3>3, <3>4 DEF HoldsCallback
    <3>6. WorkersHold'
      BY <1>3, <2>1, <3>1, <3>2, <3>5 DEF WorkersHold
    <3>7. ClicksHeld'
      BY <1>3, <2>1, <3>1, <3>5 DEF ClicksHeld
    <3>8. SubmittedIsMarked'
      BY <1>3, <2>1, <3>1, <3>2, <3>5 DEF SubmittedIsMarked, LeaseCallback, resumeVars,
         HoldsCallback
    <3>9. QED BY <2>7, <3>1, <3>6, <3>7, <3>8 DEF FaultInv
  <2>10. QED BY <2>2, <2>3, <2>4, <2>5, <2>6, <2>8, <2>9 DEF InteractionInv
<1>4. CASE /\ pres[r].resp = "received" /\ rc[e].answer = "invalid"
           /\ rc' = [rc EXCEPT ![e] = Rejected(@, "other")]
           /\ pres' = [pres EXCEPT ![r] = Reopened(@)]
           /\ UNCHANGED <<cw, faults>>
  <2>1. /\ pres' \in [Revs -> Forms] /\ rc' \in [Events -> Receipts]
        /\ pres'[r] = Reopened(pres[r]) /\ \A x \in Revs : x # r => pres'[x] = pres[x]
        /\ rc'[e] = Rejected(rc[e], "other") /\ \A x \in Events : x # e => rc'[x] = rc[x]
    BY <1>2, <1>4, RejectedType, ReopenedType DEF InteractionInv, TypeOK
  <2>2. TypeOK'
    BY <1>4, <2>1 DEF InteractionInv, TypeOK, LeaseCallback, resumeVars
  <2>3. /\ rc'[e].state = "rejected" /\ rc'[e].why \in {"conflict", "other"}
        /\ rc'[e].rev = r /\ rc'[e].answer = rc[e].answer
        /\ pres'[r].resp = "open" /\ pres'[r].kind = "form" /\ pres'[r].shows = pres[r].shows
    BY <1>1, <1>2, <2>1, RejectedType, ReopenedType
  <2>4. job[r].key # e /\ \A x \in Callbacks : cw[x].pc # "idle" => cw[x].ev # e
    BY <1>4 DEF InteractionInv, KeyInv
  <2>5. \A x \in Callbacks : ~(HoldsCallback(x) /\ cw[x].ev = e)
    BY <2>4 DEF HoldsCallback
  <2>6. UNCHANGED <<inter, resumeVars, late>> /\ UNCHANGED faults /\ UNCHANGED cw
    BY <1>4 DEF LeaseCallback
  <2>7. QED BY <1>1, <1>2, <1>4, <2>1, <2>2, <2>3, <2>4, <2>5, <2>6, RejectMove
<1>5. CASE /\ pres[r].resp = "received" /\ Fault
           /\ rc' = [rc EXCEPT ![e] = Rejected(@, "other")]
           /\ pres' = [pres EXCEPT ![r] = Terminalize(@, "failed")]
           /\ UNCHANGED cw
  <2>1. /\ pres' \in [Revs -> Forms] /\ rc' \in [Events -> Receipts]
        /\ pres'[r] = Terminalize(pres[r], "failed") /\ \A x \in Revs : x # r => pres'[x] = pres[x]
        /\ rc'[e] = Rejected(rc[e], "other") /\ \A x \in Events : x # e => rc'[x] = rc[x]
    BY <1>2, <1>5, RejectedType, TerminalizeType DEF InteractionInv, TypeOK, Ended
  <2>2. faults' \in 0..MaxFaults /\ faults' # 0
    BY <1>5, InteractionAssumption DEF InteractionInv, TypeOK, Fault
  <2>3. TypeOK'
    BY <1>5, <2>1, <2>2 DEF InteractionInv, TypeOK, LeaseCallback, resumeVars
  <2>4. /\ rc'[e].state = "rejected" /\ rc'[e].why \in {"conflict", "other"}
        /\ rc'[e].rev = r /\ rc'[e].answer = rc[e].answer
        /\ pres'[r].resp = "terminal" /\ pres'[r].kind = "terminal" /\ pres'[r].shows = "failed"
    BY <1>1, <1>2, <2>1, RejectedType, TerminalizeType DEF Ended
  <2>5. UNCHANGED <<inter, resumeVars, late>> /\ UNCHANGED cw
    BY <1>5 DEF LeaseCallback
  <2>6. QED BY <1>1, <1>2, <1>5, <2>1, <2>2, <2>3, <2>4, <2>5, RejectMove
<1>6. CASE /\ pres[r].resp = "received" /\ rc[e].answer # "invalid"
           /\ rc' = [rc EXCEPT ![e].state = "leased", ![e].owner = w, ![e].lease = TRUE,
                               ![e].attempt = @ + 1]
           /\ cw' = [cw EXCEPT ![w] = [pc |-> "process", ev |-> e, attempt |-> rc[e].attempt + 1]]
           /\ UNCHANGED <<pres, faults>>
  <2> DEFINE n == rc[e].attempt + 1
             c == [rc[e] EXCEPT !.state = "leased", !.owner = w, !.lease = TRUE, !.attempt = n]
  <2>1. /\ pres[r].resp = "received" /\ rc[e].answer # "invalid" /\ rc[e].state # "none"
         /\ UNCHANGED <<pres, faults>>
    BY <1>2, <1>6 DEF Live
  <2>2. n \in Nat
    BY <1>2 DEF Receipts
  <2>3. /\ c \in Receipts /\ c.state = "leased" /\ c.owner = w /\ c.lease /\ c.attempt = n
        /\ c.rev = rc[e].rev /\ c.answer = rc[e].answer /\ c.why = rc[e].why
    <3> HIDE DEF n
    <3>1. ASSUME NEW b \in Receipts, NEW m \in Nat
          PROVE  LET d == [b EXCEPT !.state = "leased", !.owner = w, !.lease = TRUE, !.attempt = m] IN
                 /\ d \in Receipts /\ d.state = "leased" /\ d.owner = w /\ d.lease /\ d.attempt = m
                 /\ d.rev = b.rev /\ d.answer = b.answer /\ d.why = b.why
      BY DEF Receipts, ReceiptStates, Maybe
    <3>2. QED BY <1>2, <2>2, <3>1
  <2>4. rc' = [rc EXCEPT ![e] = c]
    BY <1>2, <1>6 DEF InteractionInv, TypeOK, Receipts
  <2> HIDE DEF c, n
  <2>5. /\ rc' \in [Events -> Receipts] /\ rc'[e] = c
        /\ \A x \in Events : x # e => rc'[x] = rc[x]
    BY <2>3, <2>4 DEF InteractionInv, TypeOK
  <2>6. /\ cw' \in [Callbacks -> CallbackWorkers]
        /\ cw'[w].pc = "process" /\ cw'[w].ev = e /\ cw'[w].attempt = n
        /\ \A x \in Callbacks : x # w => cw'[x] = cw[x]
    BY <1>6, <2>2 DEF n, InteractionInv, TypeOK, CallbackWorkers, CallbackPcs, Maybe
  <2>7. TypeOK'
    BY <2>1, <2>5, <2>6 DEF InteractionInv, TypeOK, LeaseCallback, resumeVars
  <2>8. RoundInv' /\ FormInv' /\ ShownInv'
    BY <2>1 DEF InteractionInv, RoundInv, FormInv, ShownInv, ShownIsTrue, LeaseCallback,
       resumeVars
  <2>9. \A x \in Events : /\ rc'[x].rev = rc[x].rev /\ rc'[x].answer = rc[x].answer /\ rc'[x].why = rc[x].why
                          /\ rc'[x].state = "none" <=> rc[x].state = "none"
                          /\ rc'[x].state = "claimed" <=> rc[x].state = "claimed"
                          /\ rc'[x].state = "rejected" <=> rc[x].state = "rejected"
                          /\ Live(x)' = Live(x)
    BY <1>2, <2>3, <2>5 DEF Live
  <2>10. KeyInv'
    <3>1. UNCHANGED job
      BY DEF LeaseCallback, resumeVars
    <3>2. ASSUME NEW x \in Callbacks, cw'[x].pc # "idle"
          PROVE  /\ cw'[x].ev \in Events /\ rc'[cw'[x].ev].state # "none" /\ rc'[cw'[x].ev].answer # "invalid"
                 /\ cw'[x].pc = "claim" => job[rc'[cw'[x].ev].rev].key = cw'[x].ev
      <4>1. CASE x = w
        BY <2>1, <2>6, <2>9, <4>1
      <4>2. CASE x # w
        BY <2>6, <2>9, <3>2, <4>2 DEF InteractionInv, KeyInv
      <4>3. QED BY <4>1, <4>2
    <3>3. ClaimedIsAccepted'
      BY <2>9, <3>1 DEF InteractionInv, KeyInv, ClaimedIsAccepted
    <3>4. \A x \in Revs : job'[x].state = "none" <=> job'[x].key = None
      BY <3>1 DEF InteractionInv, KeyInv
    <3>5. \A x \in Revs, y \in Events :
             job'[x].key = y => rc'[y].rev = x /\ rc'[y].state # "none" /\ rc'[y].answer # "invalid"
      BY <2>9, <3>1 DEF InteractionInv, KeyInv
    <3>6. QED BY <3>1, <3>2, <3>3, <3>4, <3>5 DEF KeyInv
  <2>11. ReceiptInv'
    <3>1. \A x \in Events : rc'[x].rev = rc[x].rev /\ Live(x)' = Live(x)
      BY <2>9
    <3>2. QED BY <2>1, <2>9, <3>1 DEF InteractionInv, ReceiptInv
  <2>12. Orphaned' = Orphaned
    BY <2>9 DEF Orphaned, LeaseCallback, resumeVars
  <2>13. CallInv' /\ RowsInv'
    BY <2>12 DEF InteractionInv, CallInv, OneShotRunsOnce, RowsInv, LeaseCallback, resumeVars
  <2>14. FaultInv'
    <3> SUFFICES ASSUME faults = 0 PROVE FaultInv'
      BY <2>1 DEF FaultInv
    <3>1. WorkersHold /\ ClicksHeld /\ SubmittedIsMarked /\ ~Orphaned
      BY DEF InteractionInv, FaultInv
    <3>2. \A x \in Callbacks : cw[x].pc # "idle" => cw[x].ev \in Events
      BY DEF InteractionInv, KeyInv
    <3>3. rc[e].state = "received"
      <4> SUFFICES ASSUME rc[e].state = "leased", ~rc[e].lease PROVE FALSE
        BY <1>2 DEF CallbackLeasable
      <4>1. HoldsCallback(rc[e].owner) /\ cw[rc[e].owner].ev = e
        BY <1>1, <2>1, <3>1 DEF ClicksHeld
      <4>2. QED BY <4>1 DEF HoldsCallback
    <3>4. \A x \in Callbacks : cw[x].pc # "idle" => cw[x].ev # e
      BY <1>1, <2>1, <3>1, <3>3 DEF WorkersHold, HoldsCallback
    <3>5. \A x \in Callbacks : x # w => HoldsCallback(x)' = HoldsCallback(x)
      BY <2>1, <2>5, <2>6, <3>2, <3>4 DEF HoldsCallback
    <3>6. HoldsCallback(w)'
      BY <1>1, <2>1, <2>3, <2>5, <2>6 DEF HoldsCallback
    <3>7. rc[e].why = None /\ None \notin {"conflict", "other"}
      BY <3>3, InteractionAssumption DEF InteractionInv, ReceiptInv, Reasons
    <3>8. WorkersHold'
      <4> SUFFICES ASSUME NEW x \in Callbacks, cw'[x].pc # "idle"
                   PROVE  /\ HoldsCallback(x)' \/ pres'[rc'[cw'[x].ev].rev].resp = "terminal"
                          /\ rc'[cw'[x].ev].why \notin {"conflict", "other"}
        BY DEF WorkersHold
      <4>1. CASE x = w
        BY <2>6, <2>9, <3>6, <3>7, <4>1
      <4>2. CASE x # w
        BY <2>1, <2>6, <2>9, <3>1, <3>2, <3>5, <4>2 DEF WorkersHold
      <4>3. QED BY <4>1, <4>2
    <3>9. ClicksHeld'
      <4> SUFFICES ASSUME NEW x \in Events, rc'[x].state = "leased", pres'[rc'[x].rev].resp = "received"
                   PROVE  /\ rc'[x].owner \in Callbacks /\ HoldsCallback(rc[x].owner)' /\ cw'[rc'[x].owner].ev = x
                          \/ x = e
        BY <2>3, <2>5, <2>6, <3>6 DEF ClicksHeld
      <4>1. CASE x # e
        <5>1. rc[x].owner \in Callbacks /\ HoldsCallback(rc[x].owner) /\ cw[rc[x].owner].ev = x
          BY <2>1, <2>5, <3>1, <4>1 DEF ClicksHeld
        <5>2. rc[x].owner # w
          BY <1>2, <5>1 DEF HoldsCallback
        <5>3. QED BY <2>5, <2>6, <3>5, <4>1, <5>1, <5>2
      <4>2. QED BY <4>1
    <3>10. SubmittedIsMarked'
      <4>1. job[r].key # e /\ UNCHANGED <<job, pres>>
        BY <1>1, <2>1, <3>1, <3>3 DEF SubmittedIsMarked, LeaseCallback, resumeVars
      <4>2. ASSUME NEW x \in Callbacks, cw'[x].pc \notin {"idle", "claim"}, HoldsCallback(x)'
            PROVE  job[rc'[cw'[x].ev].rev].key # cw'[x].ev
        <5>1. CASE x = w
          BY <1>1, <2>6, <2>9, <4>1, <5>1
        <5>2. CASE x # w
          BY <2>6, <2>9, <3>1, <3>2, <3>5, <4>2, <5>2 DEF SubmittedIsMarked
        <5>3. QED BY <5>1, <5>2
      <4>3. \A x \in Events : rc'[x].state = "received" => rc'[x] = rc[x]
        BY <2>3, <2>5
      <4>4. QED BY <3>1, <4>1, <4>2, <4>3 DEF SubmittedIsMarked
    <3>11. QED BY <2>12, <3>1, <3>8, <3>9, <3>10 DEF FaultInv
  <2>15. QED BY <2>7, <2>8, <2>10, <2>11, <2>13, <2>14 DEF InteractionInv
<1>7. QED BY <1>1, <1>3, <1>4, <1>5, <1>6 DEF LeaseCallback

(* The invariant is preserved by a click. *)
LEMMA ReceiveCallbackPreserves ==
    ASSUME NEW e \in Events, NEW r \in Revs, InteractionInv, ReceiveCallback(e, r)
    PROVE  InteractionInv'
<1>1. PICK a \in Responses :
         rc' = [rc EXCEPT ![e].state = "received", ![e].rev = r, ![e].answer = a]
  BY DEF ReceiveCallback
<1>2. ASSUME NEW c \in Receipts
      PROVE  LET d == [c EXCEPT !.state = "received", !.rev = r, !.answer = a] IN
             d \in Receipts /\ d.state = "received" /\ d.rev = r /\ d.why = c.why
  BY DEF Receipts, ReceiptStates, Maybe
<1>3. /\ rc' \in [Events -> Receipts]
      /\ rc'[e].state = "received" /\ rc'[e].rev = r /\ rc'[e].why = rc[e].why
      /\ \A x \in Events : x # e => rc'[x] = rc[x]
  BY ZenonT(30), <1>1, <1>2 DEF InteractionInv, TypeOK
<1>4. ASSUME NEW p \in Forms
      PROVE  LET q == [p EXCEPT !.resp = "received"] IN
             /\ q \in Forms /\ q.resp = "received"
             /\ q.kind = p.kind /\ q.shows = p.shows /\ q.deliv = p.deliv
  BY DEF Forms, ResponseStates
<1>5. /\ pres' \in [Revs -> Forms] /\ pres'[r].resp = "received"
      /\ \A x \in Revs : /\ x # r => pres'[x] = pres[x]
                         /\ pres'[x].kind = pres[x].kind /\ pres'[x].shows = pres[x].shows
                         /\ pres'[x].deliv = pres[x].deliv
  BY <1>4 DEF InteractionInv, TypeOK, ReceiveCallback
<1>6. TypeOK'
  BY <1>3, <1>5 DEF InteractionInv, TypeOK, ReceiveCallback, resumeVars
<1>7. /\ rc[e].state = "none" /\ pres[r].resp = "open" /\ pres[r].deliv = "delivered"
      /\ UNCHANGED <<inter, job, rw, calls, cw, late, faults>>
  BY DEF ReceiveCallback, resumeVars
<1>8. \A x \in Revs : /\ pres'[x].resp = "none" <=> pres[x].resp = "none"
                      /\ pres'[x].resp = "terminal" <=> pres[x].resp = "terminal"
  BY <1>5, <1>7
<1>9. RoundInv'
  BY <1>7, <1>8 DEF InteractionInv, RoundInv
<1>10. FormInv'
  <2>1. \A x \in Revs : pres'[x].resp \in {"received", "claimed"} =>
           x = r \/ pres[x].resp \in {"received", "claimed"}
    BY <1>5
  <2>2. \A r1, r2 \in Revs : r1 < r2 /\ pres'[r2].resp # "none" => pres'[r1].resp = "terminal"
    BY <1>8 DEF InteractionInv, FormInv
  <2>3. QED BY <1>5, <1>7, <1>8, <2>1, <2>2 DEF InteractionInv, FormInv
<1>11. ShownInv'
  BY <1>5, <1>7 DEF InteractionInv, ShownInv, ShownIsTrue
<1>12. /\ \A x \in Revs : job[x].key # e
       /\ \A x \in Callbacks : cw[x].pc # "idle" => cw[x].ev \in Events /\ cw[x].ev # e
  BY <1>7 DEF InteractionInv, KeyInv
<1>13. KeyInv'
  <2>1. ClaimedIsAccepted'
    BY <1>3, <1>7 DEF InteractionInv, KeyInv, ClaimedIsAccepted
  <2>2. \A x \in Revs, y \in Events :
           job'[x].key = y => rc'[y].rev = x /\ rc'[y].state # "none" /\ rc'[y].answer # "invalid"
    BY <1>3, <1>7, <1>12 DEF InteractionInv, KeyInv
  <2>3. QED BY <1>3, <1>7, <1>12, <2>1, <2>2 DEF InteractionInv, KeyInv
<1>14. \A x \in Events : rc[x].rev \in Revs
  BY DEF InteractionInv, TypeOK, Receipts
<1>15. \A x \in Events : x # e => rc'[x] = rc[x] /\ Live(x)' = Live(x) /\ (Live(x) => rc[x].rev # r)
  BY <1>3, <1>7 DEF InteractionInv, ReceiptInv, Live
<1>16. ReceiptInv'
  <2>1. ASSUME NEW x \in Events
        PROVE /\ rc'[x].state # "none" => pres'[rc'[x].rev].resp # "none"
              /\ rc'[x].state # "rejected" => rc'[x].why = None
              /\ Live(x)' => pres'[rc'[x].rev].resp \in {"received", "terminal"}
              /\ rc'[x].state = "claimed" => pres'[rc'[x].rev].resp \in {"claimed", "terminal"}
              /\ rc'[x].state = "rejected" /\ rc'[x].why \notin {"conflict", "other"} =>
                   pres'[rc'[x].rev].resp = "terminal"
    <3>1. CASE x = e
      BY <1>3, <1>5, <1>7, <3>1 DEF InteractionInv, ReceiptInv, Live
    <3>2. CASE x # e
      BY <1>5, <1>7, <1>8, <1>14, <1>15, <3>2 DEF InteractionInv, ReceiptInv
    <3>3. QED BY <3>1, <3>2
  <2>2. \A x, y \in Events : Live(x)' /\ Live(y)' /\ rc'[x].rev = rc'[y].rev => x = y
    BY <1>3, <1>15 DEF InteractionInv, ReceiptInv
  <2>3. QED BY <2>1, <2>2 DEF ReceiptInv
<1>17. Orphaned' = Orphaned
  BY <1>3, <1>7, <1>12 DEF Orphaned
<1>18. CallInv' /\ RowsInv'
  BY <1>7, <1>17 DEF InteractionInv, CallInv, OneShotRunsOnce, RowsInv
<1>19. FaultInv'
  <2> SUFFICES ASSUME faults = 0 PROVE FaultInv'
    BY <1>7 DEF FaultInv
  <2>1. WorkersHold /\ ClicksHeld /\ SubmittedIsMarked /\ ~Orphaned
    BY DEF InteractionInv, FaultInv
  <2>2. \A x \in Callbacks : HoldsCallback(x) => HoldsCallback(x)'
    BY <1>3, <1>5, <1>7, <1>12, <1>14 DEF HoldsCallback
  <2>3. \A x \in Callbacks : cw[x].pc # "idle" => rc'[cw[x].ev] = rc[cw[x].ev]
    BY <1>3, <1>12
  <2>4. \A x \in Callbacks : HoldsCallback(x)' => HoldsCallback(x)
    <3> SUFFICES ASSUME NEW x \in Callbacks, HoldsCallback(x)' PROVE HoldsCallback(x)
      OBVIOUS
    <3>1. cw[x].pc # "idle" /\ cw[x].ev \in Events /\ cw[x].ev # e /\ rc'[cw[x].ev] = rc[cw[x].ev]
      BY <1>7, <1>12, <2>3 DEF HoldsCallback
    <3>2. rc[cw[x].ev].rev # r
      BY <1>15, <3>1, <1>7 DEF HoldsCallback, Live
    <3>3. QED BY <1>5, <1>7, <1>14, <3>1, <3>2 DEF HoldsCallback
  <2>5. WorkersHold'
    BY <1>7, <1>8, <1>12, <1>14, <2>1, <2>2, <2>3 DEF WorkersHold
  <2>6. ClicksHeld'
    BY <1>3, <1>5, <1>7, <1>14, <1>15, <2>1, <2>2 DEF ClicksHeld, Live
  <2>7. SubmittedIsMarked'
    <3>1. \A x \in Events : x # e /\ rc'[x].state = "received" /\ pres'[rc'[x].rev].resp = "received" =>
             rc'[x] = rc[x] /\ pres[rc[x].rev].resp = "received"
      BY <1>5, <1>14, <1>15 DEF Live
    <3>2. QED BY <1>7, <1>12, <1>14, <2>1, <2>3, <2>4, <3>1, <1>3 DEF SubmittedIsMarked
  <2>8. QED BY <1>17, <2>1, <2>5, <2>6, <2>7 DEF FaultInv
<1>20. QED BY <1>6, <1>9, <1>10, <1>11, <1>13, <1>16, <1>18, <1>19 DEF InteractionInv

(* The invariant is preserved by submit_response. *)
LEMMA SubmitPreserves ==
    ASSUME NEW w \in Callbacks, InteractionInv, Submit(w)
    PROVE  InteractionInv'
<1>1. PICK e \in Events : e = cw[w].ev
  BY DEF InteractionInv, KeyInv, Submit
<1>2. PICK r \in Revs : r = rc[e].rev
  BY DEF InteractionInv, TypeOK, Receipts
<1>3. /\ cw[w].pc = "process" /\ Submitted(e, r, rc[e].answer)
      /\ cw' = [cw EXCEPT ![w].pc = Verdict(e, r)]
      /\ UNCHANGED <<pres, rc, rw, calls, late, faults, gw>>
      /\ rc[e].state # "none" /\ rc[e].answer # "invalid" /\ job[r] \in Jobs
  BY <1>1, <1>2 DEF InteractionInv, TypeOK, KeyInv, Submit
<1>4. Verdict(e, r) \in {"claim", "conflict", "reject"}
  BY DEF Verdict
<1>5. /\ cw' \in [Callbacks -> CallbackWorkers]
      /\ cw'[w].pc = Verdict(e, r) /\ cw'[w].pc # "idle"
      /\ \A x \in Callbacks : /\ cw'[x].ev = cw[x].ev /\ cw'[x].attempt = cw[x].attempt
                              /\ x # w => cw'[x] = cw[x]
  <2>1. ASSUME NEW c \in CallbackWorkers, NEW v \in {"claim", "conflict", "reject"}
        PROVE  LET d == [c EXCEPT !.pc = v] IN
               d \in CallbackWorkers /\ d.pc = v /\ d.ev = c.ev /\ d.attempt = c.attempt
    BY DEF CallbackWorkers, CallbackPcs
  <2>2. PICK v \in {"claim", "conflict", "reject"} : v = Verdict(e, r)
    BY <1>4
  <2>3. cw' = [cw EXCEPT ![w] = [cw[w] EXCEPT !.pc = v]]
    BY <1>3, <2>2
  <2>4. /\ cw' \in [Callbacks -> CallbackWorkers]
        /\ cw'[w].pc = v /\ cw'[w].ev = cw[w].ev /\ cw'[w].attempt = cw[w].attempt
        /\ \A x \in Callbacks : x # w => cw'[x] = cw[x]
    <3>1. cw \in [Callbacks -> CallbackWorkers] /\ cw[w] \in CallbackWorkers
      BY DEF InteractionInv, TypeOK
    <3> DEFINE d == [cw[w] EXCEPT !.pc = v]
    <3>2. d \in CallbackWorkers /\ d.pc = v /\ d.ev = cw[w].ev /\ d.attempt = cw[w].attempt
      BY <2>1, <3>1
    <3> HIDE DEF d
    <3>3. cw' = [cw EXCEPT ![w] = d]
      BY <2>3 DEF d
    <3>4. QED BY <3>1, <3>2, <3>3
  <2>5. v # "idle"
    OBVIOUS
  <2>6. QED BY <2>2, <2>4, <2>5
<1>6. \A x \in Callbacks : HoldsCallback(x)' = HoldsCallback(x)
  BY <1>3, <1>5 DEF HoldsCallback
<1>7. ASSUME faults = 0, faults' = 0 PROVE WorkersHold' /\ ClicksHeld'
  <2>1. WorkersHold /\ ClicksHeld
    BY <1>7 DEF InteractionInv, FaultInv
  <2>2. WorkersHold'
    BY <1>3, <1>5, <1>6, <2>1 DEF WorkersHold
  <2>3. ClicksHeld'
    BY <1>3, <1>5, <1>6, <2>1 DEF ClicksHeld
  <2>4. QED BY <2>2, <2>3
<1>8. CASE UNCHANGED <<inter, job>> /\ (Verdict(e, r) = "claim" => job[r].key = e)
  <2>1. TypeOK'
    BY <1>3, <1>5, <1>8 DEF InteractionInv, TypeOK
  <2>2. FaultInv'
    <3> SUFFICES ASSUME faults = 0, faults' = 0 PROVE FaultInv'
      BY <1>3 DEF FaultInv
    <3>1. SubmittedIsMarked /\ ~Orphaned
      BY DEF InteractionInv, FaultInv
    <3>2. SubmittedIsMarked'
      BY <1>3, <1>5, <1>6, <1>8, <3>1 DEF SubmittedIsMarked
    <3>3. ~Orphaned'
      BY <1>3, <1>8, <3>1 DEF Orphaned
    <3>4. QED BY <1>7, <3>2, <3>3 DEF FaultInv
  <2>3. UNCHANGED <<inter, pres, resumeVars, late>> /\ UNCHANGED rc
    BY <1>3, <1>8 DEF resumeVars
  <2>4. \A x \in Callbacks : cw'[x].pc # "idle" =>
          /\ cw'[x].ev = cw[x].ev /\ cw[x].pc # "idle"
          /\ cw'[x].pc = "claim" => cw[x].pc = "claim" \/ job[rc[cw[x].ev].rev].key = cw[x].ev
    BY <1>1, <1>2, <1>3, <1>5, <1>8
  <2>5. QED BY <2>1, <2>2, <2>3, <2>4, CallbackMove
<1>9. CASE /\ inter.rev = r /\ job[r].state = "none" /\ late
           /\ inter' = [inter EXCEPT !.state = "expired"] /\ UNCHANGED job
           /\ Verdict(e, r) = "reject"
  <2>1. /\ inter' \in [state : InterStates, rev : Revs, mode : Modes]
        /\ inter'.rev = inter.rev /\ inter'.mode = inter.mode /\ inter'.state = "expired"
    BY <1>9 DEF InteractionInv, TypeOK, InterStates, Ended
  <2>2. TypeOK'
    BY <1>3, <1>5, <1>9, <2>1 DEF InteractionInv, TypeOK
  <2>3. \A x \in Revs : job[x].state \notin {"response_ready", "leased"}
    BY <1>9 DEF InteractionInv, RoundInv
  <2>4. RoundInv'
    BY <1>3, <1>9, <2>1, <2>3 DEF InteractionInv, RoundInv
  <2>5. FormInv'
    BY <1>3, <1>9 DEF InteractionInv, FormInv
  <2>6. ShownInv'
    <3>1. inter.state \notin {"completed", "declined"}
      BY <1>9 DEF InteractionInv, RoundInv
    <3>2. \A x \in Revs : pres[x].shows \notin {"completed", "declined"}
      BY <3>1 DEF InteractionInv, ShownInv, ShownIsTrue, Ended
    <3>3. QED BY <1>3, <2>1, <3>2 DEF ShownInv, ShownIsTrue, Ended
  <2>7. KeyInv'
    BY <1>3, <1>5, <1>9 DEF InteractionInv, KeyInv, ClaimedIsAccepted
  <2>8. ReceiptInv'
    BY <1>3 DEF InteractionInv, ReceiptInv, Live
  <2>9. CallInv'
    BY <1>3, <1>9, <2>1 DEF InteractionInv, CallInv, OneShotRunsOnce
  <2>10. RowsInv'
    BY <1>9, <2>3 DEF RowsInv
  <2>11. FaultInv'
    <3> SUFFICES ASSUME faults = 0, faults' = 0 PROVE FaultInv'
      BY <1>3 DEF FaultInv
    <3>1. SubmittedIsMarked /\ ~Orphaned
      BY DEF InteractionInv, FaultInv
    <3>2. SubmittedIsMarked'
      BY <1>3, <1>5, <1>6, <1>9, <3>1 DEF SubmittedIsMarked
    <3>3. ~Orphaned'
      BY <1>3, <1>9, <3>1 DEF Orphaned
    <3>4. QED BY <1>7, <3>2, <3>3 DEF FaultInv
  <2>12. QED BY <2>2, <2>4, <2>5, <2>6, <2>7, <2>8, <2>9, <2>10, <2>11 DEF InteractionInv
<1>10. ASSUME NEW s \in {"declined", "response_ready"}, NEW js \in {"succeeded", "response_ready"},
              s = "response_ready" <=> js = "response_ready",
              inter.rev = r, job[r].state = "none", inter.state = "awaiting_input",
              inter' = [inter EXCEPT !.state = s],
              job' = [job EXCEPT ![r].key = e, ![r].state = js],
              Verdict(e, r) = "claim"
       PROVE  InteractionInv'
  <2>1. /\ inter' \in [state : InterStates, rev : Revs, mode : Modes]
        /\ inter'.rev = inter.rev /\ inter'.mode = inter.mode /\ inter'.state = s
    BY <1>10 DEF InteractionInv, TypeOK, InterStates, Ended
  <2>2. ASSUME NEW j \in Jobs
        PROVE  LET k == [j EXCEPT !.key = e, !.state = js] IN k \in Jobs /\ k.key = e /\ k.state = js
    BY DEF Jobs, JobStates, Maybe
  <2>3. /\ job' \in [Revs -> Jobs] /\ job'[r].key = e /\ job'[r].state = js
        /\ \A x \in Revs : x # r => job'[x] = job[x]
    <3>1. job' = [job EXCEPT ![r] = [job[r] EXCEPT !.key = e, !.state = js]]
      BY <1>10 DEF InteractionInv, TypeOK
    <3>2. QED BY <2>2, <3>1 DEF InteractionInv, TypeOK
  <2>4. TypeOK'
    BY <1>3, <1>5, <2>1, <2>3 DEF InteractionInv, TypeOK
  <2>5. \A x \in Revs : job[x].state \notin {"response_ready", "leased"}
    BY <1>10 DEF InteractionInv, RoundInv
  <2>6. RoundInv'
    <3>1. ~(r > inter.rev) /\ ~(r < inter.rev)
      BY <1>10, InteractionAssumption DEF Revs
    <3>2. QED BY <1>3, <1>10, <2>1, <2>3, <2>5, <3>1 DEF InteractionInv, RoundInv
  <2>7. FormInv'
    <3>1. pres[r].resp # "none"
      BY <1>2, <1>3 DEF InteractionInv, ReceiptInv
    <3>2. QED BY <1>3, <2>3, <3>1 DEF InteractionInv, FormInv
  <2>8. ShownInv'
    BY <1>3, <1>10, <2>1 DEF InteractionInv, ShownInv, ShownIsTrue, Ended
  <2>9. \A x \in Events : rc[x].rev \in Revs
    BY DEF InteractionInv, TypeOK, Receipts
  <2>10. job[r].key = None /\ e # None
    BY <1>10, InteractionAssumption DEF InteractionInv, KeyInv
  <2>11. KeyInv'
    <3>1. \A x \in Revs : job'[x].state = "none" <=> job'[x].key = None
      BY <2>3, <2>10 DEF InteractionInv, KeyInv
    <3>2. \A x \in Revs, y \in Events :
             job'[x].key = y => rc[y].rev = x /\ rc[y].state # "none" /\ rc[y].answer # "invalid"
      BY <1>2, <1>3, <2>3 DEF InteractionInv, KeyInv
    <3>3. \A x \in Callbacks : cw'[x].pc # "idle" =>
             /\ cw'[x].ev \in Events /\ rc[cw'[x].ev].state # "none" /\ rc[cw'[x].ev].answer # "invalid"
      BY <1>3, <1>5 DEF InteractionInv, KeyInv
    <3>4. ASSUME NEW x \in Callbacks, cw'[x].pc = "claim" PROVE job'[rc[cw'[x].ev].rev].key = cw'[x].ev
      <4>1. CASE x = w
        BY <1>1, <1>2, <1>5, <2>3, <4>1
      <4>2. CASE x # w
        BY <1>5, <2>3, <2>9, <2>10, <3>4, <4>2, InteractionAssumption DEF InteractionInv, KeyInv
      <4>3. QED BY <4>1, <4>2
    <3>5. ClaimedIsAccepted'
      BY <1>3, <2>3, <2>9, <2>10, InteractionAssumption DEF InteractionInv, KeyInv,
         ClaimedIsAccepted
    <3>6. QED BY <1>3, <3>1, <3>2, <3>3, <3>4, <3>5 DEF KeyInv
  <2>12. ReceiptInv'
    BY <1>3 DEF InteractionInv, ReceiptInv, Live
  <2>13. CallInv'
    <3>1. OneShotRunsOnce'
      BY <1>3, <2>1 DEF InteractionInv, CallInv, OneShotRunsOnce
    <3>2. \A x \in Resumers : rw[x].rev \in Revs
      BY DEF InteractionInv, TypeOK, ResumeWorkers
    <3>3. inter.mode = "single_use" =>
             calls[r] = 0 /\ \A x \in Resumers : rw[x].pc # "idle" => rw[x].rev # r
      BY <1>10 DEF InteractionInv, CallInv
    <3>4. QED BY <1>3, <2>1, <2>3, <3>1, <3>2, <3>3 DEF InteractionInv, CallInv
  <2>14. RowsInv'
    BY <1>10, <2>1, <2>3, <2>5 DEF RowsInv
  <2>15. FaultInv'
    <3> SUFFICES ASSUME faults = 0, faults' = 0 PROVE FaultInv'
      BY <1>3 DEF FaultInv
    <3>1. WorkersHold /\ SubmittedIsMarked /\ ~Orphaned
      BY DEF InteractionInv, FaultInv
    <3>2. rc[e].why \notin {"conflict", "other"}
      BY <1>1, <1>3, <3>1 DEF WorkersHold
    <3>3. ~Orphaned'
      BY <1>3, <2>3, <3>1, <3>2 DEF Orphaned
    <3>4. HoldsCallback(w) \/ pres[r].resp = "terminal"
      BY <1>1, <1>2, <1>3, <3>1 DEF WorkersHold
    <3>5. \A x \in Callbacks : HoldsCallback(x) /\ cw[x].ev = e => x = w
      BY <1>1, <1>2, <3>4 DEF HoldsCallback
    <3>6. ~(rc[e].state = "received" /\ pres[r].resp = "received")
      BY <1>1, <3>4 DEF HoldsCallback
    <3>7. \A x \in Events : x # e => job'[rc[x].rev].key # x \/ job[rc[x].rev].key = x
      BY <2>3, <2>9
    <3>8. \A x \in Callbacks : cw[x].pc # "idle" => cw[x].ev \in Events
      BY DEF InteractionInv, KeyInv
    <3>9. SubmittedIsMarked'
      <4>1. ASSUME NEW x \in Callbacks, cw'[x].pc \notin {"idle", "claim"}, HoldsCallback(x)
            PROVE  job'[rc[cw'[x].ev].rev].key # cw'[x].ev
        <5>1. x # w /\ cw'[x] = cw[x] /\ cw[x].ev # e
          BY <1>5, <1>10, <3>5, <4>1
        <5>2. QED BY <3>1, <3>7, <3>8, <4>1, <5>1 DEF SubmittedIsMarked
      <4>2. \A x \in Events : rc[x].state = "received" /\ pres[rc[x].rev].resp = "received" =>
              job'[rc[x].rev].key # x
        BY <1>2, <3>1, <3>6, <3>7 DEF SubmittedIsMarked
      <4>3. QED BY <1>3, <1>6, <4>1, <4>2 DEF SubmittedIsMarked
    <3>10. QED BY <1>7, <3>3, <3>9 DEF FaultInv
  <2>16. QED BY <2>4, <2>6, <2>7, <2>8, <2>11, <2>12, <2>13, <2>14, <2>15 DEF InteractionInv
<1>11. CASE inter.rev = r /\ job[r].state = "none" /\ ~late /\ inter.state = "awaiting_input"
  <2>1. Verdict(e, r) = "claim"
    BY <1>11 DEF Verdict
  <2>2. CASE rc[e].answer = "refuse"
    BY <1>3, <1>10, <1>11, <2>1, <2>2 DEF Submitted
  <2>3. CASE rc[e].answer # "refuse"
    BY <1>3, <1>10, <1>11, <2>1, <2>3 DEF Submitted
  <2>4. QED BY <2>2, <2>3
<1>12. CASE inter.rev = r /\ job[r].state = "none" /\ late
  BY <1>3, <1>9, <1>12 DEF Submitted, Verdict
<1>13. CASE inter.rev # r \/ job[r].state # "none" \/ (~late /\ inter.state # "awaiting_input")
  BY <1>3, <1>8, <1>13 DEF Submitted, Verdict
<1>14. QED BY <1>11, <1>12, <1>13 DEF InteractionInv, TypeOK

-----------------------------------------------------------------------------
(* The interaction that has just been created satisfies the invariant. *)
LEMMA InitEstablishes == Init => InteractionInv
<1> SUFFICES ASSUME Init PROVE InteractionInv
  OBVIOUS
<1>1. 1 \in Revs /\ 0 \in 0..MaxRounds /\ 0 \in 0..MaxFaults
  BY InteractionAssumption DEF Revs
<1>2. /\ NoJob \in Jobs /\ NoForm \in Forms /\ NoReceipt \in Receipts
      /\ IdleCallback \in CallbackWorkers /\ IdleResumer \in ResumeWorkers
      /\ IdleGateway \in ChannelWorkers
  BY <1>1 DEF NoJob, NoForm, NoReceipt, IdleCallback, IdleResumer, IdleGateway, Jobs, Forms,
     Receipts, CallbackWorkers, ResumeWorkers, ChannelWorkers, JobStates, ResponseStates,
     DeliveryStates, ReceiptStates, CallbackPcs, ResumePcs, Maybe
<1>3. TypeOK
  BY <1>1, <1>2 DEF Init, TypeOK, InterStates
<1>4. /\ inter.rev = 1 /\ inter.state = "awaiting_input"
      /\ \A r \in Revs : /\ job[r].state = "none" /\ job[r].key = None
                         /\ pres[r].resp = "none" /\ pres[r].kind = "form" /\ pres[r].shows = None
                         /\ calls[r] = 0
      /\ \A e \in Events : rc[e].state = "none" /\ rc[e].why = None /\ rc[e].rev = 1
      /\ \A w \in Callbacks : cw[w].pc = "idle"
      /\ \A w \in Resumers : rw[w].pc = "idle"
  BY DEF Init, NoJob, NoForm, NoReceipt, IdleCallback, IdleResumer
<1>5. \A r \in Revs : ~(r < 1)
  BY InteractionAssumption DEF Revs
<1>6. RoundInv
  BY <1>4, <1>5 DEF RoundInv
<1>7. FormInv
  BY <1>4 DEF FormInv
<1>8. ShownInv
  BY <1>4, InteractionAssumption DEF ShownInv, ShownIsTrue, InterStates, Ended
<1>9. KeyInv
  BY <1>4, InteractionAssumption DEF KeyInv, ClaimedIsAccepted
<1>10. ReceiptInv /\ CallInv
  BY <1>4 DEF ReceiptInv, Live, CallInv, OneShotRunsOnce
<1>11. ~Orphaned
  BY <1>4, InteractionAssumption DEF Orphaned, Reasons
<1>12. RowsInv /\ FaultInv
  BY <1>4, <1>11, InteractionAssumption
  DEF RowsInv, FaultInv, WorkersHold, ClicksHeld, SubmittedIsMarked
<1>13. QED BY <1>3, <1>6, <1>7, <1>8, <1>9, <1>10, <1>12 DEF InteractionInv

(* Every step preserves the invariant. *)
LEMMA NextPreserves == InteractionInv /\ [Next]_vars => InteractionInv'
<1> SUFFICES ASSUME InteractionInv, [Next]_vars PROVE InteractionInv'
  OBVIOUS
<1>1. CASE Register
  BY <1>1, RegisterPreserves
<1>2. CASE \E e \in Events, r \in Revs : ReceiveCallback(e, r)
  BY <1>2, ReceiveCallbackPreserves
<1>3. CASE Expire
  BY <1>3, ExpirePreserves
<1>4. CASE GatewayNext
  BY <1>4, ClaimDeliveryPreserves, AckDeliveryPreserves, FailDeliveryPreserves,
     DeliveryLostPreserves, DeliveryCrashPreserves, DeliveryLeaseEndsPreserves DEF GatewayNext
<1>5. CASE CallbackNext
  <2>1. ASSUME NEW w \in Callbacks, CallbackStep(w) PROVE InteractionInv'
    BY <2>1, ResolvePreserves, SubmitPreserves, MarkClaimedPreserves, RejectCallbackPreserves,
       RetryCallbackPreserves, CallbackLostPreserves DEF CallbackStep
  <2>2. QED BY <1>5, <2>1, LeaseCallbackPreserves, CallbackFailsPreserves,
        CallbackCrashPreserves, CallbackLeaseEndsPreserves, ReconcilePreserves DEF CallbackNext
<1>6. CASE ResumeNext
  <2>1. ASSUME NEW w \in Resumers, ResumeStep(w) PROVE InteractionInv'
    BY <2>1, CallPreserves, CompletePreserves, AdvancePreserves, TerminalFailPreserves,
       ResumeLostPreserves DEF ResumeStep
  <2>2. QED BY <1>6, <2>1, LeaseJobPreserves, RetryPreserves, ResumeCrashPreserves,
                JobLeaseEndsPreserves DEF ResumeNext
<1>7. CASE UNCHANGED vars
  <2>1. UNCHANGED <<inter, rc, cw, resumeVars, late>> /\ UNCHANGED faults /\ UNCHANGED pres
    BY <1>7 DEF vars, resumeVars
  <2>2. TypeOK'
    BY <1>7 DEF vars, InteractionInv, TypeOK
  <2>3. QED BY <2>1, <2>2, DeliveryMove
<1>8. QED BY <1>1, <1>2, <1>3, <1>4, <1>5, <1>6, <1>7 DEF Next

(* The rows always have their types and satisfy the invariant, whatever    *)
(* the numbers of rounds, clicks, processes and failures.                  *)
THEOREM InvariantHolds == Spec => []InteractionInv
<1>1. QED BY InitEstablishes, NextPreserves, PTL DEF Spec

(* The rows of the tables and what the workers remember have their types.  *)
THEOREM TypesHold == Spec => []TypeOK
<1>1. InteractionInv => TypeOK
  BY DEF InteractionInv
<1>2. QED BY <1>1, InvariantHolds, PTL

(* lease_ready, the fences of complete and retry, and the refusal to       *)
(* repeat a call that is not reusable: a single-use tool is called at most *)
(* once in a round, and one with side effects never.                       *)
THEOREM OneShot == Spec => []OneShotRunsOnce
<1>1. InteractionInv => OneShotRunsOnce
  BY DEF InteractionInv, CallInv
<1>2. QED BY <1>1, InvariantHolds, PTL

(* submit_response and mark_callback_claimed: a click that is recorded as  *)
(* claimed brought the response of its round.                              *)
THEOREM ClaimedWasAccepted == Spec => []ClaimedIsAccepted
<1>1. InteractionInv => ClaimedIsAccepted
  BY DEF InteractionInv, KeyInv
<1>2. QED BY <1>1, InvariantHolds, PTL

(* reject_callback: an accepted response is disowned only after a crash, a *)
(* lost lease or a failing call.                                           *)
THEOREM DisownedAfterFault == Spec => []DisownedOnlyAfterFault
<1>1. InteractionInv => DisownedOnlyAfterFault
  <2> SUFFICES ASSUME InteractionInv, Orphaned PROVE faults > 0
    BY DEF DisownedOnlyAfterFault
  <2>1. faults # 0
    BY DEF InteractionInv, FaultInv
  <2>2. QED BY <2>1, InteractionAssumption DEF InteractionInv, TypeOK
<1>2. QED BY <1>1, InvariantHolds, PTL

(* The interaction, its jobs and its forms tell the same story until a     *)
(* response is disowned, so the fences of complete, retry and pause never  *)
(* refuse the holder of a job because of the interaction row.              *)
THEOREM RowsTellTheSame == Spec => []RowsAgree
<1>1. InteractionInv => RowsAgree
  BY OpenForm DEF InteractionInv, RowsInv, RoundInv, RowsAgree
<1>2. QED BY <1>1, InvariantHolds, PTL

(* _terminalize: what the chat shows, if not a failure, is how the         *)
(* interaction ended.                                                      *)
THEOREM ShownTruth == Spec => []ShownIsTrue
<1>1. InteractionInv => ShownIsTrue
  BY DEF InteractionInv, ShownInv
<1>2. QED BY <1>1, InvariantHolds, PTL

-----------------------------------------------------------------------------
(* A step from an interaction that has ended leaves its state and round as *)
(* they are.                                                               *)
LEMMA EndedStays ==
    ASSUME InteractionInv, Next, inter.state \in Ended, ~Orphaned
    PROVE  inter'.state = inter.state /\ inter'.rev = inter.rev
<1>1. inter.state \notin {"awaiting_input", "response_ready", "resuming"}
  BY DEF Ended
<1>2. \A r \in Revs : job[r].state \notin {"response_ready", "leased"}
  BY <1>1 DEF InteractionInv, RowsInv
<1>3. job[inter.rev].state = "none" => inter.state = "expired"
  BY DEF InteractionInv, RoundInv, Ended
<1>4. CASE GatewayNext
  <2>1. ASSUME NEW g \in Gateways, NEW r \in Revs, ClaimDelivery(g, r)
        PROVE  inter' = inter \/ (inter' = [inter EXCEPT !.state = "expired"] /\ inter.state = "expired")
    <3>1. CASE pres[r].kind = "form" /\ late
      <4>1. pres[r].resp = "open"
        BY <2>1, <3>1 DEF InteractionInv, TypeOK, FormInv, ClaimDelivery, Deliverable, Forms,
           ResponseStates
      <4>2. inter.state = "expired"
        BY <1>3, <4>1, OpenForm
      <4>3. QED BY <2>1, <4>2 DEF ClaimDelivery
    <3>2. CASE ~(pres[r].kind = "form" /\ late)
      BY <2>1, <3>2 DEF ClaimDelivery
    <3>3. QED BY <3>1, <3>2
  <2>2. inter' = inter \/ (inter' = [inter EXCEPT !.state = "expired"] /\ inter.state = "expired")
    BY <1>4, <2>1 DEF GatewayNext, AckDelivery, FailDelivery, DeliveryLost, DeliveryCrash,
       DeliveryLeaseEnds
  <2>3. QED BY <2>2 DEF InteractionInv, TypeOK
<1>5. CASE CallbackNext
  <2>1. ASSUME NEW w \in Callbacks, Submit(w)
        PROVE  inter' = inter \/ (inter' = [inter EXCEPT !.state = "expired"] /\ inter.state = "expired")
    BY <1>1, <1>3, <2>1 DEF Submit, Submitted
  <2>2. ASSUME NEW w \in Callbacks, CallbackStep(w), ~Submit(w) PROVE inter' = inter
    BY <2>2 DEF CallbackStep, Resolve, MarkClaimed, RejectCallback, RetryCallback, CallbackLost
  <2>3. ASSUME NEW r \in Revs, Reconcile(r) PROVE inter' = inter
    BY <1>1, <2>3 DEF Reconcile
  <2>4. inter' = inter \/ (inter' = [inter EXCEPT !.state = "expired"] /\ inter.state = "expired")
    BY <1>5, <2>1, <2>2, <2>3 DEF CallbackNext, LeaseCallback, CallbackFails, CallbackCrash,
       CallbackLeaseEnds
  <2>5. QED BY <2>4 DEF InteractionInv, TypeOK
<1>6. CASE ResumeNext
  <2>1. \A w \in Resumers, r \in Revs : ~LeaseJob(w, r)
    BY <1>2 DEF LeaseJob, Leasable
  <2>2. \A w \in Resumers : ~HoldsJob(w)
    BY <1>1 DEF HoldsJob
  <2>3. QED BY <1>6, <2>1, <2>2 DEF ResumeNext, ResumeStep, Call, Complete, Advance,
        TerminalFail, Retry, ResumeLost, ResumeCrash, JobLeaseEnds
<1>7. CASE Register \/ (\E e \in Events, r \in Revs : ReceiveCallback(e, r)) \/ Expire
  BY <1>7 DEF Register, ReceiveCallback, Expire
<1>8. QED BY <1>4, <1>5, <1>6, <1>7 DEF Next

(* claim_delivery and lease_ready write the interaction row without        *)
(* reading it; all the same, an interaction that has ended stays as it is  *)
(* unless a response was disowned.                                         *)
THEOREM EndStays == Spec => EndIsFinal
<1>1. InteractionInv /\ [Next]_vars =>
        [inter.state \in Ended /\ ~Orphaned => inter'.state = inter.state /\ inter'.rev = inter.rev]_vars
  BY EndedStays
<1>2. QED BY <1>1, InvariantHolds, PTL DEF Spec, EndIsFinal
=============================================================================

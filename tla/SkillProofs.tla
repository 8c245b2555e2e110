----------------------------- MODULE SkillProofs -----------------------------
(***************************************************************************)
(* Proofs about the leases of skill operations, for any number of workers, *)
(* operations, skills, versions and generations, for any amount of         *)
(* trouble, and also where publishing transactions outlast their lease.    *)
(*                                                                         *)
(* The argument: every claim raises the revision of the operation's row,   *)
(* and a generation belongs to one revision of one operation.  Only the    *)
(* worker that has the row at its revision may publish the generation, so  *)
(* no operation takes effect twice.                                        *)
(***************************************************************************)
EXTENDS SkillSystem, TLAPS

-----------------------------------------------------------------------------
(* What may still be published, and what is out of use for good *)

Publishing == {"content", "build", "seal", "switch", "commit"}
Building == Publishing \cup {"mark_failed", "mark_lost"}

(* The worker may publish its generation: it has the lease, or its         *)
(* publishing transaction has checked the lease and keeps the row.         *)
MayPublish(w) == wk[w].pc \in Publishing /\ (wk[w].pc = "commit" \/ Locked(w))

-----------------------------------------------------------------------------
(* The inductive invariant *)

(* Rows of operations as the API and the workers write them. *)
RowOK(o) ==
    /\ published[o] = IF op[o].done THEN 1 ELSE 0
    /\ op[o].state = "new" => op[o].kind = None /\ ~op[o].done /\ op[o].gens = {}
    /\ op[o].lease => op[o].state = "running"
    /\ op[o].phase = "staging" => op[o].kind = "install" /\ op[o].state \in {"pending", "failed"}
    /\ op[o].kind \in {"install", "delete_version"} => op[o].ver \in Versions
    /\ op[o].activate => /\ op[o].skill \in Skills
                         /\ op[o].ver # None => SkillOf[op[o].ver] = op[o].skill
    /\ \A r \in op[o].gens : r.rev <= op[o].rev /\ gen[r.id].state # "new"
RowInv == \A o \in Ops : RowOK(o)

(* A generation belongs to one lease of one operation. *)
GenOwnerInv ==
    \A o, x \in Ops : \A r \in op[o].gens, q \in op[x].gens : r.id = q.id => o = x /\ r = q

(* Workers and the operations they have claimed. *)
Unclaimed == {"idle", "sweep_drop", "sweep_mark", "sweep_failed"}
RemovePcs == {"remove", "purging", "purged", "files", "erase", "remove_failed"}
WorkerOK(w) ==
    /\ wk[w].op = None <=> wk[w].pc \in Unclaimed
    /\ wk[w].op # None => Row(w).state # "new" /\ wk[w].rev <= Row(w).rev
    /\ wk[w].pc \in Building =>
         wk[w].gen \in Gens /\ [id |-> wk[w].gen, rev |-> wk[w].rev] \in Row(w).gens
    /\ wk[w].pc = "install" => Row(w).kind = "install"
    /\ wk[w].pc \in RemovePcs => Row(w).kind \in DeleteKinds
WorkerInv ==
    /\ \A w \in Workers : WorkerOK(w)
    /\ \A w, x \in Workers :
          wk[w].op # None /\ wk[x].op = wk[w].op /\ wk[x].rev = wk[w].rev => x = w

(* A worker that may publish has the row, which is not done yet. *)
HasLease(w) ==
    /\ Row(w).state = "running" /\ Row(w).owner = w /\ Row(w).rev = wk[w].rev
    /\ ~Row(w).done
LeaseInv == \A w \in Workers : MayPublish(w) => HasLease(w)

(* All of it. *)
LeaseParts == TypeOK /\ RowInv /\ GenOwnerInv /\ WorkerInv /\ LeaseInv

-----------------------------------------------------------------------------
(* What a step does to the workers *)

(* The other workers stand still. *)
Others(w) == \A x \in Workers : x # w => wk'[x] = wk[x]

(* The worker goes to pc with all it knows. *)
Moved(w, pc) ==
    /\ wk' \in [Workers -> WorkerRows]
    /\ wk'[w].pc = pc
    /\ wk'[w].op = wk[w].op /\ wk'[w].rev = wk[w].rev /\ wk'[w].gen = wk[w].gen
    /\ wk'[w].todo = wk[w].todo /\ wk'[w].ids = wk[w].ids
    /\ Others(w)

(* The worker forgets all. *)
Rested(w) ==
    /\ wk' \in [Workers -> WorkerRows]
    /\ wk'[w].pc = "idle" /\ wk'[w].op = None
    /\ Others(w)

(* The worker waits at pc for a call on one of todo, or is done with them. *)
Called(w, todo, call, ids, pc, end) ==
    /\ wk' \in [Workers -> WorkerRows]
    /\ threads' \subseteq Calls \X Gens \X Workers \X SUBSET Versions
    /\ Others(w)
    /\ \/ /\ todo = {} /\ threads' = threads /\ wk'[w].pc = end
          /\ end # "idle" => wk'[w].op = wk[w].op /\ wk'[w].rev = wk[w].rev /\ wk'[w].ids = ids
          /\ end = "idle" => wk'[w].op = None
       \/ \E g \in todo :
            /\ wk'[w].pc = pc /\ wk'[w].op = wk[w].op /\ wk'[w].rev = wk[w].rev
            /\ wk'[w].gen = g /\ wk'[w].todo = todo \ {g} /\ wk'[w].ids = ids
            /\ threads' = threads \cup {<<call, g, w, IF call = "purge" THEN ids ELSE {}>>}

(* Goto changes the program counter alone. *)
LEMMA GotoMoves ==
    ASSUME TypeOK, NEW w \in Workers, NEW pc \in Pcs, Goto(w, pc)
    PROVE  Moved(w, pc)
<1>1. ASSUME NEW r \in WorkerRows PROVE [r EXCEPT !.pc = pc] \in WorkerRows
  BY DEF WorkerRows
<1>2. wk' = [wk EXCEPT ![w] = [wk[w] EXCEPT !.pc = pc]] /\ wk[w] \in WorkerRows
  BY DEF TypeOK, Goto
<1>3. QED BY <1>1, <1>2 DEF TypeOK, Moved, Others, WorkerRows

(* Idle gives up the operation. *)
LEMMA IdleRests ==
    ASSUME TypeOK, NEW w \in Workers, Idle(w)
    PROVE  Rested(w)
<1>1. IdleWorker \in WorkerRows
  BY DEF WorkerRows, IdleWorker, Pcs, Maybe
<1>2. QED BY <1>1 DEF TypeOK, Idle, Rested, Others, IdleWorker

(* CallNext starts one call or ends the loop. *)
LEMMA CallNextCalls ==
    ASSUME TypeOK, NEW w \in Workers, NEW todo \in SUBSET Gens, NEW call \in Calls,
           NEW ids \in SUBSET Versions, NEW pc \in Pcs, NEW end \in Pcs,
           CallNext(w, todo, call, ids, pc, end)
    PROVE  Called(w, todo, call, ids, pc, end)
<1>1. CASE /\ todo = {}
           /\ wk' = [wk EXCEPT ![w] = IF end = "idle" THEN IdleWorker
                                      ELSE [@ EXCEPT !.pc = end, !.gen = None, !.ids = ids]]
           /\ UNCHANGED threads
  <2>1. IdleWorker \in WorkerRows
    BY DEF WorkerRows, IdleWorker, Pcs, Maybe
  <2>2. ASSUME NEW r \in WorkerRows
        PROVE  [r EXCEPT !.pc = end, !.gen = None, !.ids = ids] \in WorkerRows
    BY DEF WorkerRows, Maybe
  <2>3. wk[w] \in WorkerRows /\ wk \in [Workers -> WorkerRows]
    BY DEF TypeOK
  <2>4. wk' \in [Workers -> WorkerRows]
    BY <1>1, <2>1, <2>2, <2>3
  <2>5. wk'[w] = IF end = "idle" THEN IdleWorker
                 ELSE [wk[w] EXCEPT !.pc = end, !.gen = None, !.ids = ids]
    BY <1>1, <2>3
  <2>6. /\ wk'[w].pc = end
        /\ end # "idle" => wk'[w].op = wk[w].op /\ wk'[w].rev = wk[w].rev /\ wk'[w].ids = ids
        /\ end = "idle" => wk'[w].op = None
    BY <2>3, <2>5 DEF WorkerRows, IdleWorker
  <2>7. Others(w)
    BY <1>1, <2>3 DEF Others
  <2>8. QED BY <1>1, <2>4, <2>6, <2>7 DEF TypeOK, Called
<1>2. CASE \E g \in todo :
              /\ wk' = [wk EXCEPT ![w].pc = pc, ![w].gen = g, ![w].todo = todo \ {g}, ![w].ids = ids]
              /\ threads' = threads \cup {<<call, g, w, IF call = "purge" THEN ids ELSE {}>>}
  <2>1. PICK g \in todo :
              /\ wk' = [wk EXCEPT ![w].pc = pc, ![w].gen = g, ![w].todo = todo \ {g}, ![w].ids = ids]
              /\ threads' = threads \cup {<<call, g, w, IF call = "purge" THEN ids ELSE {}>>}
    BY <1>2
  <2>2. ASSUME NEW r \in WorkerRows
        PROVE  [r EXCEPT !.pc = pc, !.gen = g, !.todo = todo \ {g}, !.ids = ids] \in WorkerRows
    BY DEF WorkerRows, Maybe
  <2>3. wk[w] \in WorkerRows /\ wk \in [Workers -> WorkerRows]
    BY DEF TypeOK
  <2>4. wk' = [wk EXCEPT ![w] = [wk[w] EXCEPT !.pc = pc, !.gen = g, !.todo = todo \ {g}, !.ids = ids]]
    BY <2>1, <2>3
  <2>5. wk' \in [Workers -> WorkerRows]
    BY <2>2, <2>3, <2>4
  <2>6. /\ wk'[w].pc = pc /\ wk'[w].op = wk[w].op /\ wk'[w].rev = wk[w].rev
        /\ wk'[w].gen = g /\ wk'[w].todo = todo \ {g} /\ wk'[w].ids = ids
        /\ Others(w)
    BY <2>3, <2>4 DEF WorkerRows, Others
  <2>7. threads' \subseteq Calls \X Gens \X Workers \X SUBSET Versions
    BY <2>1 DEF TypeOK
  <2>8. QED BY <2>1, <2>5, <2>6, <2>7 DEF Called
<1>3. QED BY <1>1, <1>2 DEF CallNext

-----------------------------------------------------------------------------
(* Leases *)

(* Operations keep what they are about, and their revision never goes back. *)
OpsKeep ==
    \A o \in Ops : op[o].state # "new" =>
        /\ op'[o].state # "new"
        /\ op'[o].kind = op[o].kind /\ op'[o].skill = op[o].skill /\ op'[o].ver = op[o].ver
        /\ op'[o].activate = op[o].activate
        /\ op[o].rev <= op'[o].rev
        /\ op[o].gens \subseteq op'[o].gens

(* Generations keep their snapshot. *)
GensKeep ==
    \A g \in Gens : gen[g].state # "new" =>
        gen'[g].state # "new" /\ gen'[g].src = gen[g].src /\ gen'[g].docs = gen[g].docs

(* The worker gave up its operation, or goes on with it from where it was. *)
Fit(w) ==
    \/ wk'[w].op = None /\ wk'[w].pc \in Unclaimed
    \/ /\ wk'[w].op = wk[w].op /\ wk'[w].rev = wk[w].rev
       /\ wk[w].op # None /\ wk'[w].pc \notin Unclaimed
       /\ wk'[w].pc \in Building => wk[w].pc \in Building /\ wk'[w].gen = wk[w].gen
       /\ wk'[w].pc \in Publishing => wk[w].pc \in Publishing
       /\ wk'[w].pc = "commit" => wk[w].pc = "commit" \/ Locked(w)
       /\ wk'[w].pc = "install" => wk[w].pc = "install"
       /\ wk'[w].pc \in RemovePcs => wk[w].pc \in RemovePcs

(* A worker that stands still fits. *)
LEMMA StillFits ==
    ASSUME WorkerInv, NEW w \in Workers, wk'[w] = wk[w]
    PROVE  Fit(w)
BY DEF WorkerInv, WorkerOK, Fit

(* The lease of a worker that may still publish is as good as it was. *)
LeaseStays(w) ==
    /\ op'[wk[w].op].state = "running" /\ op'[wk[w].op].owner = w
    /\ op'[wk[w].op].rev = wk[w].rev /\ ~op'[wk[w].op].done

(* A worker that fits stays consistent with its operation. *)
LEMMA WorkerKeeps ==
    ASSUME LeaseParts, TypeOK', OpsKeep, NEW w \in Workers, Fit(w)
    PROVE  WorkerOK(w)'
<1>1. CASE wk'[w].op = None /\ wk'[w].pc \in Unclaimed
  BY <1>1 DEF WorkerOK, Unclaimed, Building, Publishing, RemovePcs
<1>2. CASE /\ wk'[w].op = wk[w].op /\ wk'[w].rev = wk[w].rev
           /\ wk[w].op # None /\ wk'[w].pc \notin Unclaimed
           /\ wk'[w].pc \in Building => wk[w].pc \in Building /\ wk'[w].gen = wk[w].gen
           /\ wk'[w].pc = "install" => wk[w].pc = "install"
           /\ wk'[w].pc \in RemovePcs => wk[w].pc \in RemovePcs
  <2>1. wk[w].op \in Ops /\ wk[w].rev \in Nat /\ op[wk[w].op].rev \in Nat /\ op'[wk[w].op].rev \in Nat
    BY <1>2 DEF LeaseParts, TypeOK, WorkerRows, OpRows, Maybe
  <2>2. /\ op[wk[w].op].state # "new" /\ wk[w].rev <= op[wk[w].op].rev
        /\ wk[w].pc \in Building =>
             wk[w].gen \in Gens /\ [id |-> wk[w].gen, rev |-> wk[w].rev] \in op[wk[w].op].gens
        /\ wk[w].pc = "install" => op[wk[w].op].kind = "install"
        /\ wk[w].pc \in RemovePcs => op[wk[w].op].kind \in DeleteKinds
    BY <1>2 DEF LeaseParts, WorkerInv, WorkerOK, Row
  <2>3. /\ op'[wk[w].op].state # "new" /\ op'[wk[w].op].kind = op[wk[w].op].kind
        /\ op[wk[w].op].rev <= op'[wk[w].op].rev
        /\ op[wk[w].op].gens \subseteq op'[wk[w].op].gens
    BY <2>1, <2>2 DEF OpsKeep
  <2>4. wk[w].rev <= op'[wk[w].op].rev
    BY <2>1, <2>2, <2>3
  <2>5. QED BY <1>2, <2>2, <2>3, <2>4 DEF WorkerOK, Row
<1>3. QED BY <1>1, <1>2 DEF Fit

(* When every worker fits, no two of them have one lease. *)
LEMMA WorkersKeep ==
    ASSUME LeaseParts, TypeOK', OpsKeep, \A w \in Workers : Fit(w)
    PROVE  WorkerInv'
<1>1. \A w \in Workers : wk'[w].op = None \/ (wk'[w].op = wk[w].op /\ wk'[w].rev = wk[w].rev)
  BY DEF Fit
<1>2. \A w, x \in Workers :
        wk[w].op # None /\ wk[x].op = wk[w].op /\ wk[x].rev = wk[w].rev => x = w
  BY DEF LeaseParts, WorkerInv
<1>3. \A w, x \in Workers :
        wk'[w].op # None /\ wk'[x].op = wk'[w].op /\ wk'[x].rev = wk'[w].rev => x = w
  BY <1>1, <1>2
<1>4. \A w \in Workers : WorkerOK(w)'
  BY WorkerKeeps
<1>5. QED BY <1>3, <1>4 DEF WorkerInv

(* Leases do not appear from nowhere. *)
NoNewLease ==
    \A o \in Ops : op'[o].state = "running" /\ op'[o].lease =>
        /\ op[o].state = "running" /\ op[o].lease
        /\ op'[o].owner = op[o].owner /\ op'[o].rev = op[o].rev

(* A worker that may publish could do so before, the same generation. *)
MayOnlyKeep(w) ==
    MayPublish(w)' =>
        /\ MayPublish(w) /\ wk[w].op \in Ops
        /\ wk'[w].op = wk[w].op /\ wk'[w].rev = wk[w].rev /\ wk'[w].gen = wk[w].gen

(* Nobody gains the right to publish in a step that gives no lease. *)
LEMMA MayKeep ==
    ASSUME LeaseParts, NoNewLease, NEW w \in Workers, Fit(w)
    PROVE  MayOnlyKeep(w)
<1> SUFFICES ASSUME MayPublish(w)'
             PROVE  /\ MayPublish(w) /\ wk[w].op \in Ops
                    /\ wk'[w].op = wk[w].op /\ wk'[w].rev = wk[w].rev /\ wk'[w].gen = wk[w].gen
  BY DEF MayOnlyKeep
<1>1. wk'[w].pc \in Publishing /\ (wk'[w].pc = "commit" \/ Locked(w)')
  BY DEF MayPublish
<1>2. /\ wk[w].op \in Ops /\ wk'[w].op = wk[w].op /\ wk'[w].rev = wk[w].rev /\ wk'[w].gen = wk[w].gen
      /\ wk[w].pc \in Publishing
      /\ wk'[w].pc = "commit" => wk[w].pc = "commit" \/ Locked(w)
  BY <1>1 DEF LeaseParts, TypeOK, WorkerRows, Maybe, Fit, Publishing, Building, Unclaimed
<1>3. Locked(w)' => Locked(w)
  BY <1>2 DEF Locked, NoNewLease
<1>4. QED BY <1>1, <1>2, <1>3 DEF MayPublish

(* What keeps the leases of those who may publish keeps the invariant. *)
LEMMA LeasesKeep ==
    ASSUME LeaseParts, NoNewLease, \A w \in Workers : Fit(w),
           \A w \in Workers : MayPublish(w)' /\ MayPublish(w) /\ wk[w].op \in Ops =>
               LeaseStays(w) \/ op'[wk[w].op] = op[wk[w].op]
    PROVE  LeaseInv' /\ \A w \in Workers : MayOnlyKeep(w)
<1>1. \A w \in Workers : MayOnlyKeep(w)
  BY MayKeep
<1>2. LeaseInv'
  <2> SUFFICES ASSUME NEW w \in Workers, MayPublish(w)'
               PROVE  HasLease(w)'
    BY DEF LeaseInv
  <2>1. /\ MayPublish(w) /\ wk[w].op \in Ops
        /\ wk'[w].op = wk[w].op /\ wk'[w].rev = wk[w].rev
    BY <1>1 DEF MayOnlyKeep
  <2>2. HasLease(w)
    BY <2>1 DEF LeaseParts, LeaseInv
  <2>3. QED BY <2>1, <2>2 DEF HasLease, LeaseStays, Row
<1>3. QED BY <1>1, <1>2

(* A step that leaves the operations alone. *)
LEMMA StepKeeps ==
    ASSUME LeaseParts, TypeOK', UNCHANGED <<op, published>>, GensKeep, \A w \in Workers : Fit(w)
    PROVE  LeaseParts' /\ \A w \in Workers : MayOnlyKeep(w)
<1>1. OpsKeep
  <2>1. \A o \in Ops : op[o].rev \in Nat
    BY DEF LeaseParts, TypeOK, OpRows
  <2>2. QED BY <2>1 DEF OpsKeep
<1>2. RowInv'
  <2>1. \A o \in Ops : \A r \in op[o].gens : r.id \in Gens
    BY DEF LeaseParts, TypeOK, OpRows
  <2>2. QED BY <2>1 DEF LeaseParts, RowInv, RowOK, GensKeep
<1>3. GenOwnerInv'
  BY DEF LeaseParts, GenOwnerInv
<1>4. NoNewLease
  BY DEF NoNewLease
<1>5. LeaseInv' /\ \A w \in Workers : MayOnlyKeep(w)
  BY <1>4, LeasesKeep
<1>6. QED BY <1>1, <1>2, <1>3, <1>5, WorkersKeep DEF LeaseParts

(* A step that changes operations, but not the generations they started. *)
LEMMA EditKeeps ==
    ASSUME LeaseParts, TypeOK', RowInv', OpsKeep, NoNewLease,
           \A o \in Ops : op'[o].gens = op[o].gens,
           \A w \in Workers : Fit(w),
           \A w \in Workers : MayPublish(w)' /\ MayPublish(w) /\ wk[w].op \in Ops =>
               LeaseStays(w) \/ op'[wk[w].op] = op[wk[w].op]
    PROVE  LeaseParts' /\ \A w \in Workers : MayOnlyKeep(w)
<1>1. GenOwnerInv'
  BY DEF LeaseParts, GenOwnerInv
<1>2. LeaseInv' /\ \A w \in Workers : MayOnlyKeep(w)
  BY LeasesKeep
<1>3. QED BY <1>1, <1>2, WorkersKeep DEF LeaseParts

(* A row that is written alone. *)
LEMMA RowWritten ==
    ASSUME LeaseParts, GensKeep, NEW o \in Ops, RowOK(o)',
           \A x \in Ops \ {o} : op'[x] = op[x] /\ published'[x] = published[x]
    PROVE  RowInv'
<1> SUFFICES ASSUME NEW x \in Ops, x # o PROVE RowOK(x)'
  BY DEF RowInv
<1>1. op'[x] = op[x] /\ published'[x] = published[x] /\ RowOK(x)
  BY DEF LeaseParts, RowInv
<1>2. \A r \in op[x].gens : r.id \in Gens
  BY DEF LeaseParts, TypeOK, OpRows
<1>3. QED BY <1>1, <1>2 DEF RowOK, GensKeep

-----------------------------------------------------------------------------
(* Requests *)

(* What NewOperation writes. *)
LEMMA NewOperationRow ==
    ASSUME TypeOK, NEW kind \in Kinds, NEW s \in Maybe(Skills), NEW v \in Maybe(Versions),
           kind = "activate" => s \in Skills
    PROVE  LET row == NewOperation(kind, s, v) IN
           /\ row \in OpRows
           /\ row.kind = kind /\ row.skill = s /\ row.ver = v /\ row.activate = (kind = "activate")
           /\ row.state = "pending" /\ row.phase = "sealed" /\ row.rev = 1
           /\ row.lease = FALSE /\ row.done = FALSE /\ row.gens = {}
<1>1. skill[s].rev \in Nat \/ kind # "activate"
  BY DEF TypeOK, SkillRows
<1>2. NewOperation(kind, s, v) \in OpRows
  BY <1>1 DEF NewOperation, NoOp, OpRows, OpStates, Maybe
<1>3. QED BY <1>2 DEF NewOperation, NoOp

(* A new operation has no worker. *)
LEMMA OperationAdded ==
    ASSUME LeaseParts, TypeOK', GensKeep, UNCHANGED <<wk, published>>,
           NEW o \in Ops, op[o].state = "new",
           \A x \in Ops : x # o => op'[x] = op[x],
           op'[o].state = "pending", op'[o].done = FALSE, op'[o].gens = {}, op'[o].lease = FALSE,
           op'[o].phase = "staging" => op'[o].kind = "install",
           op'[o].kind \in {"install", "delete_version"} => op'[o].ver \in Versions,
           op'[o].activate => /\ op'[o].skill \in Skills
                              /\ op'[o].ver # None => SkillOf[op'[o].ver] = op'[o].skill
    PROVE  LeaseParts' /\ (\A w \in Workers : MayOnlyKeep(w)) /\ OpsKeep
<1>1. \A x \in Ops : x # o => op'[x] = op[x]
  OBVIOUS
<1>2. published'[o] = 0 /\ op[o].gens = {}
  BY DEF LeaseParts, RowInv, RowOK
<1>3. RowInv'
  <2>1. RowOK(o)'
    BY <1>1, <1>2 DEF RowOK
  <2>2. QED BY <1>1, <2>1, RowWritten
<1>4. OpsKeep
  <2>1. \A x \in Ops : op[x].rev \in Nat
    BY DEF LeaseParts, TypeOK, OpRows
  <2>2. QED BY <1>1, <2>1 DEF OpsKeep
<1>5. NoNewLease
  BY <1>1 DEF NoNewLease
<1>6. \A x \in Ops : op'[x].gens = op[x].gens
  BY <1>1, <1>2
<1>7. \A w \in Workers : Fit(w)
  BY StillFits DEF LeaseParts
<1>8. \A w \in Workers : wk[w].op \in Ops => op'[wk[w].op] = op[wk[w].op]
  <2>1. \A w \in Workers : wk[w].op \in Ops => wk[w].op # o
    BY SkillAssumption DEF LeaseParts, WorkerInv, WorkerOK, Row
  <2>2. QED BY <1>1, <2>1
<1>9. QED BY <1>1, <1>3, <1>4, <1>5, <1>6, <1>7, <1>8, EditKeeps

(* The space row after a request. *)
LEMMA TouchedRow ==
    ASSUME TypeOK
    PROVE  /\ Touched(space) \in Spaces
           /\ Touched(space).state = space.state /\ Touched(space).active = space.active
           /\ Touched(space).rev = space.rev + 1
  BY DEF TypeOK, Touched, Spaces

(* Nothing but operations and assets changes in a request. *)
LEMMA RequestFrame ==
    ASSUME LeaseParts, UNCHANGED workerVars, space' \in Spaces, skill' \in [Skills -> SkillRows],
           version' \in [Versions -> VersionStates], files' \subseteq Versions,
           op' \in [Ops -> OpRows]
    PROVE  TypeOK' /\ GensKeep /\ UNCHANGED <<wk, published>>
<1>1. TypeOK' /\ UNCHANGED <<wk, published>>
  BY DEF LeaseParts, TypeOK, workerVars
<1>2. GensKeep
  BY DEF GensKeep, workerVars
<1>3. QED BY <1>1, <1>2

(* What is known after an operation on s and v is registered. *)
Registered(o, kind, s, v) ==
    /\ op'[o].kind = kind /\ op'[o].skill = s /\ op'[o].ver = v
    /\ op'[o].state = "pending" /\ op'[o].lease = FALSE
    /\ \A x \in Ops : x # o => op'[x] = op[x]

(* Registering an operation takes no lease away and gives none. *)
LEMMA RegisterKeeps ==
    ASSUME LeaseParts, NEW o \in Ops, op[o].state = "new",
           NEW kind \in Kinds, NEW s \in Maybe(Skills), NEW v \in Maybe(Versions),
           kind = "activate" => s \in Skills /\ (v # None => SkillOf[v] = s),
           kind \in {"install", "delete_version"} => v \in Versions,
           op' = [op EXCEPT ![o] = NewOperation(kind, s, v)],
           UNCHANGED workerVars, space' \in Spaces, skill' \in [Skills -> SkillRows],
           version' \in [Versions -> VersionStates], files' \subseteq Versions
    PROVE  /\ LeaseParts' /\ (\A w \in Workers : MayOnlyKeep(w)) /\ OpsKeep
           /\ Registered(o, kind, s, v) /\ op'[o].phase = "sealed"
<1>1. LET row == NewOperation(kind, s, v) IN
        /\ row \in OpRows
        /\ row.kind = kind /\ row.skill = s /\ row.ver = v /\ row.activate = (kind = "activate")
        /\ row.state = "pending" /\ row.phase = "sealed" /\ row.rev = 1
        /\ row.lease = FALSE /\ row.done = FALSE /\ row.gens = {}
  BY NewOperationRow, ZenonT(30) DEF LeaseParts
<1>2. op'[o] = NewOperation(kind, s, v) /\ \A x \in Ops : x # o => op'[x] = op[x]
  BY DEF LeaseParts, TypeOK
<1>3. op' \in [Ops -> OpRows]
  BY <1>1 DEF LeaseParts, TypeOK
<1>4. TypeOK' /\ GensKeep /\ UNCHANGED <<wk, published>>
  BY <1>3, RequestFrame
<1>5. /\ op'[o].kind = kind /\ op'[o].skill = s /\ op'[o].ver = v
      /\ op'[o].activate = (kind = "activate")
      /\ op'[o].state = "pending" /\ op'[o].phase = "sealed"
      /\ op'[o].lease = FALSE /\ op'[o].done = FALSE /\ op'[o].gens = {}
  BY <1>1, <1>2
<1>6. LeaseParts' /\ (\A w \in Workers : MayOnlyKeep(w)) /\ OpsKeep
  BY <1>2, <1>4, <1>5, OperationAdded
<1>7. QED BY <1>2, <1>5, <1>6 DEF Registered

(* A request for an activation keeps the leases. *)
LEMMA RegisterActivateLeases ==
    ASSUME LeaseParts, NEW o \in Ops, NEW s \in Skills, NEW v \in Maybe(Of(s)),
           RegisterActivate(o, s, v)
    PROVE  /\ LeaseParts' /\ (\A w \in Workers : MayOnlyKeep(w)) /\ OpsKeep
           /\ Registered(o, "activate", s, v) /\ op'[o].phase = "sealed"
<1>1. v \in Maybe(Versions) /\ (v # None => SkillOf[v] = s)
  BY DEF Of, Maybe
<1>2. "activate" \in Kinds /\ s \in Maybe(Skills)
  BY DEF Kinds, Maybe
<1>3. space' \in Spaces
  BY TouchedRow DEF LeaseParts, RegisterActivate
<1>4. QED BY <1>1, <1>2, <1>3, RegisterKeeps DEF LeaseParts, TypeOK, RegisterActivate

(* A request for a new index keeps the leases. *)
LEMMA RegisterReindexLeases ==
    ASSUME LeaseParts, NEW o \in Ops, RegisterReindex(o)
    PROVE  /\ LeaseParts' /\ (\A w \in Workers : MayOnlyKeep(w)) /\ OpsKeep
           /\ Registered(o, "reindex", None, None) /\ op'[o].phase = "sealed"
<1>1. "reindex" \in Kinds /\ None \in Maybe(Skills) /\ None \in Maybe(Versions)
  BY DEF Kinds, Maybe
<1>2. space' \in Spaces
  BY TouchedRow DEF LeaseParts, RegisterReindex
<1>3. QED BY <1>1, <1>2, RegisterKeeps DEF LeaseParts, TypeOK, RegisterReindex

(* A request to delete a version keeps the leases. *)
LEMMA RegisterDeleteVersionLeases ==
    ASSUME LeaseParts, NEW o \in Ops, NEW v \in Versions, RegisterDeleteVersion(o, v)
    PROVE  /\ LeaseParts' /\ (\A w \in Workers : MayOnlyKeep(w)) /\ OpsKeep
           /\ Registered(o, "delete_version", SkillOf[v], v) /\ op'[o].phase = "sealed"
<1>1. PICK s \in Skills : s = SkillOf[v]
  BY SkillAssumption
<1>2. "delete_version" \in Kinds /\ s \in Maybe(Skills) /\ v \in Maybe(Versions)
  BY DEF Kinds, DeleteKinds, Maybe
<1>3. space' \in Spaces
  BY TouchedRow DEF LeaseParts, RegisterDeleteVersion
<1>4. version' \in [Versions -> VersionStates]
  BY DEF LeaseParts, TypeOK, RegisterDeleteVersion, Deletable, VersionStates
<1>5. QED BY <1>1, <1>2, <1>3, <1>4, RegisterKeeps DEF LeaseParts, TypeOK, RegisterDeleteVersion

(* A request to delete a skill keeps the leases. *)
LEMMA RegisterDeleteSkillLeases ==
    ASSUME LeaseParts, NEW o \in Ops, NEW s \in Skills, RegisterDeleteSkill(o, s)
    PROVE  /\ LeaseParts' /\ (\A w \in Workers : MayOnlyKeep(w)) /\ OpsKeep
           /\ Registered(o, "delete_skill", s, None) /\ op'[o].phase = "sealed"
<1>1. "delete_skill" \in Kinds /\ s \in Maybe(Skills) /\ None \in Maybe(Versions)
  BY DEF Kinds, DeleteKinds, Maybe
<1>2. space' \in Spaces
  BY TouchedRow DEF LeaseParts, RegisterDeleteSkill
<1>3. skill' \in [Skills -> SkillRows]
  BY DEF LeaseParts, TypeOK, RegisterDeleteSkill, Deletable, SkillRows, AssetStates
<1>4. QED BY <1>1, <1>2, <1>3, RegisterKeeps DEF LeaseParts, TypeOK, RegisterDeleteSkill

(* A request to delete the space keeps the leases, and takes the space out *)
(* of use.                                                                 *)
LEMMA RegisterDeleteSpaceLeases ==
    ASSUME LeaseParts, NEW o \in Ops, RegisterDeleteSpace(o)
    PROVE  /\ LeaseParts' /\ (\A w \in Workers : MayOnlyKeep(w)) /\ OpsKeep
           /\ Registered(o, "delete_space", None, None) /\ op'[o].phase = "sealed"
           /\ space'.state = "deleting" /\ space'.active = space.active
           /\ space'.rev = space.rev + 1
<1>1. "delete_space" \in Kinds /\ None \in Maybe(Skills) /\ None \in Maybe(Versions)
  BY DEF Kinds, DeleteKinds, Maybe
<1>2. ASSUME NEW sp \in Spaces
      PROVE  /\ [sp EXCEPT !.state = "deleting"] \in Spaces
             /\ [sp EXCEPT !.state = "deleting"].state = "deleting"
             /\ [sp EXCEPT !.state = "deleting"].active = sp.active
             /\ [sp EXCEPT !.state = "deleting"].rev = sp.rev
  BY DEF Spaces, AssetStates
<1>3. /\ space' \in Spaces /\ space'.state = "deleting" /\ space'.active = space.active
      /\ space'.rev = space.rev + 1
  BY <1>2, TouchedRow DEF LeaseParts, RegisterDeleteSpace
<1>4. QED BY <1>1, <1>3, RegisterKeeps DEF LeaseParts, TypeOK, RegisterDeleteSpace

(* Staging a package registers an installation that no worker may claim    *)
(* yet.                                                                    *)
LEMMA StagePackageLeases ==
    ASSUME LeaseParts, NEW o \in Ops, NEW v \in Versions, NEW activate \in BOOLEAN,
           StagePackage(o, v, activate)
    PROVE  /\ LeaseParts' /\ (\A w \in Workers : MayOnlyKeep(w)) /\ OpsKeep
           /\ Registered(o, "install", SkillOf[v], v) /\ op'[o].phase = "staging"
<1>1. PICK s \in Skills : s = SkillOf[v]
  BY SkillAssumption
<1>2. "install" \in Kinds /\ s \in Maybe(Skills) /\ v \in Maybe(Versions)
  BY DEF Kinds, Maybe
<1>3. LET row == NewOperation("install", s, v) IN
        /\ row \in OpRows
        /\ row.kind = "install" /\ row.skill = s /\ row.ver = v
        /\ row.state = "pending" /\ row.lease = FALSE /\ row.done = FALSE /\ row.gens = {}
  <2>1. PICK kind \in Kinds : kind = "install"
    BY <1>2
  <2>2. TypeOK /\ (kind = "activate" => s \in Skills)
    BY DEF LeaseParts
  <2>3. LET row == NewOperation(kind, s, v) IN
        /\ row \in OpRows
        /\ row.kind = kind /\ row.skill = s /\ row.ver = v /\ row.activate = (kind = "activate")
        /\ row.state = "pending" /\ row.phase = "sealed" /\ row.rev = 1
        /\ row.lease = FALSE /\ row.done = FALSE /\ row.gens = {}
    BY <1>2, <2>2, NewOperationRow, ZenonT(30)
  <2>4. QED BY <2>1, <2>3
<1>4. ASSUME NEW r \in OpRows
      PROVE  LET row == [r EXCEPT !.phase = "staging", !.activate = activate] IN
             /\ row \in OpRows /\ row.phase = "staging" /\ row.activate = activate
             /\ row.kind = r.kind /\ row.skill = r.skill /\ row.ver = r.ver
             /\ row.state = r.state /\ row.lease = r.lease /\ row.done = r.done /\ row.gens = r.gens
  BY DEF OpRows
<1>5. op' = [op EXCEPT ![o] = [NewOperation("install", s, v) EXCEPT
                                 !.phase = "staging", !.activate = activate]]
  BY <1>1 DEF StagePackage
<1>6. op' \in [Ops -> OpRows]
  BY <1>3, <1>4, <1>5 DEF LeaseParts, TypeOK
<1>7. /\ op'[o] = [NewOperation("install", s, v) EXCEPT !.phase = "staging", !.activate = activate]
      /\ \A x \in Ops : x # o => op'[x] = op[x]
  BY <1>5 DEF LeaseParts, TypeOK
<1>8. /\ op'[o].phase = "staging" /\ op'[o].kind = "install" /\ op'[o].skill = s /\ op'[o].ver = v
      /\ op'[o].state = "pending" /\ op'[o].lease = FALSE /\ op'[o].done = FALSE /\ op'[o].gens = {}
  BY <1>3, <1>4, <1>7
<1>9. space' \in Spaces
  BY TouchedRow DEF LeaseParts, StagePackage
<1>10. version' \in [Versions -> VersionStates] /\ files' \subseteq Versions
  BY DEF LeaseParts, TypeOK, StagePackage, VersionStates
<1>11. TypeOK' /\ GensKeep /\ UNCHANGED <<wk, published>>
  BY <1>6, <1>9, <1>10, RequestFrame DEF LeaseParts, TypeOK, StagePackage
<1>12. op[o].state = "new"
  BY DEF StagePackage
<1>13. LeaseParts' /\ (\A w \in Workers : MayOnlyKeep(w)) /\ OpsKeep
  <2>1. op'[o].skill \in Skills /\ SkillOf[op'[o].ver] = op'[o].skill
    BY <1>1, <1>8
  <2>2. QED BY <1>7, <1>8, <1>11, <1>12, <2>1, OperationAdded
<1>14. QED BY <1>1, <1>7, <1>8, <1>13 DEF Registered

-----------------------------------------------------------------------------
(* Steps that change the lease or the state of one operation *)

(* The row of o is written; what it is about and what it did stay. *)
Edited(o) ==
    /\ op' \in [Ops -> OpRows]
    /\ op'[o].kind = op[o].kind /\ op'[o].skill = op[o].skill /\ op'[o].ver = op[o].ver
    /\ op'[o].activate = op[o].activate /\ op'[o].done = op[o].done /\ op'[o].gens = op[o].gens
    /\ \A x \in Ops : x # o => op'[x] = op[x]

(* Writing the state or the phase of a row keeps the leases if it spares   *)
(* the lease of whoever may still publish for it.                          *)
LEMMA EditedKeeps ==
    ASSUME LeaseParts, TypeOK', GensKeep, UNCHANGED published, NEW o \in Ops, Edited(o),
           op[o].state # "new", op'[o].state # "new", op[o].rev <= op'[o].rev,
           op'[o].lease => op'[o].state = "running"
                             /\ op[o].state = "running" /\ op[o].lease
                             /\ op'[o].owner = op[o].owner /\ op'[o].rev = op[o].rev,
           op'[o].phase = "staging" => op'[o].kind = "install" /\ op'[o].state \in {"pending", "failed"},
           \A w \in Workers : Fit(w),
           \A w \in Workers : wk[w].op = o /\ MayPublish(w)' /\ MayPublish(w) => LeaseStays(w)
    PROVE  LeaseParts' /\ (\A w \in Workers : MayOnlyKeep(w)) /\ OpsKeep
<1>1. \A x \in Ops : op[x].rev \in Nat /\ op'[x].rev \in Nat
  BY DEF LeaseParts, TypeOK, OpRows
<1>2. RowInv'
  <2>1. RowOK(o) /\ published'[o] = published[o]
    BY DEF LeaseParts, RowInv
  <2>2. \A r \in op[o].gens : r.id \in Gens /\ r.rev \in Nat
    BY DEF LeaseParts, TypeOK, OpRows
  <2>3. \A r \in op'[o].gens : r.rev <= op'[o].rev /\ gen'[r.id].state # "new"
    BY <1>1, <2>1, <2>2 DEF RowOK, GensKeep, Edited
  <2>4. RowOK(o)'
    BY <2>1, <2>3 DEF RowOK, Edited
  <2>5. QED BY <2>4, RowWritten DEF Edited
<1>3. OpsKeep
  BY <1>1 DEF OpsKeep, Edited
<1>4. NoNewLease
  BY DEF NoNewLease, Edited
<1>5. \A x \in Ops : op'[x].gens = op[x].gens
  BY DEF Edited
<1>6. \A w \in Workers : MayPublish(w)' /\ MayPublish(w) /\ wk[w].op \in Ops =>
        LeaseStays(w) \/ op'[wk[w].op] = op[wk[w].op]
  BY DEF Edited
<1>7. QED BY <1>2, <1>3, <1>4, <1>5, <1>6, EditKeeps

(* Nobody may publish for an operation that is not running. *)
LEMMA OnlyRunning ==
    ASSUME LeaseParts, NEW w \in Workers, MayPublish(w)
    PROVE  /\ wk[w].op \in Ops /\ op[wk[w].op].state = "running"
           /\ op[wk[w].op].owner = w /\ op[wk[w].op].rev = wk[w].rev
<1>1. wk[w].op \in Ops
  BY DEF LeaseParts, WorkerInv, WorkerOK, TypeOK, WorkerRows, Maybe, MayPublish, Publishing,
     Unclaimed
<1>2. QED BY <1>1 DEF LeaseParts, LeaseInv, HasLease, Row

(* Sealing a package keeps the leases. *)
LEMMA SealPackageLeases ==
    ASSUME LeaseParts, NEW o \in Ops, SealPackage(o)
    PROVE  /\ LeaseParts' /\ (\A w \in Workers : MayOnlyKeep(w)) /\ OpsKeep
           /\ Edited(o) /\ op'[o].state = "pending" /\ op'[o].phase = "sealed"
<1>1. op[o].state = "pending" /\ op' = [op EXCEPT ![o] = [op[o] EXCEPT !.phase = "sealed"]]
  BY DEF SealPackage, Staging, LeaseParts, TypeOK
<1>2. ASSUME NEW r \in OpRows
      PROVE  LET row == [r EXCEPT !.phase = "sealed"] IN
             /\ row \in OpRows /\ row.phase = "sealed"
             /\ row.kind = r.kind /\ row.skill = r.skill /\ row.ver = r.ver
             /\ row.activate = r.activate /\ row.done = r.done /\ row.gens = r.gens
             /\ row.state = r.state /\ row.lease = r.lease /\ row.rev = r.rev
  BY DEF OpRows
<1>3. op[o] \in OpRows /\ op \in [Ops -> OpRows] /\ op[o].rev \in Nat
  BY DEF LeaseParts, TypeOK, OpRows
<1>4. Edited(o)
  BY <1>1, <1>2, <1>3 DEF Edited
<1>5. /\ op'[o].state = "pending" /\ op'[o].phase = "sealed" /\ op'[o].lease = op[o].lease
      /\ op'[o].rev = op[o].rev
  BY <1>1, <1>2, <1>3
<1>6. op[o].lease = FALSE
  BY <1>1, <1>3 DEF LeaseParts, RowInv, RowOK, OpRows
<1>7. TypeOK' /\ GensKeep /\ UNCHANGED <<wk, published>>
  BY <1>4, RequestFrame DEF LeaseParts, TypeOK, SealPackage, Edited
<1>8. \A w \in Workers : Fit(w)
  BY <1>7, StillFits DEF LeaseParts
<1>9. \A w \in Workers : wk[w].op = o => ~MayPublish(w)
  BY <1>1, OnlyRunning
<1>10. op[o].rev <= op'[o].rev
  BY <1>3, <1>5
<1>11. LeaseParts' /\ (\A w \in Workers : MayOnlyKeep(w)) /\ OpsKeep
  BY <1>1, <1>4, <1>5, <1>6, <1>7, <1>8, <1>9, <1>10, EditedKeeps
<1>12. QED BY <1>4, <1>5, <1>11

(* A failed upload keeps the leases. *)
LEMMA UploadFailsLeases ==
    ASSUME LeaseParts, NEW o \in Ops, UploadFails(o)
    PROVE  /\ LeaseParts' /\ (\A w \in Workers : MayOnlyKeep(w)) /\ OpsKeep
           /\ Edited(o) /\ op'[o].state = "failed" /\ op'[o].phase = "staging"
<1>1. /\ op[o].state = "pending" /\ op[o].phase = "staging"
      /\ op' = [op EXCEPT ![o] = [op[o] EXCEPT !.state = "failed"]]
  BY DEF UploadFails, Staging, LeaseParts, TypeOK
<1>2. ASSUME NEW r \in OpRows
      PROVE  LET row == [r EXCEPT !.state = "failed"] IN
             /\ row \in OpRows /\ row.state = "failed"
             /\ row.kind = r.kind /\ row.skill = r.skill /\ row.ver = r.ver
             /\ row.activate = r.activate /\ row.done = r.done /\ row.gens = r.gens
             /\ row.phase = r.phase /\ row.lease = r.lease /\ row.rev = r.rev
  BY DEF OpRows, OpStates
<1>3. op[o] \in OpRows /\ op \in [Ops -> OpRows] /\ op[o].rev \in Nat
  BY DEF LeaseParts, TypeOK, OpRows
<1>4. Edited(o)
  BY <1>1, <1>2, <1>3 DEF Edited
<1>5. /\ op'[o].state = "failed" /\ op'[o].phase = "staging" /\ op'[o].lease = op[o].lease
      /\ op'[o].rev = op[o].rev
  BY <1>1, <1>2, <1>3
<1>6. op[o].lease = FALSE /\ op[o].kind = "install"
  BY <1>1, <1>3 DEF LeaseParts, RowInv, RowOK, OpRows
<1>7. version' \in [Versions -> VersionStates]
  BY DEF LeaseParts, TypeOK, UploadFails, VersionStates
<1>8. TypeOK' /\ GensKeep /\ UNCHANGED <<wk, published>>
  BY <1>4, <1>7, RequestFrame DEF LeaseParts, TypeOK, UploadFails, Edited
<1>9. \A w \in Workers : Fit(w)
  BY <1>8, StillFits DEF LeaseParts
<1>10. \A w \in Workers : wk[w].op = o => ~MayPublish(w)
  BY <1>1, OnlyRunning
<1>11. op[o].rev <= op'[o].rev /\ op'[o].kind = "install"
  BY <1>3, <1>4, <1>5, <1>6 DEF Edited
<1>12. LeaseParts' /\ (\A w \in Workers : MayOnlyKeep(w)) /\ OpsKeep
  BY <1>1, <1>4, <1>5, <1>6, <1>8, <1>9, <1>10, <1>11, EditedKeeps
<1>13. QED BY <1>4, <1>5, <1>12

(* Trouble is counted. *)
LEMMA TroubleCounts ==
    ASSUME TypeOK, Trouble
    PROVE  trouble' \in Nat
BY DEF TypeOK, Trouble

(* Editing the space keeps the leases; it counts as a change of the space. *)
LEMMA EditSpaceLeases ==
    ASSUME LeaseParts, EditSpace
    PROVE  /\ LeaseParts' /\ (\A w \in Workers : MayOnlyKeep(w))
           /\ space'.state = space.state /\ space'.active = space.active
           /\ space'.rev = space.rev + 1
<1>1. PICK embed \in BOOLEAN : space' = [Touched(space) EXCEPT !.embed = embed]
  BY DEF EditSpace
<1>2. ASSUME NEW sp \in Spaces
      PROVE  LET row == [sp EXCEPT !.embed = embed] IN
             row \in Spaces /\ row.state = sp.state /\ row.active = sp.active /\ row.rev = sp.rev
  BY DEF Spaces
<1>3. /\ space' \in Spaces /\ space'.state = space.state /\ space'.active = space.active
      /\ space'.rev = space.rev + 1
  BY <1>1, <1>2, TouchedRow DEF LeaseParts
<1>4. TypeOK'
  BY <1>3, TroubleCounts DEF LeaseParts, TypeOK, EditSpace
<1>5. GensKeep /\ UNCHANGED <<op, published>> /\ \A w \in Workers : Fit(w)
  BY StillFits DEF EditSpace, GensKeep, LeaseParts
<1>6. QED BY <1>3, <1>4, <1>5, StepKeeps

(* A retry goes to operations that failed, and these have no lease. *)
LEMMA RetryLeases ==
    ASSUME LeaseParts, NEW o \in Ops, Retry(o)
    PROVE  /\ LeaseParts' /\ (\A w \in Workers : MayOnlyKeep(w)) /\ OpsKeep
           /\ Edited(o) /\ op'[o].state = "pending" /\ op'[o].phase = op[o].phase
<1> PICK n \in Nat : n = op[o].rev + 1
  BY DEF LeaseParts, TypeOK, OpRows
<1>1. /\ op[o].state = "failed" /\ op[o].phase # "staging"
      /\ op' = [op EXCEPT ![o] = [op[o] EXCEPT !.state = "pending", !.owner = None, !.lease = FALSE,
                                               !.rev = n]]
  BY DEF Retry, LeaseParts, TypeOK
<1>2. ASSUME NEW r \in OpRows
      PROVE  LET row == [r EXCEPT !.state = "pending", !.owner = None, !.lease = FALSE, !.rev = n] IN
             /\ row \in OpRows /\ row.state = "pending" /\ row.lease = FALSE /\ row.rev = n
             /\ row.kind = r.kind /\ row.skill = r.skill /\ row.ver = r.ver
             /\ row.activate = r.activate /\ row.done = r.done /\ row.gens = r.gens
             /\ row.phase = r.phase
  BY DEF OpRows, OpStates, Maybe
<1>3. op[o] \in OpRows /\ op \in [Ops -> OpRows] /\ op[o].rev \in Nat
  BY DEF LeaseParts, TypeOK, OpRows
<1>4. Edited(o)
  BY <1>1, <1>2, <1>3 DEF Edited
<1>5. /\ op'[o].state = "pending" /\ op'[o].phase = op[o].phase /\ op'[o].lease = FALSE
      /\ op'[o].rev = n
  BY <1>1, <1>2, <1>3
<1>6. TypeOK'
  BY <1>4, TroubleCounts DEF LeaseParts, TypeOK, Retry, Edited
<1>7. GensKeep /\ UNCHANGED published /\ \A w \in Workers : Fit(w)
  BY StillFits DEF LeaseParts, Retry, GensKeep
<1>8. \A w \in Workers : wk[w].op = o => ~MayPublish(w)
  BY <1>1, OnlyRunning
<1>9. op[o].rev <= op'[o].rev
  BY <1>3, <1>5
<1>10. LeaseParts' /\ (\A w \in Workers : MayOnlyKeep(w)) /\ OpsKeep
  BY <1>1, <1>4, <1>5, <1>6, <1>7, <1>8, <1>9, EditedKeeps
<1>11. QED BY <1>4, <1>5, <1>10

-----------------------------------------------------------------------------
(* Steps on leases *)

(* The end of a lease takes the right to publish from one worker, except   *)
(* in a transaction that has checked the lease.                            *)
LEMMA LeaseEndsLeases ==
    ASSUME LeaseParts, NEW o \in Ops, LeaseEnds(o), trouble' \in Nat
    PROVE  /\ LeaseParts' /\ (\A w \in Workers : MayOnlyKeep(w)) /\ OpsKeep
           /\ Edited(o) /\ op'[o].state = op[o].state /\ op'[o].phase = op[o].phase
<1>1. op[o].lease /\ op' = [op EXCEPT ![o] = [op[o] EXCEPT !.lease = FALSE]]
  BY DEF LeaseEnds, LeaseParts, TypeOK
<1>2. ASSUME NEW r \in OpRows
      PROVE  LET row == [r EXCEPT !.lease = FALSE] IN
             /\ row \in OpRows /\ row.lease = FALSE
             /\ row.kind = r.kind /\ row.skill = r.skill /\ row.ver = r.ver
             /\ row.activate = r.activate /\ row.done = r.done /\ row.gens = r.gens
             /\ row.phase = r.phase /\ row.state = r.state /\ row.rev = r.rev /\ row.owner = r.owner
  BY DEF OpRows
<1>3. op[o] \in OpRows /\ op \in [Ops -> OpRows] /\ op[o].rev \in Nat
  BY DEF LeaseParts, TypeOK, OpRows
<1>4. Edited(o)
  BY <1>1, <1>2, <1>3 DEF Edited
<1>5. /\ op'[o].state = op[o].state /\ op'[o].phase = op[o].phase /\ op'[o].lease = FALSE
      /\ op'[o].rev = op[o].rev /\ op'[o].owner = op[o].owner
  BY <1>1, <1>2, <1>3
<1>6. op[o].state = "running" /\ op[o].phase # "staging"
  BY <1>1 DEF LeaseParts, RowInv, RowOK
<1>7. TypeOK'
  BY <1>4 DEF LeaseParts, TypeOK, LeaseEnds, assetVars, Edited
<1>8. GensKeep /\ UNCHANGED <<wk, published>> /\ \A w \in Workers : Fit(w)
  BY StillFits DEF LeaseParts, LeaseEnds, GensKeep
<1>9. ASSUME NEW w \in Workers, wk[w].op = o, MayPublish(w)', MayPublish(w)
      PROVE  LeaseStays(w)
  <2>1. HasLease(w)
    BY <1>9 DEF LeaseParts, LeaseInv
  <2>2. QED BY <1>4, <1>5, <1>9, <2>1 DEF LeaseStays, HasLease, Row, Edited
<1>10. op[o].rev <= op'[o].rev
  BY <1>3, <1>5
<1>11. LeaseParts' /\ (\A w \in Workers : MayOnlyKeep(w)) /\ OpsKeep
  BY <1>4, <1>5, <1>6, <1>7, <1>8, <1>9, <1>10, EditedKeeps
<1>12. QED BY <1>4, <1>5, <1>11

(* A late heartbeat keeps the leases of the others. *)
LEMMA HeartbeatLateLeases ==
    ASSUME LeaseParts, NEW o \in Ops, HeartbeatLate(o)
    PROVE  /\ LeaseParts' /\ (\A w \in Workers : MayOnlyKeep(w)) /\ OpsKeep
           /\ Edited(o) /\ op'[o].state = op[o].state /\ op'[o].phase = op[o].phase
<1>1. trouble' \in Nat
  BY TroubleCounts DEF LeaseParts, HeartbeatLate
<1>2. QED BY <1>1, LeaseEndsLeases DEF HeartbeatLate

(* The end of a lease of a worker that is gone takes the right to publish  *)
(* from nobody.                                                            *)
LEMMA AbandonedLeaseEndsLeases ==
    ASSUME LeaseParts, NEW o \in Ops, AbandonedLeaseEnds(o)
    PROVE  /\ LeaseParts' /\ (\A w \in Workers : MayOnlyKeep(w)) /\ OpsKeep
           /\ Edited(o) /\ op'[o].state = op[o].state /\ op'[o].phase = op[o].phase
<1>1. trouble' \in Nat
  BY DEF LeaseParts, TypeOK, AbandonedLeaseEnds
<1>2. QED BY <1>1, LeaseEndsLeases DEF AbandonedLeaseEnds

(* A claim raises the revision of the row, so that the worker that had it  *)
(* before may not publish any more.                                        *)
LEMMA ClaimLeases ==
    ASSUME LeaseParts, NEW w \in Workers, NEW o \in Ops, Claim(w, o)
    PROVE  /\ LeaseParts' /\ (\A x \in Workers : MayOnlyKeep(x)) /\ OpsKeep
           /\ Edited(o) /\ op'[o].state = "running" /\ op'[o].phase = op[o].phase
           /\ op[o].state # "new" /\ op[o].phase # "staging"
           /\ Others(w) /\ wk'[w].pc \in {"install", "remove", "publish"} /\ wk'[w].op = o
           /\ wk'[w].gen = None
<1> PICK n \in Nat : n = op[o].rev + 1
  BY DEF LeaseParts, TypeOK, OpRows
<1> PICK pc \in {"install", "remove", "publish"} : pc = Begin(op[o].kind)
  BY DEF Begin
<1>1. /\ op[o].state \in {"pending", "running"} /\ op[o].phase # "staging"
      /\ op' = [op EXCEPT ![o] = [op[o] EXCEPT !.state = "running", !.rev = n, !.owner = w,
                                               !.lease = TRUE]]
      /\ \A x \in Workers : wk[x].op = o => wk[x].pc # "commit"
      /\ wk[w].pc = "idle"
  BY DEF Claim, Claimable, At, LeaseParts, TypeOK
<1>2. ASSUME NEW r \in OpRows
      PROVE  LET row == [r EXCEPT !.state = "running", !.rev = n, !.owner = w, !.lease = TRUE] IN
             /\ row \in OpRows /\ row.state = "running" /\ row.rev = n
             /\ row.kind = r.kind /\ row.skill = r.skill /\ row.ver = r.ver
             /\ row.activate = r.activate /\ row.done = r.done /\ row.gens = r.gens
             /\ row.phase = r.phase
  BY DEF OpRows, OpStates, Maybe
<1>3. op[o] \in OpRows /\ op \in [Ops -> OpRows] /\ op[o].rev \in Nat
  BY DEF LeaseParts, TypeOK, OpRows
<1>4. Edited(o)
  BY <1>1, <1>2, <1>3 DEF Edited
<1>5. op'[o].state = "running" /\ op'[o].phase = op[o].phase /\ op'[o].rev = n
  BY <1>1, <1>2, <1>3
<1>6. /\ wk' \in [Workers -> WorkerRows] /\ Others(w)
      /\ wk'[w].pc = pc /\ wk'[w].op = o /\ wk'[w].rev = n /\ wk'[w].gen = None
  <2>1. wk' = [wk EXCEPT ![w] = [IdleWorker EXCEPT !.pc = pc, !.op = o, !.rev = n]]
    BY DEF Claim
  <2>2. LET r == [IdleWorker EXCEPT !.pc = pc, !.op = o, !.rev = n] IN
        r \in WorkerRows /\ r.pc = pc /\ r.op = o /\ r.rev = n /\ r.gen = None
    BY DEF IdleWorker, WorkerRows, Pcs, Maybe
  <2>3. QED BY <2>1, <2>2 DEF LeaseParts, TypeOK, Others
<1>7. TypeOK'
  BY <1>4, <1>6 DEF LeaseParts, TypeOK, Claim, assetVars, Edited
<1>8. GensKeep /\ UNCHANGED published
  BY DEF Claim, GensKeep
<1>9. \A x \in Ops : op[x].rev \in Nat /\ op'[x].rev \in Nat
  BY <1>7 DEF LeaseParts, TypeOK, OpRows
<1>10. RowInv'
  <2>1. RowOK(o) /\ published'[o] = published[o]
    BY <1>8 DEF LeaseParts, RowInv
  <2>2. \A r \in op[o].gens : r.id \in Gens /\ r.rev \in Nat
    BY DEF LeaseParts, TypeOK, OpRows
  <2>3. \A r \in op'[o].gens : r.rev <= op'[o].rev /\ gen'[r.id].state # "new"
    BY <1>3, <1>4, <1>5, <1>8, <2>1, <2>2 DEF RowOK, GensKeep, Edited
  <2>4. RowOK(o)'
    BY <1>1, <1>4, <1>5, <2>1, <2>3 DEF RowOK, Edited
  <2>5. QED BY <1>4, <1>8, <2>4, RowWritten DEF Edited
<1>11. OpsKeep
  BY <1>1, <1>3, <1>4, <1>5, <1>9 DEF OpsKeep, Edited
<1>12. GenOwnerInv'
  BY <1>4 DEF LeaseParts, GenOwnerInv, Edited
<1>13. \A x \in Workers : wk[x].op = o => wk[x].rev \in Nat /\ wk[x].rev < n
  <2>1. \A x \in Workers : wk[x].rev \in Nat
    BY DEF LeaseParts, TypeOK, WorkerRows
  <2>2. \A x \in Workers : wk[x].op = o => wk[x].rev <= op[o].rev
    BY SkillAssumption DEF LeaseParts, WorkerInv, WorkerOK, Row
  <2>3. QED BY <1>3, <2>1, <2>2
<1>14. WorkerInv'
  <2>1. \A x \in Workers : x # w => WorkerOK(x)'
    BY <1>6, <1>7, <1>11, StillFits, WorkerKeeps DEF LeaseParts, Others
  <2>2. /\ pc = "install" => op[o].kind = "install"
        /\ pc = "remove" => op[o].kind \in DeleteKinds
    BY DEF Begin
  <2>3. WorkerOK(w)'
    <3>1. o # None /\ n <= n
      BY SkillAssumption
    <3>2. QED BY <1>4, <1>5, <1>6, <2>2, <3>1 DEF WorkerOK, Row, Unclaimed, Building,
          Publishing, RemovePcs, Edited
  <2>4. \A x \in Workers : x # w /\ wk'[x].op = o => wk'[x].rev # n
    BY <1>6, <1>13 DEF Others
  <2>5. \A x, y \in Workers :
           wk[x].op # None /\ wk[y].op = wk[x].op /\ wk[y].rev = wk[x].rev => y = x
    BY DEF LeaseParts, WorkerInv
  <2>6. \A x, y \in Workers :
           wk'[x].op # None /\ wk'[y].op = wk'[x].op /\ wk'[y].rev = wk'[x].rev => y = x
    BY <1>6, <2>4, <2>5 DEF Others
  <2>7. QED BY <2>1, <2>3, <2>6 DEF WorkerInv
<1>15. ASSUME NEW x \in Workers, MayPublish(x)'
       PROVE  /\ MayPublish(x) /\ wk[x].op \in Ops /\ wk[x].op # o /\ wk'[x] = wk[x]
              /\ op'[wk[x].op] = op[wk[x].op]
  <2>1. x # w
    BY <1>6, <1>15 DEF MayPublish, Publishing
  <2>2. wk'[x] = wk[x]
    BY <1>6, <2>1 DEF Others
  <2>3. wk[x].op \in Ops
    BY <1>15, <2>2 DEF MayPublish, Publishing, LeaseParts, TypeOK, WorkerInv, WorkerOK,
       Unclaimed, WorkerRows, Maybe
  <2>4. wk[x].op # o
    <3>1. SUFFICES ASSUME wk[x].op = o PROVE FALSE
      OBVIOUS
    <3>2. wk[x].rev # n /\ wk[x].pc # "commit"
      BY <1>1, <1>13, <3>1
    <3>3. QED BY <1>5, <1>15, <2>2, <3>1, <3>2 DEF MayPublish, Locked
  <2>5. op'[wk[x].op] = op[wk[x].op]
    BY <1>4, <2>3, <2>4 DEF Edited
  <2>6. QED BY <1>15, <2>2, <2>3, <2>4, <2>5 DEF MayPublish, Locked
<1>16. LeaseInv'
  BY <1>15 DEF LeaseParts, LeaseInv, HasLease, Row
<1>17. \A x \in Workers : MayOnlyKeep(x)
  BY <1>15 DEF MayOnlyKeep
<1>18. LeaseParts'
  BY <1>7, <1>10, <1>12, <1>14, <1>16 DEF LeaseParts
<1>19. QED BY <1>1, <1>4, <1>5, <1>6, <1>11, <1>17, <1>18

-----------------------------------------------------------------------------
(* Steps that end an operation or publish it *)

(* Closing an operation gives up its lease. *)
LEMMA CloseLeases ==
    ASSUME LeaseParts, NEW w \in Workers, NEW o \in Ops, o = wk[w].op, Locked(w),
           NEW st \in {"failed", "succeeded"},
           op' = [op EXCEPT ![o] = Closed(@, st)], Idle(w),
           UNCHANGED <<assetVars, gen, coll, threads, trouble, published>>
    PROVE  /\ LeaseParts' /\ (\A x \in Workers : MayOnlyKeep(x)) /\ OpsKeep
           /\ Edited(o) /\ op'[o].state = st /\ op'[o].phase = op[o].phase
           /\ op[o].state = "running" /\ op[o].phase # "staging"
           /\ Rested(w)
<1>1. op[o].state = "running" /\ op[o].owner = w /\ op[o].rev = wk[w].rev
  BY DEF Locked
<1>2. ASSUME NEW r \in OpRows
      PROVE  LET row == Closed(r, st) IN
             /\ row \in OpRows /\ row.state = st /\ row.lease = FALSE /\ row.rev = r.rev
             /\ row.kind = r.kind /\ row.skill = r.skill /\ row.ver = r.ver
             /\ row.activate = r.activate /\ row.done = r.done /\ row.gens = r.gens
             /\ row.phase = r.phase
  BY DEF Closed, OpRows, OpStates, Maybe
<1>3. op[o] \in OpRows /\ op \in [Ops -> OpRows] /\ op[o].rev \in Nat
  BY DEF LeaseParts, TypeOK, OpRows
<1>4. Edited(o)
  BY <1>2, <1>3 DEF Edited
<1>5. op'[o].state = st /\ op'[o].phase = op[o].phase /\ op'[o].rev = op[o].rev /\ op'[o].lease = FALSE
  BY <1>2, <1>3
<1>6. op[o].phase # "staging"
  BY <1>1 DEF LeaseParts, RowInv, RowOK
<1>7. Rested(w)
  BY IdleRests DEF LeaseParts
<1>8. TypeOK'
  BY <1>4, <1>7 DEF LeaseParts, TypeOK, assetVars, Edited, Rested
<1>9. GensKeep
  BY DEF GensKeep
<1>10. \A x \in Workers : Fit(x)
  <2>1. Fit(w)
    BY <1>7 DEF Fit, Rested, Unclaimed
  <2>2. QED BY <1>7, <2>1, StillFits DEF LeaseParts, Rested, Others
<1>11. \A x \in Workers : wk[x].op = o /\ MayPublish(x) /\ MayPublish(x)' => LeaseStays(x)
  <2>1. ~MayPublish(w)'
    BY <1>7 DEF MayPublish, Publishing, Rested
  <2>2. \A x \in Workers : wk[x].op = o /\ MayPublish(x) => x = w
    BY <1>1, OnlyRunning
  <2>3. QED BY <2>1, <2>2
<1>12. op[o].rev <= op'[o].rev
  BY <1>3, <1>5
<1>13. LeaseParts' /\ (\A x \in Workers : MayOnlyKeep(x)) /\ OpsKeep
  BY <1>1, <1>4, <1>5, <1>6, <1>8, <1>9, <1>10, <1>11, <1>12, EditedKeeps
<1>14. QED BY <1>1, <1>4, <1>5, <1>6, <1>7, <1>13

(* The operation a worker has leased. *)
LEMMA LockedRow ==
    ASSUME LeaseParts, NEW w \in Workers, Locked(w)
    PROVE  /\ wk[w].op \in Ops /\ op[wk[w].op] \in OpRows /\ Row(w) = op[wk[w].op]
           /\ Row(w).state = "running" /\ Row(w).owner = w /\ Row(w).rev = wk[w].rev
           /\ Row(w).phase # "staging" /\ RowOK(wk[w].op)
  BY DEF LeaseParts, TypeOK, WorkerRows, Maybe, Locked, Row, RowInv, RowOK

(* An operation that fails has no lease afterwards. *)
LEMMA FailLeases ==
    ASSUME LeaseParts, NEW w \in Workers, NEW o \in Ops, o = wk[w].op, Fail(w)
    PROVE  /\ LeaseParts' /\ (\A x \in Workers : MayOnlyKeep(x)) /\ OpsKeep
           /\ Edited(o) /\ op'[o].state = "failed" /\ op'[o].phase = op[o].phase
           /\ op[o].state = "running" /\ op[o].phase # "staging"
           /\ Rested(w)
  BY CloseLeases DEF Fail

(* An operation that finishes has no lease afterwards. *)
LEMMA FinishLeases ==
    ASSUME LeaseParts, NEW w \in Workers, NEW o \in Ops, o = wk[w].op, Finish(w)
    PROVE  /\ LeaseParts' /\ (\A x \in Workers : MayOnlyKeep(x)) /\ OpsKeep
           /\ Edited(o) /\ op'[o].state \in {"failed", "succeeded"} /\ op'[o].phase = op[o].phase
           /\ op[o].state = "running" /\ op[o].phase # "staging"
           /\ Rested(w)
<1>1. PICK st \in {"failed", "succeeded"} : st = IF At(w, "finish") THEN "succeeded" ELSE "failed"
  OBVIOUS
<1>2. op' = [op EXCEPT ![o] = Closed(@, st)]
  BY <1>1 DEF Finish
<1>3. QED BY <1>2, CloseLeases DEF Finish

(* An activation changes what the skill shows, nothing else. *)
LEMMA ActivatedRows ==
    ASSUME TypeOK, NEW row \in OpRows, row.activate => row.skill \in Skills
    PROVE  /\ Activated(row) \in [Skills -> SkillRows]
           /\ \A s \in Skills : /\ Activated(row)[s].state = skill[s].state
                                /\ Activated(row)[s].active = Selected(row, s)
<1>1. CASE ~row.activate
  BY <1>1 DEF TypeOK, Activated, Selected
<1>2. CASE row.activate
  <2>1. PICK n \in Nat : n = skill[row.skill].rev + 1
    BY <1>2 DEF TypeOK, SkillRows
  <2>2. Activated(row) = [skill EXCEPT ![row.skill] = [skill[row.skill] EXCEPT
                                                         !.active = row.ver, !.rev = n]]
    BY <1>2, <2>1 DEF TypeOK, Activated, SkillRows
  <2>3. ASSUME NEW r \in SkillRows
        PROVE  LET s == [r EXCEPT !.active = row.ver, !.rev = n] IN
               s \in SkillRows /\ s.state = r.state /\ s.active = row.ver
    BY DEF SkillRows, OpRows, Maybe
  <2>4. skill \in [Skills -> SkillRows] /\ skill[row.skill] \in SkillRows
    BY <1>2 DEF TypeOK
  <2>5. Activated(row) \in [Skills -> SkillRows]
    BY <2>2, <2>3, <2>4
  <2>6. /\ Activated(row)[row.skill].state = skill[row.skill].state
        /\ Activated(row)[row.skill].active = row.ver
    <3>1. row.skill \in Skills
      BY <1>2
    <3>2. Activated(row)[row.skill] = [skill[row.skill] EXCEPT !.active = row.ver, !.rev = n]
      BY <2>2, <2>4, <3>1
    <3>3. QED BY <2>3, <2>4, <3>2
  <2>7. \A s \in Skills : s # row.skill => Activated(row)[s] = skill[s]
    BY <2>2, <2>4
  <2>8. QED BY <1>2, <2>5, <2>6, <2>7 DEF Selected
<1>3. QED BY <1>1, <1>2

(* The state of one generation is written. *)
LEMMA GenWritten ==
    ASSUME NEW f \in [Gens -> GenRows], NEW g \in Maybe(Gens), NEW st \in GenStates
    PROVE  LET h == [f EXCEPT ![g].state = st] IN
           /\ h \in [Gens -> GenRows]
           /\ \A x \in Gens : /\ h[x].src = f[x].src /\ h[x].docs = f[x].docs
                              /\ h[x].state = IF x = g THEN st ELSE f[x].state
<1>1. ASSUME NEW r \in GenRows
      PROVE  LET q == [r EXCEPT !.state = st] IN
             q \in GenRows /\ q.src = r.src /\ q.docs = r.docs /\ q.state = st
  BY DEF GenRows
<1>2. CASE g \in Gens
  BY <1>1, <1>2
<1>3. CASE g \notin Gens
  BY <1>3
<1>4. QED BY <1>2, <1>3

(* The published operation is done; nobody else has its lease. *)
LEMMA PublishedLeases ==
    ASSUME LeaseParts, TypeOK', GensKeep, NEW w \in Workers, NEW o \in Ops, o = wk[w].op,
           op[o].state = "running", op[o].owner = w, ~op[o].done,
           Published(o),
           NEW pc \in {"list", "mark_failed"}, pc = "mark_failed" => wk[w].pc \in Building,
           Moved(w, pc)
    PROVE  /\ LeaseParts' /\ (\A x \in Workers : MayOnlyKeep(x)) /\ OpsKeep
           /\ op'[o].done /\ op'[o].kind = op[o].kind /\ op'[o].phase = op[o].phase
           /\ op'[o].state = op[o].state /\ op'[o].ver = op[o].ver /\ op'[o].skill = op[o].skill
           /\ \A x \in Ops : x # o => op'[x] = op[x]
<1>1. op' = [op EXCEPT ![o] = [op[o] EXCEPT !.done = TRUE]]
  BY DEF Published, LeaseParts, TypeOK
<1>2. ASSUME NEW r \in OpRows
      PROVE  LET row == [r EXCEPT !.done = TRUE] IN
             /\ row.done /\ row.lease = r.lease /\ row.rev = r.rev /\ row.owner = r.owner
             /\ row.kind = r.kind /\ row.skill = r.skill /\ row.ver = r.ver
             /\ row.activate = r.activate /\ row.gens = r.gens
             /\ row.phase = r.phase /\ row.state = r.state
  BY DEF OpRows
<1>3. op[o] \in OpRows /\ op \in [Ops -> OpRows] /\ \A x \in Ops : op[x].rev \in Nat
  BY DEF LeaseParts, TypeOK, OpRows
<1>4. /\ op'[o].done /\ op'[o].lease = op[o].lease /\ op'[o].rev = op[o].rev /\ op'[o].owner = op[o].owner
      /\ op'[o].kind = op[o].kind /\ op'[o].skill = op[o].skill /\ op'[o].ver = op[o].ver
      /\ op'[o].activate = op[o].activate /\ op'[o].gens = op[o].gens
      /\ op'[o].phase = op[o].phase /\ op'[o].state = op[o].state
      /\ \A x \in Ops : x # o => op'[x] = op[x]
  BY <1>1, <1>2, <1>3
<1>5. published'[o] = 1 /\ \A x \in Ops : x # o => published'[x] = published[x]
  <2>1. published[o] = 0
    BY DEF LeaseParts, RowInv, RowOK
  <2>2. QED BY <2>1 DEF LeaseParts, TypeOK, Published
<1>6. RowInv'
  <2>1. RowOK(o) /\ \A r \in op[o].gens : r.id \in Gens
    BY DEF LeaseParts, RowInv, TypeOK, OpRows
  <2>2. RowOK(o)'
    BY <1>4, <1>5, <2>1 DEF RowOK, GensKeep
  <2>3. QED BY <1>4, <1>5, <2>2, RowWritten
<1>7. OpsKeep
  BY <1>3, <1>4 DEF OpsKeep
<1>8. NoNewLease
  BY <1>4 DEF NoNewLease
<1>9. \A x \in Workers : Fit(x)
  <2>1. wk[w].op # None
    BY SkillAssumption
  <2>2. Fit(w)
    BY <2>1 DEF Fit, Moved, Building, Publishing, Unclaimed, RemovePcs
  <2>3. QED BY <2>2, StillFits DEF LeaseParts, Moved, Others
<1>10. \A x \in Workers : MayPublish(x)' /\ MayPublish(x) /\ wk[x].op \in Ops =>
          LeaseStays(x) \/ op'[wk[x].op] = op[wk[x].op]
  <2>1. ~MayPublish(w)'
    BY DEF MayPublish, Publishing, Moved
  <2>2. \A x \in Workers : wk[x].op = o /\ MayPublish(x) => x = w
    BY OnlyRunning
  <2>3. QED BY <1>4, <2>1, <2>2
<1>11. \A x \in Ops : op'[x].gens = op[x].gens
  BY <1>4
<1>12. LeaseParts' /\ (\A x \in Workers : MayOnlyKeep(x))
  BY <1>6, <1>7, <1>8, <1>9, <1>10, <1>11, EditKeeps
<1>13. QED BY <1>4, <1>7, <1>12

(* What a publication writes: the generation g is in service, or none. *)
Switched(w, g) ==
    /\ space' \in Spaces /\ space'.state = space.state /\ space'.rev = space.rev + 1
    /\ space'.active = g
    /\ skill' \in [Skills -> SkillRows]
    /\ \A s \in Skills : skill'[s].state = skill[s].state /\ skill'[s].active = Selected(Row(w), s)
    /\ gen' \in [Gens -> GenRows]
    /\ \A x \in Gens : /\ gen'[x].src = gen[x].src /\ gen'[x].docs = gen[x].docs
                       /\ gen'[x].state = IF x = g THEN Active
                                          ELSE IF x = space.active THEN "retired" ELSE gen[x].state

(* Retired changes the state of one generation. *)
LEMMA RetiredRows ==
    ASSUME TypeOK, NEW a \in Maybe(Gens)
    PROVE  /\ Retired(a) \in [Gens -> GenRows]
           /\ \A x \in Gens : /\ Retired(a)[x].src = gen[x].src /\ Retired(a)[x].docs = gen[x].docs
                              /\ Retired(a)[x].state = IF x = a THEN "retired" ELSE gen[x].state
<1>1. CASE a = None
  BY <1>1, SkillAssumption DEF TypeOK, Retired
<1>2. CASE a # None
  <2>1. PICK f \in [Gens -> GenRows] : f = gen
    BY DEF TypeOK
  <2>2. "retired" \in GenStates
    BY DEF GenStates
  <2>3. QED BY <1>2, <2>1, <2>2, GenWritten DEF Retired
<1>3. QED BY <1>1, <1>2

(* The space row after a publication. *)
LEMMA SpaceSwitched ==
    ASSUME TypeOK, NEW g \in Maybe(Gens), space' = [space EXCEPT !.rev = @ + 1, !.active = g]
    PROVE  /\ space' \in Spaces /\ space'.state = space.state /\ space'.rev = space.rev + 1
           /\ space'.active = g
<1>1. PICK n \in Nat : n = space.rev + 1
  BY DEF TypeOK, Spaces
<1>2. space' = [space EXCEPT !.rev = n, !.active = g]
  BY <1>1 DEF TypeOK, Spaces
<1>3. ASSUME NEW sp \in Spaces
      PROVE  LET row == [sp EXCEPT !.rev = n, !.active = g] IN
             row \in Spaces /\ row.state = sp.state /\ row.rev = n /\ row.active = g
  BY DEF Spaces
<1>4. QED BY <1>1, <1>2, <1>3 DEF TypeOK

(* The operation rows after a publication are well formed. *)
LEMMA PublishedTypes ==
    ASSUME TypeOK, NEW o \in Ops, Published(o)
    PROVE  op' \in [Ops -> OpRows] /\ published' \in [Ops -> Nat]
<1>1. ASSUME NEW r \in OpRows PROVE [r EXCEPT !.done = TRUE] \in OpRows
  BY DEF OpRows
<1>2. op' = [op EXCEPT ![o] = [op[o] EXCEPT !.done = TRUE]]
  BY DEF TypeOK, Published
<1>3. op' \in [Ops -> OpRows]
  BY <1>1, <1>2 DEF TypeOK
<1>4. published' \in [Ops -> Nat]
  BY DEF TypeOK, Published
<1>5. QED BY <1>3, <1>4

(* A publication changes which versions the skills show, not their states. *)
LEMMA SkillsSwitched ==
    ASSUME LeaseParts, NEW w \in Workers, wk[w].op \in Ops, skill' = Activated(Row(w))
    PROVE  /\ skill' \in [Skills -> SkillRows]
           /\ \A s \in Skills : /\ skill'[s].state = skill[s].state
                                /\ skill'[s].active = Selected(Row(w), s)
<1>1. PICK row \in OpRows : row = Row(w)
  BY DEF LeaseParts, TypeOK, Row
<1>2. row.activate => row.skill \in Skills
  BY <1>1 DEF LeaseParts, RowInv, RowOK, Row
<1>3. TypeOK
  BY DEF LeaseParts
<1>4. QED BY <1>1, <1>2, <1>3, ActivatedRows

(* Publishing without an index keeps the leases. *)
LEMMA PublishUnindexedLeases ==
    ASSUME LeaseParts, NEW w \in Workers, PublishUnindexed(w)
    PROVE  /\ LeaseParts' /\ (\A x \in Workers : MayOnlyKeep(x)) /\ OpsKeep /\ GensKeep
           /\ Switched(w, None) /\ Moved(w, "list") /\ op'[wk[w].op].done /\ wk[w].op \in Ops
           /\ \A x \in Ops : op'[x].kind = op[x].kind /\ op'[x].phase = op[x].phase
                /\ op'[x].state = op[x].state /\ op'[x].ver = op[x].ver /\ op'[x].skill = op[x].skill
                /\ (x # wk[w].op => op'[x] = op[x])
<1>1. Locked(w) /\ ~Row(w).done
  BY DEF PublishUnindexed
<1>2. PICK o \in Ops : o = wk[w].op
  BY <1>1, LockedRow
<1>3. op[o].state = "running" /\ op[o].owner = w /\ ~op[o].done
  BY <1>1, <1>2, LockedRow DEF Row
<1>4. PICK a \in Maybe(Gens) : a = space.active
  BY DEF LeaseParts, TypeOK, Spaces
<1>5. gen' = Retired(a)
  BY <1>4 DEF PublishUnindexed
<1>6. None \notin Gens
  BY SkillAssumption
<1>7. /\ gen' \in [Gens -> GenRows]
      /\ \A x \in Gens : /\ gen'[x].src = gen[x].src /\ gen'[x].docs = gen[x].docs
                         /\ gen'[x].state = IF x = None THEN Active
                                            ELSE IF x = space.active THEN "retired" ELSE gen[x].state
  <2>1. TypeOK
    BY DEF LeaseParts
  <2>2. /\ gen' \in [Gens -> GenRows]
        /\ \A x \in Gens : /\ gen'[x].src = gen[x].src /\ gen'[x].docs = gen[x].docs
                           /\ gen'[x].state = IF x = a THEN "retired" ELSE gen[x].state
    BY <1>5, <2>1, RetiredRows
  <2>3. QED BY <1>4, <1>6, <2>2
<1>8. /\ space' \in Spaces /\ space'.state = space.state /\ space'.rev = space.rev + 1
      /\ space'.active = None
  <2>1. None \in Maybe(Gens)
    BY DEF Maybe
  <2>2. QED BY <2>1, SpaceSwitched DEF LeaseParts, PublishUnindexed
<1>9. /\ skill' \in [Skills -> SkillRows]
      /\ \A s \in Skills : skill'[s].state = skill[s].state /\ skill'[s].active = Selected(Row(w), s)
  BY <1>2, SkillsSwitched DEF PublishUnindexed
<1>10. Switched(w, None)
  BY <1>7, <1>8, <1>9 DEF Switched
<1>11. Moved(w, "list")
  <2>1. "list" \in Pcs
    BY DEF Pcs
  <2>2. QED BY <2>1, GotoMoves DEF LeaseParts, PublishUnindexed
<1>12. Published(o)
  BY <1>2 DEF PublishUnindexed
<1>13. op' \in [Ops -> OpRows] /\ published' \in [Ops -> Nat]
  BY <1>12, PublishedTypes DEF LeaseParts
<1>14. TypeOK'
  BY <1>7, <1>8, <1>9, <1>11, <1>13 DEF LeaseParts, TypeOK, PublishUnindexed, Moved
<1>15. GensKeep
  BY <1>7 DEF GensKeep, Active
<1>16. QED BY <1>2, <1>3, <1>10, <1>11, <1>12, <1>14, <1>15, PublishedLeases

(* The publishing transaction, whatever becomes of its answer. *)
LEMMA SwitchLeases ==
    ASSUME LeaseParts, NEW w \in Workers, wk[w].pc = "commit", Switch(w), trouble' \in Nat,
           NEW pc \in {"list", "mark_failed"}, Goto(w, pc)
    PROVE  /\ LeaseParts' /\ (\A x \in Workers : MayOnlyKeep(x)) /\ OpsKeep /\ GensKeep
           /\ wk[w].gen \in Gens /\ Switched(w, wk[w].gen)
           /\ Moved(w, pc) /\ op'[wk[w].op].done /\ ~op[wk[w].op].done /\ wk[w].op \in Ops
           /\ \A x \in Ops : op'[x].kind = op[x].kind /\ op'[x].phase = op[x].phase
                /\ op'[x].state = op[x].state /\ op'[x].ver = op[x].ver /\ op'[x].skill = op[x].skill
                /\ (x # wk[w].op => op'[x] = op[x])
<1>1. MayPublish(w) /\ wk[w].pc \in Building
  BY DEF MayPublish, Publishing, Building
<1>2. PICK o \in Ops : o = wk[w].op
  BY <1>1, OnlyRunning
<1>3. op[o].state = "running" /\ op[o].owner = w /\ ~op[o].done
  BY <1>1, <1>2 DEF LeaseParts, LeaseInv, HasLease, Row
<1>4. PICK a \in Maybe(Gens) : a = space.active
  BY DEF LeaseParts, TypeOK, Spaces
<1>5. PICK g \in Gens : g = wk[w].gen
  BY <1>1 DEF LeaseParts, WorkerInv, WorkerOK
<1>6. TypeOK /\ g \in Maybe(Gens) /\ Active \in GenStates
  BY DEF LeaseParts, Maybe, GenStates
<1>7. /\ gen' \in [Gens -> GenRows]
      /\ \A x \in Gens : /\ gen'[x].src = gen[x].src /\ gen'[x].docs = gen[x].docs
                         /\ gen'[x].state = IF x = g THEN Active
                                            ELSE IF x = space.active THEN "retired" ELSE gen[x].state
  <2>1. PICK f \in [Gens -> GenRows] : f = Retired(a)
    BY <1>6, RetiredRows
  <2>2. \A x \in Gens : /\ f[x].src = gen[x].src /\ f[x].docs = gen[x].docs
                        /\ f[x].state = IF x = space.active THEN "retired" ELSE gen[x].state
    BY <1>4, <1>6, <2>1, RetiredRows
  <2>3. gen' = [f EXCEPT ![g].state = Active]
    BY <1>4, <1>5, <2>1 DEF Switch
  <2>4. /\ gen' \in [Gens -> GenRows]
        /\ \A x \in Gens : /\ gen'[x].src = f[x].src /\ gen'[x].docs = f[x].docs
                           /\ gen'[x].state = IF x = g THEN Active ELSE f[x].state
    BY <1>6, <2>3, GenWritten
  <2>5. QED BY <2>2, <2>4
<1>8. /\ space' \in Spaces /\ space'.state = space.state /\ space'.rev = space.rev + 1
      /\ space'.active = g
  BY <1>5, <1>6, SpaceSwitched DEF Switch
<1>9. /\ skill' \in [Skills -> SkillRows]
      /\ \A s \in Skills : skill'[s].state = skill[s].state /\ skill'[s].active = Selected(Row(w), s)
  BY <1>2, SkillsSwitched DEF Switch
<1>10. Switched(w, g)
  BY <1>7, <1>8, <1>9 DEF Switched
<1>11. Moved(w, pc)
  <2>1. pc \in Pcs
    BY DEF Pcs
  <2>2. QED BY <1>6, <2>1, GotoMoves
<1>12. Published(o)
  BY <1>2 DEF Switch
<1>13. op' \in [Ops -> OpRows] /\ published' \in [Ops -> Nat]
  BY <1>12, PublishedTypes DEF LeaseParts
<1>14. TypeOK'
  BY <1>7, <1>8, <1>9, <1>11, <1>13 DEF LeaseParts, TypeOK, Switch, Moved
<1>15. GensKeep
  BY <1>7 DEF GensKeep, Active
<1>16. /\ LeaseParts' /\ (\A x \in Workers : MayOnlyKeep(x)) /\ OpsKeep
       /\ op'[o].done /\ op'[o].kind = op[o].kind /\ op'[o].phase = op[o].phase
       /\ op'[o].state = op[o].state /\ op'[o].ver = op[o].ver /\ op'[o].skill = op[o].skill
       /\ \A x \in Ops : x # o => op'[x] = op[x]
  BY <1>1, <1>2, <1>3, <1>11, <1>12, <1>14, <1>15, PublishedLeases
<1>17. QED BY <1>2, <1>3, <1>5, <1>10, <1>11, <1>15, <1>16

(* The switch to a new generation keeps the leases. *)
LEMMA SwitchCommitLeases ==
    ASSUME LeaseParts, NEW w \in Workers, SwitchCommit(w)
    PROVE  LeaseParts'
<1>1. trouble' \in Nat
  BY DEF SwitchCommit, LeaseParts, TypeOK
<1>2. QED BY <1>1, SwitchLeases DEF SwitchCommit, At

(* So does a switch that is committed but not answered. *)
LEMMA SwitchUnansweredLeases ==
    ASSUME LeaseParts, NEW w \in Workers, SwitchUnanswered(w)
    PROVE  LeaseParts'
<1>1. trouble' \in Nat
  BY TroubleCounts DEF SwitchUnanswered, LeaseParts
<1>2. QED BY <1>1, SwitchLeases DEF SwitchUnanswered, At

(* A new generation belongs to the lease that starts it. *)
LEMMA PublishStartLeases ==
    ASSUME LeaseParts, NEW w \in Workers, NEW g \in Gens, g = FreshGen, PublishStart(w)
    PROVE  /\ LeaseParts' /\ (\A x \in Workers : x # w => MayOnlyKeep(x)) /\ OpsKeep /\ GensKeep
           /\ gen[g].state = "new" /\ gen'[g].state = "building" /\ gen'[g].src = space.rev
           /\ gen'[g].docs = Snapshot(Row(w)) /\ \A x \in Gens : x # g => gen'[x] = gen[x]
           /\ wk'[w].pc = "content" /\ wk'[w].gen = g /\ wk'[w].op = wk[w].op /\ wk[w].op \in Ops
           /\ Others(w) /\ wk'[w].ids = wk[w].ids /\ wk'[w].todo = wk[w].todo
           /\ \A x \in Ops : op'[x].kind = op[x].kind /\ op'[x].phase = op[x].phase
                /\ op'[x].state = op[x].state /\ op'[x].ver = op[x].ver /\ op'[x].skill = op[x].skill
                /\ op'[x].activate = op[x].activate /\ op'[x].done = op[x].done
                /\ (x # wk[w].op => op'[x] = op[x])
<1>1. Locked(w) /\ ~Row(w).done /\ wk[w].pc = "publish"
  BY DEF PublishStart, At
<1>2. PICK o \in Ops : o = wk[w].op
  BY <1>1, LockedRow
<1>3. op[o].state = "running" /\ op[o].owner = w /\ ~op[o].done /\ op[o].rev = wk[w].rev
  BY <1>1, <1>2, LockedRow DEF Row
<1>4. gen[g].state = "new"
  BY DEF PublishStart, FreshGen
<1>5. /\ gen' \in [Gens -> GenRows]
      /\ gen'[g].state = "building" /\ gen'[g].src = space.rev /\ gen'[g].docs = Snapshot(Row(w))
      /\ \A x \in Gens : x # g => gen'[x] = gen[x]
  <2>1. Snapshot(Row(w)) \in SUBSET Versions
    <3>1. \A s \in Skills : skill[s].active \in Maybe(Versions)
      BY DEF LeaseParts, TypeOK, SkillRows
    <3>2. Row(w).ver \in Maybe(Versions)
      BY <1>2 DEF LeaseParts, TypeOK, OpRows, Row
    <3>3. \A s \in Skills : Selected(Row(w), s) \in Maybe(Versions)
      BY <3>1, <3>2 DEF Selected
    <3>4. QED BY <3>3 DEF Snapshot, Maybe
  <2>2. PICK row \in GenRows :
           row = [state |-> "building", src |-> space.rev, docs |-> Snapshot(Row(w))]
    BY <2>1 DEF LeaseParts, TypeOK, Spaces, GenRows, GenStates
  <2>3. gen' = [gen EXCEPT ![g] = row]
    BY <2>2 DEF PublishStart
  <2>4. QED BY <2>2, <2>3 DEF LeaseParts, TypeOK
<1>6. PICK rec \in [id : Gens, rev : Nat] : rec = [id |-> g, rev |-> wk[w].rev]
  BY DEF LeaseParts, TypeOK, WorkerRows
<1>7. /\ op' \in [Ops -> OpRows]
      /\ op'[o].kind = op[o].kind /\ op'[o].phase = op[o].phase /\ op'[o].state = op[o].state
      /\ op'[o].ver = op[o].ver /\ op'[o].skill = op[o].skill /\ op'[o].activate = op[o].activate
      /\ op'[o].done = op[o].done /\ op'[o].lease = op[o].lease /\ op'[o].owner = op[o].owner
      /\ op'[o].rev = op[o].rev /\ op'[o].gens = op[o].gens \cup {rec}
      /\ \A x \in Ops : x # o => op'[x] = op[x]
  <2>1. PICK set \in SUBSET [id : Gens, rev : Nat] : set = op[o].gens \cup {rec}
    BY DEF LeaseParts, TypeOK, OpRows
  <2>2. ASSUME NEW r \in OpRows
        PROVE  LET row == [r EXCEPT !.gens = set] IN
               /\ row \in OpRows /\ row.gens = set
               /\ row.kind = r.kind /\ row.phase = r.phase /\ row.state = r.state
               /\ row.ver = r.ver /\ row.skill = r.skill /\ row.activate = r.activate
               /\ row.done = r.done /\ row.lease = r.lease /\ row.owner = r.owner /\ row.rev = r.rev
    BY DEF OpRows
  <2>3. op' = [op EXCEPT ![o] = [op[o] EXCEPT !.gens = set]]
    BY <1>2, <1>6, <2>1 DEF PublishStart, LeaseParts, TypeOK, OpRows
  <2>4. op[o] \in OpRows /\ op \in [Ops -> OpRows]
    BY DEF LeaseParts, TypeOK
  <2>5. QED BY <2>1, <2>2, <2>3, <2>4
<1>8. /\ wk' \in [Workers -> WorkerRows] /\ wk'[w].pc = "content" /\ wk'[w].gen = g
      /\ wk'[w].op = wk[w].op /\ wk'[w].rev = wk[w].rev /\ wk'[w].ids = wk[w].ids
      /\ wk'[w].todo = wk[w].todo /\ Others(w)
  <2>1. ASSUME NEW r \in WorkerRows
        PROVE  LET row == [r EXCEPT !.pc = "content", !.gen = g] IN
               /\ row \in WorkerRows /\ row.pc = "content" /\ row.gen = g /\ row.op = r.op
               /\ row.rev = r.rev /\ row.ids = r.ids /\ row.todo = r.todo
    BY DEF WorkerRows, Pcs, Maybe
  <2>2. wk[w] \in WorkerRows /\ wk \in [Workers -> WorkerRows]
    BY DEF LeaseParts, TypeOK
  <2>3. wk' = [wk EXCEPT ![w] = [wk[w] EXCEPT !.pc = "content", !.gen = g]]
    BY <2>2 DEF PublishStart
  <2>4. QED BY <2>1, <2>2, <2>3 DEF Others
<1>9. TypeOK'
  BY <1>5, <1>7, <1>8 DEF LeaseParts, TypeOK, PublishStart, assetVars
<1>10. GensKeep /\ UNCHANGED published
  BY <1>4, <1>5 DEF GensKeep, PublishStart
<1>11. \A x \in Ops : op[x].rev \in Nat /\ \A r \in op[x].gens : r.id \in Gens
  BY DEF LeaseParts, TypeOK, OpRows
<1>12. OpsKeep
  BY <1>7, <1>11 DEF OpsKeep
<1>13. rec.id = g /\ rec.rev = op[o].rev
  BY <1>3, <1>6
<1>14. RowInv'
  <2>1. RowOK(o)
    BY DEF LeaseParts, RowInv
  <2>2. \A r \in op'[o].gens : r.rev <= op'[o].rev /\ gen'[r.id].state # "new"
    <3>1. \A r \in op[o].gens : r.rev <= op[o].rev /\ gen'[r.id].state # "new"
      BY <1>10, <1>11, <2>1 DEF RowOK, GensKeep
    <3>2. QED BY <1>5, <1>7, <1>11, <1>13, <3>1
  <2>3. RowOK(o)'
    BY <1>3, <1>7, <1>10, <2>1, <2>2 DEF RowOK
  <2>4. QED BY <1>7, <1>10, <2>3, RowWritten
<1>15. GenOwnerInv'
  <2>1. \A x \in Ops : \A r \in op[x].gens : r.id # g
    BY <1>4 DEF LeaseParts, RowInv, RowOK
  <2>2. \A x \in Ops : \A r \in op'[x].gens : r \in op[x].gens \/ (x = o /\ r = rec)
    BY <1>7
  <2>3. QED BY <1>13, <2>1, <2>2 DEF LeaseParts, GenOwnerInv
<1>16. WorkerInv'
  <2>1. \A x \in Workers : x # w => WorkerOK(x)'
    BY <1>8, <1>9, <1>12, StillFits, WorkerKeeps DEF LeaseParts, Others
  <2>2. WorkerOK(w)'
    <3>1. o # None /\ op[o].rev <= op[o].rev
      BY <1>11, SkillAssumption
    <3>2. rec \in op'[o].gens /\ rec = [id |-> g, rev |-> wk'[w].rev]
      BY <1>6, <1>7, <1>8
    <3>3. QED BY <1>2, <1>3, <1>7, <1>8, <3>1, <3>2 DEF WorkerOK, Row, Unclaimed, RemovePcs
  <2>3. \A x \in Workers : wk'[x].op = wk[x].op /\ wk'[x].rev = wk[x].rev
    BY <1>8 DEF Others
  <2>4. QED BY <2>1, <2>2, <2>3 DEF LeaseParts, WorkerInv
<1>17. ASSUME NEW x \in Workers, x # w, MayPublish(x)'
       PROVE  /\ MayPublish(x) /\ wk[x].op \in Ops /\ wk'[x] = wk[x] /\ op'[wk[x].op] = op[wk[x].op]
  <2>1. wk'[x] = wk[x]
    BY <1>8, <1>17 DEF Others
  <2>2. MayPublish(x)
    <3>1. wk[x].op \in Ops \/ wk[x].op = None
      BY DEF LeaseParts, TypeOK, WorkerRows, Maybe
    <3>2. \A y \in Ops : /\ op'[y].state = op[y].state /\ op'[y].owner = op[y].owner
                         /\ op'[y].rev = op[y].rev /\ op'[y].lease = op[y].lease
      BY <1>7
    <3>3. Locked(x)' => Locked(x)
      BY <2>1, <3>1, <3>2 DEF Locked
    <3>4. QED BY <1>17, <2>1, <3>3 DEF MayPublish
  <2>3. wk[x].op \in Ops /\ wk[x].op # o
    BY <1>3, <1>17, <2>2, OnlyRunning
  <2>4. QED BY <1>7, <2>1, <2>2, <2>3
<1>18. LeaseInv'
  <2>1. ASSUME NEW x \in Workers, x # w, MayPublish(x)' PROVE HasLease(x)'
    BY <1>17, <2>1 DEF LeaseParts, LeaseInv, HasLease, Row
  <2>2. HasLease(w)'
    <3>1. wk'[w].op = o /\ wk'[w].rev = op[o].rev
      BY <1>2, <1>3, <1>8
    <3>2. /\ op'[o].state = "running" /\ op'[o].owner = w /\ op'[o].rev = op[o].rev
          /\ ~op'[o].done
      BY <1>3, <1>7
    <3>3. QED BY <3>1, <3>2 DEF HasLease, Row
  <2>3. QED BY <2>1, <2>2 DEF LeaseInv
<1>19. LeaseParts'
  BY <1>9, <1>14, <1>15, <1>16, <1>18 DEF LeaseParts
<1>20. \A x \in Workers : x # w => MayOnlyKeep(x)
  BY <1>17 DEF MayOnlyKeep
<1>21. QED BY <1>2, <1>4, <1>5, <1>7, <1>8, <1>10, <1>12, <1>19, <1>20

(* An abandoned upload fails for good, and its version gets a deletion. *)
LEMMA RecoverStagingLeases ==
    ASSUME LeaseParts, NEW w \in Workers, NEW o \in Ops, NEW cleanup \in Ops,
           RecoverStaging(w, o, cleanup)
    PROVE  /\ LeaseParts' /\ (\A x \in Workers : MayOnlyKeep(x)) /\ OpsKeep
           /\ o # cleanup /\ op[o].kind = "install" /\ op[o].phase = "staging"
           /\ op'[o].kind = "install" /\ op'[o].ver = op[o].ver /\ op'[o].skill = op[o].skill
           /\ op'[o].phase = "staging" /\ op'[o].state = "failed"
           /\ op'[cleanup].kind = "delete_version" /\ op'[cleanup].ver = op[o].ver
           /\ op'[cleanup].phase = "sealed" /\ op'[o].done = op[o].done /\ op'[cleanup].done = FALSE
           /\ op[cleanup].state = "new"
           /\ \A x \in Ops : x # o /\ x # cleanup => op'[x] = op[x]
<1>1. /\ op[o].phase = "staging" /\ op[o].state \in {"pending", "failed"} /\ op[cleanup].state = "new"
      /\ o # cleanup
  BY DEF RecoverStaging
<1>2. RowOK(o) /\ RowOK(cleanup) /\ op[o].kind = "install" /\ ~op[o].lease
  BY <1>1 DEF LeaseParts, RowInv, RowOK
<1>3. op[o] \in OpRows /\ op \in [Ops -> OpRows] /\ \A x \in Ops : op[x].rev \in Nat
  BY DEF LeaseParts, TypeOK, OpRows
<1>4. PICK s \in Maybe(Skills), v \in Maybe(Versions) : s = op[o].skill /\ v = op[o].ver
  BY <1>3 DEF OpRows
<1>5. LET row == [NoOp EXCEPT !.kind = "delete_version", !.state = "pending",
                              !.skill = s, !.ver = v, !.rev = 1] IN
      /\ row \in OpRows /\ row.kind = "delete_version" /\ row.state = "pending" /\ row.ver = v
      /\ row.skill = s /\ row.rev = 1 /\ row.phase = "sealed" /\ row.activate = FALSE
      /\ row.lease = FALSE /\ row.done = FALSE /\ row.gens = {}
  BY DEF NoOp, OpRows, OpStates, Maybe, Kinds, DeleteKinds
<1>6. ASSUME NEW r \in OpRows
      PROVE  LET row == [r EXCEPT !.state = "failed", !.cleaned = TRUE] IN
             /\ row \in OpRows /\ row.state = "failed" /\ row.kind = r.kind /\ row.ver = r.ver
             /\ row.skill = r.skill /\ row.rev = r.rev /\ row.phase = r.phase
             /\ row.activate = r.activate /\ row.lease = r.lease /\ row.done = r.done
             /\ row.gens = r.gens
  BY DEF OpRows, OpStates
<1>7. op' = [op EXCEPT ![o] = [op[o] EXCEPT !.state = "failed", !.cleaned = TRUE],
                       ![cleanup] = [NoOp EXCEPT !.kind = "delete_version", !.state = "pending",
                                                 !.skill = s, !.ver = v, !.rev = 1]]
  BY <1>1, <1>3, <1>4 DEF RecoverStaging
<1>8. op' \in [Ops -> OpRows]
  BY <1>3, <1>5, <1>6, <1>7
<1>9. \A x \in Ops : x # o /\ x # cleanup => op'[x] = op[x]
  BY <1>1, <1>3, <1>7
<1>10. op'[o] = [op[o] EXCEPT !.state = "failed", !.cleaned = TRUE]
  BY <1>1, <1>3, <1>7
<1>11. op'[cleanup] = [NoOp EXCEPT !.kind = "delete_version", !.state = "pending",
                                   !.skill = s, !.ver = v, !.rev = 1]
  BY <1>1, <1>3, <1>7
<1>12. /\ op'[o].state = "failed" /\ op'[o].kind = op[o].kind /\ op'[o].ver = op[o].ver
       /\ op'[o].skill = op[o].skill /\ op'[o].rev = op[o].rev /\ op'[o].phase = op[o].phase
       /\ op'[o].activate = op[o].activate /\ op'[o].lease = op[o].lease
       /\ op'[o].done = op[o].done /\ op'[o].gens = op[o].gens
  <2>1. PICK r \in OpRows : r = op[o]
    BY <1>3
  <2>2. op'[o] = [r EXCEPT !.state = "failed", !.cleaned = TRUE]
    BY <1>10, <2>1
  <2>3. /\ op'[o].state = "failed" /\ op'[o].kind = r.kind /\ op'[o].ver = r.ver
        /\ op'[o].skill = r.skill /\ op'[o].rev = r.rev /\ op'[o].phase = r.phase
        /\ op'[o].activate = r.activate /\ op'[o].lease = r.lease
        /\ op'[o].done = r.done /\ op'[o].gens = r.gens
    BY <1>6, <2>2, ZenonT(30)
  <2>4. QED BY <2>1, <2>3
<1>13. /\ op'[cleanup].kind = "delete_version" /\ op'[cleanup].state = "pending"
       /\ op'[cleanup].ver = op[o].ver /\ op'[cleanup].phase = "sealed"
       /\ op'[cleanup].activate = FALSE /\ op'[cleanup].lease = FALSE
       /\ op'[cleanup].done = FALSE /\ op'[cleanup].gens = {}
  BY <1>4, <1>5, <1>11
<1>14. version' \in [Versions -> VersionStates]
  BY DEF RecoverStaging, LeaseParts, TypeOK, VersionStates
<1>15. TypeOK' /\ UNCHANGED <<gen, wk, published>>
  BY <1>8, <1>14 DEF RecoverStaging, LeaseParts, TypeOK
<1>16. RowInv'
  <2>1. RowOK(o)'
    BY <1>1, <1>2, <1>12, <1>15 DEF RowOK
  <2>2. RowOK(cleanup)'
    BY <1>1, <1>2, <1>13, <1>15 DEF RowOK
  <2>3. \A x \in Ops \ {o, cleanup} : RowOK(x)'
    BY <1>9, <1>15 DEF LeaseParts, RowInv, RowOK
  <2>4. QED BY <2>1, <2>2, <2>3 DEF RowInv
<1>17. OpsKeep
  BY <1>1, <1>3, <1>9, <1>12 DEF OpsKeep
<1>18. NoNewLease
  BY <1>2, <1>9, <1>12, <1>13 DEF NoNewLease
<1>19. \A x \in Ops : op'[x].gens = op[x].gens
  BY <1>1, <1>2, <1>9, <1>12, <1>13 DEF RowOK
<1>20. \A x \in Workers : Fit(x)
  BY <1>15, StillFits DEF LeaseParts
<1>21. \A x \in Workers : MayPublish(x)' /\ MayPublish(x) /\ wk[x].op \in Ops =>
          op'[wk[x].op] = op[wk[x].op]
  BY <1>1, <1>9, OnlyRunning
<1>22. LeaseParts' /\ (\A x \in Workers : MayOnlyKeep(x))
  BY <1>15, <1>16, <1>17, <1>18, <1>19, <1>20, <1>21, EditKeeps
<1>23. QED BY <1>1, <1>2, <1>9, <1>12, <1>13, <1>17, <1>22

-----------------------------------------------------------------------------
(* Steps that leave the operations alone *)

(* The variables other than operations and workers have their types. *)
RestTypes ==
    /\ space' \in Spaces /\ skill' \in [Skills -> SkillRows]
    /\ version' \in [Versions -> VersionStates] /\ files' \subseteq Versions
    /\ gen' \in [Gens -> GenRows] /\ coll' \in [Gens -> Maybe(SUBSET Versions)]
    /\ threads' \subseteq Calls \X Gens \X Workers \X SUBSET Versions
    /\ trouble' \in Nat

(* Steps that leave assets, generations and collections alone. *)
LEMMA RestStays ==
    ASSUME TypeOK, UNCHANGED <<assetVars, gen, coll>>, trouble' \in Nat,
           threads' \subseteq Calls \X Gens \X Workers \X SUBSET Versions
    PROVE  RestTypes /\ GensKeep
  BY DEF TypeOK, RestTypes, assetVars, GensKeep

(* A worker that moves on within its job fits. *)
LEMMA MovedFits ==
    ASSUME LeaseParts, NEW w \in Workers, NEW pc \in Pcs, Moved(w, pc),
           pc \notin Unclaimed, wk[w].pc \notin Unclaimed,
           pc \in Building => wk[w].pc \in Building,
           pc \in Publishing => wk[w].pc \in Publishing,
           pc = "commit" => Locked(w), pc # "install",
           pc \in RemovePcs => wk[w].pc \in RemovePcs
    PROVE  \A x \in Workers : Fit(x)
<1>1. wk[w].op # None
  BY DEF LeaseParts, WorkerInv, WorkerOK
<1>2. Fit(w)
  BY <1>1 DEF Fit, Moved
<1>3. QED BY <1>2, StillFits DEF LeaseParts, Moved, Others

(* A worker that gives up its operation fits. *)
LEMMA RestedFits ==
    ASSUME LeaseParts, NEW w \in Workers, Rested(w)
    PROVE  \A x \in Workers : Fit(x)
<1>1. Fit(w)
  BY DEF Fit, Rested, Unclaimed
<1>2. QED BY <1>1, StillFits DEF LeaseParts, Rested, Others

(* Moving on within a job keeps the leases. *)
LEMMA GotoLeases ==
    ASSUME LeaseParts, NEW w \in Workers, NEW pc \in Pcs, Goto(w, pc),
           pc \notin Unclaimed, wk[w].pc \notin Unclaimed,
           pc \in Building => wk[w].pc \in Building,
           pc \in Publishing => wk[w].pc \in Publishing,
           pc = "commit" => Locked(w), pc # "install",
           pc \in RemovePcs => wk[w].pc \in RemovePcs,
           RestTypes, GensKeep, UNCHANGED <<op, published>>
    PROVE  LeaseParts' /\ (\A x \in Workers : MayOnlyKeep(x)) /\ Moved(w, pc)
<1>1. Moved(w, pc)
  BY GotoMoves DEF LeaseParts
<1>2. TypeOK'
  BY <1>1 DEF LeaseParts, TypeOK, RestTypes, Moved
<1>3. \A x \in Workers : Fit(x)
  BY <1>1, MovedFits
<1>4. QED BY <1>1, <1>2, <1>3, StepKeeps

(* Giving up an operation keeps the leases. *)
LEMMA IdleLeases ==
    ASSUME LeaseParts, NEW w \in Workers, Idle(w), RestTypes, GensKeep, UNCHANGED <<op, published>>
    PROVE  LeaseParts' /\ (\A x \in Workers : MayOnlyKeep(x)) /\ Rested(w)
<1>1. Rested(w)
  BY IdleRests DEF LeaseParts
<1>2. TypeOK'
  BY <1>1 DEF LeaseParts, TypeOK, RestTypes, Rested
<1>3. QED BY <1>1, <1>2, RestedFits, StepKeeps

(* A step in which no worker moves keeps the leases. *)
LEMMA StillLeases ==
    ASSUME LeaseParts, UNCHANGED wk, RestTypes, GensKeep, UNCHANGED <<op, published>>
    PROVE  LeaseParts' /\ (\A x \in Workers : MayOnlyKeep(x))
<1>1. TypeOK'
  BY DEF LeaseParts, TypeOK, RestTypes
<1>2. \A x \in Workers : Fit(x)
  BY StillFits DEF LeaseParts
<1>3. QED BY <1>1, <1>2, StepKeeps

(* A worker that works has an operation. *)
LEMMA WorkingClaimed ==
    ASSUME LeaseParts, NEW w \in Workers, Working(w)
    PROVE  wk[w].pc \notin Unclaimed /\ wk[w].op \in Ops
  BY DEF LeaseParts, TypeOK, WorkerRows, Maybe, WorkerInv, WorkerOK, Working

-----------------------------------------------------------------------------

(* A worker that finds its lease lost stops, after it has marked the       *)
(* generation it wanted to switch to.                                      *)
LEMMA LeaseLostLeases ==
    ASSUME LeaseParts, NEW w \in Workers, LeaseLost(w)
    PROVE  /\ LeaseParts' /\ (\A x \in Workers : MayOnlyKeep(x))
           /\ Rested(w) \/ (wk[w].pc = "switch" /\ Moved(w, "mark_lost"))
<1>1. RestTypes /\ GensKeep /\ UNCHANGED <<op, published>>
  BY RestStays DEF LeaseParts, TypeOK, LeaseLost
<1>2. CASE Idle(w)
  BY <1>1, <1>2, IdleLeases
<1>3. CASE At(w, "switch") /\ Goto(w, "mark_lost")
  <2>1. /\ wk[w].pc = "switch" /\ "mark_lost" \in Pcs /\ "mark_lost" \notin Unclaimed
        /\ wk[w].pc \notin Unclaimed /\ wk[w].pc \in Building /\ "mark_lost" \notin Publishing
        /\ "mark_lost" \notin RemovePcs
    BY <1>3 DEF At, Pcs, Unclaimed, Building, Publishing, RemovePcs
  <2>2. QED BY <1>1, <1>3, <2>1, GotoLeases
<1>4. QED BY <1>2, <1>3 DEF LeaseLost

(* A failed heartbeat keeps the leases. *)
LEMMA HeartbeatFailsLeases ==
    ASSUME LeaseParts, NEW w \in Workers, HeartbeatFails(w)
    PROVE  LeaseParts' /\ (\A x \in Workers : MayOnlyKeep(x)) /\ Moved(w, "fail")
<1>1. RestTypes /\ GensKeep /\ UNCHANGED <<op, published>>
  BY RestStays, TroubleCounts DEF LeaseParts, TypeOK, HeartbeatFails
<1>2. wk[w].pc \notin Unclaimed
  BY WorkingClaimed DEF HeartbeatFails
<1>3. "fail" \in Pcs \ (Unclaimed \cup Building \cup Publishing \cup RemovePcs)
  BY DEF Pcs, Unclaimed, Building, Publishing, RemovePcs
<1>4. QED BY <1>1, <1>2, <1>3, GotoLeases DEF HeartbeatFails

(* A crash keeps the leases; the row keeps its own until this ends. *)
LEMMA CrashLeases ==
    ASSUME LeaseParts, NEW w \in Workers, Crash(w)
    PROVE  LeaseParts' /\ (\A x \in Workers : MayOnlyKeep(x)) /\ Rested(w)
<1>1. RestTypes /\ GensKeep /\ UNCHANGED <<op, published>>
  BY RestStays, TroubleCounts DEF LeaseParts, TypeOK, Crash
<1>2. QED BY <1>1, IdleLeases DEF Crash

(* Installing the version keeps the leases. *)
LEMMA InstallLeases ==
    ASSUME LeaseParts, NEW w \in Workers, Install(w)
    PROVE  /\ LeaseParts' /\ (\A x \in Workers : MayOnlyKeep(x)) /\ GensKeep
           /\ \E pc \in {"publish", "finish", "fail"} : Moved(w, pc)
<1>1. wk[w].pc = "install" /\ wk[w].pc \notin Unclaimed
  BY DEF Install, At, Unclaimed
<1>2. version' \in [Versions -> VersionStates]
  BY DEF Install, LeaseParts, TypeOK, VersionStates
<1>3. RestTypes /\ GensKeep /\ UNCHANGED <<op, published>>
  BY <1>2 DEF LeaseParts, TypeOK, Install, RestTypes, GensKeep
<1>4. PICK pc \in {"publish", "finish", "fail"} : Goto(w, pc)
  BY DEF Install
<1>5. pc \in Pcs \ (Unclaimed \cup Building \cup Publishing \cup RemovePcs)
  BY DEF Pcs, Unclaimed, Building, Publishing, RemovePcs
<1>6. QED BY <1>1, <1>3, <1>4, <1>5, GotoLeases

(* A job whose publication is done goes on to the cleanup. *)
LEMMA PublishAgainLeases ==
    ASSUME LeaseParts, NEW w \in Workers, PublishAgain(w)
    PROVE  LeaseParts' /\ (\A x \in Workers : MayOnlyKeep(x)) /\ Moved(w, "list")
<1>1. RestTypes /\ GensKeep /\ UNCHANGED <<op, published>>
  BY RestStays DEF LeaseParts, TypeOK, PublishAgain
<1>2. /\ "list" \in Pcs \ (Unclaimed \cup Building \cup Publishing \cup RemovePcs)
      /\ wk[w].pc \notin Unclaimed
  BY DEF PublishAgain, At, Pcs, Unclaimed, Building, Publishing, RemovePcs
<1>3. QED BY <1>1, <1>2, GotoLeases DEF PublishAgain

(* A refused publication keeps the leases. *)
LEMMA PublishRefusedLeases ==
    ASSUME LeaseParts, NEW w \in Workers, PublishRefused(w)
    PROVE  LeaseParts' /\ (\A x \in Workers : MayOnlyKeep(x)) /\ Moved(w, "fail")
<1>1. RestTypes /\ GensKeep /\ UNCHANGED <<op, published>>
  BY RestStays DEF LeaseParts, TypeOK, PublishRefused
<1>2. /\ "fail" \in Pcs \ (Unclaimed \cup Building \cup Publishing \cup RemovePcs)
      /\ wk[w].pc \notin Unclaimed
  BY DEF PublishRefused, At, Pcs, Unclaimed, Building, Publishing, RemovePcs
<1>3. QED BY <1>1, <1>2, GotoLeases DEF PublishRefused

(* Reading the content keeps the leases; the build starts only if every    *)
(* file is there.                                                          *)
LEMMA ReadContentLeases ==
    ASSUME LeaseParts, NEW w \in Workers, ReadContent(w)
    PROVE  /\ LeaseParts' /\ (\A x \in Workers : MayOnlyKeep(x))
           /\ wk[w].pc = "content" /\ wk[w].gen \in Gens
           /\ \/ /\ Moved(w, "build") /\ gen[wk[w].gen].docs \subseteq files
                 /\ threads' = threads \cup {<<"create", wk[w].gen, w, {}>>}
              \/ Moved(w, "fail") /\ UNCHANGED threads
<1>1. wk[w].pc = "content" /\ wk[w].gen \in Gens
  BY DEF ReadContent, At, LeaseParts, WorkerInv, WorkerOK, Building, Publishing
<1>2. threads' \subseteq Calls \X Gens \X Workers \X SUBSET Versions
  BY <1>1 DEF LeaseParts, TypeOK, ReadContent, Calls
<1>3. RestTypes /\ GensKeep /\ UNCHANGED <<op, published>>
  BY <1>2, RestStays DEF LeaseParts, TypeOK, ReadContent
<1>4. /\ "fail" \in Pcs \ (Unclaimed \cup Building \cup Publishing \cup RemovePcs)
      /\ "build" \in Pcs \ (Unclaimed \cup RemovePcs)
      /\ wk[w].pc \in Publishing /\ wk[w].pc \in Building /\ wk[w].pc \notin Unclaimed
  BY <1>1 DEF Pcs, Unclaimed, Building, Publishing, RemovePcs
<1>5. CASE gen[wk[w].gen].docs \subseteq files
  <2>1. Goto(w, "build") /\ threads' = threads \cup {<<"create", wk[w].gen, w, {}>>}
    BY <1>5 DEF ReadContent
  <2>2. QED BY <1>1, <1>3, <1>4, <1>5, <2>1, GotoLeases
<1>6. CASE ~(gen[wk[w].gen].docs \subseteq files)
  <2>1. Goto(w, "fail") /\ UNCHANGED threads
    BY <1>6 DEF ReadContent
  <2>2. QED BY <1>1, <1>3, <1>4, <2>1, GotoLeases
<1>7. QED BY <1>5, <1>6

(* A thread that creates a collection keeps the leases. *)
LEMMA IndexCreateLeases ==
    ASSUME LeaseParts, NEW w \in Workers, NEW g \in Gens, IndexCreate(w, g)
    PROVE  /\ LeaseParts' /\ (\A x \in Workers : MayOnlyKeep(x))
           /\ \/ UNCHANGED wk /\ ~Awaits(w, g, "build") /\ threads' = threads \ {<<"create", g, w, {}>>}
              \/ /\ UNCHANGED wk /\ Awaits(w, g, "build")
                 /\ threads' = (threads \ {<<"create", g, w, {}>>})
                                  \cup {<<"insert", g, w, gen[g].docs>>}
              \/ /\ Moved(w, "mark_failed") /\ wk[w].pc = "build"
                 /\ threads' = threads \ {<<"create", g, w, {}>>}
<1>1. coll' \in [Gens -> Maybe(SUBSET Versions)]
  BY DEF IndexCreate, LeaseParts, TypeOK, Maybe
<1>2. threads' \subseteq Calls \X Gens \X Workers \X SUBSET Versions
  <2>1. gen[g].docs \in SUBSET Versions
    BY DEF LeaseParts, TypeOK, GenRows
  <2>2. <<"insert", g, w, gen[g].docs>> \in Calls \X Gens \X Workers \X SUBSET Versions
    BY <2>1 DEF Calls
  <2>3. \/ threads' = threads \ {<<"create", g, w, {}>>}
        \/ threads' = (threads \ {<<"create", g, w, {}>>}) \cup {<<"insert", g, w, gen[g].docs>>}
    BY DEF IndexCreate
  <2>4. threads \subseteq Calls \X Gens \X Workers \X SUBSET Versions
    BY DEF LeaseParts, TypeOK
  <2>5. QED BY <2>2, <2>3, <2>4
<1>3. RestTypes /\ GensKeep /\ UNCHANGED <<op, published>>
  BY <1>1, <1>2 DEF LeaseParts, TypeOK, IndexCreate, RestTypes, GensKeep, assetVars
<1>4. CASE ~Awaits(w, g, "build") \/ coll[g] = None
  <2>1. UNCHANGED wk
    BY <1>4 DEF IndexCreate
  <2>2. LeaseParts' /\ (\A x \in Workers : MayOnlyKeep(x))
    BY <1>3, <2>1, StillLeases
  <2>3. \/ ~Awaits(w, g, "build") /\ threads' = threads \ {<<"create", g, w, {}>>}
        \/ /\ Awaits(w, g, "build")
           /\ threads' = (threads \ {<<"create", g, w, {}>>}) \cup {<<"insert", g, w, gen[g].docs>>}
    BY <1>4 DEF IndexCreate
  <2>4. QED BY <2>1, <2>2, <2>3
<1>5. CASE Awaits(w, g, "build") /\ coll[g] # None
  <2>1. Goto(w, "mark_failed") /\ threads' = threads \ {<<"create", g, w, {}>>}
    BY <1>5 DEF IndexCreate
  <2>2. /\ wk[w].pc = "build" /\ "mark_failed" \in Pcs \ (Unclaimed \cup Publishing \cup RemovePcs)
        /\ wk[w].pc \in Building /\ wk[w].pc \notin Unclaimed
    BY <1>5 DEF Awaits, At, Pcs, Unclaimed, Building, Publishing, RemovePcs
  <2>3. QED BY <1>3, <2>1, <2>2, GotoLeases
<1>6. QED BY <1>4, <1>5

(* A thread that inserts documents keeps the leases. *)
LEMMA IndexInsertLeases ==
    ASSUME LeaseParts, NEW w \in Workers, NEW g \in Gens, IndexInsert(w, g)
    PROVE  /\ LeaseParts' /\ (\A x \in Workers : MayOnlyKeep(x))
           /\ \/ UNCHANGED wk
              \/ wk[w].gen = g /\ wk[w].pc = "build" /\ \E pc \in {"mark_failed", "seal"} : Moved(w, pc)
<1>1. coll' \in [Gens -> Maybe(SUBSET Versions)]
  <2>1. gen[g].docs \in SUBSET Versions
    BY DEF LeaseParts, TypeOK, GenRows
  <2>2. QED BY <2>1 DEF IndexInsert, LeaseParts, TypeOK, Maybe
<1>2. threads' \subseteq Calls \X Gens \X Workers \X SUBSET Versions
  BY DEF IndexInsert, LeaseParts, TypeOK
<1>3. RestTypes /\ GensKeep /\ UNCHANGED <<op, published>>
  BY <1>1, <1>2 DEF LeaseParts, TypeOK, IndexInsert, RestTypes, GensKeep, assetVars
<1>4. CASE UNCHANGED wk
  BY <1>3, <1>4, StillLeases
<1>5. CASE Awaits(w, g, "build")
  <2>1. PICK pc \in {"mark_failed", "seal"} : Goto(w, pc)
    BY <1>5 DEF IndexInsert
  <2>2. /\ wk[w].pc = "build" /\ wk[w].gen = g /\ pc \in Pcs \ (Unclaimed \cup RemovePcs)
        /\ wk[w].pc \in Building /\ wk[w].pc \in Publishing /\ wk[w].pc \notin Unclaimed
    BY <1>5 DEF Awaits, At, Pcs, Unclaimed, Building, Publishing, RemovePcs
  <2>3. QED BY <1>3, <2>1, <2>2, GotoLeases
<1>6. QED BY <1>4, <1>5 DEF IndexInsert

(* Sealing keeps the leases; the worker goes on only if the collection     *)
(* holds what it should.                                                   *)
LEMMA SealLeases ==
    ASSUME LeaseParts, NEW w \in Workers, Seal(w)
    PROVE  /\ LeaseParts' /\ (\A x \in Workers : MayOnlyKeep(x))
           /\ \/ Moved(w, "switch") /\ coll[wk[w].gen] = gen[wk[w].gen].docs
              \/ Moved(w, "mark_failed")
<1>1. RestTypes /\ GensKeep /\ UNCHANGED <<op, published>>
  BY RestStays DEF LeaseParts, TypeOK, Seal
<1>2. PICK pc \in {"switch", "mark_failed"} :
        Goto(w, pc) /\ (pc = "switch" => coll[wk[w].gen] = gen[wk[w].gen].docs)
  BY DEF Seal
<1>3. /\ pc \in Pcs \ (Unclaimed \cup RemovePcs)
      /\ wk[w].pc \in Building /\ wk[w].pc \in Publishing /\ wk[w].pc \notin Unclaimed
  BY DEF Seal, At, Pcs, Unclaimed, Building, Publishing, RemovePcs
<1>4. QED BY <1>1, <1>2, <1>3, GotoLeases

(* A failed build keeps the leases. *)
LEMMA BuildFailsLeases ==
    ASSUME LeaseParts, NEW w \in Workers, BuildFails(w)
    PROVE  /\ LeaseParts' /\ (\A x \in Workers : MayOnlyKeep(x)) /\ Moved(w, "mark_failed")
<1>1. RestTypes /\ GensKeep /\ UNCHANGED <<op, published>>
  BY RestStays, TroubleCounts DEF LeaseParts, TypeOK, BuildFails
<1>2. /\ "mark_failed" \in Pcs \ (Unclaimed \cup Publishing \cup RemovePcs)
      /\ wk[w].pc \in Building /\ wk[w].pc \notin Unclaimed
  BY DEF BuildFails, At, Pcs, Unclaimed, Building, Publishing, RemovePcs
<1>3. QED BY <1>1, <1>2, GotoLeases DEF BuildFails

(* The publishing transaction starts with the lease. *)
LEMMA SwitchStartLeases ==
    ASSUME LeaseParts, NEW w \in Workers, SwitchStart(w)
    PROVE  LeaseParts' /\ (\A x \in Workers : MayOnlyKeep(x)) /\ Moved(w, "commit")
<1>1. RestTypes /\ GensKeep /\ UNCHANGED <<op, published>>
  BY RestStays DEF LeaseParts, TypeOK, SwitchStart
<1>2. /\ "commit" \in Pcs \ (Unclaimed \cup RemovePcs)
      /\ wk[w].pc \in Building /\ wk[w].pc \in Publishing /\ wk[w].pc \notin Unclaimed
  BY DEF SwitchStart, At, Pcs, Unclaimed, Building, Publishing, RemovePcs
<1>3. QED BY <1>1, <1>2, GotoLeases DEF SwitchStart

(* A refused switch keeps the leases. *)
LEMMA SwitchRefusedLeases ==
    ASSUME LeaseParts, NEW w \in Workers, SwitchRefused(w)
    PROVE  LeaseParts' /\ (\A x \in Workers : MayOnlyKeep(x)) /\ Moved(w, "mark_failed")
<1>1. RestTypes /\ GensKeep /\ UNCHANGED <<op, published>>
  BY RestStays DEF LeaseParts, TypeOK, SwitchRefused
<1>2. /\ "mark_failed" \in Pcs \ (Unclaimed \cup Publishing \cup RemovePcs)
      /\ wk[w].pc \in Building /\ wk[w].pc \notin Unclaimed
  BY DEF SwitchRefused, At, Pcs, Unclaimed, Building, Publishing, RemovePcs
<1>3. QED BY <1>1, <1>2, GotoLeases DEF SwitchRefused

(* One generation gets the state st. *)
Marked(g, st) ==
    /\ gen' \in [Gens -> GenRows]
    /\ \A x \in Gens : /\ gen'[x].src = gen[x].src /\ gen'[x].docs = gen[x].docs
                       /\ gen'[x].state = IF x = g THEN st ELSE gen[x].state

(* Writing the state of one generation changes nothing else of it. *)
LEMMA GenMarked ==
    ASSUME TypeOK, NEW g \in Maybe(Gens), NEW st \in GenStates, gen' = [gen EXCEPT ![g].state = st]
    PROVE  Marked(g, st)
<1>1. PICK f \in [Gens -> GenRows] : f = gen
  BY DEF TypeOK
<1>2. QED BY <1>1, GenWritten DEF Marked

(* Marking a generation failed keeps the leases. *)
LEMMA MarkFailedLeases ==
    ASSUME LeaseParts, NEW w \in Workers, MarkFailed(w)
    PROVE  /\ LeaseParts' /\ (\A x \in Workers : MayOnlyKeep(x)) /\ GensKeep
           /\ Rested(w) \/ Moved(w, "fail")
           /\ wk[w].pc \in {"mark_failed", "mark_lost"} /\ wk[w].gen \in Gens
           /\ \E st \in {"failed", gen[wk[w].gen].state} :
                 /\ Marked(wk[w].gen, st)
                 /\ st = IF gen[wk[w].gen].state = "building" THEN "failed" ELSE gen[wk[w].gen].state
<1>1. wk[w].pc \in {"mark_failed", "mark_lost"}
  BY DEF MarkFailed, At
<1>2. PICK g \in Gens : g = wk[w].gen
  BY <1>1 DEF LeaseParts, WorkerInv, WorkerOK, Building
<1>3. PICK st \in GenStates : st = IF gen[g].state = "building" THEN "failed" ELSE gen[g].state
  BY DEF LeaseParts, TypeOK, GenRows, GenStates
<1>4. gen' = [gen EXCEPT ![g].state = st]
  BY <1>2, <1>3 DEF MarkFailed, LeaseParts, TypeOK
<1>5. Marked(g, st)
  BY <1>4, GenMarked DEF LeaseParts, Maybe
<1>6. GensKeep
  BY <1>3, <1>5 DEF Marked, GensKeep
<1>7. RestTypes /\ UNCHANGED <<op, published>>
  BY <1>5 DEF Marked, MarkFailed, LeaseParts, TypeOK, RestTypes, assetVars
<1>8. LeaseParts' /\ (\A x \in Workers : MayOnlyKeep(x)) /\ (Rested(w) \/ Moved(w, "fail"))
  <2>1. CASE Idle(w)
    BY <1>6, <1>7, <2>1, IdleLeases
  <2>2. CASE Goto(w, "fail")
    <3>1. /\ "fail" \in Pcs \ (Unclaimed \cup Building \cup Publishing \cup RemovePcs)
          /\ wk[w].pc \notin Unclaimed
      BY <1>1 DEF Pcs, Unclaimed, Building, Publishing, RemovePcs
    <3>2. QED BY <1>6, <1>7, <2>2, <3>1, GotoLeases
  <2>3. QED BY <2>1, <2>2 DEF MarkFailed
<1>9. QED BY <1>1, <1>2, <1>3, <1>5, <1>6, <1>8

(* A deletion that returns lets the worker go on that awaits it. *)
LEMMA DeletedLeases ==
    ASSUME LeaseParts, NEW w \in Workers, NEW call, Deleted(w, call),
           RestTypes, GensKeep, UNCHANGED <<op, published>>
    PROVE  /\ LeaseParts' /\ (\A x \in Workers : MayOnlyKeep(x))
           /\ \/ UNCHANGED wk
              \/ /\ call = Awaited(w)
                 /\ \/ wk[w].pc = "drop" /\ Moved(w, "dropped")
                    \/ wk[w].pc = "purging" /\ Moved(w, "purged")
                    \/ wk[w].pc = "sweep_drop" /\ Moved(w, "sweep_mark")
<1>1. CASE UNCHANGED wk
  BY <1>1, StillLeases
<1>2. CASE /\ wk[w].pc \in {"drop", "purging", "sweep_drop"} /\ call = Awaited(w)
           /\ Goto(w, NextPc(wk[w].pc))
  <2>1. /\ {"dropped", "purged", "sweep_mark"} \subseteq Pcs
        /\ {"dropped", "purged"} \cap (Unclaimed \cup Building \cup Publishing) = {}
        /\ "dropped" \notin RemovePcs
    BY DEF Pcs, Unclaimed, Building, Publishing, RemovePcs
  <2>2. CASE wk[w].pc = "drop"
    <3>1. Goto(w, "dropped")
      BY <1>2, <2>2 DEF NextPc
    <3>2. wk[w].pc \notin Unclaimed
      BY <2>2 DEF Unclaimed
    <3>3. QED BY <1>2, <2>1, <2>2, <3>1, <3>2, GotoLeases
  <2>3. CASE wk[w].pc = "purging"
    <3>1. Goto(w, "purged")
      BY <1>2, <2>3 DEF NextPc
    <3>2. wk[w].pc \notin Unclaimed /\ wk[w].pc \in RemovePcs
      BY <2>3 DEF Unclaimed, RemovePcs
    <3>3. QED BY <1>2, <2>1, <2>3, <3>1, <3>2, GotoLeases
  <2>4. CASE wk[w].pc = "sweep_drop"
    <3>1. Goto(w, "sweep_mark")
      BY <1>2, <2>4 DEF NextPc
    <3>2. Moved(w, "sweep_mark")
      BY <2>1, <3>1, GotoMoves DEF LeaseParts
    <3>3. Fit(w)
      BY <2>4, <3>2 DEF Fit, Moved, LeaseParts, WorkerInv, WorkerOK, Unclaimed
    <3>4. \A x \in Workers : Fit(x)
      BY <3>2, <3>3, StillFits DEF LeaseParts, Moved, Others
    <3>5. TypeOK'
      BY <3>2 DEF LeaseParts, TypeOK, RestTypes, Moved
    <3>6. QED BY <1>2, <2>4, <3>2, <3>4, <3>5, StepKeeps
  <2>5. QED BY <1>2, <2>2, <2>3, <2>4
<1>3. QED BY <1>1, <1>2 DEF Deleted

(* A thread that drops a collection keeps the leases; its worker goes on   *)
(* only if it waits for this thread.                                       *)
LEMMA IndexDropLeases ==
    ASSUME LeaseParts, NEW w \in Workers, NEW g \in Gens, IndexDrop(w, g)
    PROVE  /\ LeaseParts' /\ (\A x \in Workers : MayOnlyKeep(x))
           /\ \/ UNCHANGED wk
              \/ /\ <<"drop", g, w, {}>> = Awaited(w)
                 /\ \/ wk[w].pc = "drop" /\ Moved(w, "dropped")
                    \/ wk[w].pc = "purging" /\ Moved(w, "purged")
                    \/ wk[w].pc = "sweep_drop" /\ Moved(w, "sweep_mark")
<1>1. RestTypes /\ GensKeep /\ UNCHANGED <<op, published>>
  BY DEF IndexDrop, LeaseParts, TypeOK, RestTypes, GensKeep, assetVars, Maybe
<1>2. QED BY <1>1, DeletedLeases DEF IndexDrop

(* The same for a thread that takes versions out of a collection. *)
LEMMA IndexPurgeLeases ==
    ASSUME LeaseParts, NEW w \in Workers, NEW g \in Gens, NEW docs \in SUBSET Versions,
           threads' = threads \ {<<"purge", g, w, docs>>},
           coll' = [coll EXCEPT ![g] = IF @ = None THEN None ELSE @ \ docs],
           Deleted(w, <<"purge", g, w, docs>>),
           UNCHANGED <<assetVars, op, gen, trouble, published>>
    PROVE  /\ LeaseParts' /\ (\A x \in Workers : MayOnlyKeep(x))
           /\ \/ UNCHANGED wk
              \/ /\ <<"purge", g, w, docs>> = Awaited(w)
                 /\ \/ wk[w].pc = "drop" /\ Moved(w, "dropped")
                    \/ wk[w].pc = "purging" /\ Moved(w, "purged")
                    \/ wk[w].pc = "sweep_drop" /\ Moved(w, "sweep_mark")
<1>1. coll' \in [Gens -> Maybe(SUBSET Versions)]
  BY DEF LeaseParts, TypeOK, Maybe
<1>2. RestTypes /\ GensKeep
  BY <1>1 DEF LeaseParts, TypeOK, RestTypes, GensKeep, assetVars
<1>3. QED BY <1>2, DeletedLeases

(* A call that fails keeps the leases. *)
LEMMA CallFailsLeases ==
    ASSUME LeaseParts, NEW w \in Workers,
           NEW pc \in {"drop", "purging", "sweep_drop"},
           NEW then \in {"drop_failed", "remove_failed", "sweep_failed"},
           \/ pc = "drop" /\ then = "drop_failed"
           \/ pc = "purging" /\ then = "remove_failed"
           \/ pc = "sweep_drop" /\ then = "sweep_failed",
           CallFails(w, pc, then)
    PROVE  LeaseParts' /\ (\A x \in Workers : MayOnlyKeep(x)) /\ Moved(w, then) /\ wk[w].pc = pc
<1>1. RestTypes /\ GensKeep /\ UNCHANGED <<op, published>>
  BY RestStays, TroubleCounts DEF LeaseParts, TypeOK, CallFails
<1>2. wk[w].pc = pc
  BY DEF CallFails, At
<1>3. then \in Pcs
  BY DEF Pcs
<1>4. Moved(w, then)
  BY <1>3, GotoMoves DEF LeaseParts, CallFails
<1>5. CASE pc # "sweep_drop"
  <2>1. /\ then \notin Unclaimed \cup Building \cup Publishing /\ wk[w].pc \notin Unclaimed
        /\ then \in RemovePcs => wk[w].pc \in RemovePcs
    BY <1>2, <1>5 DEF Unclaimed, Building, Publishing, RemovePcs
  <2>2. QED BY <1>1, <1>2, <1>3, <2>1, GotoLeases DEF CallFails
<1>6. CASE pc = "sweep_drop"
  <2>1. Fit(w)
    BY <1>2, <1>4, <1>6 DEF Fit, Moved, LeaseParts, WorkerInv, WorkerOK, Unclaimed
  <2>2. \A x \in Workers : Fit(x)
    BY <1>4, <2>1, StillFits DEF LeaseParts, Moved, Others
  <2>3. TypeOK'
    BY <1>1, <1>4 DEF LeaseParts, TypeOK, RestTypes, Moved
  <2>4. QED BY <1>1, <1>2, <1>4, <2>2, <2>3, StepKeeps
<1>7. QED BY <1>5, <1>6

(* Workers that go through a list of generations. *)
LEMMA CalledLeases ==
    ASSUME LeaseParts, NEW w \in Workers, NEW todo \in SUBSET Gens, NEW call \in Calls,
           NEW ids \in SUBSET Versions, NEW pc \in Pcs, NEW end \in Pcs,
           CallNext(w, todo, call, ids, pc, end),
           \/ /\ wk[w].pc \notin Unclaimed /\ pc \notin Unclaimed /\ end \notin Unclaimed
              /\ {pc, end} \cap Building = {} /\ "install" \notin {pc, end}
              /\ {pc, end} \cap RemovePcs # {} => wk[w].pc \in RemovePcs
           \/ wk[w].pc \in Unclaimed /\ pc \in Unclaimed /\ end = "idle",
           space' \in Spaces, skill' \in [Skills -> SkillRows],
           version' \in [Versions -> VersionStates], gen' \in [Gens -> GenRows],
           UNCHANGED <<files, coll, trouble, op, published>>, GensKeep
    PROVE  /\ LeaseParts' /\ (\A x \in Workers : MayOnlyKeep(x))
           /\ Called(w, todo, call, ids, pc, end)
<1>1. Called(w, todo, call, ids, pc, end)
  BY CallNextCalls DEF LeaseParts
<1>2. TypeOK'
  BY <1>1 DEF LeaseParts, TypeOK, Called
<1>3. wk[w].op = None <=> wk[w].pc \in Unclaimed
  BY DEF LeaseParts, WorkerInv, WorkerOK
<1>4. Publishing \subseteq Building /\ "commit" \in Building /\ "idle" \in Unclaimed
  BY DEF Building, Publishing, Unclaimed
<1>5. wk'[w].pc \in {pc, end}
  BY <1>1 DEF Called
<1>6. /\ wk'[w].op = wk[w].op /\ (wk[w].op # None => wk'[w].rev = wk[w].rev)
  <2>1. CASE wk[w].pc \in Unclaimed
    BY <1>1, <1>3, <1>4, <2>1 DEF Called
  <2>2. CASE wk[w].pc \notin Unclaimed
    BY <1>1, <1>4, <2>2 DEF Called
  <2>3. QED BY <2>1, <2>2
<1>7. Fit(w)
  <2>1. CASE wk[w].pc \in Unclaimed
    BY <1>3, <1>4, <1>5, <1>6, <2>1 DEF Fit
  <2>2. CASE wk[w].pc \notin Unclaimed
    BY <1>3, <1>4, <1>5, <1>6, <2>2 DEF Fit
  <2>3. QED BY <2>1, <2>2
<1>8. \A x \in Workers : Fit(x)
  BY <1>1, <1>7, StillFits DEF LeaseParts, Called, Others
<1>9. QED BY <1>1, <1>2, <1>8, StepKeeps

(* The cleanup of one generation keeps the leases. *)
LEMMA CleanupLeases ==
    ASSUME LeaseParts, NEW w \in Workers, wk[w].pc \in {"list", "dropped"},
           NEW todo \in SUBSET Gens, Cleanup(w, todo), gen' \in [Gens -> GenRows], GensKeep,
           UNCHANGED <<assetVars, op, coll, trouble, published>>
    PROVE  /\ LeaseParts' /\ (\A x \in Workers : MayOnlyKeep(x))
           /\ Called(w, todo, "drop", {}, "drop", "finish")
<1>1. /\ "drop" \in Pcs /\ "finish" \in Pcs /\ "drop" \in Calls /\ wk[w].pc \notin Unclaimed
      /\ "drop" \notin Unclaimed /\ "finish" \notin Unclaimed
      /\ {"drop", "finish"} \cap Building = {} /\ "install" \notin {"drop", "finish"}
      /\ {"drop", "finish"} \cap RemovePcs = {}
  BY DEF Pcs, Calls, Unclaimed, Building, Publishing, RemovePcs
<1>2. /\ space' \in Spaces /\ skill' \in [Skills -> SkillRows]
      /\ version' \in [Versions -> VersionStates] /\ UNCHANGED <<files, coll, trouble, op, published>>
  BY DEF LeaseParts, TypeOK, assetVars
<1>3. CallNext(w, todo, "drop", {}, "drop", "finish")
  BY DEF Cleanup
<1>4. QED BY <1>1, <1>2, <1>3, CalledLeases

(* The start of a cleanup keeps the leases. *)
LEMMA CleanupStartLeases ==
    ASSUME LeaseParts, NEW w \in Workers, NEW todo \in SUBSET Gens, todo = CleanupTargets(w),
           CleanupStart(w)
    PROVE  /\ LeaseParts' /\ (\A x \in Workers : MayOnlyKeep(x))
           /\ Called(w, todo, "drop", {}, "drop", "finish")
<1>1. wk[w].pc = "list" /\ Cleanup(w, todo) /\ UNCHANGED <<assetVars, op, coll, trouble, published>>
  BY DEF CleanupStart, At
<1>2. gen' \in [Gens -> GenRows] /\ GensKeep
  BY DEF CleanupStart, LeaseParts, TypeOK, GensKeep
<1>3. QED BY <1>1, <1>2, CleanupLeases

(* Marking a cleaned generation keeps the leases. *)
LEMMA CleanupMarkLeases ==
    ASSUME LeaseParts, NEW w \in Workers, NEW todo \in SUBSET Gens, todo = wk[w].todo,
           CleanupMark(w)
    PROVE  /\ LeaseParts' /\ (\A x \in Workers : MayOnlyKeep(x)) /\ GensKeep
           /\ Called(w, todo, "drop", {}, "drop", "finish") /\ Marked(wk[w].gen, "deleted")
<1>1. wk[w].pc = "dropped" /\ Cleanup(w, todo) /\ UNCHANGED <<assetVars, op, coll, trouble, published>>
  BY DEF CleanupMark, At
<1>2. PICK g \in Maybe(Gens) : g = wk[w].gen
  BY DEF LeaseParts, TypeOK, WorkerRows
<1>3. Marked(g, "deleted")
  BY <1>2, GenMarked DEF LeaseParts, CleanupMark, GenStates
<1>4. gen' \in [Gens -> GenRows] /\ GensKeep
  BY <1>3 DEF Marked, GensKeep
<1>5. QED BY <1>1, <1>2, <1>3, <1>4, CleanupLeases

(* A failed cleanup keeps the leases. *)
LEMMA CleanupFailedLeases ==
    ASSUME LeaseParts, NEW w \in Workers, CleanupFailed(w)
    PROVE  /\ LeaseParts' /\ (\A x \in Workers : MayOnlyKeep(x)) /\ GensKeep
           /\ Moved(w, "fail") /\ Marked(wk[w].gen, "cleanup_failed")
<1>1. PICK g \in Maybe(Gens) : g = wk[w].gen
  BY DEF LeaseParts, TypeOK, WorkerRows
<1>2. Marked(g, "cleanup_failed")
  BY <1>1, GenMarked DEF LeaseParts, CleanupFailed, GenStates
<1>3. GensKeep
  BY <1>2 DEF Marked, GensKeep
<1>4. RestTypes /\ UNCHANGED <<op, published>>
  BY <1>2 DEF Marked, CleanupFailed, LeaseParts, TypeOK, RestTypes, assetVars
<1>5. /\ "fail" \in Pcs \ (Unclaimed \cup Building \cup Publishing \cup RemovePcs)
      /\ wk[w].pc \notin Unclaimed
  BY DEF CleanupFailed, At, Pcs, Unclaimed, Building, Publishing, RemovePcs
<1>6. QED BY <1>1, <1>2, <1>3, <1>4, <1>5, GotoLeases DEF CleanupFailed

-----------------------------------------------------------------------------
(* Removals and sweeps *)

(* The rows that a removal writes. *)
LEMMA RemovedTypes ==
    ASSUME TypeOK, NEW ids, NEW st \in VersionStates, VersionsAre(ids, st)
    PROVE  version' \in [Versions -> VersionStates]
BY DEF TypeOK, VersionsAre

(* A removal goes through the generations. *)
LEMMA PurgeLeases ==
    ASSUME LeaseParts, NEW w \in Workers, wk[w].pc \in {"remove", "purged"},
           NEW todo \in SUBSET Gens, NEW ids \in SUBSET Versions, Purge(w, todo, ids),
           space' \in Spaces, skill' \in [Skills -> SkillRows],
           version' \in [Versions -> VersionStates], gen' \in [Gens -> GenRows], GensKeep,
           UNCHANGED <<files, coll, trouble, op, published>>
    PROVE  /\ LeaseParts' /\ (\A x \in Workers : MayOnlyKeep(x))
           /\ Called(w, todo, IF Row(w).kind = "delete_space" THEN "drop" ELSE "purge", ids,
                     "purging", "files")
<1>1. /\ "purging" \in Pcs /\ "files" \in Pcs /\ wk[w].pc \notin Unclaimed
      /\ "purging" \notin Unclaimed /\ "files" \notin Unclaimed
      /\ {"purging", "files"} \cap Building = {} /\ "install" \notin {"purging", "files"}
      /\ wk[w].pc \in RemovePcs
  BY DEF Pcs, Unclaimed, Building, Publishing, RemovePcs
<1>2. PICK call \in Calls : call = IF Row(w).kind = "delete_space" THEN "drop" ELSE "purge"
  BY DEF Calls
<1>3. CallNext(w, todo, call, ids, "purging", "files")
  BY <1>2 DEF Purge
<1>4. LeaseParts' /\ (\A x \in Workers : MayOnlyKeep(x)) /\ Called(w, todo, call, ids, "purging", "files")
  BY <1>1, <1>3, CalledLeases
<1>5. QED BY <1>2, <1>4

(* The start of a removal keeps the leases. *)
LEMMA RemoveStartLeases ==
    ASSUME LeaseParts, NEW w \in Workers, NEW todo \in SUBSET Gens, NEW ids \in SUBSET Versions,
           todo = {g \in Gens : gen[g].state \notin {"new", "deleted"}},
           ids = DoomedVersions(Row(w)), RemoveStart(w)
    PROVE  /\ LeaseParts' /\ (\A x \in Workers : MayOnlyKeep(x))
           /\ Called(w, todo, IF Row(w).kind = "delete_space" THEN "drop" ELSE "purge", ids,
                     "purging", "files")
<1>1. wk[w].pc \in {"remove", "purged"}
  BY DEF RemoveStart, At
<1>2. version' \in [Versions -> VersionStates]
  BY RemovedTypes DEF LeaseParts, RemoveStart, VersionStates
<1>3. skill' \in [Skills -> SkillRows]
  <2>1. \A s \in Skills : skill[s] \in SkillRows /\ skill[s].rev \in Nat
    BY DEF LeaseParts, TypeOK, SkillRows
  <2>2. \A s \in Skills : [state |-> "deleting", active |-> None, rev |-> skill[s].rev + 1] \in SkillRows
    BY <2>1 DEF SkillRows, AssetStates, Maybe
  <2>3. QED BY <2>1, <2>2 DEF RemoveStart
<1>4. space' \in Spaces
  <2>1. ASSUME NEW sp \in Spaces PROVE [sp EXCEPT !.state = "deleting", !.active = None] \in Spaces
    BY DEF Spaces, AssetStates, Maybe
  <2>2. space \in Spaces
    BY DEF LeaseParts, TypeOK
  <2>3. QED BY <2>1, <2>2 DEF RemoveStart
<1>5. gen' \in [Gens -> GenRows] /\ GensKeep
  BY DEF LeaseParts, TypeOK, RemoveStart, GensKeep
<1>6. Purge(w, todo, ids) /\ UNCHANGED <<files, coll, trouble, op, published>>
  BY DEF RemoveStart
<1>7. QED BY <1>1, <1>2, <1>3, <1>4, <1>5, <1>6, PurgeLeases

(* A removal of what is gone already keeps the leases. *)
LEMMA RemoveNothingLeases ==
    ASSUME LeaseParts, NEW w \in Workers, RemoveNothing(w)
    PROVE  LeaseParts' /\ (\A x \in Workers : MayOnlyKeep(x)) /\ Moved(w, "finish")
<1>1. RestTypes /\ GensKeep /\ UNCHANGED <<op, published>>
  BY RestStays DEF LeaseParts, TypeOK, RemoveNothing
<1>2. /\ "finish" \in Pcs \ (Unclaimed \cup Building \cup Publishing \cup RemovePcs)
      /\ wk[w].pc \notin Unclaimed
  BY DEF RemoveNothing, At, Pcs, Unclaimed, Building, Publishing, RemovePcs
<1>3. QED BY <1>1, <1>2, GotoLeases DEF RemoveNothing

(* Marking a purged generation keeps the leases. *)
LEMMA PurgeMarkLeases ==
    ASSUME LeaseParts, NEW w \in Workers, NEW todo \in SUBSET Gens, NEW ids \in SUBSET Versions,
           todo = wk[w].todo, ids = wk[w].ids, PurgeMark(w)
    PROVE  /\ LeaseParts' /\ (\A x \in Workers : MayOnlyKeep(x)) /\ GensKeep
           /\ IF Row(w).kind = "delete_space" THEN Marked(wk[w].gen, "deleted") ELSE UNCHANGED gen
           /\ Called(w, todo, IF Row(w).kind = "delete_space" THEN "drop" ELSE "purge", ids,
                     "purging", "files")
<1>1. wk[w].pc \in {"remove", "purged"}
  BY DEF PurgeMark, At
<1>2. PICK g \in Maybe(Gens) : g = wk[w].gen
  BY DEF LeaseParts, TypeOK, WorkerRows
<1>3. IF Row(w).kind = "delete_space" THEN Marked(g, "deleted") ELSE UNCHANGED gen
  BY <1>2, GenMarked DEF LeaseParts, PurgeMark, GenStates
<1>4. gen' \in [Gens -> GenRows] /\ GensKeep
  <2>1. CASE Row(w).kind = "delete_space"
    BY <1>3, <2>1 DEF Marked, GensKeep
  <2>2. CASE Row(w).kind # "delete_space"
    BY <1>3, <2>2 DEF GensKeep, LeaseParts, TypeOK
  <2>3. QED BY <2>1, <2>2
<1>5. /\ space' \in Spaces /\ skill' \in [Skills -> SkillRows]
      /\ version' \in [Versions -> VersionStates] /\ UNCHANGED <<files, coll, trouble, op, published>>
  BY DEF LeaseParts, TypeOK, PurgeMark, assetVars
<1>6. Purge(w, todo, ids)
  BY DEF PurgeMark
<1>7. QED BY <1>1, <1>2, <1>3, <1>4, <1>5, <1>6, PurgeLeases

(* Removing files keeps the leases. *)
LEMMA RemoveFilesLeases ==
    ASSUME LeaseParts, NEW w \in Workers, RemoveFiles(w)
    PROVE  /\ LeaseParts' /\ (\A x \in Workers : MayOnlyKeep(x))
           /\ Moved(w, "erase") \/ Moved(w, "remove_failed")
<1>1. PICK pc \in {"erase", "remove_failed"} : Goto(w, pc)
  BY DEF RemoveFiles
<1>2. trouble' \in Nat
  BY TroubleCounts DEF LeaseParts, TypeOK, RemoveFiles
<1>3. RestTypes /\ GensKeep /\ UNCHANGED <<op, published>>
  BY <1>2 DEF LeaseParts, TypeOK, RemoveFiles, RestTypes, GensKeep
<1>4. /\ pc \in Pcs \ (Unclaimed \cup Building \cup Publishing)
      /\ wk[w].pc \in RemovePcs /\ wk[w].pc \notin Unclaimed
  BY DEF RemoveFiles, At, Pcs, Unclaimed, Building, Publishing, RemovePcs
<1>5. QED BY <1>1, <1>3, <1>4, GotoLeases

(* The end of a removal keeps the leases. *)
LEMMA RemoveDoneLeases ==
    ASSUME LeaseParts, NEW w \in Workers, RemoveDone(w)
    PROVE  LeaseParts' /\ (\A x \in Workers : MayOnlyKeep(x)) /\ Moved(w, "finish")
<1>1. version' \in [Versions -> VersionStates]
  BY RemovedTypes DEF LeaseParts, RemoveDone, VersionStates
<1>2. skill' \in [Skills -> SkillRows]
  <2>1. ASSUME NEW r \in SkillRows
        PROVE  [r EXCEPT !.state = "deleted", !.active = None] \in SkillRows
    BY DEF SkillRows, AssetStates, Maybe
  <2>2. \A s \in Skills : skill[s] \in SkillRows
    BY DEF LeaseParts, TypeOK
  <2>3. QED BY <2>1, <2>2 DEF RemoveDone
<1>3. space' \in Spaces
  <2>1. ASSUME NEW sp \in Spaces PROVE [sp EXCEPT !.state = "deleted", !.active = None] \in Spaces
    BY DEF Spaces, AssetStates, Maybe
  <2>2. space \in Spaces
    BY DEF LeaseParts, TypeOK
  <2>3. QED BY <2>1, <2>2 DEF RemoveDone
<1>4. RestTypes /\ GensKeep /\ UNCHANGED <<op, published>>
  BY <1>1, <1>2, <1>3 DEF LeaseParts, TypeOK, RemoveDone, RestTypes, GensKeep
<1>5. /\ "finish" \in Pcs \ (Unclaimed \cup Building \cup Publishing \cup RemovePcs)
      /\ wk[w].pc \notin Unclaimed
  BY DEF RemoveDone, At, Pcs, Unclaimed, Building, Publishing, RemovePcs
<1>6. QED BY <1>4, <1>5, GotoLeases DEF RemoveDone

(* A failed removal keeps the leases. *)
LEMMA RemoveFailedLeases ==
    ASSUME LeaseParts, NEW w \in Workers, RemoveFailed(w)
    PROVE  LeaseParts' /\ (\A x \in Workers : MayOnlyKeep(x)) /\ Moved(w, "finish_failed")
<1>1. version' \in [Versions -> VersionStates]
  BY DEF LeaseParts, TypeOK, RemoveFailed, DeleteFailed, VersionStates
<1>2. skill' \in [Skills -> SkillRows]
  <2>1. ASSUME NEW r \in SkillRows
        PROVE  [r EXCEPT !.state = DeleteFailed(r.state)] \in SkillRows
    BY DEF SkillRows, AssetStates, DeleteFailed
  <2>2. skill \in [Skills -> SkillRows]
    BY DEF LeaseParts, TypeOK
  <2>3. PICK s \in Maybe(Skills) : s = Row(w).skill
    <3>1. wk[w].op \in Ops
      BY DEF LeaseParts, TypeOK, WorkerRows, Maybe, RemoveFailed, Locked
    <3>2. QED BY <3>1 DEF LeaseParts, TypeOK, OpRows, Row
  <2>4. \/ skill' = skill
        \/ skill' = [skill EXCEPT ![s] = [skill[s] EXCEPT !.state = DeleteFailed(skill[s].state)]]
    BY <2>2, <2>3 DEF RemoveFailed
  <2>5. QED BY <2>1, <2>2, <2>4
<1>3. space' \in Spaces
  <2>1. ASSUME NEW sp \in Spaces PROVE [sp EXCEPT !.state = DeleteFailed(sp.state)] \in Spaces
    BY DEF Spaces, AssetStates, DeleteFailed
  <2>2. space \in Spaces
    BY DEF LeaseParts, TypeOK
  <2>3. space' = space \/ space' = [space EXCEPT !.state = DeleteFailed(space.state)]
    BY DEF RemoveFailed
  <2>4. QED BY <2>1, <2>2, <2>3
<1>4. RestTypes /\ GensKeep /\ UNCHANGED <<op, published>>
  BY <1>1, <1>2, <1>3 DEF LeaseParts, TypeOK, RemoveFailed, RestTypes, GensKeep
<1>5. /\ "finish_failed" \in Pcs \ (Unclaimed \cup Building \cup Publishing \cup RemovePcs)
      /\ wk[w].pc \notin Unclaimed
  BY DEF RemoveFailed, At, Pcs, Unclaimed, Building, Publishing, RemovePcs
<1>6. QED BY <1>4, <1>5, GotoLeases DEF RemoveFailed

(* A sweep goes through its list. *)
LEMMA SweepLeases ==
    ASSUME LeaseParts, NEW w \in Workers, wk[w].pc \in {"idle", "sweep_mark", "sweep_failed"},
           NEW todo \in SUBSET Gens, Sweep(w, todo), gen' \in [Gens -> GenRows], GensKeep,
           UNCHANGED <<assetVars, op, coll, trouble, published>>
    PROVE  /\ LeaseParts' /\ (\A x \in Workers : MayOnlyKeep(x))
           /\ Called(w, todo, "drop", {}, "sweep_drop", "idle")
<1>1. /\ "sweep_drop" \in Pcs /\ "idle" \in Pcs /\ "drop" \in Calls /\ wk[w].pc \in Unclaimed
      /\ "sweep_drop" \in Unclaimed
  BY DEF Pcs, Calls, Unclaimed
<1>2. /\ space' \in Spaces /\ skill' \in [Skills -> SkillRows]
      /\ version' \in [Versions -> VersionStates] /\ UNCHANGED <<files, coll, trouble, op, published>>
  BY DEF LeaseParts, TypeOK, assetVars
<1>3. CallNext(w, todo, "drop", {}, "sweep_drop", "idle")
  BY DEF Sweep
<1>4. QED BY <1>1, <1>2, <1>3, CalledLeases

(* The start of a sweep keeps the leases. *)
LEMMA SweepStartLeases ==
    ASSUME LeaseParts, NEW w \in Workers, NEW todo \in SUBSET Gens, todo = SweepTargets,
           SweepStart(w)
    PROVE  /\ LeaseParts' /\ (\A x \in Workers : MayOnlyKeep(x))
           /\ Called(w, todo, "drop", {}, "sweep_drop", "idle")
<1>1. wk[w].pc = "idle" /\ Sweep(w, todo) /\ UNCHANGED <<assetVars, op, coll, trouble, published>>
  BY DEF SweepStart, At
<1>2. gen' \in [Gens -> GenRows] /\ GensKeep
  BY DEF SweepStart, LeaseParts, TypeOK, GensKeep
<1>3. QED BY <1>1, <1>2, SweepLeases

(* The targets are generations. *)
LEMMA SweepTargetsAreGens ==
    ASSUME TypeOK
    PROVE  SweepTargets \in SUBSET Gens
<1>1. \A o \in Ops : {r.id : r \in op[o].gens} \subseteq Gens
  BY DEF TypeOK, OpRows
<1>2. QED BY <1>1 DEF SweepTargets, Known

(* Marking a swept generation keeps the leases, and the state of the       *)
(* active generation.                                                      *)
LEMMA SweepMarkLeases ==
    ASSUME LeaseParts, NEW w \in Workers, NEW todo \in SUBSET Gens, todo = wk[w].todo, SweepMark(w)
    PROVE  /\ LeaseParts' /\ (\A x \in Workers : MayOnlyKeep(x)) /\ GensKeep
           /\ Called(w, todo, "drop", {}, "sweep_drop", "idle")
           /\ wk[w].gen \in Gens =>
                \E st \in GenStates :
                    /\ Marked(wk[w].gen, st)
                    /\ gen[wk[w].gen].state = Active => st = Active
                    /\ gen[wk[w].gen].state # Active => st \in {"deleted", "cleanup_failed"}
           /\ wk[w].gen \notin Gens => UNCHANGED gen
<1>1. /\ wk[w].pc \in {"idle", "sweep_mark", "sweep_failed"} /\ Sweep(w, todo)
      /\ UNCHANGED <<assetVars, op, coll, trouble, published>>
  BY DEF SweepMark, At
<1>2. gen \in [Gens -> GenRows]
  BY DEF LeaseParts, TypeOK
<1>3. CASE wk[w].gen \in Gens
  <2>1. PICK g \in Gens : g = wk[w].gen
    BY <1>3
  <2>2. PICK st \in GenStates : st = IF gen[g].state = Active THEN Active
                                     ELSE IF At(w, "sweep_mark") THEN "deleted" ELSE "cleanup_failed"
    BY DEF GenStates
  <2>3. gen' = [gen EXCEPT ![g].state = st]
    BY <1>2, <2>1, <2>2 DEF SweepMark
  <2>4. Marked(g, st)
    BY <2>3, GenMarked DEF LeaseParts, Maybe
  <2>5. GensKeep /\ gen' \in [Gens -> GenRows]
    BY <2>2, <2>4 DEF Marked, GensKeep
  <2>6. gen[g].state = Active => st = Active
    BY <2>2
  <2>7. gen[g].state # Active => st \in {"deleted", "cleanup_failed"}
    BY <2>2
  <2>8. QED BY <1>1, <2>1, <2>4, <2>5, <2>6, <2>7, SweepLeases
<1>4. CASE wk[w].gen \notin Gens
  <2>1. UNCHANGED gen
    BY <1>2, <1>4 DEF SweepMark
  <2>2. GensKeep /\ gen' \in [Gens -> GenRows]
    BY <1>2, <2>1 DEF GensKeep
  <2>3. QED BY <1>1, <1>4, <2>1, <2>2, SweepLeases
<1>5. QED BY <1>3, <1>4

-----------------------------------------------------------------------------
(* The lease part of the invariant *)

(* A request. *)
LEMMA RequestLeases ==
    ASSUME LeaseParts, NEW o \in Ops, Request(o)
    PROVE  LeaseParts'
<1>1. CASE \E s \in Skills : \E v \in Maybe(Of(s)) : RegisterActivate(o, s, v)
  BY <1>1, RegisterActivateLeases
<1>2. CASE \E s \in Skills : RegisterDeleteSkill(o, s)
  BY <1>2, RegisterDeleteSkillLeases
<1>3. CASE \E v \in Versions : RegisterDeleteVersion(o, v)
  BY <1>3, RegisterDeleteVersionLeases
<1>4. CASE \E v \in Versions : \E activate \in BOOLEAN : StagePackage(o, v, activate)
  BY <1>4, StagePackageLeases
<1>5. CASE RegisterReindex(o)
  BY <1>5, RegisterReindexLeases
<1>6. CASE RegisterDeleteSpace(o)
  BY <1>6, RegisterDeleteSpaceLeases
<1>7. CASE SealPackage(o)
  BY <1>7, SealPackageLeases
<1>8. CASE UploadFails(o)
  BY <1>8, UploadFailsLeases
<1>9. CASE Retry(o)
  BY <1>9, RetryLeases
<1>10. QED BY <1>1, <1>2, <1>3, <1>4, <1>5, <1>6, <1>7, <1>8, <1>9 DEF Request

(* What the worker does next. *)
LEMMA WorkerStepLeases ==
    ASSUME LeaseParts, NEW w \in Workers, WorkerStep(w)
    PROVE  LeaseParts'
<1> PICK todo \in SUBSET Gens : todo = wk[w].todo
  BY DEF LeaseParts, TypeOK, WorkerRows
<1>1. CASE Install(w)
  BY <1>1, InstallLeases
<1>2. CASE LeaseLost(w)
  BY <1>2, LeaseLostLeases
<1>3. CASE PublishAgain(w)
  BY <1>3, PublishAgainLeases
<1>4. CASE PublishRefused(w)
  BY <1>4, PublishRefusedLeases
<1>5. CASE PublishUnindexed(w)
  BY <1>5, PublishUnindexedLeases
<1>6. CASE ReadContent(w)
  BY <1>6, ReadContentLeases
<1>7. CASE Seal(w)
  BY <1>7, SealLeases
<1>8. CASE SwitchStart(w)
  BY <1>8, SwitchStartLeases
<1>9. CASE SwitchCommit(w)
  BY <1>9, SwitchCommitLeases
<1>10. CASE SwitchRefused(w)
  BY <1>10, SwitchRefusedLeases
<1>11. CASE MarkFailed(w)
  BY <1>11, MarkFailedLeases
<1>12. CASE CleanupFailed(w)
  BY <1>12, CleanupFailedLeases
<1>13. CASE RemoveNothing(w)
  BY <1>13, RemoveNothingLeases
<1>14. CASE RemoveFiles(w)
  BY <1>14, RemoveFilesLeases
<1>15. CASE RemoveDone(w)
  BY <1>15, RemoveDoneLeases
<1>16. CASE RemoveFailed(w)
  BY <1>16, RemoveFailedLeases
<1>17. CASE Fail(w)
  <2>1. PICK o \in Ops : o = wk[w].op
    BY <1>17 DEF Fail, Locked, LeaseParts, TypeOK, WorkerRows, Maybe
  <2>2. QED BY <1>17, <2>1, FailLeases
<1>18. CASE Finish(w)
  <2>1. PICK o \in Ops : o = wk[w].op
    BY <1>18 DEF Finish, Locked, LeaseParts, TypeOK, WorkerRows, Maybe
  <2>2. QED BY <1>18, <2>1, FinishLeases
<1>19. CASE PublishStart(w)
  <2>1. PICK g \in Gens : g = FreshGen
    BY <1>19 DEF PublishStart, FreshGen
  <2>2. QED BY <1>19, <2>1, PublishStartLeases
<1>20. CASE CleanupStart(w)
  <2>1. PICK targets \in SUBSET Gens : targets = CleanupTargets(w)
    BY DEF CleanupTargets
  <2>2. QED BY <1>20, <2>1, CleanupStartLeases
<1>21. CASE CleanupMark(w)
  BY <1>21, CleanupMarkLeases
<1>22. CASE SweepMark(w)
  BY <1>22, SweepMarkLeases
<1>23. CASE RemoveStart(w)
  <2>1. PICK all \in SUBSET Gens : all = {g \in Gens : gen[g].state \notin {"new", "deleted"}}
    OBVIOUS
  <2>2. DoomedVersions(Row(w)) \subseteq Versions
    <3>1. wk[w].op \in Ops /\ Row(w) \in OpRows
      BY <1>23 DEF RemoveStart, Locked, LeaseParts, TypeOK, WorkerRows, Maybe, Row
    <3>2. Row(w).kind = "delete_version" => Row(w).ver \in Versions
      BY <3>1 DEF LeaseParts, RowInv, RowOK, Row
    <3>3. QED BY <3>2 DEF DoomedVersions
  <2>3. PICK ids \in SUBSET Versions : ids = DoomedVersions(Row(w))
    BY <2>2
  <2>4. QED BY <1>23, <2>1, <2>3, RemoveStartLeases
<1>24. CASE PurgeMark(w)
  <2>1. PICK ids \in SUBSET Versions : ids = wk[w].ids
    BY DEF LeaseParts, TypeOK, WorkerRows
  <2>2. QED BY <1>24, <2>1, PurgeMarkLeases
<1>25. QED BY <1>1, <1>2, <1>3, <1>4, <1>5, <1>6, <1>7, <1>8, <1>9, <1>10, <1>11, <1>12, <1>13,
      <1>14, <1>15, <1>16, <1>17, <1>18, <1>19, <1>20, <1>21, <1>22, <1>23, <1>24 DEF
      WorkerStep

(* An index call takes effect. *)
LEMMA ThreadStepLeases ==
    ASSUME LeaseParts, NEW w \in Workers, NEW g \in Gens, ThreadStep(w, g)
    PROVE  LeaseParts'
<1>1. CASE IndexPurge(w, g)
  BY <1>1, IndexPurgeLeases DEF IndexPurge
<1>2. QED BY <1>1, IndexCreateLeases, IndexInsertLeases, IndexDropLeases DEF ThreadStep

(* An idle worker looks for work. *)
LEMMA PickLeases ==
    ASSUME LeaseParts, NEW w \in Workers, Pick(w)
    PROVE  LeaseParts'
<1>1. CASE SweepStart(w)
  <2>1. PICK targets \in SUBSET Gens : targets = SweepTargets
    BY SweepTargetsAreGens DEF LeaseParts
  <2>2. QED BY <1>1, <2>1, SweepStartLeases
<1>2. QED BY <1>1, ClaimLeases, RecoverStagingLeases DEF Pick

(* Trouble. *)
LEMMA DisturbedLeases ==
    ASSUME LeaseParts, NEW w \in Workers, Disturbed(w)
    PROVE  LeaseParts'
<1>1. CASE DeletionFails(w)
  BY <1>1, CallFailsLeases DEF DeletionFails
<1>2. QED
  BY <1>1, HeartbeatFailsLeases, CrashLeases, BuildFailsLeases, SwitchUnansweredLeases DEF
     Disturbed

(* Nothing happens. *)
LEMMA NothingLeases ==
    ASSUME LeaseParts, UNCHANGED vars
    PROVE  LeaseParts' /\ (\A w \in Workers : MayOnlyKeep(w)) /\ OpsKeep
<1>1. RestTypes /\ GensKeep /\ UNCHANGED <<op, published, wk>>
  BY RestStays DEF LeaseParts, TypeOK, vars, assetVars
<1>2. OpsKeep
  BY <1>1 DEF OpsKeep, LeaseParts, TypeOK, OpRows
<1>3. QED BY <1>1, <1>2, StillLeases

(* Every step keeps the lease part. *)
LEMMA NextLeases ==
    ASSUME LeaseParts, [Next]_vars
    PROVE  LeaseParts'
<1>1. CASE \E o \in Ops : Request(o) \/ HeartbeatLate(o) \/ AbandonedLeaseEnds(o)
  BY <1>1, RequestLeases, HeartbeatLateLeases, AbandonedLeaseEndsLeases
<1>2. CASE EditSpace
  BY <1>2, EditSpaceLeases
<1>3. CASE \E w \in Workers : WorkerStep(w) \/ Pick(w) \/ Disturbed(w)
  BY <1>3, WorkerStepLeases, PickLeases, DisturbedLeases
<1>4. CASE \E w \in Workers, g \in Gens : ThreadStep(w, g)
  BY <1>4, ThreadStepLeases
<1>5. CASE UNCHANGED vars
  BY <1>5, NothingLeases
<1>6. QED BY <1>1, <1>2, <1>3, <1>4, <1>5 DEF Next

(* A fresh space. *)
LEMMA InitLeases ==
    ASSUME Init
    PROVE  LeaseParts
<1>1. NoOp \in OpRows
  BY DEF NoOp, OpRows, OpStates, Maybe
<1>2. IdleWorker \in WorkerRows
  BY DEF IdleWorker, WorkerRows, Pcs, Maybe
<1>3. space \in Spaces
  BY DEF Init, Spaces, AssetStates, Maybe
<1>4. skill \in [Skills -> SkillRows]
  BY DEF Init, SkillRows, AssetStates, Maybe
<1>5. gen \in [Gens -> GenRows]
  BY DEF Init, GenRows, GenStates
<1>6. version \in [Versions -> VersionStates] /\ files \subseteq Versions
  BY DEF Init, VersionStates
<1>7. coll \in [Gens -> Maybe(SUBSET Versions)] /\ threads = {} /\ trouble \in Nat
      /\ published \in [Ops -> Nat]
  BY DEF Init, Maybe
<1>8. TypeOK
  BY <1>1, <1>2, <1>3, <1>4, <1>5, <1>6, <1>7 DEF Init, TypeOK
<1>9. RowInv /\ GenOwnerInv
  BY SkillAssumption DEF Init, NoOp, RowInv, RowOK, GenOwnerInv, Kinds, DeleteKinds
<1>10. WorkerInv
  BY DEF Init, IdleWorker, WorkerInv, WorkerOK, Unclaimed, Building, Publishing, RemovePcs
<1>11. LeaseInv
  BY DEF Init, IdleWorker, LeaseInv, MayPublish, Publishing
<1>12. QED BY <1>8, <1>9, <1>10, <1>11 DEF LeaseParts

(***************************************************************************)
(* A generation belongs to one lease of one operation, and a worker that   *)
(* may publish it has this lease, whatever becomes late, is lost or is     *)
(* tried again (worker.py, claim, locked, publish and switch).             *)
(***************************************************************************)
THEOREM LeasesHold == Spec => []LeaseParts
<1>1. Init => LeaseParts
  BY InitLeases
<1>2. LeaseParts /\ [Next]_vars => LeaseParts'
  BY NextLeases
<1>3. QED BY <1>1, <1>2, PTL DEF Spec

(* The rows, calls and workers keep their types. *)
THEOREM TypesHold == Spec => []TypeOK
<1>1. LeaseParts => TypeOK
  BY DEF LeaseParts
<1>2. QED BY <1>1, LeasesHold, PTL

(***************************************************************************)
(* However often an operation is retried, reclaimed or its commit goes     *)
(* unanswered, it is published at most once: the publishing transaction    *)
(* marks the row it has locked (worker.py, switch and publish).            *)
(***************************************************************************)
THEOREM PublishesOnce == Spec => []PublishedOnce
<1>1. LeaseParts => PublishedOnce
  BY DEF LeaseParts, RowInv, RowOK, PublishedOnce
<1>2. QED BY <1>1, LeasesHold, PTL
=============================================================================

-------------------------- MODULE IngestSystemProofs ------------------------
(***************************************************************************)
(* Proofs about IngestSystem for every number of pages, configurations,    *)
(* requests and executors, and every bound on failures and crashes.        *)
(***************************************************************************)
EXTENDS IngestSystem, FiniteSetTheorems, TLAPS

-----------------------------------------------------------------------------
(* What the operators of the model return *)

(* FreshRev and FreshLog are revisions. *)
LEMMA SpareType ==
    ASSUME NEW used
    PROVE  Spare(used) \in Revs
<1>1. \E r \in Revs : r \notin used \/ Revs \subseteq used
  BY SizeAssumption
<1>2. QED
  BY <1>1 DEF Spare

(* What FreshRev and FreshLog return is a revision. *)
LEMMA FreshType == FreshRev \in Revs /\ FreshLog \in Revs
  BY SpareType DEF FreshRev, FreshLog

(* The number of chunks of one document is a natural number. *)
LEMMA ChunkCount ==
    ASSUME NEW S, S \subseteq Chunks
    PROVE  Cardinality(S) \in Nat
<1>1. IsFiniteSet(Chunks)
  BY FS_Product, SizeAssumption DEF Chunks
<1>2. IsFiniteSet(S)
  BY <1>1, FS_Subset
<1>3. QED
  BY <1>2, FS_CardinalityType

(* Task identifiers of a document row. *)
LEMMA IdsType ==
    ASSUME NEW s \in Sql
    PROVE  Ids(s) \subseteq TaskIds /\ LiveIds(s) \subseteq TaskIds
  BY DEF Sql, Ids, LiveIds, Present, LivePages, TaskIds

(* Registered chunks are chunks of this document. *)
LEMMA RegisteredType ==
    ASSUME NEW s \in Sql
    PROVE  RegisteredChunks(s) \subseteq Chunks
  BY DEF Sql, RegisteredChunks, ChunkPages, Chunks

(* Aggregating, reconciling and marking yield document rows again. *)
LEMMA SyncType ==
    ASSUME NEW s \in Sql
    PROVE  SyncDoc(s) \in Sql
  BY FreshType DEF SyncDoc, Sql, RunStates, DocProgress

(* Counting the stored chunks yields a document row. *)
LEMMA ReconcileType ==
    ASSUME NEW s \in Sql, NEW S, S \subseteq Chunks
    PROVE  Reconcile(s, S) \in Sql
  BY FreshType, ChunkCount DEF Reconcile, Sql

(* Restored cancel flags carry a nonce or nothing, never a note. *)
LEMMA RestoredFlagsType ==
    ASSUME NEW own \in Ops, NEW notes, notes \subseteq FlagNotes,
           flag \in [TaskIds -> Ops \cup {None}]
    PROVE  FlagsRestored(own, notes) \in [TaskIds -> Ops \cup {None}]
<1> SUFFICES ASSUME NEW t \in TaskIds, \E n \in notes : n[1] = t
             PROVE  (CHOOSE n \in notes : n[1] = t)[2] \in Ops \cup {None}
  BY DEF FlagsRestored
<1> DEFINE m == CHOOSE n \in notes : n[1] = t
<1>1. m \in notes
  OBVIOUS
<1>2. QED
  BY <1>1 DEF FlagNotes

(* Marking the tasks that never reached the stream keeps the row format. *)
LEMMA MarkType ==
    ASSUME NEW o \in Ops, sql \in Sql
    PROVE  MarkUnsubmitted(o) \in Sql
<1> DEFINE row == [p \in Pages |-> IF p \in Unexposed(o) THEN [sql.row[p] EXCEPT !.st = "bad"]
                                                        ELSE sql.row[p]]
           log == IF Unexposed(o) = {} THEN sql.log ELSE FreshLog
<1>1. row \in [Pages -> Rows]
  BY DEF Sql, Rows, RowStates
<1>2. log \in Revs
  BY FreshType DEF Sql
<1>3. MarkUnsubmitted(o) = [sql EXCEPT !.log = log, !.row = row]
  BY DEF MarkUnsubmitted, Sql
<1> HIDE DEF row, log
<1>4. [sql EXCEPT !.log = log, !.row = row] \in Sql
  BY <1>1, <1>2 DEF Sql
<1>5. QED
  BY <1>3, <1>4

(* The rows a request plans are document rows. *)
LEMMA NewRowType ==
    ASSUME NEW o \in Ops, NEW p \in Pages, sql \in Sql, op[o].kind \in Kinds,
           op[o].clear \in BOOLEAN
    PROVE  NewRow(o, p) \in Rows
<1>1. sql.row[p] \in Rows
  BY DEF Sql
<1>2. PlannedRow(o, p) \in Rows /\ NoRow \in Rows
  BY DEF PlannedRow, NoRow, Rows, RowStates
<1>3. CancelledRow(sql.row[p]) \in Rows /\ ResetRow(sql.row[p]) \in Rows
  BY <1>1, <1>2 DEF CancelledRow, ResetRow, Rows, RowStates
<1>4. QED
  BY <1>2, <1>3 DEF NewRow, Kinds

(* What a request commits is a document row. *)
LEMMA AppliedType ==
    ASSUME NEW o \in Ops, TypeOK
    PROVE  Applied(o) \in Sql
<1>1. op[o].kind \in Kinds /\ op[o].clear \in BOOLEAN /\ op[o].cfg \in Cfgs
  BY DEF TypeOK, OpStates
<1>2. Cardinality(Retained(o)) \in Nat
  BY ChunkCount DEF TypeOK, Retained
<1>3. [p \in Pages |-> NewRow(o, p)] \in [Pages -> Rows]
  BY <1>1, NewRowType DEF TypeOK
<1> DEFINE run == IF AllReused(o) THEN "3" ELSE op[o].kind
           prog == IF AllReused(o) THEN "one" ELSE "zero"
           num == IF op[o].kind = "1" \/ op[o].clear THEN Cardinality(Retained(o)) ELSE sql.num
           gen == IF op[o].kind = "1" THEN o ELSE sql.gen
<1>4. run \in RunStates /\ prog \in DocProgress
  BY <1>1 DEF RunStates, DocProgress, Kinds
<1>5. num \in Nat /\ gen \in Gens
  BY <1>1, <1>2 DEF TypeOK, Sql, Gens
<1>6. sql \in Sql
  BY DEF TypeOK
<1> HIDE DEF run, prog, num, gen
<1>7. [sql EXCEPT !.run = run, !.prog = prog, !.num = num, !.cfg = op[o].cfg, !.rev = FreshRev,
                  !.log = FreshLog, !.gen = gen, !.row = [p \in Pages |-> NewRow(o, p)]] \in Sql
  BY <1>1, <1>3, <1>4, <1>5, <1>6, FreshType DEF Sql
<1>8. QED
  BY <1>6, <1>7 DEF Applied, run, prog, num, gen, Sql

-----------------------------------------------------------------------------
(* The inductive invariant *)

(***************************************************************************)
(* A request past its snapshot knows the rows it found, past its plan the  *)
(* rows it will commit, and while it replays a journal that journal; an    *)
(* executor that is not waiting has a task.                                *)
(***************************************************************************)
Replaying == {"recover", "recommit", "relock"}
Planned == {"journal", "delete", "record", "commit", "requeue", "submit", "clear"}
Begun == {"plan", "except", "undo", "undosql", "undoflags", "finalize", "closing"} \cup Planned
Knows ==
    \A o \in Ops :
        /\ op[o].pc \in Replaying => op[o].rec \in Journals
        /\ op[o].pc \in Begun => op[o].orig \in Sql
        /\ op[o].pc \in Planned => op[o].appl \in Sql
HasTask == \A w \in Workers : wk[w].pc \notin {"idle", "down"} => wk[w].t \in TaskIds

(***************************************************************************)
(* The row locks are held exactly where the code relies on them.           *)
(***************************************************************************)
OpLocks == {"loading", "recover", "recommit", "begin", "plan", "journal", "delete", "record",
            "commit", "submit", "undo", "undosql"}
WorkerLocks == {"prepare", "native", "register"}
LocksHeld ==
    /\ \A o \in Ops : op[o].pc \in OpLocks => lock = o
    /\ \A w \in Workers : wk[w].pc \in WorkerLocks => lock = w

Typed == TypeOK /\ Knows /\ HasTask
Inv == Typed /\ LocksHeld /\ RowsDoNotMove /\ FencedWrites

-----------------------------------------------------------------------------
(* How a request moves *)

(* A request in state r knows what its place in _operate requires. *)
KnowsAt(r) ==
    /\ r.pc \in Replaying => r.rec \in Journals
    /\ r.pc \in Begun => r.orig \in Sql
    /\ r.pc \in Planned => r.appl \in Sql

(* The rows it leaves behind are the ones it goes on to rely on. *)
RowsFit(r) ==
    /\ r.pc \in {"plan", "journal", "delete", "record", "commit"} => sql' = r.orig
    /\ r.pc = "submit" => sql' = r.appl
    /\ r.pc \in {"undo", "undosql"} => sql' = r.orig \/ (r.appl # None /\ sql' = r.appl)

(* It keeps the lock and the rows, takes a free lock, or ends without it. *)
LockMove(o, r) ==
    \/ lock' = lock /\ sql' = sql /\ (r.pc \in OpLocks => op[o].pc \in OpLocks)
    \/ lock = None /\ lock' = o /\ sql' = sql
    \/ (op[o].pc \in OpLocks \/ lock \in {o, None}) /\ lock' = None /\ r.pc \notin OpLocks

Moves(o, r) == r \in OpStates /\ Become(o, r) /\ KnowsAt(r) /\ RowsFit(r) /\ LockMove(o, r)

(* The other variables keep their types. *)
SharedTyped ==
    /\ sql \in Sql
    /\ guard \in Ops \cup Workers \cup {None}
    /\ store \in SUBSET Chunks
    /\ journal \in Journals \cup {None}
    /\ flag \in [TaskIds -> Ops \cup {None}]
    /\ sent \in SUBSET TaskIds /\ unread \in SUBSET TaskIds
    /\ src \in [TaskIds -> {"none", "open", "ready"}]
    /\ faults \in 0..MaxFaults

(* The parts of the invariant that the step lemmas use. *)
LEMMA Parts ==
    ASSUME Inv
    PROVE  SharedTyped /\ TypeOK /\ Typed
  BY DEF Inv, Typed, TypeOK, SharedTyped

(* The local state of a request, and what it knows at its program counter. *)
LEMMA OpType ==
    ASSUME Inv, NEW o \in Ops
    PROVE  op[o] \in OpStates /\ KnowsAt(op[o])
  BY DEF Inv, Typed, TypeOK, Knows, KnowsAt

(* A move of a request keeps the invariant: whoever else relies on the     *)
(* rows would hold their lock, so the rows change only when nobody does.   *)
LEMMA MoveInv ==
    ASSUME NEW o \in Ops, NEW r, Inv, Moves(o, r), SharedTyped', UNCHANGED <<pel, wk, poll>>,
           crashes' \in 0..MaxCrashes
    PROVE  Inv'
<1>1. /\ op' = [op EXCEPT ![o] = r] /\ r \in OpStates /\ op \in [Ops -> OpStates]
      /\ KnowsAt(r) /\ RowsFit(r) /\ LockMove(o, r)
  BY DEF Moves, Become, Inv, Typed, TypeOK
<1>2. op' \in [Ops -> OpStates] /\ Knows'
  BY <1>1 DEF Inv, Typed, Knows, KnowsAt
<1>3. lock' \in Ops \cup Workers \cup {None}
  BY <1>1 DEF LockMove, Inv, Typed, TypeOK
<1>4. Typed'
  BY <1>2, <1>3 DEF Inv, Typed, TypeOK, SharedTyped, HasTask
<1>5. op'[o] = r /\ \A x \in Ops \ {o} : op'[x] = op[x]
  BY <1>1
<1>6. None \notin Ops \cup Workers /\ o \notin Workers
  BY PartiesAssumption
<1>7. LocksHeld'
  BY <1>1, <1>5, <1>6 DEF LockMove, LocksHeld, Inv
<1>8. RowsDoNotMove'
  <2> SUFFICES ASSUME NEW x \in Ops
      PROVE  /\ op'[x].pc \in {"plan", "journal", "delete", "record", "commit"} => sql' = op'[x].orig
             /\ op'[x].pc = "submit" => sql' = op'[x].appl
             /\ op'[x].pc \in {"undo", "undosql"}
                  => sql' = op'[x].orig \/ (op'[x].appl # None /\ sql' = op'[x].appl)
    BY DEF RowsDoNotMove, UnchangedSql, OwnedSql
  <2>1. CASE x = o
    BY <1>1, <1>5, <2>1 DEF RowsFit
  <2>2. CASE x # o /\ sql' = sql
    BY <1>5, <2>2 DEF Inv, RowsDoNotMove, UnchangedSql, OwnedSql
  <2>3. CASE x # o /\ sql' # sql
    <3>1. lock \in {o, None}
      BY <1>1, <2>3 DEF LockMove, Inv, LocksHeld
    <3>2. op'[x].pc \notin OpLocks
      BY <1>5, <1>6, <2>3, <3>1 DEF Inv, LocksHeld
    <3>3. QED
      BY <3>2 DEF OpLocks
  <2>4. QED
    BY <2>1, <2>2, <2>3
<1>9. FencedWrites'
  <2> SUFFICES ASSUME NEW w \in Workers, wk[w].pc \in {"prepare", "native", "register"}
      PROVE  Fence(sql', wk[w].t)
    BY DEF FencedWrites
  <2>1. lock = w /\ Fence(sql, wk[w].t)
    BY DEF Inv, LocksHeld, FencedWrites, WorkerLocks
  <2>2. sql' = sql
    BY <1>1, <1>6, <2>1 DEF LockMove, Inv, LocksHeld
  <2>3. QED
    BY <2>1, <2>2
<1>10. QED
  BY <1>4, <1>7, <1>8, <1>9 DEF Inv

(* The same for the steps of a request that is alive. *)
LEMMA StepInv ==
    ASSUME NEW o \in Ops, NEW r, Inv, Moves(o, r), SharedTyped', UNCHANGED workerVars
    PROVE  Inv'
<1>1. UNCHANGED <<pel, wk, poll>> /\ crashes' \in 0..MaxCrashes
  BY DEF workerVars, Inv, Typed, TypeOK
<1>2. QED
  BY <1>1, MoveInv

(* A finished or dead request relies on nothing. *)
LEMMA Ends ==
    ASSUME NEW o \in Ops, NEW pc \in {"done", "dead"}, NEW res \in Results, Inv,
           Become(o, Ended(o, pc, res)),
           \/ lock' = lock /\ sql' = sql
           \/ (op[o].pc \in OpLocks \/ lock \in {o, None}) /\ lock' = None
    PROVE  Moves(o, Ended(o, pc, res))
<1>1. op[o].cfg \in Cfgs /\ Stopped(o, res) \in SUBSET FlagNotes
  BY OpType DEF OpStates, Stopped
<1>2. NewOp(op[o].cfg) \in OpStates
  BY <1>1 DEF NewOp, OpStates, Kinds, Results, OpPcs
<1>3. Ended(o, pc, res) \in OpStates /\ Ended(o, pc, res).pc = pc
  BY <1>1, <1>2, ZenonT(30) DEF Ended, OpStates, OpPcs
<1>4. QED
  BY <1>3 DEF Moves, KnowsAt, RowsFit, LockMove, Replaying, Begun, Planned, OpLocks

(* A request that ends keeps the invariant. *)
LEMMA EndInv ==
    ASSUME NEW o \in Ops, NEW res \in Results, Inv, Become(o, Ended(o, "done", res)),
           \/ lock' = lock /\ sql' = sql
           \/ (op[o].pc \in OpLocks \/ lock \in {o, None}) /\ lock' = None,
           SharedTyped', UNCHANGED workerVars
    PROVE  Inv'
<1>1. Moves(o, Ended(o, "done", res))
  BY Ends
<1>2. QED
  BY <1>1, StepInv

(* The exception handler starts without the lock and knows the rows found. *)
LEMMA RaiseInv ==
    ASSUME NEW o \in Ops, NEW r \in OpStates, Inv, Become(o, r), lock' = None,
           op[o].pc \in OpLocks \/ lock = None,
           r.pc \in {"except", "undoflags", "finalize"}, r.orig \in Sql,
           SharedTyped', UNCHANGED workerVars
    PROVE  Inv'
<1>1. Moves(o, r)
  BY DEF Moves, KnowsAt, RowsFit, LockMove, Replaying, Begun, Planned, OpLocks
<1>2. QED
  BY <1>1, StepInv

(* A failing call stays within the bound on failures. *)
LEMMA FaultType ==
    ASSUME Inv, UNCHANGED faults \/ Fault
    PROVE  faults' \in 0..MaxFaults
  BY SizeAssumption DEF Inv, Typed, TypeOK, Fault

(* What a request writes to the journal is recovery material. *)
LEMMA MaterialType ==
    ASSUME NEW o \in Ops, NEW stage, Inv, op[o].orig \in Sql
    PROVE  Material(o, stage) \in Journals
  BY OpType DEF Material, Journals, OpStates

-----------------------------------------------------------------------------
(* Every step of a request keeps the invariant *)

(* Preflight only reads the rows. *)
LEMMA PreflightInv == ASSUME NEW o \in Ops, Inv, Preflight(o) PROVE Inv'
<1>1. PICK kind \in Kinds, clear \in BOOLEAN, cfg \in Cfgs :
        Become(o, [op[o] EXCEPT !.pc = "locking", !.kind = kind, !.clear = clear,
                                !.cfg = cfg, !.rev = sql.rev, !.sel = Ids(sql)])
  BY DEF Preflight
<1> DEFINE r == [op[o] EXCEPT !.pc = "locking", !.kind = kind, !.clear = clear,
                              !.cfg = cfg, !.rev = sql.rev, !.sel = Ids(sql)]
<1>2. sql.rev \in Revs /\ Ids(sql) \in SUBSET TaskIds
  BY Parts, IdsType DEF SharedTyped, Sql
<1>3. op[o] \in OpStates
  BY OpType
<1>4. r \in OpStates /\ r.pc = "locking"
  BY <1>2, <1>3, ZenonT(30) DEF OpStates, OpPcs
<1>5. UNCHANGED <<sql, lock, guard, store, journal, flag, streamVars, src, workerVars, faults>>
  BY DEF Preflight
<1>6. Moves(o, r)
  BY <1>1, <1>4, <1>5 DEF Moves, KnowsAt, RowsFit, LockMove, Replaying, Begun, Planned, OpLocks
<1>7. QED
  BY <1>5, <1>6, StepInv, Parts DEF SharedTyped, streamVars

(* LockRows takes a free lock, or ends the request. *)
LEMMA LockRowsInv == ASSUME NEW o \in Ops, Inv, LockRows(o) PROVE Inv'
<1> DEFINE r == [op[o] EXCEPT !.pc = "loading", !.rev = None]
<1>1. lock = None /\ UNCHANGED <<sql, guard, store, journal, flag, streamVars, src, workerVars, faults>>
  BY DEF LockRows
<1>2. SharedTyped' /\ UNCHANGED workerVars
  BY <1>1, Parts DEF SharedTyped, streamVars
<1>3. CASE Become(o, r) /\ lock' = o
  <2>1. op[o] \in OpStates
    BY OpType
  <2>2. r \in OpStates /\ r.pc = "loading"
    BY <2>1 DEF OpStates, OpPcs
  <2>3. Moves(o, r)
    BY <1>1, <1>3, <2>2
       DEF Moves, KnowsAt, RowsFit, LockMove, Replaying, Begun, Planned, OpLocks
  <2>4. QED
    BY <1>2, <2>3, StepInv
<1>4. CASE Become(o, Ended(o, "done", "refused")) /\ UNCHANGED lock
  BY <1>1, <1>2, <1>4, EndInv DEF Results
<1>5. QED
  BY <1>3, <1>4 DEF LockRows

(* LoadJournal copies the journal while the rows stay locked. *)
LEMMA LoadJournalInv == ASSUME NEW o \in Ops, Inv, LoadJournal(o) PROVE Inv'
<1> DEFINE r == [op[o] EXCEPT !.pc = IF journal = None THEN "begin" ELSE "recover",
                              !.rec = journal]
<1>1. /\ op[o].pc = "loading" /\ Become(o, r)
      /\ UNCHANGED <<sql, lock, guard, store, journal, flag, streamVars, src, workerVars, faults>>
  BY DEF LoadJournal
<1>2. op[o] \in OpStates /\ journal \in Journals \cup {None}
  BY OpType, Parts DEF SharedTyped
<1>3. r \in OpStates /\ r.pc \in {"begin", "recover"} /\ (r.pc = "recover" => r.rec \in Journals)
  <2>1. CASE journal = None
    <3>1. r = [op[o] EXCEPT !.pc = "begin", !.rec = None]
      BY <2>1
    <3>2. QED
      BY <1>2, <3>1, ZenonT(30) DEF OpStates, OpPcs
  <2>2. CASE journal \in Journals /\ journal # None
    <3>1. r = [op[o] EXCEPT !.pc = "recover", !.rec = journal]
      BY <2>2
    <3>2. QED
      BY <1>2, <2>2, <3>1, ZenonT(30) DEF OpStates, OpPcs
  <2>3. QED
    BY <1>2, <2>1, <2>2
<1>4. Moves(o, r)
  BY <1>1, <1>3 DEF Moves, KnowsAt, RowsFit, LockMove, Replaying, Begun, Planned, OpLocks
<1>5. QED
  BY <1>1, <1>4, StepInv, Parts DEF SharedTyped, streamVars

(* SkipJournal goes on under the lock, or refuses and frees it. *)
LEMMA SkipJournalInv == ASSUME NEW o \in Ops, Inv, SkipJournal(o) PROVE Inv'
<1> DEFINE r == [op[o] EXCEPT !.pc = "begin", !.rec = None]
<1>1. /\ op[o].pc = "recover"
      /\ UNCHANGED <<sql, guard, store, flag, streamVars, src, workerVars>>
      /\ journal' \in {journal, None}
      /\ UNCHANGED faults \/ Fault
      /\ \/ Become(o, r) /\ UNCHANGED lock
         \/ Become(o, Ended(o, "done", "refused")) /\ lock' = None
  BY DEF SkipJournal, Refuse
<1>2. SharedTyped' /\ UNCHANGED workerVars
  BY <1>1, Parts, FaultType DEF SharedTyped, streamVars
<1>3. op[o] \in OpStates
  BY OpType
<1>4. CASE Become(o, r) /\ UNCHANGED lock
  <2>1. r \in OpStates /\ r.pc = "begin"
    BY <1>3 DEF OpStates, OpPcs
  <2>2. Moves(o, r)
    BY <1>1, <1>4, <2>1 DEF Moves, KnowsAt, RowsFit, LockMove, Replaying, Begun, Planned, OpLocks
  <2>3. QED
    BY <1>2, <2>2, StepInv
<1>5. CASE Become(o, Ended(o, "done", "refused")) /\ lock' = None
  BY <1>1, <1>2, <1>5, EndInv DEF Results, OpLocks
<1>6. QED
  BY <1>1, <1>4, <1>5

(* ReplayHistory writes store and flags under the row locks. *)
LEMMA ReplayHistoryInv == ASSUME NEW o \in Ops, Inv, ReplayHistory(o) PROVE Inv'
<1> DEFINE j == op[o].rec
           r == [op[o] EXCEPT !.pc = "recommit"]
<1>1. op[o].pc = "recover" /\ UNCHANGED <<sql, journal, streamVars, src, workerVars>>
  BY DEF ReplayHistory
<1>2. op[o] \in OpStates /\ j \in Journals
  BY <1>1, OpType DEF KnowsAt, Replaying
<1>3. j.own \in Ops /\ j.snap \in SUBSET Chunks /\ j.fl \in SUBSET FlagNotes
  BY <1>2 DEF Journals
<1>4. store' \in SUBSET Chunks
  BY <1>3, Parts DEF ReplayHistory, PartlyRestored, SharedTyped
<1>5. flag' \in [TaskIds -> Ops \cup {None}]
  <2>1. flag' = flag \/ \E notes \in SUBSET j.fl : flag' = FlagsRestored(j.own, notes)
    BY DEF ReplayHistory, FlagsFail
  <2>2. QED
    BY <1>3, <2>1, Parts, RestoredFlagsType DEF SharedTyped
<1>6. guard' \in {guard, o} /\ (UNCHANGED faults \/ Fault)
  BY DEF ReplayHistory, FlagsFail
<1>7. SharedTyped' /\ UNCHANGED workerVars
  BY <1>1, <1>4, <1>5, <1>6, Parts, FaultType DEF SharedTyped, streamVars
<1>8. CASE Become(o, r) /\ UNCHANGED lock
  <2>1. r \in OpStates /\ r.pc = "recommit" /\ r.rec = j
    BY <1>2 DEF OpStates, OpPcs
  <2>2. Moves(o, r)
    BY <1>1, <1>2, <1>8, <2>1
       DEF Moves, KnowsAt, RowsFit, LockMove, Replaying, Begun, Planned, OpLocks
  <2>3. QED
    BY <1>7, <2>2, StepInv
<1>9. CASE Become(o, Ended(o, "done", "refused")) /\ lock' = None
  BY <1>1, <1>7, <1>9, EndInv DEF Results, OpLocks
<1>10. QED
  BY <1>8, <1>9 DEF ReplayHistory, Goto, Refuse

(* ReplayCommit writes the journalled rows and frees them. *)
LEMMA ReplayCommitInv == ASSUME NEW o \in Ops, Inv, ReplayCommit(o) PROVE Inv'
<1> DEFINE r == [op[o] EXCEPT !.pc = "relock"]
<1>1. /\ op[o].pc = "recommit" /\ lock' = None
      /\ UNCHANGED <<store, journal, flag, streamVars, src, workerVars>>
      /\ sql' \in {sql, op[o].rec.orig} /\ guard' \in {guard, None}
      /\ UNCHANGED faults \/ Fault
      /\ Become(o, r) \/ Become(o, Ended(o, "done", "refused"))
  BY DEF ReplayCommit, Release, Goto
<1>2. op[o] \in OpStates /\ op[o].rec \in Journals
  BY <1>1, OpType DEF KnowsAt, Replaying
<1>3. op[o].rec.orig \in Sql
  BY <1>2 DEF Journals
<1>4. SharedTyped' /\ UNCHANGED workerVars
  BY <1>1, <1>3, Parts, FaultType DEF SharedTyped, streamVars
<1>5. CASE Become(o, r)
  <2>1. r \in OpStates /\ r.pc = "relock" /\ r.rec = op[o].rec
    BY <1>2 DEF OpStates, OpPcs
  <2>2. Moves(o, r)
    BY <1>1, <1>2, <1>5, <2>1
       DEF Moves, KnowsAt, RowsFit, LockMove, Replaying, Begun, Planned, OpLocks
  <2>3. QED
    BY <1>4, <2>2, StepInv
<1>6. CASE Become(o, Ended(o, "done", "refused"))
  BY <1>1, <1>4, <1>6, EndInv DEF Results, OpLocks
<1>7. QED
  BY <1>1, <1>5, <1>6

(* ReplayRelock takes the free lock only on the restored rows. *)
LEMMA ReplayRelockInv == ASSUME NEW o \in Ops, Inv, ReplayRelock(o) PROVE Inv'
<1> DEFINE r == [op[o] EXCEPT !.pc = "begin", !.rec = None]
<1>1. /\ op[o].pc = "relock"
      /\ UNCHANGED <<sql, store, flag, streamVars, src, workerVars>>
      /\ journal' \in {journal, None} /\ guard' \in {guard, None}
      /\ UNCHANGED faults \/ Fault
      /\ \/ Become(o, r) /\ lock = None /\ lock' = o
         \/ Become(o, Ended(o, "done", "refused")) /\ UNCHANGED lock
  BY DEF ReplayRelock, Release
<1>2. SharedTyped' /\ UNCHANGED workerVars
  BY <1>1, Parts, FaultType DEF SharedTyped, streamVars
<1>3. CASE Become(o, r) /\ lock = None /\ lock' = o
  <2>1. op[o] \in OpStates
    BY OpType
  <2>2. r \in OpStates /\ r.pc = "begin"
    BY <2>1 DEF OpStates, OpPcs
  <2>3. Moves(o, r)
    BY <1>1, <1>3, <2>2 DEF Moves, KnowsAt, RowsFit, LockMove, Replaying, Begun, Planned, OpLocks
  <2>4. QED
    BY <1>2, <2>3, StepInv
<1>4. CASE Become(o, Ended(o, "done", "refused")) /\ UNCHANGED lock
  <2>1. lock' = lock /\ sql' = sql
    BY <1>1, <1>4
  <2>2. "refused" \in Results
    BY DEF Results
  <2>3. QED
    BY <1>2, <1>4, <2>1, <2>2, EndInv
<1>5. QED
  BY <1>1, <1>3, <1>4

(* Begin remembers the rows it holds. *)
LEMMA BeginInv == ASSUME NEW o \in Ops, Inv, Begin(o) PROVE Inv'
<1>1. op[o].pc = "begin" /\ UNCHANGED <<sql, guard, store, journal, streamVars, src, workerVars>>
  BY DEF Begin
<1>2. op[o] \in OpStates /\ sql \in Sql /\ flag \in [TaskIds -> Ops \cup {None}]
  BY OpType, Parts DEF SharedTyped
<1>3. LiveIds(sql) \subseteq TaskIds
  BY <1>2, IdsType
<1>4. flag' \in [TaskIds -> Ops \cup {None}] /\ (UNCHANGED faults \/ Fault)
  BY <1>2 DEF Begin
<1>5. SharedTyped' /\ UNCHANGED workerVars
  BY <1>1, <1>4, Parts, FaultType DEF SharedTyped, streamVars
<1>6. PICK pc \in {"plan", "except"}, fl \in SUBSET FlagNotes :
        /\ Become(o, [op[o] EXCEPT !.pc = pc, !.orig = sql, !.fl = fl])
        /\ IF pc = "plan" THEN lock' = lock ELSE lock' = None
  <2> DEFINE notes == {<<t, flag[t]>> : t \in LiveIds(sql)}
  <2>1. notes \in SUBSET FlagNotes /\ op[o].fl \in SUBSET FlagNotes
    BY <1>2, <1>3 DEF FlagNotes, OpStates
  <2>2. \A pc \in {"plan", "except"} :
          [op[o] EXCEPT !.pc = pc, !.orig = sql] = [op[o] EXCEPT !.pc = pc, !.orig = sql, !.fl = op[o].fl]
    BY <1>2 DEF OpStates
  <2>3. \/ /\ Become(o, [op[o] EXCEPT !.pc = "except", !.orig = sql]) /\ lock' = None
        \/ /\ Become(o, [op[o] EXCEPT !.pc = "plan", !.orig = sql]) /\ lock' = lock
        \/ /\ Become(o, [op[o] EXCEPT !.pc = "plan", !.orig = sql, !.fl = notes]) /\ lock' = lock
        \/ /\ Become(o, [op[o] EXCEPT !.pc = "except", !.orig = sql, !.fl = notes]) /\ lock' = None
    BY DEF Begin
  <2> HIDE DEF notes
  <2>4. QED
    BY <2>1, <2>2, <2>3
<1> DEFINE r == [op[o] EXCEPT !.pc = pc, !.orig = sql, !.fl = fl]
<1>7. r \in OpStates /\ r.pc = pc /\ r.orig = sql
  BY <1>2, <1>6, ZenonT(30) DEF OpStates, OpPcs
<1>8. CASE pc = "plan"
  <2>1. Moves(o, r)
    BY <1>1, <1>2, <1>6, <1>7, <1>8
       DEF Moves, KnowsAt, RowsFit, LockMove, Replaying, Begun, Planned, OpLocks
  <2>2. QED
    BY <1>5, <2>1, StepInv
<1>9. CASE pc = "except"
  <2>1. op[o].pc \in OpLocks /\ Become(o, r) /\ lock' = None /\ r.pc = "except" /\ r.orig \in Sql
    BY <1>1, <1>2, <1>6, <1>7, <1>9 DEF OpLocks
  <2>2. QED
    BY <1>5, <1>7, <2>1, RaiseInv
<1>10. QED
  BY <1>6, <1>8, <1>9

(* Plan computes the rows to commit from the rows it holds. *)
LEMMA PlanInv == ASSUME NEW o \in Ops, Inv, Plan(o) PROVE Inv'
<1>1. /\ op[o].pc = "plan" /\ op[o].pc \in OpLocks
      /\ UNCHANGED <<sql, guard, store, journal, flag, streamVars, src, workerVars, faults>>
  BY DEF Plan, OpLocks
<1>2. SharedTyped' /\ UNCHANGED workerVars
  BY <1>1, Parts DEF SharedTyped, streamVars
<1>3. op[o] \in OpStates /\ op[o].orig \in Sql /\ sql = op[o].orig
  BY <1>1, OpType DEF KnowsAt, Begun, Inv, RowsDoNotMove
<1>4. CASE Raise(o)
  <2> DEFINE r == [op[o] EXCEPT !.pc = "except"]
  <2>1. r \in OpStates /\ r.pc = "except" /\ r.orig \in Sql
    BY <1>3 DEF OpStates, OpPcs
  <2>2. QED
    BY <1>1, <1>2, <1>4, <2>1, RaiseInv DEF Raise, Goto
<1>5. CASE Become(o, Ended(o, "done", "ok")) /\ lock' = None
  BY <1>1, <1>2, <1>5, EndInv DEF Results
<1>6. ASSUME NEW pc \in {"journal", "commit"}, NEW snap \in SUBSET Chunks, lock' = lock,
             Become(o, [op[o] EXCEPT !.pc = pc, !.snap = snap, !.appl = Applied(o)])
      PROVE  Inv'
  <2> DEFINE r == [op[o] EXCEPT !.pc = pc, !.snap = snap, !.appl = Applied(o)]
  <2>1. Applied(o) \in Sql
    BY AppliedType, Parts
  <2>2. /\ r \in OpStates /\ r.pc \in {"journal", "commit"} /\ r.orig = op[o].orig
        /\ r.appl = Applied(o)
    BY <1>3, <2>1 DEF OpStates, OpPcs
  <2>3. Moves(o, r)
    BY <1>1, <1>3, <1>6, <2>1, <2>2
       DEF Moves, KnowsAt, RowsFit, LockMove, Replaying, Begun, Planned, OpLocks
  <2>4. QED
    BY <1>2, <2>3, StepInv
<1>7. store \in SUBSET Chunks
  BY Parts DEF SharedTyped
<1> DEFINE pc == IF op[o].clear \/ Obsolete(o) # {} THEN "journal" ELSE "commit"
           snap == IF op[o].kind = "1" \/ op[o].clear THEN store ELSE {}
<1>8. pc \in {"journal", "commit"} /\ snap \in SUBSET Chunks
  BY <1>7
<1>9. \/ Raise(o)
      \/ Become(o, Ended(o, "done", "ok")) /\ lock' = None
      \/ lock' = lock /\ Become(o, [op[o] EXCEPT !.pc = pc, !.snap = snap, !.appl = Applied(o)])
  BY DEF Plan
<1> HIDE DEF pc, snap
<1>10. QED
  BY <1>4, <1>5, <1>6, <1>8, <1>9

(* CreateJournal writes the journal under the row locks. *)
LEMMA CreateJournalInv == ASSUME NEW o \in Ops, Inv, CreateJournal(o) PROVE Inv'
<1>1. /\ op[o].pc = "journal" /\ op[o].pc \in OpLocks
      /\ UNCHANGED <<sql, store, flag, streamVars, src, workerVars>>
      /\ journal' \in {journal, None, Material(o, "bare")}
      /\ guard' \in {guard, o} /\ (UNCHANGED faults \/ Fault)
  BY DEF CreateJournal, OpLocks
<1>2. /\ op[o] \in OpStates /\ op[o].orig \in Sql /\ op[o].appl \in Sql
      /\ sql = op[o].orig
  BY <1>1, OpType DEF KnowsAt, Begun, Planned, Inv, RowsDoNotMove
<1>3. SharedTyped' /\ UNCHANGED workerVars
  BY <1>1, <1>2, Parts, FaultType, MaterialType DEF SharedTyped, streamVars
<1>4. CASE Become(o, [op[o] EXCEPT !.pc = "delete", !.jn = "bare"]) /\ lock' = lock
  <2> DEFINE r == [op[o] EXCEPT !.pc = "delete", !.jn = "bare"]
  <2>1. r \in OpStates /\ r.pc = "delete" /\ r.orig = op[o].orig /\ r.appl = op[o].appl
    BY <1>2 DEF OpStates, OpPcs
  <2>2. Moves(o, r)
    BY <1>1, <1>2, <1>4, <2>1
       DEF Moves, KnowsAt, RowsFit, LockMove, Replaying, Begun, Planned, OpLocks
  <2>3. QED
    BY <1>3, <2>2, StepInv
<1>5. CASE Become(o, [op[o] EXCEPT !.pc = "except", !.jn = "bare"]) /\ lock' = None
  <2> DEFINE r == [op[o] EXCEPT !.pc = "except", !.jn = "bare"]
  <2>1. r \in OpStates /\ r.pc = "except" /\ r.orig \in Sql
    BY <1>2 DEF OpStates, OpPcs
  <2>2. QED
    BY <1>1, <1>3, <1>5, <2>1, RaiseInv
<1>6. QED
  BY <1>4, <1>5 DEF CreateJournal

(* DeleteHistory touches the store only. *)
LEMMA DeleteHistoryInv == ASSUME NEW o \in Ops, Inv, DeleteHistory(o) PROVE Inv'
<1>1. /\ op[o].pc = "delete" /\ op[o].pc \in OpLocks
      /\ UNCHANGED <<sql, guard, journal, flag, streamVars, src, workerVars>>
      /\ store' \subseteq store /\ (UNCHANGED faults \/ Fault)
  BY DEF DeleteHistory, OpLocks
<1>2. /\ op[o] \in OpStates /\ op[o].orig \in Sql /\ op[o].appl \in Sql
      /\ sql = op[o].orig
  BY <1>1, OpType DEF KnowsAt, Begun, Planned, Inv, RowsDoNotMove
<1>3. SharedTyped' /\ UNCHANGED workerVars
  BY <1>1, Parts, FaultType DEF SharedTyped, streamVars
<1>4. CASE Become(o, [op[o] EXCEPT !.pc = "record", !.chg = TRUE]) /\ lock' = lock
  <2> DEFINE r == [op[o] EXCEPT !.pc = "record", !.chg = TRUE]
  <2>1. r \in OpStates /\ r.pc = "record" /\ r.orig = op[o].orig /\ r.appl = op[o].appl
    BY <1>2 DEF OpStates, OpPcs
  <2>2. Moves(o, r)
    BY <1>1, <1>2, <1>4, <2>1
       DEF Moves, KnowsAt, RowsFit, LockMove, Replaying, Begun, Planned, OpLocks
  <2>3. QED
    BY <1>3, <2>2, StepInv
<1>5. CASE Become(o, [op[o] EXCEPT !.pc = "except", !.chg = TRUE]) /\ lock' = None
  <2> DEFINE r == [op[o] EXCEPT !.pc = "except", !.chg = TRUE]
  <2>1. r \in OpStates /\ r.pc = "except" /\ r.orig \in Sql
    BY <1>2 DEF OpStates, OpPcs
  <2>2. QED
    BY <1>1, <1>3, <1>5, <2>1, RaiseInv
<1>6. QED
  BY <1>4, <1>5 DEF DeleteHistory

(* RecordApplied touches the journal only. *)
LEMMA RecordAppliedInv == ASSUME NEW o \in Ops, Inv, RecordApplied(o) PROVE Inv'
<1>1. /\ op[o].pc = "record" /\ op[o].pc \in OpLocks
      /\ UNCHANGED <<sql, guard, store, flag, streamVars, src, workerVars>>
      /\ journal' \in {journal, Material(o, "full")} /\ (UNCHANGED faults \/ Fault)
  BY DEF RecordApplied, OpLocks
<1>2. /\ op[o] \in OpStates /\ op[o].orig \in Sql /\ op[o].appl \in Sql
      /\ sql = op[o].orig
  BY <1>1, OpType DEF KnowsAt, Begun, Planned, Inv, RowsDoNotMove
<1>3. SharedTyped' /\ UNCHANGED workerVars
  BY <1>1, <1>2, Parts, FaultType, MaterialType DEF SharedTyped, streamVars
<1>4. CASE Become(o, [op[o] EXCEPT !.pc = "commit", !.jn = "full"]) /\ lock' = lock
  <2> DEFINE r == [op[o] EXCEPT !.pc = "commit", !.jn = "full"]
  <2>1. r \in OpStates /\ r.pc = "commit" /\ r.orig = op[o].orig /\ r.appl = op[o].appl
    BY <1>2 DEF OpStates, OpPcs
  <2>2. Moves(o, r)
    BY <1>1, <1>2, <1>4, <2>1
       DEF Moves, KnowsAt, RowsFit, LockMove, Replaying, Begun, Planned, OpLocks
  <2>3. QED
    BY <1>3, <2>2, StepInv
<1>5. CASE Raise(o)
  <2> DEFINE r == [op[o] EXCEPT !.pc = "except"]
  <2>1. r \in OpStates /\ r.pc = "except" /\ r.orig \in Sql
    BY <1>2 DEF OpStates, OpPcs
  <2>2. QED
    BY <1>1, <1>3, <1>5, <2>1, RaiseInv DEF Raise, Goto
<1>6. QED
  BY <1>4, <1>5 DEF RecordApplied

(* Commit writes the planned rows and frees them. *)
LEMMA CommitInv == ASSUME NEW o \in Ops, Inv, Commit(o) PROVE Inv'
<1>1. /\ op[o].pc = "commit" /\ op[o].pc \in OpLocks /\ lock' = None
      /\ UNCHANGED <<guard, store, journal, flag, streamVars, src, workerVars>>
      /\ sql' \in {sql, op[o].appl} /\ (UNCHANGED faults \/ Fault)
  BY DEF Commit, OpLocks
<1>2. op[o] \in OpStates /\ op[o].orig \in Sql /\ op[o].appl \in Sql
  BY <1>1, OpType DEF KnowsAt, Begun, Planned
<1>3. SharedTyped' /\ UNCHANGED workerVars
  BY <1>1, <1>2, Parts, FaultType DEF SharedTyped, streamVars
<1>4. PICK pc \in {"requeue", "clear", "except"} : Goto(o, pc)
  BY DEF Commit
<1> DEFINE r == [op[o] EXCEPT !.pc = pc]
<1>5. r \in OpStates /\ r.pc = pc /\ r.orig = op[o].orig /\ r.appl = op[o].appl
  BY <1>2 DEF OpStates, OpPcs
<1>6. Moves(o, r)
  BY <1>1, <1>2, <1>4, <1>5
     DEF Goto, Moves, KnowsAt, RowsFit, LockMove, Replaying, Begun, Planned, OpLocks
<1>7. QED
  BY <1>3, <1>6, StepInv

(* Requeue takes the free lock only on the committed rows. *)
LEMMA RequeueInv == ASSUME NEW o \in Ops, Inv, Requeue(o) PROVE Inv'
<1>1. /\ op[o].pc = "requeue"
      /\ UNCHANGED <<sql, guard, store, journal, flag, streamVars, src, workerVars, faults>>
  BY DEF Requeue
<1>2. op[o] \in OpStates /\ op[o].orig \in Sql /\ op[o].appl \in Sql
  BY <1>1, OpType DEF KnowsAt, Begun, Planned
<1>3. SharedTyped' /\ UNCHANGED workerVars
  BY <1>1, Parts, FaultType DEF SharedTyped, streamVars
<1>4. PICK pc \in {"submit", "except"} :
        /\ Goto(o, pc)
        /\ \/ pc = "submit" /\ lock = None /\ lock' = o /\ sql = op[o].appl
           \/ pc = "except" /\ lock' = lock
  BY DEF Requeue, StillOurs
<1> DEFINE r == [op[o] EXCEPT !.pc = pc]
<1>5. r \in OpStates /\ r.pc = pc /\ r.orig = op[o].orig /\ r.appl = op[o].appl
  BY <1>2 DEF OpStates, OpPcs
<1>6. Moves(o, r)
  BY <1>1, <1>2, <1>4, <1>5
     DEF Goto, Moves, KnowsAt, RowsFit, LockMove, Replaying, Begun, Planned, OpLocks
<1>7. QED
  BY <1>3, <1>6, StepInv

(* Submit enqueues under the lock, or fails and frees it. *)
LEMMA SubmitInv == ASSUME NEW o \in Ops, Inv, Submit(o) PROVE Inv'
<1>1. /\ op[o].pc = "submit" /\ op[o].pc \in OpLocks
      /\ UNCHANGED <<sql, guard, store, journal, flag, src, workerVars>>
      /\ UNCHANGED faults \/ Fault
  BY DEF Submit, OpLocks
<1>2. op[o] \in OpStates /\ op[o].orig \in Sql /\ op[o].appl \in Sql /\ sql = op[o].appl
  BY <1>1, OpType DEF KnowsAt, Begun, Planned, Inv, RowsDoNotMove
<1>3. PICK t \in PendingIds(o) :
        /\ sent' \subseteq sent \cup {t} /\ unread' \subseteq unread \cup {t}
        /\ \/ Become(o, [op[o] EXCEPT !.ack = @ \cup {t}]) /\ lock' = lock
           \/ Become(o, [op[o] EXCEPT !.pc = "except"]) /\ lock' = None
           \/ Become(o, [op[o] EXCEPT !.pc = "except", !.unc = {t}]) /\ lock' = None
  BY DEF Submit, streamVars
<1>4. t \in TaskIds
  BY <1>2, IdsType DEF PendingIds
<1>5. SharedTyped' /\ UNCHANGED workerVars
  BY <1>1, <1>3, <1>4, Parts, FaultType DEF SharedTyped
<1>6. CASE Become(o, [op[o] EXCEPT !.ack = @ \cup {t}]) /\ lock' = lock
  <2> DEFINE r == [op[o] EXCEPT !.ack = @ \cup {t}]
  <2>1. r \in OpStates /\ r.pc = "submit" /\ r.orig = op[o].orig /\ r.appl = op[o].appl
    BY <1>1, <1>2, <1>4 DEF OpStates
  <2>2. Moves(o, r)
    BY <1>1, <1>2, <1>6, <2>1
       DEF Moves, KnowsAt, RowsFit, LockMove, Replaying, Begun, Planned, OpLocks
  <2>3. QED
    BY <1>5, <2>2, StepInv
<1>7. CASE Become(o, [op[o] EXCEPT !.pc = "except"]) /\ lock' = None
  <2> DEFINE r == [op[o] EXCEPT !.pc = "except"]
  <2>1. r \in OpStates /\ r.pc = "except" /\ r.orig \in Sql
    BY <1>2 DEF OpStates, OpPcs
  <2>2. QED
    BY <1>1, <1>5, <1>7, <2>1, RaiseInv
<1>8. CASE Become(o, [op[o] EXCEPT !.pc = "except", !.unc = {t}]) /\ lock' = None
  <2> DEFINE r == [op[o] EXCEPT !.pc = "except", !.unc = {t}]
  <2>1. r \in OpStates /\ r.pc = "except" /\ r.orig \in Sql
    BY <1>2, <1>4 DEF OpStates, OpPcs
  <2>2. QED
    BY <1>1, <1>5, <1>8, <2>1, RaiseInv
<1>9. QED
  BY <1>3, <1>6, <1>7, <1>8

(* Submitted frees the rows it enqueued for. *)
LEMMA SubmittedInv == ASSUME NEW o \in Ops, Inv, Submitted(o) PROVE Inv'
<1>1. /\ op[o].pc = "submit" /\ lock' = None
      /\ UNCHANGED <<sql, guard, store, journal, flag, streamVars, src, workerVars>>
      /\ UNCHANGED faults \/ Fault
  BY DEF Submitted
<1>2. op[o] \in OpStates /\ op[o].orig \in Sql /\ op[o].appl \in Sql
  BY <1>1, OpType DEF KnowsAt, Begun, Planned
<1>3. SharedTyped' /\ UNCHANGED workerVars
  BY <1>1, Parts, FaultType DEF SharedTyped, streamVars
<1>4. PICK pc \in {"clear", "except"} : Goto(o, pc)
  BY DEF Submitted
<1> DEFINE r == [op[o] EXCEPT !.pc = pc]
<1>5. r \in OpStates /\ r.pc = pc /\ r.orig = op[o].orig /\ r.appl = op[o].appl
  BY <1>2 DEF OpStates, OpPcs
<1>6. Moves(o, r)
  BY <1>1, <1>2, <1>4, <1>5
     DEF Goto, Moves, KnowsAt, RowsFit, LockMove, Replaying, Begun, Planned, OpLocks
<1>7. QED
  BY <1>3, <1>6, StepInv

(* Places of the exception handler and of the end, which hold no row locks. *)
LEMMA HandlerInv ==
    ASSUME NEW o \in Ops, NEW r \in OpStates, Inv, Become(o, r), lock' = lock, sql' = sql,
           r.pc \in {"except", "undoflags", "finalize", "closing"}, r.orig \in Sql,
           SharedTyped', UNCHANGED workerVars
    PROVE  Inv'
<1>1. Moves(o, r)
  BY DEF Moves, KnowsAt, RowsFit, LockMove, Replaying, Begun, Planned, OpLocks
<1>2. QED
  BY <1>1, StepInv

(* ClearJournal works without the row locks. *)
LEMMA ClearJournalInv == ASSUME NEW o \in Ops, Inv, ClearJournal(o) PROVE Inv'
<1>1. /\ op[o].pc = "clear"
      /\ UNCHANGED <<sql, lock, store, flag, streamVars, src, workerVars>>
      /\ journal' \in {journal, None} /\ guard' \in {guard, None} /\ (UNCHANGED faults \/ Fault)
  BY DEF ClearJournal, ClearFails, Release
<1>2. op[o] \in OpStates /\ op[o].orig \in Sql
  BY <1>1, OpType DEF KnowsAt, Begun, Planned
<1>3. SharedTyped' /\ UNCHANGED workerVars /\ lock' = lock /\ sql' = sql
  BY <1>1, Parts, FaultType DEF SharedTyped, streamVars
<1>4. CASE Become(o, [op[o] EXCEPT !.pc = "closing", !.res = "ok"])
  <2> DEFINE r == [op[o] EXCEPT !.pc = "closing", !.res = "ok"]
  <2>1. "ok" \in Results
    BY DEF Results
  <2>2. r \in OpStates /\ r.pc = "closing" /\ r.orig \in Sql
    BY <1>2, <2>1, ZenonT(30) DEF OpStates, OpPcs
  <2>3. QED
    BY <1>3, <1>4, <2>2, HandlerInv
<1>5. CASE Goto(o, "except")
  <2> DEFINE r == [op[o] EXCEPT !.pc = "except"]
  <2>1. r \in OpStates /\ r.pc = "except" /\ r.orig \in Sql
    BY <1>2 DEF OpStates, OpPcs
  <2>2. QED
    BY <1>3, <1>5, <2>1, HandlerInv DEF Goto
<1>6. QED
  BY <1>4, <1>5 DEF ClearJournal

(* KeepPartial writes the rows while nobody holds them. *)
LEMMA KeepPartialInv == ASSUME NEW o \in Ops, Inv, KeepPartial(o) PROVE Inv'
<1>1. /\ op[o].pc = "except" /\ lock = None /\ sql' \in {sql, MarkUnsubmitted(o)}
      /\ UNCHANGED <<lock, guard, store, journal, flag, streamVars, src, workerVars>>
      /\ UNCHANGED faults \/ Fault
  BY DEF KeepPartial
<1>2. op[o] \in OpStates /\ op[o].orig \in Sql /\ sql' \in Sql
  BY <1>1, OpType, Parts, MarkType DEF KnowsAt, Begun, SharedTyped
<1>3. SharedTyped' /\ UNCHANGED workerVars /\ lock' = None
  BY <1>1, <1>2, Parts, FaultType DEF SharedTyped, streamVars
<1>4. CASE Goto(o, "undoflags")
  <2> DEFINE r == [op[o] EXCEPT !.pc = "undoflags"]
  <2>1. r \in OpStates /\ r.pc = "undoflags" /\ r.orig \in Sql
    BY <1>2 DEF OpStates, OpPcs
  <2>2. QED
    BY <1>1, <1>3, <1>4, <2>1, RaiseInv DEF Goto
<1>5. CASE Become(o, [op[o] EXCEPT !.pc = "finalize", !.failed = TRUE])
  <2> DEFINE r == [op[o] EXCEPT !.pc = "finalize", !.failed = TRUE]
  <2>1. r \in OpStates /\ r.pc = "finalize" /\ r.orig \in Sql
    BY <1>2 DEF OpStates, OpPcs
  <2>2. QED
    BY <1>1, <1>3, <1>5, <2>1, RaiseInv
<1>6. QED
  BY <1>4, <1>5 DEF KeepPartial

(* Compensate takes the free lock only on rows it may undo. *)
LEMMA CompensateInv == ASSUME NEW o \in Ops, Inv, Compensate(o) PROVE Inv'
<1> DEFINE r == [op[o] EXCEPT !.pc = "undo"]
<1>1. /\ op[o].pc = "except" /\ lock = None /\ lock' = o /\ Become(o, r)
      /\ sql = op[o].orig \/ (op[o].appl # None /\ sql = op[o].appl)
      /\ UNCHANGED <<sql, guard, store, journal, flag, streamVars, src, workerVars, faults>>
  BY DEF Compensate, Goto, UnchangedSql, OwnedSql
<1>2. op[o] \in OpStates /\ op[o].orig \in Sql
  BY <1>1, OpType DEF KnowsAt, Begun
<1>3. SharedTyped' /\ UNCHANGED workerVars
  BY <1>1, Parts DEF SharedTyped, streamVars
<1>4. r \in OpStates /\ r.pc = "undo" /\ r.orig = op[o].orig /\ r.appl = op[o].appl
  BY <1>2 DEF OpStates, OpPcs
<1>5. Moves(o, r)
  BY <1>1, <1>2, <1>4
     DEF Moves, KnowsAt, RowsFit, LockMove, Replaying, Begun, Planned, OpLocks
<1>6. QED
  BY <1>3, <1>5, StepInv

(* YieldToLater leaves the rows alone. *)
LEMMA YieldToLaterInv == ASSUME NEW o \in Ops, Inv, YieldToLater(o) PROVE Inv'
<1>1. /\ op[o].pc = "except"
      /\ UNCHANGED <<sql, lock, store, flag, streamVars, src, workerVars>>
      /\ journal' \in {journal, None} /\ guard' \in {guard, None} /\ (UNCHANGED faults \/ Fault)
  BY DEF YieldToLater, ClearFails, Release
<1>2. op[o] \in OpStates /\ op[o].orig \in Sql
  BY <1>1, OpType DEF KnowsAt, Begun
<1>3. SharedTyped' /\ UNCHANGED workerVars /\ lock' = lock /\ sql' = sql
  BY <1>1, Parts, FaultType DEF SharedTyped, streamVars
<1>4. CASE Become(o, [op[o] EXCEPT !.pc = "closing", !.res = "lost"])
  <2> DEFINE r == [op[o] EXCEPT !.pc = "closing", !.res = "lost"]
  <2>1. "lost" \in Results
    BY DEF Results
  <2>2. r \in OpStates /\ r.pc = "closing" /\ r.orig \in Sql
    BY <1>2, <2>1 DEF OpStates, OpPcs
  <2>3. QED
    BY <1>3, <1>4, <2>2, HandlerInv
<1>5. CASE Become(o, [op[o] EXCEPT !.pc = "finalize", !.failed = TRUE])
  <2> DEFINE r == [op[o] EXCEPT !.pc = "finalize", !.failed = TRUE]
  <2>1. r \in OpStates /\ r.pc = "finalize" /\ r.orig \in Sql
    BY <1>2 DEF OpStates, OpPcs
  <2>2. QED
    BY <1>3, <1>5, <2>1, HandlerInv
<1>6. QED
  BY <1>4, <1>5 DEF YieldToLater

(* CompensateBusy leaves the rows alone. *)
LEMMA CompensateBusyInv == ASSUME NEW o \in Ops, Inv, CompensateBusy(o) PROVE Inv'
<1> DEFINE r == [op[o] EXCEPT !.pc = "finalize", !.failed = TRUE]
<1>1. /\ op[o].pc = "except" /\ Become(o, r)
      /\ UNCHANGED <<sql, lock, guard, store, journal, flag, streamVars, src, workerVars>>
      /\ UNCHANGED faults \/ Fault
  BY DEF CompensateBusy
<1>2. op[o] \in OpStates /\ op[o].orig \in Sql
  BY <1>1, OpType DEF KnowsAt, Begun
<1>3. SharedTyped' /\ UNCHANGED workerVars /\ lock' = lock /\ sql' = sql
  BY <1>1, Parts, FaultType DEF SharedTyped, streamVars
<1>4. r \in OpStates /\ r.pc = "finalize" /\ r.orig \in Sql
  BY <1>2 DEF OpStates, OpPcs
<1>5. QED
  BY <1>1, <1>3, <1>4, HandlerInv

(* UndoStore restores the store under the row locks. *)
LEMMA UndoStoreInv == ASSUME NEW o \in Ops, Inv, UndoStore(o) PROVE Inv'
<1>1. /\ op[o].pc = "undo" /\ op[o].pc \in OpLocks
      /\ UNCHANGED <<sql, guard, journal, flag, streamVars, src, workerVars>>
      /\ UNCHANGED faults \/ Fault
  BY DEF UndoStore, OpLocks
<1>2. /\ op[o] \in OpStates /\ op[o].orig \in Sql
      /\ sql = op[o].orig \/ (op[o].appl # None /\ sql = op[o].appl)
  BY <1>1, OpType DEF KnowsAt, Begun, Inv, RowsDoNotMove, UnchangedSql, OwnedSql
<1>3. op[o].snap \in SUBSET Chunks /\ store \in SUBSET Chunks
  BY <1>2, Parts DEF OpStates, SharedTyped
<1>4. store' \in SUBSET Chunks
  BY <1>3 DEF UndoStore, PartlyRestored
<1>5. SharedTyped' /\ UNCHANGED workerVars
  BY <1>1, <1>4, Parts, FaultType DEF SharedTyped, streamVars
<1>6. CASE Goto(o, "undosql") /\ lock' = lock
  <2> DEFINE r == [op[o] EXCEPT !.pc = "undosql"]
  <2>1. r \in OpStates /\ r.pc = "undosql" /\ r.orig = op[o].orig /\ r.appl = op[o].appl
    BY <1>2 DEF OpStates, OpPcs
  <2>2. Moves(o, r)
    BY <1>1, <1>2, <1>6, <2>1
       DEF Goto, Moves, KnowsAt, RowsFit, LockMove, Replaying, Begun, Planned, OpLocks
  <2>3. QED
    BY <1>5, <2>2, StepInv
<1>7. CASE Become(o, [op[o] EXCEPT !.pc = "finalize", !.failed = TRUE]) /\ lock' = None
  <2> DEFINE r == [op[o] EXCEPT !.pc = "finalize", !.failed = TRUE]
  <2>1. r \in OpStates /\ r.pc = "finalize" /\ r.orig \in Sql
    BY <1>2 DEF OpStates, OpPcs
  <2>2. QED
    BY <1>1, <1>5, <1>7, <2>1, RaiseInv
<1>8. QED
  BY <1>6, <1>7 DEF UndoStore

(* UndoSql restores the rows it holds and frees them. *)
LEMMA UndoSqlInv == ASSUME NEW o \in Ops, Inv, UndoSql(o) PROVE Inv'
<1>1. /\ op[o].pc = "undosql" /\ op[o].pc \in OpLocks /\ lock' = None
      /\ UNCHANGED <<guard, store, journal, flag, streamVars, src, workerVars>>
      /\ sql' \in {sql, op[o].orig} /\ (UNCHANGED faults \/ Fault)
  BY DEF UndoSql, OpLocks
<1>2. op[o] \in OpStates /\ op[o].orig \in Sql
  BY <1>1, OpType DEF KnowsAt, Begun
<1>3. SharedTyped' /\ UNCHANGED workerVars
  BY <1>1, <1>2, Parts, FaultType DEF SharedTyped, streamVars
<1>4. CASE Goto(o, "undoflags")
  <2> DEFINE r == [op[o] EXCEPT !.pc = "undoflags"]
  <2>1. r \in OpStates /\ r.pc = "undoflags" /\ r.orig \in Sql
    BY <1>2 DEF OpStates, OpPcs
  <2>2. QED
    BY <1>1, <1>3, <1>4, <2>1, RaiseInv DEF Goto
<1>5. CASE Become(o, [op[o] EXCEPT !.pc = "finalize", !.failed = TRUE])
  <2> DEFINE r == [op[o] EXCEPT !.pc = "finalize", !.failed = TRUE]
  <2>1. r \in OpStates /\ r.pc = "finalize" /\ r.orig \in Sql
    BY <1>2 DEF OpStates, OpPcs
  <2>2. QED
    BY <1>1, <1>3, <1>5, <2>1, RaiseInv
<1>6. QED
  BY <1>4, <1>5 DEF UndoSql

(* UndoFlags restores the flags only. *)
LEMMA UndoFlagsInv == ASSUME NEW o \in Ops, Inv, UndoFlags(o) PROVE Inv'
<1>1. /\ op[o].pc = "undoflags"
      /\ UNCHANGED <<sql, lock, guard, store, journal, streamVars, src, workerVars>>
      /\ \E notes \in SUBSET op[o].fl : flag' = FlagsRestored(o, notes)
      /\ UNCHANGED faults \/ Fault
  BY DEF UndoFlags, FlagsFail
<1>2. op[o] \in OpStates /\ op[o].orig \in Sql
  BY <1>1, OpType DEF KnowsAt, Begun
<1>3. op[o].fl \in SUBSET FlagNotes
  BY <1>2 DEF OpStates
<1>4. flag' \in [TaskIds -> Ops \cup {None}]
  BY <1>1, <1>3, Parts, RestoredFlagsType DEF SharedTyped
<1>5. SharedTyped' /\ UNCHANGED workerVars /\ lock' = lock /\ sql' = sql
  BY <1>1, <1>4, Parts, FaultType DEF SharedTyped, streamVars
<1>6. CASE Goto(o, "finalize")
  <2> DEFINE r == [op[o] EXCEPT !.pc = "finalize"]
  <2>1. r \in OpStates /\ r.pc = "finalize" /\ r.orig \in Sql
    BY <1>2 DEF OpStates, OpPcs
  <2>2. QED
    BY <1>5, <1>6, <2>1, HandlerInv DEF Goto
<1>7. CASE Become(o, [op[o] EXCEPT !.pc = "finalize", !.failed = TRUE])
  <2> DEFINE r == [op[o] EXCEPT !.pc = "finalize", !.failed = TRUE]
  <2>1. r \in OpStates /\ r.pc = "finalize" /\ r.orig \in Sql
    BY <1>2 DEF OpStates, OpPcs
  <2>2. QED
    BY <1>5, <1>7, <2>1, HandlerInv
<1>8. QED
  BY <1>6, <1>7 DEF UndoFlags

(* Finalize decides about the journal only. *)
LEMMA FinalizeInv == ASSUME NEW o \in Ops, Inv, Finalize(o) PROVE Inv'
<1>1. /\ op[o].pc = "finalize"
      /\ UNCHANGED <<sql, lock, store, flag, streamVars, src, workerVars>>
      /\ guard' \in {guard, None} /\ (UNCHANGED faults \/ Fault)
  BY DEF Finalize, Release
<1>2. op[o] \in OpStates /\ op[o].orig \in Sql
  BY <1>1, OpType DEF KnowsAt, Begun
<1>3. FinalJournal(o) \in Journals \cup {None} /\ journal \in Journals \cup {None}
  <2>1. journal \in Journals \cup {None}
    BY Parts DEF SharedTyped
  <2>2. Material(o, op[o].jn) \in Journals
    BY <1>2, MaterialType
  <2>3. \A j \in Journals : [j EXCEPT !.phase = "failed"] \in Journals
    BY DEF Journals
  <2>4. QED
    BY <2>1, <2>2, <2>3 DEF FinalJournal, OwnsJournal
<1>4. PICK res \in {"unknown", "error"} :
        /\ Become(o, [op[o] EXCEPT !.pc = "closing", !.res = res])
        /\ journal' \in {journal, FinalJournal(o)}
  BY DEF Finalize
<1>5. SharedTyped' /\ UNCHANGED workerVars /\ lock' = lock /\ sql' = sql
  BY <1>1, <1>3, <1>4, Parts, FaultType DEF SharedTyped, streamVars
<1> DEFINE r == [op[o] EXCEPT !.pc = "closing", !.res = res]
<1>6. res \in Results
  BY <1>4 DEF Results
<1>7. r \in OpStates /\ r.pc = "closing" /\ r.orig \in Sql
  BY <1>2, <1>6 DEF OpStates, OpPcs
<1>8. QED
  BY <1>4, <1>5, <1>7, HandlerInv

(* Close ends the request. *)
LEMMA CloseInv == ASSUME NEW o \in Ops, Inv, Close(o) PROVE Inv'
<1>1. /\ op[o].pc = "closing" /\ src' = RetiredSrc(o) /\ Become(o, Ended(o, "done", op[o].res))
      /\ UNCHANGED <<sql, lock, guard, store, journal, flag, streamVars, workerVars, faults>>
  BY DEF Close
<1>2. op[o].res \in Results
  BY OpType DEF OpStates
<1>3. src' \in [TaskIds -> {"none", "open", "ready"}]
  BY <1>1, Parts DEF RetiredSrc, SharedTyped
<1>4. SharedTyped' /\ UNCHANGED workerVars /\ lock' = lock /\ sql' = sql
  BY <1>1, <1>3, Parts DEF SharedTyped, streamVars
<1>5. QED
  BY <1>1, <1>2, <1>4, EndInv

(* A crash of the server frees what the request held. *)
LEMMA CrashOpInv == ASSUME NEW o \in Ops, Inv, CrashOp(o) PROVE Inv'
<1>1. /\ Become(o, Ended(o, "dead", "none")) /\ guard' \in {guard, None}
      /\ lock' = IF lock = o THEN None ELSE lock
      /\ crashes < MaxCrashes /\ crashes' = crashes + 1
      /\ UNCHANGED <<sql, store, journal, flag, streamVars, src, pel, wk, poll, faults>>
  BY DEF CrashOp, Release
<1>2. SharedTyped' /\ UNCHANGED <<pel, wk, poll>> /\ sql' = sql
  BY <1>1, Parts DEF SharedTyped, streamVars
<1>3. crashes' \in 0..MaxCrashes
  BY <1>1, SizeAssumption DEF Inv, Typed, TypeOK
<1>4. lock' = lock \/ (lock = o /\ lock' = None)
  BY <1>1
<1>5. "none" \in Results
  BY DEF Results
<1>6. Moves(o, Ended(o, "dead", "none"))
  BY <1>1, <1>2, <1>4, <1>5, Ends
<1>7. QED
  BY <1>2, <1>3, <1>6, MoveInv

(* Every step of a request, its crash included, keeps the invariant. *)
LEMMA OpNextInv == ASSUME NEW o \in Ops, Inv, OpStep(o) \/ CrashOp(o) PROVE Inv'
  BY PreflightInv, LockRowsInv, LoadJournalInv, SkipJournalInv, ReplayHistoryInv,
     ReplayCommitInv, ReplayRelockInv, BeginInv, PlanInv, CreateJournalInv, DeleteHistoryInv,
     RecordAppliedInv, CommitInv, RequeueInv, SubmitInv, SubmittedInv, ClearJournalInv,
     KeepPartialInv, CompensateInv, YieldToLaterInv, CompensateBusyInv, UndoStoreInv,
     UndoSqlInv, UndoFlagsInv, FinalizeInv, CloseInv, CrashOpInv DEF OpStep

-----------------------------------------------------------------------------
(* How an executor moves *)

(* An executor that writes chunks leaves the fence as it needs it. *)
FenceFits(x) == x.pc \in WorkerLocks => Fence(sql', x.t)

(* It keeps the lock and the rows, takes a free lock, or ends without it. *)
WorkerLockMove(w, x) ==
    \/ lock' = lock /\ sql' = sql /\ (x.pc \in WorkerLocks => wk[w].pc \in WorkerLocks)
    \/ lock = None /\ lock' = w /\ sql' = sql
    \/ (wk[w].pc \in WorkerLocks \/ lock \in {w, None}) /\ lock' = None /\ x.pc \notin WorkerLocks

WorkerMoves(w, x) ==
    /\ x \in WorkerStates /\ WkBecome(w, x)
    /\ x.pc \notin {"idle", "down"} => x.t \in TaskIds
    /\ FenceFits(x) /\ WorkerLockMove(w, x)

(* The local state of an executor; a busy one has a task. *)
LEMMA WorkerType ==
    ASSUME Inv, NEW w \in Workers
    PROVE  /\ wk[w] \in WorkerStates /\ pel \in [Workers -> SUBSET TaskIds]
           /\ wk[w].pc \notin {"idle", "down"} => wk[w].t \in TaskIds
  BY DEF Inv, Typed, TypeOK, HasTask

(* A move of an executor keeps the invariant, for the same reason. *)
LEMMA WorkerMoveInv ==
    ASSUME NEW w \in Workers, NEW x, Inv, WorkerMoves(w, x), SharedTyped', UNCHANGED <<op, poll>>,
           pel' \in [Workers -> SUBSET TaskIds], crashes' \in 0..MaxCrashes
    PROVE  Inv'
<1>1. /\ wk' = [wk EXCEPT ![w] = x] /\ x \in WorkerStates /\ wk \in [Workers -> WorkerStates]
      /\ x.pc \notin {"idle", "down"} => x.t \in TaskIds
      /\ FenceFits(x) /\ WorkerLockMove(w, x)
  BY DEF WorkerMoves, WkBecome, Inv, Typed, TypeOK
<1>2. wk' \in [Workers -> WorkerStates] /\ HasTask'
  BY <1>1 DEF Inv, Typed, HasTask
<1>3. lock' \in Ops \cup Workers \cup {None}
  BY <1>1 DEF WorkerLockMove, Inv, Typed, TypeOK
<1>4. Knows'
  BY DEF Inv, Typed, Knows
<1>5. Typed'
  BY <1>2, <1>3, <1>4 DEF Inv, Typed, TypeOK, SharedTyped
<1>6. wk'[w] = x /\ \A v \in Workers \ {w} : wk'[v] = wk[v]
  BY <1>1
<1>7. None \notin Ops \cup Workers /\ w \notin Ops
  BY PartiesAssumption
<1>8. LocksHeld'
  BY <1>1, <1>6, <1>7 DEF WorkerLockMove, LocksHeld, Inv
<1>9. RowsDoNotMove'
  <2> SUFFICES ASSUME NEW o \in Ops
      PROVE  /\ op[o].pc \in {"plan", "journal", "delete", "record", "commit"} => sql' = op[o].orig
             /\ op[o].pc = "submit" => sql' = op[o].appl
             /\ op[o].pc \in {"undo", "undosql"}
                  => sql' = op[o].orig \/ (op[o].appl # None /\ sql' = op[o].appl)
    BY DEF RowsDoNotMove, UnchangedSql, OwnedSql
  <2>1. CASE sql' = sql
    BY <2>1 DEF Inv, RowsDoNotMove, UnchangedSql, OwnedSql
  <2>2. CASE sql' # sql
    <3>1. lock \in {w, None}
      BY <1>1, <2>2 DEF WorkerLockMove, Inv, LocksHeld
    <3>2. op[o].pc \notin OpLocks
      BY <1>7, <3>1 DEF Inv, LocksHeld
    <3>3. QED
      BY <3>2 DEF OpLocks
  <2>3. QED
    BY <2>1, <2>2
<1>10. FencedWrites'
  <2> SUFFICES ASSUME NEW v \in Workers, wk'[v].pc \in {"prepare", "native", "register"}
      PROVE  Fence(sql', wk'[v].t)
    BY DEF FencedWrites
  <2>1. CASE v = w
    BY <1>1, <1>6, <2>1 DEF FenceFits, WorkerLocks
  <2>2. CASE v # w
    <3>1. lock = v /\ Fence(sql, wk[v].t)
      BY <1>6, <2>2 DEF Inv, LocksHeld, FencedWrites, WorkerLocks
    <3>2. sql' = sql
      BY <1>1, <1>7, <2>2, <3>1 DEF WorkerLockMove, Inv, LocksHeld
    <3>3. QED
      BY <1>6, <2>2, <3>1, <3>2
  <2>3. QED
    BY <2>1, <2>2
<1>11. QED
  BY <1>5, <1>8, <1>9, <1>10 DEF Inv

(* The same for steps that neither receive nor acknowledge a message. *)
LEMMA WorkerStepInv ==
    ASSUME NEW w \in Workers, NEW x, Inv, WorkerMoves(w, x), SharedTyped',
           UNCHANGED <<pel, crashes, requestVars>>
    PROVE  Inv'
<1>1. UNCHANGED <<op, poll>> /\ pel' \in [Workers -> SUBSET TaskIds] /\ crashes' \in 0..MaxCrashes
  BY DEF requestVars, Inv, Typed, TypeOK
<1>2. QED
  BY <1>1, WorkerMoveInv

(* Writing a task row keeps the document row typed. *)
RowWritten(s, p, st) == [s EXCEPT !.row[p].st = st, !.log = FreshLog]
(* Writing one task row yields a document row. *)
LEMMA RowWriteType ==
    ASSUME NEW s \in Sql, NEW p \in Pages, NEW st \in RowStates
    PROVE  RowWritten(s, p, st) \in Sql
<1>1. s.row \in [Pages -> Rows]
  BY DEF Sql
<1> DEFINE row == [s.row EXCEPT ![p].st = st]
<1>2. row \in [Pages -> Rows]
  BY <1>1 DEF Rows
<1>3. [s EXCEPT !.row = row, !.log = FreshLog] \in Sql
  BY <1>2, FreshType DEF Sql
<1>4. RowWritten(s, p, st) = [s EXCEPT !.row = row, !.log = FreshLog]
  BY DEF RowWritten, Sql
<1>5. QED
  BY <1>3, <1>4

(* Registering the chunks of a task yields a document row. *)
LEMMA RegisteredRowType ==
    ASSUME NEW w \in Workers, sql \in Sql, store \subseteq Chunks, wk[w].t \in TaskIds
    PROVE  Registered(w) \in Sql
<1> DEFINE s == Reconcile(sql, store)
           row == [s.row EXCEPT ![Page(w)].chunk = TRUE]
<1>1. s \in Sql
  BY ReconcileType
<1>2. Page(w) \in Pages
  BY DEF Page, TaskIds
<1> HIDE DEF s
<1>3. row \in [Pages -> Rows]
  BY <1>1, <1>2 DEF Rows, Sql
<1>4. [s EXCEPT !.row = row, !.log = FreshLog] \in Sql
  BY <1>1, <1>3, FreshType DEF Sql
<1>5. Registered(w) = [s EXCEPT !.row = row, !.log = FreshLog]
  BY <1>1 DEF Registered, Sql, s
<1>6. QED
  BY <1>4, <1>5

-----------------------------------------------------------------------------
(* Every step of an executor keeps the invariant *)

(* Steps to a place outside the fence: rows and lock are left alone, or    *)
(* the rows are written in one transaction, or the lock is given back.     *)
LEMMA OutsideInv ==
    ASSUME NEW w \in Workers, NEW x \in WorkerStates, Inv, WkBecome(w, x),
           \/ lock' = lock /\ sql' = sql
           \/ (wk[w].pc \in WorkerLocks \/ lock = None) /\ lock' = None,
           x.pc \notin WorkerLocks, x.pc \notin {"idle", "down"} => x.t \in TaskIds,
           SharedTyped', UNCHANGED <<pel, crashes, requestVars>>
    PROVE  Inv'
<1>1. WorkerMoves(w, x)
  BY DEF WorkerMoves, FenceFits, WorkerLockMove
<1>2. QED
  BY <1>1, WorkerStepInv

(* Reporting and moving on yield typed executor states. *)
LEMMA GoState ==
    ASSUME NEW w \in Workers, wk[w] \in WorkerStates, NEW pc \in WorkerPcs
    PROVE  /\ [wk[w] EXCEPT !.pc = pc] \in WorkerStates
           /\ [wk[w] EXCEPT !.pc = pc].pc = pc
           /\ [wk[w] EXCEPT !.pc = pc].t = wk[w].t
  BY DEF WorkerStates

(* An executor about to report has only its program counter and stage changed. *)
LEMMA SayState ==
    ASSUME NEW w \in Workers, wk[w] \in WorkerStates, NEW stage \in Stages
    PROVE  /\ [wk[w] EXCEPT !.pc = "report", !.stage = stage] \in WorkerStates
           /\ [wk[w] EXCEPT !.pc = "report", !.stage = stage].pc = "report"
           /\ [wk[w] EXCEPT !.pc = "report", !.stage = stage].t = wk[w].t
  BY DEF WorkerStates, WorkerPcs

(* An executor step to a place outside the fence keeps the invariant. *)
LEMMA GoInv ==
    ASSUME NEW w \in Workers, Inv, wk[w].pc \notin {"idle", "down"},
           NEW pc \in WorkerPcs, pc \notin WorkerLocks, WkGoto(w, pc),
           \/ lock' = lock /\ sql' = sql
           \/ (wk[w].pc \in WorkerLocks \/ lock = None) /\ lock' = None,
           SharedTyped', UNCHANGED <<pel, crashes, requestVars>>
    PROVE  Inv'
<1> DEFINE x == [wk[w] EXCEPT !.pc = pc]
<1>1. x \in WorkerStates /\ x.pc = pc /\ x.t \in TaskIds
  BY WorkerType, GoState
<1>2. QED
  BY <1>1, OutsideInv DEF WkGoto

(* An executor step that goes to report keeps the invariant. *)
LEMMA SayInv ==
    ASSUME NEW w \in Workers, Inv, wk[w].pc \notin {"idle", "down"},
           NEW stage \in Stages, Say(w, stage),
           \/ lock' = lock /\ sql' = sql
           \/ (wk[w].pc \in WorkerLocks \/ lock = None) /\ lock' = None,
           SharedTyped', UNCHANGED <<pel, crashes, requestVars>>
    PROVE  Inv'
<1> DEFINE x == [wk[w] EXCEPT !.pc = "report", !.stage = stage]
<1>1. x \in WorkerStates /\ x.pc = "report" /\ x.t \in TaskIds
  BY WorkerType, SayState
<1>2. QED
  BY <1>1, OutsideInv DEF Say, WorkerLocks

(* Deliver hands a message to an idle executor. *)
LEMMA DeliverInv == ASSUME NEW w \in Workers, Inv, Deliver(w) PROVE Inv'
<1>1. wk[w].pc = "idle" /\ UNCHANGED <<sql, lock, guard, store, src, requestVars, crashes>>
  BY DEF Deliver
<1>2. /\ wk[w] \in WorkerStates /\ pel \in [Workers -> SUBSET TaskIds]
      /\ unread \in SUBSET TaskIds /\ wk[w].replay \in SUBSET TaskIds
  BY WorkerType, Parts DEF WorkerStates, SharedTyped
<1>3. UNCHANGED <<op, poll, sent, journal, flag, faults>> /\ crashes' \in 0..MaxCrashes
  BY <1>1 DEF requestVars, Inv, Typed, TypeOK
<1>4. ASSUME NEW t \in TaskIds, NEW x \in WorkerStates, WkBecome(w, x), x.pc = "got", x.t = t,
             unread' \subseteq unread, pel' \in [Workers -> SUBSET TaskIds]
      PROVE  Inv'
  <2>1. SharedTyped'
    BY <1>1, <1>2, <1>3, <1>4, Parts DEF SharedTyped
  <2>2. WorkerMoves(w, x)
    BY <1>1, <1>4 DEF WorkerMoves, FenceFits, WorkerLockMove, WorkerLocks
  <2>3. QED
    BY <1>3, <1>4, <2>1, <2>2, WorkerMoveInv
<1>5. ASSUME NEW t \in wk[w].replay, UNCHANGED <<unread, pel>>,
             WkBecome(w, [wk[w] EXCEPT !.pc = "got", !.t = t, !.replay = @ \ {t}])
      PROVE  Inv'
  <2> DEFINE x == [wk[w] EXCEPT !.pc = "got", !.t = t, !.replay = @ \ {t}]
  <2>1. t \in TaskIds
    BY <1>2
  <2>2. x \in WorkerStates /\ x.pc = "got" /\ x.t = t
    BY <1>2, <2>1 DEF WorkerStates, WorkerPcs
  <2>3. QED
    BY <1>2, <1>4, <1>5, <2>1, <2>2
<1>6. ASSUME NEW t \in unread, unread' = unread \ {t}, pel' = [pel EXCEPT ![w] = @ \cup {t}],
             WkBecome(w, [wk[w] EXCEPT !.pc = "got", !.t = t])
      PROVE  Inv'
  <2> DEFINE x == [wk[w] EXCEPT !.pc = "got", !.t = t]
  <2>1. t \in TaskIds
    BY <1>2
  <2>2. x \in WorkerStates /\ x.pc = "got" /\ x.t = t
    BY <1>2, <2>1 DEF WorkerStates, WorkerPcs
  <2>3. pel' \in [Workers -> SUBSET TaskIds] /\ unread' \subseteq unread
    BY <1>2, <1>6, <2>1
  <2>4. QED
    BY <1>4, <1>6, <2>1, <2>2, <2>3
<1>7. QED
  BY <1>5, <1>6 DEF Deliver

(* Steps that only look around: Receive, CheckCanceled, ParseFails. *)
LEMMA LookInv ==
    ASSUME NEW w \in Workers, Inv, Receive(w) \/ CheckCanceled(w) \/ ParseFails(w)
    PROVE  Inv'
<1>1. /\ UNCHANGED <<sql, lock, guard, store, pel, unread, src, requestVars, crashes>>
      /\ wk[w].pc \notin {"idle", "down"}
  BY DEF Receive, CheckCanceled, ParseFails
<1>2. SharedTyped' /\ UNCHANGED <<pel, crashes, requestVars>> /\ lock' = lock /\ sql' = sql
  BY <1>1, Parts DEF SharedTyped, requestVars
<1>3. WkGoto(w, "ack") \/ WkGoto(w, "load") \/ Say(w, "parse") \/ Say(w, "fail")
  BY DEF Receive, CheckCanceled, ParseFails
<1>4. /\ {"ack", "load"} \subseteq WorkerPcs /\ "ack" \notin WorkerLocks /\ "load" \notin WorkerLocks
      /\ {"parse", "fail"} \subseteq Stages
  BY DEF WorkerPcs, WorkerLocks, Stages
<1>5. QED
  BY <1>1, <1>2, <1>3, <1>4, GoInv, SayInv

(* GetTask writes a row while nobody holds the lock. *)
LEMMA GetTaskInv == ASSUME NEW w \in Workers, Inv, GetTask(w) PROVE Inv'
<1>1. /\ UNCHANGED <<lock, guard, store, pel, unread, src, requestVars, crashes>>
      /\ wk[w].pc = "load" /\ lock = None
  BY DEF GetTask
<1>2. sql' \in Sql
  <2>1. wk[w].t \in TaskIds /\ sql \in Sql
    BY <1>1, WorkerType, Parts DEF SharedTyped
  <2>2. Page(w) \in Pages /\ "run" \in RowStates
    BY <2>1 DEF Page, TaskIds, RowStates
  <2>3. sql' \in {sql, RowWritten(sql, Page(w), "run")}
    BY DEF GetTask, RowWritten
  <2>4. QED
    BY <2>1, <2>2, <2>3, RowWriteType
<1>3. SharedTyped' /\ UNCHANGED <<pel, crashes, requestVars>> /\ lock' = None
  BY <1>1, <1>2, Parts DEF SharedTyped, requestVars
<1>4. WkGoto(w, "check") \/ WkGoto(w, "ack")
  BY DEF GetTask
<1>5. {"check", "ack"} \subseteq WorkerPcs /\ "check" \notin WorkerLocks /\ "ack" \notin WorkerLocks
  BY DEF WorkerPcs, WorkerLocks
<1>6. QED
  BY <1>1, <1>3, <1>4, <1>5, GoInv

(* Report reads the flag only. *)
LEMMA ReportInv == ASSUME NEW w \in Workers, Inv, Report(w) PROVE Inv'
<1> DEFINE x == [wk[w] EXCEPT !.pc = "write", !.stop = HasCanceled(wk[w].t)]
<1>1. /\ UNCHANGED <<sql, lock, guard, store, pel, unread, src, requestVars, crashes>>
      /\ wk[w].pc = "report" /\ WkBecome(w, x)
  BY DEF Report
<1>2. SharedTyped' /\ UNCHANGED <<pel, crashes, requestVars>> /\ lock' = lock /\ sql' = sql
  BY <1>1, Parts DEF SharedTyped, requestVars
<1>3. wk[w] \in WorkerStates /\ wk[w].t \in TaskIds /\ HasCanceled(wk[w].t) \in BOOLEAN
  BY <1>1, WorkerType DEF HasCanceled
<1>4. x \in WorkerStates /\ x.pc = "write" /\ x.t \in TaskIds
  BY <1>3 DEF WorkerStates, WorkerPcs
<1>5. QED
  BY <1>1, <1>2, <1>4, OutsideInv DEF WorkerLocks

(* WriteProgress writes a row while nobody holds the lock. *)
LEMMA WriteProgressInv == ASSUME NEW w \in Workers, Inv, WriteProgress(w) PROVE Inv'
<1> DEFINE x == [wk[w] EXCEPT !.pc = AfterReport(w), !.stage = "parse", !.stop = FALSE]
<1>1. /\ UNCHANGED <<lock, guard, store, pel, unread, src, requestVars, crashes>>
      /\ wk[w].pc = "write" /\ lock = None /\ WkBecome(w, x)
  BY DEF WriteProgress
<1>2. wk[w] \in WorkerStates /\ wk[w].t \in TaskIds /\ sql \in Sql
  BY <1>1, WorkerType, Parts DEF SharedTyped
<1>3. AfterReport(w) \in {"end", "insert", "count"}
  BY <1>2 DEF AfterReport, WorkerStates, Stages
<1>4. sql' \in Sql
  <2> DEFINE st == Progressed(sql.row[Page(w)].st, Reported(w))
  <2>1. Page(w) \in Pages
    BY <1>2 DEF Page, TaskIds
  <2>2. sql.row \in [Pages -> Rows] /\ sql.row[Page(w)].st \in RowStates
    BY <1>2, <2>1 DEF Sql, Rows
  <2>3. Reported(w) \in {"bad", "done", "run"}
    BY DEF Reported
  <2>4. st \in RowStates
    BY <2>2, <2>3 DEF Progressed, RowStates
  <2>5. sql' \in {sql, RowWritten(sql, Page(w), st)}
    BY <1>2, <2>1, <2>2 DEF WriteProgress, RowWritten, Sql
  <2> HIDE DEF st
  <2>6. QED
    BY <1>2, <2>1, <2>4, <2>5, RowWriteType
<1>5. SharedTyped' /\ UNCHANGED <<pel, crashes, requestVars>> /\ lock' = None
  BY <1>1, <1>4, Parts DEF SharedTyped, requestVars
<1>6. "parse" \in Stages /\ AfterReport(w) \in WorkerPcs /\ AfterReport(w) \notin WorkerLocks
  BY <1>3 DEF Stages, WorkerPcs, WorkerLocks
<1> HIDE DEF AfterReport
<1>7. x \in WorkerStates /\ x.pc = AfterReport(w) /\ x.t \in TaskIds
  BY <1>2, <1>6 DEF WorkerStates
<1>8. QED
  BY <1>1, <1>5, <1>6, <1>7, OutsideInv

(* Passing the fence takes the lock that makes it hold. *)
LEMMA EnterFenceInv == ASSUME NEW w \in Workers, Inv, EnterFence(w) PROVE Inv'
<1>1. /\ UNCHANGED <<sql, guard, store, pel, unread, src, requestVars, crashes>>
      /\ wk[w].pc = "insert" /\ lock = None
  BY DEF EnterFence
<1>2. SharedTyped' /\ UNCHANGED <<pel, crashes, requestVars>> /\ sql' = sql
  BY <1>1, Parts DEF SharedTyped, requestVars
<1>3. CASE Fence(sql, wk[w].t) /\ lock' = w /\ WkGoto(w, "prepare")
  <2> DEFINE x == [wk[w] EXCEPT !.pc = "prepare"]
  <2>1. wk[w] \in WorkerStates /\ wk[w].t \in TaskIds /\ "prepare" \in WorkerPcs
    BY <1>1, WorkerType DEF WorkerPcs
  <2>2. x \in WorkerStates /\ x.pc = "prepare" /\ x.t = wk[w].t
    BY <2>1, GoState
  <2>3. WorkerMoves(w, x)
    BY <1>1, <1>2, <1>3, <2>1, <2>2 DEF WkGoto, WorkerMoves, FenceFits, WorkerLockMove
  <2>4. QED
    BY <1>2, <2>3, WorkerStepInv
<1>4. CASE Say(w, "fail") /\ UNCHANGED lock
  <2>1. "fail" \in Stages
    BY DEF Stages
  <2>2. QED
    BY <1>1, <1>2, <1>4, <2>1, SayInv
<1>5. QED
  BY <1>3, <1>4 DEF EnterFence

(* Inside the fence the executor holds the lock and leaves the rows alone. *)
LEMMA InsideInv ==
    ASSUME NEW w \in Workers, Inv, wk[w].pc \in WorkerLocks, NEW pc \in WorkerLocks, WkGoto(w, pc),
           lock' = lock, sql' = sql, SharedTyped', UNCHANGED <<pel, crashes, requestVars>>
    PROVE  Inv'
<1> DEFINE x == [wk[w] EXCEPT !.pc = pc]
<1>1. wk[w] \in WorkerStates /\ wk[w].t \in TaskIds /\ pc \in WorkerPcs
  BY WorkerType DEF WorkerPcs, WorkerLocks
<1>2. x \in WorkerStates /\ x.pc = pc /\ x.t = wk[w].t
  BY <1>1, GoState
<1>3. Fence(sql, wk[w].t)
  BY DEF Inv, FencedWrites, WorkerLocks
<1>4. WorkerMoves(w, x)
  BY <1>1, <1>2, <1>3 DEF WkGoto, WorkerMoves, FenceFits, WorkerLockMove
<1>5. QED
  BY <1>4, WorkerStepInv

(* PrepareSource stays behind the fence, or leaves it. *)
LEMMA PrepareSourceInv == ASSUME NEW w \in Workers, Inv, PrepareSource(w) PROVE Inv'
<1>1. /\ UNCHANGED <<sql, store, pel, unread, requestVars, crashes>>
      /\ wk[w].pc = "prepare" /\ src' = [src EXCEPT ![wk[w].t] = "open"] /\ guard' \in {guard, w}
      /\ \/ Say(w, "fail") /\ lock' = None
         \/ WkGoto(w, "native") /\ lock' = lock
  BY DEF PrepareSource
<1>2. SharedTyped' /\ UNCHANGED <<pel, crashes, requestVars>> /\ sql' = sql
  BY <1>1, Parts DEF SharedTyped, requestVars
<1>3. {"prepare", "native"} \subseteq WorkerLocks /\ "fail" \in Stages
  BY DEF WorkerLocks, Stages
<1>4. QED
  BY <1>1, <1>2, <1>3, InsideInv, SayInv

(* NativeInsert stays behind the fence. *)
LEMMA NativeInsertInv == ASSUME NEW w \in Workers, Inv, NativeInsert(w) PROVE Inv'
<1>1. /\ UNCHANGED <<sql, lock, guard, pel, unread, src, requestVars, crashes>>
      /\ wk[w].pc = "native" /\ store' = store \cup {ChunkOf(w)} /\ WkGoto(w, "register")
  BY DEF NativeInsert
<1>2. ChunkOf(w) \in Chunks
  <2>1. wk[w].t \in TaskIds /\ sql \in Sql
    BY <1>1, WorkerType, Parts DEF SharedTyped
  <2>2. QED
    BY <2>1 DEF ChunkOf, Page, Chunks, TaskIds, Sql
<1>3. SharedTyped' /\ UNCHANGED <<pel, crashes, requestVars>> /\ lock' = lock /\ sql' = sql
  BY <1>1, <1>2, Parts DEF SharedTyped, requestVars
<1>4. {"native", "register"} \subseteq WorkerLocks
  BY DEF WorkerLocks
<1>5. QED
  BY <1>1, <1>3, <1>4, InsideInv

(* RegisterChunks leaves the fence with its commit. *)
LEMMA RegisterChunksInv == ASSUME NEW w \in Workers, Inv, RegisterChunks(w) PROVE Inv'
<1>1. /\ UNCHANGED <<guard, store, pel, unread, src, requestVars, crashes>>
      /\ wk[w].pc = "register" /\ sql' = Registered(w) /\ lock' = None /\ WkGoto(w, "ready")
  BY DEF RegisterChunks
<1>2. sql' \in Sql
  BY <1>1, WorkerType, Parts, RegisteredRowType DEF SharedTyped
<1>3. SharedTyped' /\ UNCHANGED <<pel, crashes, requestVars>>
  BY <1>1, <1>2, Parts DEF SharedTyped, requestVars
<1>4. wk[w].pc \in WorkerLocks /\ "ready" \in WorkerPcs /\ "ready" \notin WorkerLocks
  BY <1>1 DEF WorkerLocks, WorkerPcs
<1>5. QED
  BY <1>1, <1>3, <1>4, GoInv

(* MarkReady works without the row locks. *)
LEMMA MarkReadyInv == ASSUME NEW w \in Workers, Inv, MarkReady(w) PROVE Inv'
<1>1. /\ UNCHANGED <<sql, lock, store, pel, unread, requestVars, crashes>>
      /\ wk[w].pc = "ready" /\ guard' \in {guard, None}
      /\ src' \in {src, [src EXCEPT ![wk[w].t] = "ready"]}
      /\ Say(w, "index") \/ Say(w, "fail")
  BY DEF MarkReady
<1>2. SharedTyped' /\ UNCHANGED <<pel, crashes, requestVars>> /\ lock' = lock /\ sql' = sql
  BY <1>1, Parts DEF SharedTyped, requestVars
<1>3. "index" \in Stages /\ "fail" \in Stages
  BY DEF Stages
<1>4. QED
  BY <1>1, <1>2, <1>3, SayInv

(* CountChunks writes the ledger while nobody holds the lock. *)
LEMMA CountChunksInv == ASSUME NEW w \in Workers, Inv, CountChunks(w) PROVE Inv'
<1>1. /\ UNCHANGED <<lock, guard, store, pel, unread, src, requestVars, crashes>>
      /\ wk[w].pc = "count" /\ lock = None
      /\ sql' \in {sql, [Reconcile(sql, store) EXCEPT !.log = FreshLog]}
      /\ Say(w, "finish") \/ Say(w, "fail")
  BY DEF CountChunks
<1>2. sql' \in Sql
  <2>1. sql \in Sql /\ Reconcile(sql, store) \in Sql
    BY Parts, ReconcileType DEF SharedTyped
  <2>2. [Reconcile(sql, store) EXCEPT !.log = FreshLog] \in Sql
    BY <2>1, FreshType DEF Sql
  <2>3. QED
    BY <1>1, <2>1, <2>2
<1>3. SharedTyped' /\ UNCHANGED <<pel, crashes, requestVars>> /\ lock' = None
  BY <1>1, <1>2, Parts DEF SharedTyped, requestVars
<1>4. "finish" \in Stages /\ "fail" \in Stages
  BY DEF Stages
<1>5. QED
  BY <1>1, <1>3, <1>4, SayInv

(* RecordPipeline aggregates while nobody holds the lock. *)
LEMMA RecordPipelineInv == ASSUME NEW w \in Workers, Inv, RecordPipeline(w) PROVE Inv'
<1>1. /\ UNCHANGED <<lock, guard, store, pel, unread, src, requestVars, crashes>>
      /\ wk[w].pc = "end" /\ lock = None /\ sql' \in {sql, SyncDoc(sql)} /\ WkGoto(w, "ack")
  BY DEF RecordPipeline
<1>2. SharedTyped' /\ UNCHANGED <<pel, crashes, requestVars>> /\ lock' = None
  BY <1>1, Parts, SyncType DEF SharedTyped, requestVars
<1>3. "ack" \in WorkerPcs /\ "ack" \notin WorkerLocks
  BY DEF WorkerPcs, WorkerLocks
<1>4. QED
  BY <1>1, <1>2, <1>3, GoInv

(* Ack leaves the executor idle. *)
LEMMA AckInv == ASSUME NEW w \in Workers, Inv, Ack(w) PROVE Inv'
<1> DEFINE x == [NewWorker EXCEPT !.replay = wk[w].replay]
<1>1. /\ UNCHANGED <<sql, lock, guard, store, unread, src, requestVars, crashes>>
      /\ pel' = [pel EXCEPT ![w] = @ \ {wk[w].t}] /\ WkBecome(w, x)
  BY DEF Ack
<1>2. wk[w].replay \in SUBSET TaskIds /\ pel \in [Workers -> SUBSET TaskIds]
  BY WorkerType DEF WorkerStates
<1>3. x \in WorkerStates /\ x.pc = "idle"
  BY <1>2 DEF NewWorker, WorkerStates, WorkerPcs, Stages
<1>4. /\ SharedTyped' /\ UNCHANGED <<op, poll>> /\ pel' \in [Workers -> SUBSET TaskIds]
      /\ crashes' \in 0..MaxCrashes
  BY <1>1, <1>2, Parts DEF SharedTyped, requestVars, TypeOK
<1>5. WorkerMoves(w, x)
  BY <1>1, <1>3 DEF WorkerMoves, FenceFits, WorkerLockMove, WorkerLocks
<1>6. QED
  BY <1>4, <1>5, WorkerMoveInv

(* A crash of an executor frees what it held. *)
LEMMA CrashWorkerInv == ASSUME NEW w \in Workers, Inv, CrashWorker(w) PROVE Inv'
<1> DEFINE x == [NewWorker EXCEPT !.pc = "down"]
<1>1. /\ UNCHANGED <<sql, store, pel, unread, src, requestVars>> /\ WkBecome(w, x)
      /\ crashes < MaxCrashes /\ crashes' = crashes + 1
      /\ lock' = (IF lock = w THEN None ELSE lock) /\ guard' \in {guard, None}
  BY DEF CrashWorker
<1>2. x \in WorkerStates /\ x.pc = "down"
  BY DEF NewWorker, WorkerStates, WorkerPcs, Stages
<1>3. crashes' \in 0..MaxCrashes
  BY <1>1, Parts, SizeAssumption DEF TypeOK
<1>4. SharedTyped' /\ UNCHANGED <<op, poll>> /\ pel' \in [Workers -> SUBSET TaskIds]
  BY <1>1, Parts DEF SharedTyped, requestVars, TypeOK
<1>5. WorkerMoves(w, x)
  BY <1>1, <1>2 DEF WorkerMoves, FenceFits, WorkerLockMove, WorkerLocks
<1>6. QED
  BY <1>3, <1>4, <1>5, WorkerMoveInv

(* Restart makes a stopped executor idle. *)
LEMMA RestartInv == ASSUME NEW w \in Workers, Inv, Restart(w) PROVE Inv'
<1> DEFINE x == [wk[w] EXCEPT !.pc = "idle", !.replay = pel[w]]
<1>1. /\ UNCHANGED <<sql, lock, guard, store, pel, unread, src, requestVars, crashes>>
      /\ WkBecome(w, x)
  BY DEF Restart
<1>2. wk[w] \in WorkerStates /\ pel[w] \in SUBSET TaskIds
  BY WorkerType
<1>3. x \in WorkerStates /\ x.pc = "idle"
  BY <1>2 DEF WorkerStates, WorkerPcs
<1>4. SharedTyped' /\ UNCHANGED <<pel, crashes, requestVars>> /\ lock' = lock /\ sql' = sql
  BY <1>1, Parts DEF SharedTyped, requestVars
<1>5. QED
  BY <1>1, <1>3, <1>4, OutsideInv DEF WorkerLocks

(* Every step of an executor, crash and restart included, keeps the invariant. *)
LEMMA WorkerNextInv ==
    ASSUME NEW w \in Workers, Inv, WorkerStep(w) \/ CrashWorker(w) \/ Restart(w)
    PROVE  Inv'
  BY DeliverInv, LookInv, GetTaskInv, ReportInv, WriteProgressInv, EnterFenceInv,
     PrepareSourceInv, NativeInsertInv, RegisterChunksInv, MarkReadyInv, CountChunksInv,
     RecordPipelineInv, AckInv, CrashWorkerInv, RestartInv DEF WorkerStep

-----------------------------------------------------------------------------
(* The poller, the initial states, and the theorems *)

(* The poller writes only rows that nobody holds. *)
LEMMA PollInv == ASSUME Inv, Poll PROVE Inv'
<1>1. /\ UNCHANGED <<lock, guard, store, journal, flag, sent, unread, pel, src, op, wk, faults, crashes>>
      /\ poll' \in BOOLEAN
      /\ sql' = sql \/ (lock = None /\ sql' = SyncDoc(sql))
  BY DEF Poll, PollSelect, PollSync
<1>2. sql' \in Sql
  BY <1>1, Parts, SyncType DEF SharedTyped
<1>3. Typed'
  BY <1>1, <1>2 DEF Inv, Typed, TypeOK, Knows, HasTask
<1>4. LocksHeld'
  BY <1>1 DEF Inv, LocksHeld
<1>5. CASE sql' = sql
  BY <1>1, <1>3, <1>4, <1>5 DEF Inv, RowsDoNotMove, FencedWrites, UnchangedSql, OwnedSql
<1>6. CASE lock = None
  <2>1. /\ \A o \in Ops : op[o].pc \notin OpLocks
        /\ \A w \in Workers : wk[w].pc \notin WorkerLocks
    BY <1>6, PartiesAssumption DEF Inv, LocksHeld
  <2>2. RowsDoNotMove'
    BY <1>1, <2>1 DEF RowsDoNotMove, OpLocks
  <2>3. FencedWrites'
    BY <1>1, <2>1 DEF FencedWrites, WorkerLocks
  <2>4. QED
    BY <1>3, <1>4, <2>2, <2>3 DEF Inv
<1>7. QED
  BY <1>1, <1>5, <1>6

(* A document row to start from is typed. *)
LEMMA DocType ==
    ASSUME NEW run \in RunStates, NEW prog \in DocProgress, NEW cfg \in Cfgs,
           NEW row \in [Pages -> Rows]
    PROVE  Doc(run, prog, cfg, row) \in Sql
<1>1. Cardinality({p \in Pages : row[p].chunk}) \in Nat
  BY SizeAssumption, FS_Subset, FS_CardinalityType
<1>2. (CHOOSE r \in Revs : TRUE) \in Revs
  BY SizeAssumption
<1>3. QED
  BY <1>1, <1>2 DEF Doc, Sql, Gens

(* The invariant holds initially, for each of the four kinds of document. *)
LEMMA InitInv == Init => Inv
<1> SUFFICES ASSUME Init PROVE Inv
  OBVIOUS
<1>1. PICK cfg \in Cfgs :
        /\ sql \in FreshDocs(cfg) \cup QueuedDocs(cfg) \cup ParsedDocs(cfg) \cup FailedDocs(cfg)
        /\ op = [o \in Ops |-> NewOp(cfg)]
  BY DEF Init
<1>2. sql \in Sql
  <2>1. \A st \in RowStates, chunk \in BOOLEAN : Row(st, chunk) \in Rows
    BY DEF Row, Rows
  <2>2. {"queued", "done", "bad"} \subseteq RowStates /\ NoRow \in Rows
    BY DEF RowStates, NoRow, Rows
  <2> DEFINE fresh == [p \in Pages |-> NoRow]
             queued == [p \in Pages |-> Row("queued", FALSE)]
             parsed == [p \in Pages |-> Row("done", TRUE)]
             partly(ok) == [p \in Pages |-> IF p \in ok THEN Row("done", TRUE) ELSE Row("bad", FALSE)]
  <2>3. fresh \in [Pages -> Rows] /\ queued \in [Pages -> Rows] /\ parsed \in [Pages -> Rows]
    BY <2>1, <2>2
  <2>4. \A ok \in SUBSET Pages : partly(ok) \in [Pages -> Rows]
    BY <2>1, <2>2
  <2>5. {"0", "1", "3", "4"} \subseteq RunStates /\ {"zero", "one", "bad"} \subseteq DocProgress
    BY DEF RunStates, DocProgress
  <2>6. \/ sql = Doc("0", "zero", cfg, fresh)
        \/ sql = Doc("1", "zero", cfg, queued)
        \/ sql = Doc("3", "one", cfg, parsed)
        \/ \E ok \in SUBSET Pages : sql = Doc("4", "bad", cfg, partly(ok))
    BY <1>1 DEF FreshDocs, QueuedDocs, ParsedDocs, FailedDocs
  <2> HIDE DEF fresh, queued, parsed, partly
  <2>7. QED
    BY <2>3, <2>4, <2>5, <2>6, DocType
<1>3. NewOp(cfg) \in OpStates /\ NewOp(cfg).pc = "idle"
  BY DEF NewOp, OpStates, OpPcs, Kinds, Results
<1>4. NewWorker \in WorkerStates /\ NewWorker.pc = "idle"
  BY DEF NewWorker, WorkerStates, WorkerPcs, Stages
<1>5. op \in [Ops -> OpStates] /\ \A o \in Ops : op[o].pc = "idle"
  BY <1>1, <1>3
<1>6. wk \in [Workers -> WorkerStates] /\ \A w \in Workers : wk[w].pc = "idle"
  BY <1>4 DEF Init
<1>7. TypeOK
  <2>1. Ids(sql) \subseteq TaskIds /\ LiveIds(sql) \subseteq TaskIds /\ RegisteredChunks(sql) \subseteq Chunks
    BY <1>2, IdsType, RegisteredType
  <2>2. src \in [TaskIds -> {"none", "open", "ready"}]
    BY DEF Init
  <2>3. /\ store \in SUBSET Chunks /\ sent \in SUBSET TaskIds /\ unread \in SUBSET TaskIds
        /\ flag \in [TaskIds -> Ops \cup {None}] /\ pel \in [Workers -> SUBSET TaskIds]
    BY <2>1 DEF Init
  <2>4. /\ lock = None /\ guard = None /\ journal = None /\ poll = FALSE
        /\ faults \in 0..MaxFaults /\ crashes \in 0..MaxCrashes
    BY SizeAssumption DEF Init
  <2>5. QED
    BY <1>2, <1>5, <1>6, <2>2, <2>3, <2>4 DEF TypeOK
<1>8. Knows /\ HasTask
  BY <1>5, <1>6 DEF Knows, HasTask, Replaying, Begun, Planned
<1>9. LocksHeld /\ RowsDoNotMove /\ FencedWrites
  BY <1>5, <1>6 DEF LocksHeld, RowsDoNotMove, FencedWrites, OpLocks, WorkerLocks
<1>10. QED
  BY <1>7, <1>8, <1>9 DEF Inv, Typed

(***************************************************************************)
(* The invariant is inductive: however requests, executors, the poller,    *)
(* failures and crashes interleave, types are kept, whoever relies on the  *)
(* rows holds their lock, and the rows are what it relies on.              *)
(***************************************************************************)
THEOREM InvHolds == Spec => []Inv
<1>1. Inv /\ [Next]_vars => Inv'
  <2> SUFFICES ASSUME Inv, [Next]_vars PROVE Inv'
    OBVIOUS
  <2>1. CASE OpNext
    BY <2>1, OpNextInv DEF OpNext
  <2>2. CASE WorkerNext
    BY <2>2, WorkerNextInv DEF WorkerNext
  <2>3. CASE Poll
    BY <2>3, PollInv
  <2>4. CASE UNCHANGED vars
    BY <2>4 DEF vars, Inv, Typed, TypeOK, Knows, HasTask, LocksHeld, RowsDoNotMove, FencedWrites,
                UnchangedSql, OwnedSql
  <2>5. QED
    BY <2>1, <2>2, <2>3, <2>4 DEF Next
<1>2. QED
  BY <1>1, InitInv, PTL DEF Spec

(* Type correctness of every component, for every value of the constants. *)
THEOREM TypeCorrect == Spec => []TypeOK
<1>1. Inv => TypeOK
  BY DEF Inv, Typed
<1>2. QED
  BY <1>1, InvHolds, PTL

(***************************************************************************)
(* Chunks are written only for the document's current work: between the    *)
(* fence of insert_source_chunks and the registration no cancel, reset,    *)
(* restart, replay or poll of the document takes effect.                   *)
(***************************************************************************)
THEOREM WritesAreFenced == Spec => []FencedWrites
<1>1. Inv => FencedWrites
  BY DEF Inv
<1>2. QED
  BY <1>1, InvHolds, PTL

(***************************************************************************)
(* The rows a request planned from are the rows it commits over, what it   *)
(* enqueues is what it committed, and what it compensates is its own or    *)
(* untouched, although _operate gives the row locks up twice in between.   *)
(***************************************************************************)
THEOREM RequestsOwnTheirRows == Spec => []RowsDoNotMove
<1>1. Inv => RowsDoNotMove
  BY DEF Inv
<1>2. QED
  BY <1>1, InvHolds, PTL
=============================================================================

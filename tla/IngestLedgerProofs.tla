-------------------------- MODULE IngestLedgerProofs --------------------------
(***************************************************************************)
(* Proofs about which chunks go with which rows, for every number of       *)
(* requests, executors and tasks.  Without failures the ledger agrees with *)
(* the store and finished tasks are stored, however requests overlap.      *)
(* Requests without executors and poller yield only to one another.        *)
(* Requests one after another undo what they could not finish, keep what   *)
(* was confirmed, and, unless calls fail twice or fail and crash, leave a  *)
(* journal whenever the ledger and the store disagree.  A confirmed start  *)
(* that no other request followed waits in the stream until it runs.       *)
(***************************************************************************)
EXTENDS IngestCancelProofs

-----------------------------------------------------------------------------
(* The inductive invariant *)

(* Nothing was enqueued yet; nothing but the end is ahead. *)
Unsent == Early \cup {"requeue"}
Waning == {"clear", "except", "finalize", "closing"} \cup Over

(* Which marks a request in state r carries at its place in _operate. *)
MarksFit(r) ==
    /\ r.pc \in Selecting \cup {"plan", "journal", "delete"} => ~r.chg
    /\ r.pc = "record" => r.chg
    /\ r.pc \in {"delete", "record"} => r.jn = "bare"
    /\ r.pc = "commit" /\ ~r.chg => r.jn = "none"
    /\ r.chg => r.appl # None
    /\ r.appl # None => r.orig \in Sql
MarkInv == \A x \in Ops : MarksFit(op[x])

(* Messages are sent, and only after the commit of the rows they are for. *)
SentInv ==
    /\ unread \subseteq sent
    /\ \A w \in Workers :
         /\ pel[w] \subseteq sent /\ wk[w].replay \subseteq sent
         /\ wk[w].pc \notin {"idle", "down"} => wk[w].t \in sent
    /\ \A x \in Ops, p \in Pages : <<x, p>> \in sent => op[x].pc \notin Unsent

(* Rows about to be committed are no state to return to, and the only      *)
(* journal that mentions them is the one of their request.                 *)
UnseenInv == \A x \in Ops : op[x].pc \in Uncommitted =>
    /\ \A y \in Ops : op[y].orig # op[x].appl
    /\ \A j \in Held : /\ j.orig # op[x].appl
                       /\ j.appl = op[x].appl => j = Material(x, "full")

(* The journal is there when it is needed, and flags are noted in it only  *)
(* as long as its writer can still confirm them.                           *)
Noting == {"delete", "record", "commit", "clear"}
JournalInv ==
    /\ \A x \in Ops : op[x].pc \in {"delete", "record"} => journal = Material(x, "bare")
    /\ journal # None /\ journal.fl # {} =>
         op[journal.own].pc \in Noting /\ journal = Material(journal.own, op[journal.own].jn)

(* Cancel flags carry the nonce of the request that set them until it has  *)
(* confirmed, and until a journal that notes them is replayed.             *)
Flagging == {"plan", "clear"} \cup Uncommitted
FlagInv == \A x \in Ops :
    /\ op[x].pc \in Flagging => \A n \in op[x].fl : flag[n[1]] = x
    /\ op[x].pc = "recover" /\ op[x].rec.fl # {} =>
         /\ op[op[x].rec.own].pc \in Waning
         /\ \A n \in op[x].rec.fl : flag[n[1]] = op[x].rec.own

(* The rows s are right about the chunks C. *)
Consistent(s, C) ==
    /\ s.num = Cardinality(C)
    /\ RegisteredChunks(s) \subseteq C
    /\ \A p \in Pages : s.row[p].st = "done" => s.row[p].chunk

(* The rows a request plans are right about the chunks it will leave. *)
PlannedInv == \A x \in Ops :
    /\ op[x].pc \in {"journal", "delete"} =>
         store = op[x].snap /\ Consistent(op[x].appl, store \ Doomed(x))
    /\ op[x].pc \in {"record", "commit"} => Consistent(op[x].appl, store)

(* An executor in state x has registered the chunks of its task. *)
Indexed(x) ==
    x.pc \in {"ready", "count"} \/ (x.pc \in {"report", "write"} /\ x.stage \in {"index", "finish"})
WorkFits(s) == \A w \in Workers :
    Indexed(wk[w]) /\ wk[w].t \in Ids(s) => s.row[wk[w].t[2]].chunk

(***************************************************************************)
(* H maps rows to the chunks that may be stored with them.  Rows that can  *)
(* be taken back to must go with the chunks that are then put back.        *)
(***************************************************************************)
Back(H, orig, appl, snap) ==
    H[orig] # {} \/ (appl # None /\ H[appl] # {}) => snap \in H[orig]
Takes(H, r) ==
    r.appl # None => IF r.chg THEN Back(H, r.orig, r.appl, r.snap) ELSE H[r.appl] \subseteq H[r.orig]
Rules(H) ==
    /\ \A j \in Held : Back(H, j.orig, j.appl, j.snap)
    /\ \A x \in Ops : Takes(H, op[x])

(* Chunks and rows change one after the other, under the row locks. *)
InWindow(r) == r.pc \in {"undosql", "recommit"} \/ (r.pc \in {"record", "commit"} /\ r.chg)
Opened(H, r, s, C) ==
    /\ r.pc = "undosql" => C \in H[r.orig]
    /\ r.pc = "recommit" => C \in H[r.rec.orig]
    /\ r.pc \in {"record", "commit"} /\ r.chg => r.snap \in H[s]
Settled == (\A x \in Ops : ~InWindow(op[x])) /\ \A w \in Workers : wk[w].pc # "register"
Here(H) ==
    /\ \A x \in Ops : Opened(H, op[x], sql, store)
    /\ \A w \in Workers : wk[w].pc = "register" => \E C \in H[sql] : store = C \cup {ChunkOf(w)}
    /\ Settled => store \in H[sql]

Right(H) ==
    /\ H \in [Sql -> SUBSET (SUBSET Chunks)]
    /\ \A s \in Sql : H[s] # {} => WorkFits(s) /\ \A C \in H[s] : Consistent(s, C)
Ledger(H) == Right(H) /\ Rules(H) /\ Here(H)
HistoryInv == \E H : Ledger(H)

Calm == /\ MarkInv /\ SentInv /\ UnseenInv /\ JournalInv /\ FlagInv /\ PlannedInv
        /\ HistoryInv
CalmWhile == Undisturbed => Calm

-----------------------------------------------------------------------------
(* What a calm step leaves alone *)

(* In a behaviour without failures no call fails. *)
LEMMA NoFault == ASSUME Inv, Undisturbed' PROVE ~Fault
  BY DEF Inv, Typed, TypeOK, Undisturbed, Fault

(* Only one party is between changing chunks and changing rows. *)
LEMMA Alone ==
    ASSUME NEW o \in Ops, Inv, lock \in {o, None}
    PROVE  /\ \A x \in Ops \ {o} : op[x].pc \notin OpLocks
           /\ \A w \in Workers : wk[w].pc \notin WorkerLocks
  BY PartiesAssumption DEF Inv, LocksHeld

(* With the rows free nothing is half done. *)
LEMMA FreeSettled == ASSUME Inv, lock = None PROVE Settled
  BY PartiesAssumption DEF Inv, LocksHeld, Settled, InWindow, OpLocks, WorkerLocks

(* Nor is it when their holder is elsewhere. *)
LEMMA HolderSettled ==
    ASSUME NEW o \in Ops, Inv, lock = o, ~InWindow(op[o])
    PROVE  Settled
  BY Alone DEF Settled, InWindow, OpLocks, WorkerLocks

(* Marks are kept by a request that moves to a state that fits. *)
LEMMA MarkKept ==
    ASSUME NEW o \in Ops, NEW r, MarkInv, MarksFit(r), op' = [op EXCEPT ![o] = r],
           op \in [Ops -> OpStates]
    PROVE  MarkInv'
  BY DEF MarkInv

(* Messages are kept by a request that enqueues nothing. *)
LEMMA SentKept ==
    ASSUME NEW o \in Ops, NEW r, SentInv, op' = [op EXCEPT ![o] = r], op \in [Ops -> OpStates],
           r.pc \in Unsent => op[o].pc \in Unsent, UNCHANGED <<sent, unread, pel, wk>>
    PROVE  SentInv'
<1>1. op'[o] = r /\ \A x \in Ops \ {o} : op'[x] = op[x]
  OBVIOUS
<1>2. QED
  BY <1>1 DEF SentInv

(* How a request may touch the journal in a calm step. *)
MarksFailed(o) ==
    /\ op[o].pc = "finalize" /\ journal # None /\ OwnsJournal(o)
    /\ journal' = [journal EXCEPT !.phase = "failed"]
Writes(o) ==
    \/ journal' \in {journal, None}
    \/ lock = o /\ journal' \in {Material(o, "bare"), Material(o, "full")}
    \/ MarksFailed(o)

(* Rows about to be committed stay unseen. *)
LEMMA UnseenKept ==
    ASSUME NEW o \in Ops, NEW r, Inv, UnseenInv, op' = [op EXCEPT ![o] = r],
           op \in [Ops -> OpStates], Writes(o), r.rec \in {None, op[o].rec, journal},
           r.orig \in {op[o].orig, None} \/ lock = o, r.pc \in Uncommitted =>
               /\ op[o].pc \in Uncommitted /\ r.appl = op[o].appl /\ r.orig = op[o].orig
               /\ r.snap = op[o].snap /\ r.fl = op[o].fl
    PROVE  UnseenInv'
<1>1. op'[o] = r /\ \A x \in Ops \ {o} : op'[x] = op[x]
  OBVIOUS
<1> SUFFICES ASSUME NEW x \in Ops, op'[x].pc \in Uncommitted
             PROVE  /\ \A y \in Ops : op'[y].orig # op'[x].appl
                    /\ \A j \in Held' : /\ j.orig # op'[x].appl
                                        /\ j.appl = op'[x].appl => j = Material(x, "full")'
  BY DEF UnseenInv
<1>2. /\ op[x].pc \in Uncommitted /\ op'[x].appl = op[x].appl
      /\ Material(x, "full")' = Material(x, "full")
  BY <1>1 DEF Material
<1>3. op[x].appl # None /\ lock = x
  BY <1>2, AbsenceAssumption DEF Uncommitted, Inv, Typed, Knows, Planned, LocksHeld, OpLocks
<1>4. /\ \A y \in Ops : op[y].orig # op[x].appl
      /\ \A j \in Held : /\ j.orig # op[x].appl
                         /\ j.appl = op[x].appl => j = Material(x, "full")
  BY <1>2 DEF UnseenInv
<1>5. \A y \in Ops : op'[y].orig # op[x].appl
  BY <1>1, <1>2, <1>3, <1>4
<1>6. ASSUME NEW j \in Held', j \notin Held
      PROVE  j.orig # op[x].appl /\ (j.appl = op[x].appl => j = Material(x, "full"))
  <2>1. j = journal' /\ journal' \notin {journal, None}
    BY <1>1, <1>6 DEF Held
  <2>2. CASE lock = o
    BY <1>2, <1>3, <1>4, <2>1, <2>2 DEF Writes, MarksFailed, Material, Uncommitted
  <2>3. CASE lock # o
    <3>1. /\ x # o /\ OwnsJournal(o) /\ journal' = [journal EXCEPT !.phase = "failed"]
          /\ journal \in Held
      BY <1>3, <2>1, <2>3 DEF Writes, MarksFailed, Held
    <3>2. j.orig = journal.orig /\ j.appl = journal.appl /\ journal.own = o
      BY <2>1, <3>1 DEF OwnsJournal, Material
    <3>3. QED
      BY <1>4, <3>1, <3>2 DEF Material
  <2>4. QED
    BY <2>2, <2>3
<1>7. QED
  BY <1>2, <1>4, <1>5, <1>6

(* The journal is kept by whoever does not have the rows. *)
LEMMA JournalKept ==
    ASSUME NEW o \in Ops, NEW r, Inv, JournalInv, op' = [op EXCEPT ![o] = r],
           op \in [Ops -> OpStates],
           r.pc \in {"delete", "record"} => journal' = Material(o, "bare")',
           journal' = journal \/ lock \in {o, None} \/ (journal # None => journal.own = o),
           journal' # None => journal' = journal \/ journal'.own = o,
           journal' # None /\ journal'.fl # {} /\ journal'.own = o
               => r.pc \in Noting /\ journal' = Material(o, r.jn)'
    PROVE  JournalInv'
<1>1. op'[o] = r /\ \A x \in Ops \ {o} : op'[x] = op[x]
  OBVIOUS
<1>2. ASSUME NEW x \in Ops, op'[x].pc \in {"delete", "record"}
      PROVE  journal' = Material(x, "bare")'
  <2>1. CASE x = o
    BY <1>1, <1>2, <2>1
  <2>2. CASE x # o
    <3>1. lock = x /\ journal = Material(x, "bare") /\ x # None
      BY <1>1, <1>2, <2>2, PartiesAssumption DEF JournalInv, Inv, LocksHeld, OpLocks
    <3>2. journal.own = x /\ journal # None
      <4>1. Material(x, "bare") \in Journals
        BY <1>1, <1>2, <2>2, MaterialType DEF Inv, Typed, Knows, Begun, Planned
      <4>2. QED
        BY <3>1, <4>1, AbsenceAssumption DEF Material
    <3>3. journal' = journal
      BY <2>2, <3>1, <3>2
    <3>4. QED
      BY <1>1, <2>2, <3>1, <3>3 DEF Material
  <2>3. QED
    BY <2>1, <2>2
<1>3. ASSUME journal' # None, journal'.fl # {}
      PROVE  /\ op'[journal'.own].pc \in Noting
             /\ journal' = Material(journal.own, op[journal.own].jn)'
  <2>1. CASE journal'.own = o
    BY <1>1, <1>3, <2>1 DEF Material
  <2>2. CASE journal'.own # o
    <3>1. journal' = journal /\ journal.own \in Ops
      BY <1>3, <2>2 DEF Inv, Typed, TypeOK, Journals
    <3>2. op[journal.own].pc \in Noting /\ journal = Material(journal.own, op[journal.own].jn)
      BY <1>3, <3>1 DEF JournalInv
    <3>3. op'[journal.own] = op[journal.own]
      BY <1>1, <2>2, <3>1
    <3>4. QED
      BY <3>1, <3>2, <3>3 DEF Material
  <2>3. QED
    BY <2>1, <2>2
<1>4. QED
  BY <1>2, <1>3 DEF JournalInv

(* How a request o may change the flags that carry the nonce of another. *)
Spares(o) == \A x \in Ops \ {o}, t \in TaskIds : flag[t] = x =>
    \/ flag'[t] = x
    \/ lock = o /\ (op[x].pc = "clear" => \A n \in op[x].fl : n[1] # t)

(* Flags are kept by whoever spares those of others. *)
LEMMA FlagKept ==
    ASSUME NEW o \in Ops, NEW r, Inv, CInv, FlagInv, op' = [op EXCEPT ![o] = r],
           op \in [Ops -> OpStates],
           r.pc \in Flagging => \A n \in r.fl : flag'[n[1]] = o,
           r.pc = "recover" => op[o].pc \in OpLocks /\ (r.rec.fl # {} =>
               r.rec.own # o /\ op[r.rec.own].pc \in Waning
               /\ \A n \in r.rec.fl : flag'[n[1]] = r.rec.own),
           op[o].pc \in Waning => flag' = flag /\ (r.pc \in Waning \/ lock \in {None, o}),
           Spares(o)
    PROVE  FlagInv'
<1>1. op'[o] = r /\ \A x \in Ops \ {o} : op'[x] = op[x]
  OBVIOUS
<1>2. o # None /\ \A x \in Ops : x # None
  BY PartiesAssumption
<1>3. ASSUME NEW x \in Ops, op'[x].pc \in Flagging, NEW n \in op'[x].fl
      PROVE  flag'[n[1]] = x
  <2>1. CASE x = o
    BY <1>1, <1>3, <2>1
  <2>2. CASE x # o
    <3>1. flag[n[1]] = x /\ n[1] \in TaskIds
      BY <1>1, <1>3, <2>2 DEF FlagInv, OpStates, FlagNotes
    <3>2. lock = x \/ op[x].pc = "clear"
      BY <1>1, <1>3, <2>2 DEF Inv, LocksHeld, OpLocks, Flagging, Uncommitted
    <3>3. QED
      BY <1>1, <1>3, <2>2, <3>1, <3>2 DEF Spares
  <2>3. QED
    BY <2>1, <2>2
<1>4. ASSUME NEW x \in Ops, op'[x].pc = "recover", op'[x].rec.fl # {}
      PROVE  /\ op'[op'[x].rec.own].pc \in Waning
             /\ \A n \in op'[x].rec.fl : flag'[n[1]] = op'[x].rec.own
  <2>1. CASE x = o
    <3>1. /\ r.rec.own # o /\ op[r.rec.own].pc \in Waning
          /\ \A n \in r.rec.fl : flag'[n[1]] = r.rec.own
      BY <1>1, <1>4, <2>1
    <3>2. op'[r.rec.own] = op[r.rec.own]
      BY <3>1
    <3>3. QED
      BY <1>1, <2>1, <3>1, <3>2
  <2>2. CASE x # o
    <3> DEFINE y == op[x].rec.own
    <3>1. /\ lock = x /\ op[y].pc \in Waning
          /\ \A n \in op[x].rec.fl : flag[n[1]] = y
      BY <1>1, <1>4, <2>2 DEF FlagInv, Inv, LocksHeld, OpLocks
    <3>2. y \in Ops /\ \A n \in op[x].rec.fl : n[1] \in TaskIds
      BY <1>1, <1>4, <2>2 DEF Inv, Typed, Knows, Replaying, Journals, FlagNotes
    <3> HIDE DEF y
    <3>3. op'[y].pc \in Waning
      BY <1>1, <1>2, <2>2, <3>1, <3>2
    <3>4. \A n \in op[x].rec.fl : flag'[n[1]] = y
      BY <2>2, <3>1, <3>2 DEF Spares
    <3>5. QED
      BY <1>1, <2>2, <3>3, <3>4 DEF y
  <2>3. QED
    BY <2>1, <2>2
<1>5. QED
  BY <1>3, <1>4 DEF FlagInv

PlanAt(x) ==
    /\ op[x].pc \in {"journal", "delete"} =>
         store = op[x].snap /\ Consistent(op[x].appl, store \ Doomed(x))
    /\ op[x].pc \in {"record", "commit"} => Consistent(op[x].appl, store)

(* What is about to be deleted depends on the rows, the request, the store. *)
LEMMA DoomedKept ==
    ASSUME NEW x, sql' = sql, store' = store, op'[x] = op[x]
    PROVE  Doomed(x)' = Doomed(x)
  BY DEF Doomed, Obsolete, ReusedPages

(* Plans are kept by whoever leaves the rows and chunks of others alone. *)
LEMMA PlanKept ==
    ASSUME NEW o \in Ops, NEW r, Inv, PlannedInv, op' = [op EXCEPT ![o] = r],
           op \in [Ops -> OpStates], lock \in {o, None} \/ (sql' = sql /\ store' = store),
           PlanAt(o)'
    PROVE  PlannedInv'
<1>1. op'[o] = r /\ \A x \in Ops \ {o} : op'[x] = op[x]
  OBVIOUS
<1> SUFFICES ASSUME NEW x \in Ops PROVE PlanAt(x)'
  BY DEF PlannedInv, PlanAt
<1>2. CASE x = o
  BY <1>2
<1>3. CASE x # o /\ op[x].pc \in Uncommitted
  <2>1. lock = x /\ x # None
    BY <1>3, PartiesAssumption DEF Inv, LocksHeld, OpLocks, Uncommitted
  <2>2. sql' = sql /\ store' = store
    BY <1>3, <2>1
  <2>3. Doomed(x)' = Doomed(x)
    BY <1>1, <1>3, <2>2, DoomedKept
  <2>4. QED
    BY <1>1, <1>3, <2>2, <2>3 DEF PlanAt, PlannedInv
<1>4. CASE x # o /\ op[x].pc \notin Uncommitted
  BY <1>1, <1>4 DEF PlanAt, Uncommitted
<1>5. QED
  BY <1>2, <1>3, <1>4

(* The rules on H are kept by whoever claims nothing else. *)
LEMMA RulesKept ==
    ASSUME NEW o \in Ops, NEW r, NEW H, Rules(H), op' = [op EXCEPT ![o] = r],
           op \in [Ops -> OpStates], r.rec \in {None, op[o].rec, journal}, Takes(H, r),
           journal' \in {journal, None} \/ Back(H, journal'.orig, journal'.appl, journal'.snap)
    PROVE  Rules(H)'
<1>1. op'[o] = r /\ \A x \in Ops \ {o} : op'[x] = op[x]
  OBVIOUS
<1>2. \A j \in Held' : j \in Held \/ (j = journal' /\ journal' \notin {journal, None})
  BY <1>1 DEF Held
<1>3. \A j \in Held' : Back(H, j.orig, j.appl, j.snap)
  BY <1>2 DEF Rules
<1>4. \A x \in Ops : Takes(H, op'[x])
  BY <1>1 DEF Rules
<1>5. QED
  BY <1>3, <1>4 DEF Rules

(* Whoever is outside leaves the windows of others as they are. *)
LEMMA HereKept ==
    ASSUME NEW o \in Ops, NEW r, NEW H, Here(H), op' = [op EXCEPT ![o] = r],
           op \in [Ops -> OpStates], UNCHANGED <<sql, store, wk>>,
           ~InWindow(r), ~InWindow(op[o])
    PROVE  Here(H)'
<1>1. op'[o] = r /\ \A x \in Ops \ {o} : op'[x] = op[x]
  OBVIOUS
<1>2. \A x \in Ops : Opened(H, op'[x], sql, store)
  BY <1>1 DEF Here, Opened, InWindow
<1>3. Settled' => Settled
  BY <1>1 DEF Settled
<1>4. \A w \in Workers : ChunkOf(w)' = ChunkOf(w)
  BY DEF ChunkOf, Page
<1>5. QED
  BY <1>2, <1>3, <1>4 DEF Here

(* Whoever has the rows only answers for its own window. *)
LEMMA HereAlone ==
    ASSUME NEW o \in Ops, NEW r, NEW H, Inv, lock \in {o, None}, op' = [op EXCEPT ![o] = r],
           op \in [Ops -> OpStates], wk' = wk, Opened(H, r, sql', store'),
           InWindow(r) \/ store' \in H[sql']
    PROVE  Here(H)'
<1>1. op'[o] = r /\ \A x \in Ops \ {o} : op'[x] = op[x]
  OBVIOUS
<1>2. /\ \A x \in Ops \ {o} : op[x].pc \notin OpLocks
      /\ \A w \in Workers : wk[w].pc \notin WorkerLocks
  BY Alone
<1>3. \A x \in Ops : Opened(H, op'[x], sql', store')
  BY <1>1, <1>2 DEF Opened, OpLocks
<1>4. \A w \in Workers : wk'[w].pc # "register"
  BY <1>2 DEF WorkerLocks
<1>5. Settled' => store' \in H[sql']
  BY <1>1 DEF Settled
<1>6. QED
  BY <1>3, <1>4, <1>5 DEF Here

-----------------------------------------------------------------------------
(* Every calm step of a request keeps the invariant *)

(* A request glides when it neither plans nor commits nor changes chunks. *)
Glides(o, r) ==
    /\ MarksFit(r)
    /\ r.pc \in Unsent => op[o].pc \in Unsent
    /\ r.pc \notin Uncommitted /\ ~InWindow(r) /\ ~InWindow(op[o])
    /\ r.rec \in {None, op[o].rec, journal}
    /\ r.orig \in {op[o].orig, None} \/ lock = o
    /\ r.appl = None \/ (/\ r.appl = op[o].appl /\ r.orig = op[o].orig
                         /\ r.snap = op[o].snap /\ r.chg = op[o].chg)

(* A gliding request keeps the invariant if messages and flags are right. *)
LEMMA GlideCalm ==
    ASSUME NEW o \in Ops, NEW r, Inv, Calm, Become(o, r), Glides(o, r),
           journal' \in {journal, None} \/ MarksFailed(o),
           UNCHANGED <<sql, store, wk>>, SentInv', JournalInv', FlagInv'
    PROVE  Calm'
<1>1. op' = [op EXCEPT ![o] = r] /\ op \in [Ops -> OpStates] /\ op'[o] = r
  BY DEF Become, Inv, Typed, TypeOK
<1>2. MarkInv'
  BY <1>1, MarkKept DEF Calm, Glides
<1>3. UnseenInv'
  BY <1>1, UnseenKept DEF Calm, Glides, Writes
<1>4. PlannedInv'
  <2>1. PlanAt(o)'
    BY <1>1 DEF PlanAt, Glides, Uncommitted
  <2>2. QED
    BY <1>1, <2>1, PlanKept DEF Calm
<1>5. HistoryInv'
  <2>1. PICK H : Ledger(H)
    BY DEF Calm, HistoryInv
  <2>2. Takes(H, op[o])
    BY <2>1 DEF Ledger, Rules
  <2>3. Takes(H, r)
    BY <2>2 DEF Takes, Glides
  <2>4. journal' \in {journal, None} \/ Back(H, journal'.orig, journal'.appl, journal'.snap)
    <3> SUFFICES ASSUME journal' \notin {journal, None}, MarksFailed(o)
                 PROVE  Back(H, journal'.orig, journal'.appl, journal'.snap)
      OBVIOUS
    <3>1. /\ journal # None /\ OwnsJournal(o) /\ journal' = [journal EXCEPT !.phase = "failed"]
          /\ journal \in Held
      BY DEF MarksFailed, Held
    <3>2. journal'.orig = journal.orig /\ journal'.appl = journal.appl /\ journal'.snap = journal.snap
      BY <3>1 DEF OwnsJournal, Material
    <3>3. QED
      BY <2>1, <3>1, <3>2 DEF Ledger, Rules
  <2>5. Rules(H)'
    BY <1>1, <2>1, <2>3, <2>4, RulesKept DEF Ledger, Glides
  <2>6. Here(H)'
    BY <1>1, <2>1, HereKept DEF Ledger, Glides
  <2>7. Right(H)'
    BY <2>1 DEF Ledger, Right, WorkFits
  <2>8. QED
    BY <2>5, <2>6, <2>7 DEF HistoryInv, Ledger
<1>6. QED
  BY <1>2, <1>3, <1>4, <1>5 DEF Calm

(* Most steps also leave the messages and the flags alone. *)
LEMMA QuietCalm ==
    ASSUME NEW o \in Ops, NEW r, Inv, CInv, Calm, Become(o, r), Glides(o, r),
           UNCHANGED <<sql, store, flag, sent, unread, pel, wk>>, journal' \in {journal, None},
           journal' = journal \/ lock \in {o, None} \/ (journal # None => journal.own = o),
           op[o].pc \in Noting /\ journal' = journal /\ journal # None /\ journal.fl # {}
               => journal.own # o,
           r.pc \in Flagging => r.fl = {}, r.pc # "recover",
           op[o].pc \in Waning => r.pc \in Waning \/ lock \in {None, o}
    PROVE  Calm'
<1>1. op' = [op EXCEPT ![o] = r] /\ op \in [Ops -> OpStates] /\ op'[o] = r
  BY DEF Become, Inv, Typed, TypeOK
<1>2. SentInv'
  BY <1>1, SentKept DEF Calm, Glides
<1>3. JournalInv'
  <2>1. /\ r.pc \notin {"delete", "record"}
        /\ ~(journal' # None /\ journal'.fl # {} /\ journal'.own = o)
    BY DEF Glides, Uncommitted, Calm, JournalInv
  <2>2. QED
    BY <1>1, <2>1, JournalKept DEF Calm
<1>4. FlagInv'
  BY <1>1, FlagKept DEF Calm, Spares
<1>5. QED
  BY <1>2, <1>3, <1>4, GlideCalm

(* What is known of a request before its step. *)
LEMMA CalmAt ==
    ASSUME NEW o \in Ops, Inv, CInv, Calm
    PROVE  op[o] \in OpStates /\ KnowsAt(op[o]) /\ LocalOk(o, op[o]) /\ MarksFit(op[o])
  BY LocalAt DEF Calm, MarkInv

(* A request that ends outside a window. *)
LEMMA EndCalm ==
    ASSUME NEW o \in Ops, NEW res \in Results, Inv, CInv, Calm,
           Become(o, Ended(o, "done", res)), ~InWindow(op[o]),
           UNCHANGED <<sql, store, flag, sent, unread, pel, wk>>, journal' \in {journal, None},
           journal' = journal \/ lock \in {o, None}, op[o].pc \notin Noting
    PROVE  Calm'
<1> DEFINE r == Ended(o, "done", res)
<1>1. r.pc = "done" /\ r.appl = None /\ r.orig = None /\ r.rec = None /\ ~r.chg
  BY DEF Ended, NewOp
<1> HIDE DEF r
<1>2. Glides(o, r) /\ r.pc \in Waning /\ r.pc \notin Flagging
  BY <1>1 DEF Glides, MarksFit, Unsent, Early, Selecting, Replaying, Uncommitted, InWindow,
              Waning, Over, Flagging
<1>3. Become(o, r)
  BY DEF r
<1>4. QED
  BY <1>1, <1>2, <1>3, QuietCalm

(* Preflight reads. *)
LEMMA PreflightCalm == ASSUME NEW o \in Ops, Inv, CInv, Calm, Preflight(o) PROVE Calm'
<1>1. PICK kind \in Kinds, clear \in BOOLEAN, cfg \in Cfgs :
        Become(o, [op[o] EXCEPT !.pc = "locking", !.kind = kind, !.clear = clear,
                                !.cfg = cfg, !.rev = sql.rev, !.sel = Ids(sql)])
  BY DEF Preflight
<1> DEFINE r == [op[o] EXCEPT !.pc = "locking", !.kind = kind, !.clear = clear,
                              !.cfg = cfg, !.rev = sql.rev, !.sel = Ids(sql)]
<1>2. op[o] \in OpStates /\ LocalOk(o, op[o]) /\ MarksFit(op[o]) /\ op[o].pc = "idle"
  BY CalmAt DEF Preflight
<1>3. Glides(o, r) /\ r.pc = "locking"
  BY <1>2 DEF OpStates, LocalOk, Glides, MarksFit, Unsent, Early, Selecting, Replaying,
              Uncommitted, InWindow, Over
<1> HIDE DEF r
<1>4. Become(o, r)
  BY <1>1 DEF r
<1>5. QED
  BY <1>2, <1>3, <1>4, QuietCalm DEF Preflight, Noting, Flagging, Uncommitted, Waning, Over,
                                    workerVars, streamVars

(* Locking or refusing. *)
LEMMA LockRowsCalm == ASSUME NEW o \in Ops, Inv, CInv, Calm, LockRows(o) PROVE Calm'
<1>1. CASE Become(o, [op[o] EXCEPT !.pc = "loading", !.rev = None])
  <2> DEFINE r == [op[o] EXCEPT !.pc = "loading", !.rev = None]
  <2>1. op[o] \in OpStates /\ LocalOk(o, op[o]) /\ MarksFit(op[o]) /\ op[o].pc = "locking"
    BY CalmAt DEF LockRows
  <2>2. Glides(o, r) /\ r.pc = "loading"
    BY <2>1 DEF OpStates, LocalOk, Glides, MarksFit, Unsent, Early, Selecting, Replaying,
                Uncommitted, InWindow, Over
  <2> HIDE DEF r
  <2>3. Become(o, r)
    BY <1>1 DEF r
  <2>4. QED
    BY <2>1, <2>2, <2>3, QuietCalm DEF LockRows, Noting, Flagging, Uncommitted, Waning, Over,
                                      workerVars, streamVars
<1>2. CASE Become(o, Ended(o, "done", "refused"))
  BY <1>2, EndCalm DEF LockRows, InWindow, Noting, Results, workerVars, streamVars
<1>3. QED
  BY <1>1, <1>2 DEF LockRows

(* A journal with flags in it is read only when its writer is confirming. *)
LEMMA LoadJournalCalm == ASSUME NEW o \in Ops, Inv, CInv, Calm, LoadJournal(o) PROVE Calm'
<1> DEFINE r == [op[o] EXCEPT !.pc = IF journal = None THEN "begin" ELSE "recover",
                              !.rec = journal]
<1>1. /\ op[o] \in OpStates /\ LocalOk(o, op[o]) /\ MarksFit(op[o]) /\ op[o].pc = "loading"
      /\ lock = o
  BY CalmAt DEF LoadJournal, Inv, LocksHeld, OpLocks
<1>2. /\ Glides(o, r) /\ r.pc \in {"begin", "recover"} /\ (r.pc = "recover" => journal # None)
      /\ r.rec = journal
  BY <1>1 DEF OpStates, LocalOk, Glides, MarksFit, Unsent, Early, Selecting, Replaying,
              Uncommitted, InWindow, Over
<1>3. Become(o, r) /\ UNCHANGED <<sql, store, flag, sent, unread, pel, wk, journal>>
  BY DEF LoadJournal, workerVars, streamVars
<1> HIDE DEF r
<1>4. op' = [op EXCEPT ![o] = r] /\ op \in [Ops -> OpStates]
  BY <1>3 DEF Become, Inv, Typed, TypeOK
<1>5. ASSUME journal # None, journal.fl # {}
      PROVE  /\ journal.own # o /\ op[journal.own].pc = "clear"
             /\ \A n \in journal.fl : flag[n[1]] = journal.own
  <2> DEFINE y == journal.own
  <2>1. y \in Ops
    BY <1>5 DEF Inv, Typed, TypeOK, Journals
  <2>2. op[y].pc \in Noting /\ journal = Material(y, op[y].jn)
    BY <1>5 DEF Calm, JournalInv
  <2> HIDE DEF y
  <2>3. y # o
    BY <1>1, <2>2 DEF Noting
  <2>4. op[y].pc = "clear"
    BY <1>1, <2>1, <2>2, <2>3 DEF Noting, Inv, LocksHeld, OpLocks
  <2>5. journal.fl = op[y].fl
    BY <2>2 DEF Material
  <2>6. QED
    BY <2>1, <2>3, <2>4, <2>5 DEF Calm, FlagInv, Flagging, y
<1>6. FlagInv'
  BY <1>1, <1>2, <1>3, <1>4, <1>5, FlagKept DEF Calm, Spares, Flagging, Uncommitted, Waning, Over,
                                                OpLocks
<1>7. SentInv'
  BY <1>2, <1>3, <1>4, SentKept DEF Calm, Glides
<1>8. JournalInv'
  BY <1>1, <1>2, <1>3, <1>4, <1>5, JournalKept DEF Calm
<1>9. QED
  BY <1>2, <1>3, <1>6, <1>7, <1>8, GlideCalm

(* Dropping the journal that was read. *)
LEMMA SkipJournalCalm ==
    ASSUME NEW o \in Ops, Inv, CInv, Calm, Undisturbed', SkipJournal(o)
    PROVE  Calm'
<1> DEFINE r == [op[o] EXCEPT !.pc = "begin", !.rec = None]
<1>1. /\ op[o] \in OpStates /\ LocalOk(o, op[o]) /\ MarksFit(op[o]) /\ op[o].pc = "recover"
      /\ lock = o
  BY CalmAt DEF SkipJournal, Inv, LocksHeld, OpLocks
<1>2. UNCHANGED <<sql, store, flag, sent, unread, pel, wk>> /\ journal' \in {journal, None}
  BY DEF SkipJournal, workerVars, streamVars
<1>3. CASE Become(o, r)
  <2>1. Glides(o, r) /\ r.pc = "begin"
    BY <1>1 DEF OpStates, LocalOk, Glides, MarksFit, Unsent, Early, Selecting, Replaying,
                Uncommitted, InWindow, Over
  <2> HIDE DEF r
  <2>2. QED
    BY <1>1, <1>2, <1>3, <2>1, QuietCalm DEF Noting, Flagging, Uncommitted, Waning, Over
<1>4. CASE Refuse(o)
  BY <1>1, <1>2, <1>4, EndCalm DEF Refuse, InWindow, Noting, Results
<1>5. QED
  BY <1>3, <1>4 DEF SkipJournal

(* Rows that a held journal applies to go with the chunks it puts back. *)
LEMMA SnapFits ==
    ASSUME NEW H, Ledger(H), Settled, NEW j \in Held,
           sql = j.orig \/ (j.appl # None /\ sql = j.appl)
    PROVE  j.snap \in H[j.orig]
<1>1. store \in H[sql] /\ Back(H, j.orig, j.appl, j.snap)
  BY DEF Ledger, Here, Rules
<1>2. QED
  BY <1>1 DEF Back

(* A replay puts the chunks back that go with the rows it is about to put  *)
(* back, and its flags are those of a request that has ended.              *)
LEMMA ReplayHistoryCalm ==
    ASSUME NEW o \in Ops, Inv, CInv, Calm, Undisturbed', ReplayHistory(o)
    PROVE  Calm'
<1> DEFINE r == [op[o] EXCEPT !.pc = "recommit"]
           j == op[o].rec
<1>1. /\ op[o] \in OpStates /\ LocalOk(o, op[o]) /\ MarksFit(op[o]) /\ op[o].pc = "recover"
      /\ lock = o /\ j \in Journals /\ KnowsAt(op[o])
  BY CalmAt DEF ReplayHistory, Inv, LocksHeld, OpLocks, KnowsAt, Replaying
<1>2. FlagsRestorable(j.own, j.fl)
  BY <1>1 DEF Calm, FlagInv, FlagsRestorable
<1>3. /\ store' = j.snap /\ flag' = FlagsRestored(j.own, j.fl) /\ Become(o, r)
      /\ UNCHANGED <<sql, journal, sent, unread, pel, wk>>
      /\ ~JournalStale(j) /\ op[j.own].pc \in Over
  BY <1>2, NoFault DEF ReplayHistory, FlagsFail, Goto, workerVars, streamVars, OwnerActive, Over
<1>4. /\ MarksFit(r) /\ r.pc = "recommit" /\ r.rec = j /\ r.appl = None /\ op[o].appl = None
      /\ r.orig = op[o].orig
  BY <1>1 DEF OpStates, MarksFit, Selecting, Replaying, LocalOk
<1>5. j # None /\ j \in Held
  BY <1>1, AbsenceAssumption DEF Held
<1> HIDE DEF r, j
<1>6. op' = [op EXCEPT ![o] = r] /\ op \in [Ops -> OpStates]
  BY <1>3 DEF Become, Inv, Typed, TypeOK
<1>7. MarkInv' /\ SentInv'
  BY <1>1, <1>3, <1>4, <1>6, MarkKept, SentKept DEF Calm, Unsent, Early, Selecting, Replaying
<1>8. UnseenInv'
  BY <1>3, <1>4, <1>6, UnseenKept DEF Calm, Writes, Uncommitted, j
<1>9. JournalInv'
  BY <1>1, <1>3, <1>4, <1>6, JournalKept DEF Calm, JournalInv, Noting
<1>10. FlagInv'
  <2>1. \A t \in TaskIds : flag[t] # j.own => flag'[t] = flag[t]
    BY <1>3 DEF FlagsRestored
  <2>2. op[j.own].pc # "clear"
    BY <1>3 DEF Over
  <2>3. Spares(o)
    BY <1>1, <2>1, <2>2 DEF Spares
  <2>4. QED
    BY <1>1, <1>4, <1>6, <2>3, FlagKept DEF Calm, Flagging, Uncommitted, Waning, Over
<1>11. PlannedInv'
  BY <1>1, <1>4, <1>6, PlanKept DEF Calm, PlanAt
<1>12. HistoryInv'
  <2>1. PICK H : Ledger(H)
    BY DEF Calm, HistoryInv
  <2>2. Settled
    BY <1>1, HolderSettled DEF InWindow
  <2>3. store' \in H[j.orig]
    BY <1>3, <1>5, <2>1, <2>2, SnapFits DEF JournalStale, JournalUnchanged, JournalOwned
  <2>4. Here(H)'
    BY <1>1, <1>3, <1>4, <1>6, <2>3, HereAlone DEF Opened, InWindow
  <2>5. Rules(H)'
    BY <1>3, <1>4, <1>6, <2>1, RulesKept DEF Ledger, Takes, j
  <2>6. Right(H)'
    BY <1>3, <2>1 DEF Ledger, Right, WorkFits
  <2>7. QED
    BY <2>4, <2>5, <2>6 DEF HistoryInv, Ledger
<1>13. QED
  BY <1>7, <1>8, <1>9, <1>10, <1>11, <1>12 DEF Calm

(* The replay's commit closes its window. *)
LEMMA ReplayCommitCalm ==
    ASSUME NEW o \in Ops, Inv, CInv, Calm, Undisturbed', ReplayCommit(o)
    PROVE  Calm'
<1> DEFINE r == [op[o] EXCEPT !.pc = "relock"]
<1>1. /\ op[o] \in OpStates /\ LocalOk(o, op[o]) /\ MarksFit(op[o]) /\ op[o].pc = "recommit"
      /\ lock = o
  BY CalmAt DEF ReplayCommit, Inv, LocksHeld, OpLocks
<1>2. /\ sql' = op[o].rec.orig /\ Become(o, r)
      /\ UNCHANGED <<store, flag, journal, sent, unread, pel, wk>>
  BY NoFault DEF ReplayCommit, Goto, workerVars, streamVars
<1>3. /\ MarksFit(r) /\ r.pc = "relock" /\ r.rec = op[o].rec /\ r.appl = None
      /\ op[o].appl = None /\ r.orig = op[o].orig
  BY <1>1 DEF OpStates, MarksFit, Selecting, Replaying, LocalOk
<1> HIDE DEF r
<1>4. op' = [op EXCEPT ![o] = r] /\ op \in [Ops -> OpStates]
  BY <1>2 DEF Become, Inv, Typed, TypeOK
<1>5. MarkInv' /\ SentInv'
  BY <1>1, <1>2, <1>3, <1>4, MarkKept, SentKept DEF Calm, Unsent, Early, Selecting, Replaying
<1>6. UnseenInv'
  BY <1>2, <1>3, <1>4, UnseenKept DEF Calm, Writes, Uncommitted
<1>7. JournalInv'
  BY <1>1, <1>2, <1>3, <1>4, JournalKept DEF Calm, JournalInv, Noting
<1>8. FlagInv'
  BY <1>1, <1>2, <1>3, <1>4, FlagKept DEF Calm, Spares, Flagging, Uncommitted, Waning, Over
<1>9. PlannedInv'
  BY <1>1, <1>3, <1>4, PlanKept DEF Calm, PlanAt
<1>10. HistoryInv'
  <2>1. PICK H : Ledger(H)
    BY DEF Calm, HistoryInv
  <2>2. store' \in H[sql']
    BY <1>1, <1>2, <2>1 DEF Ledger, Here, Opened
  <2>3. Here(H)'
    BY <1>1, <1>2, <1>3, <1>4, <2>2, HereAlone DEF Opened
  <2>4. Rules(H)'
    BY <1>2, <1>3, <1>4, <2>1, RulesKept DEF Ledger, Takes
  <2>5. Right(H)'
    BY <1>2, <2>1 DEF Ledger, Right, WorkFits
  <2>6. QED
    BY <2>3, <2>4, <2>5 DEF HistoryInv, Ledger
<1>11. QED
  BY <1>5, <1>6, <1>7, <1>8, <1>9, <1>10 DEF Calm

(* Taking the restored rows, or leaving them. *)
LEMMA ReplayRelockCalm ==
    ASSUME NEW o \in Ops, Inv, CInv, Calm, Undisturbed', ReplayRelock(o)
    PROVE  Calm'
<1> DEFINE r == [op[o] EXCEPT !.pc = "begin", !.rec = None]
<1>1. op[o] \in OpStates /\ LocalOk(o, op[o]) /\ MarksFit(op[o]) /\ op[o].pc = "relock"
  BY CalmAt DEF ReplayRelock
<1>2. /\ UNCHANGED <<sql, store, flag, sent, unread, pel, wk>> /\ journal' \in {journal, None}
      /\ journal' = journal \/ lock = None
  BY DEF ReplayRelock, workerVars, streamVars
<1>3. CASE Become(o, r)
  <2>1. Glides(o, r) /\ r.pc = "begin"
    BY <1>1 DEF OpStates, LocalOk, Glides, MarksFit, Unsent, Early, Selecting, Replaying,
                Uncommitted, InWindow, Over
  <2> HIDE DEF r
  <2>2. QED
    BY <1>1, <1>2, <1>3, <2>1, QuietCalm DEF Noting, Flagging, Uncommitted, Waning, Over
<1>4. CASE Become(o, Ended(o, "done", "refused"))
  BY <1>1, <1>2, <1>4, EndCalm DEF InWindow, Noting, Results
<1>5. QED
  BY <1>3, <1>4 DEF ReplayRelock

(* The tasks that are told to stop are live, so nobody confirmed to have   *)
(* stopped them.                                                           *)
LEMMA StopSpares ==
    ASSUME NEW o \in Ops, Inv, CInv, lock = o,
           flag' = [t \in TaskIds |-> IF t \in LiveIds(sql) THEN o ELSE flag[t]]
    PROVE  Spares(o)
<1> SUFFICES ASSUME NEW x \in Ops \ {o}, NEW t \in TaskIds, flag[t] = x, t \in LiveIds(sql),
                    op[x].pc = "clear", NEW n \in op[x].fl, n[1] = t
             PROVE  FALSE
  BY DEF Spares
<1>1. PICK S : Covers(S, x)
  BY DEF CInv, StickInv, HoldingAt
<1>2. n[1] \in Ids(sql) => sql.row[n[1][2]].st = "cancelled"
  BY <1>1 DEF Covers, Sticks
<1>3. PICK p \in Pages : t = <<sql.gen, p>> /\ sql.row[p].st \in Unfinished
  BY DEF LiveIds, LivePages
<1>4. QED
  BY <1>2, <1>3 DEF Ids, Present, Unfinished

(* The snapshot of the rows, and the flags. *)
LEMMA BeginCalm ==
    ASSUME NEW o \in Ops, Inv, CInv, Calm, Undisturbed', Begin(o)
    PROVE  Calm'
<1> DEFINE notes == {<<t, flag[t]>> : t \in LiveIds(sql)}
<1>1. /\ op[o] \in OpStates /\ LocalOk(o, op[o]) /\ MarksFit(op[o]) /\ op[o].pc = "begin"
      /\ lock = o
  BY CalmAt DEF Begin, Inv, LocksHeld, OpLocks
<1>2. UNCHANGED <<sql, store, sent, unread, pel, wk, journal>>
  BY DEF Begin, workerVars, streamVars
<1>3. CASE flag' = flag /\ \E pc \in {"plan", "except"} :
             Become(o, [op[o] EXCEPT !.pc = pc, !.orig = sql])
  <2>1. PICK pc \in {"plan", "except"} : Become(o, [op[o] EXCEPT !.pc = pc, !.orig = sql])
    BY <1>3
  <2> DEFINE r == [op[o] EXCEPT !.pc = pc, !.orig = sql]
  <2>2. Glides(o, r) /\ r.pc = pc /\ r.fl = {}
    BY <1>1 DEF OpStates, LocalOk, Glides, MarksFit, Unsent, Early, Selecting, Replaying,
                Uncommitted, InWindow, Over
  <2> HIDE DEF r
  <2>3. QED
    BY <1>1, <1>2, <1>3, <2>1, <2>2, QuietCalm DEF Noting, Flagging, Uncommitted, Waning, Over, r
<1>4. CASE /\ flag' = [t \in TaskIds |-> IF t \in LiveIds(sql) THEN o ELSE flag[t]]
           /\ Become(o, [op[o] EXCEPT !.pc = "plan", !.orig = sql, !.fl = notes])
  <2> DEFINE r == [op[o] EXCEPT !.pc = "plan", !.orig = sql, !.fl = notes]
  <2>1. Glides(o, r) /\ r.pc = "plan" /\ r.fl = notes /\ r.jn = "none"
    BY <1>1 DEF OpStates, LocalOk, Glides, MarksFit, Unsent, Early, Selecting, Replaying,
                Uncommitted, InWindow, Over
  <2>2. \A n \in notes : n[1] \in LiveIds(sql) /\ n[1] \in TaskIds
    BY DEF LiveIds, LivePages, TaskIds, Inv, Typed, TypeOK, Sql
  <2>3. \A n \in notes : flag'[n[1]] = o
    BY <1>4, <2>2
  <2> HIDE DEF r, notes
  <2>4. op' = [op EXCEPT ![o] = r] /\ op \in [Ops -> OpStates] /\ Become(o, r)
    BY <1>4 DEF Become, Inv, Typed, TypeOK, r
  <2>5. FlagInv'
    BY <1>1, <1>4, <2>1, <2>3, <2>4, StopSpares, FlagKept DEF Calm, Flagging, Uncommitted, Waning,
                                                              Over
  <2>6. SentInv'
    BY <1>1, <1>2, <2>1, <2>4, SentKept DEF Calm, Unsent, Early, Selecting
  <2>7. JournalInv'
    <3>1. ~(journal' # None /\ journal'.fl # {} /\ journal'.own = o)
      BY <1>1, <1>2 DEF Calm, JournalInv, Noting
    <3>2. QED
      BY <1>1, <1>2, <2>1, <2>4, <3>1, JournalKept DEF Calm
  <2>8. QED
    BY <1>2, <2>1, <2>4, <2>5, <2>6, <2>7, GlideCalm
<1>5. QED
  BY <1>3, <1>4, NoFault DEF Begin, notes

(* What the planned rows say is right about the chunks that will be left. *)
LEMMA PlanConsistent ==
    ASSUME NEW o \in Ops, Inv, Consistent(sql, store)
    PROVE  Consistent(Applied(o), IF op[o].clear THEN {} ELSE store \ Obsolete(o))
<1> DEFINE a == Applied(o)
           C == IF op[o].clear THEN {} ELSE store \ Obsolete(o)
<1>1. op[o].kind \in Kinds /\ op[o].clear \in BOOLEAN /\ sql \in Sql
  BY DEF Inv, Typed, TypeOK, OpStates
<1>2. /\ a.num = IF op[o].kind = "1" \/ op[o].clear THEN Cardinality(C) ELSE sql.num
      /\ a.cfg = IF op[o].kind = "1" THEN op[o].cfg ELSE sql.cfg
      /\ \A p \in Pages : a.row[p] = NewRow(o, p)
  BY <1>1 DEF Applied, Retained, Sql
<1>3. a.num = Cardinality(C)
  <2>1. CASE op[o].kind = "1" \/ op[o].clear
    BY <1>2, <2>1
  <2>2. CASE op[o].kind # "1" /\ ~op[o].clear
    BY <1>2, <2>2 DEF Obsolete, Consistent
  <2>3. QED
    BY <2>1, <2>2
<1>4. \A p \in Pages : sql.row[p].chunk => <<p, sql.cfg>> \in store
  BY DEF Consistent, RegisteredChunks, ChunkPages
<1> HIDE DEF a
<1>5. ASSUME NEW p \in Pages
      PROVE  /\ a.row[p].chunk => <<p, a.cfg>> \in C
             /\ a.row[p].st = "done" => a.row[p].chunk
  <2>1. CASE op[o].kind = "1"
    <3>1. CASE p \in ReusedPages(o)
      <4>1. a.row[p].chunk /\ a.cfg = sql.cfg /\ ~op[o].clear /\ sql.row[p].chunk
        BY <1>2, <2>1, <3>1 DEF NewRow, PlannedRow, ReusedPages
      <4>2. <<p, sql.cfg>> \notin Obsolete(o)
        BY <3>1 DEF Obsolete
      <4>3. QED
        BY <1>4, <4>1, <4>2
    <3>2. CASE p \notin ReusedPages(o)
      BY <1>2, <2>1, <3>2 DEF NewRow, PlannedRow
    <3>3. QED
      BY <3>1, <3>2
  <2>2. CASE op[o].kind # "1" /\ op[o].clear
    BY <1>2, <2>2 DEF NewRow, NoRow
  <2>3. CASE op[o].kind # "1" /\ ~op[o].clear
    <3>1. a.row[p] \in {CancelledRow(sql.row[p]), ResetRow(sql.row[p])}
      BY <1>1, <1>2, <2>3 DEF NewRow, Kinds
    <3>2. sql.row[p].st = "done" => sql.row[p].chunk
      BY DEF Consistent
    <3>3. CASE a.row[p] = CancelledRow(sql.row[p])
      <4>1. sql.row[p] \in Rows
        BY <1>1 DEF Sql
      <4>2. a.row[p].chunk = sql.row[p].chunk /\ (a.row[p].st = "done" => sql.row[p].st = "done")
        BY <3>3, <4>1 DEF CancelledRow, Rows
      <4>3. QED
        BY <1>2, <1>4, <2>3, <3>2, <4>2 DEF Obsolete
    <3>4. CASE a.row[p] = ResetRow(sql.row[p])
      BY <1>2, <1>4, <2>3, <3>2, <3>4 DEF ResetRow, NoRow, Obsolete
    <3>5. QED
      BY <3>1, <3>3, <3>4
  <2>4. QED
    BY <2>1, <2>2, <2>3
<1>6. RegisteredChunks(a) \subseteq C
  BY <1>5 DEF RegisteredChunks, ChunkPages
<1>7. QED
  BY <1>3, <1>5, <1>6 DEF Consistent, a

(* The rows a request has planned are new, and right about the chunks.     *)
LEMMA PlanCalm ==
    ASSUME NEW o \in Ops, Inv, CInv, Calm, Undisturbed', Plan(o)
    PROVE  Calm'
<1>1. /\ op[o] \in OpStates /\ LocalOk(o, op[o]) /\ MarksFit(op[o]) /\ op[o].pc = "plan"
      /\ lock = o /\ KnowsAt(op[o]) /\ sql = op[o].orig
  BY CalmAt DEF Plan, Inv, LocksHeld, OpLocks, RowsDoNotMove
<1>2. UNCHANGED <<sql, store, flag, sent, unread, pel, wk, journal>>
  BY DEF Plan, workerVars, streamVars
<1>3. CASE Raise(o)
  <2> DEFINE r == [op[o] EXCEPT !.pc = "except"]
  <2>1. Glides(o, r) /\ r.pc = "except"
    BY <1>1 DEF OpStates, LocalOk, Glides, MarksFit, Unsent, Early, Selecting, Replaying,
                Uncommitted, InWindow, Over
  <2> HIDE DEF r
  <2>2. Become(o, r)
    BY <1>3 DEF Raise, Goto, r
  <2>3. QED
    BY <1>1, <1>2, <2>1, <2>2, QuietCalm DEF Noting, Flagging, Uncommitted, Waning, Over
<1>4. CASE Become(o, Ended(o, "done", "ok"))
  BY <1>1, <1>2, <1>4, EndCalm DEF InWindow, Noting, Results
<1>5. CASE /\ Become(o, [op[o] EXCEPT
                  !.pc = IF op[o].clear \/ Obsolete(o) # {} THEN "journal" ELSE "commit",
                  !.snap = IF op[o].kind = "1" \/ op[o].clear THEN store ELSE {},
                  !.appl = Applied(o)])
  <2> DEFINE a == Applied(o)
             pc == IF op[o].clear \/ Obsolete(o) # {} THEN "journal" ELSE "commit"
             snap == IF op[o].kind = "1" \/ op[o].clear THEN store ELSE {}
             r == [op[o] EXCEPT !.pc = pc, !.snap = snap, !.appl = a]
  <2>1. a \in Sql /\ a # None /\ a.rev = FreshRev
    BY AppliedType, PlannedFits, AbsenceAssumption DEF Inv, Typed
  <2>2. a \notin Kept
    BY <2>1, FreshRows
  <2>3. /\ pc \in {"journal", "commit"} /\ (pc = "commit" => ~op[o].clear /\ Obsolete(o) = {})
        /\ pc = "journal" => snap = store
    BY DEF Obsolete
  <2>4. /\ r.pc = pc /\ r.appl = a /\ r.orig = op[o].orig /\ r.rec = op[o].rec /\ r.fl = op[o].fl
        /\ r.jn = op[o].jn /\ r.kind = op[o].kind /\ r.clear = op[o].clear /\ r.cfg = op[o].cfg
        /\ r.chg = op[o].chg /\ r.snap = snap
    BY <1>1 DEF OpStates
  <2>5. op' = [op EXCEPT ![o] = r] /\ op \in [Ops -> OpStates]
    BY <1>5 DEF Become, Inv, Typed, TypeOK
  <2> HIDE DEF r, a, snap, pc
  <2>6. op'[o] = r /\ \A x \in Ops \ {o} : op'[x] = op[x]
    BY <2>5
  <2>7. ~op[o].chg /\ op[o].jn = "none" /\ op[o].orig \in Sql /\ op[o].rec = None
    BY <1>1 DEF MarksFit, LocalOk, Selecting, Replaying, KnowsAt, Begun
  <2>8. MarkInv'
    <3>1. MarksFit(r)
      BY <2>3, <2>4, <2>7 DEF MarksFit, Selecting, Replaying
    <3>2. QED
      BY <2>5, <3>1, MarkKept DEF Calm
  <2>9. SentInv'
    BY <1>1, <1>2, <2>5, SentKept DEF Calm, Unsent, Early
  <2>10. Held' = Held
    BY <1>2, <2>4, <2>6 DEF Held
  <2>11. /\ \A y \in Ops : op[y].orig # a /\ op[y].appl # a
         /\ \A j \in Held : j.orig # a /\ j.appl # a
         /\ sql # a
    <3>1. ASSUME NEW j \in Held PROVE j.orig # a /\ j.appl # a
      BY <2>2, <3>1 DEF Kept, Held
    <3>2. QED
      BY <2>2, <3>1 DEF Kept
  <2>12. UnseenInv'
    <3> SUFFICES ASSUME NEW x \in Ops, op'[x].pc \in Uncommitted
                 PROVE  /\ \A y \in Ops : op'[y].orig # op'[x].appl
                        /\ \A j \in Held' : j.orig # op'[x].appl /\ j.appl # op'[x].appl
      BY DEF UnseenInv
    <3>1. x = o
      BY <1>1, <2>6, PartiesAssumption DEF Inv, LocksHeld, OpLocks, Uncommitted
    <3>2. QED
      BY <2>4, <2>6, <2>10, <2>11, <3>1
  <2>13. JournalInv'
    <3>1. ~(journal' # None /\ journal'.fl # {} /\ journal'.own = o)
      BY <1>1, <1>2 DEF Calm, JournalInv, Noting
    <3>2. QED
      BY <1>1, <1>2, <2>3, <2>4, <2>5, <3>1, JournalKept DEF Calm
  <2>14. FlagInv'
    <3>1. \A n \in op[o].fl : flag[n[1]] = o
      BY <1>1 DEF Calm, FlagInv, Flagging
    <3>2. QED
      BY <1>1, <1>2, <2>3, <2>4, <2>5, <3>1, FlagKept DEF Calm, Spares, Waning, Over
  <2>15. PICK H : Ledger(H)
    BY DEF Calm, HistoryInv
  <2>16. store \in H[sql] /\ Consistent(sql, store)
    <3>1. Settled
      BY <1>1, HolderSettled DEF InWindow
    <3>2. QED
      BY <2>15, <3>1 DEF Ledger, Here, Right, Inv, Typed, TypeOK
  <2>17. PlannedInv'
    <3>1. Doomed(o)' = Doomed(o)
      BY <1>2, <2>4, <2>6 DEF Doomed, Obsolete, ReusedPages
    <3>2. Consistent(a, IF op[o].clear THEN {} ELSE store \ Obsolete(o))
      BY <2>16, PlanConsistent DEF a
    <3>3. Consistent(a, store \ Doomed(o)) /\ (pc = "commit" => Consistent(a, store))
      <4>1. store \ Doomed(o) = IF op[o].clear THEN {} ELSE store \ Obsolete(o)
        BY DEF Doomed
      <4>2. pc = "commit" => store \ Doomed(o) = store
        BY <2>3 DEF Doomed
      <4>3. QED
        BY <3>2, <4>1, <4>2
    <3>4. PlanAt(o)'
      BY <1>2, <2>3, <2>4, <2>6, <3>1, <3>3 DEF PlanAt
    <3>5. QED
      BY <1>1, <2>5, <3>4, PlanKept DEF Calm
  <2>18. HistoryInv'
    <3>0. PICK G : G = [s \in Sql |-> IF s = a THEN {} ELSE H[s]]
      OBVIOUS
    <3>1. /\ G \in [Sql -> SUBSET (SUBSET Chunks)]
          /\ \A s \in Sql : s # a => G[s] = H[s]
          /\ G[a] = {} /\ H \in [Sql -> SUBSET (SUBSET Chunks)]
      BY <2>1, <2>15, <3>0 DEF Ledger, Right
    <3>2. Right(G)'
      BY <1>2, <2>15, <3>1 DEF Ledger, Right, WorkFits
    <3>3. ASSUME NEW j \in Held PROVE Back(G, j.orig, j.appl, j.snap)
      <4>1. j \in Journals
        BY <3>3 DEF Held, Inv, Typed, TypeOK, OpStates
      <4>2. G[j.orig] = H[j.orig] /\ (j.appl # None => G[j.appl] = H[j.appl])
        BY <2>11, <3>1, <4>1 DEF Journals
      <4>3. QED
        BY <2>15, <4>2 DEF Ledger, Rules, Back
    <3>4. ASSUME NEW x \in Ops \ {o} PROVE Takes(G, op[x])
      <4>1. op[x].appl # None => op[x].appl \in Sql /\ op[x].orig \in Sql
        BY DEF Inv, Typed, TypeOK, OpStates, Calm, MarkInv, MarksFit
      <4>2. op[x].appl # None => G[op[x].appl] = H[op[x].appl] /\ G[op[x].orig] = H[op[x].orig]
        BY <2>11, <3>1, <4>1
      <4>3. Takes(H, op[x])
        BY <2>15 DEF Ledger, Rules
      <4>4. QED
        BY <4>2, <4>3 DEF Takes, Back
    <3>5. Takes(G, r)
      BY <2>4, <2>7, <3>1 DEF Takes
    <3>6. Rules(G)'
      BY <2>6, <2>10, <3>3, <3>4, <3>5 DEF Rules
    <3>7. store' \in G[sql'] /\ Opened(G, r, sql', store')
      BY <1>2, <2>3, <2>4, <2>7, <2>11, <2>16, <3>1 DEF Opened, Inv, Typed, TypeOK
    <3>8. Here(G)'
      BY <1>1, <1>2, <2>5, <3>7, HereAlone
    <3>9. QED
      BY <3>2, <3>6, <3>8 DEF HistoryInv, Ledger
  <2>19. QED
    BY <2>8, <2>9, <2>12, <2>13, <2>14, <2>17, <2>18 DEF Calm
<1>6. QED
  BY <1>3, <1>4, <1>5 DEF Plan

(* A request that keeps its plan only has its marks, its journal and the   *)
(* chunks it deletes to account for.                                       *)
LEMMA UncommittedCalm ==
    ASSUME NEW o \in Ops, NEW r, Inv, CInv, Calm, Become(o, r), op[o].pc \in Uncommitted,
           r.pc \in Uncommitted, r.appl = op[o].appl, r.orig = op[o].orig, r.snap = op[o].snap,
           r.fl = op[o].fl, r.rec = op[o].rec, MarksFit(r), PlanAt(o)', HistoryInv',
           UNCHANGED <<sql, flag, sent, unread, pel, wk>>, Writes(o), JournalInv'
    PROVE  Calm'
<1>1. op' = [op EXCEPT ![o] = r] /\ op \in [Ops -> OpStates] /\ op'[o] = r /\ lock = o
  BY DEF Become, Inv, Typed, TypeOK, LocksHeld, OpLocks, Uncommitted
<1>2. MarkInv' /\ SentInv'
  BY <1>1, MarkKept, SentKept DEF Calm, Unsent, Early
<1>3. UnseenInv'
  BY <1>1, UnseenKept DEF Calm
<1>4. FlagInv'
  <2>1. \A n \in op[o].fl : flag[n[1]] = o
    BY DEF Calm, FlagInv, Flagging
  <2>2. r.pc # "recover" /\ op[o].pc \notin Waning
    BY DEF Uncommitted, Waning, Over
  <2>3. QED
    BY <1>1, <2>1, <2>2, FlagKept DEF Calm, Spares
<1>5. PlannedInv'
  BY <1>1, PlanKept DEF Calm
<1>6. QED
  BY <1>2, <1>3, <1>4, <1>5 DEF Calm

(* The journal that is created holds the chunks that go with the rows.     *)
LEMMA CreateJournalCalm ==
    ASSUME NEW o \in Ops, Inv, CInv, Calm, Undisturbed', CreateJournal(o)
    PROVE  Calm'
<1>1. /\ op[o] \in OpStates /\ LocalOk(o, op[o]) /\ MarksFit(op[o]) /\ op[o].pc = "journal"
      /\ lock = o /\ KnowsAt(op[o]) /\ sql = op[o].orig
  BY CalmAt DEF CreateJournal, Inv, LocksHeld, OpLocks, RowsDoNotMove
<1>2. UNCHANGED <<sql, store, flag, sent, unread, pel, wk>>
  BY DEF CreateJournal, workerVars, streamVars
<1>3. CASE Become(o, [op[o] EXCEPT !.pc = "except", !.jn = "bare"]) /\ journal' = journal
  <2> DEFINE r == [op[o] EXCEPT !.pc = "except", !.jn = "bare"]
  <2>1. Glides(o, r) /\ r.pc = "except"
    BY <1>1 DEF OpStates, LocalOk, Glides, MarksFit, Unsent, Early, Selecting, Replaying,
                Uncommitted, InWindow, Over
  <2> HIDE DEF r
  <2>2. Become(o, r)
    BY <1>3 DEF r
  <2>3. QED
    BY <1>1, <1>2, <1>3, <2>1, <2>2, QuietCalm DEF Noting, Flagging, Uncommitted, Waning, Over
<1>4. CASE /\ Become(o, [op[o] EXCEPT !.pc = "delete", !.jn = "bare"])
           /\ journal' = Material(o, "bare")
  <2> DEFINE r == [op[o] EXCEPT !.pc = "delete", !.jn = "bare"]
             m == Material(o, "bare")
  <2>1. /\ r.pc = "delete" /\ r.jn = "bare" /\ r.appl = op[o].appl /\ r.orig = op[o].orig
        /\ r.snap = op[o].snap /\ r.fl = op[o].fl /\ r.rec = op[o].rec /\ r.chg = op[o].chg
        /\ r.kind = op[o].kind /\ r.clear = op[o].clear /\ r.cfg = op[o].cfg
        /\ ~op[o].chg /\ MarksFit(r)
    BY <1>1 DEF OpStates, MarksFit, Selecting, Replaying
  <2>2. m.own = o /\ m.orig = sql /\ m.appl = None /\ m.snap = op[o].snap
    BY <1>1 DEF Material
  <2> HIDE DEF r
  <2>3. op' = [op EXCEPT ![o] = r] /\ op \in [Ops -> OpStates] /\ op'[o] = r /\ Become(o, r)
    BY <1>4 DEF Become, Inv, Typed, TypeOK, r
  <2>4. Material(o, "bare")' = m
    BY <2>1, <2>3 DEF Material
  <2> HIDE DEF m
  <2>5. JournalInv'
    BY <1>1, <1>4, <2>1, <2>2, <2>3, <2>4, JournalKept DEF Calm, Noting, m
  <2>6. PlanAt(o)'
    <3>1. store = op[o].snap /\ Consistent(op[o].appl, store \ Doomed(o))
      BY <1>1 DEF Calm, PlannedInv
    <3>2. Doomed(o)' = Doomed(o)
      BY <1>2, <2>1, <2>3 DEF Doomed, Obsolete, ReusedPages
    <3>3. QED
      BY <1>2, <2>1, <2>3, <3>1, <3>2 DEF PlanAt
  <2>7. HistoryInv'
    <3>1. PICK H : Ledger(H)
      BY DEF Calm, HistoryInv
    <3>2. store \in H[sql] /\ store = op[o].snap
      <4>1. Settled
        BY <1>1, HolderSettled DEF InWindow
      <4>2. QED
        BY <1>1, <3>1, <4>1 DEF Ledger, Here, Calm, PlannedInv
    <3>3. Back(H, m.orig, m.appl, m.snap)
      BY <2>2, <3>2 DEF Back
    <3>4. Takes(H, r)
      BY <2>1, <3>1 DEF Ledger, Rules, Takes
    <3>5. Rules(H)'
      BY <1>4, <2>1, <2>3, <3>1, <3>3, <3>4, RulesKept DEF Ledger, m
    <3>6. Here(H)'
      BY <1>1, <1>2, <2>1, <2>3, <3>1, HereKept DEF Ledger, InWindow
    <3>7. Right(H)'
      BY <1>2, <3>1 DEF Ledger, Right, WorkFits
    <3>8. QED
      BY <3>5, <3>6, <3>7 DEF HistoryInv, Ledger
  <2>8. Writes(o)
    BY <1>1, <1>4 DEF Writes
  <2>9. QED
    BY <1>1, <1>2, <2>1, <2>3, <2>5, <2>6, <2>7, <2>8, UncommittedCalm DEF Uncommitted
<1>5. QED
  BY <1>3, <1>4, NoFault DEF CreateJournal

(* The deletion leaves what was planned, and the journal has the rest.     *)
LEMMA DeleteHistoryCalm ==
    ASSUME NEW o \in Ops, Inv, CInv, Calm, Undisturbed', DeleteHistory(o)
    PROVE  Calm'
<1> DEFINE r == [op[o] EXCEPT !.pc = "record", !.chg = TRUE]
<1>1. /\ op[o] \in OpStates /\ LocalOk(o, op[o]) /\ MarksFit(op[o]) /\ op[o].pc = "delete"
      /\ lock = o /\ KnowsAt(op[o]) /\ sql = op[o].orig
  BY CalmAt DEF DeleteHistory, Inv, LocksHeld, OpLocks, RowsDoNotMove
<1>2. /\ store' = store \ Doomed(o) /\ Become(o, r)
      /\ UNCHANGED <<sql, flag, sent, unread, pel, wk, journal>>
  BY NoFault DEF DeleteHistory, workerVars, streamVars
<1>3. /\ r.pc = "record" /\ r.jn = op[o].jn /\ r.appl = op[o].appl /\ r.orig = op[o].orig
      /\ r.snap = op[o].snap /\ r.fl = op[o].fl /\ r.rec = op[o].rec /\ r.chg
      /\ op[o].jn = "bare" /\ op[o].appl \in Sql /\ op[o].orig \in Sql /\ MarksFit(r)
  BY <1>1, AbsenceAssumption DEF OpStates, MarksFit, Selecting, Replaying, KnowsAt, Planned, Begun
<1> HIDE DEF r
<1>4. op' = [op EXCEPT ![o] = r] /\ op \in [Ops -> OpStates] /\ op'[o] = r
  BY <1>2 DEF Become, Inv, Typed, TypeOK
<1>5. store = op[o].snap /\ Consistent(op[o].appl, store') /\ journal = Material(o, "bare")
  BY <1>1, <1>2 DEF Calm, PlannedInv, JournalInv
<1>6. Material(o, "bare")' = Material(o, "bare")
  BY <1>3, <1>4 DEF Material
<1>7. JournalInv'
  BY <1>1, <1>2, <1>3, <1>4, <1>5, <1>6, JournalKept DEF Calm, Noting, Material
<1>8. PlanAt(o)'
  BY <1>3, <1>4, <1>5 DEF PlanAt
<1>9. HistoryInv'
  <2>1. PICK H : Ledger(H)
    BY DEF Calm, HistoryInv
  <2>2. op[o].snap \in H[sql]
    <3>1. Settled
      BY <1>1, HolderSettled DEF InWindow
    <3>2. QED
      BY <1>5, <2>1, <3>1 DEF Ledger, Here
  <2>3. Takes(H, r)
    BY <1>1, <1>3, <2>2 DEF Takes, Back
  <2>4. Rules(H)'
    BY <1>2, <1>3, <1>4, <2>1, <2>3, RulesKept DEF Ledger
  <2>5. Opened(H, r, sql', store') /\ InWindow(r)
    BY <1>2, <1>3, <2>2 DEF Opened, InWindow
  <2>6. Here(H)'
    BY <1>1, <1>2, <1>4, <2>5, HereAlone
  <2>7. Right(H)'
    BY <1>2, <2>1 DEF Ledger, Right, WorkFits
  <2>8. QED
    BY <2>4, <2>6, <2>7 DEF HistoryInv, Ledger
<1>10. QED
  BY <1>1, <1>2, <1>3, <1>7, <1>8, <1>9, UncommittedCalm DEF Uncommitted, Writes

(* The journal is complete before the rows are committed.                  *)
LEMMA RecordAppliedCalm ==
    ASSUME NEW o \in Ops, Inv, CInv, Calm, Undisturbed', RecordApplied(o)
    PROVE  Calm'
<1> DEFINE r == [op[o] EXCEPT !.pc = "commit", !.jn = "full"]
           m == Material(o, "full")
<1>1. /\ op[o] \in OpStates /\ LocalOk(o, op[o]) /\ MarksFit(op[o]) /\ op[o].pc = "record"
      /\ lock = o /\ KnowsAt(op[o]) /\ sql = op[o].orig
  BY CalmAt DEF RecordApplied, Inv, LocksHeld, OpLocks, RowsDoNotMove
<1>2. OwnsJournal(o)
  BY <1>1 DEF OwnsJournal, Calm, JournalInv, MarksFit
<1>3. /\ journal' = m /\ Become(o, r)
      /\ UNCHANGED <<sql, store, flag, sent, unread, pel, wk>>
  BY <1>2, NoFault DEF RecordApplied, workerVars, streamVars
<1>4. /\ r.pc = "commit" /\ r.jn = "full" /\ r.appl = op[o].appl /\ r.orig = op[o].orig
      /\ r.snap = op[o].snap /\ r.fl = op[o].fl /\ r.rec = op[o].rec /\ r.chg = op[o].chg
      /\ op[o].chg /\ op[o].appl \in Sql /\ op[o].orig \in Sql /\ MarksFit(r)
  BY <1>1 DEF OpStates, MarksFit, Selecting, Replaying, KnowsAt, Planned, Begun
<1>5. m.own = o /\ m.orig = op[o].orig /\ m.appl = op[o].appl /\ m.snap = op[o].snap
  BY DEF Material
<1> HIDE DEF r
<1>6. op' = [op EXCEPT ![o] = r] /\ op \in [Ops -> OpStates] /\ op'[o] = r
  BY <1>3 DEF Become, Inv, Typed, TypeOK
<1>7. Material(o, "full")' = m
  BY <1>4, <1>6 DEF Material
<1> HIDE DEF m
<1>8. JournalInv'
  BY <1>1, <1>3, <1>4, <1>5, <1>6, <1>7, JournalKept DEF Calm, Noting
<1>9. PlanAt(o)'
  BY <1>1, <1>3, <1>4, <1>6 DEF PlanAt, Calm, PlannedInv
<1>10. HistoryInv'
  <2>1. PICK H : Ledger(H)
    BY DEF Calm, HistoryInv
  <2>2. Takes(H, op[o]) /\ op[o].appl # None
    BY <1>1, <2>1 DEF Ledger, Rules, MarksFit
  <2>3. Takes(H, r) /\ Back(H, m.orig, m.appl, m.snap)
    BY <1>4, <1>5, <2>2 DEF Takes
  <2>4. Rules(H)'
    BY <1>3, <1>4, <1>6, <2>1, <2>3, RulesKept DEF Ledger
  <2>5. Opened(H, r, sql', store') /\ InWindow(r)
    BY <1>1, <1>3, <1>4, <2>1 DEF Opened, InWindow, Ledger, Here
  <2>6. Here(H)'
    BY <1>1, <1>3, <1>6, <2>5, HereAlone
  <2>7. Right(H)'
    BY <1>3, <2>1 DEF Ledger, Right, WorkFits
  <2>8. QED
    BY <2>4, <2>6, <2>7 DEF HistoryInv, Ledger
<1>11. Writes(o)
  BY <1>1, <1>3 DEF Writes, m
<1>12. QED
  BY <1>1, <1>3, <1>4, <1>8, <1>9, <1>10, <1>11, UncommittedCalm DEF Uncommitted

(* The executors' results fit the rows that are committed.                 *)
LEMMA CommitFitsWork ==
    ASSUME NEW o \in Ops, Inv, CInv, Calm, op[o].pc = "commit", WorkFits(op[o].orig),
           sql = op[o].orig, Consistent(op[o].appl, store)
    PROVE  WorkFits(op[o].appl)
<1> DEFINE a == op[o].appl
<1>1. /\ op[o] \in OpStates /\ LocalOk(o, op[o]) /\ KnowsAt(op[o])
  BY CalmAt
<1>2. a \in Sql /\ a # None /\ PlanFits(o, op[o].kind, op[o].clear, sql, a)
  BY <1>1, AbsenceAssumption DEF KnowsAt, Planned, LocalOk
<1>3. \A p \in Pages : a.row[p].st = "done" => a.row[p].chunk
  BY DEF Consistent
<1> HIDE DEF a
<1> SUFFICES ASSUME NEW w \in Workers, Indexed(wk[w]), wk[w].t \in Ids(a)
             PROVE  a.row[wk[w].t[2]].chunk
  BY DEF WorkFits, a
<1>4. PICK p \in Pages : wk[w].t = <<a.gen, p>> /\ a.row[p].st # "none"
  BY DEF Ids, Present
<1>5. a.gen # o
  <2>1. wk[w].t \in sent
    BY DEF Calm, SentInv, Indexed
  <2>2. <<o, p>> \notin sent
    BY DEF Calm, SentInv, Unsent, Early, Uncommitted
  <2>3. QED
    BY <1>4, <2>1, <2>2
<1>6. op[o].kind # "1" /\ a.gen = sql.gen /\ ~(op[o].clear)
  BY <1>2, <1>4, <1>5 DEF PlanFits, AllIn
<1>7. CASE op[o].kind = "0"
  BY <1>2, <1>3, <1>4, <1>7 DEF PlanFits
<1>8. CASE op[o].kind = "2"
  <2>1. a.row[p] = CancelledRow(sql.row[p]) /\ sql.row[p] \in Rows
    BY <1>2, <1>6, <1>8 DEF PlanFits, Inv, Typed, TypeOK, Sql
  <2>2. sql.row[p].st # "none" /\ (sql.row[p].chunk => a.row[p].chunk)
    BY <1>4, <2>1 DEF CancelledRow, Rows, Unfinished
  <2>3. wk[w].t \in Ids(sql)
    BY <1>4, <1>6, <2>2 DEF Ids, Present
  <2>4. sql.row[p].chunk
    BY <1>4, <2>3 DEF WorkFits
  <2>5. QED
    BY <1>4, <2>2, <2>4
<1>9. QED
  BY <1>1, <1>6, <1>7, <1>8 DEF OpStates, Kinds

(* The rows are committed that go with the chunks that are left.           *)
LEMMA CommitCalm ==
    ASSUME NEW o \in Ops, Inv, CInv, Calm, Undisturbed', Commit(o)
    PROVE  Calm'
<1> DEFINE pc == IF op[o].kind = "1" THEN "requeue" ELSE "clear"
           r == [op[o] EXCEPT !.pc = pc]
           a == op[o].appl
<1>1. /\ op[o] \in OpStates /\ LocalOk(o, op[o]) /\ MarksFit(op[o]) /\ op[o].pc = "commit"
      /\ lock = o /\ KnowsAt(op[o]) /\ sql = op[o].orig
  BY CalmAt DEF Commit, Inv, LocksHeld, OpLocks, RowsDoNotMove
<1>2. /\ sql' = a /\ Become(o, r)
      /\ UNCHANGED <<store, flag, sent, unread, pel, wk, journal>>
  BY NoFault DEF Commit, Goto, workerVars, streamVars
<1>3. /\ r.pc = pc /\ r.jn = op[o].jn /\ r.appl = a /\ r.orig = op[o].orig
      /\ r.snap = op[o].snap /\ r.fl = op[o].fl /\ r.rec = op[o].rec /\ r.chg = op[o].chg
  BY <1>1 DEF OpStates
<1>4. a \in Sql /\ a # None /\ op[o].orig \in Sql /\ MarksFit(r)
  BY <1>1, AbsenceAssumption DEF OpStates, MarksFit, Selecting, Replaying, KnowsAt, Planned, Begun
<1> HIDE DEF r
<1>5. op' = [op EXCEPT ![o] = r] /\ op \in [Ops -> OpStates] /\ op'[o] = r
  BY <1>2 DEF Become, Inv, Typed, TypeOK
<1>6. MarkInv' /\ SentInv'
  BY <1>1, <1>2, <1>4, <1>5, MarkKept, SentKept DEF Calm, Unsent, Early, Uncommitted
<1>7. UnseenInv'
  BY <1>2, <1>3, <1>5, UnseenKept DEF Calm, Writes, Uncommitted
<1>8. JournalInv'
  <2>0. PICK jn : jn = r.jn
    OBVIOUS
  <2>1. ASSUME journal # None, journal.fl # {}, journal.own = o
        PROVE  pc = "clear" /\ journal = Material(o, jn)'
    <3>1. journal = Material(o, op[o].jn)
      BY <2>1 DEF Calm, JournalInv
    <3>2. op[o].fl # {}
      BY <2>1, <3>1 DEF Material
    <3>3. op[o].kind # "1"
      BY <1>1, <3>2 DEF LocalOk, Over
    <3>4. Material(o, jn)' = Material(o, jn)
      BY <1>3, <1>5 DEF Material
    <3>5. QED
      BY <1>3, <2>0, <3>1, <3>3, <3>4
  <2>2. QED
    BY <1>1, <1>2, <1>3, <1>5, <2>0, <2>1, JournalKept DEF Calm, Noting
<1>9. FlagInv'
  <2>1. \A n \in op[o].fl : flag[n[1]] = o
    BY <1>1 DEF Calm, FlagInv, Flagging, Uncommitted
  <2>2. QED
    BY <1>1, <1>2, <1>3, <1>5, <2>1, FlagKept DEF Calm, Spares, Waning, Over
<1>10. PlannedInv'
  BY <1>1, <1>3, <1>5, PlanKept DEF Calm, PlanAt
<1>11. HistoryInv'
  <2>1. PICK H : Ledger(H)
    BY DEF Calm, HistoryInv
  <2>2. PICK G : G = [H EXCEPT ![a] = @ \cup {store}]
    OBVIOUS
  <2>3. /\ G \in [Sql -> SUBSET (SUBSET Chunks)] /\ G[a] = H[a] \cup {store}
        /\ \A s \in Sql : s # a => G[s] = H[s]
    BY <1>4, <2>1, <2>2 DEF Ledger, Right, Inv, Typed, TypeOK
  <2>4. (op[o].chg => op[o].snap \in H[sql]) /\ (~op[o].chg => store \in H[sql])
    <3>1. ~op[o].chg => Settled
      BY <1>1, HolderSettled DEF InWindow
    <3>2. QED
      BY <1>1, <2>1, <3>1 DEF Ledger, Here, Opened
  <2>5. /\ \A y \in Ops : op[y].orig # a
        /\ \A j \in Held : j.orig # a /\ (j.appl = a => j = Material(o, "full"))
    BY <1>1 DEF Calm, UnseenInv, Uncommitted
  <2>6. Right(G)'
    <3>1. Consistent(a, store)
      BY <1>1 DEF Calm, PlannedInv
    <3>2. WorkFits(sql)
      BY <2>1, <2>4 DEF Ledger, Right, Inv, Typed, TypeOK
    <3>3. WorkFits(a)
      BY <1>1, <3>1, <3>2, CommitFitsWork
    <3>4. \A s \in Sql : G[s] # {} => WorkFits(s) /\ \A C \in G[s] : Consistent(s, C)
      BY <2>1, <2>3, <3>1, <3>3 DEF Ledger, Right
    <3>5. QED
      BY <1>2, <2>3, <3>4 DEF Right, WorkFits
  <2>7. ASSUME NEW j \in Held PROVE Back(G, j.orig, j.appl, j.snap)
    <3>1. j \in Journals
      BY <2>7 DEF Held, Inv, Typed, TypeOK, OpStates
    <3>2. G[j.orig] = H[j.orig] /\ Back(H, j.orig, j.appl, j.snap)
      BY <2>1, <2>3, <2>5, <3>1 DEF Journals, Ledger, Rules
    <3>3. CASE j.appl = a
      <4>1. j.own = o /\ j.orig = sql /\ j.snap = op[o].snap
        BY <1>1, <2>5, <3>3 DEF Material
      <4>2. op[o].jn # "none"
        BY <1>1, <4>1 DEF CInv, OwnInv, OwnAt, Over
      <4>3. op[o].chg
        BY <1>1, <4>2 DEF MarksFit
      <4>4. QED
        BY <2>4, <3>2, <4>1, <4>3 DEF Back
    <3>4. CASE j.appl # a
      BY <2>3, <3>1, <3>2, <3>4 DEF Back, Journals
    <3>5. QED
      BY <3>3, <3>4
  <2>8. ASSUME NEW x \in Ops \ {o} PROVE Takes(G, op[x])
    <3>1. op[x].appl # None => op[x].appl \in Sql /\ op[x].orig \in Sql /\ op[x].appl # a
      <4>1. op[x].appl # None => op[x].appl \in Sql /\ op[x].orig \in Sql
        BY DEF Inv, Typed, TypeOK, OpStates, Calm, MarkInv, MarksFit
      <4>2. ASSUME op[x].appl # None, op[x].appl = a PROVE FALSE
        <5>1. Claim(x, op[x].orig, op[x].appl) \in Claims
          BY <4>2 DEF Claims
        <5>2. \A P \in Claims : P.appl = a => P.own = o
          BY <1>1 DEF CInv, FreshInv, Uncommitted
        <5>3. QED
          BY <4>2, <5>1, <5>2 DEF Claim
      <4>3. QED
        BY <4>1, <4>2
    <3>2. op[x].appl # None => G[op[x].appl] = H[op[x].appl] /\ G[op[x].orig] = H[op[x].orig]
      BY <2>3, <2>5, <3>1
    <3>3. Takes(H, op[x])
      BY <2>1 DEF Ledger, Rules
    <3>4. QED
      BY <3>2, <3>3 DEF Takes, Back
  <2>9. Takes(G, r)
    <3>1. Takes(H, op[o]) /\ G[op[o].orig] = H[op[o].orig]
      BY <1>4, <2>1, <2>3, <2>5 DEF Ledger, Rules
    <3>2. QED
      BY <1>1, <1>3, <1>4, <2>3, <2>4, <3>1 DEF Takes, Back
  <2>10. Held' = Held
    BY <1>2, <1>3, <1>5 DEF Held
  <2>11. Rules(G)'
    BY <1>5, <2>7, <2>8, <2>9, <2>10 DEF Rules
  <2>12. Opened(G, r, sql', store') /\ store' \in G[sql']
    BY <1>2, <1>3, <2>3 DEF Opened
  <2>13. Here(G)'
    BY <1>1, <1>2, <1>5, <2>12, HereAlone
  <2>14. QED
    BY <2>6, <2>11, <2>13 DEF HistoryInv, Ledger
<1>12. QED
  BY <1>6, <1>7, <1>8, <1>9, <1>10, <1>11 DEF Calm

(* After its commit, or in its exception handler, a request only advances. *)
Advances(o, r) ==
    /\ op[o].pc \in {"requeue", "submit", "clear", "except", "undo", "undosql", "undoflags",
                     "finalize"}
    /\ r.pc \in {"submit", "clear", "except", "undo", "undosql", "undoflags", "finalize", "closing"}
    /\ r.appl = op[o].appl /\ r.orig = op[o].orig /\ r.snap = op[o].snap /\ r.chg = op[o].chg
    /\ r.rec = op[o].rec /\ r.jn = op[o].jn /\ r.fl = op[o].fl /\ r.kind = op[o].kind

(* A request on its way out keeps its marks, and glides unless it restores.*)
LEMMA AdvanceFits ==
    ASSUME NEW o \in Ops, NEW r, Inv, CInv, Calm, Advances(o, r)
    PROVE  /\ MarksFit(r) /\ r.pc \notin Unsent /\ r.pc \notin Uncommitted /\ r.pc # "recover"
           /\ op[o].pc # "undosql" /\ r.pc # "undosql" => Glides(o, r)
<1>1. MarksFit(op[o])
  BY CalmAt
<1>2. r.pc \notin Unsent /\ r.pc \notin Uncommitted /\ r.pc # "recover"
  BY DEF Advances, Unsent, Early, Selecting, Replaying, Uncommitted
<1>3. MarksFit(r)
  BY <1>1 DEF Advances, MarksFit, Selecting, Replaying
<1>4. ASSUME op[o].pc # "undosql", r.pc # "undosql" PROVE Glides(o, r)
  BY <1>2, <1>3, <1>4 DEF Advances, Glides, InWindow
<1>5. QED
  BY <1>2, <1>3, <1>4

(* A request that advances and changes nothing but, perhaps, its journal.  *)
LEMMA AdvanceCalm ==
    ASSUME NEW o \in Ops, NEW r, Inv, CInv, Calm, Become(o, r), Advances(o, r),
           op[o].pc # "undosql", r.pc # "undosql",
           UNCHANGED <<sql, store, flag, sent, unread, pel, wk>>, journal' \in {journal, None},
           journal' = journal \/ MayClear(o),
           op[o].pc = "clear" /\ journal' = journal
               => op[o].jn = "none" \/ ~MayClear(o) \/ journal = None,
           r.pc = "clear" => r.kind = "1",
           op[o].pc \in Waning => r.pc \in Waning \/ lock \in {None, o}
    PROVE  Calm'
<1>1. Glides(o, r) /\ r.pc # "recover"
  BY AdvanceFits
<1>2. LocalOk(o, op[o]) /\ op[o] \in OpStates
  BY CalmAt
<1>3. r.pc \in Flagging => r.fl = {}
  BY <1>2 DEF Advances, Flagging, Uncommitted, LocalOk, Over
<1>4. journal' = journal \/ (journal # None => journal.own = o)
  BY DEF MayClear, Clearable, Material
<1>5. ASSUME op[o].pc \in Noting, journal' = journal, journal # None, journal.fl # {},
             journal.own = o
      PROVE  FALSE
  <2>1. op[o].pc = "clear"
    BY <1>5 DEF Noting, Advances
  <2>2. journal = Material(o, op[o].jn)
    BY <1>5 DEF Calm, JournalInv
  <2>3. op[o].jn = "none"
    BY <1>5, <2>1, <2>2 DEF MayClear, Clearable
  <2>4. OwnAt(op[o])
    BY <1>5 DEF CInv, OwnInv, Held
  <2>5. QED
    BY <2>1, <2>3, <2>4 DEF OwnAt, Over
<1>6. QED
  BY <1>1, <1>3, <1>4, <1>5, QuietCalm

(* Taking the rows again to enqueue. *)
LEMMA RequeueCalm ==
    ASSUME NEW o \in Ops, Inv, CInv, Calm, Undisturbed', Requeue(o)
    PROVE  Calm'
<1>1. op[o] \in OpStates /\ op[o].pc = "requeue"
  BY CalmAt DEF Requeue
<1>2. UNCHANGED <<sql, store, flag, sent, unread, pel, wk, journal>>
  BY DEF Requeue, workerVars, streamVars
<1>3. ASSUME NEW pc \in {"submit", "except"}, Goto(o, pc) PROVE Calm'
  <2> DEFINE r == [op[o] EXCEPT !.pc = pc]
  <2>1. Advances(o, r) /\ r.pc = pc
    BY <1>1 DEF Advances, OpStates
  <2>2. Become(o, r)
    BY <1>3 DEF Goto
  <2> HIDE DEF r
  <2>3. QED
    BY <1>1, <1>2, <2>1, <2>2, AdvanceCalm DEF Waning, Over
<1>4. QED
  BY <1>3 DEF Requeue

(* A message is sent for rows that are committed. *)
LEMMA SubmitCalm ==
    ASSUME NEW o \in Ops, Inv, CInv, Calm, Undisturbed', Submit(o)
    PROVE  Calm'
<1>1. /\ op[o] \in OpStates /\ LocalOk(o, op[o]) /\ KnowsAt(op[o]) /\ op[o].pc = "submit"
  BY CalmAt DEF Submit
<1>2. PICK t \in PendingIds(o) : /\ sent' = sent \cup {t} /\ unread' = unread \cup {t}
                                 /\ Become(o, [op[o] EXCEPT !.ack = @ \cup {t}])
  BY NoFault DEF Submit
<1>3. UNCHANGED <<sql, store, flag, pel, wk, journal>>
  BY DEF Submit, workerVars
<1> DEFINE r == [op[o] EXCEPT !.ack = @ \cup {t}]
<1>4. Advances(o, r) /\ r.pc = "submit"
  BY <1>1 DEF Advances, OpStates
<1>5. op' = [op EXCEPT ![o] = r] /\ op \in [Ops -> OpStates] /\ Become(o, r)
  BY <1>2 DEF Become, Inv, Typed, TypeOK
<1> HIDE DEF r
<1>6. op'[o] = r /\ \A x \in Ops \ {o} : op'[x] = op[x]
  BY <1>5
<1>7. Glides(o, r)
  BY <1>1, <1>4, AdvanceFits
<1>8. \A p : t # <<o, p>> => \A x \in Ops : t # <<x, p>>
  <2>1. op[o].kind = "1" /\ op[o].appl # None
    BY <1>1, AbsenceAssumption DEF LocalOk, KnowsAt, Planned
  <2>2. op[o].appl.gen = o
    BY <1>1, <2>1 DEF LocalOk, PlanFits
  <2>3. QED
    BY <2>2 DEF PendingIds, LiveIds
<1>9. SentInv'
  BY <1>1, <1>2, <1>3, <1>4, <1>6, <1>8 DEF Calm, SentInv, Unsent, Early, Selecting, Replaying,
                                            Uncommitted
<1>10. JournalInv'
  <2>1. ~(journal' # None /\ journal'.fl # {} /\ journal'.own = o)
    BY <1>1, <1>3 DEF Calm, JournalInv, Noting
  <2>2. QED
    BY <1>3, <1>4, <1>5, <2>1, JournalKept DEF Calm
<1>11. FlagInv'
  BY <1>1, <1>3, <1>4, <1>5, FlagKept DEF Calm, Spares, Flagging, Uncommitted, Waning, Over
<1>12. QED
  BY <1>3, <1>5, <1>7, <1>9, <1>10, <1>11, GlideCalm

(* Everything was enqueued. *)
LEMMA SubmittedCalm ==
    ASSUME NEW o \in Ops, Inv, CInv, Calm, Undisturbed', Submitted(o)
    PROVE  Calm'
<1> DEFINE r == [op[o] EXCEPT !.pc = "clear"]
<1>1. op[o] \in OpStates /\ LocalOk(o, op[o]) /\ op[o].pc = "submit"
  BY CalmAt DEF Submitted
<1>2. UNCHANGED <<sql, store, flag, sent, unread, pel, wk, journal>> /\ Become(o, r)
  BY NoFault DEF Submitted, Goto, workerVars, streamVars
<1>3. Advances(o, r) /\ r.pc = "clear" /\ r.kind = "1"
  BY <1>1 DEF Advances, OpStates, LocalOk
<1> HIDE DEF r
<1>4. QED
  BY <1>1, <1>2, <1>3, AdvanceCalm DEF Waning, Over

(* A step that only moves on to pc, with what it reports. *)
Turns(o, pc) ==
    \/ Goto(o, pc)
    \/ Become(o, [op[o] EXCEPT !.pc = pc, !.failed = TRUE])
    \/ \E res \in Results : Become(o, [op[o] EXCEPT !.pc = pc, !.res = res])

(* A request that only turns to another place is on its way out.          *)
LEMMA TurnAdvances ==
    ASSUME NEW o \in Ops, Inv,
           NEW pc \in {"except", "undo", "undosql", "undoflags", "finalize", "closing"}, Turns(o, pc),
           op[o].pc \in {"clear", "except", "undo", "undosql", "undoflags", "finalize"}
    PROVE  \E r : Become(o, r) /\ Advances(o, r) /\ r.pc = pc
<1>1. op[o] \in OpStates
  BY DEF Inv, Typed, TypeOK
<1>2. ASSUME NEW r, Become(o, r),
             \/ r = [op[o] EXCEPT !.pc = pc]
             \/ r = [op[o] EXCEPT !.pc = pc, !.failed = TRUE]
             \/ \E res \in Results : r = [op[o] EXCEPT !.pc = pc, !.res = res]
      PROVE  Advances(o, r) /\ r.pc = pc
  <2>1. {"pc", "appl", "orig", "snap", "chg", "rec", "jn", "fl", "kind"} \subseteq DOMAIN op[o]
    BY <1>1 DEF OpStates
  <2>2. QED
    BY <1>2, <2>1 DEF Advances
<1>3. QED
  BY <1>2 DEF Turns, Goto

(* Such a step in the exception handler, or at the end. *)
LEMMA TurnCalm ==
    ASSUME NEW o \in Ops, Inv, CInv, Calm,
           NEW pc \in {"except", "undo", "undoflags", "finalize", "closing"}, Turns(o, pc),
           op[o].pc \in {"clear", "except", "undoflags", "finalize"},
           UNCHANGED <<sql, store, flag, sent, unread, pel, wk>>, journal' \in {journal, None},
           journal' = journal \/ MayClear(o),
           op[o].pc = "clear" /\ journal' = journal
               => op[o].jn = "none" \/ ~MayClear(o) \/ journal = None,
           op[o].pc \in Waning => pc \in Waning \/ lock \in {None, o}
    PROVE  Calm'
<1>1. PICK r : Become(o, r) /\ Advances(o, r) /\ r.pc = pc
  BY TurnAdvances
<1>2. QED
  BY <1>1, AdvanceCalm

(* The journal goes, or the handler runs. *)
LEMMA ClearJournalCalm ==
    ASSUME NEW o \in Ops, Inv, CInv, Calm, Undisturbed', ClearJournal(o)
    PROVE  Calm'
<1>1. PICK pc \in {"closing", "except"} : Turns(o, pc)
  BY DEF ClearJournal, Turns, Results
<1>2. /\ UNCHANGED <<sql, store, flag, sent, unread, pel, wk>> /\ journal' \in {journal, None}
      /\ op[o].pc = "clear" /\ (journal' = journal \/ MayClear(o))
      /\ journal' = journal => op[o].jn = "none" \/ ~MayClear(o) \/ journal = None
  BY NoFault DEF ClearJournal, ClearFails, workerVars, streamVars
<1>3. QED
  BY <1>1, <1>2, TurnCalm DEF Waning

(* Taking the rows to compensate. *)
LEMMA CompensateCalm ==
    ASSUME NEW o \in Ops, Inv, CInv, Calm, Undisturbed', Compensate(o)
    PROVE  Calm'
<1>1. /\ UNCHANGED <<sql, store, flag, sent, unread, pel, wk, journal>>
      /\ op[o].pc = "except" /\ lock = None
  BY DEF Compensate, workerVars, streamVars
<1>2. Turns(o, "undo")
  BY DEF Compensate, Turns
<1>3. QED
  BY <1>1, <1>2, TurnCalm

(* Leaving the document to a later request. *)
LEMMA YieldToLaterCalm ==
    ASSUME NEW o \in Ops, Inv, CInv, Calm, Undisturbed', YieldToLater(o)
    PROVE  Calm'
<1>1. PICK pc \in {"closing", "finalize"} : Turns(o, pc)
  BY DEF YieldToLater, Turns, Results
<1>2. /\ UNCHANGED <<sql, store, flag, sent, unread, pel, wk>> /\ journal' \in {journal, None}
      /\ op[o].pc = "except" /\ (journal' = journal \/ MayClear(o)) /\ lock = None
  BY NoFault DEF YieldToLater, ClearFails, workerVars, streamVars
<1>3. QED
  BY <1>1, <1>2, TurnCalm DEF Waning, Over

(* Giving up, because the rows are busy. *)
LEMMA CompensateBusyCalm ==
    ASSUME NEW o \in Ops, Inv, CInv, Calm, Undisturbed', CompensateBusy(o)
    PROVE  Calm'
<1>1. /\ UNCHANGED <<sql, store, flag, sent, unread, pel, wk, journal>>
      /\ op[o].pc = "except"
  BY DEF CompensateBusy, workerVars, streamVars
<1>2. Turns(o, "finalize")
  BY DEF CompensateBusy, Turns
<1>3. QED
  BY <1>1, <1>2, TurnCalm DEF Waning

(* The holder of the rows, or whoever found them free, outside its plan.   *)
LEMMA HolderCalm ==
    ASSUME NEW o \in Ops, NEW r, Inv, CInv, Calm, Become(o, r), Advances(o, r),
           lock \in {o, None}, op[o].pc # "clear", r.pc # "clear",
           UNCHANGED <<flag, sent, unread, pel, wk, journal>>, HistoryInv'
    PROVE  Calm'
<1>1. op' = [op EXCEPT ![o] = r] /\ op \in [Ops -> OpStates] /\ op'[o] = r
  BY DEF Become, Inv, Typed, TypeOK
<1>2. /\ MarksFit(r) /\ r.pc \notin Unsent /\ r.pc \notin Uncommitted /\ r.pc # "recover"
      /\ r.rec = op[o].rec /\ r.orig = op[o].orig /\ op[o].pc \notin Noting
  BY AdvanceFits DEF Advances, Noting
<1>3. MarkInv' /\ SentInv'
  BY <1>1, <1>2, MarkKept, SentKept DEF Calm
<1>4. UnseenInv'
  BY <1>1, <1>2, UnseenKept DEF Calm, Writes
<1>5. JournalInv'
  <2>1. ~(journal' # None /\ journal'.fl # {} /\ journal'.own = o)
    BY <1>2 DEF Calm, JournalInv
  <2>2. r.pc \notin {"delete", "record"}
    BY <1>2 DEF Uncommitted
  <2>3. QED
    BY <1>1, <2>1, <2>2, JournalKept DEF Calm
<1>6. FlagInv'
  <2>1. r.pc \notin Flagging
    BY <1>2 DEF Advances, Flagging
  <2>2. QED
    BY <1>1, <1>2, <2>1, FlagKept DEF Calm, Spares
<1>7. PlannedInv'
  BY <1>1, <1>2, PlanKept DEF Calm, PlanAt, Uncommitted
<1>8. QED
  BY <1>3, <1>4, <1>5, <1>6, <1>7 DEF Calm

(* A compensation puts back the chunks that go with the rows it has found  *)
(* first: after those, its window is open.                                 *)
LEMMA UndoStoreCalm ==
    ASSUME NEW o \in Ops, Inv, CInv, Calm, Undisturbed', UndoStore(o)
    PROVE  Calm'
<1> DEFINE r == [op[o] EXCEPT !.pc = "undosql"]
<1>1. /\ op[o] \in OpStates /\ MarksFit(op[o]) /\ op[o].pc = "undo" /\ lock = o
      /\ KnowsAt(op[o]) /\ (sql = op[o].orig \/ (op[o].appl # None /\ sql = op[o].appl))
  BY CalmAt DEF UndoStore, Inv, LocksHeld, OpLocks, RowsDoNotMove, UnchangedSql, OwnedSql
<1>2. /\ store' = (IF op[o].chg THEN op[o].snap ELSE store) /\ Become(o, r)
      /\ UNCHANGED <<sql, flag, sent, unread, pel, wk, journal>>
  BY NoFault DEF UndoStore, Goto, workerVars, streamVars
<1>3. Advances(o, r) /\ r.pc = "undosql"
  BY <1>1 DEF Advances, OpStates
<1> HIDE DEF r
<1>4. op' = [op EXCEPT ![o] = r] /\ op \in [Ops -> OpStates]
  BY <1>2 DEF Become, Inv, Typed, TypeOK
<1>5. PICK H : Ledger(H)
  BY DEF Calm, HistoryInv
<1>6. store \in H[sql]
  BY <1>1, <1>5, HolderSettled DEF InWindow, Ledger, Here
<1>7. Takes(H, op[o]) /\ (op[o].chg => op[o].appl # None)
  BY <1>1, <1>5 DEF Ledger, Rules, MarksFit
<1>8. store' \in H[op[o].orig]
  <2>1. CASE op[o].chg
    <3>1. Back(H, op[o].orig, op[o].appl, op[o].snap)
      BY <1>7, <2>1 DEF Takes
    <3>2. QED
      BY <1>1, <1>2, <1>6, <2>1, <3>1 DEF Back
  <2>2. CASE ~op[o].chg
    BY <1>1, <1>2, <1>6, <1>7, <2>2 DEF Takes
  <2>3. QED
    BY <2>1, <2>2
<1>9. HistoryInv'
  <2>1. Opened(H, r, sql', store') /\ InWindow(r)
    BY <1>3, <1>8 DEF Opened, InWindow, Advances
  <2>2. Here(H)'
    BY <1>1, <1>2, <1>4, <2>1, HereAlone
  <2>3. Takes(H, r) /\ r.rec = op[o].rec
    BY <1>3, <1>7 DEF Takes, Advances
  <2>4. Rules(H)'
    BY <1>2, <1>4, <1>5, <2>3, RulesKept DEF Ledger
  <2>5. Right(H)'
    BY <1>2, <1>5 DEF Ledger, Right, WorkFits
  <2>6. QED
    BY <2>2, <2>4, <2>5 DEF HistoryInv, Ledger
<1>10. QED
  BY <1>1, <1>2, <1>3, <1>9, HolderCalm

(* Then it takes back the rows.                                            *)
LEMMA UndoSqlCalm ==
    ASSUME NEW o \in Ops, Inv, CInv, Calm, Undisturbed', UndoSql(o)
    PROVE  Calm'
<1> DEFINE r == [op[o] EXCEPT !.pc = "undoflags"]
<1>1. op[o] \in OpStates /\ op[o].pc = "undosql" /\ lock = o
  BY CalmAt DEF UndoSql, Inv, LocksHeld, OpLocks
<1>2. /\ sql' = op[o].orig /\ Become(o, r)
      /\ UNCHANGED <<store, flag, sent, unread, pel, wk, journal>>
  BY NoFault DEF UndoSql, Goto, workerVars, streamVars
<1>3. Advances(o, r) /\ r.pc = "undoflags"
  BY <1>1 DEF Advances, OpStates
<1> HIDE DEF r
<1>4. op' = [op EXCEPT ![o] = r] /\ op \in [Ops -> OpStates]
  BY <1>2 DEF Become, Inv, Typed, TypeOK
<1>5. HistoryInv'
  <2>1. PICK H : Ledger(H)
    BY DEF Calm, HistoryInv
  <2>2. Opened(H, r, sql', store') /\ store' \in H[sql']
    BY <1>1, <1>2, <1>3, <2>1 DEF Opened, Ledger, Here
  <2>3. Here(H)'
    BY <1>1, <1>2, <1>4, <2>2, HereAlone
  <2>4. Takes(H, r) /\ r.rec = op[o].rec
    BY <1>3, <2>1 DEF Takes, Advances, Ledger, Rules
  <2>5. Rules(H)'
    BY <1>2, <1>4, <2>1, <2>4, RulesKept DEF Ledger
  <2>6. Right(H)'
    BY <1>2, <2>1 DEF Ledger, Right, WorkFits
  <2>7. QED
    BY <2>3, <2>5, <2>6 DEF HistoryInv, Ledger
<1>6. QED
  BY <1>1, <1>2, <1>3, <1>5, HolderCalm

(* And at last the flags that still carry its nonce.                       *)
LEMMA UndoFlagsCalm ==
    ASSUME NEW o \in Ops, Inv, CInv, Calm, Undisturbed', UndoFlags(o)
    PROVE  Calm'
<1>1. op[o].pc = "undoflags" /\ UNCHANGED <<sql, store, sent, unread, pel, wk, journal>>
  BY DEF UndoFlags, workerVars, streamVars
<1>2. Turns(o, "finalize")
  BY DEF UndoFlags, Turns
<1>3. \E notes : flag' = FlagsRestored(o, notes)
  BY DEF UndoFlags, FlagsFail
<1>4. PICK r : Become(o, r) /\ Advances(o, r) /\ r.pc = "finalize"
  BY <1>1, <1>2, TurnAdvances
<1>5. op' = [op EXCEPT ![o] = r] /\ op \in [Ops -> OpStates] /\ Glides(o, r)
  BY <1>1, <1>4, AdvanceFits DEF Become, Inv, Typed, TypeOK
<1>6. SentInv'
  BY <1>1, <1>5, SentKept DEF Calm, Glides
<1>7. JournalInv'
  <2>1. ~(journal' # None /\ journal'.fl # {} /\ journal'.own = o)
    BY <1>1 DEF Calm, JournalInv, Noting
  <2>2. QED
    BY <1>1, <1>4, <1>5, <2>1, JournalKept DEF Calm
<1>8. FlagInv'
  <2>1. \A t \in TaskIds : flag[t] # o => flag'[t] = flag[t]
    BY <1>3 DEF FlagsRestored
  <2>2. Spares(o)
    BY <2>1 DEF Spares
  <2>3. QED
    BY <1>1, <1>4, <1>5, <2>2, FlagKept DEF Calm, Flagging, Uncommitted, Waning, Over
<1>9. QED
  BY <1>1, <1>4, <1>5, <1>6, <1>7, <1>8, GlideCalm

(* The journal goes, stays, or is marked as failed.                        *)
LEMMA FinalizeCalm ==
    ASSUME NEW o \in Ops, Inv, CInv, Calm, Undisturbed', Finalize(o)
    PROVE  Calm'
<1>1. op[o].pc = "finalize" /\ UNCHANGED <<sql, store, flag, sent, unread, pel, wk>>
  BY DEF Finalize, workerVars, streamVars
<1>2. Turns(o, "closing")
  BY DEF Finalize, Turns, Results
<1>3. journal' \in {journal, FinalJournal(o)}
  BY DEF Finalize
<1>4. CASE journal' \in {journal, None} /\ (journal' = journal \/ MayClear(o))
  BY <1>1, <1>2, <1>4, TurnCalm DEF Waning
<1>5. CASE OwnsJournal(o) /\ journal' = [journal EXCEPT !.phase = "failed"]
  <2>1. op[o].orig \in Sql
    BY <1>1 DEF Inv, Typed, Knows, Begun
  <2>2. journal \in Journals /\ journal # None /\ journal.own = o
    BY <1>5, <2>1, MaterialType, AbsenceAssumption DEF OwnsJournal, Material
  <2>3. MarksFailed(o)
    BY <1>1, <1>5, <2>2 DEF MarksFailed
  <2>4. journal'.fl = journal.fl /\ journal'.own = o
    BY <1>5, <2>2 DEF Journals
  <2>5. journal.fl = {}
    BY <1>1, <2>2 DEF Calm, JournalInv, Noting
  <2>6. PICK r : Become(o, r) /\ Advances(o, r) /\ r.pc = "closing"
    BY <1>1, <1>2, TurnAdvances
  <2>7. op' = [op EXCEPT ![o] = r] /\ op \in [Ops -> OpStates] /\ Glides(o, r)
    BY <1>1, <2>6, AdvanceFits DEF Become, Inv, Typed, TypeOK
  <2>8. SentInv'
    BY <1>1, <2>7, SentKept DEF Calm, Glides
  <2>9. JournalInv'
    BY <2>2, <2>4, <2>5, <2>6, <2>7, JournalKept DEF Calm
  <2>10. FlagInv'
    BY <1>1, <2>6, <2>7, FlagKept DEF Calm, Spares, Flagging, Uncommitted, Waning
  <2>11. QED
    BY <1>1, <2>3, <2>6, <2>7, <2>8, <2>9, <2>10, GlideCalm
<1>6. QED
  BY <1>3, <1>4, <1>5 DEF FinalJournal

(* The end.                                                                *)
LEMMA CloseCalm ==
    ASSUME NEW o \in Ops, Inv, CInv, Calm, Undisturbed', Close(o)
    PROVE  Calm'
<1>1. op[o].res \in Results
  BY CalmAt DEF OpStates
<1>2. QED
  BY <1>1, EndCalm DEF Close, InWindow, Noting, workerVars, streamVars

-----------------------------------------------------------------------------
(* New rows *)

(* Nobody can take rows back that nobody has seen, so only the chunks that *)
(* are stored go with them.                                                *)
LEMMA RenewHistory ==
    ASSUME Inv, MarkInv, sql' \in Sql, sql' \notin Kept, store' \in SUBSET Chunks,
           Consistent(sql', store'), WorkFits(sql)', Held' \subseteq Held,
           \A x \in Ops : /\ op'[x].appl = op[x].appl /\ op'[x].orig = op[x].orig
                          /\ op'[x].snap = op[x].snap /\ op'[x].chg = op[x].chg
                          /\ ~InWindow(op'[x]),
           \A w \in Workers : wk'[w].pc # "register"
    PROVE  HistoryInv'
<1>1. PICK new, chunks : new = sql' /\ chunks = store'
  OBVIOUS
<1>2. PICK G : G = [s \in Sql |-> IF s = new THEN {chunks} ELSE {}]
  OBVIOUS
<1>3. /\ G \in [Sql -> SUBSET (SUBSET Chunks)] /\ G[new] = {chunks}
      /\ \A s \in Sql : s # new => G[s] = {}
  BY <1>1, <1>2
<1>4. Right(G)'
  BY <1>1, <1>3 DEF Right, WorkFits
<1>5. ASSUME NEW j \in Held PROVE Back(G, j.orig, j.appl, j.snap)
  <2>1. j \in Journals /\ j.orig \in Kept /\ j.appl \in Kept
    BY <1>5 DEF Held, Kept, Inv, Typed, TypeOK, OpStates
  <2>2. j.orig # new /\ j.appl # new
    BY <1>1, <2>1
  <2>3. QED
    BY <1>3, <2>1, <2>2 DEF Back, Journals
<1>6. ASSUME NEW x \in Ops PROVE Takes(G, op[x])
  <2>1. op[x].appl # None => op[x].appl \in Sql /\ op[x].orig \in Sql
    BY DEF Inv, Typed, TypeOK, OpStates, MarkInv, MarksFit
  <2>2. op[x].appl # new /\ op[x].orig # new
    BY <1>1 DEF Kept
  <2>3. QED
    BY <1>3, <2>1, <2>2 DEF Takes, Back
<1>7. Rules(G)'
  BY <1>5, <1>6 DEF Rules, Takes
<1>8. Here(G)'
  BY <1>1, <1>3 DEF Here, Opened, InWindow
<1>9. QED
  BY <1>4, <1>7, <1>8 DEF HistoryInv, Ledger

(* Rows that never reached the stream are marked.                          *)
LEMMA MarkConsistent ==
    ASSUME NEW o \in Ops, Inv, Consistent(sql, store), WorkFits(sql)
    PROVE  Consistent(MarkUnsubmitted(o), store) /\ WorkFits(MarkUnsubmitted(o))
<1> DEFINE m == MarkUnsubmitted(o)
<1>1. sql \in Sql
  BY DEF Inv, Typed, TypeOK
<1>2. m.num = sql.num /\ m.cfg = sql.cfg /\ m.gen = sql.gen
  BY <1>1 DEF MarkUnsubmitted, Sql
<1>3. ASSUME NEW p \in Pages
      PROVE  /\ m.row[p].chunk = sql.row[p].chunk
             /\ m.row[p].st = "done" => sql.row[p].st = "done"
             /\ m.row[p].st # "none" => sql.row[p].st # "none"
  <2>1. m.row[p] = IF p \in Unexposed(o) THEN [sql.row[p] EXCEPT !.st = "bad"] ELSE sql.row[p]
    BY <1>1 DEF MarkUnsubmitted, Sql
  <2>2. sql.row[p] \in Rows
    BY <1>1 DEF Sql
  <2>3. QED
    BY <2>1, <2>2 DEF Rows, Unexposed
<1> HIDE DEF m
<1>4. Consistent(m, store)
  BY <1>2, <1>3 DEF Consistent, RegisteredChunks, ChunkPages
<1>5. WorkFits(m)
  <2> SUFFICES ASSUME NEW w \in Workers, Indexed(wk[w]), wk[w].t \in Ids(m)
               PROVE  m.row[wk[w].t[2]].chunk
    BY DEF WorkFits
  <2>1. PICK p \in Pages : wk[w].t = <<sql.gen, p>> /\ m.row[p].st # "none"
    BY <1>2 DEF Ids, Present
  <2>2. wk[w].t \in Ids(sql)
    BY <1>3, <2>1 DEF Ids, Present
  <2>3. sql.row[p].chunk
    BY <2>1, <2>2 DEF WorkFits
  <2>4. QED
    BY <1>3, <2>1, <2>3
<1>6. QED
  BY <1>4, <1>5 DEF m

(* What was enqueued stays.                                                *)
LEMMA KeepPartialCalm ==
    ASSUME NEW o \in Ops, Inv, CInv, Calm, Undisturbed', KeepPartial(o)
    PROVE  Calm'
<1> DEFINE r == [op[o] EXCEPT !.pc = "undoflags"]
<1>1. op[o] \in OpStates /\ op[o].pc = "except" /\ lock = None /\ sql \in Sql
  BY CalmAt DEF KeepPartial, Inv, Typed, TypeOK
<1>2. /\ sql' = MarkUnsubmitted(o) /\ Become(o, r)
      /\ UNCHANGED <<store, flag, sent, unread, pel, wk, journal>>
  BY NoFault DEF KeepPartial, Goto, workerVars, streamVars
<1>3. Advances(o, r) /\ r.pc = "undoflags"
  BY <1>1 DEF Advances, OpStates
<1> HIDE DEF r
<1>4. op' = [op EXCEPT ![o] = r] /\ op \in [Ops -> OpStates]
  BY <1>2 DEF Become, Inv, Typed, TypeOK
<1>5. PICK H : Ledger(H)
  BY DEF Calm, HistoryInv
<1>6. /\ Settled /\ store \in H[sql]
  BY <1>1, <1>5, FreeSettled DEF Ledger, Here
<1>7. HistoryInv'
  <2>1. CASE Unexposed(o) = {}
    <3>1. sql' = sql
      BY <1>1, <1>2, <2>1 DEF MarkUnsubmitted, Sql
    <3>2. Opened(H, r, sql', store') /\ store' \in H[sql']
      BY <1>2, <1>3, <1>6, <3>1 DEF Opened
    <3>3. Here(H)'
      BY <1>1, <1>2, <1>4, <3>2, HereAlone
    <3>4. Takes(H, r) /\ r.rec = op[o].rec
      BY <1>3, <1>5 DEF Takes, Advances, Ledger, Rules
    <3>5. Rules(H)'
      BY <1>2, <1>4, <1>5, <3>4, RulesKept DEF Ledger
    <3>6. Right(H)'
      BY <1>2, <1>5 DEF Ledger, Right, WorkFits
    <3>7. QED
      BY <3>3, <3>5, <3>6 DEF HistoryInv, Ledger
  <2>2. CASE Unexposed(o) # {}
    <3>1. sql' \in Sql /\ sql' # None /\ sql'.log = FreshLog
      BY <1>1, <1>2, <2>2, MarkType, AbsenceAssumption DEF MarkUnsubmitted, Sql
    <3>2. sql' \notin Kept
      BY <3>1, FreshRows
    <3>3. Consistent(sql, store) /\ WorkFits(sql)
      BY <1>1, <1>5, <1>6 DEF Ledger, Right
    <3>4. Consistent(sql', store')
      BY <1>2, <3>3, MarkConsistent
    <3>5. WorkFits(sql)'
      <4>1. WorkFits(MarkUnsubmitted(o))
        BY <3>3, MarkConsistent
      <4>2. QED
        BY <1>2, <4>1 DEF WorkFits
    <3>6. /\ op'[o] = r /\ \A x \in Ops \ {o} : op'[x] = op[x]
          /\ Held' = Held
      BY <1>2, <1>3, <1>4 DEF Held, Advances
    <3>7. \A x \in Ops : /\ op'[x].appl = op[x].appl /\ op'[x].orig = op[x].orig
                         /\ op'[x].snap = op[x].snap /\ op'[x].chg = op[x].chg
                         /\ ~InWindow(op'[x])
      BY <1>3, <1>6, <3>6 DEF Settled, Advances, InWindow
    <3>8. \A w \in Workers : wk'[w].pc # "register"
      BY <1>2, <1>6 DEF Settled
    <3>9. QED
      BY <1>2, <3>1, <3>2, <3>4, <3>5, <3>6, <3>7, <3>8, RenewHistory
           DEF Inv, Typed, TypeOK, Calm
  <2>3. QED
    BY <2>1, <2>2
<1>8. QED
  BY <1>1, <1>2, <1>3, <1>7, HolderCalm

(* No step of a request breaks the calm.                                   *)
LEMMA OpStepCalm ==
    ASSUME NEW o \in Ops, Inv, CInv, Calm, Undisturbed', OpStep(o)
    PROVE  Calm'
  BY PreflightCalm, LockRowsCalm, LoadJournalCalm, SkipJournalCalm, ReplayHistoryCalm,
     ReplayCommitCalm, ReplayRelockCalm, BeginCalm, PlanCalm, CreateJournalCalm,
     DeleteHistoryCalm, RecordAppliedCalm, CommitCalm, RequeueCalm, SubmitCalm, SubmittedCalm,
     ClearJournalCalm, KeepPartialCalm, CompensateCalm, YieldToLaterCalm, CompensateBusyCalm,
     UndoStoreCalm, UndoSqlCalm, UndoFlagsCalm, FinalizeCalm, CloseCalm
     DEF OpStep

(* Rows that change without new chunks, or with finished tasks whose       *)
(* chunks are registered, go with what is stored.                          *)
Finishes(p) ==
    \E v \in Workers : Indexed(wk[v]) /\ wk[v].t = <<sql.gen, p>> /\ sql.row[p].st # "none"
Improved ==
    /\ sql'.rev = FreshRev \/ sql'.log = FreshLog
    /\ sql'.num \in {sql.num, Cardinality(store)} /\ sql'.cfg = sql.cfg /\ sql'.gen = sql.gen
    /\ \A p \in Pages : /\ sql'.row[p].chunk = sql.row[p].chunk
                        /\ sql'.row[p].st # "none" => sql.row[p].st # "none"
                        /\ sql'.row[p].st = "done" => sql.row[p].st = "done" \/ Finishes(p)
Follows(x, y) == x.pc # "register" /\ (Indexed(x) => Indexed(y) /\ x.t = y.t)

(* They stay right about the chunks: fresh rows, known to nobody yet.      *)
LEMMA ImprovedHistory ==
    ASSUME Inv, Inv', Calm, lock = None, Improved, UNCHANGED <<op, journal, store>>,
           \A v \in Workers : Follows(wk'[v], wk[v])
    PROVE  HistoryInv'
<1>1. PICK H : Ledger(H)
  BY DEF Calm, HistoryInv
<1>2. Settled /\ store \in H[sql] /\ sql \in Sql /\ sql' \in Sql /\ store' \in SUBSET Chunks
  BY <1>1, FreeSettled DEF Ledger, Here, Inv, Typed, TypeOK
<1>3. Consistent(sql, store) /\ WorkFits(sql)
  BY <1>1, <1>2 DEF Ledger, Right
<1>4. sql' # None
  BY <1>2, AbsenceAssumption
<1>5. sql' \notin Kept
  BY <1>4, FreshRows DEF Improved
<1>6. ASSUME NEW p \in Pages, Finishes(p) PROVE sql.row[p].chunk
  <2>1. PICK v \in Workers : Indexed(wk[v]) /\ wk[v].t = <<sql.gen, p>> /\ sql.row[p].st # "none"
    BY <1>6 DEF Finishes
  <2>2. wk[v].t \in Ids(sql) /\ wk[v].t[2] = p
    BY <2>1 DEF Ids, Present
  <2>3. QED
    BY <1>3, <2>1, <2>2 DEF WorkFits
<1>7. Consistent(sql', store')
  <2>1. sql'.num = Cardinality(store')
    BY <1>3 DEF Consistent, Improved
  <2>2. RegisteredChunks(sql') = RegisteredChunks(sql)
    BY DEF RegisteredChunks, ChunkPages, Improved
  <2>3. \A p \in Pages : sql'.row[p].st = "done" => sql'.row[p].chunk
    BY <1>3, <1>6 DEF Consistent, Improved
  <2>4. QED
    BY <1>3, <2>1, <2>2, <2>3 DEF Consistent
<1>8. WorkFits(sql)'
  <2> SUFFICES ASSUME NEW v \in Workers, Indexed(wk'[v]), wk'[v].t \in Ids(sql')
               PROVE  sql'.row[wk'[v].t[2]].chunk
    BY DEF WorkFits
  <2>1. PICK p \in Pages : wk'[v].t = <<sql.gen, p>> /\ sql'.row[p].st # "none"
    BY DEF Ids, Present, Improved
  <2>2. Indexed(wk[v]) /\ wk[v].t = <<sql.gen, p>> /\ sql.row[p].st # "none"
    BY <2>1 DEF Follows, Improved
  <2>3. sql.row[p].chunk
    BY <1>6, <2>2 DEF Finishes
  <2>4. QED
    BY <2>1, <2>3 DEF Improved
<1>9. Held' = Held
  BY DEF Held
<1>10. \A x \in Ops : ~InWindow(op'[x])
  BY <1>2 DEF Settled
<1>11. \A v \in Workers : wk'[v].pc # "register"
  BY DEF Follows
<1>12. QED
  BY <1>2, <1>5, <1>7, <1>8, <1>9, <1>10, <1>11, RenewHistory DEF Calm

(* Rows and chunks that stay go together as before.                        *)
LEMMA SameHistory ==
    ASSUME Calm, UNCHANGED <<op, journal, sql, store>>,
           \A v \in Workers : /\ Indexed(wk'[v]) => Indexed(wk[v]) /\ wk'[v].t = wk[v].t
                              /\ wk'[v].pc = "register" => wk'[v] = wk[v]
                              /\ wk[v].pc = "register" => wk'[v] = wk[v]
    PROVE  HistoryInv'
<1>1. PICK H : Ledger(H)
  BY DEF Calm, HistoryInv
<1>2. Right(H)'
  BY <1>1 DEF Ledger, Right, WorkFits
<1>3. Rules(H)'
  BY <1>1 DEF Ledger, Rules, Held
<1>4. Here(H)'
  BY <1>1 DEF Ledger, Here, Settled, ChunkOf, Page
<1>5. QED
  BY <1>2, <1>3, <1>4 DEF HistoryInv, Ledger

-----------------------------------------------------------------------------
(* Executors and the poller keep the invariant *)

(* An executor leaves the requests, the journal and the flags alone.       *)
LEMMA WorkerCalm ==
    ASSUME NEW w \in Workers, NEW x, Inv, Calm, UNCHANGED <<op, journal, flag, sent>>,
           WkBecome(w, x), unread' \subseteq unread, \A v \in Workers : pel'[v] \subseteq sent,
           x.replay \subseteq sent, x.pc \notin {"idle", "down"} => x.t \in sent,
           lock \notin Ops \/ UNCHANGED <<sql, store>>, HistoryInv'
    PROVE  Calm'
<1>1. wk'[w] = x /\ \A v \in Workers \ {w} : wk'[v] = wk[v]
  BY DEF WkBecome, Inv, Typed, TypeOK
<1>2. MarkInv'
  BY DEF Calm, MarkInv
<1>3. SentInv'
  BY <1>1 DEF Calm, SentInv
<1>4. UnseenInv'
  BY DEF Calm, UnseenInv, Held, Material
<1>5. JournalInv'
  BY DEF Calm, JournalInv, Material
<1>6. FlagInv'
  BY DEF Calm, FlagInv
<1>7. PlannedInv'
  <2> SUFFICES ASSUME NEW y \in Ops PROVE PlanAt(y)'
    BY DEF PlannedInv, PlanAt
  <2>1. CASE op[y].pc \in Uncommitted
    <3>1. lock = y
      BY <2>1 DEF Inv, LocksHeld, OpLocks, Uncommitted
    <3>2. UNCHANGED <<sql, store>>
      BY <3>1
    <3>3. Doomed(y)' = Doomed(y)
      BY <3>2, DoomedKept
    <3>4. QED
      BY <3>2, <3>3 DEF Calm, PlannedInv, PlanAt
  <2>2. CASE op[y].pc \notin Uncommitted
    BY <2>2 DEF PlanAt, Uncommitted
  <2>3. QED
    BY <2>1, <2>2
<1>8. QED
  BY <1>2, <1>3, <1>4, <1>5, <1>6, <1>7 DEF Calm

(* An executor that goes on with its task.                                 *)
GoesOn(w, x) == x.t = wk[w].t /\ x.replay = wk[w].replay

(* It looks around without touching rows or chunks.                        *)
LEMMA LookCalm ==
    ASSUME NEW w \in Workers, NEW x, Inv, Calm, UNCHANGED <<sql, store, pel, unread, requestVars>>,
           WkBecome(w, x), wk[w].pc \notin {"idle", "down", "register"}, GoesOn(w, x),
           Follows(x, wk[w])
    PROVE  Calm'
<1>1. wk'[w] = x /\ \A v \in Workers \ {w} : wk'[v] = wk[v]
  BY DEF WkBecome, Inv, Typed, TypeOK
<1>2. UNCHANGED <<op, journal, flag, sent>>
  BY DEF requestVars
<1>3. HistoryInv'
  BY <1>1, <1>2, SameHistory DEF Follows
<1>4. QED
  BY <1>2, <1>3, WorkerCalm DEF Calm, SentInv, GoesOn

(* It writes rows while nobody has them.                                   *)
LEMMA WriteCalm ==
    ASSUME NEW w \in Workers, NEW x, Inv, Inv', Calm, UNCHANGED <<store, pel, unread, requestVars>>,
           WkBecome(w, x), wk[w].pc \notin {"idle", "down"}, GoesOn(w, x), Follows(x, wk[w]),
           lock = None, Improved
    PROVE  Calm'
<1>1. wk'[w] = x /\ \A v \in Workers \ {w} : wk'[v] = wk[v]
  BY DEF WkBecome, Inv, Typed, TypeOK
<1>2. UNCHANGED <<op, journal, flag, sent>> /\ lock \notin Ops
  BY PartiesAssumption DEF requestVars
<1>3. \A v \in Workers : wk[v].pc # "register"
  BY FreeSettled DEF Settled
<1>4. \A v \in Workers : Follows(wk'[v], wk[v])
  BY <1>1, <1>3 DEF Follows
<1>5. HistoryInv'
  BY <1>2, <1>4, ImprovedHistory
<1>6. QED
  BY <1>2, <1>5, WorkerCalm DEF Calm, SentInv, GoesOn

(* A message is taken from the stream, or again from the backlog.          *)
LEMMA DeliverCalm ==
    ASSUME NEW w \in Workers, Inv, Inv', Calm, Deliver(w) PROVE Calm'
<1>1. wk[w].pc = "idle" /\ UNCHANGED <<sql, store, op, journal, flag, sent>>
  BY DEF Deliver, requestVars
<1>2. wk[w] \in WorkerStates
  BY DEF Inv, Typed, TypeOK
<1>3. ASSUME NEW t \in sent, NEW x, WkBecome(w, x), x.pc = "got", x.t = t,
             x.replay \subseteq wk[w].replay, unread' \subseteq unread,
             \A v \in Workers : pel'[v] \subseteq sent
      PROVE  Calm'
  <2>1. wk'[w] = x /\ \A v \in Workers \ {w} : wk'[v] = wk[v]
    BY <1>3 DEF WkBecome, Inv, Typed, TypeOK
  <2>2. HistoryInv'
    BY <1>1, <1>3, <2>1, SameHistory DEF Indexed
  <2>3. x.replay \subseteq sent
    BY <1>3 DEF Calm, SentInv
  <2>4. QED
    BY <1>1, <1>3, <2>2, <2>3, WorkerCalm
<1>4. ASSUME NEW t \in wk[w].replay, UNCHANGED <<unread, pel>>,
             WkBecome(w, [wk[w] EXCEPT !.pc = "got", !.t = t, !.replay = @ \ {t}])
      PROVE  Calm'
  <2> DEFINE x == [wk[w] EXCEPT !.pc = "got", !.t = t, !.replay = @ \ {t}]
  <2>1. x.pc = "got" /\ x.t = t /\ x.replay \subseteq wk[w].replay
    BY <1>2 DEF WorkerStates
  <2>2. t \in sent /\ \A v \in Workers : pel'[v] \subseteq sent
    BY <1>4 DEF Calm, SentInv
  <2> HIDE DEF x
  <2>3. QED
    BY <1>3, <1>4, <2>1, <2>2 DEF x
<1>5. ASSUME NEW t \in unread, unread' = unread \ {t}, pel' = [pel EXCEPT ![w] = @ \cup {t}],
             WkBecome(w, [wk[w] EXCEPT !.pc = "got", !.t = t])
      PROVE  Calm'
  <2> DEFINE x == [wk[w] EXCEPT !.pc = "got", !.t = t]
  <2>1. x.pc = "got" /\ x.t = t /\ x.replay \subseteq wk[w].replay
    BY <1>2 DEF WorkerStates
  <2>2. t \in sent /\ \A v \in Workers : pel'[v] \subseteq sent
    BY <1>5 DEF Calm, SentInv, Inv, Typed, TypeOK
  <2> HIDE DEF x
  <2>3. QED
    BY <1>3, <1>5, <2>1, <2>2 DEF x
<1>6. QED
  BY <1>4, <1>5 DEF Deliver

(* Steps that only look.                                                   *)
LEMMA LooksCalm ==
    ASSUME NEW w \in Workers, Inv, Calm,
           \/ Receive(w) \/ CheckCanceled(w) \/ ParseFails(w) \/ EnterFence(w) \/ PrepareSource(w)
           \/ MarkReady(w)
    PROVE  Calm'
<1>1. UNCHANGED <<sql, store, pel, unread, requestVars>>
  BY DEF Receive, CheckCanceled, ParseFails, EnterFence, PrepareSource, MarkReady
<1>2. \/ wk[w].pc = "got" /\ (WkGoto(w, "ack") \/ WkGoto(w, "load"))
      \/ wk[w].pc = "check" /\ (WkGoto(w, "ack") \/ Say(w, "parse"))
      \/ wk[w].pc = "report" /\ Say(w, "fail")
      \/ wk[w].pc = "insert" /\ (WkGoto(w, "prepare") \/ Say(w, "fail"))
      \/ wk[w].pc = "prepare" /\ (WkGoto(w, "native") \/ Say(w, "fail"))
      \/ wk[w].pc = "ready" /\ (Say(w, "index") \/ Say(w, "fail"))
  BY DEF Receive, CheckCanceled, ParseFails, EnterFence, PrepareSource, MarkReady
<1>3. ASSUME NEW pc \in {"ack", "load", "prepare", "native"}, WkGoto(w, pc),
             wk[w].pc \in {"got", "check", "report", "insert", "prepare", "ready"}
      PROVE  Calm'
  <2> DEFINE x == [wk[w] EXCEPT !.pc = pc]
  <2>1. WkBecome(w, x) /\ GoesOn(w, x) /\ x.pc = pc
    BY <1>3 DEF WkGoto, GoesOn, Inv, Typed, TypeOK, WorkerStates
  <2> HIDE DEF x
  <2>2. Follows(x, wk[w])
    BY <1>3, <2>1 DEF Follows, Indexed
  <2>3. QED
    BY <1>1, <1>3, <2>1, <2>2, LookCalm
<1>4. ASSUME NEW stage \in {"parse", "fail", "index"}, Say(w, stage),
             stage = "index" => wk[w].pc = "ready",
             wk[w].pc \in {"got", "check", "report", "insert", "prepare", "ready"}
      PROVE  Calm'
  <2> DEFINE x == [wk[w] EXCEPT !.pc = "report", !.stage = stage]
  <2>1. WkBecome(w, x) /\ GoesOn(w, x) /\ x.pc = "report" /\ x.stage = stage
    BY <1>4 DEF Say, GoesOn, Inv, Typed, TypeOK, WorkerStates
  <2> HIDE DEF x
  <2>2. Follows(x, wk[w])
    BY <1>4, <2>1 DEF Follows, Indexed, GoesOn
  <2>3. QED
    BY <1>1, <1>4, <2>1, <2>2, LookCalm
<1>5. QED
  BY <1>2, <1>3, <1>4

(* The flag is read before the write.                                      *)
LEMMA ReportCalm ==
    ASSUME NEW w \in Workers, Inv, Calm, Report(w) PROVE Calm'
<1> DEFINE x == [wk[w] EXCEPT !.pc = "write", !.stop = HasCanceled(wk[w].t)]
<1>1. /\ UNCHANGED <<sql, store, pel, unread, requestVars>> /\ WkBecome(w, x)
      /\ wk[w].pc = "report" /\ wk[w] \in WorkerStates
  BY DEF Report, Inv, Typed, TypeOK
<1>2. x.pc = "write" /\ x.stage = wk[w].stage /\ GoesOn(w, x)
  BY <1>1 DEF WorkerStates, GoesOn
<1> HIDE DEF x
<1>3. Follows(x, wk[w])
  BY <1>1, <1>2 DEF Follows, Indexed, GoesOn
<1>4. QED
  BY <1>1, <1>2, <1>3, LookCalm

(* Writing one row changes no other.                                       *)
LEMMA RowImproves ==
    ASSUME NEW w \in Workers, Inv, Loadable(wk[w].t), NEW st, st # "none",
           st = "done" => sql.row[wk[w].t[2]].st = "done" \/ Indexed(wk[w]),
           sql' = [sql EXCEPT !.row[wk[w].t[2]].st = st, !.log = FreshLog]
    PROVE  Improved
<1>1. sql \in Sql
  BY DEF Inv, Typed, TypeOK
<1>2. PICK p0 \in Pages : wk[w].t = <<sql.gen, p0>> /\ sql.row[p0].st # "none"
  BY DEF Loadable, Ids, Present
<1>3. /\ sql'.log = FreshLog /\ sql'.num = sql.num /\ sql'.cfg = sql.cfg /\ sql'.gen = sql.gen
      /\ \A p \in Pages : p # p0 => sql'.row[p] = sql.row[p]
      /\ sql'.row[p0].chunk = sql.row[p0].chunk /\ sql'.row[p0].st = st
  BY <1>1, <1>2 DEF Sql, Rows
<1>4. st = "done" => sql.row[p0].st = "done" \/ Finishes(p0)
  BY <1>2 DEF Finishes
<1>5. QED
  BY <1>2, <1>3, <1>4 DEF Improved

(* A task that is received is no longer finished.                          *)
LEMMA GetTaskCalm ==
    ASSUME NEW w \in Workers, Inv, Inv', Calm, GetTask(w) PROVE Calm'
<1>1. /\ UNCHANGED <<store, pel, unread, requestVars>> /\ wk[w].pc = "load" /\ lock = None
      /\ wk[w] \in WorkerStates
  BY DEF GetTask, Inv, Typed, TypeOK
<1>2. ASSUME NEW pc \in {"check", "ack"}
      PROVE  /\ GoesOn(w, [wk[w] EXCEPT !.pc = pc])
             /\ Follows([wk[w] EXCEPT !.pc = pc], wk[w])
  BY <1>1 DEF WorkerStates, GoesOn, Follows, Indexed
<1>3. CASE Loadable(wk[w].t)
  <2>1. Improved
    <3>1. PICK st : st = "run"
      OBVIOUS
    <3>2. sql' = [sql EXCEPT !.row[wk[w].t[2]].st = st, !.log = FreshLog]
      BY <1>3, <3>1 DEF GetTask, Page
    <3>3. st # "none" /\ st # "done"
      BY <3>1
    <3>4. QED
      BY <1>3, <3>2, <3>3, RowImproves
  <2>2. WkBecome(w, [wk[w] EXCEPT !.pc = "check"])
    BY <1>3 DEF GetTask, WkGoto
  <2>3. QED
    BY <1>1, <1>2, <2>1, <2>2, WriteCalm
<1>4. CASE ~Loadable(wk[w].t)
  <2>1. WkBecome(w, [wk[w] EXCEPT !.pc = "ack"]) /\ sql' = sql
    BY <1>4 DEF GetTask, WkGoto
  <2>2. QED
    BY <1>1, <1>2, <2>1, LookCalm
<1>5. QED
  BY <1>3, <1>4

(* A task is finished only when its chunks are registered.                 *)
LEMMA WriteProgressCalm ==
    ASSUME NEW w \in Workers, Inv, Inv', Calm, WriteProgress(w) PROVE Calm'
<1> DEFINE x == [wk[w] EXCEPT !.pc = AfterReport(w), !.stage = "parse", !.stop = FALSE]
           t == wk[w].t
           st == Progressed(sql.row[t[2]].st, Reported(w))
<1>1. /\ UNCHANGED <<store, pel, unread, requestVars>> /\ wk[w].pc = "write" /\ lock = None
      /\ wk[w] \in WorkerStates /\ WkBecome(w, x)
  BY DEF WriteProgress, Inv, Typed, TypeOK
<1>2. x.pc = AfterReport(w) /\ x.stage = "parse" /\ GoesOn(w, x)
  BY <1>1 DEF WorkerStates, GoesOn
<1> HIDE DEF x
<1>3. Follows(x, wk[w])
  <2>1. /\ AfterReport(w) \in {"end", "insert", "count"}
        /\ AfterReport(w) = "count" => wk[w].stage = "index"
    BY <1>1 DEF AfterReport, WorkerStates, Stages
  <2>2. QED
    BY <1>1, <1>2, <2>1 DEF Follows, Indexed, GoesOn
<1>4. CASE Loadable(t)
  <2>1. PICK p \in Pages : t = <<sql.gen, p>> /\ sql.row[p].st # "none" /\ sql.row[p].st # "cancelled"
    BY <1>4 DEF Loadable, Ids, Present
  <2>2. Reported(w) \in {"bad", "done", "run"} /\ (Reported(w) = "done" => wk[w].stage = "finish")
    BY DEF Reported
  <2>3. st # "none" /\ (st = "done" => sql.row[t[2]].st = "done" \/ Indexed(wk[w]))
    BY <1>1, <2>1, <2>2 DEF Progressed, Indexed
  <2>4. sql' = [sql EXCEPT !.row[t[2]].st = st, !.log = FreshLog]
    BY <1>4, <2>1 DEF WriteProgress, Page, Inv, Typed, TypeOK, Sql, Rows
  <2>5. Improved
    BY <1>4, <2>3, <2>4, RowImproves
  <2>6. QED
    BY <1>1, <1>2, <1>3, <2>5, WriteCalm
<1>5. CASE ~Loadable(t)
  <2>1. sql' = sql
    BY <1>5 DEF WriteProgress
  <2>2. QED
    BY <1>1, <1>2, <1>3, <2>1, LookCalm
<1>6. QED
  BY <1>4, <1>5

(* While an executor has the rows, no request is between two changes.      *)
LEMMA FenceAlone ==
    ASSUME NEW w \in Workers, Inv, wk[w].pc \in WorkerLocks
    PROVE  /\ lock = w /\ lock \notin Ops
           /\ \A x \in Ops : op[x].pc \notin OpLocks /\ ~InWindow(op[x])
           /\ \A v \in Workers \ {w} : wk[v].pc \notin WorkerLocks
<1>1. lock = w /\ lock \notin Ops
  BY PartiesAssumption DEF Inv, LocksHeld
<1>2. \A x \in Ops : op[x].pc \notin OpLocks
  BY <1>1 DEF Inv, LocksHeld
<1>3. \A x \in Ops : ~InWindow(op[x])
  BY <1>2 DEF InWindow, OpLocks
<1>4. \A v \in Workers \ {w} : wk[v].pc \notin WorkerLocks
  BY <1>1 DEF Inv, LocksHeld
<1>5. QED
  BY <1>1, <1>2, <1>3, <1>4

(* Chunks are stored before their rows say so.                             *)
LEMMA NativeInsertCalm ==
    ASSUME NEW w \in Workers, Inv, Calm, NativeInsert(w) PROVE Calm'
<1> DEFINE x == [wk[w] EXCEPT !.pc = "register"]
<1>1. /\ UNCHANGED <<sql, pel, unread, op, journal, flag, sent>> /\ WkBecome(w, x)
      /\ wk[w].pc = "native" /\ wk[w] \in WorkerStates /\ store' = store \cup {ChunkOf(w)}
  BY DEF NativeInsert, WkGoto, requestVars, Inv, Typed, TypeOK
<1>2. x.pc = "register" /\ GoesOn(w, x)
  BY <1>1 DEF WorkerStates, GoesOn
<1> HIDE DEF x
<1>3. wk'[w] = x /\ \A v \in Workers \ {w} : wk'[v] = wk[v]
  BY <1>1 DEF WkBecome, Inv, Typed, TypeOK
<1>4. /\ lock \notin Ops /\ \A y \in Ops : ~InWindow(op[y])
      /\ \A v \in Workers \ {w} : wk[v].pc # "register"
  BY <1>1, FenceAlone DEF WorkerLocks
<1>5. PICK H : Ledger(H)
  BY DEF Calm, HistoryInv
<1>6. HistoryInv'
  <2>1. store \in H[sql]
    BY <1>1, <1>4, <1>5 DEF Ledger, Here, Settled
  <2>2. Right(H)'
    BY <1>1, <1>2, <1>3, <1>5 DEF Ledger, Right, WorkFits, Indexed
  <2>3. Rules(H)'
    BY <1>1, <1>5 DEF Ledger, Rules, Held
  <2>4. Here(H)'
    <3>1. ChunkOf(w)' = ChunkOf(w)
      BY <1>1, <1>2, <1>3 DEF ChunkOf, Page, GoesOn
    <3>2. \A y \in Ops : Opened(H, op'[y], sql', store')
      BY <1>1, <1>4 DEF Opened, InWindow
    <3>3. \A v \in Workers : wk'[v].pc = "register" => v = w
      BY <1>3, <1>4
    <3>4. ~Settled'
      BY <1>2, <1>3 DEF Settled
    <3>5. \E C \in H[sql'] : store' = C \cup {ChunkOf(w)'}
      BY <1>1, <2>1, <3>1
    <3>6. QED
      BY <3>2, <3>3, <3>4, <3>5 DEF Here
  <2>5. QED
    BY <2>2, <2>3, <2>4 DEF HistoryInv, Ledger
<1>7. QED
  BY <1>1, <1>2, <1>4, <1>6, WorkerCalm DEF Calm, SentInv, GoesOn

(* The rows the fence registers say what is stored.                        *)
LEMMA RegisterFacts ==
    ASSUME NEW w \in Workers, Inv, RegisterChunks(w)
    PROVE  \E p0 \in Pages :
             /\ wk[w].t = <<sql.gen, p0>> /\ ChunkOf(w) = <<p0, sql.cfg>>
             /\ sql'.rev = FreshRev /\ sql'.num = Cardinality(store) /\ sql'.cfg = sql.cfg
             /\ sql'.gen = sql.gen /\ sql'.row[p0].chunk
             /\ \A p \in Pages : /\ sql'.row[p].st = sql.row[p].st
                                 /\ p # p0 => sql'.row[p] = sql.row[p]
<1>1. sql \in Sql /\ store \in SUBSET Chunks
  BY DEF Inv, Typed, TypeOK
<1>2. PICK p0 \in Pages : wk[w].t = <<sql.gen, p0>>
  BY DEF RegisterChunks, Inv, FencedWrites, Fence, Ids, Present
<1> DEFINE c == Reconcile(sql, store)
<1>3. /\ sql' = [c EXCEPT !.row[p0].chunk = TRUE, !.log = FreshLog] /\ c \in Sql
      /\ c.rev = FreshRev /\ c.num = Cardinality(store) /\ c.cfg = sql.cfg /\ c.gen = sql.gen
      /\ c.row = sql.row
  <2>1. /\ c.rev = FreshRev /\ c.num = Cardinality(store) /\ c.cfg = sql.cfg /\ c.gen = sql.gen
        /\ c.row = sql.row
    BY <1>1 DEF Reconcile, Sql
  <2>2. c \in Sql
    BY <1>1, ReconcileType DEF Inv, Typed, TypeOK
  <2>3. sql' = [c EXCEPT !.row[p0].chunk = TRUE, !.log = FreshLog]
    BY <1>2 DEF RegisterChunks, Registered, Page
  <2>4. QED
    BY <2>1, <2>2, <2>3
<1> HIDE DEF c
<1>4. /\ sql'.rev = c.rev /\ sql'.num = c.num /\ sql'.cfg = c.cfg /\ sql'.gen = c.gen
      /\ sql'.row[p0].chunk
      /\ \A p \in Pages : sql'.row[p].st = c.row[p].st /\ (p # p0 => sql'.row[p] = c.row[p])
  BY <1>2, <1>3 DEF Sql, Rows
<1>5. ChunkOf(w) = <<p0, sql.cfg>>
  BY <1>2 DEF ChunkOf, Page
<1>6. QED
  BY <1>2, <1>3, <1>4, <1>5

(* Rows and chunks go together again when the fence is left.               *)
LEMMA RegisterChunksCalm ==
    ASSUME NEW w \in Workers, Inv, Inv', Calm, RegisterChunks(w) PROVE Calm'
<1> DEFINE x == [wk[w] EXCEPT !.pc = "ready"]
<1>1. /\ UNCHANGED <<store, pel, unread, op, journal, flag, sent>> /\ WkBecome(w, x)
      /\ wk[w].pc = "register" /\ wk[w] \in WorkerStates
  BY DEF RegisterChunks, WkGoto, requestVars, Inv, Typed, TypeOK
<1>2. x.pc = "ready" /\ GoesOn(w, x)
  BY <1>1 DEF WorkerStates, GoesOn
<1> HIDE DEF x
<1>3. wk'[w] = x /\ \A v \in Workers \ {w} : wk'[v] = wk[v]
  BY <1>1 DEF WkBecome, Inv, Typed, TypeOK
<1>4. /\ lock \notin Ops /\ \A y \in Ops : ~InWindow(op[y])
      /\ \A v \in Workers \ {w} : wk[v].pc # "register"
  BY <1>1, FenceAlone DEF WorkerLocks
<1>5. PICK H : Ledger(H)
  BY DEF Calm, HistoryInv
<1>6. PICK p0 \in Pages :
             /\ wk[w].t = <<sql.gen, p0>> /\ ChunkOf(w) = <<p0, sql.cfg>>
             /\ sql'.rev = FreshRev /\ sql'.num = Cardinality(store) /\ sql'.cfg = sql.cfg
             /\ sql'.gen = sql.gen /\ sql'.row[p0].chunk
             /\ \A p \in Pages : /\ sql'.row[p].st = sql.row[p].st
                                 /\ p # p0 => sql'.row[p] = sql.row[p]
  BY RegisterFacts
<1>7. sql \in Sql /\ sql' \in Sql /\ store' \in SUBSET Chunks /\ sql' # None
  BY AbsenceAssumption DEF Inv, Typed, TypeOK
<1>8. PICK C \in H[sql] : store = C \cup {ChunkOf(w)}
  BY <1>1, <1>5 DEF Ledger, Here
<1>9. Consistent(sql, C) /\ WorkFits(sql)
  BY <1>5, <1>7, <1>8 DEF Ledger, Right
<1>10. Consistent(sql', store')
  <2>1. ASSUME NEW p \in Pages, sql'.row[p].chunk PROVE <<p, sql'.cfg>> \in store
    BY <1>6, <1>8, <1>9, <2>1 DEF Consistent, RegisteredChunks, ChunkPages
  <2>2. RegisteredChunks(sql') \subseteq store
    BY <2>1 DEF RegisteredChunks, ChunkPages
  <2>3. \A p \in Pages : sql'.row[p].st = "done" => sql'.row[p].chunk
    BY <1>6, <1>9 DEF Consistent
  <2>4. QED
    BY <1>1, <1>6, <2>2, <2>3 DEF Consistent
<1>11. WorkFits(sql)'
  <2> SUFFICES ASSUME NEW v \in Workers, Indexed(wk'[v]), wk'[v].t \in Ids(sql')
               PROVE  sql'.row[wk'[v].t[2]].chunk
    BY DEF WorkFits
  <2>1. PICK p \in Pages : wk'[v].t = <<sql.gen, p>> /\ sql.row[p].st # "none"
    BY <1>6 DEF Ids, Present
  <2>2. CASE p = p0
    BY <1>6, <2>1, <2>2
  <2>3. CASE p # p0
    <3>1. v # w
      BY <1>2, <1>3, <1>6, <2>1, <2>3 DEF GoesOn
    <3>2. Indexed(wk[v]) /\ wk[v].t = <<sql.gen, p>>
      BY <1>3, <2>1, <3>1
    <3>3. wk[v].t \in Ids(sql)
      BY <2>1, <3>2 DEF Ids, Present
    <3>4. sql.row[p].chunk
      BY <1>9, <3>2, <3>3 DEF WorkFits
    <3>5. QED
      BY <1>6, <2>1, <2>3, <3>4
  <2>4. QED
    BY <2>2, <2>3
<1>12. HistoryInv'
  <2>1. sql' \notin Kept
    BY <1>6, <1>7, FreshRows
  <2>2. Held' = Held
    BY <1>1 DEF Held
  <2>3. \A v \in Workers : wk'[v].pc # "register"
    BY <1>2, <1>3, <1>4
  <2>4. QED
    BY <1>1, <1>4, <1>7, <1>10, <1>11, <2>1, <2>2, <2>3, RenewHistory DEF Calm
<1>13. QED
  BY <1>1, <1>2, <1>4, <1>12, WorkerCalm DEF Calm, SentInv, GoesOn

(* Counting the chunks again changes no row.                               *)
LEMMA CountChunksCalm ==
    ASSUME NEW w \in Workers, Inv, Inv', Calm, CountChunks(w) PROVE Calm'
<1>1. /\ UNCHANGED <<store, pel, unread, requestVars>> /\ wk[w].pc = "count" /\ lock = None
      /\ wk[w] \in WorkerStates /\ sql \in Sql
  BY DEF CountChunks, Inv, Typed, TypeOK
<1>2. ASSUME NEW stage \in {"finish", "fail"}
      PROVE  /\ GoesOn(w, [wk[w] EXCEPT !.pc = "report", !.stage = stage])
             /\ Follows([wk[w] EXCEPT !.pc = "report", !.stage = stage], wk[w])
  BY <1>1 DEF WorkerStates, GoesOn, Follows, Indexed
<1>3. CASE Fence(sql, wk[w].t) /\ sql' = [Reconcile(sql, store) EXCEPT !.log = FreshLog]
           /\ Say(w, "finish")
  <2>1. /\ sql'.rev = FreshRev /\ sql'.num = Cardinality(store) /\ sql'.cfg = sql.cfg
        /\ sql'.gen = sql.gen /\ sql'.row = sql.row
    BY <1>1, <1>3 DEF Reconcile, Sql
  <2>2. Improved
    BY <2>1 DEF Improved
  <2>3. WkBecome(w, [wk[w] EXCEPT !.pc = "report", !.stage = "finish"])
    BY <1>3 DEF Say
  <2>4. QED
    BY <1>1, <1>2, <2>2, <2>3, WriteCalm
<1>4. CASE UNCHANGED sql /\ Say(w, "fail")
  <2>1. WkBecome(w, [wk[w] EXCEPT !.pc = "report", !.stage = "fail"])
    BY <1>4 DEF Say
  <2>2. QED
    BY <1>1, <1>2, <1>4, <2>1, LookCalm
<1>5. QED
  BY <1>3, <1>4 DEF CountChunks

(* Aggregating the progress changes no task row.                           *)
LEMMA SyncImproves ==
    ASSUME Inv, ~SyncSkips(sql), sql' = SyncDoc(sql) PROVE Improved
<1>1. sql \in Sql
  BY DEF Inv, Typed, TypeOK
<1>2. /\ sql'.rev = FreshRev /\ sql'.num = sql.num /\ sql'.cfg = sql.cfg
      /\ sql'.gen = sql.gen /\ sql'.row = sql.row
  BY <1>1 DEF SyncDoc, Sql
<1>3. QED
  BY <1>2 DEF Improved

(* An executor does it at the end of a task.                               *)
LEMMA RecordPipelineCalm ==
    ASSUME NEW w \in Workers, Inv, Inv', Calm, RecordPipeline(w) PROVE Calm'
<1>1. /\ UNCHANGED <<store, pel, unread, requestVars>> /\ wk[w].pc = "end" /\ lock = None
      /\ wk[w] \in WorkerStates /\ WkBecome(w, [wk[w] EXCEPT !.pc = "ack"])
  BY DEF RecordPipeline, WkGoto, Inv, Typed, TypeOK
<1>2. /\ GoesOn(w, [wk[w] EXCEPT !.pc = "ack"])
      /\ Follows([wk[w] EXCEPT !.pc = "ack"], wk[w])
  BY <1>1 DEF WorkerStates, GoesOn, Follows, Indexed
<1>3. sql' = sql \/ (~SyncSkips(sql) /\ sql' = SyncDoc(sql))
  BY DEF RecordPipeline, SyncDoc
<1>4. CASE sql' = sql
  BY <1>1, <1>2, <1>4, LookCalm
<1>5. CASE ~SyncSkips(sql) /\ sql' = SyncDoc(sql)
  BY <1>1, <1>2, <1>5, SyncImproves, WriteCalm
<1>6. QED
  BY <1>3, <1>4, <1>5

(* An executor is done with a message, or starts with those it had.        *)
LEMMA IdleCalm ==
    ASSUME NEW w \in Workers, Inv, Calm, Ack(w) \/ Restart(w) PROVE Calm'
<1>1. PICK x \in WorkerStates :
        /\ WkBecome(w, x) /\ x.pc = "idle" /\ x.replay \in {wk[w].replay, pel[w]}
  <2>1. wk[w] \in WorkerStates /\ pel[w] \in SUBSET TaskIds
    BY DEF Inv, Typed, TypeOK
  <2>2. CASE Ack(w)
    <3>1. [NewWorker EXCEPT !.replay = wk[w].replay] \in WorkerStates
      BY <2>1 DEF NewWorker, WorkerStates, WorkerPcs, Stages
    <3>2. /\ [NewWorker EXCEPT !.replay = wk[w].replay].pc = "idle"
          /\ [NewWorker EXCEPT !.replay = wk[w].replay].replay = wk[w].replay
      BY DEF NewWorker
    <3>3. QED
      BY <2>2, <3>1, <3>2 DEF Ack
  <2>3. CASE Restart(w)
    <3>1. [wk[w] EXCEPT !.pc = "idle", !.replay = pel[w]] \in WorkerStates
      BY <2>1 DEF WorkerStates, WorkerPcs
    <3>2. /\ [wk[w] EXCEPT !.pc = "idle", !.replay = pel[w]].pc = "idle"
          /\ [wk[w] EXCEPT !.pc = "idle", !.replay = pel[w]].replay = pel[w]
      BY <2>1 DEF WorkerStates
    <3>3. QED
      BY <2>3, <3>1, <3>2 DEF Restart
  <2>4. QED
    BY <2>2, <2>3
<1>2. /\ UNCHANGED <<sql, store, unread, op, journal, flag, sent>> /\ wk[w].pc \in {"ack", "down"}
      /\ \A v \in Workers : pel'[v] \subseteq pel[v]
  BY DEF Ack, Restart, requestVars, Inv, Typed, TypeOK
<1>3. wk'[w] = x /\ \A v \in Workers \ {w} : wk'[v] = wk[v]
  BY <1>1 DEF WkBecome, Inv, Typed, TypeOK
<1>4. HistoryInv'
  BY <1>1, <1>2, <1>3, SameHistory DEF Indexed
<1>5. x.replay \subseteq sent /\ \A v \in Workers : pel'[v] \subseteq sent
  BY <1>1, <1>2 DEF Calm, SentInv
<1>6. QED
  BY <1>1, <1>2, <1>4, <1>5, WorkerCalm

(* No step of an executor breaks the calm.                                 *)
LEMMA WorkerStepCalm ==
    ASSUME NEW w \in Workers, Inv, Inv', Calm, WorkerStep(w) \/ Restart(w)
    PROVE  Calm'
  BY DeliverCalm, LooksCalm, GetTaskCalm, ReportCalm, WriteProgressCalm, NativeInsertCalm,
     RegisterChunksCalm, CountChunksCalm, RecordPipelineCalm, IdleCalm DEF WorkerStep

(* Nor of the poller.                                                      *)
LEMMA PollCalm == ASSUME Inv, Inv', Calm, Poll PROVE Calm'
<1>1. UNCHANGED <<store, journal, flag, sent, unread, pel, op, wk>>
  BY DEF Poll, PollSelect, PollSync
<1>2. sql' = sql \/ (lock = None /\ ~SyncSkips(sql) /\ sql' = SyncDoc(sql))
  BY DEF Poll, PollSelect, PollSync, SyncDoc
<1>3. HistoryInv'
  <2>1. CASE sql' = sql
    BY <1>1, <2>1, SameHistory
  <2>2. CASE lock = None /\ ~SyncSkips(sql) /\ sql' = SyncDoc(sql)
    <3>1. \A v \in Workers : Follows(wk'[v], wk[v])
      BY <1>1, <2>2, FreeSettled DEF Settled, Follows
    <3>2. QED
      BY <1>1, <2>2, <3>1, SyncImproves, ImprovedHistory
  <2>3. QED
    BY <1>2, <2>1, <2>2
<1>4. MarkInv' /\ SentInv' /\ JournalInv' /\ FlagInv'
  BY <1>1 DEF Calm, MarkInv, SentInv, JournalInv, FlagInv, Material
<1>5. UnseenInv'
  BY <1>1 DEF Calm, UnseenInv, Held, Material
<1>6. PlannedInv'
  <2> SUFFICES ASSUME NEW y \in Ops PROVE PlanAt(y)'
    BY DEF PlannedInv, PlanAt
  <2>1. CASE op[y].pc \in Uncommitted
    <3>1. lock = y /\ lock # None
      BY <2>1, PartiesAssumption DEF Inv, LocksHeld, OpLocks, Uncommitted
    <3>2. Doomed(y)' = Doomed(y)
      BY <1>1, <1>2, <3>1, DoomedKept
    <3>3. QED
      BY <1>1, <3>2 DEF Calm, PlannedInv, PlanAt
  <2>2. CASE op[y].pc \notin Uncommitted
    BY <1>1, <2>2 DEF PlanAt, Uncommitted
  <2>3. QED
    BY <2>1, <2>2
<1>7. QED
  BY <1>3, <1>4, <1>5, <1>6 DEF Calm

-----------------------------------------------------------------------------
(* The theorems *)

(* Failures are counted and never forgotten.                               *)
LEMMA FaultsGrow ==
    ASSUME NEW o \in Ops, OpStep(o) PROVE UNCHANGED crashes /\ (UNCHANGED faults \/ Fault)
<1>1. Preflight(o) \/ LockRows(o) \/ LoadJournal(o) \/ SkipJournal(o) \/ ReplayHistory(o)
        => UNCHANGED crashes /\ (UNCHANGED faults \/ Fault)
  BY DEF Preflight, LockRows, LoadJournal, SkipJournal, ReplayHistory, FlagsFail, workerVars
<1>2. ReplayCommit(o) \/ ReplayRelock(o) \/ Begin(o) \/ Plan(o) \/ CreateJournal(o) \/ DeleteHistory(o)
        => UNCHANGED crashes /\ (UNCHANGED faults \/ Fault)
  BY DEF ReplayCommit, ReplayRelock, Begin, Plan, CreateJournal, DeleteHistory, workerVars
<1>3. RecordApplied(o) \/ Commit(o) \/ Requeue(o) \/ Submit(o) \/ Submitted(o) \/ ClearJournal(o)
        => UNCHANGED crashes /\ (UNCHANGED faults \/ Fault)
  BY DEF RecordApplied, Commit, Requeue, Submit, Submitted, ClearJournal, ClearFails, workerVars
<1>4. KeepPartial(o) \/ Compensate(o) \/ YieldToLater(o) \/ CompensateBusy(o) \/ UndoStore(o)
        => UNCHANGED crashes /\ (UNCHANGED faults \/ Fault)
  BY DEF KeepPartial, Compensate, YieldToLater, ClearFails, CompensateBusy, UndoStore, workerVars
<1>5. UndoSql(o) \/ UndoFlags(o) \/ Finalize(o) \/ Close(o)
        => UNCHANGED crashes /\ (UNCHANGED faults \/ Fault)
  BY DEF UndoSql, UndoFlags, FlagsFail, Finalize, Close, workerVars
<1>6. QED
  BY <1>1, <1>2, <1>3, <1>4, <1>5 DEF OpStep

(* So a calm state is reached by calm steps from calm states only.         *)
LEMMA CalmSteps ==
    ASSUME Inv, Next, Undisturbed'
    PROVE  /\ Undisturbed
           /\ \/ \E o \in Ops : OpStep(o)
              \/ \E w \in Workers : WorkerStep(w) \/ Restart(w)
              \/ Poll
<1>1. faults \in Nat /\ crashes \in Nat
  BY SizeAssumption DEF Inv, Typed, TypeOK
<1>2. CASE \E o \in Ops : OpStep(o)
  <2>1. UNCHANGED crashes /\ (UNCHANGED faults \/ Fault)
    BY <1>2, FaultsGrow
  <2>2. QED
    BY <1>1, <1>2, <2>1 DEF Undisturbed, Fault
<1>3. CASE \E o \in Ops : CrashOp(o)
  BY <1>1, <1>3 DEF CrashOp, Undisturbed
<1>4. CASE \E w \in Workers : CrashWorker(w)
  BY <1>1, <1>4 DEF CrashWorker, Undisturbed
<1>5. CASE \E w \in Workers : WorkerStep(w) \/ Restart(w)
  <2>1. UNCHANGED <<faults, crashes>>
    BY <1>5 DEF WorkerStep, Deliver, Receive, GetTask, CheckCanceled, ParseFails, Report,
                WriteProgress, EnterFence, PrepareSource, NativeInsert, RegisterChunks, MarkReady,
                CountChunks, RecordPipeline, Ack, Restart, requestVars
  <2>2. QED
    BY <1>5, <2>1 DEF Undisturbed
<1>6. CASE Poll
  BY <1>6 DEF Poll, PollSelect, PollSync, Undisturbed
<1>7. QED
  BY <1>2, <1>3, <1>4, <1>5, <1>6 DEF Next, OpNext, WorkerNext

(* One chunk of the document's configuration per page range.               *)
LEMMA ChunkPerPage ==
    ASSUME NEW S, S \subseteq Pages, NEW cfg
    PROVE  Cardinality({<<p, cfg>> : p \in S}) = Cardinality(S)
<1> DEFINE T == {<<p, cfg>> : p \in S}
           f == [p \in S |-> <<p, cfg>>]
<1>1. IsFiniteSet(S)
  BY SizeAssumption, FS_Subset
<1>2. f \in [S -> T] /\ (\A a, b \in S : f[a] = f[b] => a = b) /\ \A t \in T : \E p \in S : f[p] = t
  OBVIOUS
<1> HIDE DEF f, T
<1>3. f \in Bijection(S, T)
  BY <1>2 DEF Bijection, Injection, Surjection, IsInjective
<1>4. ExistsBijection(S, T)
  BY <1>3 DEF ExistsBijection
<1>5. Cardinality(T) = Cardinality(S)
  BY <1>1, <1>4, FS_Bijection
<1>6. QED
  BY <1>5 DEF T

(* What is stored initially goes with the rows.                            *)
LEMMA InitConsistent == ASSUME Init PROVE Consistent(sql, store)
<1>1. PICK cfg \in Cfgs :
        sql \in FreshDocs(cfg) \cup QueuedDocs(cfg) \cup ParsedDocs(cfg) \cup FailedDocs(cfg)
  BY DEF Init
<1>2. PICK row : /\ sql.num = Cardinality({p \in Pages : row[p].chunk}) /\ sql.row = row
                 /\ \A p \in Pages : row[p].st = "done" => row[p].chunk
  <2> DEFINE fresh == [p \in Pages |-> NoRow]
             queued == [p \in Pages |-> Row("queued", FALSE)]
             parsed == [p \in Pages |-> Row("done", TRUE)]
             partly(ok) == [p \in Pages |-> IF p \in ok THEN Row("done", TRUE) ELSE Row("bad", FALSE)]
  <2>1. \/ sql = Doc("0", "zero", cfg, fresh)
        \/ sql = Doc("1", "zero", cfg, queued)
        \/ sql = Doc("3", "one", cfg, parsed)
        \/ \E ok \in SUBSET Pages : sql = Doc("4", "bad", cfg, partly(ok))
    BY <1>1 DEF FreshDocs, QueuedDocs, ParsedDocs, FailedDocs
  <2>2. /\ \A p \in Pages : /\ fresh[p].st = "done" => fresh[p].chunk
                            /\ queued[p].st = "done" => queued[p].chunk
                            /\ parsed[p].st = "done" => parsed[p].chunk
        /\ \A ok \in SUBSET Pages, p \in Pages : partly(ok)[p].st = "done" => partly(ok)[p].chunk
    BY DEF Row, NoRow
  <2> HIDE DEF fresh, queued, parsed, partly
  <2>3. \A run, prog, row : /\ Doc(run, prog, cfg, row).row = row
                            /\ Doc(run, prog, cfg, row).num = Cardinality({p \in Pages : row[p].chunk})
    BY DEF Doc
  <2>4. QED
    BY <2>1, <2>2, <2>3
<1>3. sql.num = Cardinality(ChunkPages(sql)) /\ ChunkPages(sql) \subseteq Pages
  BY <1>2 DEF ChunkPages
<1>4. Cardinality(RegisteredChunks(sql)) = Cardinality(ChunkPages(sql))
  BY <1>3, ChunkPerPage DEF RegisteredChunks
<1>5. QED
  BY <1>2, <1>3, <1>4 DEF Init, Consistent

(* In the beginning the rows go with the chunks, and nobody has a plan.    *)
LEMMA InitCalm == ASSUME Init PROVE Calm
<1>1. Inv
  BY InitInv
<1>2. \A x \in Ops : /\ op[x].pc = "idle" /\ op[x].appl = None /\ op[x].rec = None
                     /\ op[x].fl = {} /\ op[x].jn = "none" /\ ~op[x].chg
  BY DEF Init, NewOp
<1>3. /\ \A w \in Workers : wk[w].pc = "idle" /\ wk[w].replay = {} /\ pel[w] = {}
      /\ journal = None /\ sent = Ids(sql) /\ unread = LiveIds(sql) /\ sql.gen = Origin
  <2>0. PICK cfg \in Cfgs :
          sql \in FreshDocs(cfg) \cup QueuedDocs(cfg) \cup ParsedDocs(cfg) \cup FailedDocs(cfg)
    BY DEF Init
  <2>1. \A run, prog, row : Doc(run, prog, cfg, row).gen = Origin
    BY DEF Doc
  <2>2. sql.gen = Origin
    BY <2>0, <2>1 DEF FreshDocs, QueuedDocs, ParsedDocs, FailedDocs
  <2>3. QED
    BY <2>2 DEF Init, NewWorker
<1>4. MarkInv
  BY <1>2 DEF MarkInv, MarksFit
<1>5. SentInv
  <2>1. unread \subseteq sent
    BY <1>3 DEF LiveIds, LivePages, Ids, Present, Unfinished
  <2>2. \A x \in Ops, p \in Pages : <<x, p>> \notin sent
    BY <1>3, PartiesAssumption DEF Ids
  <2>3. QED
    BY <1>3, <2>1, <2>2 DEF SentInv
<1>6. UnseenInv /\ JournalInv /\ FlagInv /\ PlannedInv
  BY <1>2, <1>3 DEF UnseenInv, JournalInv, FlagInv, PlannedInv, Uncommitted, Flagging
<1>7. HistoryInv
  <2>1. PICK new, chunks : new = sql /\ chunks = store
    OBVIOUS
  <2>2. PICK G : G = [s \in Sql |-> IF s = new THEN {chunks} ELSE {}]
    OBVIOUS
  <2>3. /\ G \in [Sql -> SUBSET (SUBSET Chunks)] /\ G[sql] = {store}
        /\ \A s \in Sql : s # sql => G[s] = {}
    BY <1>1, <2>1, <2>2 DEF Inv, Typed, TypeOK
  <2>4. WorkFits(sql)
    BY <1>3 DEF WorkFits, Indexed
  <2>5. Right(G)
    BY <2>3, <2>4, InitConsistent DEF Right
  <2>6. Rules(G)
    BY <1>2, <1>3 DEF Rules, Held, Takes
  <2>7. Here(G)
    BY <1>2, <1>3, <2>3 DEF Here, Opened
  <2>8. QED
    BY <2>5, <2>6, <2>7 DEF HistoryInv, Ledger
<1>8. QED
  BY <1>4, <1>5, <1>6, <1>7 DEF Calm

(* As long as no call fails and nobody crashes, the invariant holds.       *)
THEOREM CalmHolds == Spec => []CalmWhile
<1>1. Init => CalmWhile
  BY InitCalm DEF CalmWhile
<1>2. Inv /\ Inv' /\ CInv /\ CalmWhile /\ [Next]_vars => CalmWhile'
  <2> SUFFICES ASSUME Inv, Inv', CInv, CalmWhile, [Next]_vars, Undisturbed' PROVE Calm'
    BY DEF CalmWhile
  <2>1. CASE Next
    <3>1. Calm
      BY <2>1, CalmSteps DEF CalmWhile
    <3>2. QED
      BY <2>1, <3>1, CalmSteps, OpStepCalm, WorkerStepCalm, PollCalm
  <2>2. CASE UNCHANGED vars
    <3>1. Calm
      BY <2>2 DEF vars, CalmWhile, Undisturbed
    <3>2. UNCHANGED <<sql, store, journal, flag, sent, unread, pel, op, wk>>
      BY <2>2 DEF vars
    <3>3. MarkInv' /\ SentInv' /\ JournalInv' /\ FlagInv'
      BY <3>1, <3>2 DEF Calm, MarkInv, SentInv, JournalInv, FlagInv, Material
    <3>4. UnseenInv'
      BY <3>1, <3>2 DEF Calm, UnseenInv, Held, Material
    <3>5. PlannedInv'
      BY <3>1, <3>2, DoomedKept DEF Calm, PlannedInv
    <3>6. HistoryInv'
      BY <3>1, <3>2, SameHistory
    <3>7. QED
      BY <3>3, <3>4, <3>5, <3>6 DEF Calm
  <2>3. QED
    BY <2>1, <2>2
<1>3. QED
  BY <1>1, <1>2, InvHolds, CancelInvHolds, PTL DEF Spec

(* With the rows free, what they say about the stored chunks is right.     *)
LEMMA FreeConsistent == ASSUME Inv, Calm, lock = None PROVE Consistent(sql, store)
<1>1. PICK H : Ledger(H)
  BY DEF Calm, HistoryInv
<1>2. store \in H[sql] /\ sql \in Sql
  BY <1>1, FreeSettled DEF Ledger, Here, Inv, Typed, TypeOK
<1>3. QED
  BY <1>1, <1>2 DEF Ledger, Right

(***************************************************************************)
(* chunk_num counts exactly the stored chunks whenever nobody holds the    *)
(* document, however many requests stop, clear, restart and compensate     *)
(* while executors write: without failed calls and crashes no order of     *)
(* their steps brings ledger and store apart.                              *)
(***************************************************************************)
THEOREM LedgerHolds == Spec => [](Undisturbed => LedgerAgrees)
<1>1. Inv /\ CalmWhile => (Undisturbed => LedgerAgrees)
  BY FreeConsistent DEF CalmWhile, LedgerAgrees, LedgerDiffers, Consistent
<1>2. QED
  BY <1>1, InvHolds, CalmHolds, PTL

(***************************************************************************)
(* A finished task is searchable under the document's configuration, with  *)
(* any number of requests that reuse, clear and restore its chunks.        *)
(***************************************************************************)
THEOREM DoneStoredHolds == Spec => [](Undisturbed => DoneIsStored)
<1>1. Inv /\ CalmWhile => (Undisturbed => DoneIsStored)
  BY FreeConsistent DEF CalmWhile, DoneIsStored, Consistent, RegisteredChunks, ChunkPages
<1>2. QED
  BY <1>1, InvHolds, CalmHolds, PTL

-----------------------------------------------------------------------------
(* Requests alone *)

(* A request either has not looked at the rows yet, or is on its way out,  *)
(* or met another request, or finds the rows it saw or committed.          *)
Leaving == {"undoflags", "finalize", "closing"} \cup Over
Met(x) == \E y \in Ops \ {x} : op[y].pc \notin {"idle", "locking"}
Finds(r, s) == s = r.orig \/ (r.appl # None /\ s = r.appl)
MeetAt(x) ==
    /\ op[x].pc \in Selecting \cup Leaving \/ Met(x) \/ Finds(op[x], sql)
    /\ op[x].res = "lost" => Met(x)
MeetInv == \A x \in Ops : MeetAt(x)

(* A step of a request does not surprise it, and is a meeting for others.  *)
Abides(o, r) ==
    /\ Become(o, r) /\ r.pc # "idle"
    /\ r.pc = "locking" => op[o].pc = "idle" /\ sql' = sql
    /\ r.pc \in Selecting \cup Leaving \/ Met(o) \/ Finds(r, sql')
    /\ r.res = "lost" => Met(o)

(* A step that does not surprise its request surprises nobody.             *)
LEMMA AbidesMeets ==
    ASSUME NEW o \in Ops, NEW r, op \in [Ops -> OpStates], MeetInv, Abides(o, r)
    PROVE  MeetInv'
<1>1. op'[o] = r /\ \A x \in Ops \ {o} : op'[x] = op[x]
  BY DEF Abides, Become
<1>2. MeetAt(o)'
  <2>1. Met(o) => Met(o)'
    BY <1>1 DEF Met
  <2>2. QED
    BY <1>1, <2>1 DEF Abides, MeetAt
<1>3. ASSUME NEW x \in Ops \ {o} PROVE MeetAt(x)'
  <2>1. CASE r.pc = "locking"
    <3>1. Met(x) => Met(x)'
      BY <1>1, <2>1 DEF Met, Abides
    <3>2. QED
      BY <1>1, <2>1, <3>1 DEF MeetInv, MeetAt, Abides
  <2>2. CASE r.pc # "locking"
    <3>1. Met(x)'
      BY <1>1, <2>2 DEF Met, Abides
    <3>2. QED
      BY <3>1 DEF MeetAt
  <2>3. QED
    BY <2>1, <2>2
<1>4. QED
  BY <1>2, <1>3 DEF MeetInv

(* A request that goes on knows what it knew.                              *)
Carries(o, r) ==
    /\ r.orig = op[o].orig /\ r.appl = op[o].appl /\ r.res = op[o].res
    /\ r.pc \notin {"idle", "locking"}

(* A request that keeps what it knew, with the rows unchanged.             *)
LEMMA GoesAbide ==
    ASSUME NEW o \in Ops, NEW r, MeetInv, Become(o, r), Carries(o, r),
           r.pc \in Selecting \cup Leaving \/ (UNCHANGED sql /\ op[o].pc \notin Selecting \cup Leaving)
    PROVE  Abides(o, r)
  BY DEF Abides, Carries, MeetInv, MeetAt, Finds

(* A request that ends need not find anything.                             *)
LEMMA EndsAbide ==
    ASSUME NEW o \in Ops, NEW pc \in Over, NEW res \in Results, MeetInv, Become(o, Ended(o, pc, res)),
           res # "lost" \/ res = op[o].res
    PROVE  Abides(o, Ended(o, pc, res))
<1>1. Ended(o, pc, res).pc = pc /\ Ended(o, pc, res).res = res
  BY DEF Ended, NewOp
<1>2. QED
  BY <1>1 DEF Abides, Leaving, Over, MeetInv, MeetAt

(* Going to a place.                                                       *)
LEMMA GotoCarries ==
    ASSUME NEW o \in Ops, Inv, NEW pc \in OpPcs \ {"idle", "locking"}, Goto(o, pc)
    PROVE  \E r : Become(o, r) /\ Carries(o, r) /\ r.pc = pc
<1> DEFINE r == [op[o] EXCEPT !.pc = pc]
<1>1. op[o] \in OpStates
  BY DEF Inv, Typed, TypeOK
<1>2. Become(o, r) /\ Carries(o, r) /\ r.pc = pc
  BY <1>1 DEF Goto, Carries, OpStates
<1>3. QED
  BY <1>2

(* Whatever a request does, it abides by what it knows.                    *)
LEMMA SelectingAbides ==
    ASSUME NEW o \in Ops, Inv, MeetInv,
           \/ Preflight(o) \/ LockRows(o) \/ LoadJournal(o) \/ SkipJournal(o)
           \/ ReplayHistory(o) \/ ReplayCommit(o) \/ ReplayRelock(o)
    PROVE  \E r : Abides(o, r)
<1>1. op[o] \in OpStates
  BY DEF Inv, Typed, TypeOK
<1>2. ASSUME NEW r, Become(o, r), Carries(o, r), r.pc \in Selecting PROVE Abides(o, r)
  BY <1>2, GoesAbide
<1>3. ASSUME NEW res \in {"refused"}, Become(o, Ended(o, "done", res)) PROVE \E r : Abides(o, r)
  <2>1. res \in Results /\ res # "lost" /\ "done" \in Over
    BY DEF Results, Over
  <2>2. QED
    BY <1>3, <2>1, EndsAbide
<1>4. ASSUME NEW pc \in {"recommit", "relock"}, Goto(o, pc) PROVE \E r : Abides(o, r)
  <2>1. pc \in OpPcs \ {"idle", "locking"} /\ pc \in Selecting
    BY DEF OpPcs, Selecting, Replaying
  <2>2. QED
    BY <1>2, <1>4, <2>1, GotoCarries
<1>5. CASE Preflight(o)
  <2>1. PICK kind \in Kinds, clear \in BOOLEAN, cfg \in Cfgs :
          Become(o, [op[o] EXCEPT !.pc = "locking", !.kind = kind, !.clear = clear,
                                  !.cfg = cfg, !.rev = sql.rev, !.sel = Ids(sql)])
    BY <1>5 DEF Preflight
  <2> DEFINE r == [op[o] EXCEPT !.pc = "locking", !.kind = kind, !.clear = clear,
                                !.cfg = cfg, !.rev = sql.rev, !.sel = Ids(sql)]
  <2>2. r.pc = "locking" /\ r.res = op[o].res
    BY <1>1 DEF OpStates
  <2> HIDE DEF r
  <2>3. Abides(o, r)
    BY <1>5, <2>1, <2>2 DEF Preflight, Abides, Selecting, MeetInv, MeetAt, r
  <2>4. QED
    BY <2>3
<1>6. CASE LockRows(o)
  <2> DEFINE r == [op[o] EXCEPT !.pc = "loading", !.rev = None]
  <2>1. Carries(o, r) /\ r.pc \in Selecting
    BY <1>1 DEF OpStates, Carries, Selecting
  <2>2. Become(o, r) \/ Become(o, Ended(o, "done", "refused"))
    BY <1>6 DEF LockRows
  <2>3. QED
    BY <1>2, <1>3, <2>1, <2>2
<1>7. CASE LoadJournal(o)
  <2>1. PICK pc \in {"begin", "recover"} : Become(o, [op[o] EXCEPT !.pc = pc, !.rec = journal])
    BY <1>7 DEF LoadJournal
  <2>2. /\ Carries(o, [op[o] EXCEPT !.pc = pc, !.rec = journal])
        /\ [op[o] EXCEPT !.pc = pc, !.rec = journal].pc \in Selecting
    BY <1>1 DEF OpStates, Carries, Selecting, Replaying
  <2>3. QED
    BY <1>2, <2>1, <2>2
<1>8. CASE SkipJournal(o) \/ ReplayRelock(o)
  <2> DEFINE r == [op[o] EXCEPT !.pc = "begin", !.rec = None]
  <2>1. Carries(o, r) /\ r.pc \in Selecting
    BY <1>1 DEF OpStates, Carries, Selecting
  <2>2. Become(o, r) \/ Become(o, Ended(o, "done", "refused"))
    BY <1>8 DEF SkipJournal, ReplayRelock, Refuse
  <2>3. QED
    BY <1>2, <1>3, <2>1, <2>2
<1>9. CASE ReplayHistory(o)
  BY <1>3, <1>4, <1>9 DEF ReplayHistory, Refuse
<1>10. CASE ReplayCommit(o)
  BY <1>3, <1>4, <1>10 DEF ReplayCommit
<1>11. QED
  BY <1>5, <1>6, <1>7, <1>8, <1>9, <1>10

(* A request at work holds the rows, or compares them when it gets them.   *)
LEMMA WorkAbides ==
    ASSUME NEW o \in Ops, Inv, MeetInv,
           \/ Begin(o) \/ Plan(o) \/ CreateJournal(o) \/ DeleteHistory(o) \/ RecordApplied(o)
           \/ Commit(o) \/ Requeue(o) \/ Submit(o) \/ Submitted(o) \/ ClearJournal(o)
    PROVE  \E r : Abides(o, r)
<1>1. op[o] \in OpStates /\ (op[o].pc \notin Selecting \cup Leaving \/ op[o].pc = "begin")
  BY DEF Inv, Typed, TypeOK, Begin, Plan, CreateJournal, DeleteHistory, RecordApplied, Commit,
         Requeue, Submit, Submitted, ClearJournal, Selecting, Replaying, Leaving, Over
<1>2. ASSUME NEW r, Become(o, r), Carries(o, r), UNCHANGED sql, op[o].pc # "begin"
      PROVE  \E x : Abides(o, x)
  BY <1>1, <1>2, GoesAbide
<1>3. ASSUME NEW pc \in OpPcs \ {"idle", "locking"}, Goto(o, pc), UNCHANGED sql, op[o].pc # "begin"
      PROVE  \E x : Abides(o, x)
  BY <1>2, <1>3, GotoCarries
<1>4. CASE Begin(o)
  <2>1. ASSUME NEW r, Become(o, r), r.pc \in {"except", "plan"}, r.orig = sql, r.res = op[o].res
        PROVE  \E x : Abides(o, x)
    BY <1>4, <2>1 DEF Abides, Finds, MeetInv, MeetAt, Begin
  <2>2. ASSUME NEW pc \in {"except", "plan"}, NEW fl
        PROVE  LET r == [op[o] EXCEPT !.pc = pc, !.orig = sql]
                   x == [op[o] EXCEPT !.pc = pc, !.orig = sql, !.fl = fl]
               IN /\ r.pc = pc /\ r.orig = sql /\ r.res = op[o].res
                  /\ x.pc = pc /\ x.orig = sql /\ x.res = op[o].res
    BY <1>1, <1>4 DEF OpStates, Begin
  <2>3. \E pc \in {"except", "plan"} : \E fl :
          \/ Become(o, [op[o] EXCEPT !.pc = pc, !.orig = sql])
          \/ Become(o, [op[o] EXCEPT !.pc = pc, !.orig = sql, !.fl = fl])
    BY <1>4 DEF Begin
  <2>4. PICK pc \in {"except", "plan"} : \E fl :
          \/ Become(o, [op[o] EXCEPT !.pc = pc, !.orig = sql])
          \/ Become(o, [op[o] EXCEPT !.pc = pc, !.orig = sql, !.fl = fl])
    BY <2>3
  <2>5. PICK fl :
          \/ Become(o, [op[o] EXCEPT !.pc = pc, !.orig = sql])
          \/ Become(o, [op[o] EXCEPT !.pc = pc, !.orig = sql, !.fl = fl])
    BY <2>4
  <2>6. PICK r, x : r = [op[o] EXCEPT !.pc = pc, !.orig = sql]
                    /\ x = [op[o] EXCEPT !.pc = pc, !.orig = sql, !.fl = fl]
    OBVIOUS
  <2>7. /\ r.pc = pc /\ r.orig = sql /\ r.res = op[o].res
        /\ x.pc = pc /\ x.orig = sql /\ x.res = op[o].res
    BY <2>2, <2>6
  <2>8. Become(o, r) \/ Become(o, x)
    BY <2>5, <2>6
  <2>9. r.pc \in {"except", "plan"} /\ x.pc \in {"except", "plan"}
    BY <2>7
  <2>10. QED
    BY <2>1, <2>7, <2>8, <2>9
<1>5. CASE Plan(o)
  <2>1. op[o].pc = "plan" /\ sql' = sql /\ sql = op[o].orig
    BY <1>5 DEF Plan, Inv, RowsDoNotMove
  <2>2. CASE Goto(o, "except")
    BY <1>3, <2>1, <2>2 DEF OpPcs
  <2>3. CASE Become(o, Ended(o, "done", "ok"))
    BY <2>3, EndsAbide DEF Over, Results
  <2>4. ASSUME NEW pc \in {"journal", "commit"}, NEW snap,
               Become(o, [op[o] EXCEPT !.pc = pc, !.snap = snap, !.appl = Applied(o)])
        PROVE  \E x : Abides(o, x)
    <3> DEFINE r == [op[o] EXCEPT !.pc = pc, !.snap = snap, !.appl = Applied(o)]
    <3>1. r.pc = pc /\ r.orig = op[o].orig /\ r.res = op[o].res
      BY <1>1, <1>5 DEF OpStates, Plan
    <3> HIDE DEF r
    <3>2. Abides(o, r)
      BY <2>1, <2>4, <3>1 DEF Abides, Finds, MeetInv, MeetAt, r
    <3>3. QED
      BY <3>2
  <2>5. QED
    BY <1>5, <2>2, <2>3, <2>4 DEF Plan, Raise
<1>6. CASE CreateJournal(o) \/ DeleteHistory(o)
  <2>1. sql' = sql /\ op[o].pc # "begin"
    BY <1>6 DEF CreateJournal, DeleteHistory
  <2>2. ASSUME NEW pc \in {"delete", "except", "record"}
        PROVE  /\ Carries(o, [op[o] EXCEPT !.pc = pc, !.jn = "bare"])
               /\ Carries(o, [op[o] EXCEPT !.pc = pc, !.chg = TRUE])
    BY <1>1, <2>1 DEF OpStates, Carries
  <2>3. QED
    BY <1>2, <1>6, <2>1, <2>2 DEF CreateJournal, DeleteHistory
<1>7. CASE RecordApplied(o)
  <2>1. sql' = sql /\ op[o].pc # "begin"
    BY <1>7 DEF RecordApplied
  <2>2. Carries(o, [op[o] EXCEPT !.pc = "commit", !.jn = "full"])
    BY <1>1, <2>1 DEF OpStates, Carries
  <2>3. QED
    BY <1>2, <1>3, <1>7, <2>1, <2>2 DEF RecordApplied, Raise, OpPcs
<1>8. CASE Commit(o)
  <2>1. PICK pc \in {"requeue", "clear", "except"} : Goto(o, pc)
    BY <1>8 DEF Commit
  <2>2. PICK r : Become(o, r) /\ Carries(o, r) /\ r.pc = pc
    BY <2>1, GotoCarries DEF OpPcs
  <2>3. op[o].pc = "commit" /\ op[o].appl # None
    BY <1>8, AbsenceAssumption DEF Commit, Inv, Typed, Knows, Planned
  <2>4. sql' = sql \/ sql' = op[o].appl
    BY <1>8 DEF Commit
  <2>5. Abides(o, r)
    BY <1>1, <2>2, <2>3, <2>4 DEF Abides, Carries, Finds, MeetInv, MeetAt
  <2>6. QED
    BY <2>5
<1>9. CASE Requeue(o) \/ Submitted(o)
  BY <1>3, <1>9 DEF Requeue, Submitted, OpPcs
<1>10. CASE Submit(o)
  <2>1. sql' = sql /\ op[o].pc # "begin"
    BY <1>10 DEF Submit
  <2>2. ASSUME NEW t
        PROVE  /\ Carries(o, [op[o] EXCEPT !.ack = @ \cup {t}])
               /\ Carries(o, [op[o] EXCEPT !.pc = "except"])
               /\ Carries(o, [op[o] EXCEPT !.pc = "except", !.unc = {t}])
    BY <1>1, <1>10 DEF OpStates, Carries, Submit
  <2>3. QED
    BY <1>2, <1>10, <2>1, <2>2 DEF Submit
<1>11. CASE ClearJournal(o)
  <2>1. sql' = sql /\ op[o].pc # "begin"
    BY <1>11 DEF ClearJournal
  <2> DEFINE r == [op[o] EXCEPT !.pc = "closing", !.res = "ok"]
  <2>2. r.pc = "closing" /\ r.res = "ok"
    BY <1>1 DEF OpStates
  <2> HIDE DEF r
  <2>3. Become(o, r) => Abides(o, r)
    BY <2>2 DEF Abides, Leaving
  <2>4. QED
    BY <1>3, <1>11, <2>1, <2>3 DEF ClearJournal, OpPcs, r
<1>12. QED
  BY <1>4, <1>5, <1>6, <1>7, <1>8, <1>9, <1>10, <1>11

(* The exception handler compares the rows, and others change them only    *)
(* after they have met this request.                                       *)
LEMMA ExceptAbides ==
    ASSUME NEW o \in Ops, Inv, MeetInv,
           \/ KeepPartial(o) \/ Compensate(o) \/ YieldToLater(o) \/ CompensateBusy(o)
           \/ UndoStore(o) \/ UndoSql(o) \/ UndoFlags(o) \/ Finalize(o) \/ Close(o) \/ CrashOp(o)
    PROVE  \E r : Abides(o, r)
<1>1. op[o] \in OpStates
  BY DEF Inv, Typed, TypeOK
<1>2. ASSUME NEW pc \in {"undoflags", "finalize"}, Goto(o, pc) PROVE \E r : Abides(o, r)
  <2>1. PICK r : Become(o, r) /\ Carries(o, r) /\ r.pc = pc
    BY <1>2, GotoCarries DEF OpPcs
  <2>2. QED
    BY <2>1, GoesAbide DEF Leaving
<1>3. ASSUME Become(o, [op[o] EXCEPT !.pc = "finalize", !.failed = TRUE])
      PROVE  \E r : Abides(o, r)
  <2>1. /\ Carries(o, [op[o] EXCEPT !.pc = "finalize", !.failed = TRUE])
        /\ [op[o] EXCEPT !.pc = "finalize", !.failed = TRUE].pc \in Leaving
    BY <1>1 DEF OpStates, Carries, Leaving
  <2>2. QED
    BY <1>3, <2>1, GoesAbide
<1>4. ASSUME NEW pc \in {"undo", "undosql"}, Goto(o, pc), sql' = sql, op[o].pc \in {"except", "undo"}
      PROVE  \E r : Abides(o, r)
  <2>1. PICK r : Become(o, r) /\ Carries(o, r) /\ r.pc = pc
    BY <1>4, GotoCarries DEF OpPcs
  <2>2. op[o].pc \notin Selecting \cup Leaving
    BY <1>4 DEF Selecting, Replaying, Leaving, Over
  <2>3. QED
    BY <1>4, <2>1, <2>2, GoesAbide
<1>5. ASSUME NEW res \in Results, Become(o, [op[o] EXCEPT !.pc = "closing", !.res = res]),
             res = "lost" => Met(o)
      PROVE  \E r : Abides(o, r)
  <2> DEFINE r == [op[o] EXCEPT !.pc = "closing", !.res = res]
  <2>1. r.pc = "closing" /\ r.res = res
    BY <1>1 DEF OpStates
  <2> HIDE DEF r
  <2>2. Abides(o, r)
    BY <1>5, <2>1 DEF Abides, Leaving, r
  <2>3. QED
    BY <2>2
<1>6. CASE KeepPartial(o) \/ UndoSql(o)
  BY <1>2, <1>3, <1>6 DEF KeepPartial, UndoSql
<1>7. CASE Compensate(o)
  BY <1>4, <1>7 DEF Compensate
<1>8. CASE YieldToLater(o)
  <2>1. Met(o)
    BY <1>8 DEF YieldToLater, UnchangedSql, OwnedSql, MeetInv, MeetAt, Finds, Selecting, Replaying,
                Leaving, Over
  <2>2. QED
    BY <1>3, <1>5, <1>8, <2>1 DEF YieldToLater, Results
<1>9. CASE CompensateBusy(o)
  BY <1>3, <1>9 DEF CompensateBusy
<1>10. CASE UndoStore(o)
  BY <1>3, <1>4, <1>10 DEF UndoStore
<1>11. CASE UndoFlags(o)
  BY <1>2, <1>3, <1>11 DEF UndoFlags
<1>12. CASE Finalize(o)
  <2>1. \E res \in {"unknown", "error"} : Become(o, [op[o] EXCEPT !.pc = "closing", !.res = res])
    BY <1>12 DEF Finalize
  <2>2. QED
    BY <1>5, <2>1 DEF Results
<1>13. CASE Close(o)
  BY <1>1, <1>13, EndsAbide DEF Close, Over, OpStates
<1>14. CASE CrashOp(o)
  BY <1>14, EndsAbide DEF CrashOp, Over, Results
<1>15. QED
  BY <1>6, <1>7, <1>8, <1>9, <1>10, <1>11, <1>12, <1>13, <1>14

(* A RequestSpec behaviour is one of the whole system.                     *)
LEMMA RequestsRefine == RequestSpec => Spec
<1>1. [OpNext]_vars => [Next]_vars
  BY DEF Next
<1>2. QED
  BY <1>1, PTL DEF RequestSpec, Spec

(***************************************************************************)
(* Among requests alone, whatever fails or dies, "a later document         *)
(* operation won recovery" is never said of a request's own commit: who    *)
(* yields has met another request.                                         *)
(***************************************************************************)
THEOREM YieldsHold == RequestSpec => []YieldsOnlyToRequests
<1>1. Init => MeetInv
  <2> SUFFICES ASSUME Init, NEW x \in Ops PROVE MeetAt(x)
    BY DEF MeetInv
  <2>1. op[x].pc = "idle" /\ op[x].res = "none"
    BY DEF Init, NewOp
  <2>2. QED
    BY <2>1 DEF MeetAt, Selecting
<1>2. Inv /\ MeetInv /\ [OpNext]_vars => MeetInv'
  <2> SUFFICES ASSUME Inv, MeetInv, [OpNext]_vars PROVE MeetInv'
    OBVIOUS
  <2>1. CASE OpNext
    <3>1. PICK o \in Ops : OpStep(o) \/ CrashOp(o)
      BY <2>1 DEF OpNext
    <3>2. \E r : Abides(o, r)
      BY <3>1, SelectingAbides, WorkAbides, ExceptAbides DEF OpStep
    <3>3. QED
      BY <3>2, AbidesMeets DEF Inv, Typed, TypeOK
  <2>2. CASE UNCHANGED vars
    BY <2>2 DEF vars, MeetInv, MeetAt, Met, Finds
  <2>3. QED
    BY <2>1, <2>2
<1>3. MeetInv => YieldsOnlyToRequests
  BY DEF MeetInv, MeetAt, Met, YieldsOnlyToRequests
<1>4. RequestSpec => []Inv
  BY RequestsRefine, InvHolds, PTL
<1>5. QED
  BY <1>1, <1>2, <1>3, <1>4, PTL DEF RequestSpec

-----------------------------------------------------------------------------
(* Requests one after another *)

Only(o) == \A y \in Ops \ {o} : Inactive(y)
AllDone(s) == Present(s) # {} /\ \A p \in Present(s) : s.row[p].st = "done"

(* Which marks a request in state r carries, also when calls have failed.  *)
MarksAt(r) ==
    /\ r.pc \in Selecting \cup {"plan", "journal", "delete"} \cup Over => ~r.chg
    /\ r.pc = "delete" => r.jn = "bare"
    /\ r.pc = "record" => r.chg /\ r.jn = "bare"
    /\ r.pc \in {"commit", "requeue", "submit", "clear"} =>
         r.jn = IF r.chg THEN "full" ELSE "none"
    /\ r.chg => r.appl # None /\ r.jn # "none"
    /\ r.chg \/ r.pc \in {"journal", "delete"} => ~AllDone(r.appl)
    /\ r.pc = "submit" => r.unc = {}

(* The chunks are those of the snapshot until they are deleted, and again  *)
(* after the compensation; then the rows and the flags are back, too.      *)
Known(r) == r.appl # None /\ r.snap # {}
Undone(r) == ~r.failed /\ r.ack \cup r.unc = {} /\ (r.pc = "closing" => r.res = "error")
UndoneAt(r) ==
    /\ r.pc \in Planned \cup {"except", "undo"} /\ Known(r) /\ ~r.chg => store = r.snap
    /\ r.pc = "undosql" /\ Known(r) => store = r.snap
    /\ r.pc \in {"undoflags", "finalize", "closing"} /\ Undone(r) =>
         sql = r.orig /\ (Known(r) => store = r.snap)
    /\ r.pc \in {"finalize", "closing"} /\ Undone(r) => \A n \in r.fl : flag[n[1]] = n[2]
    /\ \A n, m \in r.fl : n[1] = m[1] => n = m
    /\ r.pc = "closing" /\ r.res = "error" => ~r.failed

(* Requests answer at the end, and account for what they enqueued.         *)
AnswerAt(r) == r.res # "none" => r.pc \in {"closing"} \cup Over
SentAt(x, r, t) == t \in sent => r.pc \notin Unsent /\ (r.pc \in Over \/ t \in r.ack \cup r.unc)
OrderlyAt(x, r) ==
    MarksAt(r) /\ UndoneAt(r) /\ AnswerAt(r) /\ \A p \in Pages : SentAt(x, r, <<x, p>>)

(* No journal is left of a request that reported success.                  *)
KeptInv == \A j \in Held : op[j.own].res # "ok"
Orderly == (\A x \in Ops : OrderlyAt(x, op[x])) /\ KeptInv

(* What a request does to the journal and to its answer.                   *)
Answers(o, r) ==
    /\ journal' \in {journal, None} \/ journal'.own = o
    /\ r.res = "ok" => /\ journal' \in {journal, None}
                       /\ \/ op[o].res = "ok" \/ journal' = None
                          \/ op[o].jn = "none" /\ op[o].pc \notin Over
    /\ r.rec \in {None, op[o].rec, journal}

(* A request that acts alone only has itself to account for.               *)
LEMMA OrderlyStep ==
    ASSUME NEW o \in Ops, NEW r, Inv, CInv, CInv', Orderly, Only(o), Become(o, r), Answers(o, r),
           OrderlyAt(o, r)', sent' \subseteq sent \cup {<<o, p>> : p \in Pages}
    PROVE  Orderly'
<1>1. op'[o] = r /\ \A x \in Ops \ {o} : op'[x] = op[x]
  BY DEF Become, Inv, Typed, TypeOK
<1>2. ASSUME NEW x \in Ops \ {o} PROVE OrderlyAt(x, op[x])'
  <2>1. op'[x] = op[x] /\ op[x].pc \in {"idle", "done", "dead"} /\ OrderlyAt(x, op[x])
    BY <1>1 DEF Only, Inactive, Orderly
  <2>2. \A p \in Pages : <<x, p>> \in sent' => <<x, p>> \in sent
    OBVIOUS
  <2>3. UndoneAt(op[x])'
    BY <2>1 DEF UndoneAt, OrderlyAt, Planned
  <2>4. QED
    BY <2>1, <2>2, <2>3 DEF OrderlyAt, SentAt, MarksAt, AnswerAt
<1>3. KeptInv'
  <2> SUFFICES ASSUME NEW j \in Held' PROVE op'[j.own].res # "ok"
    BY DEF KeptInv
  <2>1. \A x \in Ops \ {o} : op[x].rec = None
    BY DEF CInv, LocalInv, LocalOk, Only, Inactive, Replaying
  <2>2. j # None /\ (j = journal' \/ j = r.rec)
    BY <1>1, <2>1 DEF Held
  <2>3. r.res # "none" => r.rec = None
    <3>1. LocalOk(o, op[o])'
      BY DEF CInv, LocalInv
    <3>2. r.pc \in {"closing"} \cup Over => r.rec = None
      BY <1>1, <3>1 DEF LocalOk, Over, Replaying
    <3>3. QED
      BY <3>2 DEF OrderlyAt, AnswerAt
  <2>4. j \in Held => j.own \in Ops /\ op[j.own].res # "ok" /\ OwnAt(op[j.own])
    BY DEF Orderly, KeptInv, CInv, OwnInv
  <2>5. j \in Held \/ (j = journal' /\ j.own = o /\ r.res # "ok")
    BY <2>2 DEF Answers, Held
  <2>6. CASE r.res # "ok"
    BY <1>1, <2>4, <2>5, <2>6
  <2>7. CASE r.res = "ok"
    <3>1. j = journal' /\ j = journal /\ j \in Held
      BY <2>2, <2>3, <2>7 DEF Answers, Held
    <3>2. j.own # o
      BY <2>2, <2>4, <2>7, <3>1 DEF Answers, OwnAt
    <3>3. QED
      BY <1>1, <2>4, <3>1, <3>2
  <2>8. QED
    BY <2>6, <2>7
<1>4. QED
  BY <1>1, <1>2, <1>3 DEF Orderly

(* A request that goes on knows what it knew, except for its place.        *)
Same(o, r) ==
    /\ r.orig = op[o].orig /\ r.appl = op[o].appl /\ r.snap = op[o].snap /\ r.fl = op[o].fl
    /\ r.ack = op[o].ack /\ r.unc = op[o].unc /\ r.rec = op[o].rec
    /\ r.kind = op[o].kind /\ r.clear = op[o].clear /\ r.cfg = op[o].cfg

(* Going to a place.                                                       *)
LEMMA GotoSame ==
    ASSUME NEW o \in Ops, Inv, NEW pc \in OpPcs, Goto(o, pc)
    PROVE  \E r : /\ Become(o, r) /\ Same(o, r) /\ r.pc = pc
                  /\ r.chg = op[o].chg /\ r.jn = op[o].jn /\ r.failed = op[o].failed
                  /\ r.res = op[o].res
<1> DEFINE r == [op[o] EXCEPT !.pc = pc]
<1>1. op[o] \in OpStates
  BY DEF Inv, Typed, TypeOK
<1>2. /\ Become(o, r) /\ Same(o, r) /\ r.pc = pc
      /\ r.chg = op[o].chg /\ r.jn = op[o].jn /\ r.failed = op[o].failed /\ r.res = op[o].res
  BY <1>1 DEF Goto, Same, OpStates
<1>3. QED
  BY <1>2

(* What is known of a request that acts alone.                             *)
LEMMA OrderlyFacts ==
    ASSUME NEW o \in Ops, Inv, CInv, Orderly
    PROVE  /\ op[o] \in OpStates /\ LocalOk(o, op[o]) /\ KnowsAt(op[o])
           /\ MarksAt(op[o]) /\ UndoneAt(op[o]) /\ AnswerAt(op[o])
           /\ \A p \in Pages : SentAt(o, op[o], <<o, p>>)
  BY DEF Inv, Typed, TypeOK, Knows, KnowsAt, CInv, LocalInv, Orderly, OrderlyAt

(* A request that ends forgets what it was accountable for.                *)
LEMMA EndOrderly ==
    ASSUME NEW o \in Ops, NEW pc \in Over, NEW res \in Results, Inv, CInv, CInv', Orderly, Only(o),
           Become(o, Ended(o, pc, res)), journal' \in {journal, None}, UNCHANGED sent,
           res = "ok" => \/ op[o].res = "ok" \/ journal' = None
                         \/ op[o].jn = "none" /\ op[o].pc \notin Over
    PROVE  Orderly'
<1>0. PICK r : r = Ended(o, pc, res)
  OBVIOUS
<1>1. /\ r.pc = pc /\ r.res = res /\ ~r.chg /\ r.rec = None /\ r.fl \subseteq op[o].fl
  BY <1>0 DEF Ended, NewOp, Stopped
<1>2. UndoneAt(op[o])
  BY OrderlyFacts
<1>3. OrderlyAt(o, r)'
  <2>1. UndoneAt(r)'
    BY <1>1, <1>2 DEF UndoneAt, Planned, Over
  <2>2. MarksAt(r) /\ AnswerAt(r)
    BY <1>1 DEF MarksAt, AnswerAt, Over
  <2>3. r.pc \notin Unsent
    BY <1>1 DEF Over, Unsent, Early, Selecting, Replaying, Uncommitted
  <2>4. QED
    BY <1>1, <2>1, <2>2, <2>3 DEF OrderlyAt, SentAt
<1>4. Answers(o, r)
  BY <1>1 DEF Answers
<1>5. QED
  BY <1>0, <1>3, <1>4, OrderlyStep

(* Looking at the rows and replaying a journal changes nothing of this.    *)
LEMMA SelectOrderly ==
    ASSUME NEW o \in Ops, NEW r, Inv, CInv, CInv', Orderly, Only(o), Become(o, r), UNCHANGED sent,
           op[o].pc \in Selecting, r.pc \in Selecting, r.fl = op[o].fl, r.chg = op[o].chg,
           r.res = op[o].res, r.rec \in {None, op[o].rec, journal}, journal' \in {journal, None}
    PROVE  Orderly'
<1>1. /\ MarksAt(op[o]) /\ UndoneAt(op[o]) /\ AnswerAt(op[o])
      /\ \A p \in Pages : SentAt(o, op[o], <<o, p>>)
  BY OrderlyFacts
<1>2. op[o].res = "none" /\ ~r.chg /\ r.pc \notin {"delete", "journal", "record", "commit", "requeue"}
  BY <1>1 DEF MarksAt, AnswerAt, Selecting, Replaying, Over
<1>3. MarksAt(r) /\ AnswerAt(r)
  BY <1>2 DEF MarksAt, AnswerAt, Selecting, Replaying
<1>4. UndoneAt(r)'
  BY <1>1 DEF UndoneAt, Planned, Selecting, Replaying
<1>5. \A p \in Pages : SentAt(o, r, <<o, p>>)'
  BY <1>1 DEF SentAt, Unsent, Early
<1>6. Answers(o, r)
  BY <1>2 DEF Answers
<1>7. QED
  BY <1>3, <1>4, <1>5, <1>6, OrderlyStep DEF OrderlyAt

(* Up to its snapshot a request has nothing to undo.                       *)
LEMMA SelectingOrderly ==
    ASSUME NEW o \in Ops, Inv, CInv, CInv', Orderly, Only(o),
           \/ Preflight(o) \/ LockRows(o) \/ LoadJournal(o) \/ SkipJournal(o)
           \/ ReplayHistory(o) \/ ReplayCommit(o) \/ ReplayRelock(o)
    PROVE  Orderly'
<1>1. op[o] \in OpStates /\ op[o].pc \in Selecting /\ UNCHANGED sent
  BY OrderlyFacts DEF Selecting, Replaying, Preflight, LockRows, LoadJournal, SkipJournal,
     ReplayHistory, ReplayCommit, ReplayRelock, streamVars
<1>2. ASSUME NEW res \in {"refused"}, Become(o, Ended(o, "done", res)), journal' \in {journal, None}
      PROVE  Orderly'
  BY <1>1, <1>2, EndOrderly DEF Over, Results
<1>3. ASSUME NEW pc \in {"recommit", "relock"}, Goto(o, pc), UNCHANGED journal PROVE Orderly'
  <2>1. PICK r : Become(o, r) /\ Same(o, r) /\ r.pc = pc /\ r.chg = op[o].chg /\ r.res = op[o].res
    BY <1>3, GotoSame DEF OpPcs
  <2>2. QED
    BY <1>1, <1>3, <2>1, SelectOrderly DEF Same, Selecting, Replaying
<1>4. CASE Preflight(o)
  <2>1. PICK kind \in Kinds, clear \in BOOLEAN, cfg \in Cfgs :
          Become(o, [op[o] EXCEPT !.pc = "locking", !.kind = kind, !.clear = clear,
                                  !.cfg = cfg, !.rev = sql.rev, !.sel = Ids(sql)])
    BY <1>4 DEF Preflight
  <2> DEFINE r == [op[o] EXCEPT !.pc = "locking", !.kind = kind, !.clear = clear,
                                !.cfg = cfg, !.rev = sql.rev, !.sel = Ids(sql)]
  <2>2. r.pc = "locking" /\ r.fl = op[o].fl /\ r.chg = op[o].chg /\ r.res = op[o].res /\ r.rec = op[o].rec
    BY <1>1 DEF OpStates
  <2> HIDE DEF r
  <2>3. r.pc \in Selecting /\ UNCHANGED journal
    BY <1>4, <2>2 DEF Selecting, Preflight
  <2>4. QED
    BY <1>1, <2>1, <2>2, <2>3, SelectOrderly DEF r
<1>5. ASSUME NEW pc \in {"loading", "begin", "recover"}, NEW rec \in {None, journal},
             NEW rev \in {None, op[o].rev}, journal' \in {journal, None},
             \/ Become(o, [op[o] EXCEPT !.pc = pc, !.rev = rev])
             \/ Become(o, [op[o] EXCEPT !.pc = pc, !.rec = rec])
      PROVE  Orderly'
  <2> DEFINE x == [op[o] EXCEPT !.pc = pc, !.rev = rev]
             y == [op[o] EXCEPT !.pc = pc, !.rec = rec]
  <2>1. /\ x.pc = pc /\ x.fl = op[o].fl /\ x.chg = op[o].chg /\ x.res = op[o].res /\ x.rec = op[o].rec
        /\ y.pc = pc /\ y.fl = op[o].fl /\ y.chg = op[o].chg /\ y.res = op[o].res /\ y.rec = rec
    BY <1>1 DEF OpStates
  <2> HIDE DEF x, y
  <2>2. pc \in Selecting
    BY DEF Selecting, Replaying
  <2>3. CASE Become(o, x)
    BY <1>1, <1>5, <2>1, <2>2, <2>3, SelectOrderly
  <2>4. CASE Become(o, y)
    BY <1>1, <1>5, <2>1, <2>2, <2>4, SelectOrderly
  <2>5. QED
    BY <1>5, <2>3, <2>4 DEF x, y
<1>6. CASE LockRows(o)
  BY <1>2, <1>5, <1>6 DEF LockRows
<1>7. CASE LoadJournal(o)
  BY <1>2, <1>5, <1>7 DEF LoadJournal
<1>8. CASE SkipJournal(o)
  BY <1>2, <1>5, <1>8 DEF SkipJournal, Refuse
<1>9. CASE ReplayHistory(o)
  BY <1>2, <1>3, <1>9 DEF ReplayHistory, Refuse
<1>10. CASE ReplayCommit(o)
  BY <1>2, <1>3, <1>10 DEF ReplayCommit
<1>11. CASE ReplayRelock(o)
  BY <1>2, <1>5, <1>11 DEF ReplayRelock
<1>12. QED
  BY <1>4, <1>6, <1>7, <1>8, <1>9, <1>10, <1>11

(* The snapshot is what the request finds.                                 *)
LEMMA BeginOrderly ==
    ASSUME NEW o \in Ops, Inv, CInv, CInv', Orderly, Only(o), Begin(o)
    PROVE  Orderly'
<1> DEFINE notes == {<<t, flag[t]>> : t \in LiveIds(sql)}
<1>1. /\ op[o] \in OpStates /\ op[o].pc = "begin" /\ UNCHANGED <<sent, journal>>
      /\ op[o].appl = None /\ op[o].fl = {} /\ ~op[o].chg /\ op[o].res = "none"
      /\ \A p \in Pages : SentAt(o, op[o], <<o, p>>)
  BY OrderlyFacts DEF Begin, LocalOk, Selecting, MarksAt, AnswerAt, Over, streamVars
<1>2. ASSUME NEW r, Become(o, r), r.pc \in {"except", "plan"}, r.appl = None, r.fl \in {{}, notes},
             ~r.chg, r.res = "none", r.rec = op[o].rec
      PROVE  Orderly'
  <2>1. UndoneAt(r)'
    BY <1>2 DEF UndoneAt, Known, Planned
  <2>2. MarksAt(r) /\ AnswerAt(r) /\ Answers(o, r)
    BY <1>1, <1>2 DEF MarksAt, AnswerAt, Answers
  <2>3. \A p \in Pages : SentAt(o, r, <<o, p>>)'
    BY <1>1, <1>2 DEF SentAt, Unsent, Early, Selecting
  <2>4. QED
    BY <1>1, <1>2, <2>1, <2>2, <2>3, OrderlyStep DEF OrderlyAt
<1>3. ASSUME NEW pc \in {"except", "plan"}
      PROVE  LET r == [op[o] EXCEPT !.pc = pc, !.orig = sql]
                 x == [op[o] EXCEPT !.pc = pc, !.orig = sql, !.fl = notes]
             IN /\ r.pc = pc /\ r.appl = None /\ r.fl = {} /\ ~r.chg /\ r.res = "none"
                /\ x.pc = pc /\ x.appl = None /\ x.fl = notes /\ ~x.chg /\ x.res = "none"
                /\ r.rec = op[o].rec /\ x.rec = op[o].rec
  BY <1>1 DEF OpStates
<1>4. \E pc \in {"except", "plan"} :
        \/ Become(o, [op[o] EXCEPT !.pc = pc, !.orig = sql])
        \/ Become(o, [op[o] EXCEPT !.pc = pc, !.orig = sql, !.fl = notes])
  BY DEF Begin
<1>5. QED
  BY <1>2, <1>3, <1>4

(* A plan that needs a journal leaves work to do.                          *)
LEMMA PlanLeavesWork ==
    ASSUME NEW o \in Ops, Inv, op[o].clear \/ Obsolete(o) # {}, op[o].kind = "1" \/ op[o].clear
    PROVE  ~AllDone(Applied(o))
<1>1. op[o].kind \in Kinds /\ op[o].clear \in BOOLEAN /\ sql \in Sql
  BY DEF Inv, Typed, TypeOK, OpStates
<1> DEFINE a == Applied(o)
<1>2. \A p \in Pages : a.row[p] = NewRow(o, p)
  BY <1>1 DEF Applied, Sql
<1> HIDE DEF a
<1>3. CASE op[o].kind # "1"
  <2>1. \A p \in Pages : a.row[p].st = "none"
    BY <1>2, <1>3 DEF NewRow, NoRow
  <2>2. QED
    BY <2>1 DEF AllDone, Present, a
<1>4. CASE op[o].kind = "1"
  <2>1. \A p \in Pages : p \notin ReusedPages(o) => a.row[p].st = "queued"
    BY <1>2, <1>4 DEF NewRow, PlannedRow
  <2>2. CASE op[o].clear
    <3>1. ReusedPages(o) = {}
      BY <2>2 DEF ReusedPages
    <3>2. QED
      BY <2>1, <3>1 DEF AllDone, Present, a
  <2>3. CASE ~op[o].clear
    <3>1. PICK p \in Pages : p \notin ReusedPages(o)
      BY <2>3 DEF Obsolete, RegisteredChunks, ChunkPages
    <3>2. QED
      BY <2>1, <3>1 DEF AllDone, Present, a
  <2>4. QED
    BY <2>2, <2>3
<1>5. QED
  BY <1>3, <1>4

(* The snapshot of the chunks is what the store holds.                     *)
LEMMA PlanOrderly ==
    ASSUME NEW o \in Ops, Inv, CInv, CInv', Orderly, Only(o), Plan(o)
    PROVE  Orderly'
<1>1. /\ op[o] \in OpStates /\ op[o].pc = "plan" /\ UNCHANGED <<sent, journal, store>>
      /\ op[o].appl = None /\ op[o].jn = "none" /\ ~op[o].chg /\ op[o].res = "none"
      /\ \A p \in Pages : SentAt(o, op[o], <<o, p>>)
      /\ UndoneAt(op[o])
  BY OrderlyFacts DEF Plan, LocalOk, MarksAt, AnswerAt, Over, streamVars
<1>2. CASE Goto(o, "except")
  <2>1. PICK r : Become(o, r) /\ Same(o, r) /\ r.pc = "except" /\ r.chg = op[o].chg /\ r.res = op[o].res
    BY <1>2, GotoSame DEF OpPcs
  <2>2. UndoneAt(r)'
    BY <1>1, <2>1 DEF UndoneAt, Known, Same
  <2>3. MarksAt(r) /\ AnswerAt(r) /\ Answers(o, r)
    BY <1>1, <2>1 DEF MarksAt, AnswerAt, Answers, Selecting, Replaying, Over, Same
  <2>4. \A p \in Pages : SentAt(o, r, <<o, p>>)'
    BY <1>1 DEF SentAt, Unsent, Early
  <2>5. QED
    BY <1>1, <2>1, <2>2, <2>3, <2>4, OrderlyStep DEF OrderlyAt
<1>3. CASE Become(o, Ended(o, "done", "ok"))
  BY <1>1, <1>3, EndOrderly DEF Over, Results
<1>4. CASE Become(o, [op[o] EXCEPT
                  !.pc = IF op[o].clear \/ Obsolete(o) # {} THEN "journal" ELSE "commit",
                  !.snap = IF op[o].kind = "1" \/ op[o].clear THEN store ELSE {},
                  !.appl = Applied(o)])
  <2> DEFINE pc == IF op[o].clear \/ Obsolete(o) # {} THEN "journal" ELSE "commit"
             snap == IF op[o].kind = "1" \/ op[o].clear THEN store ELSE {}
  <2>1. PICK r : r = [op[o] EXCEPT !.pc = pc, !.snap = snap, !.appl = Applied(o)]
    OBVIOUS
  <2>2. /\ r.pc = pc /\ r.snap = snap /\ r.appl = Applied(o) /\ r.fl = op[o].fl /\ ~r.chg
        /\ r.jn = "none" /\ r.res = "none" /\ r.rec = op[o].rec
    BY <1>1, <2>1 DEF OpStates
  <2>3. /\ pc \in {"journal", "commit"} /\ snap \in {store, {}}
        /\ pc = "journal" => ~AllDone(Applied(o))
    BY PlanLeavesWork DEF Obsolete
  <2>4. Become(o, r)
    BY <1>4, <2>1
  <2> HIDE DEF pc, snap
  <2>5. UndoneAt(r)'
    BY <1>1, <2>2, <2>3 DEF UndoneAt, Known
  <2>6. MarksAt(r) /\ AnswerAt(r) /\ Answers(o, r)
    BY <1>1, <2>2, <2>3 DEF MarksAt, AnswerAt, Answers
  <2>7. \A p \in Pages : SentAt(o, r, <<o, p>>)'
    BY <1>1 DEF SentAt, Unsent, Early
  <2>8. QED
    BY <1>1, <2>4, <2>5, <2>6, <2>7, OrderlyStep DEF OrderlyAt
<1>5. QED
  BY <1>2, <1>3, <1>4 DEF Plan, Raise

(* Where a request changes the document, or prepares to undo its changes.  *)
Working == Planned \cup {"except", "undo"}

(* A request that works on leaves the chunks to its deletion.              *)
LEMMA WorkOrderly ==
    ASSUME NEW o \in Ops, NEW r, Inv, CInv, CInv', Orderly, Only(o), Become(o, r), Same(o, r),
           op[o].pc \in Working, r.pc \in Working, r.pc \in Unsent => op[o].pc \in Unsent,
           op[o].chg => r.chg, r.res = op[o].res, MarksAt(r), UNCHANGED sent,
           journal' \in {journal, None} \/ journal'.own = o, UNCHANGED store \/ r.chg
    PROVE  Orderly'
<1>1. /\ UndoneAt(op[o]) /\ AnswerAt(op[o]) /\ \A p \in Pages : SentAt(o, op[o], <<o, p>>)
  BY OrderlyFacts
<1>2. op[o].res = "none" /\ op[o].pc \notin Over
  BY <1>1 DEF AnswerAt, Working, Planned, Over
<1>3. UndoneAt(r)'
  BY <1>1 DEF UndoneAt, Known, Same, Working, Planned
<1>4. AnswerAt(r) /\ Answers(o, r)
  BY <1>2 DEF AnswerAt, Answers, Same
<1>5. \A p \in Pages : SentAt(o, r, <<o, p>>)'
  BY <1>1, <1>2 DEF SentAt, Same
<1>6. QED
  BY <1>3, <1>4, <1>5, OrderlyStep DEF OrderlyAt

(* The same for a request that only moves on.                              *)
LEMMA WorkOnOrderly ==
    ASSUME NEW o \in Ops, NEW pc \in OpPcs, Inv, CInv, CInv', Orderly, Only(o), Goto(o, pc),
           op[o].pc \in Working, pc \in Working \ {"journal", "delete", "record"},
           pc \in Unsent => op[o].pc \in Unsent, pc = "submit" => op[o].pc = "requeue",
           pc \in {"except", "undo"} \/ op[o].pc \in {"commit", "requeue", "submit", "clear"},
           UNCHANGED sent, UNCHANGED store, journal' \in {journal, None} \/ journal'.own = o
    PROVE  Orderly'
<1>1. PICK r : /\ Become(o, r) /\ Same(o, r) /\ r.pc = pc
               /\ r.chg = op[o].chg /\ r.jn = op[o].jn /\ r.res = op[o].res
  BY GotoSame
<1>2. MarksAt(op[o]) /\ (op[o].pc = "requeue" => op[o].unc = {})
  BY OrderlyFacts DEF LocalOk
<1>3. MarksAt(r)
  BY <1>1, <1>2 DEF MarksAt, Working, Planned, Selecting, Replaying, Over, Same
<1>4. QED
  BY <1>1, <1>3, WorkOrderly

(* The journal is written and the rows to be committed are added to it.    *)
LEMMA JournalOrderly ==
    ASSUME NEW o \in Ops, Inv, CInv, CInv', Orderly, Only(o),
           CreateJournal(o) \/ DeleteHistory(o) \/ RecordApplied(o)
    PROVE  Orderly'
<1>1. op[o] \in OpStates /\ MarksAt(op[o]) /\ op[o].pc \in {"journal", "delete", "record"}
  BY OrderlyFacts DEF CreateJournal, DeleteHistory, RecordApplied
<1>2. /\ UNCHANGED sent /\ op[o].pc \in Working \cap Unsent
      /\ op[o].appl # None /\ ~AllDone(op[o].appl)
  BY <1>1, AbsenceAssumption DEF CreateJournal, DeleteHistory, RecordApplied, streamVars, Working,
     Planned, Unsent, Early, Uncommitted, Inv, Typed, Knows, MarksAt
<1>3. journal' \in {journal, None} \/ journal'.own = o
  BY DEF CreateJournal, DeleteHistory, RecordApplied, Material
<1>4. CASE CreateJournal(o)
  <2>1. PICK pc \in {"delete", "except"} : Become(o, [op[o] EXCEPT !.pc = pc, !.jn = "bare"])
    BY <1>4 DEF CreateJournal
  <2>2. PICK r : r = [op[o] EXCEPT !.pc = pc, !.jn = "bare"]
    OBVIOUS
  <2>3. Same(o, r) /\ r.pc = pc /\ r.jn = "bare" /\ r.chg = op[o].chg /\ r.res = op[o].res
    BY <1>1, <2>2 DEF Same, OpStates
  <2>4. op[o].pc = "journal" /\ UNCHANGED store /\ ~op[o].chg
    BY <1>1, <1>4 DEF CreateJournal, MarksAt
  <2>5. MarksAt(r) /\ r.pc \in Working
    BY <1>2, <2>3, <2>4 DEF MarksAt, Working, Planned, Same
  <2>6. QED
    BY <1>2, <1>3, <2>1, <2>2, <2>3, <2>4, <2>5, WorkOrderly
<1>5. CASE DeleteHistory(o)
  <2>1. PICK pc \in {"record", "except"} : Become(o, [op[o] EXCEPT !.pc = pc, !.chg = TRUE])
    BY <1>5 DEF DeleteHistory
  <2>2. PICK r : r = [op[o] EXCEPT !.pc = pc, !.chg = TRUE]
    OBVIOUS
  <2>3. Same(o, r) /\ r.pc = pc /\ r.jn = op[o].jn /\ r.chg /\ r.res = op[o].res
    BY <1>1, <2>2 DEF Same, OpStates
  <2>4. op[o].jn = "bare"
    BY <1>1, <1>5 DEF DeleteHistory, MarksAt
  <2>5. MarksAt(r) /\ r.pc \in Working
    BY <1>2, <2>3, <2>4 DEF MarksAt, Working, Planned, Same, Selecting, Replaying, Over
  <2>6. QED
    BY <1>2, <1>3, <2>1, <2>2, <2>3, <2>5, WorkOrderly
<1>6. CASE RecordApplied(o)
  <2>1. op[o].pc = "record" /\ UNCHANGED store /\ op[o].chg
    BY <1>1, <1>6 DEF RecordApplied, MarksAt
  <2>2. CASE Goto(o, "except")
    BY <1>2, <1>3, <2>1, <2>2, WorkOnOrderly DEF Working, OpPcs, Unsent, Early, Selecting, Replaying,
       Uncommitted, Planned
  <2>3. CASE Become(o, [op[o] EXCEPT !.pc = "commit", !.jn = "full"])
    <3>1. PICK r : r = [op[o] EXCEPT !.pc = "commit", !.jn = "full"]
      OBVIOUS
    <3>2. Same(o, r) /\ r.pc = "commit" /\ r.jn = "full" /\ r.chg = op[o].chg /\ r.res = op[o].res
      BY <1>1, <3>1 DEF Same, OpStates
    <3>3. MarksAt(r) /\ r.pc \in Working
      BY <1>2, <2>1, <3>2 DEF MarksAt, Working, Planned, Same, Selecting, Replaying, Over
    <3>4. QED
      BY <1>2, <1>3, <2>1, <2>3, <3>1, <3>2, <3>3, WorkOrderly
  <2>4. QED
    BY <1>6, <2>2, <2>3 DEF RecordApplied, Raise
<1>7. QED
  BY <1>4, <1>5, <1>6

(* The commit, the second lock of the rows and the first compensation.     *)
LEMMA CommitOrderly ==
    ASSUME NEW o \in Ops, Inv, CInv, CInv', Orderly, Only(o),
           Commit(o) \/ Requeue(o) \/ Submitted(o) \/ Compensate(o)
    PROVE  Orderly'
<1>1. /\ UNCHANGED <<sent, store, journal>>
      /\ \E pc \in {"requeue", "clear", "except", "submit", "undo"} :
           /\ Goto(o, pc) /\ (pc = "requeue" => op[o].pc = "commit")
           /\ pc = "submit" => op[o].pc = "requeue"
           /\ pc = "undo" <=> op[o].pc = "except"
           /\ op[o].pc \in {"commit", "requeue", "submit", "except"}
  BY DEF Commit, Requeue, Submitted, Compensate, streamVars
<1>2. PICK pc \in {"requeue", "clear", "except", "submit", "undo"} :
           /\ Goto(o, pc) /\ (pc = "requeue" => op[o].pc = "commit")
           /\ pc = "submit" => op[o].pc = "requeue"
           /\ pc = "undo" <=> op[o].pc = "except"
           /\ op[o].pc \in {"commit", "requeue", "submit", "except"}
  BY <1>1
<1>3. /\ pc \in OpPcs /\ pc \in Working \ {"journal", "delete", "record"} /\ op[o].pc \in Working
      /\ pc \in Unsent => op[o].pc \in Unsent
  BY <1>2 DEF OpPcs, Working, Planned, Unsent, Early, Selecting, Replaying, Uncommitted
<1>4. QED
  BY <1>1, <1>2, <1>3, WorkOnOrderly

(* What reached the stream is accounted for.                               *)
LEMMA SubmitOrderly ==
    ASSUME NEW o \in Ops, Inv, CInv, CInv', Orderly, Only(o), Submit(o)
    PROVE  Orderly'
<1>1. /\ op[o] \in OpStates /\ op[o].pc = "submit" /\ UNCHANGED <<store, journal>>
      /\ MarksAt(op[o]) /\ UndoneAt(op[o]) /\ op[o].res = "none" /\ op[o].kind = "1"
      /\ \A p \in Pages : SentAt(o, op[o], <<o, p>>)
      /\ op[o].unc = {}
  BY OrderlyFacts DEF Submit, AnswerAt, Over, LocalOk, MarksAt
<1>2. PICK t \in PendingIds(o) \ op[o].ack :
        \/ /\ Become(o, [op[o] EXCEPT !.ack = @ \cup {t}])
           /\ sent' = sent \cup {t}
        \/ /\ Become(o, [op[o] EXCEPT !.pc = "except"])
           /\ sent' = sent
        \/ /\ Become(o, [op[o] EXCEPT !.pc = "except", !.unc = {t}])
           /\ sent' \in {sent, sent \cup {t}}
  BY DEF Submit, streamVars
<1> DEFINE Left(r) ==
             /\ r.appl = op[o].appl /\ r.snap = op[o].snap /\ r.fl = op[o].fl /\ r.jn = op[o].jn
             /\ r.chg = op[o].chg /\ r.res = op[o].res /\ r.rec = op[o].rec
             /\ op[o].ack \subseteq r.ack
             /\ r.pc = "except" \/ (r.pc = "submit" /\ r.unc = {})
<1>3. \E r : /\ Become(o, r) /\ Left(r)
             /\ sent' = sent \/ (sent' = sent \cup {t} /\ t \in r.ack \cup r.unc)
  <2> DEFINE x == [op[o] EXCEPT !.ack = @ \cup {t}]
             y == [op[o] EXCEPT !.pc = "except"]
             z == [op[o] EXCEPT !.pc = "except", !.unc = {t}]
  <2>1. Left(x) /\ t \in x.ack
    BY <1>1 DEF OpStates
  <2>2. Left(y)
    BY <1>1 DEF OpStates
  <2>3. Left(z) /\ t \in z.unc
    BY <1>1 DEF OpStates
  <2> HIDE DEF Left
  <2>4. CASE Become(o, x) /\ sent' = sent \cup {t}
    BY <2>1, <2>4
  <2>5. CASE Become(o, y) /\ sent' = sent
    BY <2>2, <2>5
  <2>6. CASE Become(o, z) /\ sent' \in {sent, sent \cup {t}}
    BY <2>3, <2>6
  <2>7. QED
    BY <1>2, <2>4, <2>5, <2>6
<1>4. PICK r : /\ Become(o, r) /\ Left(r)
               /\ sent' = sent \/ (sent' = sent \cup {t} /\ t \in r.ack \cup r.unc)
  BY <1>3
<1>5. op[o].appl.gen = o
  BY <1>1, OrderlyFacts, AbsenceAssumption DEF LocalOk, PlanFits, KnowsAt, Planned
<1>6. t \in {<<o, p>> : p \in Pages}
  BY <1>2, <1>5 DEF PendingIds, LiveIds, LivePages
<1>7. UndoneAt(r)'
  BY <1>1, <1>4 DEF UndoneAt, Known, Planned
<1>8. MarksAt(r) /\ AnswerAt(r) /\ Answers(o, r)
  BY <1>1, <1>4 DEF MarksAt, AnswerAt, Answers, Selecting, Replaying, Over
<1>9. \A p \in Pages : SentAt(o, r, <<o, p>>)'
  BY <1>1, <1>4 DEF SentAt, Unsent, Early, Selecting, Replaying, Uncommitted, Over
<1>10. QED
  BY <1>2, <1>4, <1>6, <1>7, <1>8, <1>9, OrderlyStep DEF OrderlyAt

(* A request on its way out accounts for what it undid.                    *)
LEMMA LeaveOrderly ==
    ASSUME NEW o \in Ops, NEW r, Inv, CInv, CInv', Orderly, Only(o), Become(o, r), Same(o, r),
           r.chg = op[o].chg, r.jn = op[o].jn, r.pc \in {"undosql", "undoflags", "finalize", "closing"},
           op[o].pc \notin Selecting \cup Over, r.res = "none" \/ r.pc = "closing", UndoneAt(r)', Answers(o, r),
           UNCHANGED sent
    PROVE  Orderly'
<1>1. MarksAt(op[o]) /\ \A p \in Pages : SentAt(o, op[o], <<o, p>>)
  BY OrderlyFacts
<1>2. MarksAt(r) /\ AnswerAt(r)
  BY <1>1 DEF MarksAt, AnswerAt, Same, Selecting, Replaying, Over
<1>3. \A p \in Pages : SentAt(o, r, <<o, p>>)'
  BY <1>1 DEF SentAt, Same, Unsent, Early, Selecting, Replaying, Uncommitted
<1>4. QED
  BY <1>2, <1>3, OrderlyStep DEF OrderlyAt

(* One that could not undo everything says so.                             *)
LEMMA FailOrderly ==
    ASSUME NEW o \in Ops, Inv, CInv, CInv', Orderly, Only(o),
           Become(o, [op[o] EXCEPT !.pc = "finalize", !.failed = TRUE]),
           op[o].pc \notin Selecting \cup Over \cup {"closing"}, journal' \in {journal, None}, UNCHANGED sent
    PROVE  Orderly'
<1>1. op[o] \in OpStates /\ UndoneAt(op[o]) /\ op[o].res = "none"
  BY OrderlyFacts DEF AnswerAt
<1>2. PICK r : r = [op[o] EXCEPT !.pc = "finalize", !.failed = TRUE]
  OBVIOUS
<1>3. /\ Same(o, r) /\ r.pc = "finalize" /\ r.failed /\ r.chg = op[o].chg /\ r.res = op[o].res
      /\ r.jn = op[o].jn
  BY <1>1, <1>2 DEF Same, OpStates
<1>4. UndoneAt(r)'
  BY <1>1, <1>3 DEF UndoneAt, Undone, Same, Planned
<1>5. Answers(o, r)
  BY <1>1, <1>3 DEF Answers, Same
<1>6. QED
  BY <1>1, <1>2, <1>3, <1>4, <1>5, LeaveOrderly

(* One that reports success or yields has nothing to undo.                 *)
LEMMA CloseOrderly ==
    ASSUME NEW o \in Ops, NEW res \in {"ok", "lost", "unknown"}, Inv, CInv, CInv', Orderly, Only(o),
           Become(o, [op[o] EXCEPT !.pc = "closing", !.res = res]),
           op[o].pc \notin Selecting \cup Over \cup {"closing"}, UNCHANGED sent,
           journal' \in {journal, None} \/ (journal'.own = o /\ res # "ok"),
           res = "ok" => journal' = None \/ op[o].jn = "none"
    PROVE  Orderly'
<1>1. op[o] \in OpStates /\ UndoneAt(op[o])
  BY OrderlyFacts
<1>2. PICK r : r = [op[o] EXCEPT !.pc = "closing", !.res = res]
  OBVIOUS
<1>3. /\ Same(o, r) /\ r.pc = "closing" /\ r.chg = op[o].chg /\ r.res = res /\ r.jn = op[o].jn
  BY <1>1, <1>2 DEF Same, OpStates
<1>4. UndoneAt(r)'
  BY <1>1, <1>3 DEF UndoneAt, Undone, Same, Planned
<1>5. Answers(o, r)
  BY <1>3 DEF Answers, Same
<1>6. QED
  BY <1>2, <1>3, <1>4, <1>5, LeaveOrderly

(* The answer, a partial submission, and what is not compensated.          *)
LEMMA ExceptOrderly ==
    ASSUME NEW o \in Ops, Inv, CInv, CInv', Orderly, Only(o),
           ClearJournal(o) \/ KeepPartial(o) \/ YieldToLater(o) \/ CompensateBusy(o)
    PROVE  Orderly'
<1>1. /\ UNCHANGED <<sent, store>> /\ op[o].pc \in {"clear", "except"}
      /\ op[o].pc \notin Selecting \cup Over \cup {"closing"} /\ op[o].pc \in Working \ Unsent
  BY DEF ClearJournal, KeepPartial, YieldToLater, CompensateBusy, streamVars, Selecting, Replaying,
     Over, Working, Planned, Unsent, Early, Uncommitted
<1>2. journal' \in {journal, None}
  BY DEF ClearJournal, KeepPartial, YieldToLater, CompensateBusy, ClearFails
<1>3. CASE Become(o, [op[o] EXCEPT !.pc = "finalize", !.failed = TRUE])
  BY <1>1, <1>2, <1>3, FailOrderly
<1>4. CASE ClearJournal(o)
  <2>0. op[o].pc = "clear"
    BY <1>4 DEF ClearJournal
  <2>1. CASE Goto(o, "except")
    BY <1>1, <1>2, <2>0, <2>1, WorkOnOrderly DEF OpPcs, Working, Planned, Unsent, Early, Selecting,
       Replaying, Uncommitted
  <2>2. CASE Become(o, [op[o] EXCEPT !.pc = "closing", !.res = "ok"]) /\ (op[o].jn # "none" => journal' = None)
    <3>1. PICK res \in {"ok"} : Become(o, [op[o] EXCEPT !.pc = "closing", !.res = res])
      BY <2>2
    <3>2. QED
      BY <1>1, <1>2, <2>2, <3>1, CloseOrderly
  <2>3. QED
    BY <1>4, <2>1, <2>2 DEF ClearJournal
<1>5. CASE YieldToLater(o)
  <2>1. CASE Become(o, [op[o] EXCEPT !.pc = "closing", !.res = "lost"])
    <3>1. PICK res \in {"lost"} : Become(o, [op[o] EXCEPT !.pc = "closing", !.res = res])
      BY <2>1
    <3>2. QED
      BY <1>1, <1>2, <3>1, CloseOrderly
  <2>2. QED
    BY <1>3, <1>5, <2>1 DEF YieldToLater
<1>6. CASE KeepPartial(o) /\ Goto(o, "undoflags")
  <2>1. PICK r : Become(o, r) /\ Same(o, r) /\ r.pc = "undoflags" /\ r.chg = op[o].chg /\ r.res = op[o].res
                 /\ r.jn = op[o].jn
    BY <1>6, GotoSame DEF OpPcs
  <2>2. UndoneAt(op[o]) /\ op[o].res = "none"
    BY <1>1, OrderlyFacts DEF AnswerAt
  <2>3. UndoneAt(r)'
    BY <1>6, <2>1, <2>2 DEF UndoneAt, Undone, Same, Planned, KeepPartial, Exposed
  <2>4. Answers(o, r)
    BY <1>2, <2>1, <2>2 DEF Answers, Same
  <2>5. QED
    BY <1>1, <2>1, <2>2, <2>3, <2>4, LeaveOrderly
<1>7. QED
  BY <1>3, <1>4, <1>5, <1>6 DEF KeepPartial, CompensateBusy

(* Chunks, rows and flags are put back one after the other.                *)
LEMMA UndoOrderly ==
    ASSUME NEW o \in Ops, Inv, CInv, CInv', Orderly, Only(o),
           UndoStore(o) \/ UndoSql(o) \/ UndoFlags(o)
    PROVE  Orderly'
<1>1. /\ UNCHANGED <<sent, journal>> /\ op[o].pc \in {"undo", "undosql", "undoflags"}
      /\ op[o].pc \notin Selecting \cup Over \cup {"closing"}
      /\ UndoneAt(op[o]) /\ op[o].res = "none"
  BY OrderlyFacts DEF UndoStore, UndoSql, UndoFlags, streamVars, Selecting, Replaying, Over, AnswerAt
<1>2. CASE Become(o, [op[o] EXCEPT !.pc = "finalize", !.failed = TRUE])
  BY <1>1, <1>2, FailOrderly
<1>3. ASSUME NEW pc \in {"undosql", "undoflags", "finalize"}, Goto(o, pc),
             \A r : Same(o, r) /\ r.pc = pc /\ r.chg = op[o].chg /\ r.failed = op[o].failed => UndoneAt(r)'
      PROVE  Orderly'
  <2>1. PICK r : Become(o, r) /\ Same(o, r) /\ r.pc = pc /\ r.chg = op[o].chg /\ r.res = op[o].res
                 /\ r.failed = op[o].failed /\ r.jn = op[o].jn
    BY <1>3, GotoSame DEF OpPcs
  <2>2. Answers(o, r)
    BY <1>1, <2>1 DEF Answers, Same
  <2>3. QED
    BY <1>1, <1>3, <2>1, <2>2, LeaveOrderly
<1>4. CASE /\ UndoStore(o) /\ Goto(o, "undosql")
           /\ store' = IF op[o].chg THEN op[o].snap ELSE store
  <2>2. ASSUME NEW r, Same(o, r), r.pc = "undosql", r.chg = op[o].chg PROVE UndoneAt(r)'
    BY <1>1, <1>4, <2>2 DEF UndoneAt, Known, Same, Planned, UndoStore
  <2>3. QED
    BY <1>3, <1>4, <2>2
<1>5. CASE UndoSql(o) /\ Goto(o, "undoflags") /\ sql' = op[o].orig
  <2>2. ASSUME NEW r, Same(o, r), r.pc = "undoflags", r.chg = op[o].chg PROVE UndoneAt(r)'
    BY <1>1, <1>5, <2>2 DEF UndoneAt, Known, Same, Planned, UndoSql
  <2>3. QED
    BY <1>3, <1>5, <2>2
<1>6. CASE UndoFlags(o) /\ FlagsRestorable(o, op[o].fl) /\ flag' = FlagsRestored(o, op[o].fl)
           /\ Goto(o, "finalize")
  <2>1. UNCHANGED <<sql, store>>
    BY <1>6 DEF UndoFlags
  <2>2. ASSUME NEW n \in op[o].fl PROVE flag'[n[1]] = n[2]
    <3>1. n[1] \in TaskIds
      BY OrderlyFacts DEF OpStates, FlagNotes
    <3>2. CASE flag[n[1]] = o
      <4>1. \A m \in op[o].fl : m[1] = n[1] => m = n
        BY <1>1 DEF UndoneAt
      <4>2. (CHOOSE m \in op[o].fl : m[1] = n[1]) = n
        BY <4>1
      <4>3. QED
        BY <1>6, <3>1, <3>2, <4>2 DEF FlagsRestored
    <3>3. CASE flag[n[1]] # o
      BY <1>6, <3>1, <3>3 DEF FlagsRestored, FlagsRestorable
    <3>4. QED
      BY <3>2, <3>3
  <2>3. ASSUME NEW r, Same(o, r), r.pc = "finalize", r.chg = op[o].chg, r.failed = op[o].failed
        PROVE  UndoneAt(r)'
    BY <1>1, <1>6, <2>1, <2>2, <2>3 DEF UndoneAt, Undone, Known, Same, Planned, UndoFlags
  <2>4. QED
    BY <1>3, <1>6, <2>3
<1>7. QED
  BY <1>2, <1>4, <1>5, <1>6 DEF UndoStore, UndoSql, UndoFlags

(* An error is reported only if everything could be undone.                *)
LEMMA FinalizeOrderly ==
    ASSUME NEW o \in Ops, Inv, CInv, CInv', Orderly, Only(o), Finalize(o)
    PROVE  Orderly'
<1>1. /\ UNCHANGED <<sent, sql, store, flag>> /\ op[o].pc = "finalize" /\ op[o] \in OpStates
      /\ op[o].pc \notin Selecting \cup Over \cup {"closing"}
      /\ UndoneAt(op[o]) /\ op[o].res = "none"
  BY OrderlyFacts DEF Finalize, streamVars, Selecting, Replaying, Over, AnswerAt
<1>2. journal' \in {journal, None} \/ journal'.own = o
  <2>1. FinalJournal(o) \in {journal, None} \/ FinalJournal(o).own = o
    <3>1. OwnsJournal(o) => [journal EXCEPT !.phase = "failed"].own = o
      BY DEF OwnsJournal, Material
    <3>2. QED
      BY <3>1 DEF FinalJournal
  <2>2. journal' \in {journal, FinalJournal(o)}
    BY DEF Finalize
  <2>3. QED
    BY <2>1, <2>2
<1>3. CASE Become(o, [op[o] EXCEPT !.pc = "closing", !.res = "unknown"])
  <2>1. PICK res \in {"unknown"} : Become(o, [op[o] EXCEPT !.pc = "closing", !.res = res])
    BY <1>3
  <2>2. QED
    BY <1>1, <1>2, <2>1, CloseOrderly
<1>4. CASE Become(o, [op[o] EXCEPT !.pc = "closing", !.res = "error"]) /\ ~op[o].failed
  <2>1. PICK r : r = [op[o] EXCEPT !.pc = "closing", !.res = "error"]
    OBVIOUS
  <2>2. /\ Same(o, r) /\ r.pc = "closing" /\ r.chg = op[o].chg /\ r.res = "error"
        /\ r.failed = op[o].failed /\ r.jn = op[o].jn
    BY <1>1, <2>1 DEF Same, OpStates
  <2>3. UndoneAt(r)'
    BY <1>1, <1>4, <2>2 DEF UndoneAt, Undone, Known, Same, Planned
  <2>4. Answers(o, r)
    BY <1>2, <2>2 DEF Answers, Same
  <2>5. QED
    BY <1>1, <1>4, <2>1, <2>2, <2>3, <2>4, LeaveOrderly
<1>5. op[o].failed \in BOOLEAN
  BY <1>1 DEF OpStates
<1>6. \E unknown \in BOOLEAN :
        /\ Become(o, [op[o] EXCEPT !.pc = "closing", !.res = IF unknown THEN "unknown" ELSE "error"])
        /\ op[o].failed => unknown
  BY <1>5 DEF Finalize
<1>7. QED
  BY <1>3, <1>4, <1>6

(* Every step of a request that acts alone.                                *)
LEMMA StepOrderly ==
    ASSUME NEW o \in Ops, Inv, CInv, CInv', Orderly, Only(o), OpStep(o) \/ CrashOp(o)
    PROVE  Orderly'
<1>1. CASE Close(o)
  <2>1. op[o].pc = "closing" /\ op[o].res \in Results /\ UNCHANGED <<sent, journal>>
    BY <1>1, OrderlyFacts DEF Close, streamVars, OpStates
  <2>2. Become(o, Ended(o, "done", op[o].res)) /\ "done" \in Over
    BY <1>1 DEF Close, Over
  <2>3. QED
    BY <2>1, <2>2, EndOrderly
<1>2. CASE CrashOp(o)
  <2>1. UNCHANGED <<sent, journal>> /\ Become(o, Ended(o, "dead", "none"))
    BY <1>2 DEF CrashOp, streamVars
  <2>2. "dead" \in Over /\ "none" \in Results /\ "none" # "ok"
    BY DEF Over, Results
  <2>3. QED
    BY <2>1, <2>2, EndOrderly
<1>3. QED
  BY <1>1, <1>2, SelectingOrderly, BeginOrderly, PlanOrderly, JournalOrderly, CommitOrderly,
     SubmitOrderly, ExceptOrderly, UndoOrderly, FinalizeOrderly DEF OpStep

(* Initially nothing was sent by a request, and nothing is remembered.     *)
LEMMA InitOrderly == ASSUME Init PROVE Orderly
<1>1. PICK cfg \in Cfgs :
        /\ sql \in FreshDocs(cfg) \cup QueuedDocs(cfg) \cup ParsedDocs(cfg) \cup FailedDocs(cfg)
        /\ op = [x \in Ops |-> NewOp(cfg)]
  BY DEF Init
<1>2. sql.gen = Origin
  <2>1. \A run, prog, row : Doc(run, prog, cfg, row).gen = Origin
    BY DEF Doc
  <2>2. QED
    BY <1>1, <2>1 DEF FreshDocs, QueuedDocs, ParsedDocs, FailedDocs
<1>3. ASSUME NEW x \in Ops PROVE OrderlyAt(x, op[x])
  <2>1. /\ op[x].pc = "idle" /\ ~op[x].chg /\ op[x].fl = {} /\ op[x].res = "none"
    BY <1>1 DEF NewOp
  <2>2. \A p \in Pages : <<x, p>> \notin sent
    BY <1>2, PartiesAssumption DEF Init, Ids
  <2>3. MarksAt(op[x]) /\ UndoneAt(op[x]) /\ AnswerAt(op[x])
    BY <2>1 DEF MarksAt, UndoneAt, AnswerAt, Planned
  <2>4. QED
    BY <2>2, <2>3 DEF OrderlyAt, SentAt
<1>4. Held = {}
  BY <1>1 DEF Held, Init, NewOp
<1>5. QED
  BY <1>3, <1>4 DEF Orderly, KeptInv

(* Requests one after another are requests of the system.                  *)
LEMMA SequentialRefines == SequentialSpec => Spec
<1>1. [SequentialNext]_vars => [Next]_vars
  BY DEF SequentialNext, Next, OpNext
<1>2. QED
  BY <1>1, PTL DEF SequentialSpec, Spec

(***************************************************************************)
(* Requests one after another, whatever fails or dies, stay orderly.       *)
(***************************************************************************)
THEOREM OrderlyHolds == SequentialSpec => []Orderly
<1>1. Init => Orderly
  BY InitOrderly
<1>2. Inv /\ CInv /\ CInv' /\ Orderly /\ [SequentialNext]_vars => Orderly'
  <2> SUFFICES ASSUME Inv, CInv, CInv', Orderly, [SequentialNext]_vars PROVE Orderly'
    OBVIOUS
  <2>1. CASE SequentialNext
    <3>1. PICK o \in Ops : Only(o) /\ (OpStep(o) \/ CrashOp(o))
      BY <2>1 DEF SequentialNext, Only
    <3>2. QED
      BY <3>1, StepOrderly
  <2>2. CASE UNCHANGED vars
    BY <2>2 DEF vars, Orderly, OrderlyAt, MarksAt, UndoneAt, AnswerAt, SentAt, KeptInv, Held
  <2>3. QED
    BY <2>1, <2>2
<1>3. SequentialSpec => []Inv /\ []CInv
  BY SequentialRefines, InvHolds, CancelInvHolds, PTL
<1>4. QED
  BY <1>1, <1>2, <1>3, PTL DEF SequentialSpec

(***************************************************************************)
(* A request that reports an error, and enqueued nothing, changed nothing: *)
(* rows, chunks and cancel flags are as it found them, whatever failed.    *)
(***************************************************************************)
THEOREM UndoneHolds == SequentialSpec => []ErrorMeansUndone
<1>1. Orderly => ErrorMeansUndone
  BY DEF Orderly, OrderlyAt, UndoneAt, Undone, Known, ErrorMeansUndone, Exposed
<1>2. QED
  BY <1>1, OrderlyHolds, PTL

(***************************************************************************)
(* What a request has confirmed is never rolled back by a later one: the   *)
(* journal that is replayed is of a request that did not report success.   *)
(***************************************************************************)
THEOREM KeptHolds == SequentialSpec => []ConfirmedIsKept
<1>1. Inv /\ Orderly => ConfirmedIsKept
  BY AbsenceAssumption DEF Orderly, KeptInv, Held, ConfirmedIsKept, Inv, Typed, Knows, Replaying
<1>2. SequentialSpec => []Inv
  BY SequentialRefines, InvHolds, PTL
<1>3. QED
  BY <1>1, <1>2, OrderlyHolds, PTL

-----------------------------------------------------------------------------
(* One failing call *)

Counts(s, C) == s.num = Cardinality(C)
Standing == journal # None /\ ~JournalStale(journal)

(* What a request in state r knows of its rows, and of its own journal.    *)
Owned(r) == r.appl # None /\ sql = r.appl
Reached(r) == r.ack \cup r.unc # {}
Wrote(x, r) == journal = [own |-> x, phase |-> "active", snap |-> r.snap, orig |-> r.orig,
                          appl |-> IF r.jn = "full" THEN r.appl ELSE None, fl |-> r.fl]

(* A journal that is replayed stays, and its snapshot is put back first.   *)
ReplayAt(r) ==
    /\ r.pc \in Replaying => journal = r.rec
    /\ r.pc \in {"recommit", "relock"} => store = r.rec.snap
    /\ r.pc = "relock" => sql = r.rec.orig

(* The rows found count the chunks found, the rows planned those left; a   *)
(* journal says so from before the deletion until the end.                 *)
Committed == {"requeue", "submit", "clear"}
WorkAt(x, r) ==
    /\ r.pc \in {"begin", "plan", "journal"} => journal = None
    /\ r.pc \in {"begin", "plan", "journal", "delete"} => Counts(sql, store)
    /\ r.pc \in {"journal", "delete"} => store = r.snap /\ Counts(r.appl, store \ Doomed(x))
    /\ r.pc \in {"record", "commit"} \cup Committed => Counts(r.appl, store)
    /\ r.pc \in Committed => sql = r.appl
    /\ r.pc = "delete" \/ (r.pc \in {"record", "commit"} \cup Committed /\ r.chg) => Wrote(x, r)
    /\ r.pc \in {"commit", "except", "undo"} \cup Committed /\ ~r.chg => Counts(r.orig, store)
    /\ r.pc \in {"record", "commit", "except", "undo"} \cup Committed /\ r.chg =>
         Counts(r.orig, r.snap)

(* A compensation starts from the rows found or from the request's own.    *)
Undoing == {"except", "undo", "undosql"}
UndoAt(x, r) ==
    /\ r.pc \in Undoing => sql = r.orig \/ Owned(r)
    /\ r.pc \in {"except", "undo"} => sql = r.orig \/ Counts(sql, store)
    /\ r.pc = "except" /\ Reached(r) => Counts(sql, store)
    /\ r.pc \in {"undo", "undosql"} /\ Owned(r) => ~Reached(r)
    /\ r.pc = "undosql" => Counts(r.orig, store)
    /\ r.pc = "undoflags" => Counts(sql, store)
    /\ r.pc = "finalize" /\ (Reached(r) \/ ~r.failed) => Counts(sql, store)
    /\ r.pc \in Undoing /\ faults = 0 => ~Reached(r) /\ (r.chg => Wrote(x, r) /\ r.jn = "full")

SafeAt(x, r) == ReplayAt(r) /\ WorkAt(x, r) /\ UndoAt(x, r)

(* What a journal returns to fits, and either nothing has to be returned   *)
(* to or it can be; only the rows of a lost answer are still to be undone. *)
Late(r) == faults # 0 /\ r.pc = "undosql"
Ground(late) ==
    /\ journal # None => Counts(journal.orig, journal.snap)
    /\ journal # None /\ JournalSettled(journal) => Counts(sql, store)
    /\ Counts(sql, store) \/ Standing \/ late
Safe == (\A x \in Ops : SafeAt(x, op[x])) /\ Ground(\E x \in Ops : Late(op[x]))

(* A request that acts alone only has itself to account for.               *)
LEMMA SafeStep ==
    ASSUME NEW o \in Ops, NEW r, Inv, Safe, Only(o), Become(o, r), SafeAt(o, r)',
           Ground(FALSE)' \/ Ground(Late(r))'
    PROVE  Safe'
<1>1. op'[o] = r /\ \A x \in Ops \ {o} : op'[x] = op[x]
  BY DEF Become, Inv, Typed, TypeOK
<1>2. ASSUME NEW x \in Ops \ {o} PROVE SafeAt(x, op[x])'
  <2>1. op'[x] = op[x] /\ op[x].pc \in {"idle", "done", "dead"}
    BY <1>1 DEF Only, Inactive
  <2>2. QED
    BY <2>1 DEF SafeAt, ReplayAt, WorkAt, UndoAt, Replaying, Committed, Undoing
<1>3. SafeAt(o, op[o])'
  BY <1>1
<1>4. Ground(\E x \in Ops : Late(op[x]))'
  BY <1>1 DEF Ground, Late
<1>5. QED
  BY <1>2, <1>3, <1>4 DEF Safe

(* What is known of a request that acts alone.                             *)
LEMMA SafeFacts ==
    ASSUME NEW o \in Ops, Inv, CInv, Orderly, Safe, Only(o)
    PROVE  /\ op[o] \in OpStates /\ LocalOk(o, op[o]) /\ KnowsAt(op[o]) /\ MarksAt(op[o])
           /\ \A p \in Pages : SentAt(o, op[o], <<o, p>>)
           /\ SafeAt(o, op[o]) /\ Ground(Late(op[o]))
           /\ Wrote(o, op[o]) <=> OwnsJournal(o)
           /\ Owned(op[o]) <=> OwnedSql(o)
           /\ Reached(op[o]) <=> Exposed(o) # {}
<1>1. Ground(Late(op[o]))
  BY DEF Safe, Ground, Late, Only, Inactive
<1>2. QED
  BY <1>1, OrderlyFacts DEF Safe, Wrote, OwnsJournal, Material, Owned, OwnedSql, Reached, Exposed

(* The shared state may stay, unless the compensation is half done.        *)
LEMMA GroundStays ==
    ASSUME NEW late, Ground(late), UNCHANGED <<sql, store, journal, sent>>, ~late
    PROVE  Ground(FALSE)'
  BY DEF Ground, Standing, JournalStale, JournalSettled, JournalOwned, JournalUnchanged,
     RecoverySubmitted, Counts

(* Rows that count the chunks are safe with whatever journal that fits.    *)
LEMMA GroundCounts ==
    ASSUME Counts(sql, store)', journal' # None => Counts(journal'.orig, journal'.snap)
    PROVE  Ground(FALSE)'
  BY DEF Ground, Counts

(* A request that ends has nothing to know.                                *)
LEMMA EndSafe ==
    ASSUME NEW o \in Ops, NEW pc \in Over, NEW res, Inv, Safe, Only(o), Become(o, Ended(o, pc, res)),
           Ground(FALSE)'
    PROVE  Safe'
<1>1. PICK r : r = Ended(o, pc, res)
  OBVIOUS
<1>2. r.pc \in {"done", "dead"}
  BY <1>1 DEF Ended, NewOp, Over
<1>3. SafeAt(o, r)'
  BY <1>2 DEF SafeAt, ReplayAt, WorkAt, UndoAt, Replaying, Committed, Undoing
<1>4. QED
  BY <1>1, <1>3, SafeStep

(* A request that begins finds rows that count the chunks.                 *)
LEMMA SelectSafe ==
    ASSUME NEW o \in Ops, NEW r, Inv, Safe, Only(o), Become(o, r), r.pc \in Selecting,
           r.pc = "begin" => journal' = None /\ Counts(sql, store)',
           ReplayAt(r)', Ground(FALSE)'
    PROVE  Safe'
<1>1. WorkAt(o, r)' /\ UndoAt(o, r)'
  BY DEF WorkAt, UndoAt, Selecting, Replaying, Committed, Undoing
<1>2. QED
  BY <1>1, SafeStep DEF SafeAt

(* The writer of the journal that is replayed has ended.                   *)
LEMMA WriterEnded ==
    ASSUME NEW o \in Ops, Inv, CInv, Orderly, Safe, Only(o), op[o].pc \in Replaying
    PROVE  ~OwnerActive(op[o].rec)
<1>1. op[o].rec \in Held
  BY AbsenceAssumption DEF Held, Inv, Typed, Knows
<1>2. op[o].rec.own \in Ops /\ OwnAt(op[op[o].rec.own])
  BY <1>1 DEF CInv, OwnInv
<1>3. \A x \in Ops : op[x].pc \in {"idle"} \cup Replaying => op[x].jn = "none"
  BY DEF CInv, LocalInv, LocalOk, Selecting
<1>4. op[o].rec.own # o
  BY <1>2, <1>3 DEF OwnAt, Over, Replaying
<1>5. op[op[o].rec.own].pc \in {"idle", "done", "dead"}
  BY <1>2, <1>4 DEF Only, Inactive
<1>6. QED
  BY <1>2, <1>3, <1>5 DEF OwnAt, Over, OwnerActive

(* Looking at the rows changes nothing.                                    *)
LEMMA LookSafe ==
    ASSUME NEW o \in Ops, Inv, CInv, Orderly, Safe, Only(o),
           Preflight(o) \/ LockRows(o) \/ LoadJournal(o)
    PROVE  Safe'
<1>1. /\ op[o] \in OpStates /\ Ground(Late(op[o])) /\ op[o].pc \in {"idle", "locking", "loading"}
      /\ UNCHANGED <<sql, store, journal, sent>>
  BY SafeFacts DEF Preflight, LockRows, LoadJournal, streamVars
<1>2. Ground(FALSE)' /\ Ground(FALSE)
  BY <1>1, GroundStays DEF Late, Ground
<1>3. CASE Preflight(o)
  <2>1. PICK kind \in Kinds, clear \in BOOLEAN, cfg \in Cfgs :
          Become(o, [op[o] EXCEPT !.pc = "locking", !.kind = kind, !.clear = clear,
                                  !.cfg = cfg, !.rev = sql.rev, !.sel = Ids(sql)])
    BY <1>3 DEF Preflight
  <2>2. PICK r : r = [op[o] EXCEPT !.pc = "locking", !.kind = kind, !.clear = clear,
                                   !.cfg = cfg, !.rev = sql.rev, !.sel = Ids(sql)]
    OBVIOUS
  <2>3. r.pc = "locking"
    BY <1>1, <2>2 DEF OpStates
  <2>4. r.pc \in Selecting /\ ReplayAt(r)'
    BY <2>3 DEF Selecting, ReplayAt, Replaying
  <2>5. QED
    BY <1>2, <2>1, <2>2, <2>3, <2>4, SelectSafe
<1>4. CASE LockRows(o)
  <2>1. CASE Become(o, [op[o] EXCEPT !.pc = "loading", !.rev = None])
    <3>1. PICK r : r = [op[o] EXCEPT !.pc = "loading", !.rev = None]
      OBVIOUS
    <3>2. r.pc = "loading"
      BY <1>1, <3>1 DEF OpStates
    <3>3. r.pc \in Selecting /\ ReplayAt(r)'
      BY <3>2 DEF Selecting, ReplayAt, Replaying
    <3>4. QED
      BY <1>2, <2>1, <3>1, <3>2, <3>3, SelectSafe
  <2>2. CASE Become(o, Ended(o, "done", "refused"))
    BY <1>2, <2>2, EndSafe DEF Over
  <2>3. QED
    BY <1>4, <2>1, <2>2 DEF LockRows
<1>5. CASE LoadJournal(o)
  <2> DEFINE pc == IF journal = None THEN "begin" ELSE "recover"
  <2>1. PICK r : r = [op[o] EXCEPT !.pc = pc, !.rec = journal]
    OBVIOUS
  <2>2. r.pc = pc /\ r.rec = journal
    BY <1>1, <2>1 DEF OpStates
  <2>3. r.pc \in Selecting /\ ReplayAt(r)'
    BY <1>1, <2>2 DEF Selecting, ReplayAt, Replaying
  <2>4. r.pc = "begin" => journal' = None /\ Counts(sql, store)'
    BY <1>1, <1>2, <2>2 DEF Ground, Standing, Counts
  <2>5. Become(o, r)
    BY <1>5, <2>1 DEF LoadJournal
  <2>6. QED
    BY <1>2, <2>3, <2>4, <2>5, SelectSafe
<1>6. QED
  BY <1>3, <1>4, <1>5

(* A journal that does not apply, or whose request has enqueued its tasks, *)
(* is no longer needed.                                                    *)
LEMMA SkipJournalSafe ==
    ASSUME NEW o \in Ops, Inv, CInv, Orderly, Safe, Only(o), SkipJournal(o)
    PROVE  Safe'
<1>1. /\ op[o] \in OpStates /\ Ground(Late(op[o])) /\ op[o].pc = "recover"
      /\ UNCHANGED <<sql, store, sent>> /\ journal = op[o].rec /\ op[o].rec # None
  BY SafeFacts, AbsenceAssumption DEF SkipJournal, streamVars, SafeAt, ReplayAt, Replaying, KnowsAt
<1>2. ~OwnerActive(op[o].rec)
  BY <1>1, WriterEnded DEF Replaying
<1>3. journal' \in {journal, None}
  BY DEF SkipJournal
<1>4. Counts(sql, store)
  BY <1>1, <1>2 DEF SkipJournal, Ground, Standing, Late
<1>5. Ground(FALSE)'
  <2>1. Counts(sql, store)'
    BY <1>1, <1>4 DEF Counts
  <2>2. journal' # None => Counts(journal'.orig, journal'.snap)
    BY <1>1, <1>3 DEF Ground
  <2>3. QED
    BY <2>1, <2>2, GroundCounts
<1>6. CASE Become(o, Ended(o, "done", "refused"))
  BY <1>5, <1>6, EndSafe DEF Over
<1>7. CASE Become(o, [op[o] EXCEPT !.pc = "begin", !.rec = None]) /\ journal' = None
  <2>1. PICK r : r = [op[o] EXCEPT !.pc = "begin", !.rec = None]
    OBVIOUS
  <2>2. r.pc = "begin"
    BY <1>1, <2>1 DEF OpStates
  <2>3. r.pc \in Selecting /\ ReplayAt(r)'
    BY <2>2 DEF Selecting, ReplayAt, Replaying
  <2>4. Counts(sql, store)'
    BY <1>1, <1>4 DEF Counts
  <2>5. QED
    BY <1>5, <1>7, <2>1, <2>3, <2>4, SelectSafe
<1>8. QED
  BY <1>2, <1>6, <1>7 DEF SkipJournal, Refuse

(* The snapshot of a journal goes with the rows it returns to.             *)
LEMMA ReplaySafe ==
    ASSUME NEW o \in Ops, Inv, CInv, Orderly, Safe, Only(o),
           ReplayHistory(o) \/ ReplayCommit(o) \/ ReplayRelock(o)
    PROVE  Safe'
<1> DEFINE j == op[o].rec
<1>1. /\ op[o] \in OpStates /\ Ground(Late(op[o])) /\ op[o].pc \in Replaying
      /\ UNCHANGED sent /\ journal = j /\ j # None /\ ReplayAt(op[o]) /\ Counts(j.orig, j.snap)
  BY SafeFacts, AbsenceAssumption DEF ReplayHistory, ReplayCommit, ReplayRelock, streamVars, SafeAt,
     ReplayAt, Replaying, KnowsAt, Ground
<1>2. Ground(FALSE)
  BY <1>1 DEF Ground, Late, Replaying
<1>3. ASSUME NEW pc \in {"recommit", "relock"}, Goto(o, pc), journal' = journal, store' = j.snap,
             pc = "relock" => sql' = j.orig, Ground(FALSE)'
      PROVE  Safe'
  <2>1. PICK r : Become(o, r) /\ Same(o, r) /\ r.pc = pc
    BY <1>3, GotoSame DEF OpPcs
  <2>2. ReplayAt(r)' /\ r.pc \in Selecting /\ r.pc # "begin"
    BY <1>1, <1>3, <2>1 DEF ReplayAt, Same, Selecting, Replaying
  <2>3. QED
    BY <1>3, <2>1, <2>2, SelectSafe
<1>4. CASE ReplayHistory(o)
  <2>1. UNCHANGED <<sql, journal>> /\ ~JournalStale(j) /\ ~JournalSettled(j)
    BY <1>4, <1>1, WriterEnded DEF ReplayHistory
  <2>2. Ground(FALSE)'
    BY <1>1, <2>1 DEF Ground, Standing, Counts, JournalStale, JournalSettled, JournalOwned,
       JournalUnchanged, RecoverySubmitted
  <2>3. CASE Become(o, Ended(o, "done", "refused"))
    BY <2>2, <2>3, EndSafe DEF Over
  <2>4. CASE Goto(o, "recommit") /\ store' = j.snap
    BY <1>3, <2>1, <2>2, <2>4
  <2>5. QED
    BY <1>4, <2>3, <2>4 DEF ReplayHistory, Refuse
<1>5. CASE ReplayCommit(o)
  <2>1. UNCHANGED <<store, journal>> /\ store = j.snap
    BY <1>1, <1>5 DEF ReplayCommit, ReplayAt
  <2>2. sql' = j.orig => Counts(sql, store)'
    BY <1>1, <2>1 DEF Counts
  <2>3. Ground(FALSE)'
    <3>1. CASE sql' = sql
      BY <1>1, <1>2, <2>1, <3>1, GroundStays
    <3>2. CASE sql' = j.orig
      BY <1>1, <2>1, <2>2, <3>2, GroundCounts
    <3>3. QED
      BY <1>5, <3>1, <3>2 DEF ReplayCommit
  <2>4. CASE Become(o, Ended(o, "done", "refused"))
    BY <2>3, <2>4, EndSafe DEF Over
  <2>5. CASE Goto(o, "relock") /\ sql' = j.orig
    BY <1>3, <2>1, <2>3, <2>5
  <2>6. QED
    BY <1>5, <2>4, <2>5 DEF ReplayCommit
<1>6. CASE ReplayRelock(o)
  <2>1. UNCHANGED <<sql, store>> /\ store = j.snap /\ sql = j.orig /\ journal' \in {journal, None}
    BY <1>1, <1>6 DEF ReplayRelock, ReplayAt
  <2>2. Counts(sql, store)'
    BY <1>1, <2>1 DEF Counts
  <2>3. Ground(FALSE)'
    BY <1>1, <2>1, <2>2, GroundCounts
  <2>4. CASE Become(o, Ended(o, "done", "refused"))
    BY <2>3, <2>4, EndSafe DEF Over
  <2>5. CASE Become(o, [op[o] EXCEPT !.pc = "begin", !.rec = None]) /\ journal' = None
    <3>1. PICK r : r = [op[o] EXCEPT !.pc = "begin", !.rec = None]
      OBVIOUS
    <3>2. r.pc = "begin"
      BY <1>1, <3>1 DEF OpStates
    <3>3. r.pc \in Selecting /\ ReplayAt(r)'
      BY <3>2 DEF Selecting, ReplayAt, Replaying
    <3>4. QED
      BY <2>2, <2>3, <2>5, <3>1, <3>3, SelectSafe
  <2>6. QED
    BY <1>6, <2>4, <2>5 DEF ReplayRelock
<1>7. QED
  BY <1>4, <1>5, <1>6

(* What the exception handler may rely on.                                 *)
LEMMA ExceptSafe ==
    ASSUME NEW o \in Ops, NEW r, Inv, Safe, Only(o), Become(o, r), r.pc = "except",
           sql' = r.orig \/ (Owned(r)' /\ Counts(sql, store)'),
           Reached(r) => Counts(sql, store)',
           IF r.chg THEN Counts(r.orig, r.snap) ELSE Counts(r.orig, store'),
           faults' = 0 => ~Reached(r) /\ (r.chg => Wrote(o, r)' /\ r.jn = "full"),
           Ground(FALSE)'
    PROVE  Safe'
<1>1. SafeAt(o, r)'
  BY DEF SafeAt, ReplayAt, WorkAt, UndoAt, Replaying, Committed, Undoing, Reached, Counts
<1>2. QED
  BY <1>1, SafeStep

(* A request that has begun holds rows that count the chunks.              *)
LEMMA BeginSafe ==
    ASSUME NEW o \in Ops, Inv, CInv, Orderly, Safe, Only(o), Begin(o)
    PROVE  Safe'
<1> DEFINE notes == {<<t, flag[t]>> : t \in LiveIds(sql)}
<1>1. /\ op[o] \in OpStates /\ op[o].pc = "begin" /\ UNCHANGED <<sql, store, journal, sent>>
      /\ op[o].appl = None /\ ~op[o].chg /\ op[o].ack = {} /\ op[o].unc = {}
      /\ Ground(Late(op[o])) /\ journal = None /\ Counts(sql, store)
  BY SafeFacts DEF Begin, LocalOk, Early, Selecting, MarksAt, SafeAt, WorkAt, streamVars
<1>2. Ground(FALSE)' /\ Counts(sql, store)'
  BY <1>1, GroundStays DEF Late, Counts
<1>3. ASSUME NEW r, Become(o, r), r.pc \in {"except", "plan"}, r.orig = sql, ~r.chg, ~Reached(r)
      PROVE  Safe'
  <2>1. CASE r.pc = "except"
    BY <1>1, <1>2, <1>3, <2>1, ExceptSafe
  <2>2. CASE r.pc = "plan"
    <3>1. SafeAt(o, r)'
      BY <1>1, <1>2, <2>2 DEF SafeAt, ReplayAt, WorkAt, UndoAt, Replaying, Committed, Undoing
    <3>2. QED
      BY <1>2, <1>3, <3>1, SafeStep
  <2>3. QED
    BY <1>3, <2>1, <2>2
<1>4. ASSUME NEW pc \in {"except", "plan"}
      PROVE  LET r == [op[o] EXCEPT !.pc = pc, !.orig = sql]
                 x == [op[o] EXCEPT !.pc = pc, !.orig = sql, !.fl = notes]
             IN /\ r.pc = pc /\ r.orig = sql /\ ~r.chg /\ ~Reached(r)
                /\ x.pc = pc /\ x.orig = sql /\ ~x.chg /\ ~Reached(x)
  BY <1>1 DEF OpStates, Reached
<1>5. \E pc \in {"except", "plan"} :
        \/ Become(o, [op[o] EXCEPT !.pc = pc, !.orig = sql])
        \/ Become(o, [op[o] EXCEPT !.pc = pc, !.orig = sql, !.fl = notes])
  BY DEF Begin
<1>6. QED
  BY <1>3, <1>4, <1>5

(* The rows planned count the chunks that will be left.                    *)
LEMMA PlanCounts ==
    ASSUME NEW o \in Ops, Inv, Counts(sql, store)
    PROVE  Counts(Applied(o), store \ Doomed(o))
<1>1. op[o].kind \in Kinds /\ op[o].clear \in BOOLEAN /\ sql \in Sql
  BY DEF Inv, Typed, TypeOK, OpStates
<1>2. Applied(o).num = IF op[o].kind = "1" \/ op[o].clear THEN Cardinality(Retained(o)) ELSE sql.num
  BY <1>1 DEF Applied, Sql
<1>3. CASE op[o].clear
  <2>1. store \ Doomed(o) = Retained(o)
    BY <1>3 DEF Doomed, Retained
  <2>2. QED
    BY <1>2, <1>3, <2>1 DEF Counts
<1>4. CASE ~op[o].clear
  <2>1. store \ Doomed(o) = Retained(o)
    BY <1>4 DEF Doomed, Retained
  <2>2. CASE op[o].kind = "1"
    BY <1>2, <2>1, <2>2 DEF Counts
  <2>3. CASE op[o].kind # "1"
    <3>1. store \ Doomed(o) = store
      BY <1>4, <2>3 DEF Doomed, Obsolete
    <3>2. QED
      BY <1>2, <1>4, <2>3, <3>1 DEF Counts
  <2>4. QED
    BY <2>2, <2>3
<1>5. QED
  BY <1>1, <1>3, <1>4

(* A plan takes its snapshot of the chunks that the rows count.            *)
LEMMA PlanSafe ==
    ASSUME NEW o \in Ops, Inv, CInv, Orderly, Safe, Only(o), Plan(o)
    PROVE  Safe'
<1>1. /\ op[o] \in OpStates /\ op[o].pc = "plan" /\ UNCHANGED <<sql, store, journal, sent>>
      /\ op[o].appl = None /\ ~op[o].chg /\ op[o].ack = {} /\ op[o].unc = {}
      /\ Ground(Late(op[o])) /\ journal = None /\ Counts(sql, store) /\ sql = op[o].orig
  BY SafeFacts DEF Plan, LocalOk, Early, MarksAt, SafeAt, WorkAt, streamVars, Inv, RowsDoNotMove
<1>2. Ground(FALSE)' /\ Counts(sql, store)'
  BY <1>1, GroundStays DEF Late, Counts
<1>3. CASE Goto(o, "except")
  <2>1. PICK r : Become(o, r) /\ Same(o, r) /\ r.pc = "except" /\ r.chg = op[o].chg
    BY <1>3, GotoSame DEF OpPcs
  <2>2. ~r.chg /\ ~Reached(r) /\ sql' = r.orig /\ Counts(r.orig, store')
    BY <1>1, <2>1 DEF Same, Reached
  <2>3. QED
    BY <1>1, <1>2, <2>1, <2>2, ExceptSafe
<1>4. CASE Become(o, Ended(o, "done", "ok"))
  BY <1>2, <1>4, EndSafe DEF Over
<1>5. CASE Become(o, [op[o] EXCEPT
                  !.pc = IF op[o].clear \/ Obsolete(o) # {} THEN "journal" ELSE "commit",
                  !.snap = IF op[o].kind = "1" \/ op[o].clear THEN store ELSE {},
                  !.appl = Applied(o)])
  <2> DEFINE pc == IF op[o].clear \/ Obsolete(o) # {} THEN "journal" ELSE "commit"
             snap == IF op[o].kind = "1" \/ op[o].clear THEN store ELSE {}
  <2>1. PICK r : r = [op[o] EXCEPT !.pc = pc, !.snap = snap, !.appl = Applied(o)]
    OBVIOUS
  <2>2. /\ r.pc = pc /\ r.snap = snap /\ r.appl = Applied(o) /\ ~r.chg /\ r.orig = op[o].orig
        /\ r.kind = op[o].kind /\ r.clear = op[o].clear /\ r.cfg = op[o].cfg
    BY <1>1, <2>1 DEF OpStates
  <2>3. /\ pc \in {"journal", "commit"} /\ (pc = "commit" => store \ Doomed(o) = store)
        /\ pc = "journal" => snap = store
    BY DEF Obsolete, Doomed
  <2>4. Become(o, r) /\ op'[o] = r
    BY <1>5, <2>1 DEF Become, Inv, Typed, TypeOK
  <2> HIDE DEF pc, snap
  <2>5. Counts(Applied(o), store \ Doomed(o))
    BY <1>1, PlanCounts
  <2>6. Doomed(o)' = Doomed(o)
    BY <1>1, <2>2, <2>4 DEF Doomed, Obsolete, ReusedPages
  <2>7. WorkAt(o, r)'
    <3>1. CASE pc = "journal"
      BY <1>1, <1>2, <2>2, <2>3, <2>5, <2>6, <3>1 DEF WorkAt, Committed, Counts
    <3>2. CASE pc = "commit"
      BY <1>1, <1>2, <2>2, <2>3, <2>5, <3>2 DEF WorkAt, Committed, Counts
    <3>3. QED
      BY <2>3, <3>1, <3>2
  <2>8. SafeAt(o, r)'
    BY <2>2, <2>3, <2>7 DEF SafeAt, ReplayAt, UndoAt, Replaying, Undoing
  <2>9. QED
    BY <1>2, <2>4, <2>8, SafeStep
<1>6. QED
  BY <1>3, <1>4, <1>5 DEF Plan, Raise

(* After a failure there has been one.                                     *)
LEMMA FaultCounts == ASSUME Inv, Fault PROVE faults' # 0
  BY DEF Inv, Typed, TypeOK, Fault

(* The journal holds the snapshot that the rows count.                     *)
LEMMA CreateJournalSafe ==
    ASSUME NEW o \in Ops, Inv, CInv, Orderly, Safe, Only(o), CreateJournal(o)
    PROVE  Safe'
<1>1. /\ op[o] \in OpStates /\ op[o].pc = "journal" /\ UNCHANGED <<sql, store, sent>>
      /\ ~op[o].chg /\ op[o].ack = {} /\ op[o].unc = {} /\ journal = None
      /\ Counts(sql, store) /\ sql = op[o].orig /\ store = op[o].snap
      /\ Counts(op[o].appl, store \ Doomed(o))
  BY SafeFacts DEF CreateJournal, LocalOk, Early, Uncommitted, MarksAt, SafeAt, WorkAt, streamVars,
     Inv, RowsDoNotMove
<1>2. journal' \in {None, Material(o, "bare")}
  BY <1>1 DEF CreateJournal
<1>3. Counts(sql, store)' /\ Ground(FALSE)'
  <2>1. Counts(sql, store)'
    BY <1>1 DEF Counts
  <2>2. journal' # None => Counts(journal'.orig, journal'.snap)
    BY <1>1, <1>2 DEF Material
  <2>3. QED
    BY <2>1, <2>2, GroundCounts
<1>4. ASSUME NEW pc \in {"delete", "except"}
      PROVE  \E r : /\ r = [op[o] EXCEPT !.pc = pc, !.jn = "bare"]
                    /\ Same(o, r) /\ r.pc = pc /\ ~r.chg /\ r.jn = "bare" /\ ~Reached(r)
  <2>1. PICK r : r = [op[o] EXCEPT !.pc = pc, !.jn = "bare"]
    OBVIOUS
  <2>2. Same(o, r) /\ r.pc = pc /\ ~r.chg /\ r.jn = "bare" /\ ~Reached(r)
    BY <1>1, <2>1 DEF Same, OpStates, Reached
  <2>3. QED
    BY <2>1, <2>2
<1>5. CASE Become(o, [op[o] EXCEPT !.pc = "except", !.jn = "bare"])
  <2>1. PICK r : /\ r = [op[o] EXCEPT !.pc = "except", !.jn = "bare"]
                 /\ Same(o, r) /\ r.pc = "except" /\ ~r.chg /\ r.jn = "bare" /\ ~Reached(r)
    BY <1>4
  <2>2. sql' = r.orig /\ Counts(r.orig, store')
    BY <1>1, <2>1 DEF Same
  <2>3. QED
    BY <1>3, <1>5, <2>1, <2>2, ExceptSafe
<1>6. CASE Become(o, [op[o] EXCEPT !.pc = "delete", !.jn = "bare"]) /\ journal' = Material(o, "bare")
  <2>1. PICK r : /\ r = [op[o] EXCEPT !.pc = "delete", !.jn = "bare"]
                 /\ Same(o, r) /\ r.pc = "delete" /\ ~r.chg /\ r.jn = "bare" /\ ~Reached(r)
    BY <1>4
  <2>2. op'[o] = r
    BY <1>6, <2>1 DEF Become, Inv, Typed, TypeOK
  <2>3. Doomed(o)' = Doomed(o)
    <3>1. op'[o].clear = op[o].clear /\ op'[o].kind = op[o].kind /\ op'[o].cfg = op[o].cfg
      BY <2>1, <2>2 DEF Same
    <3>2. ReusedPages(o)' = ReusedPages(o)
      BY <1>1, <3>1 DEF ReusedPages
    <3>3. Obsolete(o)' = Obsolete(o)
      BY <1>1, <3>1, <3>2 DEF Obsolete, RegisteredChunks, ChunkPages
    <3>4. QED
      BY <1>1, <3>1, <3>3 DEF Doomed
  <2>4. Wrote(o, r)'
    BY <1>6, <2>1 DEF Wrote, Material, Same
  <2>5. SafeAt(o, r)'
    BY <1>1, <1>3, <2>1, <2>3, <2>4 DEF SafeAt, ReplayAt, WorkAt, UndoAt, Replaying, Undoing, Committed,
       Same, Counts
  <2>6. QED
    BY <1>3, <1>6, <2>1, <2>5, SafeStep
<1>7. QED
  BY <1>5, <1>6 DEF CreateJournal

(* What the deletion leaves, the journal can put back.                     *)
LEMMA DeleteHistorySafe ==
    ASSUME NEW o \in Ops, Inv, CInv, Orderly, Safe, Only(o), DeleteHistory(o)
    PROVE  Safe'
<1>1. /\ op[o] \in OpStates /\ op[o].pc = "delete" /\ UNCHANGED <<sql, journal, sent>>
      /\ op[o].ack = {} /\ op[o].unc = {} /\ Wrote(o, op[o]) /\ op[o].jn = "bare"
      /\ Counts(sql, store) /\ sql = op[o].orig /\ store = op[o].snap
      /\ Counts(op[o].appl, store \ Doomed(o)) /\ Ground(Late(op[o])) /\ OwnsJournal(o)
  BY SafeFacts DEF DeleteHistory, LocalOk, Early, Uncommitted, MarksAt, SafeAt, WorkAt, streamVars,
     Inv, RowsDoNotMove
<1>2. Ground(FALSE)'
  <2>1. journal # None /\ journal.orig = sql
    <3>1. op[o].orig \in Sql
      BY <1>1 DEF Inv, Typed, TypeOK
    <3>2. journal \in Journals /\ journal.orig = sql
      BY <1>1, <3>1, MaterialType DEF OwnsJournal, Material
    <3>3. QED
      BY <3>2, AbsenceAssumption
  <2>2. QED
    BY <1>1, <2>1 DEF Ground, Standing, JournalStale, JournalSettled, JournalUnchanged
<1>3. ASSUME NEW pc \in {"record", "except"}
      PROVE  \E r : /\ r = [op[o] EXCEPT !.pc = pc, !.chg = TRUE]
                    /\ Same(o, r) /\ r.pc = pc /\ r.chg /\ r.jn = "bare" /\ ~Reached(r)
  <2>1. PICK r : r = [op[o] EXCEPT !.pc = pc, !.chg = TRUE]
    OBVIOUS
  <2>2. Same(o, r) /\ r.pc = pc /\ r.chg /\ r.jn = "bare" /\ ~Reached(r)
    BY <1>1, <2>1 DEF Same, OpStates, Reached
  <2>3. QED
    BY <2>1, <2>2
<1>4. CASE Become(o, [op[o] EXCEPT !.pc = "except", !.chg = TRUE]) /\ Fault
  <2>1. PICK r : /\ r = [op[o] EXCEPT !.pc = "except", !.chg = TRUE]
                 /\ Same(o, r) /\ r.pc = "except" /\ r.chg /\ r.jn = "bare" /\ ~Reached(r)
    BY <1>3
  <2>2. sql' = r.orig /\ Counts(r.orig, r.snap) /\ faults' # 0
    BY <1>1, <1>4, <2>1, FaultCounts DEF Same
  <2>3. QED
    BY <1>2, <1>4, <2>1, <2>2, ExceptSafe
<1>5. CASE Become(o, [op[o] EXCEPT !.pc = "record", !.chg = TRUE]) /\ store' = store \ Doomed(o)
  <2>1. PICK r : /\ r = [op[o] EXCEPT !.pc = "record", !.chg = TRUE]
                 /\ Same(o, r) /\ r.pc = "record" /\ r.chg /\ r.jn = "bare" /\ ~Reached(r)
    BY <1>3
  <2>2. Wrote(o, r)'
    BY <1>1, <2>1 DEF Wrote, Same
  <2>3. SafeAt(o, r)'
    BY <1>1, <1>5, <2>1, <2>2 DEF SafeAt, ReplayAt, WorkAt, UndoAt, Replaying, Undoing, Committed, Same
  <2>4. QED
    BY <1>2, <1>5, <2>1, <2>3, SafeStep
<1>6. QED
  BY <1>4, <1>5 DEF DeleteHistory

(* The journal knows the rows before they are committed.                   *)
LEMMA RecordAppliedSafe ==
    ASSUME NEW o \in Ops, Inv, CInv, Orderly, Safe, Only(o), RecordApplied(o)
    PROVE  Safe'
<1>1. /\ op[o] \in OpStates /\ op[o].pc = "record" /\ UNCHANGED <<sql, store, sent>> /\ op[o].chg
      /\ op[o].ack = {} /\ op[o].unc = {} /\ Wrote(o, op[o]) /\ OwnsJournal(o) /\ op[o].jn = "bare"
      /\ sql = op[o].orig /\ Counts(op[o].appl, store) /\ Counts(op[o].orig, op[o].snap)
  BY SafeFacts DEF RecordApplied, LocalOk, Early, Uncommitted, MarksAt, SafeAt, WorkAt, streamVars,
     Inv, RowsDoNotMove
<1>2. journal # None /\ journal' # None
  <2>1. op[o].orig \in Sql
    BY <1>1 DEF Inv, Typed, TypeOK
  <2>2. \A stage : Material(o, stage) # None
    BY <2>1, MaterialType, AbsenceAssumption
  <2>3. QED
    BY <1>1, <2>2 DEF OwnsJournal, RecordApplied
<1>3. /\ journal'.orig = sql /\ journal'.snap = op[o].snap
      /\ journal' \in {journal, Material(o, "full")}
  BY <1>1 DEF RecordApplied, Material, Wrote
<1>4. Ground(FALSE)'
  BY <1>1, <1>2, <1>3 DEF Ground, Standing, JournalStale, JournalSettled, JournalUnchanged
<1>5. CASE Goto(o, "except") /\ Fault
  <2>1. PICK r : Become(o, r) /\ Same(o, r) /\ r.pc = "except" /\ r.chg = op[o].chg
    BY <1>5, GotoSame DEF OpPcs
  <2>2. sql' = r.orig /\ Counts(r.orig, r.snap) /\ faults' # 0 /\ ~Reached(r) /\ r.chg
    BY <1>1, <1>5, <2>1, FaultCounts DEF Same, Reached
  <2>3. QED
    BY <1>4, <2>1, <2>2, ExceptSafe
<1>6. CASE Become(o, [op[o] EXCEPT !.pc = "commit", !.jn = "full"]) /\ journal' = Material(o, "full")
  <2>1. PICK r : r = [op[o] EXCEPT !.pc = "commit", !.jn = "full"]
    OBVIOUS
  <2>2. Same(o, r) /\ r.pc = "commit" /\ r.chg /\ r.jn = "full"
    BY <1>1, <2>1 DEF Same, OpStates
  <2>3. Wrote(o, r)'
    BY <1>6, <2>2 DEF Wrote, Same, Material
  <2>4. SafeAt(o, r)'
    BY <1>1, <2>2, <2>3 DEF SafeAt, ReplayAt, WorkAt, UndoAt, Replaying, Undoing, Committed, Same
  <2>5. QED
    BY <1>4, <1>6, <2>1, <2>4, SafeStep
<1>7. QED
  BY <1>1, <1>5, <1>6 DEF RecordApplied, Raise

(* Once the rows are committed they count the chunks.                      *)
LEMMA CommittedSafe ==
    ASSUME NEW o \in Ops, NEW r, Inv, CInv, Orderly, Safe, Only(o), Become(o, r),
           r.orig = op[o].orig, r.appl = op[o].appl, r.snap = op[o].snap, r.fl = op[o].fl,
           r.chg = op[o].chg, r.jn = op[o].jn,
           op[o].pc \in {"commit"} \cup Committed, r.pc \in Committed \cup {"except"},
           sql' = op[o].appl, UNCHANGED store,
           UNCHANGED journal \/ (r.pc = "except" /\ faults' # 0 /\ journal' = None),
           r.pc = "except" /\ faults' = 0 => ~Reached(r)
    PROVE  Safe'
<1>1. /\ MarksAt(op[o]) /\ WorkAt(o, op[o]) /\ Ground(Late(op[o])) /\ op[o].appl # None
      /\ op[o].chg \in BOOLEAN
  BY SafeFacts, AbsenceAssumption DEF SafeAt, KnowsAt, Planned, Committed, OpStates
<1>2. Counts(op[o].appl, store) /\ Counts(sql, store)' /\ sql' = r.appl
  BY <1>1 DEF WorkAt, Committed, Counts
<1>3. Ground(FALSE)'
  <2>1. journal' # None => Counts(journal'.orig, journal'.snap)
    BY <1>1 DEF Ground
  <2>2. QED
    BY <1>2, <2>1, GroundCounts
<1>4. IF r.chg THEN Counts(r.orig, r.snap) ELSE Counts(r.orig, store')
  BY <1>1 DEF WorkAt, Committed
<1>5. r.chg => Wrote(o, op[o]) /\ r.jn = "full"
  BY <1>1 DEF WorkAt, MarksAt, Committed
<1>6. r.chg /\ UNCHANGED journal => Wrote(o, r)' /\ r.jn = "full"
  BY <1>5 DEF Wrote
<1>7. CASE r.pc = "except"
  <2>1. Owned(r)'
    BY <1>1, <1>2 DEF Owned
  <2>2. QED
    BY <1>2, <1>3, <1>4, <1>6, <1>7, <2>1, ExceptSafe
<1>8. CASE r.pc \in Committed
  <2>1. UNCHANGED journal
    BY <1>8 DEF Committed
  <2>2. SafeAt(o, r)'
    BY <1>2, <1>4, <1>6, <1>8, <2>1 DEF SafeAt, ReplayAt, WorkAt, UndoAt, Replaying, Undoing, Committed, Counts
  <2>3. QED
    BY <1>3, <2>2, SafeStep
<1>9. QED
  BY <1>7, <1>8

(* The commit changes the rows to those that count what is left.           *)
LEMMA CommitSafe ==
    ASSUME NEW o \in Ops, Inv, CInv, Orderly, Safe, Only(o), Commit(o)
    PROVE  Safe'
<1>1. /\ op[o] \in OpStates /\ op[o].pc = "commit" /\ UNCHANGED <<store, journal, sent>>
      /\ op[o].ack = {} /\ op[o].unc = {} /\ sql = op[o].orig /\ WorkAt(o, op[o])
      /\ Ground(Late(op[o])) /\ op[o].chg \in BOOLEAN
  BY SafeFacts DEF Commit, LocalOk, Early, Uncommitted, SafeAt, streamVars, Inv, RowsDoNotMove, OpStates
<1>2. PICK pc \in {"requeue", "clear", "except"} :
        Goto(o, pc) /\ (sql' = op[o].appl \/ (pc = "except" /\ Fault /\ sql' = sql))
  BY DEF Commit
<1>3. PICK r : Become(o, r) /\ Same(o, r) /\ r.pc = pc /\ r.chg = op[o].chg /\ r.jn = op[o].jn
  BY <1>2, GotoSame DEF OpPcs
<1>4. CASE sql' = op[o].appl
  BY <1>1, <1>2, <1>3, <1>4, CommittedSafe DEF Same, Committed, Reached
<1>5. CASE pc = "except" /\ Fault /\ sql' = sql
  <2>1. sql' = r.orig /\ ~Reached(r) /\ faults' # 0
    BY <1>1, <1>3, <1>5, FaultCounts DEF Same, Reached
  <2>2. IF r.chg THEN Counts(r.orig, r.snap) ELSE Counts(r.orig, store')
    BY <1>1, <1>3 DEF Same, WorkAt
  <2>3. Ground(FALSE)'
    BY <1>1, <1>5, GroundStays DEF Late
  <2>4. QED
    BY <1>3, <1>5, <2>1, <2>2, <2>3, ExceptSafe
<1>6. QED
  BY <1>2, <1>4, <1>5

(* Enqueueing changes neither rows nor chunks.                             *)
LEMMA EnqueueSafe ==
    ASSUME NEW o \in Ops, Inv, CInv, Orderly, Safe, Only(o),
           Requeue(o) \/ Submit(o) \/ Submitted(o)
    PROVE  Safe'
<1>1. /\ op[o] \in OpStates /\ op[o].pc \in {"requeue", "submit"} /\ UNCHANGED <<sql, store, journal>>
      /\ sql' = op[o].appl
      /\ op[o].pc = "requeue" => ~Reached(op[o])
  BY SafeFacts DEF Requeue, Submit, Submitted, LocalOk, SafeAt, WorkAt, Committed, Reached
<1>2. CASE Requeue(o) \/ Submitted(o)
  <2>1. PICK pc \in {"clear", "except", "submit"} :
          Goto(o, pc) /\ (pc = "except" => op[o].pc = "requeue" \/ Fault)
    BY <1>2 DEF Requeue, Submitted
  <2>2. PICK r : Become(o, r) /\ Same(o, r) /\ r.pc = pc /\ r.chg = op[o].chg /\ r.jn = op[o].jn
    BY <2>1, GotoSame DEF OpPcs
  <2>3. r.pc = "except" /\ faults' = 0 => ~Reached(r)
    BY <1>1, <2>1, <2>2, FaultCounts DEF Same, Reached
  <2>4. r.pc \in Committed \cup {"except"} /\ op[o].pc \in {"commit"} \cup Committed
    BY <1>1, <2>2 DEF Committed
  <2>5. QED
    BY <1>1, <2>2, <2>3, <2>4, CommittedSafe DEF Same
<1>3. CASE Submit(o)
  <2> DEFINE Left(r) ==
               /\ r.orig = op[o].orig /\ r.appl = op[o].appl /\ r.snap = op[o].snap /\ r.fl = op[o].fl
               /\ r.chg = op[o].chg /\ r.jn = op[o].jn
  <2>1. PICK t :
          \/ Become(o, [op[o] EXCEPT !.ack = @ \cup {t}])
          \/ Fault /\ Become(o, [op[o] EXCEPT !.pc = "except"])
          \/ Fault /\ Become(o, [op[o] EXCEPT !.pc = "except", !.unc = {t}])
    BY <1>3 DEF Submit
  <2>2. op[o].pc = "submit"
    BY <1>3 DEF Submit
  <2>3. /\ Left([op[o] EXCEPT !.ack = @ \cup {t}])
        /\ [op[o] EXCEPT !.ack = @ \cup {t}].pc = "submit"
    BY <1>1, <2>2 DEF OpStates
  <2>4. Left([op[o] EXCEPT !.pc = "except"]) /\ [op[o] EXCEPT !.pc = "except"].pc = "except"
    BY <1>1 DEF OpStates
  <2>5. /\ Left([op[o] EXCEPT !.pc = "except", !.unc = {t}])
        /\ [op[o] EXCEPT !.pc = "except", !.unc = {t}].pc = "except"
    BY <1>1 DEF OpStates
  <2> HIDE DEF Left
  <2>6. PICK r : Become(o, r) /\ Left(r) /\ (r.pc = "submit" \/ (r.pc = "except" /\ Fault))
    BY <2>1, <2>3, <2>4, <2>5
  <2>7. r.pc = "except" => faults' # 0
    BY <2>6, FaultCounts
  <2>8. r.pc \in Committed \cup {"except"} /\ op[o].pc \in {"commit"} \cup Committed
    BY <1>1, <2>6 DEF Committed
  <2>9. QED
    BY <1>1, <2>6, <2>7, <2>8, CommittedSafe DEF Left
<1>4. QED
  BY <1>2, <1>3

(* The journal goes when the rows count the chunks.                        *)
LEMMA ClearJournalSafe ==
    ASSUME NEW o \in Ops, Inv, CInv, Orderly, Safe, Only(o), ClearJournal(o)
    PROVE  Safe'
<1>1. /\ op[o] \in OpStates /\ op[o].pc = "clear" /\ UNCHANGED <<sql, store, sent>>
      /\ sql' = op[o].appl /\ Counts(sql, store) /\ Ground(Late(op[o]))
      /\ op[o].jn # "none" => OwnsJournal(o)
  BY SafeFacts DEF ClearJournal, SafeAt, WorkAt, Committed, MarksAt, streamVars
<1>2. journal' \in {journal, None}
  BY DEF ClearJournal, ClearFails
<1>3. CASE Become(o, [op[o] EXCEPT !.pc = "closing", !.res = "ok"])
  <2>1. PICK r : r = [op[o] EXCEPT !.pc = "closing", !.res = "ok"]
    OBVIOUS
  <2>2. r.pc = "closing"
    BY <1>1, <2>1 DEF OpStates
  <2>3. Ground(FALSE)'
    <3>1. Counts(sql, store)'
      BY <1>1 DEF Counts
    <3>2. journal' # None => Counts(journal'.orig, journal'.snap)
      BY <1>1, <1>2 DEF Ground
    <3>3. QED
      BY <3>1, <3>2, GroundCounts
  <2>4. SafeAt(o, r)'
    BY <2>2 DEF SafeAt, ReplayAt, WorkAt, UndoAt, Replaying, Undoing, Committed
  <2>5. QED
    BY <1>3, <2>1, <2>3, <2>4, SafeStep
<1>4. CASE Goto(o, "except") /\ op[o].jn # "none" /\ ClearFails(o)
  <2>1. Fault
    BY <1>1, <1>4 DEF ClearFails, MayClear, Clearable, OwnsJournal
  <2>2. PICK r : Become(o, r) /\ Same(o, r) /\ r.pc = "except" /\ r.chg = op[o].chg /\ r.jn = op[o].jn
    BY <1>4, GotoSame DEF OpPcs
  <2>3. faults' # 0
    BY <2>1, FaultCounts
  <2>4. QED
    BY <1>1, <1>2, <2>2, <2>3, CommittedSafe DEF Same, Committed
<1>5. QED
  BY <1>3, <1>4 DEF ClearJournal

(* A request that leaves the exception handler leaves rows that count the  *)
(* chunks, unless its compensation has failed.                             *)
LEMMA LeaveSafe ==
    ASSUME NEW o \in Ops, NEW r, Inv, Safe, Only(o), Become(o, r),
           r.pc \in {"undoflags", "finalize", "closing"},
           \/ r.pc = "closing"
           \/ r.pc = "finalize" /\ r.failed /\ ~Reached(r)
           \/ Counts(sql, store)',
           Ground(FALSE)'
    PROVE  Safe'
<1>1. SafeAt(o, r)'
  BY DEF SafeAt, ReplayAt, WorkAt, UndoAt, Replaying, Undoing, Committed, Reached, Counts
<1>2. QED
  BY <1>1, SafeStep

(* A compensation that failed.                                             *)
LEMMA FailSafe ==
    ASSUME NEW o \in Ops, Inv, Safe, Only(o),
           Become(o, [op[o] EXCEPT !.pc = "finalize", !.failed = TRUE]),
           Reached(op[o]) => Counts(sql, store)', Ground(FALSE)'
    PROVE  Safe'
<1>1. PICK r : r = [op[o] EXCEPT !.pc = "finalize", !.failed = TRUE]
  OBVIOUS
<1>2. op[o] \in OpStates
  BY DEF Inv, Typed, TypeOK
<1>3. r.pc = "finalize" /\ r.failed /\ (Reached(r) => Reached(op[o]))
  BY <1>1, <1>2 DEF Reached, OpStates
<1>4. QED
  BY <1>1, <1>3, LeaveSafe

(* The rows of a partial submission stay, and so do the chunks; a request  *)
(* that acts alone finds its own rows or those it found before.            *)
LEMMA HandleSafe ==
    ASSUME NEW o \in Ops, Inv, CInv, Orderly, Safe, Only(o),
           KeepPartial(o) \/ Compensate(o) \/ YieldToLater(o) \/ CompensateBusy(o)
    PROVE  Safe'
<1>1. /\ op[o] \in OpStates /\ op[o].pc = "except" /\ Ground(Late(op[o]))
      /\ UndoAt(o, op[o]) /\ WorkAt(o, op[o])
      /\ Owned(op[o]) <=> OwnedSql(o)
      /\ Reached(op[o]) <=> Exposed(o) # {}
  BY SafeFacts DEF KeepPartial, Compensate, YieldToLater, CompensateBusy, SafeAt
<1>2. CASE KeepPartial(o)
  <2>1. Counts(sql, store) /\ UNCHANGED <<store, journal>>
    BY <1>1, <1>2 DEF KeepPartial, UndoAt
  <2>2. MarkUnsubmitted(o).num = sql.num
    BY DEF MarkUnsubmitted, Inv, Typed, TypeOK, Sql
  <2>3. Counts(sql, store)'
    BY <1>2, <2>1, <2>2 DEF KeepPartial, Counts
  <2>4. Ground(FALSE)'
    BY <1>1, <2>1, <2>3, GroundCounts DEF Ground
  <2>5. CASE Goto(o, "undoflags")
    <3>1. PICK r : Become(o, r) /\ r.pc = "undoflags"
      BY <2>5, GotoSame DEF OpPcs
    <3>2. QED
      BY <2>3, <2>4, <3>1, LeaveSafe
  <2>6. CASE Become(o, [op[o] EXCEPT !.pc = "finalize", !.failed = TRUE])
    BY <2>3, <2>4, <2>6, FailSafe
  <2>7. QED
    BY <1>2, <2>5, <2>6 DEF KeepPartial
<1>3. CASE Compensate(o)
  <2>1. PICK r : Become(o, r) /\ Same(o, r) /\ r.pc = "undo" /\ r.chg = op[o].chg /\ r.jn = op[o].jn
    BY <1>3, GotoSame DEF OpPcs, Compensate
  <2>2. UNCHANGED <<sql, store, journal, sent, faults>>
    BY <1>3 DEF Compensate, streamVars
  <2>3. Ground(FALSE)'
    BY <1>1, <2>2, GroundStays DEF Late
  <2>4. ~(Reached(op[o]) /\ Owned(op[o]))
    BY <1>1, <1>3 DEF Compensate
  <2>5. UndoAt(o, r)'
    BY <1>1, <2>1, <2>2, <2>4 DEF UndoAt, Undoing, Same, Owned, Reached, Wrote, Counts
  <2>6. WorkAt(o, r)'
    BY <1>1, <2>1, <2>2 DEF WorkAt, Committed, Same, Counts
  <2>7. SafeAt(o, r)'
    BY <2>1, <2>5, <2>6 DEF SafeAt, ReplayAt, Replaying
  <2>8. QED
    BY <2>1, <2>3, <2>7, SafeStep
<1>4. CASE YieldToLater(o)
  BY <1>1, <1>4 DEF YieldToLater, UnchangedSql, UndoAt, Undoing
<1>5. CASE CompensateBusy(o)
  <2>1. /\ UNCHANGED <<sql, store, journal, sent>>
        /\ Become(o, [op[o] EXCEPT !.pc = "finalize", !.failed = TRUE])
    BY <1>5 DEF CompensateBusy, streamVars
  <2>2. Reached(op[o]) => Counts(sql, store)'
    BY <1>1, <2>1 DEF UndoAt, Counts
  <2>3. Ground(FALSE)'
    BY <1>1, <2>1, GroundStays DEF Late
  <2>4. QED
    BY <2>1, <2>2, <2>3, FailSafe
<1>6. QED
  BY <1>2, <1>3, <1>4, <1>5

(* The rows of a compensation that has to put chunks back hold no work     *)
(* that a task has received.                                               *)
LEMMA Unsettled ==
    ASSUME NEW o \in Ops, Inv, CInv, Orderly, Safe, Only(o), op[o].pc = "undo", op[o].chg, Owned(op[o])
    PROVE  ~JournalSettled(journal)
<1>1. /\ LocalOk(o, op[o]) /\ MarksAt(op[o]) /\ \A p \in Pages : SentAt(o, op[o], <<o, p>>)
      /\ SafeAt(o, op[o])
  BY SafeFacts
<1>2. /\ op[o].appl # None /\ sql = op[o].appl /\ op[o].jn # "none" /\ ~AllDone(sql) /\ ~Reached(op[o])
  BY <1>1 DEF Owned, MarksAt, SafeAt, UndoAt, Undoing
<1>3. PlanFits(o, op[o].kind, op[o].clear, op[o].orig, sql) /\ (op[o].kind = "1" \/ op[o].clear)
  BY <1>1, <1>2 DEF LocalOk
<1>4. \A t \in Ids(sql) : t \notin sent
  <2>1. CASE op[o].kind = "1"
    <3>1. sql.gen = o
      BY <1>3, <2>1 DEF PlanFits
    <3>2. \A p \in Pages : <<o, p>> \notin sent
      BY <1>1, <1>2 DEF SentAt, Over, Reached
    <3>3. QED
      BY <3>1, <3>2 DEF Ids, Present
  <2>2. CASE op[o].kind # "1"
    <3>1. Present(sql) = {}
      BY <1>3, <2>2 DEF PlanFits, AllIn, Present
    <3>2. QED
      BY <3>1 DEF Ids
  <2>3. QED
    BY <2>1, <2>2
<1>5. ~RecoverySubmitted(sql)
  BY <1>2, <1>4 DEF RecoverySubmitted, AllDone
<1>6. QED
  BY <1>5 DEF JournalSettled, JournalOwned

(* The journal of a compensation returns to the rows it starts from.       *)
LEMMA WroteStands ==
    ASSUME NEW o \in Ops, Inv, CInv, Orderly, Safe, Only(o), op[o].pc = "undo",
           Wrote(o, op[o]), op[o].jn = "full"
    PROVE  Standing
<1>1. SafeAt(o, op[o]) /\ OwnsJournal(o) /\ op[o].orig \in Sql
  BY SafeFacts DEF KnowsAt, Begun
<1>2. journal # None
  BY <1>1, MaterialType, AbsenceAssumption DEF OwnsJournal
<1>3. journal.orig = op[o].orig /\ journal.appl = op[o].appl
  BY DEF Wrote
<1>4. sql = op[o].orig \/ Owned(op[o])
  BY <1>1 DEF SafeAt, UndoAt, Undoing
<1>5. QED
  BY <1>2, <1>3, <1>4 DEF Standing, JournalStale, JournalUnchanged, JournalOwned, Owned

(* The first call to fail is the last.                                     *)
LEMMA FirstFault == ASSUME Inv, Fault, faults' <= 1 PROVE faults = 0
  BY SizeAssumption DEF Inv, Typed, TypeOK, Fault

(* The chunks are put back while the journal stands.                       *)
LEMMA UndoStoreSafe ==
    ASSUME NEW o \in Ops, Inv, CInv, Orderly, Safe, Only(o), UndoStore(o), faults' <= 1
    PROVE  Safe'
<1>1. /\ op[o] \in OpStates /\ op[o].pc = "undo" /\ UNCHANGED <<sql, journal, sent>>
      /\ Ground(FALSE) /\ WorkAt(o, op[o]) /\ UndoAt(o, op[o]) /\ op[o].chg \in BOOLEAN
  BY SafeFacts DEF UndoStore, SafeAt, streamVars, Late, OpStates
<1>2. /\ journal' # None => Counts(journal'.orig, journal'.snap)
      /\ JournalSettled(journal)' <=> JournalSettled(journal)
      /\ Standing' <=> Standing
  BY <1>1 DEF Ground, JournalSettled, JournalOwned, JournalUnchanged, RecoverySubmitted, Standing,
     JournalStale
<1>3. op[o].chg /\ JournalSettled(journal) => sql = op[o].orig
  BY <1>1, Unsettled DEF UndoAt, Undoing
<1>4. op[o].chg /\ faults = 0 => Standing /\ ~Reached(op[o])
  BY <1>1, WroteStands DEF UndoAt, Undoing
<1>5. CASE Goto(o, "undosql") /\ store' = (IF op[o].chg THEN op[o].snap ELSE store) /\ UNCHANGED faults
  <2>1. PICK r : Become(o, r) /\ Same(o, r) /\ r.pc = "undosql" /\ r.chg = op[o].chg /\ r.jn = op[o].jn
    BY <1>5, GotoSame DEF OpPcs
  <2>2. Counts(op[o].orig, store')
    BY <1>1, <1>5 DEF WorkAt
  <2>3. UndoAt(o, r)'
    BY <1>1, <1>5, <2>1, <2>2 DEF UndoAt, Undoing, Same, Owned, Reached, Wrote, Counts
  <2>4. SafeAt(o, r)'
    BY <2>1, <2>3 DEF SafeAt, ReplayAt, WorkAt, Replaying, Committed
  <2>5. journal' # None /\ JournalSettled(journal)' => Counts(sql, store)'
    BY <1>1, <1>2, <1>3, <1>5, <2>2 DEF Ground, Counts
  <2>6. Counts(sql, store)' \/ Standing' \/ Late(r)'
    <3>1. CASE op[o].chg
      BY <1>2, <1>4, <1>5, <2>1, <3>1 DEF Late
    <3>2. CASE ~op[o].chg
      BY <1>1, <1>2, <1>5, <3>2 DEF Ground, Counts
    <3>3. QED
      BY <3>1, <3>2
  <2>7. Ground(Late(r))'
    BY <1>2, <2>5, <2>6 DEF Ground
  <2>8. QED
    BY <2>1, <2>4, <2>7, SafeStep
<1>6. CASE op[o].chg /\ Fault /\ Become(o, [op[o] EXCEPT !.pc = "finalize", !.failed = TRUE])
  <2>1. Standing /\ ~Reached(op[o]) /\ faults = 0
    BY <1>4, <1>6, FirstFault
  <2>2. ~JournalSettled(journal)
    <3>1. CASE sql = op[o].orig
      BY <1>1, <1>6, <2>1, <3>1 DEF UndoAt, Undoing, Wrote, JournalSettled, JournalUnchanged
    <3>2. CASE sql # op[o].orig
      BY <1>3, <1>6, <3>2
    <3>3. QED
      BY <3>1, <3>2
  <2>3. Ground(FALSE)'
    BY <1>2, <2>1, <2>2 DEF Ground
  <2>4. QED
    BY <1>6, <2>1, <2>3, FailSafe
<1>7. QED
  BY <1>5, <1>6 DEF UndoStore

(* Rows and flags follow.                                                  *)
LEMMA UndoSqlSafe ==
    ASSUME NEW o \in Ops, Inv, CInv, Orderly, Safe, Only(o), UndoSql(o) \/ UndoFlags(o), faults' <= 1
    PROVE  Safe'
<1>1. /\ op[o].pc \in {"undosql", "undoflags"} /\ UNCHANGED <<store, journal, sent>>
      /\ Ground(Late(op[o])) /\ UndoAt(o, op[o]) /\ (Owned(op[o]) <=> OwnedSql(o))
  BY SafeFacts DEF UndoSql, UndoFlags, SafeAt, streamVars
<1>2. journal' # None => Counts(journal'.orig, journal'.snap)
  BY <1>1 DEF Ground
<1>3. CASE UndoSql(o)
  <2>1. op[o].pc = "undosql" /\ Counts(op[o].orig, store')
    BY <1>1, <1>3 DEF UndoSql, UndoAt, Counts
  <2>2. sql' = op[o].orig => Counts(sql, store)' /\ Ground(FALSE)'
    BY <1>2, <2>1, GroundCounts DEF Counts
  <2>3. CASE Goto(o, "undoflags") /\ sql' = op[o].orig
    <3>1. PICK r : Become(o, r) /\ r.pc = "undoflags"
      BY <2>3, GotoSame DEF OpPcs
    <3>2. QED
      BY <2>2, <2>3, <3>1, LeaveSafe
  <2>4. CASE /\ OwnedSql(o) /\ Fault /\ sql' \in {sql, op[o].orig}
             /\ Become(o, [op[o] EXCEPT !.pc = "finalize", !.failed = TRUE])
    <3>1. ~Late(op[o])
      BY <2>4, FirstFault DEF Late
    <3>2. sql' = sql => Ground(FALSE)'
      <4>1. Ground(FALSE)
        BY <1>1, <3>1 DEF Ground
      <4>2. QED
        BY <1>1, <4>1, GroundStays
    <3>3. ~Reached(op[o])
      BY <1>1, <2>1, <2>4 DEF UndoAt
    <3>4. QED
      BY <2>2, <2>4, <3>2, <3>3, FailSafe
  <2>5. QED
    BY <1>3, <2>3, <2>4 DEF UndoSql
<1>4. CASE UndoFlags(o)
  <2>1. Counts(sql, store)' /\ Ground(FALSE)'
    <3>1. Counts(sql, store)'
      BY <1>1, <1>4 DEF UndoFlags, UndoAt, Counts
    <3>2. QED
      BY <1>2, <3>1, GroundCounts
  <2>2. CASE Goto(o, "finalize")
    <3>1. PICK r : Become(o, r) /\ r.pc = "finalize"
      BY <2>2, GotoSame DEF OpPcs
    <3>2. QED
      BY <2>1, <3>1, LeaveSafe
  <2>3. CASE Become(o, [op[o] EXCEPT !.pc = "finalize", !.failed = TRUE])
    BY <2>1, <2>3, FailSafe
  <2>4. QED
    BY <1>4, <2>2, <2>3 DEF UndoFlags
<1>5. QED
  BY <1>3, <1>4

(* A journal that is still needed is kept.                                 *)
LEMMA FinalizeSafe ==
    ASSUME NEW o \in Ops, Inv, CInv, Orderly, Safe, Only(o), Finalize(o)
    PROVE  Safe'
<1>1. /\ op[o] \in OpStates /\ op[o].pc = "finalize" /\ UNCHANGED <<sql, store, sent>>
      /\ Ground(FALSE) /\ UndoAt(o, op[o]) /\ (Reached(op[o]) <=> Exposed(o) # {})
      /\ journal \in Journals \cup {None}
  BY SafeFacts DEF Finalize, SafeAt, streamVars, Late, Inv, Typed, TypeOK
<1>2. journal' \in {journal, FinalJournal(o)}
  BY DEF Finalize
<1>3. Ground(FALSE)'
  <2>1. CASE journal' = journal
    BY <1>1, <2>1, GroundStays
  <2>2. CASE journal' = None /\ ~KeepsJournal(o)
    <3>1. Counts(sql, store)'
      BY <1>1, <2>2 DEF KeepsJournal, UndoAt, Counts
    <3>2. QED
      BY <2>2, <3>1, GroundCounts
  <2>3. CASE OwnsJournal(o) /\ journal' = [journal EXCEPT !.phase = "failed"]
    <3>1. journal \in Journals
      BY <1>1, <2>3, MaterialType, SafeFacts, AbsenceAssumption DEF OwnsJournal, KnowsAt, Begun
    <3>2. /\ journal'.orig = journal.orig /\ journal'.appl = journal.appl
          /\ journal'.snap = journal.snap /\ journal' \in Journals
      BY <2>3, <3>1 DEF Journals
    <3>3. journal # None /\ journal' # None
      BY <3>1, <3>2, AbsenceAssumption
    <3>4. QED
      BY <1>1, <3>2, <3>3 DEF Ground, Standing, JournalStale, JournalSettled, JournalOwned,
         JournalUnchanged, RecoverySubmitted, Counts
  <2>4. QED
    BY <1>2, <2>1, <2>2, <2>3 DEF FinalJournal
<1>4. \E res : Become(o, [op[o] EXCEPT !.pc = "closing", !.res = res])
  BY DEF Finalize
<1>5. PICK res : Become(o, [op[o] EXCEPT !.pc = "closing", !.res = res])
  BY <1>4
<1>6. PICK r : r = [op[o] EXCEPT !.pc = "closing", !.res = res]
  OBVIOUS
<1>7. r.pc = "closing"
  BY <1>1, <1>6 DEF OpStates
<1>8. QED
  BY <1>3, <1>5, <1>6, <1>7, LeaveSafe

(* Ending, by closing or by a crash, leaves the document as it is.         *)
LEMMA OverSafe ==
    ASSUME NEW o \in Ops, Inv, CInv, Orderly, Safe, Only(o),
           Close(o) \/ (CrashOp(o) /\ OneKindOfFailure)
    PROVE  Safe'
<1>1. UNCHANGED <<sql, store, journal, sent>> /\ Ground(Late(op[o]))
  BY SafeFacts DEF Close, CrashOp, streamVars
<1>2. ~Late(op[o])
  <2>1. CASE Close(o)
    BY <2>1 DEF Close, Late
  <2>2. CASE CrashOp(o) /\ OneKindOfFailure
    BY <2>2, SizeAssumption DEF CrashOp, OneKindOfFailure, Late, Inv, Typed, TypeOK
  <2>3. QED
    BY <2>1, <2>2
<1>3. Ground(FALSE)'
  <2>1. Ground(FALSE)
    BY <1>1, <1>2 DEF Ground
  <2>2. QED
    BY <1>1, <2>1, GroundStays
<1>4. CASE Close(o)
  <2>1. Become(o, Ended(o, "done", op[o].res)) /\ "done" \in Over
    BY <1>4 DEF Close, Over
  <2>2. QED
    BY <1>3, <2>1, EndSafe
<1>5. CASE CrashOp(o)
  <2>1. Become(o, Ended(o, "dead", "none")) /\ "dead" \in Over
    BY <1>5 DEF CrashOp, Over
  <2>2. QED
    BY <1>3, <2>1, EndSafe
<1>6. QED
  BY <1>4, <1>5

(* Every step of a request that acts alone, when at most one call fails.   *)
LEMMA StepSafe ==
    ASSUME NEW o \in Ops, Inv, CInv, Orderly, Safe, Only(o), faults' <= 1, OneKindOfFailure,
           OpStep(o) \/ CrashOp(o)
    PROVE  Safe'
  BY LookSafe, SkipJournalSafe, ReplaySafe, BeginSafe, PlanSafe, CreateJournalSafe, DeleteHistorySafe,
     RecordAppliedSafe, CommitSafe, EnqueueSafe, ClearJournalSafe, HandleSafe, UndoStoreSafe,
     UndoSqlSafe, FinalizeSafe, OverSafe DEF OpStep

(* Initially the rows count the chunks, and there is no journal.           *)
LEMMA InitSafe == ASSUME Init PROVE Safe
<1>1. PICK cfg \in Cfgs : op = [x \in Ops |-> NewOp(cfg)]
  BY DEF Init
<1>2. \A x \in Ops : op[x].pc = "idle"
  BY <1>1 DEF NewOp
<1>3. \A x \in Ops : SafeAt(x, op[x])
  BY <1>2 DEF SafeAt, ReplayAt, WorkAt, UndoAt, Replaying, Committed, Undoing
<1>4. Counts(sql, store) /\ journal = None
  BY InitConsistent DEF Consistent, Counts, Init
<1>5. QED
  BY <1>3, <1>4 DEF Safe, Ground

(* A second failing call may break what the first left.                    *)
SafeWhile == faults <= 1 => Safe

(***************************************************************************)
(* Requests one after another keep what makes the history recoverable,     *)
(* when at most one call fails and nobody crashes, or when no call fails,  *)
(* however often servers crash.                                            *)
(***************************************************************************)
THEOREM SafeHolds == SequentialSpec => []SafeWhile
<1>1. Init => SafeWhile
  BY InitSafe DEF SafeWhile
<1>2. Inv /\ Inv' /\ CInv /\ Orderly /\ SafeWhile /\ [SequentialNext]_vars => SafeWhile'
  <2> SUFFICES ASSUME Inv, Inv', CInv, Orderly, SafeWhile, [SequentialNext]_vars, faults' <= 1
               PROVE  Safe'
    BY DEF SafeWhile
  <2>1. CASE SequentialNext
    <3>1. PICK o \in Ops : Only(o) /\ (OpStep(o) \/ CrashOp(o)) /\ OneKindOfFailure
      BY <2>1 DEF SequentialNext, Only
    <3>2. UNCHANGED faults \/ Fault
      BY <3>1, FaultsGrow DEF CrashOp
    <3>3. faults <= 1
      BY <3>2, SizeAssumption DEF Inv, Typed, TypeOK, Fault
    <3>4. QED
      BY <3>1, <3>3, StepSafe DEF SafeWhile
  <2>2. CASE UNCHANGED vars
    <3>1. UNCHANGED <<sql, store, journal, sent, op, faults>>
      BY <2>2 DEF vars
    <3>2. ASSUME NEW x \in Ops, SafeAt(x, op[x]) PROVE SafeAt(x, op[x])'
      BY <3>1, <3>2 DEF SafeAt, ReplayAt, WorkAt, UndoAt, Counts, Wrote, Owned, Reached, Doomed,
         Obsolete, ReusedPages
    <3>3. Ground(\E x \in Ops : Late(op[x])) => Ground(\E x \in Ops : Late(op[x]))'
      BY <3>1 DEF Ground, Late, Standing, JournalStale, JournalSettled, JournalOwned,
         JournalUnchanged, RecoverySubmitted, Counts
    <3>4. QED
      BY <3>1, <3>2, <3>3 DEF SafeWhile, Safe
  <2>3. QED
    BY <2>1, <2>2
<1>3. SequentialSpec => []Inv /\ []CInv
  BY SequentialRefines, InvHolds, CancelInvHolds, PTL
<1>4. QED
  BY <1>1, <1>2, <1>3, OrderlyHolds, PTL DEF SequentialSpec

(***************************************************************************)
(* Whenever nobody holds the document and its rows do not count its        *)
(* chunks, a journal is left that still applies, so that the next request  *)
(* can put the history back (_recover_history).                            *)
(***************************************************************************)
THEOREM RecoverableHolds == SequentialSpec => [](faults <= 1 => HistoryRecoverable)
<1>1. Inv /\ SafeWhile => (faults <= 1 => HistoryRecoverable)
  <2> SUFFICES ASSUME Inv, Safe, lock = None, LedgerDiffers PROVE journal # None /\ ~JournalStale(journal)
    BY DEF SafeWhile, HistoryRecoverable
  <2>1. \A x \in Ops : ~Late(op[x])
    BY PartiesAssumption DEF Late, Inv, LocksHeld, OpLocks
  <2>2. QED
    BY <2>1 DEF Safe, Ground, Counts, Standing, LedgerDiffers
<1>2. SequentialSpec => []Inv
  BY SequentialRefines, InvHolds, PTL
<1>3. QED
  BY <1>1, <1>2, SafeHolds, PTL

-----------------------------------------------------------------------------
(* A start that no other request has followed *)

(* Where an executor has asked for the row of its task. *)
Passed == {"check", "report", "write", "insert", "prepare", "native", "register", "ready",
           "count", "end", "ack"}
Pending == unread \cup UNION {pel[w] : w \in Workers}

(* Messages come from the stream, and nothing is there before it is sent.  *)
StreamInv ==
    /\ unread \subseteq sent
    /\ \A w \in Workers : /\ pel[w] \subseteq sent /\ wk[w].replay \subseteq sent
                          /\ wk[w].pc \notin {"idle", "down"} => wk[w].t \in sent
    /\ \A x \in Ops : op[x].pc \in Unsent => \A p \in Pages : <<x, p>> \notin sent

(* A task that waits keeps its message, and no executor is past the row.   *)
Queued(x, p) == sql.gen = x /\ sql.row[p].st = "queued"
WaitsAt(x, r) ==
    /\ r.pc \in Begun => r.orig.gen # x
    /\ r.pc = "submit" => r.ack \subseteq sent
    /\ r.res = "ok" => r.pc \in {"closing", "done"}
    /\ \A p \in Pages : Queued(x, p) =>
         /\ <<x, p>> \in sent => <<x, p>> \in Pending
         /\ \A w \in Workers : wk[w].pc \in Passed => wk[w].t # <<x, p>>
         /\ r.pc = "clear" \/ r.res = "ok" => <<x, p>> \in sent
WaitInv == StreamInv /\ \A x \in Ops : ~Met(x) => WaitsAt(x, op[x])

(* The columns of a request that the proofs ask for most.                  *)
LEMMA Columns == ASSUME NEW x \in OpStates PROVE {"pc", "orig", "res"} \subseteq DOMAIN x
  BY DEF OpStates

(* Where a request that ends is.                                           *)
LEMMA EndsAt == \A o, pc, res : Ended(o, pc, res).pc = pc
<1> TAKE o, pc, res
<1>1. PICK n : n = NewOp(op[o].cfg)
  OBVIOUS
<1>2. {"pc", "res", "fl"} \subseteq DOMAIN n
  BY <1>1 DEF NewOp
<1>3. QED
  BY <1>1, <1>2 DEF Ended

(* A request looks at the rows only once, and enqueues only once.          *)
Onward == {"submit", "clear", "except", "undo", "undosql", "undoflags", "finalize", "closing"} \cup Over
PcMoves(o) ==
    \/ op'[o].pc = "locking" /\ Preflight(o)
    \/ op'[o].pc \notin {"idle", "locking"} /\ op[o].pc \in Unsent
    \/ op'[o].pc \in Onward /\ (op[o].pc \notin {"closing", "done"} \/ op'[o].pc \in Over)

(* A request that passes the locks was not yet past enqueueing, or goes on. *)
LEMMA StepMoves == ASSUME NEW o \in Ops, Inv, OpStep(o) \/ CrashOp(o) PROVE PcMoves(o)
<1>1. op \in [Ops -> OpStates] /\ op[o] \in OpStates
  BY DEF Inv, Typed, TypeOK
<1>2. /\ {"pc", "orig", "res"} \subseteq DOMAIN op[o]
      /\ Ended(o, "done", "refused").pc = "done" /\ Ended(o, "done", "ok").pc = "done"
      /\ Ended(o, "done", op[o].res).pc = "done" /\ Ended(o, "dead", "none").pc = "dead"
  BY <1>1, Columns, EndsAt
<1> USE DEF Goto
<1>3. CASE Preflight(o)
  BY <1>1, <1>2, <1>3 DEF Become, Preflight, PcMoves, Unsent, Early, Selecting, Replaying, Uncommitted
<1>4. CASE LockRows(o)
  <2>1. op'[o].pc \in {"loading", "done"}
    BY <1>1, <1>2, <1>4 DEF Become, LockRows
  <2>2. op[o].pc \in Unsent
    BY <1>4 DEF LockRows, Unsent, Early, Selecting
  <2>3. QED
    BY <2>1, <2>2 DEF PcMoves
<1>5. CASE LoadJournal(o)
  BY <1>1, <1>2, <1>5 DEF Become, LoadJournal, PcMoves, Unsent, Early, Selecting, Replaying, Uncommitted
<1>6. CASE SkipJournal(o)
  BY <1>1, <1>2, <1>6 DEF Become, SkipJournal, Refuse, PcMoves, Unsent, Early, Selecting, Replaying, Uncommitted
<1>7. CASE ReplayHistory(o)
  BY <1>1, <1>2, <1>7 DEF Become, ReplayHistory, Refuse, PcMoves, Unsent, Early, Selecting, Replaying, Uncommitted
<1>8. CASE ReplayCommit(o)
  BY <1>1, <1>2, <1>8 DEF Become, ReplayCommit, PcMoves, Unsent, Early, Selecting, Replaying, Uncommitted
<1>9. CASE ReplayRelock(o)
  BY <1>1, <1>2, <1>9 DEF Become, ReplayRelock, PcMoves, Unsent, Early, Selecting, Replaying, Uncommitted
<1>10. CASE Begin(o)
  BY <1>1, <1>2, <1>10 DEF Become, Begin, PcMoves, Unsent, Early, Selecting, Replaying, Uncommitted
<1>11. CASE Plan(o)
  <2>1. op'[o].pc \in {"journal", "commit", "delete", "record", "requeue", "except", "clear", "submit", "done"}
    <3>1. ASSUME NEW pc \in {"journal", "commit"}, NEW snap,
                 Become(o, [op[o] EXCEPT !.pc = pc, !.snap = snap, !.appl = Applied(o)])
          PROVE  op'[o].pc = pc
      BY <1>1, <1>2, <3>1 DEF Become
    <3>2. Goto(o, "except") => op'[o].pc = "except"
      BY <1>1, <1>2 DEF Become
    <3>3. Become(o, Ended(o, "done", "ok")) => op'[o].pc = "done"
      BY <1>1, <1>2 DEF Become
    <3>4. QED
      BY <1>11, <3>1, <3>2, <3>3 DEF Plan, Raise
  <2>2. op[o].pc \in Unsent
    BY <1>11 DEF Plan, Unsent, Early, Selecting, Replaying, Uncommitted
  <2>3. QED
    BY <2>1, <2>2 DEF PcMoves
<1>12. CASE CreateJournal(o)
  <2>1. op'[o].pc \in {"journal", "commit", "delete", "record", "requeue", "except", "clear", "submit", "done"}
    BY <1>1, <1>2, <1>12 DEF Become, CreateJournal
  <2>2. op[o].pc \in Unsent
    BY <1>12 DEF CreateJournal, Unsent, Early, Selecting, Replaying, Uncommitted
  <2>3. QED
    BY <2>1, <2>2 DEF PcMoves
<1>13. CASE DeleteHistory(o)
  <2>1. op'[o].pc \in {"journal", "commit", "delete", "record", "requeue", "except", "clear", "submit", "done"}
    BY <1>1, <1>2, <1>13 DEF Become, DeleteHistory
  <2>2. op[o].pc \in Unsent
    BY <1>13 DEF DeleteHistory, Unsent, Early, Selecting, Replaying, Uncommitted
  <2>3. QED
    BY <2>1, <2>2 DEF PcMoves
<1>14. CASE RecordApplied(o)
  <2>1. op'[o].pc \in {"journal", "commit", "delete", "record", "requeue", "except", "clear", "submit", "done"}
    BY <1>1, <1>2, <1>14 DEF Become, RecordApplied, Raise
  <2>2. op[o].pc \in Unsent
    BY <1>14 DEF RecordApplied, Unsent, Early, Selecting, Replaying, Uncommitted
  <2>3. QED
    BY <2>1, <2>2 DEF PcMoves
<1>15. CASE Commit(o)
  <2>1. op'[o].pc \in {"journal", "commit", "delete", "record", "requeue", "except", "clear", "submit", "done"}
    BY <1>1, <1>2, <1>15 DEF Become, Commit
  <2>2. op[o].pc \in Unsent
    BY <1>15 DEF Commit, Unsent, Early, Selecting, Replaying, Uncommitted
  <2>3. QED
    BY <2>1, <2>2 DEF PcMoves
<1>16. CASE Requeue(o)
  <2>1. op'[o].pc \in {"journal", "commit", "delete", "record", "requeue", "except", "clear", "submit", "done"}
    BY <1>1, <1>2, <1>16 DEF Become, Requeue
  <2>2. op[o].pc \in Unsent
    BY <1>16 DEF Requeue, Unsent, Early, Selecting, Replaying, Uncommitted
  <2>3. QED
    BY <2>1, <2>2 DEF PcMoves
<1>17. CASE Submit(o)
  <2>1. op'[o].pc \in Onward /\ (op[o].pc \notin {"closing", "done"} \/ op'[o].pc \in Over)
    BY <1>1, <1>2, <1>17 DEF Become, Submit, Onward, Over
  <2>2. QED
    BY <2>1 DEF PcMoves
<1>18. CASE Submitted(o)
  <2>1. op'[o].pc \in Onward /\ (op[o].pc \notin {"closing", "done"} \/ op'[o].pc \in Over)
    BY <1>1, <1>2, <1>18 DEF Become, Submitted, Onward, Over
  <2>2. QED
    BY <2>1 DEF PcMoves
<1>19. CASE ClearJournal(o)
  <2>1. op'[o].pc \in Onward /\ (op[o].pc \notin {"closing", "done"} \/ op'[o].pc \in Over)
    BY <1>1, <1>2, <1>19 DEF Become, ClearJournal, Onward, Over
  <2>2. QED
    BY <2>1 DEF PcMoves
<1>20. CASE KeepPartial(o)
  <2>1. op'[o].pc \in Onward /\ (op[o].pc \notin {"closing", "done"} \/ op'[o].pc \in Over)
    BY <1>1, <1>2, <1>20 DEF Become, KeepPartial, Onward, Over
  <2>2. QED
    BY <2>1 DEF PcMoves
<1>21. CASE Compensate(o)
  <2>1. op'[o].pc \in Onward /\ (op[o].pc \notin {"closing", "done"} \/ op'[o].pc \in Over)
    BY <1>1, <1>2, <1>21 DEF Become, Compensate, Onward, Over
  <2>2. QED
    BY <2>1 DEF PcMoves
<1>22. CASE YieldToLater(o)
  <2>1. op'[o].pc \in Onward /\ (op[o].pc \notin {"closing", "done"} \/ op'[o].pc \in Over)
    BY <1>1, <1>2, <1>22 DEF Become, YieldToLater, Onward, Over
  <2>2. QED
    BY <2>1 DEF PcMoves
<1>23. CASE CompensateBusy(o)
  <2>1. op'[o].pc \in Onward /\ (op[o].pc \notin {"closing", "done"} \/ op'[o].pc \in Over)
    BY <1>1, <1>2, <1>23 DEF Become, CompensateBusy, Onward, Over
  <2>2. QED
    BY <2>1 DEF PcMoves
<1>24. CASE UndoStore(o)
  <2>1. op'[o].pc \in Onward /\ (op[o].pc \notin {"closing", "done"} \/ op'[o].pc \in Over)
    BY <1>1, <1>2, <1>24 DEF Become, UndoStore, Onward, Over
  <2>2. QED
    BY <2>1 DEF PcMoves
<1>25. CASE UndoSql(o)
  <2>1. op'[o].pc \in Onward /\ (op[o].pc \notin {"closing", "done"} \/ op'[o].pc \in Over)
    BY <1>1, <1>2, <1>25 DEF Become, UndoSql, Onward, Over
  <2>2. QED
    BY <2>1 DEF PcMoves
<1>26. CASE UndoFlags(o)
  <2>1. op'[o].pc \in Onward /\ (op[o].pc \notin {"closing", "done"} \/ op'[o].pc \in Over)
    BY <1>1, <1>2, <1>26 DEF Become, UndoFlags, Onward, Over
  <2>2. QED
    BY <2>1 DEF PcMoves
<1>27. CASE Finalize(o)
  <2>1. op'[o].pc \in Onward /\ (op[o].pc \notin {"closing", "done"} \/ op'[o].pc \in Over)
    BY <1>1, <1>2, <1>27 DEF Become, Finalize, Onward, Over
  <2>2. QED
    BY <2>1 DEF PcMoves
<1>28. CASE Close(o)
  <2>1. op'[o].pc \in Onward /\ (op[o].pc \notin {"closing", "done"} \/ op'[o].pc \in Over)
    BY <1>1, <1>2, <1>28 DEF Become, Close, Onward, Over
  <2>2. QED
    BY <2>1 DEF PcMoves
<1>29. CASE CrashOp(o)
  <2>1. op'[o].pc \in Onward /\ (op[o].pc \notin {"closing", "done"} \/ op'[o].pc \in Over)
    BY <1>1, <1>2, <1>29 DEF Become, CrashOp, Onward, Over
  <2>2. QED
    BY <2>1 DEF PcMoves
<1>30. QED
  BY <1>3, <1>4, <1>5, <1>6, <1>7, <1>8, <1>9, <1>10, <1>11, <1>12, <1>13, <1>14, <1>15, <1>16, <1>17, <1>18, <1>19, <1>20, <1>21, <1>22, <1>23, <1>24, <1>25, <1>26, <1>27, <1>28, <1>29 DEF OpStep

(* What a request does to the streams and to the rows.                     *)
LEMMA StepShares ==
    ASSUME NEW o \in Ops, OpStep(o) \/ CrashOp(o)
    PROVE  /\ UNCHANGED <<pel, wk>>
           /\ UNCHANGED <<sent, unread>> \/ Submit(o)
           /\ UNCHANGED sql \/ ReplayCommit(o) \/ Commit(o) \/ KeepPartial(o) \/ UndoSql(o)
<1> USE DEF workerVars, streamVars
<1>1. CASE Preflight(o) \/ LockRows(o) \/ LoadJournal(o) \/ SkipJournal(o) \/ ReplayHistory(o)
  BY <1>1 DEF Preflight, LockRows, LoadJournal, SkipJournal, ReplayHistory
<1>2. CASE ReplayCommit(o) \/ ReplayRelock(o) \/ Begin(o) \/ Plan(o) \/ CreateJournal(o)
  BY <1>2 DEF ReplayCommit, ReplayRelock, Begin, Plan, CreateJournal
<1>3. CASE DeleteHistory(o) \/ RecordApplied(o) \/ Commit(o) \/ Requeue(o) \/ Submit(o) \/ Submitted(o)
  BY <1>3 DEF DeleteHistory, RecordApplied, Commit, Requeue, Submit, Submitted
<1>4. CASE ClearJournal(o) \/ KeepPartial(o) \/ Compensate(o) \/ YieldToLater(o) \/ CompensateBusy(o)
  BY <1>4 DEF ClearJournal, KeepPartial, Compensate, YieldToLater, CompensateBusy
<1>5. CASE UndoStore(o) \/ UndoSql(o) \/ UndoFlags(o) \/ Finalize(o) \/ Close(o) \/ CrashOp(o)
  BY <1>5 DEF UndoStore, UndoSql, UndoFlags, Finalize, Close, CrashOp
<1>6. QED
  BY <1>1, <1>2, <1>3, <1>4, <1>5 DEF OpStep

(* It is the only one to move.                                             *)
LEMMA StepBecomes ==
    ASSUME NEW o \in Ops, Inv, OpStep(o) \/ CrashOp(o)
    PROVE  \A x \in Ops \ {o} : op'[x] = op[x]
<1>1. ASSUME NEW r, Become(o, r) PROVE \A x \in Ops \ {o} : op'[x] = op[x]
  BY <1>1 DEF Become, Inv, Typed, TypeOK
<1> USE DEF Goto
<1>2. CASE Preflight(o) \/ LockRows(o) \/ LoadJournal(o) \/ SkipJournal(o) \/ ReplayHistory(o)
  BY <1>1, <1>2 DEF Preflight, LockRows, LoadJournal, SkipJournal, ReplayHistory, Refuse
<1>3. CASE ReplayCommit(o) \/ ReplayRelock(o) \/ Begin(o) \/ Plan(o) \/ CreateJournal(o)
  BY <1>1, <1>3 DEF ReplayCommit, ReplayRelock, Begin, Plan, CreateJournal, Raise
<1>4. CASE DeleteHistory(o) \/ RecordApplied(o) \/ Commit(o) \/ Requeue(o) \/ Submit(o) \/ Submitted(o)
  BY <1>1, <1>4 DEF DeleteHistory, RecordApplied, Commit, Requeue, Submit, Submitted, Raise
<1>5. CASE ClearJournal(o) \/ KeepPartial(o) \/ Compensate(o) \/ YieldToLater(o) \/ CompensateBusy(o)
  BY <1>1, <1>5 DEF ClearJournal, KeepPartial, Compensate, YieldToLater, CompensateBusy
<1>6. CASE UndoStore(o) \/ UndoSql(o) \/ UndoFlags(o) \/ Finalize(o) \/ Close(o) \/ CrashOp(o)
  BY <1>1, <1>6 DEF UndoStore, UndoSql, UndoFlags, Finalize, Close, CrashOp
<1>7. QED
  BY <1>2, <1>3, <1>4, <1>5, <1>6 DEF OpStep

(* What a request keeps of the rows it found, and when it answers.         *)
KeepsFound(o, r) ==
    /\ r.pc \in Begun => \/ r.orig = op[o].orig /\ op[o].pc \in Begun
                         \/ r.orig = sql /\ op[o].pc = "begin"
    /\ r.res = "ok" => r.res = op[o].res \/ op[o].pc \in {"plan", "clear"}
    /\ r.res = op[o].res \/ r.pc \in {"closing"} \cup Over
    /\ r.pc = "dead" => r.res # "ok"
    /\ r.pc = "submit" => Requeue(o) \/ Submit(o)
    /\ r.pc = "clear" => Commit(o) \/ Submitted(o)

(* A request that ends, or has not begun, keeps nothing.                   *)
LEMMA EndKeeps ==
    ASSUME NEW o \in Ops, NEW pc \in Over, NEW res,
           res = "ok" => pc # "dead" /\ (res = op[o].res \/ op[o].pc \in {"plan", "clear"})
    PROVE  KeepsFound(o, Ended(o, pc, res))
<1>1. PICK r : r = Ended(o, pc, res)
  OBVIOUS
<1>2. r.pc = pc /\ r.res = res
  BY <1>1 DEF Ended, NewOp
<1>3. QED
  BY <1>1, <1>2 DEF KeepsFound, Begun, Planned, Over

(* One that goes on keeps the rows it found.                               *)
LEMMA GoKeeps ==
    ASSUME NEW o \in Ops, NEW r, r.res = op[o].res, r.pc \notin {"submit", "clear", "dead"},
           r.pc \in Selecting \/ (r.orig = op[o].orig /\ op[o].pc \in Begun)
    PROVE  KeepsFound(o, r)
  BY DEF KeepsFound, Begun, Planned, Selecting, Replaying

(* Every step.                                                             *)
LEMMA StepKeeps == ASSUME NEW o \in Ops, Inv, OpStep(o) \/ CrashOp(o) PROVE KeepsFound(o, op'[o])
<1>1. op \in [Ops -> OpStates] /\ op[o] \in OpStates
  BY DEF Inv, Typed, TypeOK
<1>2. /\ {"pc", "orig", "res"} \subseteq DOMAIN op[o]
      /\ Ended(o, "done", "refused").pc = "done" /\ Ended(o, "done", "ok").pc = "done"
      /\ Ended(o, "done", op[o].res).pc = "done" /\ Ended(o, "dead", "none").pc = "dead"
  BY <1>1, Columns, EndsAt
<1> DEFINE Goes(S) == op'[o].pc \in S /\ op'[o].orig = op[o].orig /\ op'[o].res = op[o].res
<1>3. CASE Preflight(o)
  <2>1. Goes({"locking"})
    <3>1. PICK kind, clear, cfg :
            Become(o, [op[o] EXCEPT !.pc = "locking", !.kind = kind, !.clear = clear,
                                    !.cfg = cfg, !.rev = sql.rev, !.sel = Ids(sql)])
      BY <1>3 DEF Preflight
    <3>2. op'[o] = [op[o] EXCEPT !.pc = "locking", !.kind = kind, !.clear = clear,
                                 !.cfg = cfg, !.rev = sql.rev, !.sel = Ids(sql)]
      BY <1>1, <3>1 DEF Become
    <3>3. QED
      BY <1>2, <3>2
  <2>2. QED
    BY <2>1, GoKeeps, EndKeeps DEF Selecting, Replaying, Over
<1>4. CASE LockRows(o)
  <2>1. Goes({"loading"}) \/ op'[o] = Ended(o, "done", "refused")
    BY <1>1, <1>2, <1>4 DEF Become, LockRows, Goto
  <2>2. QED
    BY <2>1, GoKeeps, EndKeeps DEF Selecting, Replaying, Over
<1>5. CASE LoadJournal(o)
  <2>1. Goes({"begin", "recover"})
    BY <1>1, <1>2, <1>5 DEF Become, LoadJournal, Goto
  <2>2. QED
    BY <2>1, GoKeeps, EndKeeps DEF Selecting, Replaying, Over
<1>6. CASE SkipJournal(o)
  <2>1. Goes({"begin"}) \/ op'[o] = Ended(o, "done", "refused")
    BY <1>1, <1>2, <1>6 DEF Become, SkipJournal, Goto, Refuse
  <2>2. QED
    BY <2>1, GoKeeps, EndKeeps DEF Selecting, Replaying, Over
<1>7. CASE ReplayHistory(o)
  <2>1. Goes({"recommit"}) \/ op'[o] = Ended(o, "done", "refused")
    BY <1>1, <1>2, <1>7 DEF Become, ReplayHistory, Goto, Refuse
  <2>2. QED
    BY <2>1, GoKeeps, EndKeeps DEF Selecting, Replaying, Over
<1>8. CASE ReplayCommit(o)
  <2>1. Goes({"relock"}) \/ op'[o] = Ended(o, "done", "refused")
    BY <1>1, <1>2, <1>8 DEF Become, ReplayCommit, Goto
  <2>2. QED
    BY <2>1, GoKeeps, EndKeeps DEF Selecting, Replaying, Over
<1>9. CASE ReplayRelock(o)
  <2>1. Goes({"begin"}) \/ op'[o] = Ended(o, "done", "refused")
    BY <1>1, <1>2, <1>9 DEF Become, ReplayRelock, Goto
  <2>2. QED
    BY <2>1, GoKeeps, EndKeeps DEF Selecting, Replaying, Over
<1>10. CASE Begin(o)
  <2>1. op'[o].pc \in {"plan", "except"} /\ op'[o].orig = sql /\ op'[o].res = op[o].res /\ op[o].pc = "begin"
    BY <1>1, <1>2, <1>10 DEF Become, Begin
  <2>2. QED
    BY <2>1 DEF KeepsFound
<1>11. CASE Plan(o)
  <2>1. Goes({"journal", "commit", "except"}) \/ op'[o] = Ended(o, "done", "ok")
    <3>1. ASSUME NEW pc \in {"journal", "commit"}, NEW snap,
                 Become(o, [op[o] EXCEPT !.pc = pc, !.snap = snap, !.appl = Applied(o)])
          PROVE  Goes({pc})
      BY <1>1, <1>2, <3>1 DEF Become
    <3>2. Goto(o, "except") => Goes({"except"})
      BY <1>1, <1>2 DEF Become, Goto
    <3>3. Become(o, Ended(o, "done", "ok")) => op'[o] = Ended(o, "done", "ok")
      BY <1>1 DEF Become
    <3>4. QED
      BY <1>11, <3>1, <3>2, <3>3 DEF Plan, Raise
  <2>2. op[o].pc \in Begun /\ op[o].pc = "plan"
    BY <1>11 DEF Plan, Begun, Planned
  <2>3. QED
    BY <2>1, <2>2, GoKeeps, EndKeeps DEF Over
<1>12. CASE CreateJournal(o)
  <2>1. Goes({"delete", "except"})
    BY <1>1, <1>2, <1>12 DEF Become, CreateJournal, Goto
  <2>2. op[o].pc \in Begun
    BY <1>12 DEF CreateJournal, Begun, Planned
  <2>3. QED
    BY <2>1, <2>2, GoKeeps, EndKeeps DEF Over
<1>13. CASE DeleteHistory(o)
  <2>1. Goes({"record", "except"})
    BY <1>1, <1>2, <1>13 DEF Become, DeleteHistory, Goto
  <2>2. op[o].pc \in Begun
    BY <1>13 DEF DeleteHistory, Begun, Planned
  <2>3. QED
    BY <2>1, <2>2, GoKeeps, EndKeeps DEF Over
<1>14. CASE RecordApplied(o)
  <2>1. Goes({"commit", "except"})
    BY <1>1, <1>2, <1>14 DEF Become, RecordApplied, Goto, Raise
  <2>2. op[o].pc \in Begun
    BY <1>14 DEF RecordApplied, Begun, Planned
  <2>3. QED
    BY <2>1, <2>2, GoKeeps, EndKeeps DEF Over
<1>15. CASE KeepPartial(o)
  <2>1. Goes({"undoflags", "finalize"})
    BY <1>1, <1>2, <1>15 DEF Become, KeepPartial, Goto
  <2>2. op[o].pc \in Begun
    BY <1>15 DEF KeepPartial, Begun, Planned
  <2>3. QED
    BY <2>1, <2>2, GoKeeps, EndKeeps DEF Over
<1>16. CASE Compensate(o)
  <2>1. Goes({"undo"})
    BY <1>1, <1>2, <1>16 DEF Become, Compensate, Goto
  <2>2. op[o].pc \in Begun
    BY <1>16 DEF Compensate, Begun, Planned
  <2>3. QED
    BY <2>1, <2>2, GoKeeps, EndKeeps DEF Over
<1>17. CASE CompensateBusy(o)
  <2>1. Goes({"finalize"})
    BY <1>1, <1>2, <1>17 DEF Become, CompensateBusy, Goto
  <2>2. op[o].pc \in Begun
    BY <1>17 DEF CompensateBusy, Begun, Planned
  <2>3. QED
    BY <2>1, <2>2, GoKeeps, EndKeeps DEF Over
<1>18. CASE UndoStore(o)
  <2>1. Goes({"undosql", "finalize"})
    BY <1>1, <1>2, <1>18 DEF Become, UndoStore, Goto
  <2>2. op[o].pc \in Begun
    BY <1>18 DEF UndoStore, Begun, Planned
  <2>3. QED
    BY <2>1, <2>2, GoKeeps, EndKeeps DEF Over
<1>19. CASE UndoSql(o)
  <2>1. Goes({"undoflags", "finalize"})
    BY <1>1, <1>2, <1>19 DEF Become, UndoSql, Goto
  <2>2. op[o].pc \in Begun
    BY <1>19 DEF UndoSql, Begun, Planned
  <2>3. QED
    BY <2>1, <2>2, GoKeeps, EndKeeps DEF Over
<1>20. CASE UndoFlags(o)
  <2>1. Goes({"finalize"})
    BY <1>1, <1>2, <1>20 DEF Become, UndoFlags, Goto
  <2>2. op[o].pc \in Begun
    BY <1>20 DEF UndoFlags, Begun, Planned
  <2>3. QED
    BY <2>1, <2>2, GoKeeps, EndKeeps DEF Over
<1>21. CASE Commit(o)
  BY <1>1, <1>2, <1>21 DEF Become, Commit, Goto, KeepsFound, Begun, Planned, Over
<1>22. CASE Requeue(o)
  BY <1>1, <1>2, <1>22 DEF Become, Requeue, Goto, KeepsFound, Begun, Planned, Over
<1>23. CASE Submit(o)
  <2>1. Goes({"submit", "except"}) /\ op[o].pc = "submit"
    <3>1. PICK t : \/ Become(o, [op[o] EXCEPT !.ack = @ \cup {t}])
                   \/ Become(o, [op[o] EXCEPT !.pc = "except"])
                   \/ Become(o, [op[o] EXCEPT !.pc = "except", !.unc = {t}])
      BY <1>23 DEF Submit
    <3>2. op[o].pc = "submit"
      BY <1>23 DEF Submit
    <3>3. QED
      BY <1>1, <1>2, <3>1, <3>2 DEF Become
  <2>2. QED
    BY <1>23, <2>1 DEF KeepsFound, Begun, Planned
<1>24. CASE Submitted(o)
  BY <1>1, <1>2, <1>24 DEF Become, Submitted, Goto, KeepsFound, Begun, Planned, Over
<1>25. CASE ClearJournal(o)
  BY <1>1, <1>2, <1>25 DEF Become, ClearJournal, Goto, KeepsFound, Begun, Planned, Over
<1>26. CASE YieldToLater(o)
  BY <1>1, <1>2, <1>26 DEF Become, YieldToLater, Goto, KeepsFound, Begun, Planned, Over
<1>27. CASE Finalize(o)
  <2>1. PICK u : Become(o, [op[o] EXCEPT !.pc = "closing", !.res = IF u THEN "unknown" ELSE "error"])
    BY <1>27, Zenon DEF Finalize
  <2>2. PICK res : res = IF u THEN "unknown" ELSE "error"
    OBVIOUS
  <2>3. res # "ok"
    BY <2>2
  <2>4. op'[o].pc = "closing" /\ op'[o].res = res /\ op'[o].orig = op[o].orig
    BY <1>1, <1>2, <2>1, <2>2 DEF Become
  <2>5. op[o].pc = "finalize"
    BY <1>27 DEF Finalize
  <2>6. QED
    BY <2>3, <2>4, <2>5 DEF KeepsFound, Begun
<1>28. CASE Close(o) \/ CrashOp(o)
  <2>1. op'[o] = Ended(o, "done", op[o].res) \/ op'[o] = Ended(o, "dead", "none")
    BY <1>1, <1>28 DEF Become, Close, CrashOp
  <2>2. QED
    BY <2>1, EndKeeps DEF Over
<1>29. QED
  BY <1>3, <1>4, <1>5, <1>6, <1>7, <1>8, <1>9, <1>10, <1>11, <1>12, <1>13, <1>14, <1>15, <1>16, <1>17, <1>18, <1>19, <1>20, <1>21, <1>22, <1>23, <1>24, <1>25, <1>26, <1>27, <1>28 DEF OpStep

(* What is submitted is of this request.                                   *)
LEMMA SubmitSends ==
    ASSUME NEW o \in Ops, Inv, CInv, Submit(o)
    PROVE  /\ op[o].pc = "submit" /\ UNCHANGED sql
           /\ \E T \in SUBSET {<<o, p>> : p \in Pages} :
                /\ sent' = sent \cup T /\ unread' = unread \cup T
                /\ op'[o].pc = "submit" => op'[o].ack = op[o].ack \cup T
<1>1. /\ op \in [Ops -> OpStates] /\ op[o] \in OpStates /\ LocalOk(o, op[o]) /\ op[o].appl \in Sql
      /\ op[o].pc = "submit" /\ UNCHANGED sql
  BY DEF Inv, Typed, TypeOK, CInv, LocalInv, Submit, Knows, Planned
<1>2. op[o].appl.gen = o
  BY <1>1, AbsenceAssumption DEF LocalOk, PlanFits
<1>3. PICK t \in PendingIds(o) :
        \/ /\ sent' = sent \cup {t} /\ unread' = unread \cup {t}
           /\ Become(o, [op[o] EXCEPT !.ack = @ \cup {t}])
        \/ /\ \/ Become(o, [op[o] EXCEPT !.pc = "except"])
              \/ Become(o, [op[o] EXCEPT !.pc = "except", !.unc = {t}])
           /\ \E T \in SUBSET {t} : sent' = sent \cup T /\ unread' = unread \cup T
  <2>1. UNCHANGED streamVars => sent' = sent \cup {} /\ unread' = unread \cup {}
    BY DEF streamVars
  <2>2. QED
    BY <2>1 DEF Submit
<1>4. t \in {<<o, p>> : p \in Pages}
  BY <1>2 DEF PendingIds, LiveIds, LivePages
<1>5. CASE Become(o, [op[o] EXCEPT !.pc = "except"]) \/ Become(o, [op[o] EXCEPT !.pc = "except", !.unc = {t}])
  <2>1. op'[o].pc = "except"
    BY <1>1, <1>5, Columns DEF Become
  <2>2. \E T \in SUBSET {t} : sent' = sent \cup T /\ unread' = unread \cup T
    <3>1. sent' = sent \cup {t} => \E T \in SUBSET {t} : T = {t}
      OBVIOUS
    <3>2. QED
      BY <1>3, <3>1
  <2>3. QED
    BY <1>1, <1>4, <2>1, <2>2
<1>6. CASE /\ sent' = sent \cup {t} /\ unread' = unread \cup {t}
           /\ Become(o, [op[o] EXCEPT !.ack = @ \cup {t}])
  <2>1. op'[o].ack = op[o].ack \cup {t}
    BY <1>1, <1>6 DEF Become, OpStates
  <2>2. QED
    BY <1>1, <1>4, <1>6, <2>1
<1>7. QED
  BY <1>3, <1>5, <1>6

(* A step of a request adds messages of its own only.                      *)
LEMMA StepSends ==
    ASSUME NEW o \in Ops, Inv, CInv, OpStep(o) \/ CrashOp(o)
    PROVE  \E T \in SUBSET {<<o, p>> : p \in Pages} :
             /\ sent' = sent \cup T /\ unread' = unread \cup T
             /\ T = {} \/ Submit(o)
<1>1. CASE Submit(o)
  BY <1>1, SubmitSends
<1>2. CASE UNCHANGED <<sent, unread>>
  BY <1>2
<1>3. QED
  BY <1>1, <1>2, StepShares

(* The messages stay in order.                                             *)
LEMMA StreamStep ==
    ASSUME NEW o \in Ops, Inv, CInv, StreamInv, OpStep(o) \/ CrashOp(o) PROVE StreamInv'
<1>1. PICK T \in SUBSET {<<o, p>> : p \in Pages} :
        sent' = sent \cup T /\ unread' = unread \cup T /\ (T = {} \/ Submit(o))
  BY StepSends
<1>2. UNCHANGED <<pel, wk>>
  BY StepShares
<1>3. ASSUME NEW x \in Ops, op'[x].pc \in Unsent, NEW p \in Pages PROVE <<x, p>> \notin sent'
  <2>1. CASE x = o
    <3>1. op[o].pc \in Unsent /\ op[o].pc # "submit"
      BY <1>3, <2>1, StepMoves DEF PcMoves, Onward, Over, Unsent, Early, Uncommitted, Selecting,
         Replaying, Preflight
    <3>2. T = {}
      BY <1>1, <3>1 DEF Submit
    <3>3. QED
      BY <1>1, <2>1, <3>1, <3>2 DEF StreamInv
  <2>2. CASE x # o
    <3>1. op'[x] = op[x]
      BY <2>2, StepBecomes
    <3>2. QED
      BY <1>1, <1>3, <2>2, <3>1 DEF StreamInv
  <2>3. QED
    BY <2>1, <2>2
<1>4. QED
  BY <1>1, <1>2, <1>3 DEF StreamInv

(* A request that meets no other replays nothing.                          *)
LEMMA NothingToReplay ==
    ASSUME NEW x \in Ops, Inv, CInv, ~Met(x) PROVE op[x].pc \notin Replaying
<1> SUFFICES ASSUME op[x].pc \in Replaying PROVE FALSE
  OBVIOUS
<1>1. op[x].rec \in Held
  BY AbsenceAssumption DEF Held, Inv, Typed, Knows
<1>2. PICK y \in Ops : OwnAt(op[y])
  BY <1>1 DEF CInv, OwnInv
<1>3. op[y].pc \in {"idle", "locking"} \cup Replaying
  BY DEF Met
<1>4. LocalOk(y, op[y])
  BY DEF CInv, LocalInv
<1>5. QED
  BY <1>2, <1>3, <1>4 DEF OwnAt, LocalOk, Selecting, Replaying, Over

(* Messages that are added do not disturb tasks that wait.                 *)
LEMMA WaitsOn ==
    ASSUME NEW x \in Ops, NEW r, NEW T, StreamInv, WaitsAt(x, op[x]), UNCHANGED <<pel, wk>>,
           sent' = sent \cup T, unread' = unread \cup T,
           r.pc \in Begun => r.orig.gen # x,
           r.pc = "submit" => r.ack \subseteq sent',
           r.res = "ok" => r.pc \in {"closing", "done"},
           \A p \in Pages : Queued(x, p)' => Queued(x, p) \/ <<x, p>> \notin sent',
           \A p \in Pages : Queued(x, p)' /\ (r.pc = "clear" \/ r.res = "ok") => <<x, p>> \in sent'
    PROVE  WaitsAt(x, r)'
<1>1. ASSUME NEW p \in Pages, Queued(x, p)', <<x, p>> \in sent' PROVE <<x, p>> \in Pending'
  BY <1>1 DEF WaitsAt, Pending
<1>2. ASSUME NEW p \in Pages, Queued(x, p)', NEW w \in Workers, wk'[w].pc \in Passed
      PROVE  wk'[w].t # <<x, p>>
  <2>1. wk[w].t \in sent
    BY <1>2 DEF StreamInv, Passed
  <2>2. QED
    BY <1>2, <2>1 DEF WaitsAt
<1>3. QED
  BY <1>1, <1>2 DEF WaitsAt

(* A request that meets no other keeps its own start.                      *)
LEMMA SelfWaits ==
    ASSUME NEW x \in Ops, Inv, CInv, CInv', StreamInv, ~Met(x), WaitsAt(x, op[x]),
           OpStep(x) \/ CrashOp(x)
    PROVE  WaitsAt(x, op[x])'
<1>1. PICK r : r = op'[x]
  OBVIOUS
<1>2. PICK T \in SUBSET {<<x, p>> : p \in Pages} : sent' = sent \cup T /\ unread' = unread \cup T
  BY StepSends
<1>3. /\ UNCHANGED <<pel, wk>> /\ KeepsFound(x, r) /\ PcMoves(x)
      /\ op[x] \in OpStates /\ LocalOk(x, op[x])
      /\ op[x].pc \in Early => sql.gen # x
      /\ r.pc \in Early => sql'.gen # x
  BY <1>1, StepShares, StepKeeps, StepMoves DEF CInv, LocalInv, GenInv, Inv, Typed, TypeOK
<1>4. r.pc \in Begun => r.orig.gen # x
  BY <1>3 DEF KeepsFound, WaitsAt, Early, Selecting
<1>5. r.pc = "submit" => r.ack \subseteq sent'
  <2>1. CASE Requeue(x) /\ r.pc = "submit"
    <3>1. PICK pc \in OpPcs : Goto(x, pc) /\ op[x].pc = "requeue"
      BY <2>1 DEF Requeue, OpPcs
    <3>2. PICK y : Become(x, y) /\ Same(x, y)
      BY <3>1, GotoSame
    <3>3. r = y
      BY <1>1, <3>2 DEF Become, Inv, Typed, TypeOK
    <3>4. QED
      BY <1>3, <3>1, <3>2, <3>3 DEF Same, LocalOk
  <2>2. CASE Submit(x) /\ r.pc = "submit"
    BY <1>1, <2>2, SubmitSends DEF WaitsAt
  <2>3. QED
    BY <1>3, <2>1, <2>2 DEF KeepsFound
<1>6. r.res = "ok" => r.pc \in {"closing", "done"}
  <2>1. CASE r.res = "ok" /\ op[x].res = "ok"
    <3>1. op[x].pc \in {"closing", "done"}
      BY <2>1 DEF WaitsAt
    <3>2. r.pc \in Over
      BY <1>1, <1>3, <3>1 DEF PcMoves, Preflight, Unsent, Early, Selecting, Replaying, Uncommitted
    <3>3. QED
      BY <1>3, <2>1, <3>2 DEF KeepsFound, Over
  <2>2. CASE r.res = "ok" /\ op[x].res # "ok"
    BY <1>3, <2>2 DEF KeepsFound, Over
  <2>3. QED
    BY <2>1, <2>2
<1>7. /\ \A p \in Pages : Queued(x, p)' => Queued(x, p) \/ <<x, p>> \notin sent'
      /\ \A p \in Pages : Queued(x, p)' /\ (r.pc = "clear" \/ r.res = "ok") => <<x, p>> \in sent'
  <2>1. CASE UNCHANGED sql /\ ~Commit(x)
    <3>1. \A p \in Pages : Queued(x, p)' => Queued(x, p)
      BY <2>1 DEF Queued
    <3>2. ASSUME NEW p \in Pages, Queued(x, p), r.pc = "clear" PROVE <<x, p>> \in sent'
      <4>1. Submitted(x) /\ op[x].pc = "submit"
        BY <1>3, <2>1, <3>2 DEF KeepsFound, Submitted
      <4>2. sql = op[x].appl
        BY <4>1 DEF Inv, RowsDoNotMove
      <4>3. <<x, p>> \in PendingIds(x)
        BY <3>2, <4>2 DEF Queued, PendingIds, LiveIds, LivePages, Unfinished
      <4>4. QED
        BY <1>2, <4>1, <4>3 DEF Submitted, WaitsAt
    <3>3. ASSUME NEW p \in Pages, Queued(x, p), r.res = "ok" PROVE <<x, p>> \in sent'
      <4>1. op[x].pc # "plan"
        BY <1>3, <3>3 DEF Queued, Early
      <4>2. op[x].res = "ok" \/ op[x].pc = "clear"
        BY <1>3, <3>3, <4>1 DEF KeepsFound
      <4>3. QED
        BY <1>2, <3>3, <4>2 DEF WaitsAt
    <3>4. QED
      BY <3>1, <3>2, <3>3
  <2>2. CASE ReplayCommit(x)
    BY <2>2, NothingToReplay DEF ReplayCommit, Replaying
  <2>3. CASE Commit(x)
    <3>1. /\ op[x].pc = "commit" /\ sql' \in {sql, op[x].appl} /\ UNCHANGED sent
          /\ op[x].pc \in Early /\ op[x].pc \in Unsent /\ op[x].res # "ok" /\ op[x].appl # None
      BY <1>3, <2>3, AbsenceAssumption DEF Commit, streamVars, Early, Unsent, Uncommitted, WaitsAt,
         Inv, Typed, Knows, Planned
    <3>2. \A p \in Pages : <<x, p>> \notin sent'
      BY <3>1 DEF StreamInv
    <3>3. r.res # "ok"
      BY <1>3, <3>1 DEF KeepsFound
    <3>4. r.pc = "clear" => sql'.gen # x
      <4>1. ASSUME r.pc = "clear" PROVE op[x].kind # "1"
        <5>1. \E pc \in {"requeue", "clear", "except"} :
                Goto(x, pc) /\ (pc = "clear" => op[x].kind # "1")
          BY <2>3 DEF Commit
        <5>2. PICK pc \in OpPcs : Goto(x, pc) /\ (pc = "clear" => op[x].kind # "1")
          BY <5>1 DEF OpPcs
        <5>3. r.pc = pc
          BY <1>1, <1>3, <5>2 DEF Goto, Become, Inv, Typed, TypeOK, OpStates
        <5>4. QED
          BY <4>1, <5>2, <5>3
      <4>2. op[x].kind # "1" => op[x].appl.gen # x
        BY <1>3, <3>1 DEF LocalOk, PlanFits, WaitsAt, Begun, Planned
      <4>3. QED
        BY <1>3, <3>1, <4>1, <4>2
    <3>5. QED
      BY <3>2, <3>3, <3>4 DEF Queued
  <2>4. CASE KeepPartial(x)
    <3>1. UNCHANGED sent /\ sql \in Sql /\ sql' \in {sql, MarkUnsubmitted(x)} /\ op[x].pc = "except"
      BY <2>4 DEF KeepPartial, streamVars, Inv, Typed, TypeOK
    <3>2. ASSUME NEW p \in Pages, Queued(x, p)' PROVE Queued(x, p)
      <4>1. CASE sql' = sql
        BY <3>2, <4>1 DEF Queued
      <4>2. CASE sql' = MarkUnsubmitted(x)
        <5>1. sql'.gen = sql.gen
          BY <3>1, <4>2 DEF MarkUnsubmitted, Sql
        <5>2. sql'.row = [q \in Pages |-> IF q \in Unexposed(x) THEN [sql.row[q] EXCEPT !.st = "bad"]
                                          ELSE sql.row[q]]
          BY <3>1, <4>2 DEF MarkUnsubmitted, Sql
        <5>3. sql'.row[p] = IF p \in Unexposed(x) THEN [sql.row[p] EXCEPT !.st = "bad"] ELSE sql.row[p]
          BY <5>2
        <5>4. sql.row[p] \in Rows
          BY <3>1 DEF Sql
        <5>5. p \notin Unexposed(x)
          BY <3>2, <5>3, <5>4 DEF Queued, Rows
        <5>6. QED
          BY <3>2, <5>1, <5>3, <5>5 DEF Queued
      <4>3. QED
        BY <3>1, <4>1, <4>2
    <3>3. r.pc # "clear" /\ (r.res = "ok" => op[x].res = "ok")
      BY <1>3, <2>4, <3>1 DEF KeepsFound, Commit, Submitted
    <3>4. QED
      BY <3>1, <3>2, <3>3 DEF WaitsAt
  <2>5. CASE UndoSql(x)
    <3>1. UNCHANGED sent /\ op[x].pc = "undosql" /\ sql' \in {sql, op[x].orig} /\ op[x].orig.gen # x
      BY <2>5 DEF UndoSql, streamVars, WaitsAt, Begun
    <3>2. \A p \in Pages : Queued(x, p)' => Queued(x, p)
      BY <3>1 DEF Queued
    <3>3. r.pc # "clear" /\ (r.res = "ok" => op[x].res = "ok")
      BY <1>3, <2>5, <3>1 DEF KeepsFound, Commit, Submitted
    <3>4. QED
      BY <3>1, <3>2, <3>3 DEF WaitsAt
  <2>6. QED
    BY <2>1, <2>2, <2>3, <2>4, <2>5, StepShares
<1>8. QED
  BY <1>1, <1>2, <1>3, <1>4, <1>5, <1>6, <1>7, WaitsOn

(* The step of another request that it has not met yet is no meeting.      *)
LEMMA OtherWaits ==
    ASSUME NEW o \in Ops, NEW x \in Ops \ {o}, Inv, CInv, StreamInv, ~Met(x)',
           ~Met(x) => WaitsAt(x, op[x]), OpStep(o) \/ CrashOp(o)
    PROVE  WaitsAt(x, op[x])'
<1>1. \A y \in Ops \ {o} : op'[y] = op[y]
  BY StepBecomes
<1>2. op'[o].pc \in {"idle", "locking"}
  BY DEF Met
<1>3. Preflight(o)
  BY <1>2, StepMoves DEF PcMoves, Onward, Over
<1>4. ~Met(x)
  BY <1>1, <1>3 DEF Met, Preflight
<1>5. UNCHANGED <<sql, sent, unread, pel, wk>>
  BY <1>3 DEF Preflight, streamVars, workerVars
<1>6. QED
  BY <1>1, <1>4, <1>5 DEF WaitsAt, Queued, Pending

(* Every step of a request.                                                *)
LEMMA StepWaits ==
    ASSUME NEW o \in Ops, Inv, CInv, CInv', WaitInv, OpStep(o) \/ CrashOp(o) PROVE WaitInv'
<1>1. StreamInv'
  BY StreamStep DEF WaitInv
<1>2. ASSUME NEW x \in Ops \ {o}, ~Met(x)' PROVE WaitsAt(x, op[x])'
  BY <1>2, OtherWaits DEF WaitInv
<1>3. ASSUME ~Met(o)' PROVE WaitsAt(o, op[o])'
  <2>1. ~Met(o)
    BY <1>3, StepBecomes DEF Met
  <2>2. QED
    BY <2>1, SelfWaits DEF WaitInv
<1>4. QED
  BY <1>1, <1>2, <1>3 DEF WaitInv

(* Executors and the poller neither replace rows nor make them wait again. *)
NoneQueued(s) == s.gen = sql.gen /\ \A p \in Pages : s.row[p].st = "queued" => sql.row[p].st = "queued"

(* Whatever an executor writes. *)
LEMMA WorkerRows ==
    ASSUME NEW w \in Workers, Inv, WorkerStep(w) \/ CrashWorker(w) \/ Restart(w)
    PROVE  NoneQueued(sql')
<1>1. sql \in Sql /\ wk \in [Workers -> WorkerStates] /\ wk[w] \in WorkerStates
  BY DEF Inv, Typed, TypeOK
<1>2. CASE UNCHANGED sql
  BY <1>2 DEF NoneQueued
<1>3. ASSUME NEW st \in RowStates \ {"queued"}, NEW q, NEW l, sql' = [sql EXCEPT !.row[q].st = st, !.log = l]
      PROVE  NoneQueued(sql')
  <2>1. sql'.gen = sql.gen
    BY <1>1, <1>3 DEF Sql
  <2>2. sql'.row = [sql.row EXCEPT ![q].st = st]
    BY <1>1, <1>3 DEF Sql
  <2>3. ASSUME NEW p \in Pages, sql'.row[p].st = "queued" PROVE sql.row[p].st = "queued"
    <3>1. sql.row[p] \in Rows /\ sql.row \in [Pages -> Rows]
      BY <1>1 DEF Sql
    <3>2. CASE p = q
      <4>1. sql'.row[p].st = st
        BY <2>2, <3>1, <3>2 DEF Rows
      <4>2. QED
        BY <2>3, <4>1
    <3>3. CASE p # q
      BY <2>2, <2>3, <3>1, <3>3
    <3>4. QED
      BY <3>2, <3>3
  <2>4. QED
    BY <2>1, <2>3 DEF NoneQueued
<1>4. CASE GetTask(w) /\ ~UNCHANGED sql
  <2>1. sql' = [sql EXCEPT !.row[Page(w)].st = "run", !.log = FreshLog]
    BY <1>4 DEF GetTask
  <2>2. QED
    BY <1>3, <2>1 DEF RowStates
<1>5. CASE WriteProgress(w) /\ ~UNCHANGED sql
  <2>1. sql' = [sql EXCEPT !.row[Page(w)].st = Progressed(@, Reported(w)), !.log = FreshLog] /\ Loadable(wk[w].t)
    BY <1>5 DEF WriteProgress
  <2>2. Page(w) \in Pages
    BY <2>1 DEF Loadable, Ids, Present, Page
  <2>3. PICK st : st = Progressed(sql.row[Page(w)].st, Reported(w))
    OBVIOUS
  <2>4. sql.row[Page(w)].st \in RowStates
    BY <1>1, <2>2 DEF Sql, Rows
  <2>5. Reported(w) \in {"bad", "done", "run"}
    BY DEF Reported
  <2>6. st \in RowStates \ {"queued"}
    BY <2>3, <2>4, <2>5 DEF Progressed, RowStates
  <2>7. sql' = [sql EXCEPT !.row[Page(w)].st = st, !.log = FreshLog]
    BY <2>1, <2>3
  <2>8. QED
    BY <1>3, <2>6, <2>7
<1>6. CASE RegisterChunks(w)
  <2>1. sql' = [Reconcile(sql, store) EXCEPT !.row[Page(w)].chunk = TRUE, !.log = FreshLog]
    BY <1>6 DEF RegisterChunks, Registered
  <2>2. sql'.gen = sql.gen /\ sql'.row = [sql.row EXCEPT ![Page(w)].chunk = TRUE]
    BY <1>1, <2>1 DEF Reconcile, Sql
  <2>3. \A p \in Pages : sql'.row[p].st = sql.row[p].st
    BY <1>1, <2>2 DEF Sql, Rows
  <2>4. QED
    BY <2>2, <2>3 DEF NoneQueued
<1>7. CASE CountChunks(w) /\ ~UNCHANGED sql
  <2>1. sql' = [Reconcile(sql, store) EXCEPT !.log = FreshLog]
    BY <1>7 DEF CountChunks
  <2>2. sql'.gen = sql.gen /\ sql'.row = sql.row
    BY <1>1, <2>1 DEF Reconcile, Sql
  <2>3. QED
    BY <2>2 DEF NoneQueued
<1>8. CASE RecordPipeline(w) /\ ~UNCHANGED sql
  <2>1. sql' = SyncDoc(sql)
    BY <1>8 DEF RecordPipeline
  <2>2. sql'.gen = sql.gen /\ sql'.row = sql.row
    BY <1>1, <2>1 DEF SyncDoc, Sql
  <2>3. QED
    BY <2>2 DEF NoneQueued
<1>9. QED
  BY <1>2, <1>4, <1>5, <1>6, <1>7, <1>8 DEF WorkerStep, Deliver, Receive, CheckCanceled, ParseFails,
     Report, EnterFence, PrepareSource, NativeInsert, MarkReady, Ack, CrashWorker, Restart

(* What an executor does to the messages: it takes them up from the stream *)
(* and gives up only the one it has finished with.                         *)
TakesUp(w) ==
    /\ unread' \subseteq unread
    /\ pel' \in [Workers -> SUBSET TaskIds] /\ \A v \in Workers \ {w} : pel'[v] = pel[v] /\ wk'[v] = wk[v]
    /\ pel'[w] \subseteq pel[w] \cup unread
    /\ \A t \in unread : t \in unread' \cup pel'[w]
    /\ \A t \in pel[w] : t \in pel'[w] \/ (wk[w].pc = "ack" /\ t = wk[w].t)
    /\ wk'[w].replay \subseteq wk[w].replay \cup pel[w]
    /\ wk'[w].pc \notin {"idle", "down"} =>
         \/ wk'[w].t = wk[w].t /\ wk[w].pc \notin {"idle", "down"}
         \/ wk'[w].t \in unread \cup wk[w].replay
    /\ wk'[w].pc \in Passed =>
         /\ wk'[w].t = wk[w].t
         /\ wk[w].pc \in Passed \/ Receive(w) \/ GetTask(w)

(* Every step of an executor. *)
LEMMA WorkerTakesUp ==
    ASSUME NEW w \in Workers, Inv, WorkerStep(w) \/ CrashWorker(w) \/ Restart(w)
    PROVE  TakesUp(w)
<1>1. /\ wk \in [Workers -> WorkerStates] /\ wk[w] \in WorkerStates
      /\ pel \in [Workers -> SUBSET TaskIds] /\ unread \subseteq TaskIds
  BY DEF Inv, Typed, TypeOK
<1>2. ASSUME NEW r, WkBecome(w, r) PROVE wk'[w] = r /\ \A v \in Workers \ {w} : wk'[v] = wk[v]
  BY <1>1, <1>2 DEF WkBecome
<1>3. ASSUME UNCHANGED <<pel, unread>>, NEW pc, NEW stage, NEW stop,
             WkBecome(w, [wk[w] EXCEPT !.pc = pc, !.stage = stage, !.stop = stop]),
             wk[w].pc \notin {"idle", "down"},
             pc \in Passed => wk[w].pc \in Passed \/ Receive(w) \/ GetTask(w)
      PROVE  TakesUp(w)
  <2>1. wk'[w].pc = pc /\ wk'[w].t = wk[w].t /\ wk'[w].replay = wk[w].replay
    BY <1>1, <1>3 DEF WorkerStates, WkBecome
  <2>2. QED
    BY <1>1, <1>2, <1>3, <2>1 DEF TakesUp
<1>4. ASSUME UNCHANGED <<pel, unread>>, NEW pc, WkGoto(w, pc), wk[w].pc \notin {"idle", "down"},
             pc \in Passed => wk[w].pc \in Passed \/ Receive(w) \/ GetTask(w)
      PROVE  TakesUp(w)
  <2>1. wk'[w].pc = pc /\ wk'[w].t = wk[w].t /\ wk'[w].replay = wk[w].replay
    BY <1>1, <1>2, <1>4 DEF WorkerStates, WkGoto
  <2>2. \A v \in Workers \ {w} : wk'[v] = wk[v]
    BY <1>2, <1>4 DEF WkGoto
  <2>3. QED
    BY <1>1, <1>4, <2>1, <2>2 DEF TakesUp
<1>5. ASSUME UNCHANGED <<pel, unread>>, NEW stage, Say(w, stage), wk[w].pc \in Passed
      PROVE  TakesUp(w)
  <2>1. wk'[w].pc = "report" /\ wk'[w].t = wk[w].t /\ wk'[w].replay = wk[w].replay
    BY <1>1, <1>5 DEF WorkerStates, Say, WkBecome
  <2>2. \A v \in Workers \ {w} : wk'[v] = wk[v]
    BY <1>2, <1>5 DEF Say
  <2>3. QED
    BY <1>1, <1>5, <2>1, <2>2 DEF TakesUp, Passed
<1>6. CASE Deliver(w)
  <2>1. CASE \E t \in wk[w].replay :
               /\ WkBecome(w, [wk[w] EXCEPT !.pc = "got", !.t = t, !.replay = @ \ {t}])
               /\ UNCHANGED <<unread, pel>>
    <3>1. PICK t \in wk[w].replay :
               /\ WkBecome(w, [wk[w] EXCEPT !.pc = "got", !.t = t, !.replay = @ \ {t}])
               /\ UNCHANGED <<unread, pel>>
      BY <2>1
    <3>2. wk'[w].pc = "got" /\ wk'[w].t = t /\ wk'[w].replay = wk[w].replay \ {t}
      BY <1>1, <3>1 DEF WorkerStates, WkBecome
    <3>3. QED
      BY <1>1, <1>2, <3>1, <3>2 DEF TakesUp, Passed
  <2>2. CASE \E t \in unread :
               /\ unread' = unread \ {t}
               /\ pel' = [pel EXCEPT ![w] = @ \cup {t}]
               /\ WkBecome(w, [wk[w] EXCEPT !.pc = "got", !.t = t])
    <3>1. PICK t \in unread :
               /\ unread' = unread \ {t}
               /\ pel' = [pel EXCEPT ![w] = @ \cup {t}]
               /\ WkBecome(w, [wk[w] EXCEPT !.pc = "got", !.t = t])
      BY <2>2
    <3>2. wk'[w].pc = "got" /\ wk'[w].t = t /\ wk'[w].replay = wk[w].replay
      BY <1>1, <3>1 DEF WorkerStates, WkBecome
    <3>3. /\ pel' \in [Workers -> SUBSET TaskIds] /\ pel'[w] = pel[w] \cup {t}
          /\ \A v \in Workers \ {w} : pel'[v] = pel[v]
      BY <1>1, <3>1
    <3>4. QED
      BY <1>1, <1>2, <3>1, <3>2, <3>3 DEF TakesUp, Passed
  <2>3. QED
    BY <1>6, <2>1, <2>2 DEF Deliver
<1>7. CASE Receive(w) \/ GetTask(w)
  BY <1>4, <1>7 DEF Receive, GetTask
<1>8. CASE CheckCanceled(w)
  BY <1>4, <1>5, <1>8 DEF CheckCanceled, Passed
<1>9. CASE ParseFails(w)
  BY <1>5, <1>9 DEF ParseFails, Passed
<1>10. CASE Report(w)
  <2>1. /\ wk[w].pc = "report" /\ UNCHANGED <<pel, unread>>
        /\ WkBecome(w, [wk[w] EXCEPT !.pc = "write", !.stop = HasCanceled(wk[w].t)])
    BY <1>10 DEF Report
  <2>2. wk'[w].pc = "write" /\ wk'[w].t = wk[w].t /\ wk'[w].replay = wk[w].replay
    BY <1>1, <2>1 DEF WorkerStates, WkBecome
  <2>3. QED
    BY <1>1, <1>2, <2>1, <2>2 DEF TakesUp, Passed
<1>11. CASE WriteProgress(w)
  BY <1>3, <1>11 DEF WriteProgress, Passed
<1>12. CASE EnterFence(w) \/ PrepareSource(w)
  BY <1>4, <1>5, <1>12 DEF EnterFence, PrepareSource, Passed
<1>13. CASE NativeInsert(w) \/ RegisterChunks(w) \/ RecordPipeline(w)
  BY <1>4, <1>13 DEF NativeInsert, RegisterChunks, RecordPipeline, Passed
<1>14. CASE MarkReady(w) \/ CountChunks(w)
  BY <1>5, <1>14 DEF MarkReady, CountChunks, Passed
<1>15. CASE Ack(w)
  <2>1. wk'[w].pc = "idle" /\ wk'[w].replay = wk[w].replay
    BY <1>1, <1>2, <1>15 DEF Ack, NewWorker
  <2>2. /\ pel' \in [Workers -> SUBSET TaskIds] /\ pel'[w] = pel[w] \ {wk[w].t}
        /\ \A v \in Workers \ {w} : pel'[v] = pel[v]
    BY <1>1, <1>15 DEF Ack
  <2>3. wk[w].pc = "ack" /\ UNCHANGED unread
    BY <1>15 DEF Ack
  <2>4. QED
    BY <1>2, <1>15, <2>1, <2>2, <2>3 DEF TakesUp, Passed, Ack
<1>16. CASE CrashWorker(w)
  <2>1. wk'[w].pc = "down" /\ wk'[w].replay = {}
    BY <1>1, <1>2, <1>16 DEF CrashWorker, NewWorker
  <2>2. QED
    BY <1>1, <1>2, <1>16, <2>1 DEF TakesUp, Passed, CrashWorker
<1>17. CASE Restart(w)
  <2>1. wk'[w].pc = "idle" /\ wk'[w].replay = pel[w]
    BY <1>1, <1>17 DEF Restart, WorkerStates, WkBecome
  <2>2. QED
    BY <1>1, <1>2, <1>17, <2>1 DEF TakesUp, Passed, Restart
<1>18. QED
  BY <1>6, <1>7, <1>8, <1>9, <1>10, <1>11, <1>12, <1>13, <1>14, <1>15, <1>16, <1>17 DEF WorkerStep

(* An executor that passes the row of a task has taken it out of waiting.  *)
LEMMA WorkerPasses ==
    ASSUME NEW w \in Workers, NEW x \in Ops, NEW p \in Pages, Inv, Queued(x, p)', Queued(x, p),
           wk[w].t = <<x, p>>, Receive(w) \/ GetTask(w)
    PROVE  wk'[w].pc \notin Passed
<1>1. /\ sql \in Sql /\ wk \in [Workers -> WorkerStates] /\ wk[w] \in WorkerStates
      /\ sql.row[p] \in Rows
  BY DEF Inv, Typed, TypeOK, Sql
<1>2. <<x, p>> \in Ids(sql) /\ wk[w].t[2] = p
  BY DEF Queued, Ids, Present
<1>3. ~Completed(wk[w].t) /\ Loadable(wk[w].t)
  BY <1>2 DEF Completed, Loadable, Queued
<1>4. CASE Receive(w)
  BY <1>1, <1>3, <1>4 DEF Receive, WkGoto, WkBecome, WorkerStates, Passed
<1>5. CASE GetTask(w)
  <2>1. sql' = [sql EXCEPT !.row[p].st = "run", !.log = FreshLog]
    BY <1>2, <1>3, <1>5 DEF GetTask, Page
  <2>2. sql'.row[p].st = "run"
    BY <1>1, <2>1 DEF Sql, Rows
  <2>3. QED
    BY <2>2 DEF Queued
<1>6. QED
  BY <1>4, <1>5

(* A step of an executor. *)
LEMMA WorkerWaits ==
    ASSUME NEW w \in Workers, Inv, WaitInv, WorkerStep(w) \/ CrashWorker(w) \/ Restart(w)
    PROVE  WaitInv'
<1>1. UNCHANGED <<op, sent>> /\ TakesUp(w) /\ NoneQueued(sql')
  <2>1. UNCHANGED requestVars
    BY DEF WorkerStep, Deliver, Receive, GetTask, CheckCanceled, ParseFails, Report, WriteProgress,
       EnterFence, PrepareSource, NativeInsert, RegisterChunks, MarkReady, CountChunks,
       RecordPipeline, Ack, CrashWorker, Restart
  <2>2. QED
    BY <2>1, WorkerTakesUp, WorkerRows DEF requestVars
<1>2. StreamInv
  BY DEF WaitInv
<1>3. StreamInv'
  <2>1. ASSUME NEW v \in Workers
        PROVE  /\ pel'[v] \subseteq sent /\ wk'[v].replay \subseteq sent
               /\ wk'[v].pc \notin {"idle", "down"} => wk'[v].t \in sent
    BY <1>1, <1>2 DEF TakesUp, StreamInv
  <2>2. unread' \subseteq sent
    BY <1>1, <1>2 DEF TakesUp, StreamInv
  <2>3. QED
    BY <1>1, <1>2, <2>1, <2>2 DEF StreamInv
<1>4. ASSUME NEW x \in Ops, ~Met(x)' PROVE WaitsAt(x, op[x])'
  <2>1. WaitsAt(x, op[x])
    BY <1>1, <1>4 DEF Met, WaitInv
  <2>2. ASSUME NEW p \in Pages, Queued(x, p)' PROVE Queued(x, p)
    BY <1>1, <2>2 DEF Queued, NoneQueued
  <2>3. ASSUME NEW p \in Pages, Queued(x, p)', <<x, p>> \in sent PROVE <<x, p>> \in Pending'
    <3>1. <<x, p>> \in Pending /\ (wk[w].pc = "ack" => wk[w].t # <<x, p>>)
      BY <2>1, <2>2, <2>3 DEF WaitsAt, Passed
    <3>2. <<x, p>> \in unread' \/ \E v \in Workers : <<x, p>> \in pel'[v]
      BY <1>1, <3>1 DEF Pending, TakesUp
    <3>3. QED
      BY <3>2 DEF Pending
  <2>4. ASSUME NEW p \in Pages, Queued(x, p)', NEW v \in Workers, wk'[v].pc \in Passed
        PROVE  wk'[v].t # <<x, p>>
    <3>1. CASE v # w
      BY <1>1, <2>1, <2>2, <2>4, <3>1 DEF TakesUp, WaitsAt
    <3>2. CASE v = w /\ wk[w].pc \in Passed
      BY <1>1, <2>1, <2>2, <2>4, <3>2 DEF TakesUp, WaitsAt
    <3>3. CASE v = w /\ (Receive(w) \/ GetTask(w))
      BY <1>1, <2>2, <2>4, <3>3, WorkerPasses DEF TakesUp
    <3>4. QED
      BY <1>1, <2>4, <3>1, <3>2, <3>3 DEF TakesUp
  <2>5. QED
    BY <1>1, <2>1, <2>2, <2>3, <2>4 DEF WaitsAt
<1>5. QED
  BY <1>3, <1>4 DEF WaitInv

(* A step of the poller. *)
LEMMA PollWaits == ASSUME Inv, WaitInv, Poll PROVE WaitInv'
<1>1. UNCHANGED <<op, sent, unread, pel, wk>>
  BY DEF Poll, PollSelect, PollSync
<1>2. sql'.gen = sql.gen /\ sql'.row = sql.row
  <2>1. sql \in Sql /\ sql' \in {sql, SyncDoc(sql)}
    BY DEF Poll, PollSelect, PollSync, Inv, Typed, TypeOK
  <2>2. QED
    BY <2>1 DEF SyncDoc, Sql
<1>3. StreamInv'
  BY <1>1 DEF WaitInv, StreamInv
<1>4. ASSUME NEW x \in Ops, ~Met(x)' PROVE WaitsAt(x, op[x])'
  BY <1>1, <1>2, <1>4 DEF WaitInv, Met, WaitsAt, Queued, Pending
<1>5. QED
  BY <1>3, <1>4 DEF WaitInv

(* Initially nothing waits but the tasks that were there. *)
LEMMA InitWaits == Init => WaitInv
<1> SUFFICES ASSUME Init PROVE WaitInv
  OBVIOUS
<1>0. PICK cfg \in Cfgs :
        /\ sql \in FreshDocs(cfg) \cup QueuedDocs(cfg) \cup ParsedDocs(cfg) \cup FailedDocs(cfg)
        /\ op = [o \in Ops |-> NewOp(cfg)]
  BY DEF Init
<1>1. \A x \in Ops : op[x].pc = "idle" /\ op[x].res = "none"
  BY <1>0 DEF NewOp
<1>2. sql.gen = Origin
  <2>1. \A run, prog, row : Doc(run, prog, cfg, row).gen = Origin
    BY DEF Doc
  <2>2. QED
    BY <1>0, <2>1 DEF FreshDocs, QueuedDocs, ParsedDocs, FailedDocs
<1>3. \A x \in Ops : sql.gen # x /\ \A p \in Pages : <<x, p>> \notin sent
  BY <1>2, PartiesAssumption DEF Init, Ids
<1>4. /\ unread \subseteq sent
      /\ \A w \in Workers : pel[w] = {} /\ wk[w].replay = {} /\ wk[w].pc = "idle"
  <2>1. LiveIds(sql) \subseteq Ids(sql)
    BY DEF LiveIds, LivePages, Ids, Present, Unfinished
  <2>2. QED
    BY <2>1 DEF Init, NewWorker
<1>5. StreamInv
  BY <1>3, <1>4 DEF StreamInv
<1>6. \A x \in Ops : WaitsAt(x, op[x])
  BY <1>1, <1>3 DEF WaitsAt, Begun, Planned, Queued
<1>7. QED
  BY <1>5, <1>6 DEF WaitInv

(* At most one request has ever looked at the rows under their lock. *)
OneCame == \E x \in Ops : ~Met(x)

(***************************************************************************)
(* A start that was confirmed is never lost while no second request has    *)
(* come to the rows, whatever calls fail and whichever servers or          *)
(* executors crash: _requeue hands every task over before the success is   *)
(* reported, and an executor acknowledges a message only after it has      *)
(* asked for the row (ConfirmedWorkWaits).                                 *)
(***************************************************************************)
THEOREM WaitsHold == Spec => [](OneCame => ConfirmedWorkWaits)
<1>1. Init => WaitInv
  BY InitWaits
<1>2. Inv /\ CInv /\ CInv' /\ WaitInv /\ [Next]_vars => WaitInv'
  <2> SUFFICES ASSUME Inv, CInv, CInv', WaitInv, [Next]_vars PROVE WaitInv'
    OBVIOUS
  <2>1. CASE OpNext
    BY <2>1, StepWaits DEF OpNext
  <2>2. CASE WorkerNext
    BY <2>2, WorkerWaits DEF WorkerNext
  <2>3. CASE Poll
    BY <2>3, PollWaits
  <2>4. CASE UNCHANGED vars
    BY <2>4 DEF vars, WaitInv, StreamInv, WaitsAt, Met, Queued, Pending
  <2>5. QED
    BY <2>1, <2>2, <2>3, <2>4 DEF Next
<1>3. WaitInv => (OneCame => ConfirmedWorkWaits)
  <2> SUFFICES ASSUME WaitInv, OneCame, NEW o \in Ops, op[o].pc = "done", op[o].res = "ok",
                      sql.gen = o, NEW p \in Pages, sql.row[p].st = "queued"
               PROVE  <<o, p>> \in Pending
    BY DEF ConfirmedWorkWaits, Pending
  <2>1. ~Met(o)
    BY DEF OneCame, Met
  <2>2. QED
    BY <2>1 DEF WaitInv, WaitsAt, Queued
<1>4. QED
  BY <1>1, <1>2, <1>3, InvHolds, CancelInvHolds, PTL DEF Spec
=============================================================================

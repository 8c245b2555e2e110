-------------------------- MODULE IngestCancelProofs --------------------------
(***************************************************************************)
(* A confirmed cancel holds: proofs about who may put which rows in place  *)
(* of which others, for every number of requests, executors, failures and  *)
(* crashes.                                                                *)
(***************************************************************************)
EXTENDS IngestSystemProofs

-----------------------------------------------------------------------------
(* Fresh revisions *)

(* A finite set has no more images than elements. *)
LEMMA ImageBound ==
    ASSUME NEW S, IsFiniteSet(S), NEW f, f = [x \in S |-> f[x]]
    PROVE  LET T == {f[x] : x \in S} IN IsFiniteSet(T) /\ Cardinality(T) <= Cardinality(S)
<1> DEFINE T == {f[x] : x \in S}
<1>1. f \in Surjection(S, T)
  BY DEF Surjection
<1>2. QED
  BY <1>1, FS_Surjection

(* Cardinalities of a union add up at most. *)
LEMMA UnionBound ==
    ASSUME NEW S, NEW T, IsFiniteSet(S), IsFiniteSet(T)
    PROVE  /\ IsFiniteSet(S \cup T) /\ Cardinality(S \cup T) \in Nat
           /\ Cardinality(S) \in Nat /\ Cardinality(T) \in Nat
           /\ Cardinality(S \cup T) <= Cardinality(S) + Cardinality(T)
<1>1. /\ IsFiniteSet(S \cup T)
      /\ Cardinality(S \cup T) = Cardinality(S) + Cardinality(T) - Cardinality(S \cap T)
  BY FS_Union
<1>2. IsFiniteSet(S \cap T)
  BY FS_Intersection
<1>3. /\ Cardinality(S) \in Nat /\ Cardinality(T) \in Nat
      /\ Cardinality(S \cap T) \in Nat /\ Cardinality(S \cup T) \in Nat
  BY <1>1, <1>2, FS_CardinalityType
<1>4. QED
  BY <1>1, <1>3

Slots == (1..5) \X Ops

(* Three values and five per request leave a value to spare. *)
LEMMA SpareIsFresh ==
    ASSUME NEW used, NEW A, IsFiniteSet(A), Cardinality(A) <= 3,
           NEW m, m = [x \in Slots |-> m[x]], used \subseteq A \cup {m[x] : x \in Slots}
    PROVE  Spare(used) \notin used
<1> DEFINE T == {m[x] : x \in Slots}
           U == A \cup T
<1>1. IsFiniteSet(Ops) /\ Cardinality(Ops) \in Nat
  BY SizeAssumption, FS_CardinalityType
<1>2. IsFiniteSet(1..5) /\ Cardinality(1..5) = 5
  <2>1. \A a, b \in Int : a <= b => IsFiniteSet(a..b) /\ Cardinality(a..b) = b - a + 1
    BY FS_Interval
  <2>2. 1 \in Int /\ 5 \in Int /\ 1 <= 5
    OBVIOUS
  <2>3. IsFiniteSet(1..5) /\ Cardinality(1..5) = 5 - 1 + 1
    BY <2>1, <2>2, Zenon
  <2>4. QED
    BY <2>3
<1>3. IsFiniteSet(Slots) /\ Cardinality(Slots) = 5 * Cardinality(Ops)
  BY <1>1, <1>2, FS_Product DEF Slots
<1>4. IsFiniteSet(T) /\ Cardinality(T) <= 5 * Cardinality(Ops)
  BY <1>3, ImageBound
<1> HIDE DEF T
<1>5. /\ IsFiniteSet(U) /\ Cardinality(U) \in Nat
      /\ Cardinality(U) <= 3 + 5 * Cardinality(Ops)
  BY <1>1, <1>4, UnionBound
<1>6. used \subseteq U
  BY DEF T
<1> HIDE DEF U
<1>7. ~(Revs \subseteq used)
  <2> SUFFICES ASSUME Revs \subseteq U PROVE FALSE
    BY <1>6
  <2>1. IsFiniteSet(Revs) /\ Cardinality(Revs) <= Cardinality(U)
    BY <1>5, FS_Subset
  <2>2. Cardinality(Revs) \in Nat
    BY <2>1, FS_CardinalityType
  <2>3. Cardinality(Revs) > 3 + 5 * Cardinality(Ops)
    BY <2>1, RevsAssumption
  <2>4. QED
    BY <1>1, <1>5, <2>1, <2>2, <2>3
<1>8. PICK r \in Revs : r \notin used
  BY <1>7
<1>9. \E x \in Revs : x \notin used \/ Revs \subseteq used
  BY <1>8
<1>10. Spare(used) \notin used \/ Revs \subseteq used
  BY <1>9 DEF Spare
<1>11. QED
  BY <1>7, <1>10

(* A set of three is that small. *)
LEMMA ThreeValues ==
    ASSUME NEW a, NEW b, NEW c
    PROVE  IsFiniteSet({a, b, c}) /\ Cardinality({a, b, c}) <= 3
<1>1. /\ IsFiniteSet({a}) /\ Cardinality({a}) = 1
      /\ IsFiniteSet({b}) /\ Cardinality({b}) = 1
      /\ IsFiniteSet({c}) /\ Cardinality({c}) = 1
  <2>1. \A x : IsFiniteSet({x}) /\ Cardinality({x}) = 1
    BY FS_Singleton
  <2>2. QED
    BY <2>1
<1> DEFINE A == {a}
           B == {b}
           C == {c}
           AB == A \cup B
<1> HIDE DEF A, B, C
<1>2. /\ IsFiniteSet(A) /\ Cardinality(A) = 1
      /\ IsFiniteSet(B) /\ Cardinality(B) = 1
      /\ IsFiniteSet(C) /\ Cardinality(C) = 1
  BY <1>1 DEF A, B, C
<1>3. IsFiniteSet(AB) /\ Cardinality(AB) \in Nat /\ Cardinality(AB) <= 2
  BY <1>2, UnionBound
<1>4. {a, b, c} = AB \cup C
  BY DEF A, B, C
<1> HIDE DEF AB
<1>5. IsFiniteSet(AB \cup C) /\ Cardinality(AB \cup C) <= 3
  <2>1. /\ IsFiniteSet(AB \cup C) /\ Cardinality(AB \cup C) \in Nat
        /\ Cardinality(AB \cup C) <= Cardinality(AB) + Cardinality(C)
    BY <1>2, <1>3, UnionBound
  <2>2. QED
    BY <1>2, <1>3, <2>1
<1>6. QED
  BY <1>4, <1>5

(* FreshRev and FreshLog are on nothing that is remembered. *)
LEMMA FreshIsFresh == FreshRev \notin UsedRevs /\ FreshLog \notin UsedLogs
<1>0. Kept \ {None} \subseteq
         {sql, journal.orig, journal.appl}
         \cup UNION {{op[o].orig, op[o].appl, op[o].rec.orig, op[o].rec.appl} : o \in Ops}
  BY DEF Kept
<1>1. FreshRev \notin UsedRevs
  <2> DEFINE A == {sql.rev, journal.orig.rev, journal.appl.rev}
             m == [x \in Slots |-> IF x[1] = 1 THEN op[x[2]].orig.rev
                                   ELSE IF x[1] = 2 THEN op[x[2]].appl.rev
                                   ELSE IF x[1] = 3 THEN op[x[2]].rec.orig.rev
                                   ELSE IF x[1] = 4 THEN op[x[2]].rec.appl.rev ELSE op[x[2]].rev]
  <2>1. ASSUME NEW o \in Ops
        PROVE  {op[o].orig.rev, op[o].appl.rev, op[o].rec.orig.rev, op[o].rec.appl.rev, op[o].rev}
                 \subseteq {m[x] : x \in Slots}
    <3>1. /\ m[<<1, o>>] = op[o].orig.rev /\ m[<<2, o>>] = op[o].appl.rev
          /\ m[<<3, o>>] = op[o].rec.orig.rev /\ m[<<4, o>>] = op[o].rec.appl.rev
          /\ m[<<5, o>>] = op[o].rev
      BY DEF Slots
    <3> HIDE DEF m
    <3>2. {<<1, o>>, <<2, o>>, <<3, o>>, <<4, o>>, <<5, o>>} \subseteq Slots
      BY DEF Slots
    <3>3. QED
      BY <3>1, <3>2
  <2>2. m = [x \in Slots |-> m[x]]
    OBVIOUS
  <2> HIDE DEF m
  <2>3. UsedRevs \subseteq A \cup {m[x] : x \in Slots}
    BY <1>0, <2>1 DEF UsedRevs
  <2>4. IsFiniteSet(A) /\ Cardinality(A) <= 3
    BY ThreeValues
  <2> HIDE DEF A
  <2>5. QED
    BY <2>2, <2>3, <2>4, SpareIsFresh DEF FreshRev
<1>2. FreshLog \notin UsedLogs
  <2> DEFINE A == {sql.log, journal.orig.log, journal.appl.log}
             m == [x \in Slots |-> IF x[1] = 1 THEN op[x[2]].orig.log
                                   ELSE IF x[1] = 2 THEN op[x[2]].appl.log
                                   ELSE IF x[1] = 3 THEN op[x[2]].rec.orig.log
                                   ELSE op[x[2]].rec.appl.log]
  <2>1. ASSUME NEW o \in Ops
        PROVE  {op[o].orig.log, op[o].appl.log, op[o].rec.orig.log, op[o].rec.appl.log}
                 \subseteq {m[x] : x \in Slots}
    <3>1. /\ m[<<1, o>>] = op[o].orig.log /\ m[<<2, o>>] = op[o].appl.log
          /\ m[<<3, o>>] = op[o].rec.orig.log /\ m[<<4, o>>] = op[o].rec.appl.log
      BY DEF Slots
    <3> HIDE DEF m
    <3>2. {<<1, o>>, <<2, o>>, <<3, o>>, <<4, o>>} \subseteq Slots
      BY DEF Slots
    <3>3. QED
      BY <3>1, <3>2
  <2>2. m = [x \in Slots |-> m[x]]
    OBVIOUS
  <2> HIDE DEF m
  <2>3. UsedLogs \subseteq A \cup {m[x] : x \in Slots}
    BY <1>0, <2>1 DEF UsedLogs
  <2>4. IsFiniteSet(A) /\ Cardinality(A) <= 3
    BY ThreeValues
  <2> HIDE DEF A
  <2>5. QED
    BY <2>2, <2>3, <2>4, SpareIsFresh DEF FreshLog
<1>3. QED
  BY <1>1, <1>2

(* Rows with a fresh revision or a fresh log are not any that are remembered. *)
LEMMA FreshRows ==
    ASSUME NEW s \in Kept, s # None, NEW new, new.rev = FreshRev \/ new.log = FreshLog
    PROVE  new # s
<1>1. s.rev \in UsedRevs /\ s.log \in UsedLogs
  BY DEF UsedRevs, UsedLogs
<1>2. QED
  BY <1>1, FreshIsFresh
-----------------------------------------------------------------------------
(* The inductive invariant *)

Uncommitted == {"journal", "delete", "record", "commit"}
Selecting == {"idle", "locking", "loading", "begin"} \cup Replaying
Early == Selecting \cup {"plan"} \cup Uncommitted
Over == {"done", "dead"}

(* The journals that somebody may act on: the one in Redis, and those read *)
(* by requests that are replaying them.                                    *)
Held == ({journal} \cup {op[o].rec : o \in Ops}) \ {None}

(***************************************************************************)
(* A claim: whoever finds the rows appl may put orig in their place.       *)
(* Requests claim what they planned, journals what they recorded.          *)
(***************************************************************************)
Claim(own, orig, appl) == [own |-> own, orig |-> orig, appl |-> appl]
Claims ==
    {Claim(x, op[x].orig, op[x].appl) : x \in {y \in Ops : op[y].appl # None}}
    \cup {Claim(j.own, j.orig, j.appl) : j \in {k \in Held : k.appl # None}}

(* What a request's plan does to the rows it read. *)
AllIn(s, sts) == \A p \in Pages : s.row[p].st \in sts
PlanFits(x, kind, clear, orig, appl) ==
    /\ kind = "1" => appl.gen = x /\ AllIn(appl, {"queued", "done"})
    /\ kind # "1" => appl.gen = orig.gen
    /\ kind # "1" /\ clear => AllIn(appl, {"none"})
    /\ kind = "0" => \A p \in Pages : appl.row[p].st # "none" =>
                        appl.row[p].st = "done" /\ orig.row[p].st = "done"
    /\ kind = "2" /\ ~clear =>
         /\ appl.run = "2"
         /\ \A p \in Pages : appl.row[p] = CancelledRow(orig.row[p])

(* What a request in state r remembers at its place in _operate. *)
LocalOk(x, r) ==
    /\ r.pc \in Selecting => r.appl = None /\ r.fl = {}
    /\ r.pc \in Early \cup {"requeue"} => r.ack = {} /\ r.unc = {}
    /\ r.pc \in Selecting \cup {"plan"} \cup Over => r.jn = "none"
    /\ r.pc \in {"plan"} \cup Over => r.appl = None
    /\ r.rec # None => r.pc \in Replaying
    /\ r.pc \in {"plan"} \cup Uncommitted => \A n \in r.fl : n[1] \in LiveIds(r.orig)
    /\ r.appl # None => PlanFits(x, r.kind, r.clear, r.orig, r.appl)
    /\ r.pc \in {"requeue", "submit"} => r.kind = "1"
    /\ r.ack \cup r.unc # {} => r.kind = "1"
    /\ r.pc \in {"journal", "delete", "record"} \/ r.jn # "none" => r.kind = "1" \/ r.clear
    /\ r.kind = "1" /\ r.pc \notin Over => r.fl = {}
LocalInv == \A x \in Ops : LocalOk(x, op[x])

(***************************************************************************)
(* A request that committed a reset or a cancel holds the tasks it stopped *)
(* until it closes, and a cancel that keeps their rows for good: the rows, *)
(* and all rows that a chain of compensations and replays by others can    *)
(* put in their place, have none of these tasks or have them cancelled.    *)
(***************************************************************************)
HoldingAt(r) ==
    /\ r.fl # {}
    /\ \/ r.pc \in {"clear", "done"}
       \/ r.kind = "2" /\ ~r.clear /\ r.pc = "closing" /\ r.res = "ok"
Sticks(s, fl) ==
    \A n \in fl : n[1] \in Ids(s) => s.row[n[1][2]].st = "cancelled" /\ s.run = "2"
Closed(S, x) == \A P \in Claims : P.own # x /\ P.appl \in S => P.orig \in S
Covers(S, x) == sql \in S /\ Closed(S, x) /\ \A s \in S : Sticks(s, op[x].fl)
StickInv == \A x \in Ops : HoldingAt(op[x]) => \E S : Covers(S, x)

(* The writer of a journal never has ended and holds a cancel. *)
OwnAt(r) == (r.pc \in Over /\ r.fl = {}) \/ r.jn # "none"
OwnInv == \A j \in Held : j.own \in Ops /\ OwnAt(op[j.own])

(* Nobody has seen the tasks of a request that did not commit yet. *)
GenInv == \A x \in Ops : op[x].pc \in Early =>
    /\ sql.gen # x
    /\ \A P \in Claims : P.orig.gen # x /\ (P.appl.gen = x => P.own = x)
    /\ \A y \in Ops : \A n \in op[y].fl : n[1][1] # x

(* Nor has anybody else seen the rows it is going to commit. *)
FreshInv == \A x \in Ops : op[x].pc \in Uncommitted =>
    \A P \in Claims : P.appl = op[x].appl => P.own = x /\ P.orig = op[x].orig

(* A journal that is being replayed applies to the rows, its writer ended. *)
RecFits(s, r) ==
    r.pc = "recommit" => s = r.rec.orig \/ (r.rec.appl # None /\ s = r.rec.appl)
WriterOver(r) == r.pc = "recommit" => op[r.rec.own].pc \in Over
RecInv == \A x \in Ops : RecFits(sql, op[x]) /\ WriterOver(op[x])

CInv == LocalInv /\ StickInv /\ OwnInv /\ GenInv /\ FreshInv /\ RecInv

-----------------------------------------------------------------------------
(* How claims and rows move *)

(* A request goes on from op[o] to r without new claims. *)
Proceeds(o, r) ==
    /\ r.appl = None \/ (r.appl = op[o].appl /\ r.orig = op[o].orig)
    /\ \A n \in r.fl : n \in op[o].fl \/ n[1][1] = sql.gen
    /\ r.pc \in Early => op[o].pc \in Early
    /\ r.pc \in Uncommitted => op[o].pc \in Uncommitted /\ r.appl = op[o].appl
                                /\ r.orig = op[o].orig
    /\ r.rec \in {None, op[o].rec, journal}
    /\ op[o].pc \notin Over
    /\ op[o].jn # "none" => r.jn # "none" \/ (r.pc \in Over /\ r.fl = {})
    /\ WriterOver(r)
HoldsOn(o, r) == HoldingAt(r) => HoldingAt(op[o]) /\ r.fl = op[o].fl

(* The journal stays, goes, or becomes one that this request wrote. *)
JournalMove(o, r) ==
    \/ journal' \in {journal, None}
    \/ /\ journal'.own = o /\ r.jn # "none"
       /\ journal'.appl = None
            \/ (op[o].appl # None /\ journal'.appl = op[o].appl /\ journal'.orig = op[o].orig)

(* The rows change to ones nobody claims, without reviving a stopped task. *)
Renewed(s, new) ==
    /\ new.rev = FreshRev \/ new.log = FreshLog
    /\ new.gen = s.gen
    /\ Ids(new) \subseteq Ids(s)
    /\ \A p \in Pages : s.row[p].st = "cancelled" => new.row[p].st = "cancelled"
    /\ s.run = "2" /\ (\E p \in Pages : s.row[p].st = "cancelled") => new.run = "2"

(* The rows stay, change to new ones, or are taken back by a claim. *)
SqlMove ==
    \/ sql' = sql
    \/ Renewed(sql, sql')
    \/ \E P \in Claims : sql = P.appl /\ sql' = P.orig /\ P.own \in Ops /\ ~HoldingAt(op[P.own])

(* Whatever its author, a generation that nobody has seen stays unseen. *)
GenMove ==
    \/ sql'.gen = sql.gen
    \/ \E P \in Claims : \/ sql' = P.orig
                         \/ sql' = P.appl /\ op'[P.own].pc \notin Early

(* What is claimed is remembered. *)
LEMMA ClaimsKept ==
    ASSUME NEW P \in Claims
    PROVE  P.appl \in Kept /\ P.appl # None
<1>1. CASE \E x \in Ops : op[x].appl # None /\ P = Claim(x, op[x].orig, op[x].appl)
  BY <1>1 DEF Kept, Claim
<1>2. CASE \E j \in Held : j.appl # None /\ P = Claim(j.own, j.orig, j.appl)
  BY <1>2 DEF Kept, Claim, Held
<1>3. QED
  BY <1>1, <1>2 DEF Claims

(* New rows are not claimed. *)
LEMMA RenewedUnclaimed ==
    ASSUME NEW new, NEW s, Renewed(s, new), NEW P \in Claims
    PROVE  P.appl # new
<1>1. P.appl \in Kept /\ P.appl # None
  BY ClaimsKept
<1>2. QED
  BY <1>1, FreshRows DEF Renewed

(* Stopped tasks stay stopped in new rows. *)
LEMMA RenewedSticks ==
    ASSUME NEW s \in Sql, NEW new \in Sql, Renewed(s, new), NEW fl, Sticks(s, fl)
    PROVE  Sticks(new, fl)
<1> SUFFICES ASSUME NEW n \in fl, n[1] \in Ids(new)
             PROVE  new.row[n[1][2]].st = "cancelled" /\ new.run = "2"
  BY DEF Sticks
<1>1. n[1] \in Ids(s)
  BY DEF Renewed
<1>2. n[1][2] \in Pages
  BY <1>1 DEF Ids, Present
<1>3. s.row[n[1][2]].st = "cancelled" /\ s.run = "2"
  BY <1>1 DEF Sticks
<1>4. QED
  BY <1>2, <1>3 DEF Renewed

(* A cancel that is held stays held when the claims do not grow. *)
LEMMA StickKept ==
    ASSUME CInv, sql \in Sql, sql' \in Sql, SqlMove, Claims' \subseteq Claims,
           \A x \in Ops : HoldingAt(op'[x]) => HoldingAt(op[x]) /\ op'[x].fl = op[x].fl
    PROVE  StickInv'
<1> SUFFICES ASSUME NEW x \in Ops, HoldingAt(op'[x]) PROVE (\E S : Covers(S, x))'
  BY DEF StickInv
<1>1. HoldingAt(op[x]) /\ op'[x].fl = op[x].fl
  OBVIOUS
<1>2. PICK S : Covers(S, x)
  BY <1>1 DEF CInv, StickInv
<1>3. CASE sql' = sql
  <2>1. Covers(S, x)'
    BY <1>1, <1>2, <1>3 DEF Covers, Closed
  <2>2. QED
    BY <2>1
<1>4. CASE Renewed(sql, sql')
  <2>1. PICK T : T = {sql'}
    OBVIOUS
  <2>2. \A P \in Claims : P.appl # sql'
    BY <1>4, RenewedUnclaimed
  <2>3. Closed(T, x)'
    BY <2>1, <2>2 DEF Closed
  <2>4. Sticks(sql', op[x].fl)
    BY <1>2, <1>4, RenewedSticks DEF Covers
  <2>5. Covers(T, x)'
    BY <1>1, <2>1, <2>3, <2>4 DEF Covers
  <2>6. QED
    BY <2>5
<1>5. ASSUME NEW P \in Claims, sql = P.appl, sql' = P.orig, P.own \in Ops, ~HoldingAt(op[P.own])
      PROVE  (\E U : Covers(U, x))'
  <2>1. P.own # x
    BY <1>1, <1>5
  <2>2. sql' \in S
    BY <1>2, <1>5, <2>1 DEF Covers, Closed
  <2>3. Covers(S, x)'
    BY <1>1, <1>2, <2>2 DEF Covers, Closed
  <2>4. QED
    BY <2>3
<1>6. QED
  BY <1>3, <1>4, <1>5 DEF SqlMove

(* Unseen generations stay unseen when the claims do not grow. *)
LEMMA GenKept ==
    ASSUME CInv, GenMove, Claims' \subseteq Claims,
           \A x \in Ops : /\ op'[x].pc \in Early => op[x].pc \in Early
                          /\ \A n \in op'[x].fl : n \in op[x].fl \/ n[1][1] = sql.gen
    PROVE  GenInv'
<1> SUFFICES ASSUME NEW x \in Ops, op'[x].pc \in Early
             PROVE  /\ sql'.gen # x
                    /\ \A P \in Claims' : P.orig.gen # x /\ (P.appl.gen = x => P.own = x)
                    /\ \A y \in Ops : \A n \in op'[y].fl : n[1][1] # x
  BY DEF GenInv
<1>1. /\ sql.gen # x
      /\ \A P \in Claims : P.orig.gen # x /\ (P.appl.gen = x => P.own = x)
      /\ \A y \in Ops : \A n \in op[y].fl : n[1][1] # x
  BY DEF CInv, GenInv
<1>2. sql'.gen # x
  BY <1>1 DEF GenMove
<1>3. QED
  BY <1>1, <1>2

(* Rows about to be committed stay private when the claims do not grow. *)
LEMMA FreshKept ==
    ASSUME CInv, Claims' \subseteq Claims,
           \A x \in Ops : op'[x].pc \in Uncommitted =>
               op[x].pc \in Uncommitted /\ op'[x].appl = op[x].appl /\ op'[x].orig = op[x].orig
    PROVE  FreshInv'
  BY DEF CInv, FreshInv

(* The writers of the held journals still are not holding a cancel. *)
LEMMA OwnKept ==
    ASSUME CInv,
           \A j \in Held' : j \in Held \/ (j.own \in Ops /\ op'[j.own].jn # "none"),
           \A x \in Ops : OwnAt(op[x]) => OwnAt(op'[x])
    PROVE  OwnInv'
  BY DEF CInv, OwnInv, OwnAt

(* The requests that replay a journal keep their rows. *)
LEMMA RecKept ==
    ASSUME NEW o \in Ops, NEW r, CInv, op' = [op EXCEPT ![o] = r], op \in [Ops -> OpStates],
           RecFits(sql', r), sql' = sql \/ \A x \in Ops \ {o} : op[x].pc # "recommit",
           WriterOver(r), op[o].pc \notin Over
    PROVE  RecInv'
<1> SUFFICES ASSUME NEW x \in Ops PROVE RecFits(sql', op'[x]) /\ WriterOver(op[x])'
  BY DEF RecInv
<1>1. op'[o] = r /\ \A y \in Ops \ {o} : op'[y] = op[y]
  OBVIOUS
<1>2. \A y : op[y].pc \in Over => op'[y].pc \in Over
  BY DEF Over
<1>3. CASE x = o
  BY <1>1, <1>2, <1>3 DEF WriterOver
<1>4. CASE x # o
  BY <1>1, <1>2, <1>4 DEF CInv, RecInv, RecFits, WriterOver
<1>5. QED
  BY <1>3, <1>4

(* Whoever may change the rows is alone with them. *)
LEMMA AloneWithRows ==
    ASSUME NEW o \in Ops, Inv, lock = None \/ op[o].pc \in OpLocks
    PROVE  \A x \in Ops \ {o} : op[x].pc # "recommit"
  BY PartiesAssumption DEF Inv, LocksHeld, OpLocks

(* A request that proceeds adds no claim. *)
LEMMA NoNewClaims ==
    ASSUME NEW o \in Ops, NEW r, op' = [op EXCEPT ![o] = r], op \in [Ops -> OpStates],
           Proceeds(o, r), JournalMove(o, r)
    PROVE  /\ Claims' \subseteq Claims
           /\ \A j \in Held' : j \in Held \/ (j.own = o /\ r.jn # "none")
<1>1. op'[o] = r /\ \A x \in Ops \ {o} : op'[x] = op[x]
  OBVIOUS
<1>2. \A j \in Held' : j \in Held \/ (j = journal' /\ j \notin {journal, None})
  BY <1>1 DEF Held, Proceeds
<1>3. ASSUME NEW P \in Claims' PROVE P \in Claims
  <2>1. CASE \E x \in Ops : op'[x].appl # None /\ P = Claim(x, op'[x].orig, op'[x].appl)
    <3>1. PICK x \in Ops : op'[x].appl # None /\ P = Claim(x, op'[x].orig, op'[x].appl)
      BY <2>1
    <3>2. op[x].appl # None /\ P = Claim(x, op[x].orig, op[x].appl)
      BY <1>1, <3>1 DEF Proceeds
    <3>3. QED
      BY <3>2 DEF Claims
  <2>2. CASE \E j \in Held' : j.appl # None /\ P = Claim(j.own, j.orig, j.appl)
    <3>1. PICK j \in Held' : j.appl # None /\ P = Claim(j.own, j.orig, j.appl)
      BY <2>2
    <3>2. CASE j \in Held
      BY <3>1, <3>2 DEF Claims
    <3>3. CASE j \notin Held
      <4>1. op[o].appl # None /\ P = Claim(o, op[o].orig, op[o].appl)
        BY <1>2, <3>1, <3>3 DEF JournalMove
      <4>2. QED
        BY <4>1 DEF Claims
    <3>4. QED
      BY <3>2, <3>3
  <2>3. QED
    BY <2>1, <2>2 DEF Claims
<1>4. QED
  BY <1>2, <1>3 DEF JournalMove

(* A step of one request that claims nothing new keeps the invariant. *)
LEMMA StepCancel ==
    ASSUME NEW o \in Ops, NEW r, Inv, Inv', CInv, Become(o, r), LocalOk(o, r), Proceeds(o, r),
           HoldsOn(o, r), JournalMove(o, r), SqlMove, RecFits(sql', r),
           sql' = sql \/ lock = None \/ op[o].pc \in OpLocks
    PROVE  CInv'
<1>1. /\ op' = [op EXCEPT ![o] = r] /\ op \in [Ops -> OpStates]
      /\ sql \in Sql /\ sql' \in Sql
  BY DEF Become, Inv, Typed, TypeOK
<1>2. op'[o] = r /\ \A x \in Ops \ {o} : op'[x] = op[x]
  BY <1>1
<1>3. /\ Claims' \subseteq Claims
      /\ \A j \in Held' : j \in Held \/ (j.own = o /\ r.jn # "none")
  BY <1>1, NoNewClaims
<1>4. LocalInv'
  BY <1>2 DEF CInv, LocalInv
<1>5. StickInv'
  <2>1. \A x \in Ops : HoldingAt(op'[x]) => HoldingAt(op[x]) /\ op'[x].fl = op[x].fl
    BY <1>2 DEF HoldsOn
  <2>2. QED
    BY <1>1, <1>3, <2>1, StickKept
<1>6. GenInv'
  <2>1. \A x \in Ops : /\ op'[x].pc \in Early => op[x].pc \in Early
                       /\ \A n \in op'[x].fl : n \in op[x].fl \/ n[1][1] = sql.gen
    BY <1>2 DEF Proceeds
  <2>2. GenMove
    BY DEF SqlMove, GenMove, Renewed
  <2>3. QED
    BY <1>3, <2>1, <2>2, GenKept
<1>7. FreshInv'
  <2>1. \A x \in Ops : op'[x].pc \in Uncommitted =>
            op[x].pc \in Uncommitted /\ op'[x].appl = op[x].appl /\ op'[x].orig = op[x].orig
    BY <1>2 DEF Proceeds
  <2>2. QED
    BY <1>3, <2>1, FreshKept
<1>8. OwnInv'
  <2>1. \A x \in Ops : OwnAt(op[x]) => OwnAt(op'[x])
    BY <1>2 DEF Proceeds, OwnAt
  <2>2. \A j \in Held' : j \in Held \/ (j.own \in Ops /\ op'[j.own].jn # "none")
    BY <1>2, <1>3
  <2>3. QED
    BY <2>1, <2>2, OwnKept
<1>9. RecInv'
  <2>1. sql' = sql \/ \A x \in Ops \ {o} : op[x].pc # "recommit"
    BY AloneWithRows
  <2>2. QED
    BY <1>1, <2>1, RecKept DEF Proceeds
<1>10. QED
  BY <1>4, <1>5, <1>6, <1>7, <1>8, <1>9 DEF CInv

(* Executors and the poller only renew the rows, and nobody has their lock. *)
LEMMA RowsCancel ==
    ASSUME Inv, Inv', CInv, UNCHANGED <<op, journal>>, sql' = sql \/ Renewed(sql, sql'),
           sql' = sql \/ \A x \in Ops : op[x].pc # "recommit"
    PROVE  CInv'
<1>1. Claims' = Claims /\ Held' = Held
  BY DEF Claims, Held
<1>2. LocalInv' /\ FreshInv' /\ OwnInv'
  BY <1>1 DEF CInv, LocalInv, FreshInv, OwnInv
<1>3. RecInv'
  BY DEF CInv, RecInv, RecFits, WriterOver
<1>4. sql \in Sql /\ sql' \in Sql /\ SqlMove /\ GenMove
  BY DEF Inv, Typed, TypeOK, SqlMove, GenMove, Renewed
<1>5. StickInv' /\ GenInv'
  BY <1>1, <1>4, StickKept, GenKept
<1>6. QED
  BY <1>2, <1>3, <1>5 DEF CInv

-----------------------------------------------------------------------------
(* Every step of a request keeps the invariant *)

(* A request in state r fits the invariant after its step. *)
Fits(o, r) == LocalOk(o, r) /\ Proceeds(o, r) /\ HoldsOn(o, r)

(* What is known of a request before its step. *)
LEMMA LocalAt ==
    ASSUME NEW o \in Ops, Inv, CInv
    PROVE  op[o] \in OpStates /\ KnowsAt(op[o]) /\ LocalOk(o, op[o])
  BY OpType DEF CInv, LocalInv

(* A step that leaves the rows alone and at most removes the journal. *)
LEMMA QuietCancel ==
    ASSUME NEW o \in Ops, NEW r, Inv, Inv', CInv, Become(o, r), Fits(o, r), RecFits(sql, r),
           sql' = sql, journal' \in {journal, None}
    PROVE  CInv'
<1>1. JournalMove(o, r) /\ SqlMove /\ RecFits(sql', r)
  BY DEF JournalMove, SqlMove
<1>2. QED
  BY <1>1, StepCancel DEF Fits

(* A request that ends keeps the stopped tasks only of a confirmed cancel. *)
LEMMA EndFits ==
    ASSUME NEW o \in Ops, NEW pc \in {"done", "dead"}, NEW res \in Results, Inv, CInv,
           op[o].pc \notin Over,
           res = "ok" => op[o].kind = "1" \/ (op[o].pc = "closing" /\ op[o].res = "ok")
    PROVE  Fits(o, Ended(o, pc, res)) /\ \A s : RecFits(s, Ended(o, pc, res))
<1> DEFINE r == Ended(o, pc, res)
<1>1. op[o] \in OpStates /\ KnowsAt(op[o]) /\ LocalOk(o, op[o])
  BY LocalAt
<1>2. /\ r.pc = pc /\ r.fl = Stopped(o, res) /\ r.appl = None /\ r.rec = None
      /\ r.jn = "none" /\ r.ack = {} /\ r.unc = {}
  BY DEF Ended, NewOp
<1> HIDE DEF r
<1>3. LocalOk(o, r)
  BY <1>2 DEF LocalOk, Selecting, Replaying, Early, Uncommitted, Over
<1>4. r.fl # {} => HoldingAt(op[o]) /\ r.fl = op[o].fl /\ op[o].kind = "2" /\ ~op[o].clear
  BY <1>2 DEF Stopped, HoldingAt
<1>5. HoldsOn(o, r)
  BY <1>4 DEF HoldsOn, HoldingAt
<1>6. op[o].jn # "none" => r.fl = {}
  BY <1>1, <1>4 DEF LocalOk
<1>7. \A n \in r.fl : n \in op[o].fl
  BY <1>4
<1>8. Proceeds(o, r)
  BY <1>2, <1>6, <1>7 DEF Proceeds, WriterOver, Early, Selecting, Replaying, Uncommitted, Over
<1>9. QED
  BY <1>2, <1>3, <1>5, <1>8 DEF Fits, RecFits, r

(* A request that ends with the rows as they were. *)
LEMMA EndCancel ==
    ASSUME NEW o \in Ops, NEW pc \in {"done", "dead"}, NEW res \in Results, Inv, Inv', CInv,
           op[o].pc \notin Over, Become(o, Ended(o, pc, res)),
           res = "ok" => op[o].kind = "1" \/ (op[o].pc = "closing" /\ op[o].res = "ok"),
           sql' = sql, journal' \in {journal, None}
    PROVE  CInv'
  BY EndFits, QuietCancel

(* Preflight reads. *)
LEMMA PreflightCancel == ASSUME NEW o \in Ops, Inv, Inv', CInv, Preflight(o) PROVE CInv'
<1>1. PICK kind \in Kinds, clear \in BOOLEAN, cfg \in Cfgs :
        Become(o, [op[o] EXCEPT !.pc = "locking", !.kind = kind, !.clear = clear,
                                !.cfg = cfg, !.rev = sql.rev, !.sel = Ids(sql)])
  BY DEF Preflight
<1> DEFINE r == [op[o] EXCEPT !.pc = "locking", !.kind = kind, !.clear = clear,
                              !.cfg = cfg, !.rev = sql.rev, !.sel = Ids(sql)]
<1>2. op[o] \in OpStates /\ LocalOk(o, op[o])
  BY LocalAt
<1>3. Fits(o, r) /\ RecFits(sql, r)
  BY <1>2 DEF Preflight, OpStates, Fits, LocalOk, Proceeds, HoldsOn, HoldingAt, RecFits, WriterOver,
              Early, Selecting, Replaying, Uncommitted, Over
<1>4. QED
  BY <1>1, <1>3, QuietCancel DEF Preflight

(* Locking claims nothing. *)
LEMMA LockRowsCancel == ASSUME NEW o \in Ops, Inv, Inv', CInv, LockRows(o) PROVE CInv'
<1>1. CASE Become(o, [op[o] EXCEPT !.pc = "loading", !.rev = None])
  <2> DEFINE r == [op[o] EXCEPT !.pc = "loading", !.rev = None]
  <2>1. op[o] \in OpStates /\ LocalOk(o, op[o])
    BY LocalAt
  <2>2. Fits(o, r) /\ RecFits(sql, r)
    BY <2>1 DEF LockRows, OpStates, Fits, LocalOk, Proceeds, HoldsOn, HoldingAt, RecFits, WriterOver,
                Early, Selecting, Replaying, Uncommitted, Over
  <2>3. QED
    BY <1>1, <2>2, QuietCancel DEF LockRows
<1>2. CASE Become(o, Ended(o, "done", "refused"))
  BY <1>2, EndCancel DEF LockRows, Over, Results
<1>3. QED
  BY <1>1, <1>2 DEF LockRows

(* The journal that is read is one of those held. *)
LEMMA LoadJournalCancel == ASSUME NEW o \in Ops, Inv, Inv', CInv, LoadJournal(o) PROVE CInv'
<1> DEFINE r == [op[o] EXCEPT !.pc = IF journal = None THEN "begin" ELSE "recover",
                              !.rec = journal]
<1>1. op[o] \in OpStates /\ LocalOk(o, op[o])
  BY LocalAt
<1>2. Fits(o, r) /\ RecFits(sql, r)
  BY <1>1 DEF LoadJournal, OpStates, Fits, LocalOk, Proceeds, HoldsOn, HoldingAt, RecFits, WriterOver,
              Early, Selecting, Replaying, Uncommitted, Over
<1>3. QED
  BY <1>2, QuietCancel DEF LoadJournal

(* A replay that is refused ends the request. *)
LEMMA RefuseCancel ==
    ASSUME NEW o \in Ops, Inv, Inv', CInv, Refuse(o), op[o].pc \notin Over, sql' = sql,
           journal' \in {journal, None}
    PROVE  CInv'
  BY EndCancel DEF Refuse, Results

(* The journal read is dropped, here and possibly in Redis. *)
LEMMA SkipJournalCancel == ASSUME NEW o \in Ops, Inv, Inv', CInv, SkipJournal(o) PROVE CInv'
<1> DEFINE r == [op[o] EXCEPT !.pc = "begin", !.rec = None]
<1>1. op[o] \in OpStates /\ LocalOk(o, op[o])
  BY LocalAt
<1>2. op[o].pc = "recover" /\ sql' = sql /\ journal' \in {journal, None}
  BY DEF SkipJournal
<1>3. Fits(o, r) /\ RecFits(sql, r)
  BY <1>1, <1>2 DEF OpStates, Fits, LocalOk, Proceeds, HoldsOn, HoldingAt, RecFits, WriterOver,
                    Early, Selecting, Replaying, Uncommitted, Over
<1>4. CASE Become(o, r)
  BY <1>2, <1>3, <1>4, QuietCancel
<1>5. CASE Refuse(o)
  BY <1>2, <1>5, RefuseCancel DEF Over
<1>6. QED
  BY <1>4, <1>5 DEF SkipJournal

(* The journal that is replayed applies to the rows. *)
LEMMA ReplayHistoryCancel == ASSUME NEW o \in Ops, Inv, Inv', CInv, ReplayHistory(o) PROVE CInv'
<1> DEFINE r == [op[o] EXCEPT !.pc = "recommit"]
<1>1. op[o] \in OpStates /\ LocalOk(o, op[o])
  BY LocalAt
<1>2. /\ op[o].pc = "recover" /\ sql' = sql /\ journal' = journal
      /\ ~JournalStale(op[o].rec) /\ op[op[o].rec.own].pc \in Over
  BY DEF ReplayHistory, OwnerActive, Over
<1>3. Fits(o, r) /\ RecFits(sql, r)
  BY <1>1, <1>2 DEF OpStates, Fits, LocalOk, Proceeds, HoldsOn, HoldingAt, RecFits, WriterOver,
                    JournalStale, JournalUnchanged, JournalOwned,
                    Early, Selecting, Replaying, Uncommitted, Over
<1>4. CASE Goto(o, "recommit")
  BY <1>2, <1>3, <1>4, QuietCancel DEF Goto
<1>5. CASE Refuse(o)
  BY <1>2, <1>5, RefuseCancel DEF Over
<1>6. QED
  BY <1>4, <1>5 DEF ReplayHistory

(* A step that does not touch the rows, from one place after Begin to another. *)
LEMMA GoOnFits ==
    ASSUME NEW o \in Ops, NEW r, Inv, CInv,
           r.kind = op[o].kind, r.clear = op[o].clear, r.orig = op[o].orig, r.appl = op[o].appl,
           r.rec = op[o].rec, r.fl = op[o].fl, op[o].pc \notin Selecting \cup {"plan"} \cup Over,
           r.pc \notin Selecting \cup {"plan"} \cup Over,
           r.pc \in Uncommitted => op[o].pc \in Uncommitted,
           r.pc \in Uncommitted \cup {"requeue"} => r.ack = op[o].ack /\ r.unc = op[o].unc,
           r.pc = "requeue" => op[o].pc \in Uncommitted \cup {"requeue"},
           r.pc \in {"requeue", "submit"} \/ r.ack \cup r.unc # op[o].ack \cup op[o].unc
               => op[o].kind = "1",
           r.pc \in {"journal", "delete", "record"} \/ r.jn # op[o].jn
               => op[o].pc \in {"journal", "delete", "record"},
           r.jn = op[o].jn \/ r.jn # "none",
           HoldsOn(o, r)
    PROVE  Fits(o, r) /\ \A s : RecFits(s, r)
<1>1. op[o] \in OpStates /\ LocalOk(o, op[o])
  BY LocalAt
<1>2. LocalOk(o, r)
  BY <1>1 DEF LocalOk, Early, Selecting, Replaying, Uncommitted, Over
<1>3. Proceeds(o, r)
  BY <1>1 DEF Proceeds, WriterOver, LocalOk, Early, Selecting, Replaying, Uncommitted, Over
<1>4. QED
  BY <1>2, <1>3 DEF Fits, RecFits, Selecting, Replaying

(* A step of that kind which leaves the rows alone. *)
LEMMA GoOnCancel ==
    ASSUME NEW o \in Ops, NEW r, Inv, Inv', CInv, Become(o, r), Fits(o, r),
           \A s : RecFits(s, r), sql' = sql, JournalMove(o, r)
    PROVE  CInv'
<1>1. SqlMove /\ RecFits(sql', r)
  BY DEF SqlMove
<1>2. QED
  BY <1>1, StepCancel DEF Fits

(* The replay's commit puts the claimed rows back. *)
LEMMA ReplayCommitCancel == ASSUME NEW o \in Ops, Inv, Inv', CInv, ReplayCommit(o) PROVE CInv'
<1> DEFINE j == op[o].rec
           r == [op[o] EXCEPT !.pc = "relock"]
<1>1. op[o] \in OpStates /\ KnowsAt(op[o]) /\ LocalOk(o, op[o])
  BY LocalAt
<1>2. /\ op[o].pc = "recommit" /\ journal' = journal /\ sql' \in {sql, j.orig}
      /\ op[o].pc \in OpLocks
  BY DEF ReplayCommit, OpLocks
<1>3. j \in Journals /\ j # None /\ j \in Held
  BY <1>1, <1>2, AbsenceAssumption DEF KnowsAt, Replaying, Held
<1>4. sql = j.orig \/ (j.appl # None /\ sql = j.appl)
  BY <1>2 DEF CInv, RecInv, RecFits
<1>5. j.own \in Ops /\ ~HoldingAt(op[j.own])
  <2>1. /\ j.own \in Ops /\ OwnAt(op[j.own]) /\ LocalOk(j.own, op[j.own])
        /\ op[j.own].pc \in Over
    BY <1>2, <1>3 DEF CInv, OwnInv, LocalInv, RecInv, WriterOver
  <2>2. QED
    BY <2>1 DEF OwnAt, HoldingAt, LocalOk, Over
<1>6. SqlMove
  <2>1. CASE sql' = sql
    BY <2>1 DEF SqlMove
  <2>2. CASE j.appl # None /\ sql = j.appl /\ sql' = j.orig
    <3>1. Claim(j.own, j.orig, j.appl) \in Claims
      BY <1>3, <2>2 DEF Claims
    <3>2. QED
      BY <1>5, <2>2, <3>1 DEF SqlMove, Claim
  <2>3. QED
    BY <1>2, <1>4, <2>1, <2>2
<1>7. Fits(o, r) /\ RecFits(sql', r)
  BY <1>1, <1>2 DEF OpStates, Fits, LocalOk, Proceeds, HoldsOn, HoldingAt, RecFits, WriterOver,
                    Early, Selecting, Replaying, Uncommitted, Over
<1>8. CASE Become(o, r)
  <2>1. JournalMove(o, r)
    BY <1>2 DEF JournalMove
  <2>2. QED
    BY <1>2, <1>6, <1>7, <1>8, <2>1, StepCancel DEF Fits
<1>9. CASE Become(o, Ended(o, "done", "refused"))
  <2> DEFINE e == Ended(o, "done", "refused")
  <2>1. Fits(o, e) /\ RecFits(sql', e)
    BY <1>2, EndFits DEF Over, Results
  <2>2. JournalMove(o, e)
    BY <1>2 DEF JournalMove
  <2> HIDE DEF e
  <2>3. Become(o, e)
    BY <1>9 DEF e
  <2>4. QED
    BY <1>2, <1>6, <2>1, <2>2, <2>3, StepCancel DEF Fits
<1>10. QED
  BY <1>8, <1>9 DEF ReplayCommit, Goto

(* The request goes on from the restored rows, or leaves them. *)
LEMMA ReplayRelockCancel == ASSUME NEW o \in Ops, Inv, Inv', CInv, ReplayRelock(o) PROVE CInv'
<1> DEFINE r == [op[o] EXCEPT !.pc = "begin", !.rec = None]
<1>1. op[o] \in OpStates /\ LocalOk(o, op[o])
  BY LocalAt
<1>2. op[o].pc = "relock" /\ sql' = sql /\ journal' \in {journal, None}
  BY DEF ReplayRelock
<1>3. Fits(o, r) /\ RecFits(sql, r)
  BY <1>1, <1>2 DEF OpStates, Fits, LocalOk, Proceeds, HoldsOn, HoldingAt, RecFits, WriterOver,
                    Early, Selecting, Replaying, Uncommitted, Over
<1>4. CASE Become(o, r)
  BY <1>2, <1>3, <1>4, QuietCancel
<1>5. CASE Become(o, Ended(o, "done", "refused"))
  BY <1>2, <1>5, EndCancel DEF Over, Results
<1>6. QED
  BY <1>4, <1>5 DEF ReplayRelock

(* The notes about stopped tasks are on tasks of the current rows. *)
LEMMA BeginCancel == ASSUME NEW o \in Ops, Inv, Inv', CInv, Begin(o) PROVE CInv'
<1> DEFINE notes == {<<t, flag[t]>> : t \in LiveIds(sql)}
<1>1. op[o] \in OpStates /\ LocalOk(o, op[o])
  BY LocalAt
<1>2. op[o].pc = "begin" /\ sql' = sql /\ journal' = journal
  BY DEF Begin
<1>3. \A n \in notes : n[1] \in LiveIds(sql) /\ n[1][1] = sql.gen
  BY DEF LiveIds
<1> HIDE DEF notes
<1>4. ASSUME NEW pc \in {"except", "plan"}, NEW fl \in {{}, notes}, op[o].kind = "1" => fl = {},
             Become(o, [op[o] EXCEPT !.pc = pc, !.orig = sql, !.fl = fl])
      PROVE  CInv'
  <2> DEFINE r == [op[o] EXCEPT !.pc = pc, !.orig = sql, !.fl = fl]
  <2>1. \A n \in fl : n[1] \in LiveIds(sql) /\ n[1][1] = sql.gen
    BY <1>3
  <2>2. Fits(o, r) /\ RecFits(sql, r)
    BY <1>1, <1>2, <1>4, <2>1 DEF OpStates, Fits, LocalOk, Proceeds, HoldsOn, HoldingAt, RecFits,
                            WriterOver, Early, Selecting, Replaying, Uncommitted, Over
  <2> HIDE DEF r
  <2>3. Become(o, r)
    BY <1>4 DEF r
  <2>4. QED
    BY <1>2, <2>2, <2>3, QuietCancel
<1>5. op[o].fl = {}
  BY <1>1, <1>2 DEF LocalOk, Selecting
<1>6. \E pc \in {"except", "plan"}, fl \in {{}, notes} :
         /\ op[o].kind = "1" => fl = {}
         /\ Become(o, [op[o] EXCEPT !.pc = pc, !.orig = sql, !.fl = fl])
  <2>1. \A pc \in {"except", "plan"} :
           [op[o] EXCEPT !.pc = pc, !.orig = sql] = [op[o] EXCEPT !.pc = pc, !.orig = sql, !.fl = {}]
    BY <1>1, <1>5 DEF OpStates
  <2>2. QED
    BY <2>1 DEF Begin, Stops, notes
<1>7. QED
  BY <1>4, <1>6

(* What Plan computes fits what the other requests rely on. *)
LEMMA PlannedFits ==
    ASSUME NEW o \in Ops, Inv
    PROVE  PlanFits(o, op[o].kind, op[o].clear, sql, Applied(o)) /\ Applied(o).rev = FreshRev
<1> DEFINE a == Applied(o)
<1>1. op[o].kind \in Kinds /\ op[o].clear \in BOOLEAN /\ sql \in Sql
  BY DEF Inv, Typed, TypeOK, OpStates
<1>2. /\ a.run = IF AllReused(o) THEN "3" ELSE op[o].kind
      /\ a.gen = IF op[o].kind = "1" THEN o ELSE sql.gen
      /\ a.rev = FreshRev
      /\ \A p \in Pages : a.row[p] = NewRow(o, p)
  BY <1>1 DEF Applied, Sql
<1> HIDE DEF a
<1>3. ASSUME op[o].kind = "1" PROVE AllIn(a, {"queued", "done"})
  BY <1>2, <1>3 DEF AllIn, NewRow, PlannedRow
<1>4. ASSUME op[o].kind # "1", op[o].clear PROVE AllIn(a, {"none"})
  BY <1>2, <1>4 DEF AllIn, NewRow, NoRow
<1>5. ASSUME op[o].kind = "0", NEW p \in Pages, a.row[p].st # "none"
      PROVE  a.row[p].st = "done" /\ sql.row[p].st = "done"
  <2>1. a.row[p] \in {NoRow, ResetRow(sql.row[p])}
    BY <1>1, <1>2, <1>5 DEF NewRow
  <2>2. QED
    BY <1>5, <2>1 DEF ResetRow, NoRow
<1>6. ASSUME op[o].kind = "2", ~op[o].clear
      PROVE  a.run = "2" /\ \A p \in Pages : a.row[p] = CancelledRow(sql.row[p])
  BY <1>2, <1>6 DEF NewRow, AllReused
<1>7. QED
  BY <1>2, <1>3, <1>4, <1>5, <1>6 DEF PlanFits, a

(* The plan claims the rows that were read, under rows nobody has seen. *)
LEMMA PlanCancel == ASSUME NEW o \in Ops, Inv, Inv', CInv, Plan(o) PROVE CInv'
<1>1. op[o] \in OpStates /\ KnowsAt(op[o]) /\ LocalOk(o, op[o])
  BY LocalAt
<1>2. op[o].pc = "plan" /\ sql' = sql /\ journal' = journal
  BY DEF Plan
<1>3. CASE Raise(o)
  <2> DEFINE r == [op[o] EXCEPT !.pc = "except"]
  <2>1. Fits(o, r) /\ RecFits(sql, r)
    BY <1>1, <1>2 DEF OpStates, Fits, LocalOk, Proceeds, HoldsOn, HoldingAt, RecFits, WriterOver,
                      Early, Selecting, Replaying, Uncommitted, Over
  <2>2. Become(o, r)
    BY <1>3 DEF Raise, Goto
  <2>3. QED
    BY <1>2, <2>1, <2>2, QuietCancel
<1>4. CASE op[o].kind = "1" /\ Become(o, Ended(o, "done", "ok"))
  BY <1>2, <1>4, EndCancel DEF Over, Results
<1>5. ASSUME NEW pc \in {"journal", "commit"}, NEW snap,
             pc = "journal" => op[o].kind = "1" \/ op[o].clear,
             Become(o, [op[o] EXCEPT !.pc = pc, !.snap = snap, !.appl = Applied(o)])
      PROVE  CInv'
  <2> DEFINE a == Applied(o)
             r == [op[o] EXCEPT !.pc = pc, !.snap = snap, !.appl = a]
             Q == Claim(o, op[o].orig, a)
  <2>1. a \in Sql /\ a # None /\ sql = op[o].orig
    BY <1>2, AppliedType, AbsenceAssumption DEF Inv, Typed, RowsDoNotMove
  <2>2. PlanFits(o, op[o].kind, op[o].clear, op[o].orig, a) /\ a.rev = FreshRev
    BY <2>1, PlannedFits
  <2>3. /\ op' = [op EXCEPT ![o] = r] /\ op \in [Ops -> OpStates]
        /\ r.pc = pc /\ r.appl = a /\ r.orig = op[o].orig /\ r.rec = op[o].rec /\ r.fl = op[o].fl
        /\ r.jn = op[o].jn /\ r.kind = op[o].kind /\ r.clear = op[o].clear
        /\ r.ack = op[o].ack /\ r.unc = op[o].unc
    BY <1>1, <1>5 DEF Become, OpStates, Inv, Typed, TypeOK
  <2> HIDE DEF r, a
  <2>4. op'[o] = r /\ \A x \in Ops \ {o} : op'[x] = op[x]
    BY <2>3
  <2>5. op[o].appl = None /\ op[o].jn = "none"
    BY <1>1, <1>2 DEF LocalOk, Selecting
  <2>6. LocalOk(o, r)
    BY <1>1, <1>2, <1>5, <2>2, <2>3 DEF LocalOk, Early, Selecting, Replaying, Uncommitted, Over
  <2>7. LocalInv'
    BY <2>4, <2>6 DEF CInv, LocalInv
  <2>8. Held' = Held
    BY <1>2, <2>3, <2>4 DEF Held
  <2>9. \A P \in Claims' : P \in Claims \/ P = Q
    <3> SUFFICES ASSUME NEW P \in Claims' PROVE P \in Claims \/ P = Q
      OBVIOUS
    <3>1. CASE \E x \in Ops : op'[x].appl # None /\ P = Claim(x, op'[x].orig, op'[x].appl)
      <4>1. PICK x \in Ops : op'[x].appl # None /\ P = Claim(x, op'[x].orig, op'[x].appl)
        BY <3>1
      <4>2. CASE x = o
        BY <2>3, <2>4, <4>1, <4>2
      <4>3. CASE x # o
        BY <2>4, <4>1, <4>3 DEF Claims
      <4>4. QED
        BY <4>2, <4>3
    <3>2. CASE \E k \in Held' : k.appl # None /\ P = Claim(k.own, k.orig, k.appl)
      BY <2>8, <3>2 DEF Claims
    <3>3. QED
      BY <3>1, <3>2 DEF Claims
  <2>10. Q.own = o /\ Q.orig = sql /\ Q.appl = a
    BY <2>1 DEF Claim
  <2> HIDE DEF Q
  <2>11. StickInv'
    <3> SUFFICES ASSUME NEW x \in Ops, HoldingAt(op'[x]) PROVE (\E S : Covers(S, x))'
      BY DEF StickInv
    <3>1. x # o
      BY <1>5, <2>3, <2>4 DEF HoldingAt
    <3>2. PICK S : Covers(S, x)
      BY <2>4, <3>1 DEF CInv, StickInv
    <3>3. Closed(S, x)'
      BY <2>9, <2>10, <3>2 DEF Covers, Closed
    <3>4. Covers(S, x)'
      BY <1>2, <2>4, <3>1, <3>2, <3>3 DEF Covers
    <3>5. QED
      BY <3>4
  <2>12. GenInv'
    <3> SUFFICES ASSUME NEW x \in Ops, op'[x].pc \in Early
                 PROVE  /\ sql'.gen # x
                        /\ \A P \in Claims' : P.orig.gen # x /\ (P.appl.gen = x => P.own = x)
                        /\ \A y \in Ops : \A n \in op'[y].fl : n[1][1] # x
      BY DEF GenInv
    <3>1. op[x].pc \in Early
      BY <1>2, <2>4 DEF Early
    <3>2. /\ sql.gen # x
          /\ \A P \in Claims : P.orig.gen # x /\ (P.appl.gen = x => P.own = x)
          /\ \A y \in Ops : \A n \in op[y].fl : n[1][1] # x
      BY <3>1 DEF CInv, GenInv
    <3>3. Q.orig.gen # x /\ (Q.appl.gen = x => Q.own = x)
      BY <2>1, <2>2, <2>10, <3>2 DEF PlanFits
    <3>4. QED
      BY <1>2, <2>3, <2>4, <2>9, <3>2, <3>3
  <2>13. FreshInv'
    <3> SUFFICES ASSUME NEW x \in Ops, op'[x].pc \in Uncommitted, NEW P \in Claims',
                        P.appl = op'[x].appl
                 PROVE  P.own = x /\ P.orig = op'[x].orig
      BY DEF FreshInv
    <3>1. CASE P = Q
      <4>1. CASE x = o
        BY <2>1, <2>3, <2>4, <2>10, <3>1, <4>1
      <4>2. CASE x # o
        <5>1. op[x].appl = a
          BY <2>4, <2>10, <3>1, <4>2
        <5>2. op[x].appl \in Kept
          BY DEF Kept
        <5>3. QED
          BY <2>1, <2>2, <5>1, <5>2, FreshRows
      <4>3. QED
        BY <4>1, <4>2
    <3>2. CASE P \in Claims
      <4>1. P.appl # a
        BY <2>2, <3>2, ClaimsKept, FreshRows
      <4>2. x # o
        BY <2>3, <2>4, <4>1
      <4>3. QED
        BY <2>4, <3>2, <4>2 DEF CInv, FreshInv
    <3>3. QED
      BY <2>9, <3>1, <3>2
  <2>14. OwnInv'
    BY <1>2, <2>3, <2>4, <2>8 DEF CInv, OwnInv, OwnAt, Over
  <2>15. RecInv'
    <3>1. RecFits(sql', r) /\ WriterOver(r)
      BY <1>5, <2>3 DEF RecFits, WriterOver
    <3>2. QED
      BY <1>2, <2>3, <3>1, RecKept DEF Over
  <2>16. QED
    BY <2>7, <2>11, <2>12, <2>13, <2>14, <2>15 DEF CInv
<1>6. QED
  <2>1. CASE ~HistoryMissing(o) /\ ~AlreadySubmitted(o)
    <3> DEFINE pc == IF op[o].clear \/ Obsolete(o) # {} THEN "journal" ELSE "commit"
               snap == IF op[o].kind = "1" \/ op[o].clear THEN store ELSE {}
    <3>1. pc \in {"journal", "commit"} /\ (pc = "journal" => op[o].kind = "1" \/ op[o].clear)
      BY DEF Obsolete
    <3>2. Become(o, [op[o] EXCEPT !.pc = pc, !.snap = snap, !.appl = Applied(o)])
      BY <2>1 DEF Plan
    <3> HIDE DEF pc, snap
    <3>3. QED
      BY <1>5, <3>1, <3>2
  <2>2. CASE HistoryMissing(o) \/ AlreadySubmitted(o)
    BY <1>3, <1>4, <2>2 DEF Plan, AlreadySubmitted
  <2>3. QED
    BY <2>1, <2>2

(* The journal that is created names its writer and no rows to take back. *)
LEMMA CreateJournalCancel == ASSUME NEW o \in Ops, Inv, Inv', CInv, CreateJournal(o) PROVE CInv'
<1>1. op[o] \in OpStates
  BY LocalAt
<1>2. op[o].pc = "journal" /\ sql' = sql /\ journal' \in {journal, None, Material(o, "bare")}
  BY DEF CreateJournal
<1>3. ASSUME NEW pc \in {"delete", "except"}, Become(o, [op[o] EXCEPT !.pc = pc, !.jn = "bare"])
      PROVE  CInv'
  <2> DEFINE r == [op[o] EXCEPT !.pc = pc, !.jn = "bare"]
  <2>1. Fits(o, r) /\ \A s : RecFits(s, r)
    BY <1>1, <1>2, GoOnFits DEF OpStates, HoldsOn, HoldingAt, Selecting, Replaying, Uncommitted, Over
  <2>2. JournalMove(o, r)
    BY <1>1, <1>2 DEF JournalMove, Material, OpStates
  <2>3. QED
    BY <1>2, <1>3, <2>1, <2>2, GoOnCancel
<1>4. QED
  BY <1>3 DEF CreateJournal

(* The deletion only touches the store. *)
LEMMA DeleteHistoryCancel == ASSUME NEW o \in Ops, Inv, Inv', CInv, DeleteHistory(o) PROVE CInv'
<1>1. op[o] \in OpStates
  BY LocalAt
<1>2. op[o].pc = "delete" /\ sql' = sql /\ journal' = journal
  BY DEF DeleteHistory
<1>3. ASSUME NEW pc \in {"record", "except"}, Become(o, [op[o] EXCEPT !.pc = pc, !.chg = TRUE])
      PROVE  CInv'
  <2> DEFINE r == [op[o] EXCEPT !.pc = pc, !.chg = TRUE]
  <2>1. Fits(o, r) /\ \A s : RecFits(s, r)
    BY <1>1, <1>2, GoOnFits DEF OpStates, HoldsOn, HoldingAt, Selecting, Replaying, Uncommitted, Over
  <2>2. JournalMove(o, r)
    BY <1>2 DEF JournalMove
  <2>3. QED
    BY <1>2, <1>3, <2>1, <2>2, GoOnCancel
<1>4. QED
  BY <1>3 DEF DeleteHistory

(* The recorded claim is the one of the request itself. *)
LEMMA RecordAppliedCancel == ASSUME NEW o \in Ops, Inv, Inv', CInv, RecordApplied(o) PROVE CInv'
<1>1. op[o] \in OpStates /\ KnowsAt(op[o])
  BY LocalAt
<1>2. op[o].pc = "record" /\ sql' = sql /\ journal' \in {journal, Material(o, "full")}
  BY DEF RecordApplied
<1>3. op[o].appl # None
  BY <1>1, <1>2, AbsenceAssumption DEF KnowsAt, Planned
<1>4. OwnsJournal(o) => op[o].jn # "none"
  <2> SUFFICES ASSUME OwnsJournal(o) PROVE op[o].jn # "none"
    OBVIOUS
  <2>1. journal \in Journals /\ journal.own = o
    BY <1>1, <1>2, MaterialType DEF OwnsJournal, KnowsAt, Begun, Planned, Material
  <2>2. journal \in Held
    BY <2>1, AbsenceAssumption DEF Held
  <2>3. OwnAt(op[o])
    BY <2>1, <2>2 DEF CInv, OwnInv
  <2>4. QED
    BY <1>2, <2>3 DEF OwnAt, Over
<1>5. journal' # journal => OwnsJournal(o)
  BY DEF RecordApplied
<1>6. ASSUME NEW pc \in {"commit", "except"}, NEW jn \in {"full", op[o].jn},
             Become(o, [op[o] EXCEPT !.pc = pc, !.jn = jn])
      PROVE  CInv'
  <2> DEFINE r == [op[o] EXCEPT !.pc = pc, !.jn = jn]
  <2>1. Fits(o, r) /\ \A s : RecFits(s, r)
    BY <1>1, <1>2, GoOnFits DEF OpStates, HoldsOn, HoldingAt, Selecting, Replaying, Uncommitted, Over
  <2>2. journal' = Material(o, "full") /\ OwnsJournal(o) => JournalMove(o, r)
    BY <1>1, <1>3, <1>4 DEF JournalMove, Material, OpStates
  <2>3. JournalMove(o, r)
    BY <1>2, <1>5, <2>2 DEF JournalMove
  <2>4. QED
    BY <1>2, <1>6, <2>1, <2>3, GoOnCancel
<1>7. Raise(o) => Become(o, [op[o] EXCEPT !.pc = "except", !.jn = op[o].jn])
  BY <1>1 DEF Raise, Goto, OpStates
<1>8. QED
  BY <1>6, <1>7 DEF RecordApplied

(* What a commit does to the rows revives no task that others stopped. *)
LEMMA CommitSticks ==
    ASSUME NEW orig \in Sql, NEW appl \in Sql, NEW fl, Sticks(orig, fl),
           NEW o, NEW kind \in Kinds, NEW clear \in BOOLEAN, PlanFits(o, kind, clear, orig, appl),
           \A n \in fl : n[1][1] # o
    PROVE  Sticks(appl, fl)
<1> SUFFICES ASSUME NEW n \in fl, n[1] \in Ids(appl)
             PROVE  appl.row[n[1][2]].st = "cancelled" /\ appl.run = "2"
  BY DEF Sticks
<1>1. PICK p \in Pages : n[1] = <<appl.gen, p>> /\ appl.row[p].st # "none"
  BY DEF Ids, Present
<1>2. kind # "1" /\ ~clear /\ appl.gen = orig.gen
  BY <1>1 DEF PlanFits, AllIn
<1>3. orig.row[p].st # "none" => orig.row[p].st = "cancelled" /\ orig.run = "2"
  <2> SUFFICES ASSUME orig.row[p].st # "none" PROVE orig.row[p].st = "cancelled" /\ orig.run = "2"
    OBVIOUS
  <2>1. n[1] \in Ids(orig) /\ n[1][2] = p
    BY <1>1, <1>2 DEF Ids, Present
  <2>2. QED
    BY <2>1 DEF Sticks
<1>4. CASE kind = "0"
  BY <1>1, <1>3, <1>4 DEF PlanFits
<1>5. CASE kind = "2"
  <2>1. appl.run = "2" /\ appl.row[p] = CancelledRow(orig.row[p]) /\ orig.row[p] \in Rows
    BY <1>2, <1>5 DEF PlanFits, Sql
  <2>2. CancelledRow(orig.row[p]).st = "cancelled"
    BY <1>1, <1>3, <2>1 DEF CancelledRow, Rows
  <2>3. QED
    BY <1>1, <2>1, <2>2
<1>6. QED
  BY <1>2, <1>4, <1>5 DEF Kinds

(* A committed reset or cancel has stopped the tasks it flagged. *)
LEMMA CancelCommitted ==
    ASSUME NEW orig \in Sql, NEW appl \in Sql, NEW fl, NEW o,
           NEW kind \in {"0", "2"}, NEW clear \in BOOLEAN,
           PlanFits(o, kind, clear, orig, appl), \A n \in fl : n[1] \in LiveIds(orig)
    PROVE  Sticks(appl, fl)
<1> SUFFICES ASSUME NEW n \in fl, n[1] \in Ids(appl)
             PROVE  appl.row[n[1][2]].st = "cancelled" /\ appl.run = "2"
  BY DEF Sticks
<1>1. PICK p \in Pages : n[1] = <<orig.gen, p>> /\ orig.row[p].st \in Unfinished
  BY DEF LiveIds, LivePages
<1>2. appl.row[p].st # "none"
  BY <1>1 DEF Ids, Present
<1>3. kind = "2" /\ ~clear
  BY <1>1, <1>2 DEF PlanFits, AllIn, Unfinished
<1>4. appl.run = "2" /\ appl.row[p] = CancelledRow(orig.row[p]) /\ orig.row[p] \in Rows
  BY <1>3 DEF PlanFits, Sql
<1>5. CancelledRow(orig.row[p]).st = "cancelled"
  BY <1>1, <1>4 DEF CancelledRow, Rows
<1>6. QED
  BY <1>1, <1>4, <1>5

(***************************************************************************)
(* The commit: whoever may take the rows back to what they were may now    *)
(* take them back from what they have become, and a cancel starts to hold. *)
(***************************************************************************)
LEMMA CommitCancel == ASSUME NEW o \in Ops, Inv, Inv', CInv, Commit(o) PROVE CInv'
<1> DEFINE a == op[o].appl
<1>1. op[o] \in OpStates /\ KnowsAt(op[o]) /\ LocalOk(o, op[o])
  BY LocalAt
<1>2. op[o].pc = "commit" /\ journal' = journal /\ sql' \in {sql, a} /\ op[o].pc \in OpLocks
  BY DEF Commit, OpLocks
<1>3. a \in Sql /\ a # None /\ sql \in Sql /\ sql = op[o].orig
  BY <1>1, <1>2, AbsenceAssumption DEF KnowsAt, Planned, Inv, RowsDoNotMove, Typed, TypeOK
<1>4. ASSUME NEW pc \in {"requeue", "clear", "except"}, Goto(o, pc),
             pc = "requeue" <=> (op[o].kind = "1" /\ pc # "except"),
             pc = "clear" => sql' = a
      PROVE  CInv'
  <2> DEFINE r == [op[o] EXCEPT !.pc = pc]
  <2>1. /\ op' = [op EXCEPT ![o] = r] /\ op \in [Ops -> OpStates]
        /\ r.pc = pc /\ r.appl = a /\ r.orig = op[o].orig /\ r.rec = op[o].rec /\ r.fl = op[o].fl
        /\ r.jn = op[o].jn /\ r.kind = op[o].kind /\ r.clear = op[o].clear
        /\ r.ack = op[o].ack /\ r.unc = op[o].unc
    BY <1>1, <1>4 DEF Goto, Become, OpStates, Inv, Typed, TypeOK
  <2> HIDE DEF r
  <2>2. op'[o] = r /\ \A x \in Ops \ {o} : op'[x] = op[x]
    BY <2>1
  <2>3. LocalOk(o, r) /\ Proceeds(o, r) /\ RecFits(sql', r) /\ JournalMove(o, r)
    BY <1>1, <1>2, <1>4, <2>1 DEF LocalOk, Proceeds, WriterOver, RecFits, JournalMove,
                                  Early, Selecting, Replaying, Uncommitted, Over
  <2>4. /\ Claims' \subseteq Claims
        /\ \A j \in Held' : j \in Held \/ (j.own = o /\ r.jn # "none")
    BY <2>1, <2>3, NoNewClaims
  <2>5. LocalInv'
    BY <2>2, <2>3 DEF CInv, LocalInv
  <2>6. StickInv'
    <3> SUFFICES ASSUME NEW x \in Ops, HoldingAt(op'[x]) PROVE (\E S : Covers(S, x))'
      BY DEF StickInv
    <3>1. CASE x = o
      <4>1. pc = "clear" /\ op[o].kind # "1" /\ sql' = a
        BY <1>1, <1>2, <1>4, <2>1, <2>2, <3>1 DEF HoldingAt, LocalOk, Over
      <4>2. PICK T : T = {a}
        OBVIOUS
      <4>3. Closed(T, x)'
        BY <1>2, <2>4, <3>1, <4>2 DEF Closed, CInv, FreshInv, Uncommitted
      <4>4. /\ PlanFits(o, op[o].kind, op[o].clear, sql, a)
            /\ op[o].kind \in {"0", "2"} /\ op[o].clear \in BOOLEAN
            /\ \A n \in op[o].fl : n[1] \in LiveIds(sql)
        BY <1>1, <1>2, <1>3, <4>1 DEF LocalOk, Uncommitted, OpStates, Kinds
      <4>5. Sticks(a, op[o].fl)
        BY <1>3, <4>4, CancelCommitted
      <4>6. Covers(T, x)'
        BY <2>1, <2>2, <3>1, <4>1, <4>2, <4>3, <4>5 DEF Covers
      <4>7. QED
        BY <4>6
    <3>2. CASE x # o
      <4>1. HoldingAt(op[x]) /\ op'[x] = op[x]
        BY <2>2, <3>2
      <4>2. PICK S : Covers(S, x)
        BY <4>1 DEF CInv, StickInv
      <4>3. PICK T : T = S \cup {a}
        OBVIOUS
      <4>4. Closed(T, x)'
        <5> SUFFICES ASSUME NEW P \in Claims, P.own # x, P.appl \in T PROVE P.orig \in T
          BY <2>4 DEF Closed
        <5>1. CASE P.appl \in S
          BY <4>2, <4>3, <5>1 DEF Covers, Closed
        <5>2. CASE P.appl = a
          <6>1. P.orig = sql
            BY <1>2, <1>3, <5>2 DEF CInv, FreshInv, Uncommitted
          <6>2. QED
            BY <4>2, <4>3, <6>1 DEF Covers
        <5>3. QED
          BY <4>3, <5>1, <5>2
      <4>5. Sticks(a, op[x].fl)
        <5>1. PlanFits(o, op[o].kind, op[o].clear, sql, a) /\ Sticks(sql, op[x].fl)
          BY <1>1, <1>3, <4>2 DEF LocalOk, Covers
        <5>2. \A n \in op[x].fl : n[1][1] # o
          BY <1>2 DEF CInv, GenInv, Early, Uncommitted
        <5>3. op[o].kind \in Kinds /\ op[o].clear \in BOOLEAN
          BY <1>1 DEF OpStates
        <5>4. QED
          BY <1>3, <5>1, <5>2, <5>3, CommitSticks
      <4>6. Covers(T, x)'
        BY <1>2, <4>1, <4>2, <4>3, <4>4, <4>5 DEF Covers
      <4>7. QED
        BY <4>6
    <3>3. QED
      BY <3>1, <3>2
  <2>7. GenInv'
    <3>1. \A x \in Ops : /\ op'[x].pc \in Early => op[x].pc \in Early
                         /\ \A n \in op'[x].fl : n \in op[x].fl \/ n[1][1] = sql.gen
      BY <2>2, <2>3 DEF Proceeds
    <3>2. Claim(o, op[o].orig, a) \in Claims
      BY <1>3 DEF Claims
    <3>3. op'[o].pc \notin Early
      BY <1>4, <2>1, <2>2 DEF Early, Selecting, Replaying, Uncommitted
    <3>4. GenMove
      BY <1>2, <3>2, <3>3 DEF GenMove, Claim
    <3>5. QED
      BY <2>4, <3>1, <3>4, GenKept
  <2>8. FreshInv'
    <3>1. \A x \in Ops : op'[x].pc \in Uncommitted =>
              op[x].pc \in Uncommitted /\ op'[x].appl = op[x].appl /\ op'[x].orig = op[x].orig
      BY <2>2, <2>3 DEF Proceeds
    <3>2. QED
      BY <2>4, <3>1, FreshKept
  <2>9. OwnInv'
    <3>1. \A x \in Ops : OwnAt(op[x]) => OwnAt(op'[x])
      BY <2>2, <2>3 DEF Proceeds, OwnAt
    <3>2. \A j \in Held' : j \in Held \/ (j.own \in Ops /\ op'[j.own].jn # "none")
      BY <2>2, <2>4
    <3>3. QED
      BY <3>1, <3>2, OwnKept
  <2>10. RecInv'
    <3>1. \A x \in Ops \ {o} : op[x].pc # "recommit"
      BY <1>2, AloneWithRows
    <3>2. QED
      BY <1>2, <2>1, <2>3, <3>1, RecKept DEF Proceeds
  <2>11. QED
    BY <2>5, <2>6, <2>7, <2>8, <2>9, <2>10 DEF CInv
<1>5. QED
  <2>1. op[o].kind \in Kinds
    BY <1>1 DEF OpStates
  <2>2. CASE sql' = a /\ Goto(o, IF op[o].kind = "1" THEN "requeue" ELSE "clear")
    BY <1>4, <2>2
  <2>3. CASE Goto(o, "except")
    BY <1>4, <2>3
  <2>4. QED
    BY <2>2, <2>3 DEF Commit

(* Taking the rows again to enqueue. *)
LEMMA RequeueCancel == ASSUME NEW o \in Ops, Inv, Inv', CInv, Requeue(o) PROVE CInv'
<1>1. op[o] \in OpStates /\ LocalOk(o, op[o])
  BY LocalAt
<1>2. op[o].pc = "requeue" /\ sql' = sql /\ journal' = journal /\ op[o].kind = "1"
  BY <1>1 DEF Requeue, LocalOk
<1>3. ASSUME NEW pc \in {"submit", "except"}, Goto(o, pc)
      PROVE  CInv'
  <2> DEFINE r == [op[o] EXCEPT !.pc = pc]
  <2>1. Fits(o, r) /\ \A s : RecFits(s, r)
    BY <1>1, <1>2, GoOnFits DEF OpStates, HoldsOn, HoldingAt, Selecting, Replaying, Uncommitted, Over
  <2>2. JournalMove(o, r)
    BY <1>2 DEF JournalMove
  <2>3. QED
    BY <1>2, <1>3, <2>1, <2>2, GoOnCancel DEF Goto
<1>4. QED
  BY <1>3 DEF Requeue

(* Only a start enqueues. *)
LEMMA SubmitCancel == ASSUME NEW o \in Ops, Inv, Inv', CInv, Submit(o) PROVE CInv'
<1>1. op[o] \in OpStates /\ LocalOk(o, op[o])
  BY LocalAt
<1>2. op[o].pc = "submit" /\ sql' = sql /\ journal' = journal /\ op[o].kind = "1"
  BY <1>1 DEF Submit, LocalOk
<1>3. ASSUME NEW pc \in {"submit", "except"}, NEW ack, NEW unc,
             Become(o, [op[o] EXCEPT !.pc = pc, !.ack = ack, !.unc = unc])
      PROVE  CInv'
  <2> DEFINE r == [op[o] EXCEPT !.pc = pc, !.ack = ack, !.unc = unc]
  <2>1. Fits(o, r) /\ \A s : RecFits(s, r)
    BY <1>1, <1>2, GoOnFits DEF OpStates, HoldsOn, HoldingAt, Selecting, Replaying, Uncommitted, Over
  <2>2. JournalMove(o, r)
    BY <1>2 DEF JournalMove
  <2>3. QED
    BY <1>2, <1>3, <2>1, <2>2, GoOnCancel
<1>4. \E pc \in {"submit", "except"} : \E ack, unc :
         Become(o, [op[o] EXCEPT !.pc = pc, !.ack = ack, !.unc = unc])
  <2>1. PICK t \in PendingIds(o) \ op[o].ack :
           \/ Become(o, [op[o] EXCEPT !.ack = @ \cup {t}])
           \/ Become(o, [op[o] EXCEPT !.pc = "except"])
           \/ Become(o, [op[o] EXCEPT !.pc = "except", !.unc = {t}])
    BY DEF Submit
  <2>2. CASE Become(o, [op[o] EXCEPT !.ack = @ \cup {t}])
    <3>1. [op[o] EXCEPT !.ack = @ \cup {t}]
             = [op[o] EXCEPT !.pc = "submit", !.ack = op[o].ack \cup {t}, !.unc = op[o].unc]
      BY <1>1, <1>2 DEF OpStates
    <3>2. Become(o, [op[o] EXCEPT !.pc = "submit", !.ack = op[o].ack \cup {t}, !.unc = op[o].unc])
      BY <2>2, <3>1
    <3>3. QED
      BY <3>2
  <2>3. CASE Become(o, [op[o] EXCEPT !.pc = "except"])
    <3>1. [op[o] EXCEPT !.pc = "except"]
             = [op[o] EXCEPT !.pc = "except", !.ack = op[o].ack, !.unc = op[o].unc]
      BY <1>1, <1>2 DEF OpStates
    <3>2. Become(o, [op[o] EXCEPT !.pc = "except", !.ack = op[o].ack, !.unc = op[o].unc])
      BY <2>3, <3>1
    <3>3. QED
      BY <3>2
  <2>4. CASE Become(o, [op[o] EXCEPT !.pc = "except", !.unc = {t}])
    <3>1. [op[o] EXCEPT !.pc = "except", !.unc = {t}]
             = [op[o] EXCEPT !.pc = "except", !.ack = op[o].ack, !.unc = {t}]
      BY <1>1, <1>2 DEF OpStates
    <3>2. Become(o, [op[o] EXCEPT !.pc = "except", !.ack = op[o].ack, !.unc = {t}])
      BY <2>4, <3>1
    <3>3. QED
      BY <3>2
  <2>5. QED
    BY <2>1, <2>2, <2>3, <2>4
<1>5. QED
  BY <1>3, <1>4

(* What was enqueued stays enqueued. *)
LEMMA SubmittedCancel == ASSUME NEW o \in Ops, Inv, Inv', CInv, Submitted(o) PROVE CInv'
<1>1. op[o] \in OpStates /\ LocalOk(o, op[o])
  BY LocalAt
<1>2. /\ op[o].pc = "submit" /\ sql' = sql /\ journal' = journal /\ op[o].kind = "1"
      /\ op[o].fl = {}
  BY <1>1 DEF Submitted, LocalOk, Over
<1>3. ASSUME NEW pc \in {"clear", "except"}, Goto(o, pc)
      PROVE  CInv'
  <2> DEFINE r == [op[o] EXCEPT !.pc = pc]
  <2>1. Fits(o, r) /\ \A s : RecFits(s, r)
    BY <1>1, <1>2, GoOnFits DEF OpStates, HoldsOn, HoldingAt, Selecting, Replaying, Uncommitted, Over
  <2>2. JournalMove(o, r)
    BY <1>2 DEF JournalMove
  <2>3. QED
    BY <1>2, <1>3, <2>1, <2>2, GoOnCancel DEF Goto
<1>4. QED
  BY <1>3 DEF Submitted

(* A step that only moves on, towards the end or into the handler. *)
MovesOn(o, pc) ==
    \/ Goto(o, pc)
    \/ Become(o, [op[o] EXCEPT !.pc = pc, !.failed = TRUE])
    \/ Become(o, [op[o] EXCEPT !.pc = pc, !.res = "lost"])
    \/ op[o].pc = "clear" /\ Become(o, [op[o] EXCEPT !.pc = pc, !.res = "ok"])

(* Such a step keeps the invariant. *)
LEMMA MoveOnCancel ==
    ASSUME NEW o \in Ops, Inv, Inv', CInv, sql' = sql, journal' \in {journal, None},
           op[o].pc \in {"clear", "except", "undo", "undosql", "undoflags", "finalize"},
           NEW pc \in {"except", "undo", "undosql", "undoflags", "finalize", "closing"},
           MovesOn(o, pc), pc = "closing" => op'[o].res = "lost" \/ op[o].pc = "clear"
    PROVE  CInv'
<1>1. op[o] \in OpStates /\ op \in [Ops -> OpStates]
  BY LocalAt DEF Inv, Typed, TypeOK
<1>2. ASSUME NEW r, Become(o, r), r.pc = pc,
             \/ r = [op[o] EXCEPT !.pc = pc]
             \/ r = [op[o] EXCEPT !.pc = pc, !.failed = TRUE]
             \/ r = [op[o] EXCEPT !.pc = pc, !.res = "lost"]
             \/ op[o].pc = "clear" /\ r = [op[o] EXCEPT !.pc = pc, !.res = "ok"]
      PROVE  CInv'
  <2>1. /\ r.kind = op[o].kind /\ r.clear = op[o].clear /\ r.orig = op[o].orig
        /\ r.appl = op[o].appl /\ r.rec = op[o].rec /\ r.fl = op[o].fl /\ r.jn = op[o].jn
        /\ r.ack = op[o].ack /\ r.unc = op[o].unc
        /\ r.res = op[o].res \/ r.res = "lost" \/ op[o].pc = "clear"
    <3>1. {"pc", "kind", "clear", "orig", "appl", "rec", "fl", "jn", "ack", "unc", "res"} \subseteq DOMAIN op[o]
      BY <1>1 DEF OpStates
    <3>2. QED
      BY <1>2, <3>1
  <2>2. op'[o] = r
    BY <1>1, <1>2 DEF Become
  <2>3. HoldsOn(o, r)
    BY <1>1, <1>2, <2>1, <2>2 DEF HoldsOn, HoldingAt
  <2>4. Fits(o, r) /\ \A s : RecFits(s, r)
    BY <1>2, <2>1, <2>3, GoOnFits DEF Selecting, Replaying, Uncommitted, Over
  <2>5. JournalMove(o, r)
    BY DEF JournalMove
  <2>6. QED
    BY <1>2, <2>4, <2>5, GoOnCancel
<1>3. \A r \in {[op[o] EXCEPT !.pc = pc], [op[o] EXCEPT !.pc = pc, !.failed = TRUE],
                [op[o] EXCEPT !.pc = pc, !.res = "lost"], [op[o] EXCEPT !.pc = pc, !.res = "ok"]} :
         r.pc = pc
  BY <1>1 DEF OpStates
<1>4. QED
  BY <1>2, <1>3 DEF MovesOn, Goto

(* The journal goes, or the handler runs. *)
LEMMA ClearJournalCancel == ASSUME NEW o \in Ops, Inv, Inv', CInv, ClearJournal(o) PROVE CInv'
<1>1. op[o].pc = "clear" /\ sql' = sql /\ journal' \in {journal, None}
  BY DEF ClearJournal, ClearFails
<1>2. CASE Become(o, [op[o] EXCEPT !.pc = "closing", !.res = "ok"])
  BY <1>1, <1>2, MoveOnCancel DEF MovesOn
<1>3. CASE Goto(o, "except")
  BY <1>1, <1>3, MoveOnCancel DEF MovesOn
<1>4. QED
  BY <1>2, <1>3 DEF ClearJournal

(* The handler takes the rows again. *)
LEMMA CompensateCancel == ASSUME NEW o \in Ops, Inv, Inv', CInv, Compensate(o) PROVE CInv'
<1>1. op[o].pc = "except" /\ sql' = sql /\ journal' = journal /\ Goto(o, "undo")
  BY DEF Compensate
<1>2. QED
  BY <1>1, MoveOnCancel DEF MovesOn

(* The handler gives way. *)
LEMMA YieldToLaterCancel == ASSUME NEW o \in Ops, Inv, Inv', CInv, YieldToLater(o) PROVE CInv'
<1>1. op[o].pc = "except" /\ sql' = sql /\ journal' \in {journal, None}
  BY DEF YieldToLater, ClearFails
<1>2. CASE Become(o, [op[o] EXCEPT !.pc = "closing", !.res = "lost"])
  <2>1. op'[o].res = "lost"
    BY <1>2, LocalAt DEF Become, OpStates, Inv, Typed, TypeOK
  <2>2. QED
    BY <1>1, <1>2, <2>1, MoveOnCancel DEF MovesOn
<1>3. CASE Become(o, [op[o] EXCEPT !.pc = "finalize", !.failed = TRUE])
  BY <1>1, <1>3, MoveOnCancel DEF MovesOn
<1>4. QED
  BY <1>2, <1>3 DEF YieldToLater

(* The handler cannot have the rows. *)
LEMMA CompensateBusyCancel == ASSUME NEW o \in Ops, Inv, Inv', CInv, CompensateBusy(o) PROVE CInv'
<1>1. /\ op[o].pc = "except" /\ sql' = sql /\ journal' = journal
      /\ Become(o, [op[o] EXCEPT !.pc = "finalize", !.failed = TRUE])
  BY DEF CompensateBusy
<1>2. QED
  BY <1>1, MoveOnCancel DEF MovesOn

(* The store is put back. *)
LEMMA UndoStoreCancel == ASSUME NEW o \in Ops, Inv, Inv', CInv, UndoStore(o) PROVE CInv'
<1>1. op[o].pc = "undo" /\ sql' = sql /\ journal' = journal
  BY DEF UndoStore
<1>2. CASE Goto(o, "undosql")
  BY <1>1, <1>2, MoveOnCancel DEF MovesOn
<1>3. CASE Become(o, [op[o] EXCEPT !.pc = "finalize", !.failed = TRUE])
  BY <1>1, <1>3, MoveOnCancel DEF MovesOn
<1>4. QED
  BY <1>2, <1>3 DEF UndoStore

(* The flags are put back. *)
LEMMA UndoFlagsCancel == ASSUME NEW o \in Ops, Inv, Inv', CInv, UndoFlags(o) PROVE CInv'
<1>1. op[o].pc = "undoflags" /\ sql' = sql /\ journal' = journal
  BY DEF UndoFlags
<1>2. CASE Goto(o, "finalize")
  BY <1>1, <1>2, MoveOnCancel DEF MovesOn
<1>3. CASE Become(o, [op[o] EXCEPT !.pc = "finalize", !.failed = TRUE])
  BY <1>1, <1>3, MoveOnCancel DEF MovesOn
<1>4. QED
  BY <1>2, <1>3 DEF UndoFlags

(* A request that reports an error holds nothing. *)
LEMMA FinalizeCancel == ASSUME NEW o \in Ops, Inv, Inv', CInv, Finalize(o) PROVE CInv'
<1> DEFINE r(unknown) == [op[o] EXCEPT !.pc = "closing",
                                       !.res = IF unknown THEN "unknown" ELSE "error"]
<1>1. op[o] \in OpStates
  BY LocalAt
<1>2. op[o].pc = "finalize" /\ sql' = sql
  BY DEF Finalize
<1>3. \E unknown \in BOOLEAN : Become(o, r(unknown))
  <2>1. op[o].failed \in BOOLEAN /\ (op[o].failed \/ ~MayClear(o)) \in BOOLEAN
    BY <1>1 DEF OpStates
  <2>2. QED
    BY <2>1 DEF Finalize
<1>4. PICK unknown \in BOOLEAN : Become(o, r(unknown))
  BY <1>3
<1>5. Fits(o, r(unknown)) /\ \A s : RecFits(s, r(unknown))
  BY <1>1, <1>2, GoOnFits DEF OpStates, HoldsOn, HoldingAt, Selecting, Replaying, Uncommitted, Over
<1>6. journal' \in {journal, None} \/ (op[o].jn # "none" /\ OwnsJournal(o)
                                         /\ journal' = [journal EXCEPT !.phase = "failed"])
  BY DEF Finalize, FinalJournal
<1>7. op[o].appl = None \/ op[o].appl # None
  OBVIOUS
<1>8. JournalMove(o, r(unknown))
  BY <1>1, <1>6 DEF JournalMove, OwnsJournal, Material, OpStates
<1>9. QED
  BY <1>2, <1>4, <1>5, <1>8, GoOnCancel

(* A confirmed cancel is remembered. *)
LEMMA CloseCancel == ASSUME NEW o \in Ops, Inv, Inv', CInv, Close(o) PROVE CInv'
<1>1. op[o].res \in Results
  BY LocalAt DEF OpStates
<1>2. /\ op[o].pc = "closing" /\ sql' = sql /\ journal' = journal
      /\ Become(o, Ended(o, "done", op[o].res))
  BY DEF Close
<1>3. QED
  BY <1>1, <1>2, EndCancel DEF Over

(* A dead request remembers nothing. *)
LEMMA CrashOpCancel == ASSUME NEW o \in Ops, Inv, Inv', CInv, CrashOp(o) PROVE CInv'
<1>1. /\ op[o].pc \notin Over /\ sql' = sql /\ journal' = journal
      /\ Become(o, Ended(o, "dead", "none"))
  BY DEF CrashOp, Over
<1>2. QED
  BY <1>1, EndCancel DEF Results

(* Marking tasks that never reached the stream revives no stopped task. *)
LEMMA KeepPartialCancel == ASSUME NEW o \in Ops, Inv, Inv', CInv, KeepPartial(o) PROVE CInv'
<1>1. op[o] \in OpStates /\ LocalOk(o, op[o]) /\ sql \in Sql
  BY LocalAt DEF Inv, Typed, TypeOK
<1>2. /\ op[o].pc = "except" /\ journal' = journal /\ lock = None
      /\ sql = op[o].appl /\ op[o].appl # None /\ op[o].kind = "1"
      /\ sql' \in {sql, MarkUnsubmitted(o)}
  BY <1>1 DEF KeepPartial, OwnedSql, Exposed, LocalOk
<1>3. \A p \in Pages : sql.row[p].st # "cancelled"
  BY <1>1, <1>2 DEF LocalOk, PlanFits, AllIn
<1>4. SqlMove
  <2>1. CASE Unexposed(o) = {}
    <3>1. MarkUnsubmitted(o) = sql
      BY <1>1, <2>1 DEF MarkUnsubmitted, Sql
    <3>2. QED
      BY <1>2, <3>1 DEF SqlMove
  <2>2. CASE Unexposed(o) # {}
    <3> DEFINE m == MarkUnsubmitted(o)
    <3>1. /\ m.log = FreshLog /\ m.gen = sql.gen
          /\ \A p \in Pages : m.row[p].st # "none" => sql.row[p].st # "none"
      BY <1>1, <2>2 DEF MarkUnsubmitted, Sql, Rows, Unexposed
    <3> HIDE DEF m
    <3>2. Renewed(sql, m)
      BY <1>3, <3>1 DEF Renewed, Ids, Present
    <3>3. QED
      BY <1>2, <3>2 DEF SqlMove, m
  <2>3. QED
    BY <2>1, <2>2
<1>5. ASSUME NEW pc \in {"undoflags", "finalize"}, NEW failed,
             Become(o, [op[o] EXCEPT !.pc = pc, !.failed = failed])
      PROVE  CInv'
  <2> DEFINE r == [op[o] EXCEPT !.pc = pc, !.failed = failed]
  <2>1. Fits(o, r) /\ \A s : RecFits(s, r)
    BY <1>1, <1>2, GoOnFits DEF OpStates, HoldsOn, HoldingAt, Selecting, Replaying, Uncommitted, Over
  <2>2. JournalMove(o, r)
    BY <1>2 DEF JournalMove
  <2> HIDE DEF r
  <2>3. Become(o, r)
    BY <1>5 DEF r
  <2>4. QED
    BY <1>2, <1>4, <2>1, <2>2, <2>3, StepCancel DEF Fits
<1>6. [op[o] EXCEPT !.pc = "undoflags"] = [op[o] EXCEPT !.pc = "undoflags", !.failed = op[o].failed]
  BY <1>1 DEF OpStates
<1>7. QED
  BY <1>5, <1>6 DEF KeepPartial, Goto

(* The compensation takes back the rows that it claims. *)
LEMMA UndoSqlCancel == ASSUME NEW o \in Ops, Inv, Inv', CInv, UndoSql(o) PROVE CInv'
<1>1. op[o] \in OpStates
  BY LocalAt
<1>2. /\ op[o].pc = "undosql" /\ journal' = journal /\ op[o].pc \in OpLocks
      /\ sql' \in {sql, op[o].orig} /\ ~HoldingAt(op[o])
  BY DEF UndoSql, OpLocks, HoldingAt
<1>3. sql = op[o].orig \/ (op[o].appl # None /\ sql = op[o].appl)
  BY <1>2 DEF Inv, RowsDoNotMove, UnchangedSql, OwnedSql
<1>4. SqlMove
  <2>1. CASE sql' = sql
    BY <2>1 DEF SqlMove
  <2>2. CASE op[o].appl # None /\ sql = op[o].appl /\ sql' = op[o].orig
    <3>1. Claim(o, op[o].orig, op[o].appl) \in Claims
      BY <2>2 DEF Claims
    <3>2. QED
      BY <1>2, <2>2, <3>1 DEF SqlMove, Claim
  <2>3. QED
    BY <1>2, <1>3, <2>1, <2>2
<1>5. ASSUME NEW pc \in {"undoflags", "finalize"}, NEW failed,
             Become(o, [op[o] EXCEPT !.pc = pc, !.failed = failed])
      PROVE  CInv'
  <2> DEFINE r == [op[o] EXCEPT !.pc = pc, !.failed = failed]
  <2>1. Fits(o, r) /\ \A s : RecFits(s, r)
    BY <1>1, <1>2, GoOnFits DEF OpStates, HoldsOn, HoldingAt, Selecting, Replaying, Uncommitted, Over
  <2>2. JournalMove(o, r)
    BY <1>2 DEF JournalMove
  <2> HIDE DEF r
  <2>3. Become(o, r)
    BY <1>5 DEF r
  <2>4. QED
    BY <1>2, <1>4, <2>1, <2>2, <2>3, StepCancel DEF Fits
<1>6. [op[o] EXCEPT !.pc = "undoflags"] = [op[o] EXCEPT !.pc = "undoflags", !.failed = op[o].failed]
  BY <1>1 DEF OpStates
<1>7. QED
  BY <1>5, <1>6 DEF UndoSql, Goto

(* No step of a request moves the rows or the claims in another way. *)
LEMMA OpStepCancel == ASSUME NEW o \in Ops, Inv, Inv', CInv, OpStep(o) \/ CrashOp(o) PROVE CInv'
  BY PreflightCancel, LockRowsCancel, LoadJournalCancel, SkipJournalCancel, ReplayHistoryCancel,
     ReplayCommitCancel, ReplayRelockCancel, BeginCancel, PlanCancel, CreateJournalCancel,
     DeleteHistoryCancel, RecordAppliedCancel, CommitCancel, RequeueCancel, SubmitCancel,
     SubmittedCancel, ClearJournalCancel, KeepPartialCancel, CompensateCancel, YieldToLaterCancel,
     CompensateBusyCancel, UndoStoreCancel, UndoSqlCancel, UndoFlagsCancel, FinalizeCancel,
     CloseCancel, CrashOpCancel DEF OpStep

-----------------------------------------------------------------------------
(* Executors and the poller keep the invariant *)

(* Aggregating progress renews the rows, or leaves those of a cancel alone. *)
LEMMA SyncRenews ==
    ASSUME NEW s \in Sql
    PROVE  SyncDoc(s) = s \/ Renewed(s, SyncDoc(s))
<1> DEFINE n == SyncDoc(s)
<1>1. CASE SyncSkips(s)
  BY <1>1 DEF SyncDoc
<1>2. CASE ~SyncSkips(s)
  <2>1. n.rev = FreshRev /\ n.gen = s.gen /\ n.row = s.row /\ s.run # "2"
    BY <1>2 DEF SyncDoc, Sql, SyncSkips
  <2> HIDE DEF n
  <2>2. Renewed(s, n)
    BY <2>1 DEF Renewed, Ids, Present
  <2>3. QED
    BY <2>2 DEF n
<1>3. QED
  BY <1>1, <1>2

(* Writing one row that has no cancel marker renews the rows. *)
LEMMA RowRenews ==
    ASSUME NEW t, NEW st, Loadable(t), sql \in Sql
    PROVE  Renewed(sql, [sql EXCEPT !.row[t[2]].st = st, !.log = FreshLog])
<1> DEFINE n == [sql EXCEPT !.row[t[2]].st = st, !.log = FreshLog]
<1>1. t[2] \in Pages /\ sql.row[t[2]].st # "none" /\ sql.row[t[2]].st # "cancelled"
  BY DEF Loadable, Ids, Present
<1>2. /\ n.log = FreshLog /\ n.gen = sql.gen /\ n.run = sql.run
      /\ \A p \in Pages : p # t[2] => n.row[p] = sql.row[p]
  BY <1>1 DEF Sql
<1> HIDE DEF n
<1>3. Renewed(sql, n)
  BY <1>1, <1>2 DEF Renewed, Ids, Present
<1>4. QED
  BY <1>3 DEF n

(* So does counting the chunks. *)
LEMMA CountRenews ==
    ASSUME sql \in Sql, NEW chunks, NEW n \in Sql,
           n.rev = FreshRev, n.gen = sql.gen, n.run = sql.run,
           \A p \in Pages : n.row[p].st = sql.row[p].st
    PROVE  Renewed(sql, n)
  BY DEF Renewed, Ids, Present

(* Whoever else may change the rows meets no replay that relies on them. *)
LEMMA RowsFree ==
    ASSUME Inv, lock \notin Ops
    PROVE  \A x \in Ops : op[x].pc # "recommit"
  BY DEF Inv, LocksHeld, OpLocks

(* An executor only renews the rows, when no request has them. *)
LEMMA WorkerCancel ==
    ASSUME NEW w \in Workers, Inv, Inv', CInv, WorkerStep(w) \/ CrashWorker(w) \/ Restart(w)
    PROVE  CInv'
<1>1. UNCHANGED <<op, journal>>
  BY DEF WorkerStep, Deliver, Receive, GetTask, CheckCanceled, ParseFails, Report, WriteProgress,
         EnterFence, PrepareSource, NativeInsert, RegisterChunks, MarkReady, CountChunks,
         RecordPipeline, Ack, CrashWorker, Restart, requestVars
<1>2. sql \in Sql /\ sql' \in Sql /\ None \notin Ops /\ w \notin Ops
  BY PartiesAssumption DEF Inv, Typed, TypeOK
<1>3. CASE GetTask(w)
  <2>1. Loadable(wk[w].t) =>
          Renewed(sql, [sql EXCEPT !.row[wk[w].t[2]].st = "run", !.log = FreshLog])
    BY <1>2, RowRenews
  <2>2. lock = None /\ (sql' = sql \/ Renewed(sql, sql'))
    BY <1>3, <2>1 DEF GetTask, Page
  <2>3. QED
    BY <1>1, <1>2, <2>2, RowsFree, RowsCancel
<1>4. CASE WriteProgress(w)
  <2> DEFINE t == wk[w].t
             st == Progressed(sql.row[t[2]].st, Reported(w))
  <2>1. Loadable(t) => Renewed(sql, [sql EXCEPT !.row[t[2]].st = st, !.log = FreshLog])
    BY <1>2, RowRenews
  <2>2. Loadable(t) => sql' = [sql EXCEPT !.row[t[2]].st = st, !.log = FreshLog]
    BY <1>2, <1>4 DEF WriteProgress, Page, Loadable, Ids, Present, Sql, Rows
  <2>3. lock = None /\ (~Loadable(t) => sql' = sql)
    BY <1>4 DEF WriteProgress
  <2> HIDE DEF t, st
  <2>4. sql' = sql \/ Renewed(sql, sql')
    BY <2>1, <2>2, <2>3
  <2>5. QED
    BY <1>1, <1>2, <2>3, <2>4, RowsFree, RowsCancel
<1>5. CASE RegisterChunks(w)
  <2>1. lock = w /\ wk[w].t[2] \in Pages
    BY <1>5 DEF RegisterChunks, Inv, LocksHeld, WorkerLocks, FencedWrites, Fence, Ids, Present
  <2>2. /\ sql'.rev = FreshRev /\ sql'.gen = sql.gen /\ sql'.run = sql.run
        /\ \A p \in Pages : sql'.row[p].st = sql.row[p].st
    <3> DEFINE c == Reconcile(sql, store)
               p0 == wk[w].t[2]
    <3>1. /\ sql' = [c EXCEPT !.row[p0].chunk = TRUE, !.log = FreshLog]
          /\ c \in Sql /\ c.rev = FreshRev /\ c.gen = sql.gen /\ c.run = sql.run /\ c.row = sql.row
      BY <1>2, <1>5, ReconcileType DEF RegisterChunks, Registered, Reconcile, Page, Sql,
                                       Inv, Typed, TypeOK
    <3> HIDE DEF c
    <3>2. /\ sql'.rev = c.rev /\ sql'.gen = c.gen /\ sql'.run = c.run
          /\ \A p \in Pages : sql'.row[p].st = c.row[p].st
      BY <2>1, <3>1 DEF Sql, Rows
    <3>3. QED
      BY <3>1, <3>2
  <2>3. QED
    BY <1>1, <1>2, <2>1, <2>2, CountRenews, RowsFree, RowsCancel
<1>6. CASE CountChunks(w)
  <2>1. CASE sql' = sql
    BY <1>1, <2>1, RowsCancel
  <2>2. CASE sql' = [Reconcile(sql, store) EXCEPT !.log = FreshLog]
    <3>1. /\ sql'.rev = FreshRev /\ sql'.gen = sql.gen /\ sql'.run = sql.run /\ sql'.row = sql.row
      BY <1>2, <2>2 DEF Reconcile, Sql
    <3>2. lock = None
      BY <1>6 DEF CountChunks
    <3>3. QED
      BY <1>1, <1>2, <3>1, <3>2, CountRenews, RowsFree, RowsCancel
  <2>3. QED
    BY <1>6, <2>1, <2>2 DEF CountChunks
<1>7. CASE RecordPipeline(w)
  BY <1>1, <1>2, <1>7, SyncRenews, RowsFree, RowsCancel DEF RecordPipeline
<1>8. CASE sql' = sql
  BY <1>1, <1>8, RowsCancel
<1>9. QED
  <2>1. \/ GetTask(w) \/ WriteProgress(w) \/ RegisterChunks(w) \/ CountChunks(w)
        \/ RecordPipeline(w) \/ sql' = sql
    BY DEF WorkerStep, Deliver, Receive, CheckCanceled, ParseFails, Report,
           EnterFence, PrepareSource, NativeInsert, MarkReady, Ack, CrashWorker, Restart
  <2>2. QED
    BY <1>3, <1>4, <1>5, <1>6, <1>7, <1>8, <2>1

(* So does the poller. *)
LEMMA PollCancel == ASSUME Inv, Inv', CInv, Poll PROVE CInv'
<1>1. UNCHANGED <<op, journal>> /\ sql \in Sql /\ None \notin Ops
  BY PartiesAssumption DEF Poll, PollSelect, PollSync, Inv, Typed, TypeOK
<1>2. CASE PollSelect
  BY <1>1, <1>2, RowsCancel DEF PollSelect
<1>3. CASE PollSync
  BY <1>1, <1>3, SyncRenews, RowsFree, RowsCancel DEF PollSync
<1>4. QED
  BY <1>2, <1>3 DEF Poll

-----------------------------------------------------------------------------
(* The theorem *)

(* In the beginning nobody has planned, stopped or journaled anything. *)
LEMMA InitCancel == ASSUME Init PROVE CInv
<1>0. PICK cfg \in Cfgs :
        /\ sql \in FreshDocs(cfg) \cup QueuedDocs(cfg) \cup ParsedDocs(cfg) \cup FailedDocs(cfg)
        /\ op = [x \in Ops |-> NewOp(cfg)]
  BY DEF Init
<1>1. \A x \in Ops : op[x] = NewOp(cfg)
  BY <1>0
<1>2. journal = None /\ sql.gen = Origin /\ Origin \notin Ops
  <2>1. \A run, prog, row : Doc(run, prog, cfg, row).gen = Origin
    BY DEF Doc
  <2>2. sql.gen = Origin
    BY <1>0, <2>1 DEF FreshDocs, QueuedDocs, ParsedDocs, FailedDocs
  <2>3. QED
    BY <2>2, PartiesAssumption DEF Init
<1>3. \A x \in Ops : /\ op[x].pc = "idle" /\ op[x].appl = None /\ op[x].rec = None
                     /\ op[x].fl = {} /\ op[x].jn = "none" /\ op[x].ack = {} /\ op[x].unc = {}
  BY <1>1 DEF NewOp
<1>4. Held = {}
  BY <1>2, <1>3 DEF Held
<1>5. Claims = {}
  BY <1>3, <1>4 DEF Claims
<1>6. LocalInv
  BY <1>3 DEF LocalInv, LocalOk, Early, Selecting, Replaying, Uncommitted, Over
<1>7. StickInv /\ OwnInv /\ FreshInv /\ RecInv
  BY <1>3, <1>4, <1>5 DEF StickInv, HoldingAt, OwnInv, FreshInv, Uncommitted, RecInv, RecFits,
                          WriterOver
<1>8. GenInv
  BY <1>2, <1>3, <1>5 DEF GenInv
<1>9. QED
  BY <1>6, <1>7, <1>8 DEF CInv

(* The invariant holds in every reachable state. *)
THEOREM CancelInvHolds == Spec => []CInv
<1>1. Init => CInv
  BY InitCancel
<1>2. Inv /\ Inv' /\ CInv /\ [Next]_vars => CInv'
  <2> SUFFICES ASSUME Inv, Inv', CInv, [Next]_vars PROVE CInv'
    OBVIOUS
  <2>1. CASE Next
    BY <2>1, OpStepCancel, WorkerCancel, PollCancel DEF Next, OpNext, WorkerNext
  <2>2. CASE UNCHANGED vars
    BY <2>2, RowsCancel DEF vars
  <2>3. QED
    BY <2>1, <2>2
<1>3. QED
  BY <1>1, <1>2, InvHolds, PTL DEF Spec

(***************************************************************************)
(* A cancel that was confirmed holds, whatever else runs and fails: the    *)
(* rows are in the set of those that still have its tasks cancelled.       *)
(***************************************************************************)
THEOREM CancelHolds == Spec => []CancelSticks
<1>1. CInv => CancelSticks
  <2> SUFFICES ASSUME CInv, NEW o \in Ops, op[o].pc = "done", NEW n \in op[o].fl,
                      n[1] \in Ids(sql)
               PROVE  sql.row[n[1][2]].st = "cancelled" /\ sql.run = "2"
    BY DEF CancelSticks
  <2>1. PICK S : Covers(S, o)
    BY DEF CInv, StickInv, HoldingAt
  <2>2. QED
    BY <2>1 DEF Covers, Sticks
<1>2. QED
  BY <1>1, CancelInvHolds, PTL
=============================================================================

---------------------------- MODULE IngestState ----------------------------
(***************************************************************************)
(* The state that document ingestion requests, task executors and the      *)
(* progress poller share: ONE document with its task rows (PostgreSQL),    *)
(* its chunks (the document store), its recovery journal, cancel flags and *)
(* task stream (Redis), and the locks that order them.                     *)
(*                                                                         *)
(* A task is identified by the request that created it and the page range  *)
(* it covers.  A chunk is identified by its page range and the parser      *)
(* configuration it was cut with: identifiers are content hashes, so the   *)
(* same work produces the same identifiers.                                *)
(***************************************************************************)
EXTENDS Naturals, FiniteSets

CONSTANTS
    Pages,       \* page ranges of the document, one task each
    Cfgs,        \* parser configurations (what the task digest covers)
    Ops,         \* ingestion requests, each submitted at most once
    Workers,     \* task executor processes
    None,        \* "absent": no owner, no row, no flag, no journal
    Origin,      \* creator of the task rows present initially
    Revs,        \* values of Document.update_time and of the task log columns
    Images,      \* TRUE when chunks carry image keys (img_id)
    MaxFaults,   \* bound: failing or unanswered calls in a behaviour
    MaxCrashes   \* bound: process crashes in a behaviour

ASSUME PartiesAssumption ==
    /\ Ops \cap Workers = {}
    /\ None \notin Ops \cup Workers \cup {Origin}
    /\ Origin \notin Ops

ASSUME SizeAssumption ==
    /\ IsFiniteSet(Pages)
    /\ IsFiniteSet(Cfgs)
    /\ IsFiniteSet(Ops)
    /\ Revs # {} /\ None \notin Revs
    /\ Images \in BOOLEAN
    /\ MaxFaults \in Nat
    /\ MaxCrashes \in Nat

(***************************************************************************)
(* update_time is the time in milliseconds, and a request makes it larger  *)
(* than the value it replaces; a log grows by lines that carry the time.   *)
(* So there always is a value that none of those the system remembers (one *)
(* in the rows, two in the journal, five per request) is mistaken for.     *)
(***************************************************************************)
ASSUME RevsAssumption ==
    IsFiniteSet(Revs) => Cardinality(Revs) > 3 + 5 * Cardinality(Ops)

VARIABLES
    sql,      \* the Document row and its Task rows, as committed
    lock,     \* holder of the Doc -> Task row locks
    guard,    \* holder of the advisory locks on the document's image keys
    store,    \* the document's chunks in the document store
    journal,  \* the recovery material at document-ingest-recovery:<doc>
    flag,     \* <task>-cancel keys: the nonce is the request that set it
    sent,     \* task messages ever added to the stream (never trimmed)
    unread,   \* messages not yet delivered to the consumer group
    pel,      \* delivered and unacknowledged messages of each consumer
    src,      \* source recovery record of each task
    op,       \* local state of each ingestion request
    wk,       \* local state of each task executor
    poll,     \* TRUE while the poller holds a selection of this document
    faults,   \* failures so far
    crashes   \* crashes so far

vars == <<sql, lock, guard, store, journal, flag, sent, unread, pel, src,
          op, wk, poll, faults, crashes>>

-----------------------------------------------------------------------------
(* Types *)

Gens == Ops \cup {Origin}
TaskIds == Gens \X Pages
Chunks == Pages \X Cfgs
Kinds == {"0", "1", "2"}                  \* reset, parse, cancel

(***************************************************************************)
(* TaskStatus of a document, and its aggregate progress.  A task row is    *)
(* "queued" at progress 0 with an empty log, "run" in 0..1 once received,  *)
(* "done" at 1, "bad" at -1, "cancelled" at -1 with the cancel marker.     *)
(***************************************************************************)
RunStates == {"0", "1", "2", "3", "4"}
DocProgress == {"zero", "part", "one", "bad"}
RowStates == {"none", "queued", "run", "done", "bad", "cancelled"}
Rows == [st : RowStates, chunk : BOOLEAN]

Sql == [run : RunStates, prog : DocProgress, num : Nat, cfg : Cfgs,
        rev : Revs, log : Revs, gen : Gens, row : [Pages -> Rows]]

FlagNotes == TaskIds \X (Ops \cup {None})

Journals == [own : Ops, phase : {"active", "failed"}, snap : SUBSET Chunks,
             orig : Sql, appl : Sql \cup {None}, fl : SUBSET FlagNotes]

(* The absence of rows or of a journal is neither. *)
ASSUME AbsenceAssumption == None \notin Sql /\ None \notin Journals

OpPcs == {"idle", "locking", "loading", "recover", "recommit", "relock", "begin", "plan",
          "journal", "delete", "record", "commit", "requeue", "submit",
          "clear", "except", "undo", "undosql", "undoflags", "finalize",
          "closing", "done", "dead"}
Results == {"none", "ok", "refused", "error", "unknown", "lost"}

OpStates == [pc : OpPcs, kind : Kinds, clear : BOOLEAN, cfg : Cfgs,
             rev : Revs \cup {None}, sel : SUBSET TaskIds, snap : SUBSET Chunks,
             rec : Journals \cup {None},
             orig : Sql \cup {None}, appl : Sql \cup {None},
             chg : BOOLEAN, jn : {"none", "bare", "full"}, ack : SUBSET TaskIds,
             unc : SUBSET TaskIds, fl : SUBSET FlagNotes, failed : BOOLEAN,
             res : Results]

WorkerPcs == {"idle", "got", "load", "check", "report", "write", "insert",
              "prepare", "native", "register", "ready", "count", "end", "ack", "down"}
Stages == {"parse", "index", "finish", "fail"}
WorkerStates == [pc : WorkerPcs, t : TaskIds \cup {None}, stage : Stages,
                 stop : BOOLEAN, replay : SUBSET TaskIds]

TypeOK ==
    /\ sql \in Sql
    /\ lock \in Ops \cup Workers \cup {None}
    /\ guard \in Ops \cup Workers \cup {None}
    /\ store \in SUBSET Chunks
    /\ journal \in Journals \cup {None}
    /\ flag \in [TaskIds -> Ops \cup {None}]
    /\ sent \in SUBSET TaskIds
    /\ unread \in SUBSET TaskIds
    /\ pel \in [Workers -> SUBSET TaskIds]
    /\ src \in [TaskIds -> {"none", "open", "ready"}]
    /\ op \in [Ops -> OpStates]
    /\ wk \in [Workers -> WorkerStates]
    /\ poll \in BOOLEAN
    /\ faults \in 0..MaxFaults
    /\ crashes \in 0..MaxCrashes

-----------------------------------------------------------------------------
(* What the rows say *)

Present(s) == {p \in Pages : s.row[p].st # "none"}
Ids(s) == {<<s.gen, p>> : p \in Present(s)}
Unfinished == {"queued", "run"}           \* 0 <= progress < 1
LivePages(s) == {p \in Pages : s.row[p].st \in Unfinished}
ChunkPages(s) == {p \in Pages : s.row[p].chunk}
RegisteredChunks(s) == {<<p, s.cfg>> : p \in ChunkPages(s)}

(***************************************************************************)
(* current_document_task: the producer of task t still owns the document's *)
(* work.  cleanup=True only requires the row.                              *)
(***************************************************************************)
Fence(s, t) ==
    /\ t \in Ids(s)
    /\ s.run \notin {"0", "2"}
    /\ s.row[t[2]].st \in Unfinished

(***************************************************************************)
(* A timestamp no live comparison can mistake for another one.  The        *)
(* program only ever compares these columns for equality, so a value that  *)
(* nobody holds any more may be used again.                                 *)
(***************************************************************************)
Kept == {sql} \cup {op[o].orig : o \in Ops} \cup {op[o].appl : o \in Ops}
        \cup UNION {IF j = None THEN {} ELSE {j.orig, j.appl}
                      : j \in {journal} \cup {op[o].rec : o \in Ops}}
UsedRevs == {s.rev : s \in Kept \ {None}} \cup {op[o].rev : o \in Ops}
UsedLogs == {s.log : s \in Kept \ {None}}
Spare(used) == CHOOSE r \in Revs : r \notin used \/ Revs \subseteq used
FreshRev == Spare(UsedRevs)
FreshLog == Spare(UsedLogs)

(***************************************************************************)
(* _sync_progress, the part under the document lock: aggregate the task    *)
(* rows into the document.  A zero average leaves progress as it is.       *)
(***************************************************************************)
Finished(s) == LivePages(s) = {}
SomeBad(s) == \E p \in Pages : s.row[p].st \in {"bad", "cancelled"}
SomeProgress(s) == \E p \in Pages : s.row[p].st \in {"run", "done"}
SyncSkips(s) == s.run \in {"0", "2"} \/ Present(s) = {}
SyncDoc(s) ==
    IF SyncSkips(s) THEN s
    ELSE [s EXCEPT
           !.run  = IF ~Finished(s) THEN "1" ELSE IF SomeBad(s) THEN "4" ELSE "3",
           !.prog = IF Finished(s) THEN (IF SomeBad(s) THEN "bad" ELSE "one")
                    ELSE IF SomeProgress(s) THEN "part" ELSE @,
           !.rev  = FreshRev]

(* Mutant: every registration adds one, also for chunks already counted. *)
ReconcileByOne(s, chunks) == [s EXCEPT !.num = @ + 1, !.rev = FreshRev]
(* reconcile_task_chunk_count: chunk_num is the number of stored chunks. *)
Reconcile(s, chunks) == [s EXCEPT !.num = Cardinality(chunks), !.rev = FreshRev]

(* nowait=bool(image_keys): a writer that guards images never waits for   *)
(* the row locks, because their holder may be waiting for those images.    *)
GuardsImages(chunks) == Images /\ chunks # {}
(* Mutant: the row locks are awaited while images are guarded. *)
RelockBusyNever(o) == FALSE
RelockBusy(o) == guard = o /\ lock # None

(* A call of the program that fails, or whose answer is lost. *)
Fault == faults < MaxFaults /\ faults' = faults + 1
=============================================================================

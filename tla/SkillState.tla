------------------------------ MODULE SkillState ------------------------------
(***************************************************************************)
(* The state shared by the skill API and the skill workers: the rows of    *)
(* one skill space in PostgreSQL, the index collections in Milvus, the     *)
(* stored files, and the Python workers that lease operations              *)
(* (api/skills/service.py, api/skills/worker.py).                          *)
(***************************************************************************)
EXTENDS Integers, FiniteSets

CONSTANTS
    Workers,            \* worker processes
    Ops,                \* identities for SkillOperation rows
    Skills, Versions,   \* identities of skills and of skill versions
    SkillOf,            \* the skill a version belongs to
    MaxGen,             \* bound: index generations that may be started
    MaxTrouble,         \* bound: late heartbeats, failing calls, crashes, edits, retries
    None                \* no version, no generation, no collection, no owner

Gens == 1..MaxGen
DeleteKinds == {"delete_version", "delete_skill", "delete_space"}
Kinds == {"install", "activate", "reindex"} \cup DeleteKinds

ASSUME SkillAssumption ==
    /\ SkillOf \in [Versions -> Skills]
    /\ MaxGen \in Nat
    /\ MaxTrouble \in Nat
    /\ None \notin Workers \cup Ops \cup Skills \cup Versions \cup Gens
    /\ None \notin Kinds
    /\ \A set \in SUBSET Versions : None # set

VARIABLES
    space,      \* the SkillSpace row, with "embed": is an embedding model set?
    skill,      \* Skill rows
    version,    \* state of the SkillVersion rows
    files,      \* versions whose File rows and objects exist
    op,         \* SkillOperation rows
    gen,        \* SkillIndexGeneration rows
    coll,       \* the collection of a generation: the versions in it, or None
    threads,    \* index calls in flight on a thread: call, generation,
                \* worker and the versions it is about
    wk,         \* the workers
    trouble,    \* how much trouble there was so far
    published   \* how often an operation has been published (history variable)

vars == <<space, skill, version, files, op, gen, coll, threads, wk, trouble, published>>

Maybe(S) == S \cup {None}
Active == "active"
AssetStates == {Active, "deleting", "delete_failed", "deleted"}
VersionStates == {"new", "staging", "installed", "install_failed",
                  "deleting", "delete_failed", "deleted"}
GenStates == {"new", "building", Active, "retired", "failed", "cleanup_failed", "deleted"}
OpStates == {"new", "pending", "running", "failed", "succeeded"}
Calls == {"create", "insert", "drop", "purge"}

Spaces == [state : AssetStates, rev : Nat, active : Maybe(Gens), embed : BOOLEAN]
SkillRows == [state : AssetStates, active : Maybe(Versions), rev : Nat]
(* lease: is lease_expires_at later than now?  cleaned: has recover_staging *)
(* taken over an abandoned upload?                                          *)
OpRows == [kind : Maybe(Kinds), skill : Maybe(Skills), ver : Maybe(Versions),
           activate : BOOLEAN, expect : Nat, state : OpStates,
           phase : {"staging", "sealed"}, rev : Nat, owner : Maybe(Workers),
           lease : BOOLEAN, done : BOOLEAN,
           gens : SUBSET [id : Gens, rev : Nat], cleaned : BOOLEAN]
GenRows == [state : GenStates, src : Nat, docs : SUBSET Versions]
Pcs == {"idle", "install", "publish", "content", "build", "seal", "switch", "commit",
        "mark_failed", "mark_lost", "list", "drop", "dropped", "drop_failed",
        "finish", "fail", "remove", "purging", "purged", "files", "erase",
        "remove_failed", "finish_failed", "sweep_drop", "sweep_mark", "sweep_failed"}
(* ids: the versions under removal (version_ids).                          *)
WorkerRows == [pc : Pcs, op : Maybe(Ops), rev : Nat, gen : Maybe(Gens), todo : SUBSET Gens,
               ids : SUBSET Versions]

NoOp == [kind |-> None, skill |-> None, ver |-> None, activate |-> FALSE,
         expect |-> 0, state |-> "new", phase |-> "sealed", rev |-> 0, owner |-> None, lease |-> FALSE, done |-> FALSE,
         gens |-> {}, cleaned |-> FALSE]
IdleWorker == [pc |-> "idle", op |-> None, rev |-> 0, gen |-> None, todo |-> {}, ids |-> {}]

(* Versions of a skill. *)
Of(s) == {v \in Versions : SkillOf[v] = s}

(* Something that need not happen, within the bound. *)
Trouble == trouble < MaxTrouble /\ trouble' = trouble + 1

(* The collection that a search reads: that of the active generation. *)
Serving == IF space.active = None THEN None ELSE coll[space.active]

(***************************************************************************)
(* A space that was just created: one of its versions may already be       *)
(* installed; the others arrive as packages.                               *)
(***************************************************************************)
Init ==
    /\ space \in [state : {Active}, rev : {1}, active : {None}, embed : BOOLEAN]
    /\ skill = [s \in Skills |-> [state |-> Active, active |-> None, rev |-> 1]]
    /\ version \in [Versions -> {"new", "installed"}]
    /\ files = {v \in Versions : version[v] = "installed"}
    /\ op = [o \in Ops |-> NoOp]
    /\ gen = [g \in Gens |-> [state |-> "new", src |-> 0, docs |-> {}]]
    /\ coll = [g \in Gens |-> None]
    /\ threads = {}
    /\ wk = [w \in Workers |-> IdleWorker]
    /\ trouble = 0
    /\ published = [o \in Ops |-> 0]

(* The values that the variables may have. *)
TypeOK ==
    /\ space \in Spaces
    /\ skill \in [Skills -> SkillRows]
    /\ version \in [Versions -> VersionStates]
    /\ files \subseteq Versions
    /\ op \in [Ops -> OpRows]
    /\ gen \in [Gens -> GenRows]
    /\ coll \in [Gens -> Maybe(SUBSET Versions)]
    /\ threads \subseteq Calls \X Gens \X Workers \X SUBSET Versions
    /\ wk \in [Workers -> WorkerRows]
    /\ trouble \in Nat
    /\ published \in [Ops -> Nat]
=============================================================================

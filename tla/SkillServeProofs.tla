--------------------------- MODULE SkillServeProofs ---------------------------
(***************************************************************************)
(* Proofs that what is served is complete, is what the skills show, and    *)
(* has its files, for any number of workers, operations, skills, versions  *)
(* and generations, and for any amount of trouble, in every behaviour in   *)
(* which no sweep reads its list while a publishing transaction has        *)
(* outlived its lease (TimelySpec).                                        *)
(*                                                                         *)
(* The argument, on top of the leases of SkillProofs: what cleanups,       *)
(* sweeps and late threads drop are generations that nobody may publish    *)
(* any more, and they stay that way.  A generation is published only if    *)
(* the space has not changed since its snapshot, so it holds what the      *)
(* skills show.  A removal takes its versions out of every generation      *)
(* before it takes their files, and no later generation has them again.    *)
(***************************************************************************)
EXTENDS SkillProofs

-----------------------------------------------------------------------------
(* What is out of use for good *)

(* A deletion of the space took the index out of service. *)
Emptied == space.state # Active /\ space.active = None

(* Nobody reads the generation, and nobody ever will. *)
Gone(g) ==
    /\ gen[g].state # "new"
    /\ \/ Emptied
       \/ g # space.active /\ \A w \in Workers : MayPublish(w) => wk[w].gen # g

(* A version under deletion, or of a skill under deletion, stays so. *)
Dying == {"deleting", "delete_failed", "deleted"}
Usable(s) == skill[s].state = Active
Doomed(v) == version[v] \in Dying \/ ~Usable(SkillOf[v])

(* An upload that failed before it was sealed is never installed. *)
Abandoned(v) ==
    /\ version[v] = "install_failed"
    /\ \A o \in Ops : op[o].kind = "install" /\ op[o].ver = v
                        => op[o].phase = "staging" /\ op[o].state = "failed"
Condemned(v) == version[v] \in Dying \/ Abandoned(v)

-----------------------------------------------------------------------------
(* The inductive invariant *)

(* What an operation is about. *)
AssetOK(o) ==
    /\ op[o].kind = "install" =>
          /\ version[op[o].ver] # "new"
          /\ op[o].phase = "staging" => version[op[o].ver] # "installed"
          /\ \A x \in Ops : op[x].kind = "install" /\ op[x].ver = op[o].ver => x = o
    /\ op[o].kind = "delete_version" => Condemned(op[o].ver)
    /\ op[o].kind = "delete_skill" => op[o].skill \in Skills /\ ~Usable(op[o].skill)
    /\ op[o].kind = "delete_space" => space.state # Active
AssetInv == \A o \in Ops : AssetOK(o)

(* What a skill shows is its own, and installed. *)
ShownOK(s) ==
    /\ skill[s].active # None => SkillOf[skill[s].active] = s
    /\ skill[s].active # None /\ Usable(s) => version[skill[s].active] = "installed"
    /\ skill[s].state = "deleted" => skill[s].active = None
ShownInv == \A s \in Skills : ShownOK(s)

(* A generation is not served before it is published, and is served only   *)
(* with its collection.                                                    *)
GenInv ==
    /\ \A g \in Gens : gen[g].state # "new" => gen[g].src <= space.rev
    /\ \A w \in Workers : MayPublish(w) => gen[wk[w].gen].state = "building" \/ Emptied
    /\ \A w \in Workers : wk[w].pc \in Publishing => wk[w].gen # space.active
    /\ ActiveIsServed

(* What a worker is about to drop is gone. *)
Dropping == {"drop", "dropped", "drop_failed", "sweep_drop", "sweep_mark", "sweep_failed"}
Drops(w) ==
    \/ wk[w].pc \in Dropping
    \/ wk[w].pc \in {"purging", "purged"} /\ Row(w).kind = "delete_space"
DropOK(w) == Drops(w) => wk[w].gen \in Gens /\ Gone(wk[w].gen) /\ \A g \in wk[w].todo : Gone(g)
DropInv == \A w \in Workers : DropOK(w)

(* The calls in flight: drops and purges touch nothing in use, and only    *)
(* one call at a time writes to a generation that is still being built.    *)
Writes == {"create", "insert"}
Written == Publishing \ {"build"}
ThreadOK(t) ==
    /\ t[1] = "drop" => Gone(t[2])
    /\ t[1] = "purge" => \A v \in t[4] : Doomed(v)
    /\ t[1] \in Writes =>
         /\ gen[t[2]].state # "new" /\ t[2] # space.active
         /\ \A w \in Workers : wk[w].gen = t[2] => wk[w].pc \notin Written
ThreadInv ==
    /\ \A t \in threads : ThreadOK(t)
    /\ \A t, u \in threads : t[1] \in Writes /\ u[1] \in Writes /\ t[2] = u[2] => t = u

(* A generation built from the space as it still is holds what the skills  *)
(* would show.                                                             *)
Current(w) == MayPublish(w) /\ space.state = Active /\ gen[wk[w].gen].src = space.rev
BuildOK(w) ==
    LET docs == gen[wk[w].gen].docs IN
    Current(w) =>
        /\ docs = Snapshot(Row(w))
        /\ Row(w).skill # None => Usable(Row(w).skill)
        /\ \A v \in docs : version[v] = "installed"
        /\ wk[w].pc # "content" => docs \subseteq files
        /\ wk[w].pc \in {"switch", "commit"} => coll[wk[w].gen] = docs
BuildInv == \A w \in Workers : BuildOK(w)

(* A removal empties every index before the files. *)
Removing == {"purging", "purged", "files", "erase"}
StillServed(ids) == Serving # None /\ Serving \cap ids # {}
RemoveOK(w) ==
    wk[w].pc \in Removing =>
        /\ \A v \in wk[w].ids : Doomed(v)
        /\ Row(w).kind = "delete_space" => Emptied
        /\ StillServed(wk[w].ids) =>
             \/ wk[w].pc \in {"purging", "purged"} /\ space.active \in wk[w].todo
             \/ wk[w].pc = "purging" /\ wk[w].gen = space.active
             \/ wk[w].pc = "erase"
RemoveInv == \A w \in Workers : RemoveOK(w)

(* All of it. *)
ServeParts ==
    /\ AssetInv /\ ShownInv /\ GenInv /\ DropInv /\ ThreadInv /\ BuildInv /\ RemoveInv
    /\ IndexMatchesSkills /\ ServedHasFiles

-----------------------------------------------------------------------------
(* What a step may not undo *)

(* Time goes on: a closed space stays closed, an emptied one empty. *)
SpaceKeeps ==
    /\ space.rev <= space'.rev
    /\ space'.state = Active => space.state = Active
    /\ Emptied => Emptied'

(* What is under deletion stays so. *)
AssetsKeep ==
    /\ \A v \in Versions : version[v] \in Dying => version'[v] \in Dying
    /\ \A s \in Skills : Usable(s)' => Usable(s)

(* Operations keep what they are about, failed uploads stay failed. *)
OpsSame ==
    \A o \in Ops :
        /\ op'[o].kind = op[o].kind /\ op'[o].skill = op[o].skill /\ op'[o].ver = op[o].ver
        /\ op'[o].activate = op[o].activate /\ op'[o].phase = op[o].phase
        /\ op[o].phase = "staging" => op'[o].state = op[o].state

(* No generation is put in service. *)
ActiveKeeps == space'.active \in {space.active, None}

(* What is doomed stays doomed. *)
LEMMA DoomedKeeps ==
    ASSUME AssetsKeep, NEW v \in Versions, Doomed(v)
    PROVE  Doomed(v)'
<1>1. SkillOf[v] \in Skills
  BY SkillAssumption
<1>2. QED BY <1>1 DEF AssetsKeep, Doomed

(* What is gone stays gone in a step that gives no lease and no new active *)
(* generation.                                                             *)
LEMMA GoneKeeps ==
    ASSUME GensKeep, SpaceKeeps, ActiveKeeps, \A w \in Workers : MayOnlyKeep(w),
           NEW g \in Gens, Gone(g)
    PROVE  Gone(g)'
<1>1. gen'[g].state # "new"
  BY DEF Gone, GensKeep
<1>2. CASE Emptied
  BY <1>1, <1>2 DEF Gone, SpaceKeeps
<1>3. CASE g # space.active /\ \A w \in Workers : MayPublish(w) => wk[w].gen # g
  <2>1. g # space'.active
    BY <1>3, SkillAssumption DEF ActiveKeeps
  <2>2. \A w \in Workers : MayPublish(w)' => wk'[w].gen # g
    BY <1>3 DEF MayOnlyKeep
  <2>3. QED BY <1>1, <2>1, <2>2 DEF Gone
<1>4. QED BY <1>2, <1>3 DEF Gone

(* A worker that builds has a generation of its own. *)
LEMMA BuilderGen ==
    ASSUME LeaseParts, NEW w \in Workers, wk[w].pc \in Building
    PROVE  /\ wk[w].gen \in Gens /\ wk[w].op \in Ops /\ wk[w].rev \in Nat
           /\ [id |-> wk[w].gen, rev |-> wk[w].rev] \in op[wk[w].op].gens
           /\ gen[wk[w].gen].state # "new"
<1>1. wk[w].op \in Ops /\ wk[w].rev \in Nat
  BY DEF LeaseParts, TypeOK, WorkerRows, Maybe, WorkerInv, WorkerOK, Building, Publishing,
     Unclaimed
<1>2. wk[w].gen \in Gens /\ [id |-> wk[w].gen, rev |-> wk[w].rev] \in op[wk[w].op].gens
  BY <1>1 DEF LeaseParts, WorkerInv, WorkerOK, Row
<1>3. gen[wk[w].gen].state # "new"
  <2>1. \A r \in op[wk[w].op].gens : gen[r.id].state # "new"
    BY <1>1 DEF LeaseParts, RowInv, RowOK
  <2>2. QED BY <1>2, <2>1
<1>4. QED BY <1>1, <1>2, <1>3

(* A generation has one builder. *)
LEMMA OneBuilder ==
    ASSUME LeaseParts, NEW w \in Workers, NEW x \in Workers,
           wk[w].pc \in Building, wk[x].pc \in Building, wk[x].gen = wk[w].gen
    PROVE  x = w
<1>1. /\ wk[w].op \in Ops /\ [id |-> wk[w].gen, rev |-> wk[w].rev] \in op[wk[w].op].gens
      /\ wk[x].op \in Ops /\ [id |-> wk[x].gen, rev |-> wk[x].rev] \in op[wk[x].op].gens
  BY BuilderGen
<1>2. wk[x].op = wk[w].op /\ wk[x].rev = wk[w].rev
  BY <1>1 DEF LeaseParts, GenOwnerInv
<1>3. QED BY <1>1, <1>2, SkillAssumption DEF LeaseParts, WorkerInv

(* What only changes leases keeps what operations are about. *)
LEMMA OpsStay ==
    ASSUME LeaseParts, UNCHANGED op
    PROVE  OpsKeep /\ OpsSame
<1>1. \A o \in Ops : op[o].rev \in Nat
  BY DEF LeaseParts, TypeOK, OpRows
<1>2. QED BY <1>1 DEF OpsKeep, OpsSame

-----------------------------------------------------------------------------
(* What keeps each part of the invariant *)

(* Versions stay as they are, or are deleted. *)
VersionsStay == \A v \in Versions : version'[v] = version[v] \/ version'[v] \in Dying

(* Assets stay consistent with the operations on them when no operation    *)
(* changes.                                                                *)
LEMMA AssetStays ==
    ASSUME LeaseParts, AssetInv, OpsSame, VersionsStay, SpaceKeeps, AssetsKeep
    PROVE  AssetInv'
<1> SUFFICES ASSUME NEW o \in Ops PROVE AssetOK(o)'
  BY DEF AssetInv
<1>1. /\ op'[o].kind = op[o].kind /\ op'[o].ver = op[o].ver /\ op'[o].skill = op[o].skill
      /\ op'[o].phase = op[o].phase
  BY DEF OpsSame
<1>2. op[o].kind \in {"install", "delete_version"} => op[o].ver \in Versions
  BY DEF LeaseParts, RowInv, RowOK
<1>3. AssetOK(o)
  BY DEF AssetInv
<1>4. ASSUME op[o].kind = "install"
      PROVE  /\ version'[op[o].ver] # "new"
             /\ op[o].phase = "staging" => version'[op[o].ver] # "installed"
  <2>1. op[o].ver \in Versions /\ version[op[o].ver] # "new"
        /\ (op[o].phase = "staging" => version[op[o].ver] # "installed")
    BY <1>2, <1>3, <1>4 DEF AssetOK
  <2>2. QED BY <2>1 DEF VersionsStay, Dying
<1>5. ASSUME op[o].kind = "install", NEW x \in Ops, op'[x].kind = "install", op'[x].ver = op[o].ver
      PROVE  x = o
  <2>1. op[x].kind = "install" /\ op[x].ver = op[o].ver
    BY <1>5 DEF OpsSame
  <2>2. QED BY <1>3, <1>5, <2>1 DEF AssetOK
<1>6. ASSUME op[o].kind = "delete_version"
      PROVE  Condemned(op[o].ver)'
  <2>1. PICK v \in Versions : v = op[o].ver
    BY <1>2, <1>6
  <2>2. CASE version[v] \in Dying
    BY <1>1, <2>1, <2>2 DEF AssetsKeep, Condemned
  <2>3. CASE Abandoned(v)
    <3>1. CASE version'[v] = version[v]
      BY <1>1, <2>1, <2>3, <3>1 DEF Abandoned, Condemned, OpsSame
    <3>2. QED BY <1>1, <2>1, <3>1 DEF VersionsStay, Condemned
  <2>4. QED BY <1>3, <1>6, <2>1, <2>2, <2>3 DEF AssetOK, Condemned
<1>7. op[o].kind = "delete_skill" => op[o].skill \in Skills /\ ~Usable(op[o].skill)'
  BY <1>1, <1>3 DEF AssetOK, AssetsKeep, Usable
<1>8. op[o].kind = "delete_space" => space'.state # Active
  BY <1>3 DEF AssetOK, SpaceKeeps
<1>9. QED BY <1>1, <1>4, <1>5, <1>6, <1>7, <1>8 DEF AssetOK

(* Skills show no version that is gone when they show nothing new. *)
LEMMA ShownStays ==
    ASSUME ShownInv,
           \A s \in Skills :
               /\ Usable(s)' => Usable(s)
               /\ skill'[s].active \in {skill[s].active, None}
               /\ skill'[s].state = "deleted" => skill'[s].active = None
               /\ skill[s].active # None /\ Usable(s)' =>
                    version'[skill[s].active] = version[skill[s].active]
    PROVE  ShownInv'
<1> SUFFICES ASSUME NEW s \in Skills PROVE ShownOK(s)'
  BY DEF ShownInv
<1>1. ShownOK(s)
  BY DEF ShownInv
<1>2. QED BY <1>1 DEF ShownOK

(* Only what is gone is marked, and nothing is started. *)
GensSafe ==
    /\ GensKeep
    /\ \A g \in Gens : gen'[g].state = gen[g].state \/ Gone(g)

(* Only what is gone or still being written changes its collection. *)
CollSafe ==
    \A g \in Gens :
        coll'[g] = coll[g] \/ Gone(g) \/ \E t \in threads : t[1] \in Writes /\ t[2] = g

(* Nobody begins to publish. *)
BuildersStay ==
    \A w \in Workers :
        wk'[w].pc \in Publishing => wk[w].pc \in Publishing /\ wk'[w].gen = wk[w].gen

(* What is served stays in its collection. *)
LEMMA ActiveSafe ==
    ASSUME TypeOK, GenInv, ThreadInv, GensSafe, CollSafe, space.active # None
    PROVE  /\ space.active \in Gens /\ gen'[space.active].state = Active
           /\ coll'[space.active] = coll[space.active]
<1>1. PICK a \in Gens : a = space.active
  BY DEF TypeOK, Spaces, Maybe
<1>2. ~Gone(a)
  BY <1>1 DEF Gone, Emptied
<1>3. gen'[a].state = gen[a].state
  BY <1>2 DEF GensSafe
<1>4. coll'[a] = coll[a]
  BY <1>1, <1>2 DEF CollSafe, ThreadInv, ThreadOK
<1>5. QED BY <1>1, <1>3, <1>4 DEF GenInv, ActiveIsServed

(* The served collection. *)
LEMMA ServingStays ==
    ASSUME TypeOK, GenInv, ThreadInv, GensSafe, CollSafe, ActiveKeeps
    PROVE  Serving' = Serving \/ Serving' = None
<1>1. CASE space'.active = None
  BY <1>1 DEF Serving
<1>2. CASE space'.active # None
  BY <1>2, ActiveSafe DEF ActiveKeeps, Serving
<1>3. QED BY <1>1, <1>2

(* Generations stay consistent when the ones in use are left alone. *)
LEMMA GenStays ==
    ASSUME LeaseParts, GenInv, ThreadInv, GensSafe, CollSafe, SpaceKeeps, ActiveKeeps,
           TypeOK', BuildersStay, \A w \in Workers : MayOnlyKeep(w)
    PROVE  GenInv'
<1>1. \A g \in Gens : gen'[g].state # "new" => gen'[g].src <= space'.rev
  <2> SUFFICES ASSUME NEW g \in Gens, gen'[g].state # "new" PROVE gen'[g].src <= space'.rev
    OBVIOUS
  <2>1. gen[g].state # "new"
    BY DEF GensSafe, Gone
  <2>2. gen'[g].src = gen[g].src /\ gen[g].src <= space.rev /\ space.rev <= space'.rev
    BY <2>1 DEF GensSafe, GensKeep, GenInv, SpaceKeeps
  <2>3. gen[g].src \in Nat /\ space.rev \in Nat /\ space'.rev \in Nat
    BY DEF LeaseParts, TypeOK, GenRows, Spaces
  <2>4. QED BY <2>2, <2>3
<1>2. \A w \in Workers : MayPublish(w)' => gen'[wk'[w].gen].state = "building" \/ Emptied'
  <2> SUFFICES ASSUME NEW w \in Workers, MayPublish(w)', ~Emptied'
               PROVE  gen'[wk'[w].gen].state = "building"
    OBVIOUS
  <2>1. MayPublish(w) /\ wk'[w].gen = wk[w].gen
    BY DEF MayOnlyKeep
  <2>2. wk[w].gen \in Gens
    BY <2>1, BuilderGen DEF MayPublish, Building
  <2>3. ~Emptied /\ gen[wk[w].gen].state = "building"
    BY <2>1 DEF GenInv, SpaceKeeps
  <2>4. ~Gone(wk[w].gen)
    BY <2>1, <2>3 DEF Gone
  <2>5. QED BY <2>1, <2>2, <2>3, <2>4 DEF GensSafe
<1>3. \A w \in Workers : wk'[w].pc \in Publishing => wk'[w].gen # space'.active
  <2> SUFFICES ASSUME NEW w \in Workers, wk'[w].pc \in Publishing
               PROVE  wk'[w].gen # space'.active
    OBVIOUS
  <2>1. wk[w].pc \in Publishing /\ wk'[w].gen = wk[w].gen
    BY DEF BuildersStay
  <2>2. wk[w].gen # space.active /\ wk[w].gen \in Gens
    BY <2>1, BuilderGen DEF GenInv, Building
  <2>3. QED BY <2>1, <2>2, SkillAssumption DEF ActiveKeeps
<1>4. ActiveIsServed'
  <2> SUFFICES ASSUME space'.active # None
               PROVE  gen'[space'.active].state = Active /\ Serving' # None
    BY DEF ActiveIsServed
  <2>1. space'.active = space.active /\ space.active # None
    BY DEF ActiveKeeps
  <2>2. gen'[space.active].state = Active /\ coll'[space.active] = coll[space.active]
    BY <2>1, ActiveSafe DEF LeaseParts
  <2>3. coll[space.active] # None
    BY <2>1 DEF GenInv, ActiveIsServed, Serving
  <2>4. QED BY <2>1, <2>2, <2>3 DEF Serving
<1>5. QED BY <1>1, <1>2, <1>3, <1>4 DEF GenInv

(* A worker that goes on with its list, or is not dropping. *)
LEMMA DropStays ==
    ASSUME LeaseParts, OpsKeep, NEW w \in Workers, DropOK(w),
           \A g \in Gens : Gone(g) => Gone(g)',
           \/ wk'[w] = wk[w]
           \/ /\ wk'[w].pc \in Dropping \cup {"purging", "purged"} => Drops(w)
              /\ wk'[w].gen = wk[w].gen /\ wk'[w].todo = wk[w].todo
           \/ wk'[w].pc \notin Dropping \cup {"purging", "purged"}
    PROVE  DropOK(w)'
<1> SUFFICES ASSUME Drops(w)'
             PROVE  (wk[w].gen \in Gens /\ Gone(wk[w].gen) /\ \A g \in wk[w].todo : Gone(g))'
  BY DEF DropOK
<1>1. wk'[w].pc \in Dropping \cup {"purging", "purged"}
  BY DEF Drops
<1>2. Drops(w) /\ wk'[w].gen = wk[w].gen /\ wk'[w].todo = wk[w].todo
  <2>1. CASE wk'[w] = wk[w]
    <3>1. CASE wk[w].pc \in Dropping
      BY <2>1, <3>1 DEF Drops
    <3>2. CASE wk[w].pc \in {"purging", "purged"}
      <4>1. wk[w].op \in Ops /\ op[wk[w].op].state # "new"
        BY <3>2 DEF LeaseParts, TypeOK, WorkerRows, Maybe, WorkerInv, WorkerOK, Row, Unclaimed
      <4>2. Row(w)'.kind = Row(w).kind
        BY <2>1, <4>1 DEF OpsKeep, Row
      <4>3. QED BY <2>1, <3>2, <4>2 DEF Drops, Dropping
    <3>3. QED BY <1>1, <2>1, <3>1, <3>2
  <2>2. QED BY <1>1, <2>1
<1>3. wk[w].gen \in Gens /\ Gone(wk[w].gen) /\ \A g \in wk[w].todo : Gone(g) /\ g \in Gens
  BY <1>2 DEF DropOK, LeaseParts, TypeOK, WorkerRows
<1>4. PICK h \in Gens : h = wk[w].gen
  BY <1>3
<1>5. Gone(h)' /\ \A g \in wk[w].todo : Gone(g)'
  BY <1>3, <1>4
<1>6. QED BY <1>2, <1>4, <1>5 DEF Gone

(* A call that is still in flight. *)
LEMMA ThreadKept ==
    ASSUME TypeOK, ThreadInv, GensKeep, AssetsKeep, ActiveKeeps,
           \A g \in Gens : Gone(g) => Gone(g)', NEW t \in threads,
           t[1] \in Writes => \A w \in Workers : wk'[w].gen = t[2] => wk'[w].pc \notin Written
    PROVE  ThreadOK(t)'
<1>1. ThreadOK(t) /\ t[2] \in Gens /\ t[4] \subseteq Versions
  BY DEF ThreadInv, TypeOK
<1>2. t[1] = "drop" => Gone(t[2])'
  BY <1>1 DEF ThreadOK
<1>3. t[1] = "purge" => \A v \in t[4] : Doomed(v)'
  BY <1>1, DoomedKeeps DEF ThreadOK
<1>4. t[1] \in Writes => gen'[t[2]].state # "new" /\ t[2] # space'.active
  BY <1>1, SkillAssumption DEF ThreadOK, ActiveKeeps, GensKeep
<1>5. QED BY <1>2, <1>3, <1>4 DEF ThreadOK

(* Calls that return, and deletions that start. *)
LEMMA ThreadStays ==
    ASSUME TypeOK, ThreadInv, GensKeep, AssetsKeep, ActiveKeeps,
           \A g \in Gens : Gone(g) => Gone(g)',
           \A w \in Workers : wk'[w].pc \in Written => wk[w].pc \in Written /\ wk'[w].gen = wk[w].gen,
           \A t \in threads' : t \in threads \/ (t[1] \notin Writes /\ ThreadOK(t)')
    PROVE  ThreadInv'
<1>1. \A t \in threads :
        t[1] \in Writes => \A w \in Workers : wk'[w].gen = t[2] => wk'[w].pc \notin Written
  BY DEF ThreadInv, ThreadOK
<1>2. \A t \in threads' : ThreadOK(t)'
  BY <1>1, ThreadKept
<1>3. \A t, u \in threads' : t[1] \in Writes /\ u[1] \in Writes /\ t[2] = u[2] => t = u
  BY DEF ThreadInv
<1>4. QED BY <1>2, <1>3 DEF ThreadInv

(* What a publication would show are versions of usable skills. *)
LEMMA SnapshotUsable ==
    ASSUME LeaseParts, ShownInv, NEW w \in Workers, wk[w].op \in Ops
    PROVE  /\ \A s \in Skills : Selected(Row(w), s) # None =>
                 Selected(Row(w), s) \in Versions /\ SkillOf[Selected(Row(w), s)] = s
           /\ \A v \in Snapshot(Row(w)) : v \in Versions /\ Usable(SkillOf[v])
<1>1. Row(w) \in OpRows /\ RowOK(wk[w].op)
  BY DEF LeaseParts, TypeOK, RowInv, Row
<1>2. ASSUME NEW s \in Skills, Selected(Row(w), s) # None
      PROVE  Selected(Row(w), s) \in Versions /\ SkillOf[Selected(Row(w), s)] = s
  <2>1. CASE Row(w).activate /\ s = Row(w).skill
    BY <1>1, <1>2, <2>1 DEF Selected, OpRows, Maybe, RowOK, Row
  <2>2. CASE ~(Row(w).activate /\ s = Row(w).skill)
    <3>1. skill[s] \in SkillRows /\ ShownOK(s)
      BY DEF LeaseParts, TypeOK, ShownInv
    <3>2. QED BY <1>2, <2>2, <3>1 DEF Selected, SkillRows, Maybe, ShownOK
  <2>3. QED BY <2>1, <2>2
<1>3. ASSUME NEW v \in Snapshot(Row(w))
      PROVE  v \in Versions /\ Usable(SkillOf[v])
  <2>1. PICK s \in Skills : skill[s].state = Active /\ v = Selected(Row(w), s) /\ v # None
    BY <1>3 DEF Snapshot
  <2>2. QED BY <1>2, <2>1 DEF Usable
<1>4. QED BY <1>2, <1>3

(* What the usable skills show, and the files of what is installed. *)
ShownKeeps ==
    /\ \A s \in Skills : (Usable(s)' <=> Usable(s)) /\ (Usable(s) => skill'[s].active = skill[s].active)
    /\ \A v \in Versions : version[v] = "installed" /\ Usable(SkillOf[v]) =>
           version'[v] = "installed" /\ (v \in files => v \in files')

(* A generation of an unchanged space. *)
LEMMA CurrentBefore ==
    ASSUME LeaseParts, TypeOK', GenInv, GensKeep, SpaceKeeps, OpsKeep,
           NEW w \in Workers, MayOnlyKeep(w), Current(w)'
    PROVE  /\ Current(w) /\ space'.rev = space.rev /\ space'.state = Active
           /\ wk[w].gen \in Gens /\ wk'[w].gen = wk[w].gen /\ gen'[wk[w].gen].docs = gen[wk[w].gen].docs
           /\ wk[w].op \in Ops /\ wk'[w].op = wk[w].op
           /\ Row(w)'.skill = Row(w).skill /\ Row(w)'.ver = Row(w).ver
           /\ Row(w)'.activate = Row(w).activate
<1>1. MayPublish(w)' /\ space'.state = Active /\ gen'[wk'[w].gen].src = space'.rev
  BY DEF Current
<1>2. MayPublish(w) /\ wk'[w].gen = wk[w].gen /\ wk'[w].op = wk[w].op /\ wk[w].op \in Ops
  BY <1>1 DEF MayOnlyKeep
<1>3. wk[w].gen \in Gens /\ gen[wk[w].gen].state # "new"
  BY <1>2, BuilderGen DEF MayPublish, Building
<1>4. /\ gen'[wk[w].gen].src = gen[wk[w].gen].src /\ gen'[wk[w].gen].docs = gen[wk[w].gen].docs
      /\ gen[wk[w].gen].src <= space.rev /\ space.rev <= space'.rev /\ space.state = Active
  BY <1>1, <1>3 DEF GensKeep, GenInv, SpaceKeeps
<1>5. gen[wk[w].gen].src \in Nat /\ space.rev \in Nat /\ space'.rev \in Nat
  BY <1>3 DEF LeaseParts, TypeOK, GenRows, Spaces
<1>6. space'.rev = space.rev /\ gen[wk[w].gen].src = space.rev
  BY <1>1, <1>2, <1>4, <1>5
<1>7. op[wk[w].op].state # "new"
  BY <1>2, OnlyRunning
<1>8. QED BY <1>1, <1>2, <1>3, <1>4, <1>6, <1>7 DEF Current, OpsKeep, Row

(* A build stays current while the space does not change. *)
LEMMA BuildStays ==
    ASSUME LeaseParts, TypeOK', GenInv, ShownInv, GensKeep, SpaceKeeps, OpsKeep,
           NEW w \in Workers, MayOnlyKeep(w), BuildOK(w),
           space'.rev = space.rev /\ space'.state = Active => ShownKeeps,
           Current(w) /\ wk'[w].pc # "content" =>
               wk[w].pc # "content" \/ gen[wk[w].gen].docs \subseteq files',
           Current(w) /\ wk'[w].pc \in {"switch", "commit"} =>
               coll'[wk[w].gen] = gen[wk[w].gen].docs
    PROVE  BuildOK(w)'
<1> SUFFICES ASSUME Current(w)'
             PROVE  (LET docs == gen[wk[w].gen].docs IN
                     /\ docs = Snapshot(Row(w))
                     /\ Row(w).skill # None => Usable(Row(w).skill)
                     /\ \A v \in docs : version[v] = "installed"
                     /\ wk[w].pc # "content" => docs \subseteq files
                     /\ wk[w].pc \in {"switch", "commit"} => coll[wk[w].gen] = docs)'
  BY DEF BuildOK
<1>1. /\ Current(w) /\ space'.rev = space.rev /\ space'.state = Active
      /\ wk[w].gen \in Gens /\ wk'[w].gen = wk[w].gen /\ gen'[wk[w].gen].docs = gen[wk[w].gen].docs
      /\ wk[w].op \in Ops /\ Row(w)'.skill = Row(w).skill /\ Row(w)'.ver = Row(w).ver
      /\ Row(w)'.activate = Row(w).activate
  BY CurrentBefore
<1>2. ShownKeeps
  BY <1>1
<1>3. PICK docs \in SUBSET Versions : docs = gen[wk[w].gen].docs
  BY <1>1 DEF LeaseParts, TypeOK, GenRows
<1>4. /\ docs = Snapshot(Row(w))
      /\ Row(w).skill # None => Usable(Row(w).skill)
      /\ \A v \in docs : version[v] = "installed"
      /\ wk[w].pc # "content" => docs \subseteq files
  BY <1>1, <1>3 DEF BuildOK
<1>5. \A v \in docs : Usable(SkillOf[v])
  BY <1>1, <1>4, SnapshotUsable
<1>6. Snapshot(Row(w))' = Snapshot(Row(w))
  <2>1. \A s \in Skills : skill'[s].state = Active <=> skill[s].state = Active
    BY <1>2 DEF ShownKeeps, Usable
  <2>2. \A s \in Skills : skill[s].state = Active => Selected(Row(w), s)' = Selected(Row(w), s)
    BY <1>1, <1>2 DEF ShownKeeps, Usable, Selected
  <2>3. QED BY <2>1, <2>2 DEF Snapshot
<1>7. Row(w).skill # None => Row(w).skill \in Skills
  BY <1>1 DEF LeaseParts, TypeOK, OpRows, Maybe, Row
<1>8. (Row(w).skill # None => Usable(Row(w).skill))'
  BY <1>1, <1>2, <1>4, <1>7 DEF ShownKeeps, Usable
<1>9. \A v \in docs : version'[v] = "installed"
  BY <1>2, <1>4, <1>5 DEF ShownKeeps
<1>10. wk'[w].pc # "content" => docs \subseteq files'
  BY <1>1, <1>2, <1>3, <1>4, <1>5 DEF ShownKeeps
<1>11. wk'[w].pc \in {"switch", "commit"} => coll'[wk[w].gen] = docs
  BY <1>1, <1>3
<1>12. QED BY <1>1, <1>3, <1>4, <1>6, <1>8, <1>9, <1>10, <1>11

(* A worker that stands still in its removal, or has left it. *)
LEMMA RemoveStays ==
    ASSUME LeaseParts, OpsKeep, SpaceKeeps, AssetsKeep, ActiveKeeps, NEW w \in Workers, RemoveOK(w),
           Serving' # None => Serving # None /\ Serving' \subseteq Serving,
           wk'[w] = wk[w] \/ wk'[w].pc \notin Removing \/ (wk[w].pc = "files" /\ Moved(w, "erase"))
    PROVE  RemoveOK(w)'
<1> SUFFICES ASSUME wk'[w].pc \in Removing
             PROVE  (/\ \A v \in wk[w].ids : Doomed(v)
                     /\ Row(w).kind = "delete_space" => Emptied
                     /\ StillServed(wk[w].ids) =>
                          \/ wk[w].pc \in {"purging", "purged"} /\ space.active \in wk[w].todo
                          \/ wk[w].pc = "purging" /\ wk[w].gen = space.active
                          \/ wk[w].pc = "erase")'
  BY DEF RemoveOK
<1>1. /\ wk[w].pc \in Removing /\ wk'[w].ids = wk[w].ids /\ wk'[w].op = wk[w].op
      /\ wk'[w].todo = wk[w].todo /\ wk'[w].gen = wk[w].gen
      /\ wk'[w].pc = wk[w].pc \/ wk'[w].pc = "erase"
  BY DEF Moved, Removing
<1>2. wk[w].op \in Ops /\ wk[w].ids \subseteq Versions /\ op[wk[w].op].state # "new"
  BY <1>1 DEF LeaseParts, TypeOK, WorkerRows, Maybe, WorkerInv, WorkerOK, Row, Removing,
     Unclaimed
<1>3. \A v \in wk[w].ids : Doomed(v)'
  BY <1>1, <1>2, DoomedKeeps DEF RemoveOK
<1>4. Row(w)'.kind = "delete_space" => Emptied'
  BY <1>1, <1>2 DEF RemoveOK, OpsKeep, Row, SpaceKeeps
<1>5. ASSUME StillServed(wk[w].ids)', wk'[w].pc # "erase"
      PROVE  \/ wk[w].pc \in {"purging", "purged"} /\ space'.active \in wk[w].todo
             \/ wk[w].pc = "purging" /\ wk[w].gen = space'.active
  <2>1. StillServed(wk[w].ids) /\ space'.active = space.active
    BY <1>1, <1>5 DEF StillServed, Serving, ActiveKeeps
  <2>2. QED BY <1>1, <1>5, <2>1 DEF RemoveOK
<1>6. QED BY <1>1, <1>3, <1>4, <1>5

(* The index matches the skills when neither changes. *)
LEMMA MatchStays ==
    ASSUME IndexMatchesSkills, Serving' = Serving \/ Serving' = None,
           \A s \in Skills : Usable(s)' => Usable(s) /\ skill'[s].active = skill[s].active
    PROVE  IndexMatchesSkills'
BY DEF IndexMatchesSkills, Usable, Of

(* What is served keeps its files when none is removed. *)
LEMMA FilesStay ==
    ASSUME ServedHasFiles, Serving' = Serving \/ Serving' = None, files \subseteq files'
    PROVE  ServedHasFiles'
BY DEF ServedHasFiles

-----------------------------------------------------------------------------
(* Steps that leave the assets alone *)

(* A step that leaves the assets alone. *)
LEMMA StillKeeps ==
    ASSUME TypeOK, UNCHANGED <<space, skill, version, files>>
    PROVE  SpaceKeeps /\ AssetsKeep /\ ActiveKeeps /\ VersionsStay /\ ShownKeeps
<1>1. space.rev \in Nat
  BY DEF TypeOK, Spaces
<1>2. SpaceKeeps /\ ActiveKeeps
  BY <1>1 DEF SpaceKeeps, ActiveKeeps, Emptied
<1>3. AssetsKeep /\ VersionsStay /\ ShownKeeps
  BY DEF AssetsKeep, VersionsStay, ShownKeeps, Usable
<1>4. QED BY <1>2, <1>3

(* A generation is built from files that are there, and sealed when it is  *)
(* complete.                                                               *)
BuildsRight(w) ==
    /\ wk'[w].pc \in Publishing \ {"content"} =>
         wk[w].pc # "content" \/ gen[wk[w].gen].docs \subseteq files
    /\ wk'[w].pc \in {"switch", "commit"} =>
         \/ wk[w].pc \in {"switch", "commit"}
         \/ wk[w].pc = "seal" /\ coll[wk[w].gen] = gen[wk[w].gen].docs

(* A collection that is complete stays so. *)
LEMMA CompleteStays ==
    ASSUME LeaseParts, GenInv, ThreadInv, CollSafe, NEW w \in Workers, Current(w),
           wk[w].pc \in Written
    PROVE  coll'[wk[w].gen] = coll[wk[w].gen]
<1>1. PICK g \in Gens : g = wk[w].gen
  BY BuilderGen DEF Current, MayPublish, Building
<1>2. ~Gone(g)
  BY <1>1 DEF Current, Gone, Emptied
<1>3. \A t \in threads : t[1] \in Writes => t[2] # g
  BY <1>1 DEF ThreadInv, ThreadOK
<1>4. QED BY <1>1, <1>2, <1>3 DEF CollSafe

(* A step that leaves the assets alone, and the generations in use, serves *)
(* what was served.                                                        *)
LEMMA StillServes ==
    ASSUME LeaseParts, LeaseParts', ServeParts, OpsKeep, OpsSame, GensSafe, CollSafe,
           UNCHANGED <<space, skill, version, files>>, BuildersStay,
           \A w \in Workers : MayOnlyKeep(w) /\ BuildsRight(w),
           DropInv', ThreadInv', RemoveInv'
    PROVE  ServeParts'
<1>1. SpaceKeeps /\ AssetsKeep /\ ActiveKeeps /\ VersionsStay /\ ShownKeeps
  BY StillKeeps DEF LeaseParts
<1>2. GensKeep /\ TypeOK /\ TypeOK'
  BY DEF GensSafe, LeaseParts
<1>3. AssetInv'
  BY <1>1, AssetStays DEF ServeParts
<1>4. ShownInv'
  BY DEF ServeParts, ShownInv, ShownOK, Usable
<1>5. GenInv'
  BY <1>1, <1>2, GenStays DEF ServeParts
<1>6. BuildInv'
  <2> SUFFICES ASSUME NEW w \in Workers PROVE BuildOK(w)'
    BY DEF BuildInv
  <2>1. BuildOK(w) /\ GenInv /\ ShownInv /\ ThreadInv /\ MayOnlyKeep(w) /\ BuildsRight(w)
    BY DEF ServeParts, BuildInv
  <2>2. CASE MayPublish(w)'
    <3>1. wk'[w].pc \in Publishing
      BY <2>2 DEF MayPublish
    <3>2. wk'[w].pc # "content" => wk[w].pc # "content" \/ gen[wk[w].gen].docs \subseteq files'
      BY <2>1, <3>1 DEF BuildsRight
    <3>3. ASSUME Current(w), wk'[w].pc \in {"switch", "commit"}
          PROVE  coll'[wk[w].gen] = gen[wk[w].gen].docs
      <4>1. coll[wk[w].gen] = gen[wk[w].gen].docs
        BY <2>1, <3>3 DEF BuildsRight, BuildOK
      <4>2. wk[w].pc \in Written
        BY <2>1, <3>3 DEF BuildsRight, Written, Publishing
      <4>3. QED BY <2>1, <3>3, <4>1, <4>2, CompleteStays
    <3>4. QED BY <1>1, <1>2, <2>1, <3>2, <3>3, BuildStays
  <2>3. CASE ~MayPublish(w)'
    BY <2>3 DEF BuildOK, Current
  <2>4. QED BY <2>2, <2>3
<1>7. Serving' = Serving \/ Serving' = None
  BY <1>1, <1>2, ServingStays DEF ServeParts
<1>8. IndexMatchesSkills'
  BY <1>7, MatchStays DEF ServeParts, Usable
<1>9. ServedHasFiles'
  BY <1>7, FilesStay DEF ServeParts
<1>10. QED BY <1>3, <1>4, <1>5, <1>6, <1>8, <1>9 DEF ServeParts

(* Where a worker neither builds, drops nor removes. *)
Safe == {"idle", "install", "publish", "mark_failed", "mark_lost", "list", "finish", "fail",
         "remove", "remove_failed", "finish_failed"}

(* A worker that stands still, stops, fails or gets on with publishing. *)
Quiet(w) ==
    \/ wk'[w] = wk[w]
    \/ wk'[w].pc \in Safe
    \/ wk[w].pc = "drop" /\ Moved(w, "drop_failed")
    \/ wk[w].pc = "sweep_drop" /\ Moved(w, "sweep_failed")
    \/ wk[w].pc = "seal" /\ Moved(w, "switch") /\ coll[wk[w].gen] = gen[wk[w].gen].docs
    \/ wk[w].pc = "switch" /\ Moved(w, "commit")

(* A quiet worker builds and removes nothing new. *)
LEMMA QuietBuilds ==
    ASSUME NEW w \in Workers, Quiet(w)
    PROVE  /\ BuildsRight(w)
           /\ wk'[w].pc \in Publishing => wk[w].pc \in Publishing /\ wk'[w].gen = wk[w].gen
           /\ wk'[w].pc \in Written => wk[w].pc \in Written
           /\ wk'[w].pc \in Removing => wk'[w] = wk[w]
<1>1. CASE wk'[w] = wk[w]
  BY <1>1 DEF BuildsRight
<1>2. CASE wk'[w].pc \in Safe
  BY <1>2 DEF BuildsRight, Safe, Written, Publishing, Removing
<1>3. CASE wk[w].pc = "drop" /\ Moved(w, "drop_failed")
  BY <1>3 DEF BuildsRight, Moved, Written, Publishing, Removing
<1>4. CASE wk[w].pc = "sweep_drop" /\ Moved(w, "sweep_failed")
  BY <1>4 DEF BuildsRight, Moved, Written, Publishing, Removing
<1>5. CASE wk[w].pc = "seal" /\ Moved(w, "switch") /\ coll[wk[w].gen] = gen[wk[w].gen].docs
  BY <1>5 DEF BuildsRight, Moved, Written, Publishing, Removing
<1>6. CASE wk[w].pc = "switch" /\ Moved(w, "commit")
  BY <1>6 DEF BuildsRight, Moved, Written, Publishing, Removing
<1>7. QED BY <1>1, <1>2, <1>3, <1>4, <1>5, <1>6 DEF Quiet

(* A quiet worker drops nothing new. *)
LEMMA QuietDrops ==
    ASSUME LeaseParts, OpsKeep, NEW w \in Workers, Quiet(w), DropOK(w),
           \A g \in Gens : Gone(g) => Gone(g)'
    PROVE  DropOK(w)'
<1>1. CASE wk'[w] = wk[w]
  BY <1>1, DropStays
<1>2. CASE wk'[w].pc \in Safe
  <2>1. wk'[w].pc \notin Dropping \cup {"purging", "purged"}
    BY <1>2 DEF Safe, Dropping
  <2>2. QED BY <2>1, DropStays
<1>3. CASE \E pc \in {"drop_failed", "sweep_failed"} : wk[w].pc \in {"drop", "sweep_drop"} /\ Moved(w, pc)
  <2>1. Drops(w) /\ wk'[w].gen = wk[w].gen /\ wk'[w].todo = wk[w].todo
    BY <1>3 DEF Drops, Dropping, Moved
  <2>2. QED BY <2>1, DropStays
<1>4. CASE \E pc \in {"switch", "commit"} : Moved(w, pc)
  <2>1. wk'[w].pc \notin Dropping \cup {"purging", "purged"}
    BY <1>4 DEF Moved, Dropping
  <2>2. QED BY <2>1, DropStays
<1>5. QED BY <1>1, <1>2, <1>3, <1>4 DEF Quiet

(* Only gone generations are marked, and only calls that return. *)
LEMMA QuietServes ==
    ASSUME LeaseParts, LeaseParts', ServeParts, OpsKeep, OpsSame, GensSafe,
           UNCHANGED <<space, skill, version, files, coll>>,
           threads' \subseteq threads,
           \A w \in Workers : MayOnlyKeep(w) /\ Quiet(w)
    PROVE  ServeParts'
<1>1. SpaceKeeps /\ AssetsKeep /\ ActiveKeeps /\ GensKeep /\ TypeOK
  BY StillKeeps DEF LeaseParts, GensSafe
<1>2. \A g \in Gens : Gone(g) => Gone(g)'
  BY <1>1, GoneKeeps
<1>3. DropInv'
  BY <1>2, QuietDrops DEF DropInv, ServeParts
<1>4. BuildersStay /\ \A w \in Workers : BuildsRight(w)
  BY QuietBuilds DEF BuildersStay
<1>5. \A w \in Workers : wk'[w].pc \in Written => wk[w].pc \in Written /\ wk'[w].gen = wk[w].gen
  BY QuietBuilds DEF Written
<1>6. ThreadInv'
  BY <1>1, <1>2, <1>5, ThreadStays DEF ServeParts
<1>7. CollSafe
  BY DEF CollSafe
<1>8. Serving' = Serving
  BY DEF Serving
<1>9. RemoveInv'
  <2> SUFFICES ASSUME NEW w \in Workers PROVE RemoveOK(w)'
    BY DEF RemoveInv
  <2>1. RemoveOK(w) /\ (wk'[w] = wk[w] \/ wk'[w].pc \notin Removing)
    BY QuietBuilds DEF ServeParts, RemoveInv
  <2>2. QED BY <1>1, <1>8, <2>1, RemoveStays
<1>10. QED BY <1>3, <1>4, <1>6, <1>7, <1>9, StillServes

(* The worker stops or fails, and no one else does anything. *)
LEMMA MovedQuiet ==
    ASSUME NEW w \in Workers, Others(w), Quiet(w)
    PROVE  \A x \in Workers : Quiet(x)
BY DEF Others, Quiet

(* Nothing but the worker moves. *)
LEMMA MoveServes ==
    ASSUME LeaseParts, LeaseParts', ServeParts, UNCHANGED <<assetVars, op, gen, coll>>,
           threads' \subseteq threads, NEW w \in Workers, Others(w), Quiet(w),
           \A x \in Workers : MayOnlyKeep(x)
    PROVE  ServeParts'
<1>1. \A x \in Workers : Quiet(x)
  BY MovedQuiet
<1>2. OpsKeep /\ OpsSame
  BY OpsStay
<1>3. GensSafe
  BY DEF GensSafe, GensKeep
<1>4. UNCHANGED <<space, skill, version, files, coll>>
  BY DEF assetVars
<1>5. QED BY <1>1, <1>2, <1>3, <1>4, QuietServes

(* The row of an operation that is not an upload is written. *)
LEMMA EditServes ==
    ASSUME LeaseParts, LeaseParts', ServeParts, UNCHANGED <<assetVars, gen, coll>>,
           threads' \subseteq threads, OpsKeep, NEW o \in Ops, Edited(o), op'[o].phase = op[o].phase,
           op[o].phase = "staging" => op'[o].state = op[o].state,
           \A x \in Workers : MayOnlyKeep(x) /\ Quiet(x)
    PROVE  ServeParts'
<1>1. OpsSame
  BY DEF OpsSame, Edited
<1>2. GensSafe
  BY DEF GensSafe, GensKeep
<1>3. UNCHANGED <<space, skill, version, files, coll>>
  BY DEF assetVars
<1>4. QED BY <1>1, <1>2, <1>3, QuietServes

-----------------------------------------------------------------------------
(* Leases come and go, work fails or goes on *)

(* The lease is lost. *)
LEMMA LeaseLostServes ==
    ASSUME LeaseParts, ServeParts, NEW w \in Workers, LeaseLost(w)
    PROVE  ServeParts'
<1>1. LeaseParts' /\ (\A x \in Workers : MayOnlyKeep(x)) /\ (Rested(w) \/ Moved(w, "mark_lost"))
  BY LeaseLostLeases
<1>2. Others(w)
  BY <1>1 DEF Moved, Rested
<1>3. Quiet(w)
  BY <1>1 DEF Quiet, Safe, Moved, Rested
<1>4. UNCHANGED <<assetVars, op, gen, coll>> /\ threads' \subseteq threads
  BY DEF LeaseLost
<1>5. QED BY <1>1, <1>2, <1>3, <1>4, MoveServes

(* The heartbeat fails. *)
LEMMA HeartbeatFailsServes ==
    ASSUME LeaseParts, ServeParts, NEW w \in Workers, HeartbeatFails(w)
    PROVE  ServeParts'
<1>1. LeaseParts' /\ (\A x \in Workers : MayOnlyKeep(x)) /\ Moved(w, "fail")
  BY HeartbeatFailsLeases
<1>2. Others(w)
  BY <1>1 DEF Moved, Rested
<1>3. Quiet(w)
  BY <1>1 DEF Quiet, Safe, Moved
<1>4. UNCHANGED <<assetVars, op, gen, coll>> /\ threads' \subseteq threads
  BY DEF HeartbeatFails
<1>5. QED BY <1>1, <1>2, <1>3, <1>4, MoveServes

(* The process dies with its threads. *)
LEMMA CrashServes ==
    ASSUME LeaseParts, ServeParts, NEW w \in Workers, Crash(w)
    PROVE  ServeParts'
<1>1. LeaseParts' /\ (\A x \in Workers : MayOnlyKeep(x)) /\ Rested(w)
  BY CrashLeases
<1>2. Others(w)
  BY <1>1 DEF Moved, Rested
<1>3. Quiet(w)
  BY <1>1 DEF Quiet, Safe, Rested
<1>4. UNCHANGED <<assetVars, op, gen, coll>> /\ threads' \subseteq threads
  BY DEF Crash
<1>5. QED BY <1>1, <1>2, <1>3, <1>4, MoveServes

(* There is nothing left to publish. *)
LEMMA PublishAgainServes ==
    ASSUME LeaseParts, ServeParts, NEW w \in Workers, PublishAgain(w)
    PROVE  ServeParts'
<1>1. LeaseParts' /\ (\A x \in Workers : MayOnlyKeep(x)) /\ Moved(w, "list")
  BY PublishAgainLeases
<1>2. Others(w)
  BY <1>1 DEF Moved, Rested
<1>3. Quiet(w)
  BY <1>1 DEF Quiet, Safe, Moved
<1>4. UNCHANGED <<assetVars, op, gen, coll>> /\ threads' \subseteq threads
  BY DEF PublishAgain
<1>5. QED BY <1>1, <1>2, <1>3, <1>4, MoveServes

(* The publication is refused. *)
LEMMA PublishRefusedServes ==
    ASSUME LeaseParts, ServeParts, NEW w \in Workers, PublishRefused(w)
    PROVE  ServeParts'
<1>1. LeaseParts' /\ (\A x \in Workers : MayOnlyKeep(x)) /\ Moved(w, "fail")
  BY PublishRefusedLeases
<1>2. Others(w)
  BY <1>1 DEF Moved, Rested
<1>3. Quiet(w)
  BY <1>1 DEF Quiet, Safe, Moved
<1>4. UNCHANGED <<assetVars, op, gen, coll>> /\ threads' \subseteq threads
  BY DEF PublishRefused
<1>5. QED BY <1>1, <1>2, <1>3, <1>4, MoveServes

(* The model or the index fails. *)
LEMMA BuildFailsServes ==
    ASSUME LeaseParts, ServeParts, NEW w \in Workers, BuildFails(w)
    PROVE  ServeParts'
<1>1. LeaseParts' /\ (\A x \in Workers : MayOnlyKeep(x)) /\ Moved(w, "mark_failed")
  BY BuildFailsLeases
<1>2. Others(w)
  BY <1>1 DEF Moved, Rested
<1>3. Quiet(w)
  BY <1>1 DEF Quiet, Safe, Moved
<1>4. UNCHANGED <<assetVars, op, gen, coll>> /\ threads' \subseteq threads
  BY DEF BuildFails
<1>5. QED BY <1>1, <1>2, <1>3, <1>4, MoveServes

(* The publishing transaction begins. *)
LEMMA SwitchStartServes ==
    ASSUME LeaseParts, ServeParts, NEW w \in Workers, SwitchStart(w)
    PROVE  ServeParts'
<1>1. LeaseParts' /\ (\A x \in Workers : MayOnlyKeep(x)) /\ Moved(w, "commit")
  BY SwitchStartLeases
<1>2. Others(w)
  BY <1>1 DEF Moved, Rested
<1>3. Quiet(w)
  BY <1>1 DEF Quiet, SwitchStart, At
<1>4. UNCHANGED <<assetVars, op, gen, coll>> /\ threads' \subseteq threads
  BY DEF SwitchStart
<1>5. QED BY <1>1, <1>2, <1>3, <1>4, MoveServes

(* The space has changed. *)
LEMMA SwitchRefusedServes ==
    ASSUME LeaseParts, ServeParts, NEW w \in Workers, SwitchRefused(w)
    PROVE  ServeParts'
<1>1. LeaseParts' /\ (\A x \in Workers : MayOnlyKeep(x)) /\ Moved(w, "mark_failed")
  BY SwitchRefusedLeases
<1>2. Others(w)
  BY <1>1 DEF Moved, Rested
<1>3. Quiet(w)
  BY <1>1 DEF Quiet, Safe, Moved
<1>4. UNCHANGED <<assetVars, op, gen, coll>> /\ threads' \subseteq threads
  BY DEF SwitchRefused
<1>5. QED BY <1>1, <1>2, <1>3, <1>4, MoveServes

(* There is nothing left to remove. *)
LEMMA RemoveNothingServes ==
    ASSUME LeaseParts, ServeParts, NEW w \in Workers, RemoveNothing(w)
    PROVE  ServeParts'
<1>1. LeaseParts' /\ (\A x \in Workers : MayOnlyKeep(x)) /\ Moved(w, "finish")
  BY RemoveNothingLeases
<1>2. Others(w)
  BY <1>1 DEF Moved, Rested
<1>3. Quiet(w)
  BY <1>1 DEF Quiet, Safe, Moved
<1>4. UNCHANGED <<assetVars, op, gen, coll>> /\ threads' \subseteq threads
  BY DEF RemoveNothing
<1>5. QED BY <1>1, <1>2, <1>3, <1>4, MoveServes

(* The collection is read back. *)
LEMMA SealServes ==
    ASSUME LeaseParts, ServeParts, NEW w \in Workers, Seal(w)
    PROVE  ServeParts'
<1>1. /\ LeaseParts' /\ (\A x \in Workers : MayOnlyKeep(x))
      /\ \/ Moved(w, "switch") /\ coll[wk[w].gen] = gen[wk[w].gen].docs
         \/ Moved(w, "mark_failed")
  BY SealLeases
<1>2. Others(w)
  BY <1>1 DEF Moved, Rested
<1>3. Quiet(w)
  BY <1>1 DEF Quiet, Safe, Moved, Seal, At
<1>4. UNCHANGED <<assetVars, op, gen, coll>> /\ threads' \subseteq threads
  BY DEF Seal
<1>5. QED BY <1>1, <1>2, <1>3, <1>4, MoveServes

(* A deletion in the index fails. *)
LEMMA DeletionFailsServes ==
    ASSUME LeaseParts, ServeParts, NEW w \in Workers, DeletionFails(w)
    PROVE  ServeParts'
<1>1. PICK pc \in {"drop", "purging", "sweep_drop"},
           then \in {"drop_failed", "remove_failed", "sweep_failed"} :
        /\ \/ pc = "drop" /\ then = "drop_failed"
           \/ pc = "purging" /\ then = "remove_failed"
           \/ pc = "sweep_drop" /\ then = "sweep_failed"
        /\ CallFails(w, pc, then)
  BY DEF DeletionFails
<1>2. LeaseParts' /\ (\A x \in Workers : MayOnlyKeep(x)) /\ Moved(w, then) /\ wk[w].pc = pc
  BY <1>1, CallFailsLeases
<1>3. Others(w) /\ Quiet(w)
  BY <1>1, <1>2 DEF Quiet, Safe, Moved
<1>4. UNCHANGED <<assetVars, op, gen, coll>> /\ threads' \subseteq threads
  BY <1>1 DEF CallFails
<1>5. QED BY <1>2, <1>3, <1>4, MoveServes

(* Nothing happens. *)
LEMMA NothingServes ==
    ASSUME LeaseParts, ServeParts, UNCHANGED vars
    PROVE  ServeParts'
<1>1. LeaseParts' /\ (\A w \in Workers : MayOnlyKeep(w)) /\ OpsKeep
  BY NothingLeases
<1>2. OpsSame
  BY OpsStay DEF vars
<1>3. GensSafe /\ \A w \in Workers : Quiet(w)
  BY DEF vars, GensSafe, GensKeep, Quiet
<1>4. UNCHANGED <<space, skill, version, files, coll>> /\ threads' \subseteq threads
  BY DEF vars
<1>5. QED BY <1>1, <1>2, <1>3, <1>4, QuietServes

(* A failed operation is tried again; an upload is not. *)
LEMMA RetryServes ==
    ASSUME LeaseParts, ServeParts, NEW o \in Ops, Retry(o)
    PROVE  ServeParts'
<1>1. /\ LeaseParts' /\ (\A w \in Workers : MayOnlyKeep(w)) /\ OpsKeep
      /\ Edited(o) /\ op'[o].phase = op[o].phase
  BY RetryLeases
<1>2. /\ UNCHANGED <<assetVars, gen, coll>> /\ threads' \subseteq threads /\ op[o].phase # "staging"
      /\ \A w \in Workers : Quiet(w)
  BY DEF Retry, assetVars, Quiet
<1>3. QED BY <1>1, <1>2, EditServes

(* Heartbeats are late, or nobody sends them. *)
LEMMA LeaseEndServes ==
    ASSUME LeaseParts, ServeParts, NEW o \in Ops, HeartbeatLate(o) \/ AbandonedLeaseEnds(o)
    PROVE  ServeParts'
<1>1. /\ LeaseParts' /\ (\A w \in Workers : MayOnlyKeep(w)) /\ OpsKeep
      /\ Edited(o) /\ op'[o].phase = op[o].phase /\ op'[o].state = op[o].state
  BY HeartbeatLateLeases, AbandonedLeaseEndsLeases
<1>2. /\ UNCHANGED <<assetVars, gen, coll>> /\ threads' \subseteq threads
      /\ \A w \in Workers : Quiet(w)
  BY DEF HeartbeatLate, AbandonedLeaseEnds, LeaseEnds, Quiet
<1>3. QED BY <1>1, <1>2, EditServes

(* A worker takes an operation. *)
LEMMA ClaimServes ==
    ASSUME LeaseParts, ServeParts, NEW w \in Workers, NEW o \in Ops, Claim(w, o)
    PROVE  ServeParts'
<1>1. /\ LeaseParts' /\ (\A x \in Workers : MayOnlyKeep(x)) /\ OpsKeep
      /\ Edited(o) /\ op'[o].phase = op[o].phase /\ op[o].phase # "staging"
      /\ Others(w) /\ wk'[w].pc \in {"install", "remove", "publish"}
  BY ClaimLeases
<1>2. \A x \in Workers : Quiet(x)
  BY <1>1, MovedQuiet DEF Quiet, Safe
<1>3. UNCHANGED <<assetVars, gen, coll>> /\ threads' \subseteq threads
  BY DEF Claim
<1>4. QED BY <1>1, <1>2, <1>3, EditServes

(* The operation has failed. *)
LEMMA FailServes ==
    ASSUME LeaseParts, ServeParts, NEW w \in Workers, Fail(w)
    PROVE  ServeParts'
<1>1. PICK o \in Ops : o = wk[w].op
  BY DEF Fail, Locked, LeaseParts, TypeOK, WorkerRows, Maybe
<1>2. /\ LeaseParts' /\ (\A x \in Workers : MayOnlyKeep(x)) /\ OpsKeep
      /\ Edited(o) /\ op'[o].phase = op[o].phase /\ op[o].phase # "staging" /\ Rested(w)
  BY <1>1, FailLeases
<1>3. \A x \in Workers : Quiet(x)
  BY <1>2, MovedQuiet DEF Quiet, Safe, Rested
<1>4. UNCHANGED <<assetVars, gen, coll>> /\ threads' \subseteq threads
  BY DEF Fail
<1>5. QED BY <1>2, <1>3, <1>4, EditServes

(* The operation has ended. *)
LEMMA FinishServes ==
    ASSUME LeaseParts, ServeParts, NEW w \in Workers, Finish(w)
    PROVE  ServeParts'
<1>1. PICK o \in Ops : o = wk[w].op
  BY DEF Finish, Locked, LeaseParts, TypeOK, WorkerRows, Maybe
<1>2. /\ LeaseParts' /\ (\A x \in Workers : MayOnlyKeep(x)) /\ OpsKeep
      /\ Edited(o) /\ op'[o].phase = op[o].phase /\ op[o].phase # "staging" /\ Rested(w)
  BY <1>1, FinishLeases
<1>3. \A x \in Workers : Quiet(x)
  BY <1>2, MovedQuiet DEF Quiet, Safe, Rested
<1>4. UNCHANGED <<assetVars, gen, coll>> /\ threads' \subseteq threads
  BY DEF Finish
<1>5. QED BY <1>2, <1>3, <1>4, EditServes

-----------------------------------------------------------------------------
(* Cleanups and sweeps *)

(* A failed build is marked: its worker has given up publishing it. *)
LEMMA MarkFailedServes ==
    ASSUME LeaseParts, ServeParts, NEW w \in Workers, MarkFailed(w)
    PROVE  ServeParts'
<1>1. /\ LeaseParts' /\ (\A x \in Workers : MayOnlyKeep(x)) /\ GensKeep
      /\ Rested(w) \/ Moved(w, "fail")
      /\ wk[w].pc \in {"mark_failed", "mark_lost"} /\ wk[w].gen \in Gens
  BY MarkFailedLeases
<1>2. PICK g \in Gens : g = wk[w].gen
  BY <1>1
<1>3. \A x \in Gens : gen'[x].state = gen[x].state \/ (x = g /\ gen[g].state = "building")
  BY <1>2, MarkFailedLeases DEF Marked
<1>4. ASSUME gen[g].state = "building" PROVE Gone(g)
  <2>1. g # space.active
    BY <1>2, <1>4, SkillAssumption DEF ServeParts, GenInv, ActiveIsServed, Active
  <2>2. \A x \in Workers : MayPublish(x) => wk[x].gen # g
    BY <1>1, <1>2, OneBuilder DEF MayPublish, Building, Publishing
  <2>3. QED BY <1>4, <2>1, <2>2 DEF Gone
<1>5. GensSafe
  BY <1>1, <1>3, <1>4 DEF GensSafe
<1>6. \A x \in Workers : Quiet(x)
  BY <1>1, MovedQuiet DEF Quiet, Safe, Rested, Moved
<1>7. OpsKeep /\ OpsSame /\ UNCHANGED <<space, skill, version, files, coll>> /\ threads' \subseteq threads
  BY OpsStay DEF MarkFailed, assetVars
<1>8. QED BY <1>1, <1>5, <1>6, <1>7, QuietServes

(* The next call of a list of generations that are gone. *)
LEMMA CallServes ==
    ASSUME LeaseParts, LeaseParts', ServeParts, GensSafe, UNCHANGED <<assetVars, op, coll>>,
           NEW w \in Workers, NEW todo \in SUBSET Gens, \A g \in todo : Gone(g),
           NEW pc \in {"drop", "sweep_drop"}, NEW end \in {"finish", "idle"},
           Called(w, todo, "drop", {}, pc, end), \A x \in Workers : MayOnlyKeep(x)
    PROVE  ServeParts'
<1>1. SpaceKeeps /\ AssetsKeep /\ ActiveKeeps /\ GensKeep /\ OpsKeep /\ OpsSame /\ TypeOK
  BY StillKeeps, OpsStay DEF LeaseParts, GensSafe, assetVars
<1>2. \A g \in Gens : Gone(g) => Gone(g)'
  BY <1>1, GoneKeeps
<1>3. /\ wk'[w].pc \in {pc, end} /\ wk'[w].pc \notin Publishing /\ wk'[w].pc \notin Removing
      /\ \A x \in Workers : x # w => wk'[x] = wk[x]
  BY DEF Called, Others, Publishing, Removing
<1>4. DropOK(w)'
  <2>1. CASE todo = {} /\ wk'[w].pc = end
    <3>1. wk'[w].pc \notin Dropping \cup {"purging", "purged"}
      BY <2>1 DEF Dropping
    <3>2. QED BY <1>1, <1>2, <3>1, DropStays DEF ServeParts, DropInv
  <2>2. CASE \E g \in todo : wk'[w].gen = g /\ wk'[w].todo = todo \ {g}
    <3>1. PICK g \in Gens : g \in todo /\ wk'[w].gen = g /\ wk'[w].todo = todo \ {g}
      BY <2>2
    <3>2. Gone(g)' /\ \A h \in todo : Gone(h)'
      BY <1>2, <3>1
    <3>3. QED BY <3>1, <3>2 DEF DropOK, Gone
  <2>3. QED BY <2>1, <2>2 DEF Called
<1>5. DropInv'
  BY <1>1, <1>2, <1>3, <1>4, DropStays DEF DropInv, ServeParts
<1>6. \A x \in Workers : wk'[x].pc \in Publishing => wk'[x] = wk[x]
  BY <1>3
<1>7. BuildersStay /\ \A x \in Workers : BuildsRight(x)
  <2>1. \A x \in Workers : wk'[x] = wk[x] => BuildsRight(x)
    BY DEF BuildsRight
  <2>2. BuildsRight(w)
    BY <1>3 DEF BuildsRight, Publishing
  <2>3. QED BY <1>3, <1>6, <2>1, <2>2 DEF BuildersStay
<1>8. ThreadInv'
  <2>1. ASSUME NEW t \in threads', t \notin threads
        PROVE  t[1] \notin Writes /\ ThreadOK(t)'
    <3>1. PICK g \in todo : t = <<"drop", g, w, {}>>
      BY <2>1 DEF Called
    <3>2. t[1] = "drop" /\ t[2] = g /\ "drop" # "purge" /\ "drop" \notin Writes
      BY <3>1 DEF Writes
    <3>3. Gone(g)'
      BY <1>2
    <3>4. QED BY <3>2, <3>3 DEF ThreadOK
  <2>2. \A x \in Workers : wk'[x].pc \in Written => wk[x].pc \in Written /\ wk'[x].gen = wk[x].gen
    BY <1>6 DEF Written
  <2>3. QED BY <1>1, <1>2, <2>1, <2>2, ThreadStays DEF ServeParts
<1>9. RemoveInv'
  <2>1. Serving' = Serving
    BY DEF Serving, assetVars
  <2>2. QED BY <1>1, <1>3, <2>1, RemoveStays DEF ServeParts, RemoveInv
<1>10. CollSafe /\ UNCHANGED <<space, skill, version, files>>
  BY DEF CollSafe, assetVars
<1>11. QED BY <1>1, <1>5, <1>7, <1>8, <1>9, <1>10, StillServes

(* What a cleanup lists is gone: it has ended, or belongs to an earlier    *)
(* lease of this operation.                                                *)
LEMMA CleanupTargetsGone ==
    ASSUME LeaseParts, GenInv, NEW w \in Workers, Locked(w), NEW g \in CleanupTargets(w)
    PROVE  Gone(g)
<1>1. wk[w].op \in Ops /\ op[wk[w].op].rev = wk[w].rev /\ wk[w].rev \in Nat
  BY DEF Locked, LeaseParts, TypeOK, WorkerRows, Maybe
<1>2. /\ g \in Gens /\ g # space.active
      /\ \/ gen[g].state \in {"retired", "failed", "cleanup_failed"}
         \/ \E r \in op[wk[w].op].gens : r.id = g /\ r.rev < wk[w].rev
  BY DEF CleanupTargets, Fenced, Row
<1>3. CASE gen[g].state \in {"retired", "failed", "cleanup_failed"}
  <2>1. \A x \in Workers : MayPublish(x) => wk[x].gen # g \/ Emptied
    BY <1>3 DEF GenInv
  <2>2. QED BY <1>2, <1>3, <2>1 DEF Gone
<1>4. CASE \E r \in op[wk[w].op].gens : r.id = g /\ r.rev < wk[w].rev
  <2>1. PICK r \in op[wk[w].op].gens : r.id = g /\ r.rev < wk[w].rev
    BY <1>4
  <2>2. gen[g].state # "new" /\ r.rev \in Nat
    BY <1>1, <2>1 DEF LeaseParts, RowInv, RowOK, TypeOK, OpRows
  <2>3. ASSUME NEW x \in Workers, MayPublish(x), wk[x].gen = g
        PROVE  FALSE
    <3>1. /\ wk[x].op \in Ops /\ [id |-> g, rev |-> wk[x].rev] \in op[wk[x].op].gens
      BY <2>3, BuilderGen DEF MayPublish, Building
    <3>2. wk[x].op = wk[w].op /\ r = [id |-> g, rev |-> wk[x].rev]
      BY <1>1, <2>1, <3>1 DEF LeaseParts, GenOwnerInv
    <3>3. op[wk[x].op].rev = wk[x].rev
      BY <2>3, OnlyRunning
    <3>4. QED BY <1>1, <2>1, <2>2, <3>2, <3>3
  <2>4. QED BY <1>2, <2>2, <2>3 DEF Gone
<1>5. QED BY <1>2, <1>3, <1>4

(* What a sweep lists is gone, if no publishing transaction is overdue:    *)
(* then whoever may publish has a valid lease.                             *)
LEMMA SweepTargetsGone ==
    ASSUME LeaseParts, \A x \in Workers : ~Overdue(x), NEW g \in SweepTargets
    PROVE  Gone(g)
<1>1. g \in Known /\ g \notin Leased /\ g # space.active
  BY DEF SweepTargets
<1>2. gen[g].state # "new"
  <2>1. PICK o \in Ops : \E r \in op[o].gens : g = r.id
    BY <1>1 DEF Known
  <2>2. QED BY <2>1 DEF LeaseParts, RowInv, RowOK
<1>3. ASSUME NEW x \in Workers, MayPublish(x), wk[x].gen = g
      PROVE  FALSE
  <2>1. wk[x].op \in Ops /\ [id |-> g, rev |-> wk[x].rev] \in op[wk[x].op].gens
    BY <1>3, BuilderGen DEF MayPublish, Building
  <2>2. /\ op[wk[x].op].state = "running" /\ op[wk[x].op].rev = wk[x].rev /\ op[wk[x].op].lease
    BY <1>3 DEF LeaseParts, LeaseInv, HasLease, MayPublish, Locked, Overdue, At, Row
  <2>3. g \in {r.id : r \in {q \in op[wk[x].op].gens : q.rev = op[wk[x].op].rev}}
    <3>1. [id |-> g, rev |-> wk[x].rev] \in {q \in op[wk[x].op].gens : q.rev = op[wk[x].op].rev}
      BY <2>1, <2>2
    <3>2. QED BY <3>1
  <2>4. wk[x].op \in {o \in Ops : op[o].state = "running" /\ op[o].lease}
    BY <2>1, <2>2
  <2>5. QED BY <1>1, <2>3, <2>4 DEF Leased
<1>4. QED BY <1>1, <1>2, <1>3 DEF Gone

(* One generation that is gone is marked. *)
LEMMA MarkedSafe ==
    ASSUME NEW g \in Gens, NEW st, Marked(g, st), GensKeep, Gone(g)
    PROVE  GensSafe
BY DEF Marked, GensSafe

(* What a worker is dropping. *)
LEMMA DropsGone ==
    ASSUME LeaseParts, ServeParts, NEW w \in Workers, wk[w].pc \in Dropping
    PROVE  /\ wk[w].gen \in Gens /\ Gone(wk[w].gen) /\ wk[w].todo \in SUBSET Gens
           /\ \A g \in wk[w].todo : Gone(g)
BY DEF ServeParts, DropInv, DropOK, Drops, LeaseParts, TypeOK, WorkerRows

(* A cleanup starts with generations that are gone. *)
LEMMA CleanupStartServes ==
    ASSUME LeaseParts, ServeParts, NEW w \in Workers, CleanupStart(w)
    PROVE  ServeParts'
<1>1. PICK todo \in SUBSET Gens : todo = CleanupTargets(w)
  BY DEF CleanupTargets
<1>2. \A g \in todo : Gone(g)
  BY <1>1, CleanupTargetsGone DEF ServeParts, CleanupStart
<1>3. /\ LeaseParts' /\ (\A x \in Workers : MayOnlyKeep(x))
      /\ Called(w, todo, "drop", {}, "drop", "finish")
  BY <1>1, CleanupStartLeases
<1>4. GensSafe /\ UNCHANGED <<assetVars, op, coll>>
  BY DEF CleanupStart, GensSafe, GensKeep
<1>5. QED BY <1>2, <1>3, <1>4, CallServes

(* A cleanup marks a generation that is gone. *)
LEMMA CleanupMarkServes ==
    ASSUME LeaseParts, ServeParts, NEW w \in Workers, CleanupMark(w)
    PROVE  ServeParts'
<1>1. /\ wk[w].gen \in Gens /\ Gone(wk[w].gen) /\ wk[w].todo \in SUBSET Gens
      /\ \A g \in wk[w].todo : Gone(g)
  BY DropsGone DEF CleanupMark, At, Dropping
<1>2. PICK todo \in SUBSET Gens, g \in Gens : todo = wk[w].todo /\ g = wk[w].gen
  BY <1>1
<1>3. /\ LeaseParts' /\ (\A x \in Workers : MayOnlyKeep(x)) /\ GensKeep
      /\ Called(w, todo, "drop", {}, "drop", "finish") /\ Marked(g, "deleted")
  BY <1>2, CleanupMarkLeases
<1>4. GensSafe
  BY <1>1, <1>2, <1>3, MarkedSafe
<1>5. UNCHANGED <<assetVars, op, coll>>
  BY DEF CleanupMark
<1>6. QED BY <1>1, <1>2, <1>3, <1>4, <1>5, CallServes

(* So does a cleanup that fails. *)
LEMMA CleanupFailedServes ==
    ASSUME LeaseParts, ServeParts, NEW w \in Workers, CleanupFailed(w)
    PROVE  ServeParts'
<1>1. wk[w].gen \in Gens /\ Gone(wk[w].gen)
  BY DropsGone DEF CleanupFailed, At, Dropping
<1>2. PICK g \in Gens : g = wk[w].gen
  BY <1>1
<1>3. /\ LeaseParts' /\ (\A x \in Workers : MayOnlyKeep(x)) /\ GensKeep
      /\ Moved(w, "fail") /\ Marked(g, "cleanup_failed")
  BY <1>2, CleanupFailedLeases
<1>4. GensSafe
  BY <1>1, <1>2, <1>3, MarkedSafe
<1>5. \A x \in Workers : Quiet(x)
  BY <1>3, MovedQuiet DEF Quiet, Safe, Moved
<1>6. OpsKeep /\ OpsSame /\ UNCHANGED <<space, skill, version, files, coll>> /\ threads' \subseteq threads
  BY OpsStay DEF CleanupFailed, assetVars
<1>7. QED BY <1>3, <1>4, <1>5, <1>6, QuietServes

(* A sweep that starts while no publishing transaction is overdue has      *)
(* generations that are gone: their operations or their leases have ended. *)
LEMMA SweepStartServes ==
    ASSUME LeaseParts, ServeParts, \A x \in Workers : ~Overdue(x),
           NEW w \in Workers, SweepStart(w)
    PROVE  ServeParts'
<1>1. PICK todo \in SUBSET Gens : todo = SweepTargets
  BY SweepTargetsAreGens DEF LeaseParts
<1>2. \A g \in todo : Gone(g)
  BY <1>1, SweepTargetsGone
<1>3. /\ LeaseParts' /\ (\A x \in Workers : MayOnlyKeep(x))
      /\ Called(w, todo, "drop", {}, "sweep_drop", "idle")
  BY <1>1, SweepStartLeases
<1>4. GensSafe /\ UNCHANGED <<assetVars, op, coll>>
  BY DEF SweepStart, GensSafe, GensKeep
<1>5. QED BY <1>2, <1>3, <1>4, CallServes

(* A sweep marks a generation that is gone. *)
LEMMA SweepMarkServes ==
    ASSUME LeaseParts, ServeParts, NEW w \in Workers, SweepMark(w)
    PROVE  ServeParts'
<1>1. /\ wk[w].gen \in Gens /\ Gone(wk[w].gen) /\ wk[w].todo \in SUBSET Gens
      /\ \A g \in wk[w].todo : Gone(g)
  BY DropsGone DEF SweepMark, At, Dropping
<1>2. PICK todo \in SUBSET Gens, g \in Gens : todo = wk[w].todo /\ g = wk[w].gen
  BY <1>1
<1>3. /\ LeaseParts' /\ (\A x \in Workers : MayOnlyKeep(x)) /\ GensKeep
      /\ Called(w, todo, "drop", {}, "sweep_drop", "idle") /\ \E st \in GenStates : Marked(g, st)
  BY <1>2, SweepMarkLeases
<1>4. GensSafe
  BY <1>1, <1>2, <1>3, MarkedSafe
<1>5. UNCHANGED <<assetVars, op, coll>>
  BY DEF SweepMark
<1>6. QED BY <1>1, <1>2, <1>3, <1>4, <1>5, CallServes

-----------------------------------------------------------------------------
(* Index calls *)

(* The files are read, and the collection is created. *)
LEMMA ReadContentServes ==
    ASSUME LeaseParts, ServeParts, NEW w \in Workers, ReadContent(w)
    PROVE  ServeParts'
<1>1. /\ LeaseParts' /\ (\A x \in Workers : MayOnlyKeep(x)) /\ wk[w].pc = "content"
      /\ \/ /\ Moved(w, "build") /\ gen[wk[w].gen].docs \subseteq files
            /\ threads' = threads \cup {<<"create", wk[w].gen, w, {}>>}
         \/ Moved(w, "fail") /\ UNCHANGED threads
  BY ReadContentLeases
<1>2. UNCHANGED <<assetVars, op, gen, coll>>
  BY DEF ReadContent
<1>3. CASE Moved(w, "fail") /\ UNCHANGED threads
  BY <1>1, <1>2, <1>3, MoveServes DEF Moved, Quiet, Safe
<1>4. CASE /\ Moved(w, "build") /\ gen[wk[w].gen].docs \subseteq files
           /\ threads' = threads \cup {<<"create", wk[w].gen, w, {}>>}
  <2>1. PICK g \in Gens : g = wk[w].gen
    BY <1>1, BuilderGen DEF Building, Publishing
  <2>2. gen[g].state # "new" /\ g # space.active
    BY <1>1, <2>1, BuilderGen DEF Building, Publishing, ServeParts, GenInv
  <2>3. /\ SpaceKeeps /\ AssetsKeep /\ ActiveKeeps /\ OpsKeep /\ OpsSame /\ TypeOK
        /\ GensSafe /\ GensKeep /\ CollSafe /\ UNCHANGED <<space, skill, version, files>>
    BY <1>2, StillKeeps, OpsStay DEF LeaseParts, GensSafe, GensKeep, CollSafe, assetVars
  <2>4. \A x \in Gens : Gone(x) => Gone(x)'
    BY <1>1, <2>3, GoneKeeps
  <2>5. \A x \in Workers : x # w => wk'[x] = wk[x]
    BY <1>4 DEF Moved, Others
  <2>6. wk'[w].pc = "build" /\ wk'[w].gen = g
    BY <1>4, <2>1 DEF Moved
  <2>7. DropInv'
    <3>1. wk'[w].pc \notin Dropping \cup {"purging", "purged"}
      BY <2>6 DEF Dropping
    <3>2. QED BY <2>3, <2>4, <2>5, <3>1, DropStays DEF DropInv, ServeParts
  <2>8. RemoveInv'
    <3>1. wk'[w].pc \notin Removing
      BY <2>6 DEF Removing
    <3>2. Serving' = Serving
      BY <1>2, <2>3 DEF Serving
    <3>3. QED BY <2>3, <2>5, <3>1, <3>2, RemoveStays DEF RemoveInv, ServeParts
  <2>9. BuildersStay /\ \A x \in Workers : BuildsRight(x)
    <3>1. BuildsRight(w)
      BY <1>4, <2>6 DEF BuildsRight
    <3>2. \A x \in Workers : wk'[x] = wk[x] => BuildsRight(x)
      BY DEF BuildsRight
    <3>3. QED BY <1>1, <2>1, <2>5, <2>6, <3>1, <3>2 DEF BuildersStay, Publishing
  <2>10. ThreadInv'
    <3>1. \A x \in Workers : wk'[x].gen = g => wk'[x].pc \notin Written
      BY <1>1, <2>1, <2>5, <2>6, OneBuilder DEF Written, Building, Publishing
    <3>2. ASSUME NEW t \in threads, t[1] \in Writes PROVE t[2] # g
      BY <1>1, <2>1, <3>2 DEF ServeParts, ThreadInv, ThreadOK, Written, Publishing
    <3>3. \A x \in Workers : wk'[x].pc \in Written => wk'[x] = wk[x]
      BY <2>5, <2>6 DEF Written
    <3>4. \A t \in threads :
            t[1] \in Writes => \A x \in Workers : wk'[x].gen = t[2] => wk'[x].pc \notin Written
      BY <3>3 DEF ServeParts, ThreadInv, ThreadOK
    <3>5. \A t \in threads : ThreadOK(t)'
      BY <2>3, <2>4, <3>4, ThreadKept DEF ServeParts
    <3>6. PICK c : c = <<"create", g, w, {}>>
      OBVIOUS
    <3>7. c[1] = "create" /\ c[2] = g
      BY <3>6
    <3>8. ThreadOK(c)'
      BY <1>2, <2>2, <2>3, <3>1, <3>7 DEF ThreadOK
    <3>9. threads' = threads \cup {c}
      BY <1>4, <2>1, <3>6
    <3>10. \A t, u \in threads' : t[1] \in Writes /\ u[1] \in Writes /\ t[2] = u[2] => t = u
      BY <3>2, <3>7, <3>9 DEF ServeParts, ThreadInv
    <3>11. QED BY <3>5, <3>8, <3>9, <3>10 DEF ThreadInv
  <2>11. QED BY <1>1, <2>3, <2>7, <2>8, <2>9, <2>10, StillServes
<1>5. QED BY <1>1, <1>3, <1>4

(* A write takes effect: nobody reads or publishes what it writes. *)
LEMMA WriteServes ==
    ASSUME LeaseParts, LeaseParts', ServeParts, UNCHANGED <<assetVars, op, gen>>,
           NEW w \in Workers, NEW c \in threads, c[1] \in Writes,
           \A g \in Gens : g # c[2] => coll'[g] = coll[g],
           \/ UNCHANGED wk
           \/ Moved(w, "mark_failed")
           \/ wk[w].pc = "build" /\ Moved(w, "seal") /\ wk[w].gen = c[2] /\ threads' = threads \ {c},
           \/ threads' = threads \ {c}
           \/ \E d \in threads' : d[1] \in Writes /\ d[2] = c[2] /\ threads' = (threads \ {c}) \cup {d},
           \A x \in Workers : MayOnlyKeep(x)
    PROVE  ServeParts'
<1>1. /\ SpaceKeeps /\ AssetsKeep /\ ActiveKeeps /\ OpsKeep /\ OpsSame /\ TypeOK
      /\ GensSafe /\ GensKeep /\ UNCHANGED <<space, skill, version, files>>
  BY StillKeeps, OpsStay DEF LeaseParts, GensSafe, GensKeep, assetVars
<1>2. CollSafe
  BY DEF CollSafe
<1>3. \A g \in Gens : Gone(g) => Gone(g)'
  BY <1>1, GoneKeeps
<1>4. \A x \in Workers : x # w => wk'[x] = wk[x]
  BY DEF Moved, Others
<1>5. wk'[w] = wk[w] \/ wk'[w].pc \in {"mark_failed", "seal"}
  BY DEF Moved
<1>6. DropInv'
  <2>1. wk'[w] = wk[w] \/ wk'[w].pc \notin Dropping \cup {"purging", "purged"}
    BY <1>5 DEF Dropping
  <2>2. QED BY <1>1, <1>3, <1>4, <2>1, DropStays DEF DropInv, ServeParts
<1>7. RemoveInv'
  <2>1. wk'[w] = wk[w] \/ wk'[w].pc \notin Removing
    BY <1>5 DEF Removing
  <2>2. Serving' = Serving \/ Serving' = None
    BY <1>1, <1>2, ServingStays DEF ServeParts
  <2>3. QED BY <1>1, <1>4, <2>1, <2>2, RemoveStays DEF RemoveInv, ServeParts
<1>8. BuildersStay /\ \A x \in Workers : BuildsRight(x)
  <2>1. \A x \in Workers : wk'[x] = wk[x] => BuildsRight(x)
    BY DEF BuildsRight
  <2>2. BuildsRight(w)
    BY <2>1 DEF BuildsRight, Moved, Publishing
  <2>3. wk'[w].pc \in Publishing => wk[w].pc \in Publishing /\ wk'[w].gen = wk[w].gen
    BY DEF Moved, Publishing
  <2>4. QED BY <1>4, <2>1, <2>2, <2>3 DEF BuildersStay
<1>9. ThreadInv'
  <2>1. \A x \in Workers : wk'[x].pc \in Written =>
          wk'[x] = wk[x] \/ (wk'[x].gen = c[2] /\ threads' = threads \ {c})
    BY <1>4 DEF Moved, Written, Publishing
  <2>2. ASSUME NEW t \in threads, t[1] \in Writes, t # c PROVE t[2] # c[2]
    BY <2>2 DEF ServeParts, ThreadInv
  <2>3. ASSUME NEW t \in threads, t # c \/ threads' # threads \ {c} PROVE ThreadOK(t)'
    <3>1. t[1] \in Writes => \A x \in Workers : wk'[x].gen = t[2] => wk'[x].pc \notin Written
      BY <2>1, <2>2, <2>3 DEF ServeParts, ThreadInv, ThreadOK
    <3>2. QED BY <1>1, <1>3, <3>1, ThreadKept DEF ServeParts
  <2>4. CASE threads' = threads \ {c}
    <3>1. \A t \in threads' : ThreadOK(t)'
      BY <2>3, <2>4
    <3>2. \A t, u \in threads' : t[1] \in Writes /\ u[1] \in Writes /\ t[2] = u[2] => t = u
      BY <2>4 DEF ServeParts, ThreadInv
    <3>3. QED BY <3>1, <3>2 DEF ThreadInv
  <2>5. CASE threads' # threads \ {c}
    <3>1. PICK d \in threads' : d[1] \in Writes /\ d[2] = c[2] /\ threads' = (threads \ {c}) \cup {d}
      BY <2>5
    <3>2. \A t \in threads : ThreadOK(t)'
      BY <2>3, <2>5
    <3>3. "create" # "drop" /\ "create" # "purge" /\ "insert" # "drop" /\ "insert" # "purge"
      OBVIOUS
    <3>4. ThreadOK(d)'
      BY <3>1, <3>2, <3>3 DEF ThreadOK, Writes
    <3>5. \A t, u \in threads' : t[1] \in Writes /\ u[1] \in Writes /\ t[2] = u[2] => t = u
      BY <2>2, <3>1 DEF ServeParts, ThreadInv
    <3>6. QED BY <3>1, <3>2, <3>4, <3>5 DEF ThreadInv
  <2>6. QED BY <2>4, <2>5
<1>10. QED BY <1>1, <1>2, <1>6, <1>7, <1>8, <1>9, StillServes

(* A thread creates the collection of a generation in its build, or of one *)
(* that is gone.                                                           *)
LEMMA IndexCreateServes ==
    ASSUME LeaseParts, ServeParts, NEW w \in Workers, NEW g \in Gens, IndexCreate(w, g)
    PROVE  ServeParts'
<1>1. PICK c \in threads : c = <<"create", g, w, {}>>
  BY DEF IndexCreate
<1>2. PICK d : d = <<"insert", g, w, gen[g].docs>>
  OBVIOUS
<1>3. c[1] \in Writes /\ c[2] = g /\ d[1] \in Writes /\ d[2] = g
  BY <1>1, <1>2 DEF Writes
<1>4. /\ LeaseParts' /\ (\A x \in Workers : MayOnlyKeep(x))
      /\ \/ UNCHANGED wk /\ threads' = threads \ {c}
         \/ UNCHANGED wk /\ threads' = (threads \ {c}) \cup {d}
         \/ Moved(w, "mark_failed") /\ threads' = threads \ {c}
  BY <1>1, <1>2, IndexCreateLeases
<1>5. \/ threads' = threads \ {c}
      \/ \E e \in threads' : e[1] \in Writes /\ e[2] = c[2] /\ threads' = (threads \ {c}) \cup {e}
  BY <1>3, <1>4
<1>6. UNCHANGED <<assetVars, op, gen>> /\ \A x \in Gens : x # g => coll'[x] = coll[x]
  BY DEF IndexCreate, LeaseParts, TypeOK
<1>7. QED BY <1>3, <1>4, <1>5, <1>6, WriteServes

(* A thread inserts into the collection of a generation in its build, or   *)
(* of one that is gone.                                                    *)
LEMMA IndexInsertServes ==
    ASSUME LeaseParts, ServeParts, NEW w \in Workers, NEW g \in Gens, IndexInsert(w, g)
    PROVE  ServeParts'
<1>1. PICK c \in threads : c = <<"insert", g, w, gen[g].docs>>
  BY DEF IndexInsert
<1>2. c[1] \in Writes /\ c[2] = g /\ threads' = threads \ {c}
  BY <1>1 DEF Writes, IndexInsert
<1>3. /\ LeaseParts' /\ (\A x \in Workers : MayOnlyKeep(x))
      /\ \/ UNCHANGED wk
         \/ wk[w].gen = g /\ wk[w].pc = "build" /\ \E pc \in {"mark_failed", "seal"} : Moved(w, pc)
  BY IndexInsertLeases
<1>4. \/ UNCHANGED wk
      \/ Moved(w, "mark_failed")
      \/ wk[w].pc = "build" /\ Moved(w, "seal") /\ wk[w].gen = c[2] /\ threads' = threads \ {c}
  BY <1>2, <1>3
<1>5. UNCHANGED <<assetVars, op, gen>> /\ \A x \in Gens : x # g => coll'[x] = coll[x]
  BY DEF IndexInsert, LeaseParts, TypeOK
<1>6. QED BY <1>2, <1>3, <1>4, <1>5, WriteServes

(* The worker that awaits a deletion goes on with its list. *)
Proceeds(w, call) ==
    \/ UNCHANGED wk
    \/ /\ call = Awaited(w)
       /\ \/ wk[w].pc = "drop" /\ Moved(w, "dropped")
          \/ wk[w].pc = "purging" /\ Moved(w, "purged")
          \/ wk[w].pc = "sweep_drop" /\ Moved(w, "sweep_mark")

(* A worker that proceeds after a call drops what it was dropping. *)
LEMMA ProceedsDrops ==
    ASSUME LeaseParts, OpsKeep, DropInv, NEW w \in Workers, NEW call, Proceeds(w, call),
           \A g \in Gens : Gone(g) => Gone(g)'
    PROVE  DropInv'
<1>1. \A x \in Workers : x # w => wk'[x] = wk[x]
  BY DEF Proceeds, Moved, Others
<1>2. DropOK(w)'
  <2>1. CASE UNCHANGED wk
    BY <2>1, DropStays DEF DropInv
  <2>2. CASE wk[w].pc \in {"drop", "sweep_drop"} /\ \E pc \in {"dropped", "sweep_mark"} : Moved(w, pc)
    <3>1. Drops(w) /\ wk'[w].gen = wk[w].gen /\ wk'[w].todo = wk[w].todo
      BY <2>2 DEF Drops, Dropping, Moved
    <3>2. QED BY <3>1, DropStays DEF DropInv
  <2>3. CASE wk[w].pc = "purging" /\ Moved(w, "purged")
    <3>1. wk'[w].gen = wk[w].gen /\ wk'[w].todo = wk[w].todo /\ wk'[w].op = wk[w].op
          /\ wk'[w].pc = "purged"
      BY <2>3 DEF Moved
    <3>2. wk[w].op \in Ops /\ op[wk[w].op].state # "new"
      BY <2>3 DEF LeaseParts, TypeOK, WorkerRows, Maybe, WorkerInv, WorkerOK, Row, Unclaimed
    <3>3. Drops(w)' => Drops(w)
      BY <2>3, <3>1, <3>2 DEF Drops, Dropping, Row, OpsKeep
    <3>4. CASE Drops(w)
      BY <3>1, <3>4, DropStays DEF DropInv
    <3>5. QED BY <3>3, <3>4 DEF DropOK
  <2>4. QED BY <2>1, <2>2, <2>3 DEF Proceeds
<1>3. QED BY <1>1, <1>2, DropStays DEF DropInv

(* A worker that proceeds after a call does not build. *)
LEMMA ProceedsBuilds ==
    ASSUME NEW w \in Workers, NEW call, Proceeds(w, call)
    PROVE  \A x \in Workers : wk'[x].pc \in Publishing => wk'[x] = wk[x]
BY DEF Proceeds, Moved, Others, Publishing

(* The removal goes on only when what it awaited is gone from the index. *)
LEMMA ProceedsRemoves ==
    ASSUME LeaseParts, RemoveInv, OpsKeep, SpaceKeeps, AssetsKeep, ActiveKeeps,
           NEW w \in Workers, NEW call, Proceeds(w, call),
           Serving' # None => Serving # None /\ Serving' \subseteq Serving,
           \A ids : call = <<"purge", space.active, w, ids>> /\ Serving' # None => Serving' \cap ids = {}
    PROVE  RemoveInv'
<1>1. \A x \in Workers : x # w => wk'[x] = wk[x]
  BY DEF Proceeds, Moved, Others
<1>2. CASE wk'[w] = wk[w] \/ wk'[w].pc \notin Removing
  BY <1>1, <1>2, RemoveStays DEF RemoveInv
<1>3. CASE call = Awaited(w) /\ wk[w].pc = "purging" /\ Moved(w, "purged")
  <2>1. /\ wk'[w].ids = wk[w].ids /\ wk'[w].op = wk[w].op /\ wk'[w].pc = "purged"
        /\ wk'[w].todo = wk[w].todo
    BY <1>3 DEF Moved
  <2>2. wk[w].op \in Ops /\ wk[w].ids \subseteq Versions /\ op[wk[w].op].state # "new"
    BY <1>3 DEF LeaseParts, TypeOK, WorkerRows, Maybe, WorkerInv, WorkerOK, Row, Unclaimed
  <2>3. /\ \A v \in wk[w].ids : Doomed(v)
        /\ Row(w).kind = "delete_space" => Emptied
        /\ StillServed(wk[w].ids) => space.active \in wk[w].todo \/ wk[w].gen = space.active
    BY <1>3 DEF RemoveInv, RemoveOK, Removing
  <2>4. \A v \in wk[w].ids : Doomed(v)'
    BY <2>2, <2>3, DoomedKeeps
  <2>5. Row(w)'.kind = "delete_space" => Emptied'
    BY <2>1, <2>2, <2>3 DEF OpsKeep, Row, SpaceKeeps
  <2>6. ASSUME StillServed(wk[w].ids)'
        PROVE  space'.active \in wk[w].todo
    <3>1. /\ Serving' # None /\ Serving' \cap wk[w].ids # {} /\ StillServed(wk[w].ids)
          /\ space'.active = space.active /\ space.active # None
      BY <2>1, <2>6 DEF StillServed, Serving, ActiveKeeps
    <3>2. Row(w).kind # "delete_space"
      BY <2>3, <3>1 DEF Emptied
    <3>3. call = <<"purge", wk[w].gen, w, wk[w].ids>>
      BY <1>3, <3>2 DEF Awaited, Purges, At
    <3>4. wk[w].gen # space.active
      BY <3>1, <3>3
    <3>5. QED BY <2>3, <3>1, <3>4
  <2>7. RemoveOK(w)'
    BY <2>1, <2>4, <2>5, <2>6 DEF RemoveOK
  <2>8. QED BY <1>1, <2>7, RemoveStays DEF RemoveInv
<1>4. QED BY <1>2, <1>3 DEF Proceeds, Moved, Removing

(* A thread drops the collection of a generation that is gone. *)
LEMMA IndexDropServes ==
    ASSUME LeaseParts, ServeParts, NEW w \in Workers, NEW g \in Gens, IndexDrop(w, g)
    PROVE  ServeParts'
<1>1. PICK c \in threads : c = <<"drop", g, w, {}>>
  BY DEF IndexDrop
<1>2. LeaseParts' /\ (\A x \in Workers : MayOnlyKeep(x)) /\ Proceeds(w, c)
  BY <1>1, IndexDropLeases DEF Proceeds
<1>3. c[1] = "drop" /\ c[2] = g
  BY <1>1
<1>4. Gone(g)
  BY <1>3 DEF ServeParts, ThreadInv, ThreadOK
<1>5. /\ SpaceKeeps /\ AssetsKeep /\ ActiveKeeps /\ OpsKeep /\ OpsSame /\ TypeOK
      /\ GensSafe /\ GensKeep /\ UNCHANGED <<space, skill, version, files>>
  BY StillKeeps, OpsStay DEF LeaseParts, GensSafe, GensKeep, assetVars, IndexDrop
<1>6. CollSafe
  BY <1>4 DEF CollSafe, IndexDrop, LeaseParts, TypeOK
<1>7. \A x \in Gens : Gone(x) => Gone(x)'
  BY <1>2, <1>5, GoneKeeps
<1>8. DropInv'
  BY <1>2, <1>5, <1>7, ProceedsDrops DEF ServeParts
<1>9. \A x \in Workers : wk'[x].pc \in Publishing => wk'[x] = wk[x]
  BY <1>2, ProceedsBuilds
<1>10. BuildersStay /\ \A x \in Workers : BuildsRight(x)
  BY <1>9 DEF BuildersStay, BuildsRight, Publishing
<1>11. ThreadInv'
  <2>1. threads' \subseteq threads
    BY DEF IndexDrop
  <2>2. \A x \in Workers : wk'[x].pc \in Written => wk[x].pc \in Written /\ wk'[x].gen = wk[x].gen
    BY <1>9 DEF Written
  <2>3. QED BY <1>5, <1>7, <2>1, <2>2, ThreadStays DEF ServeParts
<1>12. RemoveInv'
  <2>1. Serving' = Serving \/ Serving' = None
    BY <1>5, <1>6, ServingStays DEF ServeParts
  <2>2. \A ids : c # <<"purge", space.active, w, ids>>
    BY <1>1
  <2>3. QED BY <1>2, <1>5, <2>1, <2>2, ProceedsRemoves DEF ServeParts
<1>13. QED BY <1>2, <1>5, <1>6, <1>8, <1>10, <1>11, <1>12, StillServes

(* A purge takes doomed versions out of a collection: nothing that is      *)
(* shown, or is going to be.                                               *)
LEMMA IndexPurgeServes ==
    ASSUME LeaseParts, ServeParts, NEW w \in Workers, NEW g \in Gens, IndexPurge(w, g)
    PROVE  ServeParts'
<1>1. PICK docs \in SUBSET Versions :
        /\ <<"purge", g, w, docs>> \in threads
        /\ threads' = threads \ {<<"purge", g, w, docs>>}
        /\ coll' = [coll EXCEPT ![g] = IF @ = None THEN None ELSE @ \ docs]
        /\ Deleted(w, <<"purge", g, w, docs>>)
        /\ UNCHANGED <<assetVars, op, gen, trouble, published>>
  BY DEF IndexPurge
<1>2. PICK c \in threads : c = <<"purge", g, w, docs>>
  BY <1>1
<1>3. LeaseParts' /\ (\A x \in Workers : MayOnlyKeep(x)) /\ Proceeds(w, c)
  BY <1>1, <1>2, IndexPurgeLeases DEF Proceeds
<1>4. c[1] = "purge" /\ c[4] = docs
  BY <1>2
<1>5. \A v \in docs : Doomed(v)
  BY <1>4 DEF ServeParts, ThreadInv, ThreadOK
<1>6. /\ SpaceKeeps /\ AssetsKeep /\ ActiveKeeps /\ OpsKeep /\ OpsSame /\ TypeOK /\ TypeOK'
      /\ VersionsStay /\ ShownKeeps /\ GensKeep /\ UNCHANGED <<space, skill, version, files, gen>>
  BY <1>1, <1>3, StillKeeps, OpsStay DEF LeaseParts, GensKeep, assetVars
<1>7. /\ \A x \in Gens : x # g => coll'[x] = coll[x]
      /\ coll'[g] = IF coll[g] = None THEN None ELSE coll[g] \ docs
  BY <1>1 DEF LeaseParts, TypeOK
<1>8. \A x \in Gens : Gone(x) => Gone(x)'
  BY <1>3, <1>6, GoneKeeps
<1>9. DropInv'
  BY <1>3, <1>6, <1>8, ProceedsDrops DEF ServeParts
<1>10. \A x \in Workers : wk'[x].pc \in Publishing => wk'[x] = wk[x]
  BY <1>3, ProceedsBuilds
<1>11. ThreadInv'
  <2>1. \A x \in Workers : wk'[x].pc \in Written => wk[x].pc \in Written /\ wk'[x].gen = wk[x].gen
    BY <1>10 DEF Written
  <2>2. QED BY <1>1, <1>6, <1>8, <2>1, ThreadStays DEF ServeParts
<1>12. Serving' = IF Serving = None THEN None
                  ELSE IF g = space.active THEN Serving \ docs ELSE Serving
  <2>1. space.active # None => space.active \in Gens
    BY <1>6 DEF TypeOK, Spaces, Maybe
  <2>2. QED BY <1>6, <1>7, <2>1 DEF Serving
<1>13. (Serving' # None => Serving # None /\ Serving' \subseteq Serving) /\ (Serving # None => Serving' # None)
  <2>1. Serving # None => Serving \in SUBSET Versions
    BY <1>6 DEF Serving, TypeOK, Spaces, Maybe
  <2>2. QED BY <1>12, <2>1, SkillAssumption
<1>14. RemoveInv'
  <2>1. \A ids : c = <<"purge", space.active, w, ids>> /\ Serving' # None => Serving' \cap ids = {}
    BY <1>2, <1>12, <1>13
  <2>2. QED BY <1>3, <1>6, <1>13, <2>1, ProceedsRemoves DEF ServeParts
<1>15. AssetInv' /\ ShownInv'
  <2>1. AssetInv'
    BY <1>6, AssetStays DEF ServeParts
  <2>2. ShownInv'
    BY <1>6 DEF ServeParts, ShownInv, ShownOK, Usable
  <2>3. QED BY <2>1, <2>2
<1>16. GenInv'
  <2>1. GenInv /\ Emptied' = Emptied
    BY <1>6 DEF ServeParts, Emptied
  <2>2. \A x \in Gens : gen'[x].state # "new" => gen'[x].src <= space'.rev
    BY <1>6, <2>1 DEF GenInv
  <2>3. \A x \in Workers : MayPublish(x)' => gen'[wk'[x].gen].state = "building" \/ Emptied'
    BY <1>3, <1>6, <2>1 DEF GenInv, MayOnlyKeep
  <2>4. \A x \in Workers : wk'[x].pc \in Publishing => wk'[x].gen # space'.active
    BY <1>6, <1>10, <2>1 DEF GenInv
  <2>5. ActiveIsServed'
    BY <1>6, <1>13, <2>1 DEF GenInv, ActiveIsServed
  <2>6. QED BY <2>2, <2>3, <2>4, <2>5 DEF GenInv
<1>17. BuildInv'
  <2> SUFFICES ASSUME NEW x \in Workers PROVE BuildOK(x)'
    BY DEF BuildInv
  <2>1. BuildOK(x) /\ GenInv /\ ShownInv /\ MayOnlyKeep(x)
    BY <1>3 DEF ServeParts, BuildInv
  <2>2. CASE wk'[x] = wk[x]
    <3>1. ASSUME Current(x), wk'[x].pc \in {"switch", "commit"}
          PROVE  coll'[wk[x].gen] = gen[wk[x].gen].docs
      <4>1. /\ coll[wk[x].gen] = gen[wk[x].gen].docs /\ gen[wk[x].gen].docs = Snapshot(Row(x))
            /\ \A v \in gen[wk[x].gen].docs : version[v] = "installed"
        BY <2>1, <2>2, <3>1 DEF BuildOK
      <4>2. wk[x].gen \in Gens /\ wk[x].op \in Ops
        BY <3>1, BuilderGen DEF Current, MayPublish, Building
      <4>3. \A v \in gen[wk[x].gen].docs : ~Doomed(v)
        BY <2>1, <4>1, <4>2, SnapshotUsable DEF Doomed, Dying
      <4>4. gen[wk[x].gen].docs \in SUBSET Versions
        BY <1>6, <4>2 DEF TypeOK, GenRows
      <4>5. QED BY <1>5, <1>7, <4>1, <4>2, <4>3, <4>4, SkillAssumption
    <3>2. QED BY <1>6, <2>1, <2>2, <3>1, BuildStays
  <2>3. CASE wk'[x] # wk[x]
    BY <1>10, <2>3 DEF BuildOK, Current, MayPublish
  <2>4. QED BY <2>2, <2>3
<1>18. IndexMatchesSkills'
  <2> SUFFICES ASSUME Serving' # None, NEW s \in Skills, skill[s].state = Active
               PROVE  Serving' \cap Of(s) = {skill[s].active} \ {None}
    BY <1>6 DEF IndexMatchesSkills, Of
  <2>1. Serving # None /\ Serving \cap Of(s) = {skill[s].active} \ {None}
    BY <1>13 DEF ServeParts, IndexMatchesSkills
  <2>2. ShownOK(s)
    BY DEF ServeParts, ShownInv
  <2>3. skill[s].active # None => skill[s].active \notin docs
    BY <1>5, <2>2 DEF ShownOK, Doomed, Usable, Dying
  <2>4. QED BY <1>12, <2>1, <2>3
<1>19. ServedHasFiles'
  BY <1>6, <1>13 DEF ServeParts, ServedHasFiles
<1>20. QED BY <1>9, <1>11, <1>14, <1>15, <1>16, <1>17, <1>18, <1>19 DEF ServeParts

-----------------------------------------------------------------------------
(* Steps that change the assets *)

(* Nobody starts to build; what is marked, written, dropped and removed is *)
(* shown to be safe by the step itself.                                    *)
LEMMA ChangeServes ==
    ASSUME LeaseParts, LeaseParts', ServeParts, OpsKeep, GensSafe, CollSafe,
           SpaceKeeps, ActiveKeeps, AssetsKeep,
           \A s \in Skills : Usable(s)' => skill'[s].active = skill[s].active,
           space'.rev = space.rev /\ space'.state = Active => ShownKeeps,
           \A w \in Workers : MayOnlyKeep(w) /\ (wk'[w].pc \in Publishing => Quiet(w)),
           files \subseteq files' \/ ServedHasFiles',
           AssetInv', ShownInv', DropInv', ThreadInv', RemoveInv'
    PROVE  ServeParts'
<1>1. GensKeep /\ TypeOK /\ TypeOK'
  BY DEF GensSafe, LeaseParts
<1>2. \A w \in Workers : wk'[w].pc \in Publishing =>
        BuildsRight(w) /\ wk[w].pc \in Publishing /\ wk'[w].gen = wk[w].gen
  BY QuietBuilds
<1>3. GenInv'
  <2>1. BuildersStay
    BY <1>2 DEF BuildersStay
  <2>2. QED BY <1>1, <2>1, GenStays DEF ServeParts
<1>4. BuildInv'
  <2> SUFFICES ASSUME NEW w \in Workers PROVE BuildOK(w)'
    BY DEF BuildInv
  <2>1. BuildOK(w) /\ GenInv /\ ShownInv /\ ThreadInv /\ MayOnlyKeep(w)
    BY DEF ServeParts, BuildInv
  <2>2. CASE MayPublish(w)'
    <3>1. wk'[w].pc \in Publishing /\ wk[w].pc \in Publishing /\ Quiet(w) /\ BuildsRight(w)
      BY <1>2, <2>2 DEF MayPublish
    <3>2. wk'[w].pc # "content" => wk[w].pc # "content"
      BY <3>1 DEF Quiet, Safe, Publishing, Moved
    <3>3. ASSUME Current(w), wk'[w].pc \in {"switch", "commit"}
          PROVE  coll'[wk[w].gen] = gen[wk[w].gen].docs
      <4>1. coll[wk[w].gen] = gen[wk[w].gen].docs
        BY <2>1, <3>1, <3>3 DEF BuildsRight, BuildOK
      <4>2. wk[w].pc \in Written
        BY <3>1, <3>3 DEF BuildsRight, Written, Publishing
      <4>3. QED BY <2>1, <3>3, <4>1, <4>2, CompleteStays
    <3>4. QED BY <1>1, <2>1, <3>2, <3>3, BuildStays
  <2>3. CASE ~MayPublish(w)'
    BY <2>3 DEF BuildOK, Current
  <2>4. QED BY <2>2, <2>3
<1>5. Serving' = Serving \/ Serving' = None
  BY <1>1, ServingStays DEF ServeParts
<1>6. IndexMatchesSkills'
  <2>1. \A s \in Skills : Usable(s)' => Usable(s) /\ skill'[s].active = skill[s].active
    BY DEF AssetsKeep
  <2>2. QED BY <1>5, <2>1, MatchStays DEF ServeParts
<1>7. ServedHasFiles'
  BY <1>5, FilesStay DEF ServeParts
<1>8. QED BY <1>3, <1>4, <1>6, <1>7 DEF ServeParts

(* Requests, and workers that end what they do with the assets. *)
LEMMA AssetServes ==
    ASSUME LeaseParts, LeaseParts', ServeParts, OpsKeep, UNCHANGED <<gen, coll>>,
           threads' \subseteq threads, SpaceKeeps, ActiveKeeps, AssetsKeep,
           \A s \in Skills : Usable(s)' => skill'[s].active = skill[s].active,
           space'.rev = space.rev /\ space'.state = Active => ShownKeeps,
           \A w \in Workers : MayOnlyKeep(w) /\ Quiet(w),
           files \subseteq files', AssetInv', ShownInv'
    PROVE  ServeParts'
<1>1. GensSafe /\ CollSafe /\ GensKeep /\ TypeOK
  BY DEF GensSafe, GensKeep, CollSafe, LeaseParts
<1>2. \A g \in Gens : Gone(g) => Gone(g)'
  BY <1>1, GoneKeeps
<1>3. DropInv'
  BY <1>2, QuietDrops DEF DropInv, ServeParts
<1>4. \A w \in Workers : wk'[w].pc \in Written => wk[w].pc \in Written /\ wk'[w].gen = wk[w].gen
  BY QuietBuilds DEF Written
<1>5. ThreadInv'
  BY <1>1, <1>2, <1>4, ThreadStays DEF ServeParts
<1>6. Serving' = Serving \/ Serving' = None
  BY <1>1, ServingStays DEF ServeParts
<1>7. RemoveInv'
  <2> SUFFICES ASSUME NEW w \in Workers PROVE RemoveOK(w)'
    BY DEF RemoveInv
  <2>1. RemoveOK(w) /\ (wk'[w] = wk[w] \/ wk'[w].pc \notin Removing)
    BY QuietBuilds DEF ServeParts, RemoveInv
  <2>2. QED BY <1>6, <2>1, RemoveStays
<1>8. QED BY <1>1, <1>3, <1>5, <1>7, ChangeServes

(* A new operation keeps what the others are about. *)
LEMMA AssetAdded ==
    ASSUME LeaseParts, AssetInv, SpaceKeeps, AssetsKeep, NEW o \in Ops, op[o].state = "new",
           \A x \in Ops : x # o => op'[x] = op[x], op'[o].kind # "install",
           \A v \in Versions : version'[v] = version[v] \/ version'[v] \in Dying,
           AssetOK(o)'
    PROVE  AssetInv'
<1> SUFFICES ASSUME NEW x \in Ops, x # o PROVE AssetOK(x)'
  BY DEF AssetInv
<1>1. op'[x] = op[x] /\ AssetOK(x) /\ op[o].kind = None
  BY DEF AssetInv, LeaseParts, RowInv, RowOK
<1>2. op[x].kind \in {"install", "delete_version"} => op[x].ver \in Versions
  BY DEF LeaseParts, RowInv, RowOK
<1>3. ASSUME op[x].kind = "install"
      PROVE  /\ version'[op[x].ver] # "new"
             /\ op[x].phase = "staging" => version'[op[x].ver] # "installed"
  BY <1>1, <1>2, <1>3 DEF AssetOK, Dying
<1>4. ASSUME op[x].kind = "install", NEW y \in Ops, op'[y].kind = "install", op'[y].ver = op[x].ver
      PROVE  y = x
  <2>1. op'[y] = op[y]
    BY <1>4
  <2>2. QED BY <1>1, <1>4, <2>1 DEF AssetOK
<1>5. ASSUME op[x].kind = "delete_version"
      PROVE  Condemned(op[x].ver)'
  <2>1. PICK v \in Versions : v = op[x].ver
    BY <1>2, <1>5
  <2>2. CASE version'[v] \in Dying
    BY <1>1, <2>1, <2>2 DEF Condemned
  <2>3. CASE version'[v] = version[v] /\ version[v] \notin Dying
    <3>1. Abandoned(v)
      BY <1>1, <1>5, <2>1, <2>3 DEF AssetOK, Condemned
    <3>2. QED BY <1>1, <2>1, <2>3, <3>1 DEF Abandoned, Condemned
  <2>4. QED BY <2>2, <2>3
<1>6. op[x].kind = "delete_skill" => op[x].skill \in Skills /\ ~Usable(op[x].skill)'
  BY <1>1 DEF AssetOK, AssetsKeep, Usable
<1>7. op[x].kind = "delete_space" => space'.state # Active
  BY <1>1 DEF AssetOK, SpaceKeeps
<1>8. QED BY <1>1, <1>3, <1>4, <1>5, <1>6, <1>7 DEF AssetOK

(* A request that only moves the space on. *)
LEMMA TouchedKeeps ==
    ASSUME TypeOK, space' = Touched(space)
    PROVE  SpaceKeeps /\ ActiveKeeps /\ space'.rev # space.rev /\ space'.state = space.state
<1>1. /\ space'.state = space.state /\ space'.active = space.active /\ space'.rev = space.rev + 1
  BY TouchedRow
<1>2. space.rev \in Nat
  BY DEF TypeOK, Spaces
<1>3. QED BY <1>1, <1>2 DEF SpaceKeeps, ActiveKeeps, Emptied

(* A request for an activation changes nothing that is served. *)
LEMMA RegisterActivateServes ==
    ASSUME LeaseParts, ServeParts, NEW o \in Ops, NEW s \in Skills, NEW v \in Maybe(Of(s)),
           RegisterActivate(o, s, v)
    PROVE  ServeParts'
<1>1. /\ LeaseParts' /\ (\A w \in Workers : MayOnlyKeep(w)) /\ OpsKeep /\ TypeOK
      /\ Registered(o, "activate", s, v)
  BY RegisterActivateLeases DEF LeaseParts
<1>2. /\ UNCHANGED <<skill, version, files, gen, coll, threads, wk>> /\ space' = Touched(space)
      /\ op[o].state = "new"
  BY DEF RegisterActivate, workerVars
<1>3. SpaceKeeps /\ ActiveKeeps /\ space'.rev # space.rev
  BY <1>1, <1>2, TouchedKeeps
<1>4. AssetsKeep /\ ShownInv' /\ \A w \in Workers : Quiet(w)
  BY <1>2 DEF AssetsKeep, Usable, ServeParts, ShownInv, ShownOK, Quiet
<1>5. AssetInv'
  <2>1. AssetOK(o)'
    BY <1>1 DEF AssetOK, Registered
  <2>2. QED BY <1>1, <1>2, <1>3, <1>4, <2>1, AssetAdded DEF ServeParts, Registered
<1>6. QED BY <1>1, <1>2, <1>3, <1>4, <1>5, AssetServes

(* Nor does a request for a new index. *)
LEMMA RegisterReindexServes ==
    ASSUME LeaseParts, ServeParts, NEW o \in Ops, RegisterReindex(o)
    PROVE  ServeParts'
<1>1. /\ LeaseParts' /\ (\A w \in Workers : MayOnlyKeep(w)) /\ OpsKeep /\ TypeOK
      /\ Registered(o, "reindex", None, None)
  BY RegisterReindexLeases DEF LeaseParts
<1>2. /\ UNCHANGED <<skill, version, files, gen, coll, threads, wk>> /\ space' = Touched(space)
      /\ op[o].state = "new"
  BY DEF RegisterReindex, workerVars
<1>3. SpaceKeeps /\ ActiveKeeps /\ space'.rev # space.rev
  BY <1>1, <1>2, TouchedKeeps
<1>4. AssetsKeep /\ ShownInv' /\ \A w \in Workers : Quiet(w)
  BY <1>2 DEF AssetsKeep, Usable, ServeParts, ShownInv, ShownOK, Quiet
<1>5. AssetInv'
  <2>1. AssetOK(o)'
    BY <1>1 DEF AssetOK, Registered
  <2>2. QED BY <1>1, <1>2, <1>3, <1>4, <2>1, AssetAdded DEF ServeParts, Registered
<1>6. QED BY <1>1, <1>2, <1>3, <1>4, <1>5, AssetServes

(* A version that a skill shows is not deleted. *)
LEMMA RegisterDeleteVersionServes ==
    ASSUME LeaseParts, ServeParts, NEW o \in Ops, NEW v \in Versions, RegisterDeleteVersion(o, v)
    PROVE  ServeParts'
<1>1. /\ LeaseParts' /\ (\A w \in Workers : MayOnlyKeep(w)) /\ OpsKeep /\ TypeOK
      /\ Registered(o, "delete_version", SkillOf[v], v)
  BY RegisterDeleteVersionLeases DEF LeaseParts
<1>2. /\ UNCHANGED <<skill, files, gen, coll, threads, wk>> /\ space' = Touched(space)
      /\ op[o].state = "new" /\ skill[SkillOf[v]].active # v
  BY DEF RegisterDeleteVersion, workerVars
<1>3. SpaceKeeps /\ ActiveKeeps /\ space'.rev # space.rev
  BY <1>1, <1>2, TouchedKeeps
<1>4. version'[v] \in Dying /\ \A x \in Versions : x # v => version'[x] = version[x]
  BY <1>1 DEF RegisterDeleteVersion, TypeOK, Deletable, Dying
<1>5. AssetsKeep /\ \A w \in Workers : Quiet(w)
  BY <1>2, <1>4 DEF AssetsKeep, Usable, Quiet
<1>6. ShownInv'
  <2>1. ASSUME NEW s \in Skills, skill[s].active # None
        PROVE  version'[skill[s].active] = version[skill[s].active]
    <3>1. skill[s].active \in Versions /\ SkillOf[skill[s].active] = s
      BY <1>1, <2>1 DEF TypeOK, SkillRows, Maybe, ServeParts, ShownInv, ShownOK
    <3>2. QED BY <1>2, <1>4, <3>1
  <2>2. QED BY <1>2, <2>1 DEF ServeParts, ShownInv, ShownOK, Usable
<1>7. AssetInv'
  <2>1. AssetOK(o)'
    BY <1>1, <1>4 DEF AssetOK, Registered, Condemned
  <2>2. QED BY <1>1, <1>2, <1>3, <1>4, <1>5, <2>1, AssetAdded DEF ServeParts, Registered
<1>8. QED BY <1>1, <1>2, <1>3, <1>5, <1>6, <1>7, AssetServes

(* The skill is out of use; what it shows stays until a worker removes it. *)
LEMMA RegisterDeleteSkillServes ==
    ASSUME LeaseParts, ServeParts, NEW o \in Ops, NEW s \in Skills, RegisterDeleteSkill(o, s)
    PROVE  ServeParts'
<1>1. /\ LeaseParts' /\ (\A w \in Workers : MayOnlyKeep(w)) /\ OpsKeep /\ TypeOK
      /\ Registered(o, "delete_skill", s, None)
  BY RegisterDeleteSkillLeases DEF LeaseParts
<1>2. /\ UNCHANGED <<version, files, gen, coll, threads, wk>> /\ space' = Touched(space)
      /\ op[o].state = "new"
  BY DEF RegisterDeleteSkill, workerVars
<1>3. SpaceKeeps /\ ActiveKeeps /\ space'.rev # space.rev
  BY <1>1, <1>2, TouchedKeeps
<1>4. /\ skill'[s].state \in {"deleting", "deleted"} /\ skill'[s].active = skill[s].active
      /\ skill'[s].state = "deleted" => skill[s].state = "deleted"
      /\ \A x \in Skills : x # s => skill'[x] = skill[x]
  BY <1>1 DEF RegisterDeleteSkill, TypeOK, SkillRows, Deletable
<1>5. AssetsKeep /\ ~Usable(s)' /\ \A w \in Workers : Quiet(w)
  BY <1>2, <1>4 DEF AssetsKeep, Usable, Quiet, Active
<1>6. ShownInv'
  BY <1>2, <1>4, <1>5 DEF ServeParts, ShownInv, ShownOK, Usable
<1>7. AssetInv'
  <2>1. AssetOK(o)'
    BY <1>1, <1>5 DEF AssetOK, Registered, Usable
  <2>2. QED BY <1>1, <1>2, <1>3, <1>5, <2>1, AssetAdded DEF ServeParts, Registered
<1>8. \A x \in Skills : Usable(x)' => skill'[x].active = skill[x].active
  BY <1>4
<1>9. QED BY <1>1, <1>2, <1>3, <1>5, <1>6, <1>7, <1>8, AssetServes

(* The space is closed; it is served until a worker removes it. *)
LEMMA RegisterDeleteSpaceServes ==
    ASSUME LeaseParts, ServeParts, NEW o \in Ops, RegisterDeleteSpace(o)
    PROVE  ServeParts'
<1>1. /\ LeaseParts' /\ (\A w \in Workers : MayOnlyKeep(w)) /\ OpsKeep /\ TypeOK
      /\ Registered(o, "delete_space", None, None)
      /\ space'.state = "deleting" /\ space'.active = space.active /\ space'.rev = space.rev + 1
  BY RegisterDeleteSpaceLeases DEF LeaseParts
<1>2. UNCHANGED <<skill, version, files, gen, coll, threads, wk>> /\ op[o].state = "new"
  BY DEF RegisterDeleteSpace, workerVars
<1>3. SpaceKeeps /\ ActiveKeeps /\ space'.state # Active
  <2>1. space.rev \in Nat
    BY <1>1 DEF TypeOK, Spaces
  <2>2. QED BY <1>1, <2>1 DEF SpaceKeeps, ActiveKeeps, Emptied, Active
<1>4. AssetsKeep /\ ShownInv' /\ \A w \in Workers : Quiet(w)
  BY <1>2 DEF AssetsKeep, Usable, ServeParts, ShownInv, ShownOK, Quiet
<1>5. AssetInv'
  <2>1. AssetOK(o)'
    BY <1>1, <1>3 DEF AssetOK, Registered
  <2>2. QED BY <1>1, <1>2, <1>3, <1>4, <2>1, AssetAdded DEF ServeParts, Registered
<1>6. QED BY <1>1, <1>2, <1>3, <1>4, <1>5, AssetServes

(* A package arrives: its version was not known before. *)
LEMMA StagePackageServes ==
    ASSUME LeaseParts, ServeParts, NEW o \in Ops, NEW v \in Versions, NEW activate \in BOOLEAN,
           StagePackage(o, v, activate)
    PROVE  ServeParts'
<1>1. /\ LeaseParts' /\ (\A w \in Workers : MayOnlyKeep(w)) /\ OpsKeep /\ TypeOK
      /\ Registered(o, "install", SkillOf[v], v) /\ op'[o].phase = "staging"
  BY StagePackageLeases DEF LeaseParts
<1>2. /\ UNCHANGED <<skill, gen, coll, threads, wk>> /\ space' = Touched(space)
      /\ op[o].state = "new" /\ version[v] = "new" /\ files \subseteq files'
  BY DEF StagePackage, workerVars
<1>3. SpaceKeeps /\ ActiveKeeps /\ space'.rev # space.rev
  BY <1>1, <1>2, TouchedKeeps
<1>4. version'[v] = "staging" /\ \A x \in Versions : x # v => version'[x] = version[x]
  BY <1>1 DEF StagePackage, TypeOK
<1>5. AssetsKeep /\ \A w \in Workers : Quiet(w)
  BY <1>2, <1>4 DEF AssetsKeep, Usable, Quiet, Dying
<1>6. ShownInv'
  <2>1. ASSUME NEW s \in Skills, skill[s].active # None, Usable(s)
        PROVE  version'[skill[s].active] = version[skill[s].active]
    <3>1. skill[s].active \in Versions /\ version[skill[s].active] = "installed"
      BY <1>1, <2>1 DEF TypeOK, SkillRows, Maybe, ServeParts, ShownInv, ShownOK
    <3>2. QED BY <1>2, <1>4, <3>1
  <2>2. QED BY <1>2, <2>1 DEF ServeParts, ShownInv, ShownOK, Usable
<1>7. AssetInv'
  <2>1. \A x \in Ops : x # o => op'[x] = op[x] /\ AssetOK(x)
    BY <1>1 DEF Registered, ServeParts, AssetInv
  <2>2. ASSUME NEW x \in Ops, x # o, op[x].kind \in {"install", "delete_version"}
        PROVE  op[x].ver \in Versions /\ op[x].ver # v
    <3>1. op[x].ver \in Versions
      BY <2>2 DEF LeaseParts, RowInv, RowOK
    <3>2. QED BY <1>2, <2>1, <2>2, <3>1 DEF AssetOK, Condemned, Abandoned, Dying
  <2>3. AssetOK(o)'
    BY <1>1, <1>4, <2>1, <2>2 DEF Registered, AssetOK
  <2>4. ASSUME NEW x \in Ops, x # o PROVE AssetOK(x)'
    <3>1. op'[x] = op[x] /\ AssetOK(x)
      BY <2>1, <2>4
    <3>2. op[x].kind = "install" =>
            /\ version'[op[x].ver] # "new"
            /\ op[x].phase = "staging" => version'[op[x].ver] # "installed"
      BY <1>4, <2>2, <2>4, <3>1 DEF AssetOK
    <3>3. ASSUME op[x].kind = "install", NEW y \in Ops, op'[y].kind = "install", op'[y].ver = op[x].ver
          PROVE  y = x
      <4>1. y # o
        BY <1>1, <2>2, <2>4, <3>3 DEF Registered
      <4>2. QED BY <2>1, <3>1, <3>3, <4>1 DEF AssetOK
    <3>4. ASSUME op[x].kind = "delete_version" PROVE Condemned(op[x].ver)'
      <4>1. PICK u \in Versions : u = op[x].ver /\ u # v /\ version'[u] = version[u] /\ Condemned(u)
        BY <1>4, <2>2, <2>4, <3>1, <3>4 DEF AssetOK
      <4>2. CASE version[u] \in Dying
        BY <3>1, <4>1, <4>2 DEF Condemned
      <4>3. CASE Abandoned(u)
        <5>1. \A y \in Ops : op'[y].kind = "install" /\ op'[y].ver = u
                               => op'[y].phase = "staging" /\ op'[y].state = "failed"
          BY <1>1, <4>1, <4>3 DEF Abandoned, Registered
        <5>2. QED BY <3>1, <4>1, <4>3, <5>1 DEF Condemned, Abandoned
      <4>4. QED BY <4>1, <4>2, <4>3 DEF Condemned
    <3>5. op[x].kind = "delete_skill" => op[x].skill \in Skills /\ ~Usable(op[x].skill)'
      BY <1>2, <3>1 DEF AssetOK, Usable
    <3>6. op[x].kind = "delete_space" => space'.state # Active
      BY <1>3, <3>1 DEF AssetOK, SpaceKeeps
    <3>7. QED BY <3>1, <3>2, <3>3, <3>4, <3>5, <3>6 DEF AssetOK
  <2>5. QED BY <2>3, <2>4 DEF AssetInv
<1>8. QED BY <1>1, <1>2, <1>3, <1>5, <1>6, <1>7, AssetServes

(* The row of an upload is written, and its version leaves staging: it was *)
(* not installed, and is not.                                              *)
LEMMA UploadServes ==
    ASSUME LeaseParts, LeaseParts', ServeParts, OpsKeep, \A w \in Workers : MayOnlyKeep(w),
           UNCHANGED <<space, skill, files, gen, coll, threads, wk>>,
           NEW v \in Versions, \A x \in Versions : x # v => version'[x] = version[x],
           version'[v] = version[v] \/ (version[v] = "staging" /\ version'[v] # "installed"),
           AssetInv'
    PROVE  ServeParts'
<1>1. SpaceKeeps /\ ActiveKeeps
  <2>1. space.rev \in Nat
    BY DEF LeaseParts, TypeOK, Spaces
  <2>2. QED BY <2>1 DEF SpaceKeeps, ActiveKeeps, Emptied
<1>2. AssetsKeep /\ \A w \in Workers : Quiet(w)
  BY DEF AssetsKeep, Usable, Quiet, Dying
<1>3. ShownKeeps
  BY DEF ShownKeeps, Usable
<1>4. ShownInv'
  <2>1. ASSUME NEW s \in Skills, skill[s].active # None, Usable(s)
        PROVE  version'[skill[s].active] = version[skill[s].active]
    <3>1. skill[s].active \in Versions /\ version[skill[s].active] = "installed"
      BY <2>1 DEF LeaseParts, TypeOK, SkillRows, Maybe, ServeParts, ShownInv, ShownOK
    <3>2. QED BY <3>1
  <2>2. QED BY <2>1 DEF ServeParts, ShownInv, ShownOK, Usable
<1>5. QED BY <1>1, <1>2, <1>3, <1>4, AssetServes

(* Sealing a package changes nothing that is served. *)
LEMMA SealPackageServes ==
    ASSUME LeaseParts, ServeParts, NEW o \in Ops, SealPackage(o)
    PROVE  ServeParts'
<1>1. /\ LeaseParts' /\ (\A w \in Workers : MayOnlyKeep(w)) /\ OpsKeep
      /\ Edited(o) /\ op'[o].state = "pending" /\ op'[o].phase = "sealed"
  BY SealPackageLeases
<1>2. /\ UNCHANGED <<space, skill, version, files, gen, coll, threads, wk>>
      /\ version[op[o].ver] = "staging" /\ op[o].phase = "staging"
  BY DEF SealPackage, Staging, workerVars
<1>3. op[o].kind = "install" /\ op[o].ver \in Versions
  BY <1>2 DEF LeaseParts, RowInv, RowOK
<1>4. AssetInv'
  <2> SUFFICES ASSUME NEW x \in Ops PROVE AssetOK(x)'
    BY DEF AssetInv
  <2>1. AssetOK(x)
    BY DEF ServeParts, AssetInv
  <2>2. \A y \in Ops : /\ op'[y].kind = op[y].kind /\ op'[y].ver = op[y].ver /\ op'[y].skill = op[y].skill
                       /\ op'[y].phase = op[y].phase \/ y = o
                       /\ y # o => op'[y] = op[y]
    BY <1>1 DEF Edited
  <2>3. op'[x].phase = "staging" => op[x].phase = "staging"
    BY <1>1, <2>2
  <2>4. ASSUME op[x].kind = "delete_version" PROVE Condemned(op[x].ver)'
    <3>1. op[x].ver \in Versions /\ Condemned(op[x].ver)
      BY <2>1, <2>4 DEF LeaseParts, RowInv, RowOK, AssetOK
    <3>2. op[x].ver # op[o].ver
      BY <1>2, <3>1 DEF Condemned, Abandoned, Dying
    <3>3. QED BY <1>2, <2>2, <3>1, <3>2 DEF Condemned, Abandoned
  <2>5. op[x].kind = "install" =>
          /\ version'[op[x].ver] # "new"
          /\ op'[x].phase = "staging" => version'[op[x].ver] # "installed"
          /\ \A y \in Ops : op'[y].kind = "install" /\ op'[y].ver = op[x].ver => y = x
    BY <1>2, <2>1, <2>2, <2>3 DEF AssetOK
  <2>6. /\ op[x].kind = "delete_skill" => op[x].skill \in Skills /\ ~Usable(op[x].skill)'
        /\ op[x].kind = "delete_space" => space'.state # Active
    BY <1>2, <2>1, <2>2 DEF AssetOK, Usable
  <2>7. QED BY <2>2, <2>4, <2>5, <2>6 DEF AssetOK
<1>5. QED BY <1>1, <1>2, <1>3, <1>4, UploadServes

(* A failed upload fails a version that no skill shows. *)
LEMMA UploadFailsServes ==
    ASSUME LeaseParts, ServeParts, NEW o \in Ops, UploadFails(o)
    PROVE  ServeParts'
<1>1. /\ LeaseParts' /\ (\A w \in Workers : MayOnlyKeep(w)) /\ OpsKeep
      /\ Edited(o) /\ op'[o].state = "failed" /\ op'[o].phase = "staging"
  BY UploadFailsLeases
<1>2. UNCHANGED <<space, skill, files, gen, coll, threads, wk>> /\ op[o].phase = "staging"
  BY DEF UploadFails, Staging, workerVars
<1>3. PICK v \in Versions : op[o].kind = "install" /\ op[o].ver = v
  BY <1>2 DEF LeaseParts, RowInv, RowOK
<1>4. /\ \A x \in Versions : x # v => version'[x] = version[x]
      /\ version'[v] = IF version[v] = "staging" THEN "install_failed" ELSE version[v]
  BY <1>3 DEF UploadFails, LeaseParts, TypeOK
<1>5. AssetInv'
  <2> SUFFICES ASSUME NEW x \in Ops PROVE AssetOK(x)'
    BY DEF AssetInv
  <2>1. AssetOK(x)
    BY DEF ServeParts, AssetInv
  <2>2. \A y \in Ops : /\ op'[y].kind = op[y].kind /\ op'[y].ver = op[y].ver /\ op'[y].skill = op[y].skill
                       /\ op'[y].phase = op[y].phase
                       /\ op'[y].state = op[y].state \/ op'[y].state = "failed"
    BY <1>1, <1>2 DEF Edited
  <2>3. ASSUME op[x].kind = "delete_version" PROVE Condemned(op[x].ver)'
    <3>1. PICK u \in Versions : u = op[x].ver /\ Condemned(u)
      BY <2>1, <2>3 DEF LeaseParts, RowInv, RowOK, AssetOK
    <3>2. version'[u] = version[u]
      BY <1>4, <3>1 DEF Condemned, Abandoned, Dying
    <3>3. QED BY <2>2, <3>1, <3>2 DEF Condemned, Abandoned
  <2>4. ASSUME op[x].kind = "install"
        PROVE  /\ version'[op[x].ver] # "new"
               /\ op[x].phase = "staging" => version'[op[x].ver] # "installed"
               /\ \A y \in Ops : op'[y].kind = "install" /\ op'[y].ver = op[x].ver => y = x
    <3>1. op[x].ver \in Versions
      BY <2>4 DEF LeaseParts, RowInv, RowOK
    <3>2. QED BY <1>4, <2>1, <2>2, <2>4, <3>1 DEF AssetOK
  <2>5. /\ op[x].kind = "delete_skill" => op[x].skill \in Skills /\ ~Usable(op[x].skill)'
        /\ op[x].kind = "delete_space" => space'.state # Active
    BY <1>2, <2>1, <2>2 DEF AssetOK, Usable
  <2>6. QED BY <2>2, <2>3, <2>4, <2>5 DEF AssetOK
<1>6. QED BY <1>1, <1>2, <1>4, <1>5, UploadServes

(* An upload that is taken over is never installed: it has failed. *)
LEMMA RecoverStagingServes ==
    ASSUME LeaseParts, ServeParts, NEW w \in Workers, NEW o \in Ops, NEW cleanup \in Ops,
           RecoverStaging(w, o, cleanup)
    PROVE  ServeParts'
<1>1. /\ LeaseParts' /\ (\A x \in Workers : MayOnlyKeep(x)) /\ OpsKeep /\ o # cleanup
      /\ op[o].kind = "install" /\ op[o].phase = "staging" /\ op[cleanup].state = "new"
      /\ op'[o].kind = "install" /\ op'[o].ver = op[o].ver /\ op'[o].skill = op[o].skill
      /\ op'[o].phase = "staging" /\ op'[o].state = "failed"
      /\ op'[cleanup].kind = "delete_version" /\ op'[cleanup].ver = op[o].ver
  BY RecoverStagingLeases, ZenonT(30)
<1>2. /\ UNCHANGED <<space, skill, files, gen, coll, threads, wk>>
      /\ \A x \in Ops : x # o /\ x # cleanup => op'[x] = op[x]
  BY DEF RecoverStaging, LeaseParts, TypeOK
<1>3. PICK v \in Versions : op[o].ver = v
  BY <1>1 DEF LeaseParts, RowInv, RowOK
<1>4. /\ \A x \in Versions : x # v => version'[x] = version[x]
      /\ version'[v] = IF version[v] = "staging" THEN "deleting" ELSE version[v]
  BY <1>3 DEF RecoverStaging, LeaseParts, TypeOK
<1>5. AssetOK(o) /\ op[cleanup].kind = None
  BY <1>1 DEF ServeParts, AssetInv, LeaseParts, RowInv, RowOK
<1>6. \A y \in Ops : op'[y].kind = "install" =>
        /\ op[y].kind = "install" /\ op'[y].ver = op[y].ver /\ op'[y].phase = op[y].phase
        /\ op'[y].state = op[y].state \/ (y = o /\ op'[y].state = "failed")
  BY <1>1, <1>2
<1>7. AssetInv'
  <2> SUFFICES ASSUME NEW x \in Ops PROVE AssetOK(x)'
    BY DEF AssetInv
  <2>1. AssetOK(x)
    BY DEF ServeParts, AssetInv
  <2>2. ASSUME op'[x].kind = "install"
        PROVE  /\ version'[op'[x].ver] # "new"
               /\ op'[x].phase = "staging" => version'[op'[x].ver] # "installed"
               /\ \A y \in Ops : op'[y].kind = "install" /\ op'[y].ver = op'[x].ver => y = x
    <3>1. op[x].ver \in Versions /\ op[x].kind = "install"
      BY <1>6, <2>2 DEF LeaseParts, RowInv, RowOK
    <3>2. QED BY <1>4, <1>6, <2>1, <2>2, <3>1 DEF AssetOK
  <2>3. ASSUME op'[x].kind = "delete_version" PROVE Condemned(op[x].ver)'
    <3>1. CASE x = cleanup
      <4>1. version[v] \in VersionStates /\ version[v] \notin {"new", "installed"}
        BY <1>1, <1>3, <1>5 DEF LeaseParts, TypeOK, AssetOK
      <4>2. CASE version'[v] \in Dying
        BY <1>1, <1>3, <3>1, <4>2 DEF Condemned
      <4>3. CASE version'[v] = "install_failed"
        <5>1. \A y \in Ops : op'[y].kind = "install" /\ op'[y].ver = v =>
                op'[y].phase = "staging" /\ op'[y].state = "failed"
          BY <1>1, <1>3, <1>5, <1>6 DEF AssetOK
        <5>2. QED BY <1>1, <1>3, <3>1, <4>3, <5>1 DEF Condemned, Abandoned
      <4>4. QED BY <1>4, <4>1, <4>2, <4>3 DEF VersionStates, Dying
    <3>2. CASE x # cleanup
      <4>1. op[x].kind = "delete_version" /\ op'[x].ver = op[x].ver
        BY <1>1, <1>2, <2>3, <3>2
      <4>2. PICK u \in Versions : u = op[x].ver /\ Condemned(u)
        BY <2>1, <4>1 DEF LeaseParts, RowInv, RowOK, AssetOK
      <4>3. version'[u] = version[u]
        BY <1>4, <4>2 DEF Condemned, Abandoned, Dying
      <4>4. QED BY <1>6, <4>1, <4>2, <4>3 DEF Condemned, Abandoned
    <3>3. QED BY <3>1, <3>2
  <2>4. /\ op'[x].kind = "delete_skill" => op'[x].skill \in Skills /\ ~Usable(op[x].skill)'
        /\ op'[x].kind = "delete_space" => space'.state # Active
    <3>1. op'[x].kind \in {"delete_skill", "delete_space"} => op'[x] = op[x]
      BY <1>1, <1>2
    <3>2. QED BY <1>2, <2>1, <3>1 DEF AssetOK, Usable
  <2>5. QED BY <2>2, <2>3, <2>4 DEF AssetOK
<1>8. QED BY <1>1, <1>2, <1>4, <1>7, UploadServes

(* The configuration changes. *)
LEMMA EditSpaceServes ==
    ASSUME LeaseParts, ServeParts, EditSpace
    PROVE  ServeParts'
<1>1. /\ LeaseParts' /\ (\A w \in Workers : MayOnlyKeep(w)) /\ TypeOK
      /\ space'.state = space.state /\ space'.active = space.active /\ space'.rev = space.rev + 1
  BY EditSpaceLeases DEF LeaseParts
<1>2. UNCHANGED <<skill, version, files, op, gen, coll, threads, wk>>
  BY DEF EditSpace
<1>3. SpaceKeeps /\ ActiveKeeps /\ space'.rev # space.rev
  <2>1. space.rev \in Nat
    BY <1>1 DEF TypeOK, Spaces
  <2>2. QED BY <1>1, <2>1 DEF SpaceKeeps, ActiveKeeps, Emptied
<1>4. AssetsKeep /\ VersionsStay /\ ShownInv' /\ \A w \in Workers : Quiet(w)
  BY <1>2 DEF AssetsKeep, VersionsStay, Usable, ServeParts, ShownInv, ShownOK, Quiet
<1>5. OpsKeep /\ OpsSame
  BY <1>2, OpsStay
<1>6. AssetInv'
  BY <1>3, <1>4, <1>5, AssetStays DEF ServeParts
<1>7. QED BY <1>1, <1>2, <1>3, <1>4, <1>5, <1>6, AssetServes

-----------------------------------------------------------------------------
(* Installation *)

(* What is installed has been sealed, and nobody is to delete it. *)
LEMMA InstallServes ==
    ASSUME LeaseParts, ServeParts, NEW w \in Workers, Install(w)
    PROVE  ServeParts'
<1>1. /\ LeaseParts' /\ (\A x \in Workers : MayOnlyKeep(x)) /\ TypeOK
      /\ \E pc \in {"publish", "finish", "fail"} : Moved(w, pc)
  BY InstallLeases DEF LeaseParts
<1>2. UNCHANGED <<space, skill, files, op, gen, coll, threads>>
  BY DEF Install
<1>3. PICK o \in Ops : o = wk[w].op
  BY DEF Install, Locked, LeaseParts, TypeOK, WorkerRows, Maybe
<1>4. op[o].kind = "install" /\ op[o].phase # "staging" /\ op[o].ver \in Versions
  BY <1>3, LockedRow DEF Install, At, LeaseParts, WorkerInv, WorkerOK, Row, RowOK
<1>5. PICK v \in Versions : v = op[o].ver
  BY <1>4
<1>6. /\ \A x \in Versions : x # v => version'[x] = version[x]
      /\ version'[v] = version[v] \/ (Installable(v) /\ version'[v] = "installed")
  BY <1>1, <1>3, <1>5 DEF Install, Row, TypeOK
<1>7. SpaceKeeps /\ ActiveKeeps /\ OpsKeep /\ OpsSame
  <2>1. space.rev \in Nat
    BY <1>1 DEF TypeOK, Spaces
  <2>2. QED BY <1>2, <2>1, OpsStay DEF SpaceKeeps, ActiveKeeps, Emptied
<1>8. AssetsKeep /\ ShownKeeps
  BY <1>2, <1>6 DEF AssetsKeep, ShownKeeps, Usable, Dying, Installable
<1>9. \A x \in Workers : Quiet(x)
  <2>1. Others(w) /\ Quiet(w)
    BY <1>1 DEF Quiet, Safe, Moved
  <2>2. QED BY <2>1, MovedQuiet
<1>10. ShownInv'
  <2>1. \A s \in Skills : skill[s].active # None => skill[s].active \in Versions
    BY <1>1 DEF TypeOK, SkillRows, Maybe
  <2>2. \A x \in Versions : version[x] = "installed" => version'[x] = "installed"
    BY <1>6
  <2>3. QED BY <1>2, <2>1, <2>2 DEF ServeParts, ShownInv, ShownOK, Usable
<1>11. AssetInv'
  <2> SUFFICES ASSUME NEW x \in Ops PROVE AssetOK(x)'
    BY DEF AssetInv
  <2>1. AssetOK(x) /\ AssetOK(o)
    BY DEF ServeParts, AssetInv
  <2>2. ASSUME op[x].kind = "install"
        PROVE  /\ version'[op[x].ver] # "new"
               /\ op[x].phase = "staging" => version'[op[x].ver] # "installed"
    <3>1. op[x].ver \in Versions
      BY <2>2 DEF LeaseParts, RowInv, RowOK
    <3>2. op[x].ver = v => x = o
      BY <1>4, <1>5, <2>1, <2>2 DEF AssetOK
    <3>3. QED BY <1>4, <1>6, <2>1, <2>2, <3>1, <3>2 DEF AssetOK
  <2>3. ASSUME op[x].kind = "delete_version" PROVE Condemned(op[x].ver)'
    <3>1. op[x].ver \in Versions /\ Condemned(op[x].ver)
      BY <2>1, <2>3 DEF LeaseParts, RowInv, RowOK, AssetOK
    <3>2. version'[op[x].ver] = version[op[x].ver]
      BY <1>4, <1>5, <1>6, <3>1 DEF Condemned, Abandoned, Dying, Installable
    <3>3. QED BY <1>2, <3>1, <3>2 DEF Condemned, Abandoned
  <2>4. QED BY <1>2, <2>1, <2>2, <2>3 DEF AssetOK, Usable
<1>12. threads' \subseteq threads /\ files \subseteq files'
  BY <1>2
<1>13. QED BY <1>1, <1>2, <1>7, <1>8, <1>9, <1>10, <1>11, <1>12, AssetServes

-----------------------------------------------------------------------------
(* Removal *)

(* Only what is under deletion is taken away. *)
LEMMA RemovalKeeps ==
    ASSUME TypeOK, ShownInv, UNCHANGED files, NEW ids \in SUBSET Versions,
           \A v \in Versions : v \notin ids => version'[v] = version[v],
           \A v \in ids : version'[v] \in Dying /\ (Usable(SkillOf[v])' => version[v] # "installed"),
           \A s \in Skills :
               \/ skill'[s] = skill[s]
               \/ /\ ~Usable(s)' /\ skill'[s].active \in {skill[s].active, None}
                  /\ skill'[s].state = "deleted" => skill'[s].active = None,
           \/ space' = space
           \/ /\ space.state # Active /\ space'.state # Active
              /\ space'.active \in {space.active, None} /\ space'.rev = space.rev,
           space'.state = Active => \A s \in Skills : Usable(s) => skill'[s] = skill[s]
    PROVE  /\ SpaceKeeps /\ ActiveKeeps /\ AssetsKeep /\ VersionsStay /\ ShownInv'
           /\ space'.state = Active => ShownKeeps
           /\ \A s \in Skills : Usable(s)' => skill'[s].active = skill[s].active
<1>1. space.rev \in Nat
  BY DEF TypeOK, Spaces
<1>2. SpaceKeeps /\ ActiveKeeps
  BY <1>1 DEF SpaceKeeps, ActiveKeeps, Emptied
<1>3. AssetsKeep /\ VersionsStay
  BY DEF AssetsKeep, VersionsStay, Usable
<1>4. \A s \in Skills : Usable(s)' => Usable(s) /\ skill'[s].active = skill[s].active
  BY DEF Usable
<1>5. ASSUME NEW s \in Skills, skill[s].active # None, Usable(s)'
      PROVE  version'[skill[s].active] = version[skill[s].active]
  <2>1. /\ skill[s].active \in Versions /\ SkillOf[skill[s].active] = s
        /\ version[skill[s].active] = "installed"
    BY <1>4, <1>5 DEF TypeOK, SkillRows, Maybe, ShownInv, ShownOK
  <2>2. skill[s].active \notin ids
    BY <1>5, <2>1 DEF Usable
  <2>3. QED BY <2>1, <2>2
<1>6. ShownInv'
  <2>1. \A s \in Skills : /\ skill'[s].active \in {skill[s].active, None}
                          /\ skill'[s].state = "deleted" => skill'[s].active = None
    BY DEF ShownInv, ShownOK
  <2>2. QED BY <1>4, <1>5, <2>1, ShownStays
<1>7. ASSUME space'.state = Active PROVE ShownKeeps
  <2>1. \A s \in Skills : Usable(s) => skill'[s] = skill[s]
    BY <1>7
  <2>2. \A s \in Skills : Usable(s)' <=> Usable(s)
    BY <1>4, <2>1 DEF Usable
  <2>3. ASSUME NEW v \in Versions, version[v] = "installed", Usable(SkillOf[v])
        PROVE  version'[v] = "installed"
    <3>1. PICK s \in Skills : s = SkillOf[v]
      BY SkillAssumption
    <3>2. Usable(SkillOf[v])'
      BY <2>2, <2>3, <3>1 DEF Usable
    <3>3. QED BY <2>3, <3>2
  <2>4. QED BY <1>4, <2>2, <2>3 DEF ShownKeeps
<1>8. QED BY <1>2, <1>3, <1>4, <1>6, <1>7

(* The next call of a removal, or the end of its calls. *)
LEMMA PurgeServes ==
    ASSUME LeaseParts, LeaseParts', ServeParts, OpsKeep, GensSafe, UNCHANGED <<op, coll, files>>,
           SpaceKeeps, ActiveKeeps, AssetsKeep,
           \A s \in Skills : Usable(s)' => skill'[s].active = skill[s].active,
           space'.state = Active => ShownKeeps,
           \A x \in Workers : MayOnlyKeep(x), AssetInv', ShownInv',
           NEW w \in Workers, NEW todo \in SUBSET Gens, NEW ids \in SUBSET Versions, wk[w].op \in Ops,
           Called(w, todo, IF Row(w).kind = "delete_space" THEN "drop" ELSE "purge", ids,
                  "purging", "files"),
           \A v \in ids : Doomed(v)',
           Row(w).kind = "delete_space" => Emptied' /\ \A g \in todo : Gone(g)',
           Serving' # None /\ Serving' \cap ids # {} => space'.active \in todo
    PROVE  ServeParts'
<1>1. GensKeep /\ CollSafe /\ TypeOK
  BY DEF GensSafe, CollSafe, LeaseParts
<1>2. \A g \in Gens : Gone(g) => Gone(g)'
  BY <1>1, GoneKeeps
<1>3. /\ \A x \in Workers : x # w => wk'[x] = wk[x]
      /\ wk'[w].pc \in {"purging", "files"} /\ wk'[w].op = wk[w].op /\ wk'[w].ids = ids
      /\ wk'[w].pc = "files" => todo = {}
      /\ wk'[w].pc = "purging" => \E g \in todo : wk'[w].gen = g /\ wk'[w].todo = todo \ {g}
  BY DEF Called, Others
<1>4. \A x \in Workers : wk'[x].pc \in Publishing => Quiet(x)
  BY <1>3 DEF Quiet, Publishing
<1>5. Row(w)'.kind = Row(w).kind
  BY <1>3 DEF Row
<1>6. DropInv'
  <2>1. DropOK(w)'
    <3> SUFFICES ASSUME Drops(w)'
                 PROVE  (wk[w].gen \in Gens /\ Gone(wk[w].gen) /\ \A g \in wk[w].todo : Gone(g))'
      BY DEF DropOK
    <3>1. wk'[w].pc = "purging" /\ Row(w).kind = "delete_space"
      BY <1>3, <1>5 DEF Drops, Dropping
    <3>2. PICK g \in Gens : g \in todo /\ wk'[w].gen = g /\ wk'[w].todo = todo \ {g}
      BY <1>3, <3>1
    <3>3. Gone(g)' /\ \A h \in todo : Gone(h)'
      BY <3>1, <3>2
    <3>4. QED BY <3>2, <3>3 DEF Gone
  <2>2. QED BY <1>2, <1>3, <2>1, DropStays DEF DropInv, ServeParts
<1>7. ThreadInv'
  <2>1. ASSUME NEW t \in threads', t \notin threads
        PROVE  t[1] \notin Writes /\ ThreadOK(t)'
    <3>1. PICK call \in {"drop", "purge"} :
            call = IF Row(w).kind = "delete_space" THEN "drop" ELSE "purge"
      OBVIOUS
    <3>2. PICK g \in todo : t = <<call, g, w, IF call = "purge" THEN ids ELSE {}>>
      BY <2>1, <3>1 DEF Called
    <3>3. /\ t[1] = call /\ t[2] = g /\ (call = "purge" => t[4] = ids)
          /\ call \notin Writes /\ (call = "drop" => Row(w).kind = "delete_space")
      BY <3>1, <3>2 DEF Writes
    <3>4. call = "drop" => Gone(g)'
      BY <3>2, <3>3
    <3>5. QED BY <3>3, <3>4 DEF ThreadOK
  <2>2. \A x \in Workers : wk'[x].pc \in Written => wk[x].pc \in Written /\ wk'[x].gen = wk[x].gen
    BY <1>3 DEF Written, Publishing
  <2>3. QED BY <1>1, <1>2, <2>1, <2>2, ThreadStays DEF ServeParts
<1>8. RemoveInv'
  <2>1. Serving' = Serving \/ Serving' = None
    BY <1>1, ServingStays DEF ServeParts
  <2>2. RemoveOK(w)'
    <3>1. (StillServed(wk[w].ids))' => space'.active \in todo
      BY <1>3 DEF StillServed
    <3>2. CASE wk'[w].pc = "files"
      BY <1>3, <1>5, <3>1, <3>2 DEF RemoveOK
    <3>3. CASE wk'[w].pc = "purging"
      BY <1>3, <1>5, <3>1, <3>3 DEF RemoveOK
    <3>4. QED BY <1>3, <3>2, <3>3
  <2>3. QED BY <1>3, <2>1, <2>2, RemoveStays DEF RemoveInv, ServeParts
<1>9. QED BY <1>1, <1>4, <1>6, <1>7, <1>8, ChangeServes

(* What an operation deletes is no longer in use, except when it is all. *)
LEMMA DoomedOnes ==
    ASSUME LeaseParts, ServeParts, NEW o \in Ops, op[o].kind \in DeleteKinds
    PROVE  /\ DoomedSkills(op[o]) \in SUBSET Skills /\ DoomedVersions(op[o]) \in SUBSET Versions
           /\ op[o].kind = "delete_space" => space.state # Active
           /\ \A s \in Skills : Usable(s) => (s \in DoomedSkills(op[o]) <=> op[o].kind = "delete_space")
           /\ \A v \in DoomedVersions(op[o]) :
                 SkillOf[v] \in DoomedSkills(op[o]) \/ version[v] # "installed"
<1>1. AssetOK(o)
  BY DEF ServeParts, AssetInv
<1>2. CASE op[o].kind = "delete_version"
  <2>1. op[o].ver \in Versions /\ version[op[o].ver] # "installed"
    BY <1>1, <1>2 DEF LeaseParts, RowInv, RowOK, AssetOK, Condemned, Abandoned, Dying
  <2>2. DoomedSkills(op[o]) = {} /\ DoomedVersions(op[o]) = {op[o].ver}
    BY <1>2 DEF DoomedSkills, DoomedVersions
  <2>3. QED BY <1>2, <2>1, <2>2
<1>3. CASE op[o].kind = "delete_skill"
  <2>1. op[o].skill \in Skills /\ ~Usable(op[o].skill)
    BY <1>1, <1>3 DEF AssetOK
  <2>2. DoomedSkills(op[o]) = {op[o].skill}
    BY <1>3 DEF DoomedSkills
  <2>3. QED BY <1>3, <2>1, <2>2 DEF DoomedVersions
<1>4. CASE op[o].kind = "delete_space"
  <2>1. space.state # Active
    BY <1>1, <1>4 DEF AssetOK
  <2>2. DoomedSkills(op[o]) = {s \in Skills : skill[s].state # "deleted"}
    BY <1>4 DEF DoomedSkills
  <2>3. QED BY <1>4, <2>1, <2>2 DEF DoomedVersions, Usable, Active
<1>5. QED BY <1>2, <1>3, <1>4 DEF DeleteKinds

(* A worker that removes something. *)
LEMMA RemoverRow ==
    ASSUME LeaseParts, NEW w \in Workers, wk[w].pc \in RemovePcs
    PROVE  /\ wk[w].op \in Ops /\ Row(w).kind \in DeleteKinds /\ Row(w) = op[wk[w].op]
           /\ wk[w].ids \in SUBSET Versions /\ wk[w].todo \in SUBSET Gens
<1>1. wk[w].op \in Ops
  BY DEF LeaseParts, TypeOK, WorkerRows, Maybe, WorkerInv, WorkerOK, RemovePcs, Unclaimed
<1>2. QED BY <1>1 DEF LeaseParts, TypeOK, WorkerRows, WorkerInv, WorkerOK, Row

(* The rows are marked, and what was served of them is to be purged. *)
LEMMA RemoveStartServes ==
    ASSUME LeaseParts, ServeParts, NEW w \in Workers, RemoveStart(w)
    PROVE  ServeParts'
<1>1. wk[w].op \in Ops /\ Row(w).kind \in DeleteKinds /\ Row(w) = op[wk[w].op] /\ TypeOK
  BY RemoverRow DEF RemoveStart, At, RemovePcs, LeaseParts
<1>2. PICK ids \in SUBSET Versions, dead \in SUBSET Skills, todo \in SUBSET Gens :
        /\ ids = DoomedVersions(Row(w)) /\ dead = DoomedSkills(Row(w))
        /\ todo = {g \in Gens : gen[g].state \notin {"new", "deleted"}}
  BY <1>1, DoomedOnes
<1>3. /\ Row(w).kind = "delete_space" => space.state # Active
      /\ \A s \in Skills : Usable(s) => (s \in dead <=> Row(w).kind = "delete_space")
      /\ \A v \in ids : SkillOf[v] \in dead \/ version[v] # "installed"
  BY <1>1, <1>2, DoomedOnes
<1>4. /\ LeaseParts' /\ (\A x \in Workers : MayOnlyKeep(x))
      /\ Called(w, todo, IF Row(w).kind = "delete_space" THEN "drop" ELSE "purge", ids,
                "purging", "files")
  BY <1>2, RemoveStartLeases
<1>5. /\ UNCHANGED <<files, op, gen, coll>>
      /\ \A v \in Versions : version'[v] = IF v \in ids THEN "deleting" ELSE version[v]
      /\ \A s \in Skills : skill'[s] = IF s \notin dead THEN skill[s]
                             ELSE [state |-> "deleting", active |-> None, rev |-> skill[s].rev + 1]
      /\ space' = IF Row(w).kind = "delete_space"
                  THEN [space EXCEPT !.state = "deleting", !.active = None] ELSE space
  BY <1>2 DEF RemoveStart, VersionsAre
<1>6. ASSUME NEW s \in dead
      PROVE  ~Usable(s)' /\ skill'[s].active = None /\ skill'[s].state = "deleting"
  <2>1. skill'[s] = [state |-> "deleting", active |-> None, rev |-> skill[s].rev + 1]
    BY <1>5
  <2>2. skill'[s].state = "deleting" /\ skill'[s].active = None
    BY <2>1
  <2>3. QED BY <2>2 DEF Usable, Active
<1>7. Row(w).kind = "delete_space" =>
        space'.state = "deleting" /\ space'.active = None /\ space'.rev = space.rev
  BY <1>1, <1>5 DEF TypeOK, Spaces
<1>8. /\ SpaceKeeps /\ ActiveKeeps /\ AssetsKeep /\ VersionsStay /\ ShownInv'
      /\ space'.state = Active => ShownKeeps
      /\ \A s \in Skills : Usable(s)' => skill'[s].active = skill[s].active
  <2>1. \A v \in ids : version'[v] \in Dying /\ (Usable(SkillOf[v])' => version[v] # "installed")
    BY <1>3, <1>5, <1>6, SkillAssumption DEF Dying, Usable
  <2>2. \A s \in Skills :
          \/ skill'[s] = skill[s]
          \/ /\ ~Usable(s)' /\ skill'[s].active \in {skill[s].active, None}
             /\ skill'[s].state = "deleted" => skill'[s].active = None
    BY <1>5, <1>6
  <2>3. \/ space' = space
        \/ /\ space.state # Active /\ space'.state # Active
           /\ space'.active \in {space.active, None} /\ space'.rev = space.rev
    BY <1>3, <1>5, <1>7 DEF Active
  <2>4. space'.state = Active => \A s \in Skills : Usable(s) => skill'[s] = skill[s]
    BY <1>3, <1>5, <1>7 DEF Active
  <2>5. ShownInv /\ \A v \in Versions : v \notin ids => version'[v] = version[v]
    BY <1>5 DEF ServeParts
  <2>6. QED BY <1>1, <1>5, <2>1, <2>2, <2>3, <2>4, <2>5, RemovalKeeps
<1>9. OpsKeep /\ OpsSame /\ GensSafe
  BY <1>5, OpsStay DEF GensSafe, GensKeep
<1>10. AssetInv'
  BY <1>8, <1>9, AssetStays DEF ServeParts
<1>11. \A v \in ids : Doomed(v)'
  BY <1>5 DEF Doomed, Dying
<1>12. Row(w).kind = "delete_space" => Emptied' /\ \A g \in todo : Gone(g)'
  BY <1>2, <1>5, <1>7 DEF Emptied, Gone, Active
<1>13. ASSUME Serving' # None PROVE space'.active \in todo
  <2>1. space' = space /\ space.active # None
    BY <1>5, <1>7, <1>13 DEF Serving
  <2>2. space.active \in Gens /\ gen[space.active].state = Active
    BY <1>1, <2>1 DEF TypeOK, Spaces, Maybe, ServeParts, GenInv, ActiveIsServed
  <2>3. QED BY <1>2, <2>1, <2>2 DEF Active
<1>14. QED BY <1>1, <1>4, <1>5, <1>8, <1>9, <1>10, <1>11, <1>12, <1>13, PurgeServes

(* One generation is clean, the next one follows. *)
LEMMA PurgeMarkServes ==
    ASSUME LeaseParts, ServeParts, NEW w \in Workers, PurgeMark(w)
    PROVE  ServeParts'
<1>1. wk[w].pc = "purged" /\ wk[w].op \in Ops /\ TypeOK
  BY RemoverRow DEF PurgeMark, At, RemovePcs, LeaseParts
<1>2. PICK ids \in SUBSET Versions, todo \in SUBSET Gens : ids = wk[w].ids /\ todo = wk[w].todo
  BY <1>1, RemoverRow DEF RemovePcs
<1>3. /\ LeaseParts' /\ (\A x \in Workers : MayOnlyKeep(x)) /\ GensKeep
      /\ IF Row(w).kind = "delete_space" THEN Marked(wk[w].gen, "deleted") ELSE UNCHANGED gen
      /\ Called(w, todo, IF Row(w).kind = "delete_space" THEN "drop" ELSE "purge", ids,
                "purging", "files")
  BY <1>2, PurgeMarkLeases
<1>4. Row(w).kind = "delete_space" =>
        wk[w].gen \in Gens /\ Gone(wk[w].gen) /\ \A g \in todo : Gone(g)
  BY <1>1, <1>2 DEF ServeParts, DropInv, DropOK, Drops
<1>5. GensSafe
  <2>1. CASE Row(w).kind = "delete_space"
    <3>1. PICK g \in Gens : g = wk[w].gen /\ Gone(g)
      BY <1>4, <2>1
    <3>2. Marked(g, "deleted")
      BY <1>3, <2>1, <3>1
    <3>3. QED BY <1>3, <3>1, <3>2, MarkedSafe
  <2>2. CASE Row(w).kind # "delete_space"
    BY <1>3, <2>2 DEF GensSafe
  <2>3. QED BY <2>1, <2>2
<1>6. UNCHANGED <<space, skill, version, files, op, coll>>
  BY DEF PurgeMark, assetVars
<1>7. SpaceKeeps /\ AssetsKeep /\ ActiveKeeps /\ VersionsStay /\ ShownKeeps /\ OpsKeep /\ OpsSame
  BY <1>1, <1>6, StillKeeps, OpsStay
<1>8. AssetInv'
  BY <1>7, AssetStays DEF ServeParts
<1>9. ShownInv'
  BY <1>6 DEF ServeParts, ShownInv, ShownOK, Usable
<1>10. /\ \A v \in ids : Doomed(v)
       /\ Row(w).kind = "delete_space" => Emptied
       /\ StillServed(ids) => space.active \in todo
  BY <1>1, <1>2 DEF ServeParts, RemoveInv, RemoveOK, Removing
<1>11. \A v \in ids : Doomed(v)'
  BY <1>7, <1>10, DoomedKeeps
<1>12. Row(w).kind = "delete_space" => Emptied' /\ \A g \in todo : Gone(g)'
  BY <1>3, <1>4, <1>7, <1>10, GoneKeeps DEF SpaceKeeps
<1>13. Serving' # None /\ Serving' \cap ids # {} => space'.active \in todo
  BY <1>6, <1>10 DEF Serving, StillServed
<1>14. \A s \in Skills : Usable(s)' => skill'[s].active = skill[s].active
  BY <1>6
<1>15. QED BY <1>1, <1>3, <1>5, <1>6, <1>7, <1>8, <1>9, <1>11, <1>12, <1>13, <1>14, PurgeServes

(* The files go when no index has the versions any more. *)
LEMMA RemoveFilesServes ==
    ASSUME LeaseParts, ServeParts, NEW w \in Workers, RemoveFiles(w)
    PROVE  ServeParts'
<1>1. wk[w].pc = "files" /\ wk[w].op \in Ops /\ TypeOK
  BY RemoverRow DEF RemoveFiles, At, RemovePcs, LeaseParts
<1>2. PICK ids \in SUBSET Versions : ids = wk[w].ids
  BY <1>1, RemoverRow DEF RemovePcs
<1>3. /\ LeaseParts' /\ (\A x \in Workers : MayOnlyKeep(x))
      /\ Moved(w, "erase") \/ Moved(w, "remove_failed")
  BY RemoveFilesLeases
<1>4. UNCHANGED <<space, skill, version, op, gen, coll, threads>> /\ files' = files \ ids
  BY <1>2 DEF RemoveFiles
<1>5. (\A v \in ids : Doomed(v)) /\ ~StillServed(ids)
  BY <1>1, <1>2 DEF ServeParts, RemoveInv, RemoveOK, Removing
<1>6. SpaceKeeps /\ ActiveKeeps /\ AssetsKeep /\ VersionsStay
  <2>1. space.rev \in Nat
    BY <1>1 DEF TypeOK, Spaces
  <2>2. QED BY <1>4, <2>1 DEF SpaceKeeps, ActiveKeeps, Emptied, AssetsKeep, VersionsStay, Usable
<1>7. ShownKeeps
  BY <1>4, <1>5 DEF ShownKeeps, Usable, Doomed, Dying
<1>8. GensSafe /\ GensKeep /\ CollSafe /\ OpsKeep /\ OpsSame
  BY <1>4, OpsStay DEF GensSafe, GensKeep, CollSafe
<1>9. \A g \in Gens : Gone(g) => Gone(g)'
  BY <1>3, <1>6, <1>8, GoneKeeps
<1>10. /\ \A x \in Workers : x # w => wk'[x] = wk[x]
       /\ wk'[w].pc \in {"erase", "remove_failed"}
  BY <1>3 DEF Moved, Others
<1>11. \A x \in Workers : wk'[x].pc \in Publishing => Quiet(x)
  BY <1>10 DEF Quiet, Publishing
<1>12. DropInv'
  <2>1. wk'[w].pc \notin Dropping \cup {"purging", "purged"}
    BY <1>10 DEF Dropping
  <2>2. QED BY <1>8, <1>9, <1>10, <2>1, DropStays DEF DropInv, ServeParts
<1>13. ThreadInv'
  <2>1. \A x \in Workers : wk'[x].pc \in Written => wk[x].pc \in Written /\ wk'[x].gen = wk[x].gen
    BY <1>10 DEF Written, Publishing
  <2>2. QED BY <1>1, <1>4, <1>6, <1>8, <1>9, <2>1, ThreadStays DEF ServeParts
<1>14. Serving' = Serving
  BY <1>4 DEF Serving
<1>15. RemoveInv'
  <2>1. wk'[w].pc \notin Removing \/ (wk[w].pc = "files" /\ Moved(w, "erase"))
    BY <1>1, <1>3 DEF Removing, Moved
  <2>2. QED BY <1>6, <1>8, <1>10, <1>14, <2>1, RemoveStays DEF RemoveInv, ServeParts
<1>16. ServedHasFiles'
  BY <1>4, <1>5, <1>14 DEF ServeParts, ServedHasFiles, StillServed
<1>17. AssetInv' /\ ShownInv'
  <2>1. AssetInv'
    BY <1>6, <1>8, AssetStays DEF ServeParts
  <2>2. ShownInv'
    BY <1>4 DEF ServeParts, ShownInv, ShownOK, Usable
  <2>3. QED BY <2>1, <2>2
<1>18. \A s \in Skills : Usable(s)' => skill'[s].active = skill[s].active
  BY <1>4
<1>19. QED
  BY <1>3, <1>6, <1>7, <1>8, <1>11, <1>12, <1>13, <1>15, <1>16, <1>17, <1>18, ChangeServes

(* The rows of what is removed are marked, and nothing else changes. *)
LEMMA RemovedServes ==
    ASSUME LeaseParts, LeaseParts', ServeParts, \A x \in Workers : MayOnlyKeep(x),
           UNCHANGED <<files, op, gen, coll, threads>>,
           NEW w \in Workers, NEW pc \in {"finish", "finish_failed"}, Moved(w, pc),
           NEW ids \in SUBSET Versions,
           \A v \in Versions : v \notin ids => version'[v] = version[v],
           \A v \in ids : version'[v] \in Dying /\ (Usable(SkillOf[v])' => version[v] # "installed"),
           \A s \in Skills :
               \/ skill'[s] = skill[s]
               \/ /\ ~Usable(s)' /\ skill'[s].active \in {skill[s].active, None}
                  /\ skill'[s].state = "deleted" => skill'[s].active = None,
           \/ space' = space
           \/ /\ space.state # Active /\ space'.state # Active
              /\ space'.active \in {space.active, None} /\ space'.rev = space.rev,
           space'.state = Active => \A s \in Skills : Usable(s) => skill'[s] = skill[s]
    PROVE  ServeParts'
<1>1. TypeOK /\ ShownInv
  BY DEF LeaseParts, ServeParts
<1>2. /\ SpaceKeeps /\ ActiveKeeps /\ AssetsKeep /\ VersionsStay /\ ShownInv'
      /\ space'.state = Active => ShownKeeps
      /\ \A s \in Skills : Usable(s)' => skill'[s].active = skill[s].active
  BY <1>1, RemovalKeeps
<1>3. OpsKeep /\ OpsSame
  BY OpsStay
<1>4. AssetInv'
  BY <1>2, <1>3, AssetStays DEF ServeParts
<1>5. \A x \in Workers : Quiet(x)
  <2>1. Others(w) /\ Quiet(w)
    BY DEF Quiet, Safe, Moved
  <2>2. QED BY <2>1, MovedQuiet
<1>6. threads' \subseteq threads /\ files \subseteq files'
  OBVIOUS
<1>7. QED BY <1>2, <1>3, <1>4, <1>5, <1>6, AssetServes

(* At the end of a removal its versions are in no generation. *)
LEMMA RemoveDoneServes ==
    ASSUME LeaseParts, ServeParts, NEW w \in Workers, RemoveDone(w)
    PROVE  ServeParts'
<1>1. /\ wk[w].pc = "erase" /\ wk[w].op \in Ops /\ TypeOK
      /\ Row(w).kind \in DeleteKinds /\ Row(w) = op[wk[w].op]
  BY RemoverRow DEF RemoveDone, At, RemovePcs, LeaseParts
<1>2. PICK ids \in SUBSET Versions, dead \in SUBSET Skills :
        ids = wk[w].ids /\ dead = DoomedSkills(Row(w))
  BY <1>1, RemoverRow, DoomedOnes DEF RemovePcs
<1>3. /\ Row(w).kind = "delete_space" => space.state # Active
      /\ \A s \in Skills : Usable(s) => (s \in dead <=> Row(w).kind = "delete_space")
  BY <1>1, <1>2, DoomedOnes
<1>4. LeaseParts' /\ (\A x \in Workers : MayOnlyKeep(x)) /\ Moved(w, "finish")
  BY RemoveDoneLeases
<1>5. /\ UNCHANGED <<files, op, gen, coll, threads>>
      /\ \A v \in Versions : version'[v] = IF v \in ids THEN "deleted" ELSE version[v]
      /\ \A s \in Skills : skill'[s] = IF s \notin dead THEN skill[s]
                             ELSE [skill[s] EXCEPT !.state = "deleted", !.active = None]
      /\ space' = IF Row(w).kind = "delete_space"
                  THEN [space EXCEPT !.state = "deleted", !.active = None] ELSE space
  BY <1>2 DEF RemoveDone, VersionsAre
<1>6. \A v \in ids : Doomed(v)
  BY <1>1, <1>2 DEF ServeParts, RemoveInv, RemoveOK, Removing
<1>7. ASSUME NEW s \in dead
      PROVE  ~Usable(s)' /\ skill'[s].active = None
  <2>1. ASSUME NEW r \in SkillRows
        PROVE  LET row == [r EXCEPT !.state = "deleted", !.active = None] IN
               row.state = "deleted" /\ row.active = None
    BY DEF SkillRows
  <2>2. skill[s] \in SkillRows /\ skill'[s] = [skill[s] EXCEPT !.state = "deleted", !.active = None]
    BY <1>1, <1>5 DEF TypeOK
  <2>3. skill'[s].state = "deleted" /\ skill'[s].active = None
    BY <2>1, <2>2
  <2>4. QED BY <2>3 DEF Usable, Active
<1>8. Row(w).kind = "delete_space" =>
        space'.state = "deleted" /\ space'.active = None /\ space'.rev = space.rev
  BY <1>1, <1>5 DEF TypeOK, Spaces
<1>9. \A s \in Skills : skill'[s] = skill[s] \/ (~Usable(s)' /\ skill'[s].active = None)
  BY <1>5, <1>7
<1>10. \A v \in ids : version'[v] \in Dying /\ (Usable(SkillOf[v])' => version[v] # "installed")
  <2>1. \A s \in Skills : Usable(s)' => Usable(s)
    BY <1>9 DEF Usable
  <2>2. \A v \in Versions : SkillOf[v] \in Skills
    BY SkillAssumption
  <2>3. \A v \in ids : Usable(SkillOf[v])' => Usable(SkillOf[v])
    BY <2>1, <2>2
  <2>4. QED BY <1>5, <1>6, <2>3 DEF Doomed, Dying
<1>11. \/ space' = space
       \/ /\ space.state # Active /\ space'.state # Active
          /\ space'.active \in {space.active, None} /\ space'.rev = space.rev
  BY <1>3, <1>5, <1>8 DEF Active
<1>12. space'.state = Active => \A s \in Skills : Usable(s) => skill'[s] = skill[s]
  BY <1>3, <1>5, <1>8 DEF Active
<1>13. QED BY <1>4, <1>5, <1>9, <1>10, <1>11, <1>12, RemovedServes

(* A failed removal leaves its assets doomed. *)
LEMMA RemoveFailedServes ==
    ASSUME LeaseParts, ServeParts, NEW w \in Workers, RemoveFailed(w)
    PROVE  ServeParts'
<1>1. /\ wk[w].op \in Ops /\ TypeOK /\ Row(w).kind \in DeleteKinds /\ Row(w) = op[wk[w].op]
  BY RemoverRow DEF RemoveFailed, At, RemovePcs, LeaseParts
<1>2. AssetOK(wk[w].op)
  BY <1>1 DEF ServeParts, AssetInv
<1>3. LeaseParts' /\ (\A x \in Workers : MayOnlyKeep(x)) /\ Moved(w, "finish_failed")
  BY RemoveFailedLeases
<1>4. UNCHANGED <<files, op, gen, coll, threads>>
  BY DEF RemoveFailed
<1>5. PICK ids \in SUBSET Versions : ids = IF Row(w).kind = "delete_version" THEN {Row(w).ver} ELSE {}
  BY <1>1 DEF LeaseParts, RowInv, RowOK
<1>6. \A v \in Versions : IF v \in ids THEN version'[v] \in Dying ELSE version'[v] = version[v]
  BY <1>1, <1>5 DEF RemoveFailed, DeleteFailed, Dying, TypeOK
<1>7. \A v \in ids : version[v] # "installed"
  BY <1>1, <1>2, <1>5 DEF AssetOK, Condemned, Abandoned, Dying
<1>8. CASE Row(w).kind = "delete_skill"
  <2>1. PICK s \in Skills : s = Row(w).skill /\ ~Usable(s)
    BY <1>1, <1>2, <1>8 DEF AssetOK
  <2>2. ASSUME NEW r \in SkillRows, NEW st
        PROVE  LET row == [r EXCEPT !.state = st] IN row.state = st /\ row.active = r.active
    BY DEF SkillRows
  <2>3. skill[s] \in SkillRows /\ ShownOK(s)
    BY <1>1 DEF TypeOK, ServeParts, ShownInv
  <2>4. /\ skill' = [skill EXCEPT ![s] = [skill[s] EXCEPT !.state = DeleteFailed(skill[s].state)]]
        /\ space' = space
    BY <1>1, <1>8, <2>1 DEF RemoveFailed, TypeOK
  <2>5. /\ \A x \in Skills : x # s => skill'[x] = skill[x]
        /\ skill'[s].state = DeleteFailed(skill[s].state) /\ skill'[s].active = skill[s].active
    BY <1>1, <2>2, <2>3, <2>4 DEF TypeOK
  <2>6. /\ ~Usable(s)' /\ (skill'[s].state = "deleted" => skill'[s].active = None)
    BY <2>1, <2>3, <2>5 DEF DeleteFailed, Usable, Active, ShownOK
  <2>7. \A x \in Skills : Usable(x) => skill'[x] = skill[x]
    BY <2>1, <2>5
  <2>8. \A x \in Skills :
          \/ skill'[x] = skill[x]
          \/ /\ ~Usable(x)' /\ skill'[x].active \in {skill[x].active, None}
             /\ skill'[x].state = "deleted" => skill'[x].active = None
    BY <2>5, <2>6
  <2>9. QED BY <1>3, <1>4, <1>6, <1>7, <2>4, <2>7, <2>8, RemovedServes
<1>9. CASE Row(w).kind # "delete_skill"
  <2>1. UNCHANGED skill
    BY <1>9 DEF RemoveFailed
  <2>2. \/ space' = space
        \/ /\ space.state # Active /\ space'.state # Active
           /\ space'.active \in {space.active, None} /\ space'.rev = space.rev
    <3>1. ASSUME Row(w).kind = "delete_space"
          PROVE  /\ space.state # Active /\ space'.state # Active
                 /\ space'.active = space.active /\ space'.rev = space.rev
      <4>1. space.state # Active
        BY <1>1, <1>2, <3>1 DEF AssetOK
      <4>2. /\ space'.state = DeleteFailed(space.state)
            /\ space'.active = space.active /\ space'.rev = space.rev
        BY <1>1, <3>1 DEF RemoveFailed, TypeOK, Spaces
      <4>3. QED BY <4>1, <4>2 DEF DeleteFailed, Active
    <3>2. QED BY <3>1 DEF RemoveFailed
  <2>3. QED BY <1>3, <1>4, <1>6, <1>7, <2>1, <2>2, RemovedServes
<1>10. QED BY <1>8, <1>9

-----------------------------------------------------------------------------
(* Publication *)

(* A new generation, of the snapshot of the space as it is. *)
LEMMA PublishStartServes ==
    ASSUME LeaseParts, ServeParts, NEW w \in Workers, PublishStart(w)
    PROVE  ServeParts'
<1>1. PICK g \in Gens : g = FreshGen
  BY DEF PublishStart, FreshGen
<1>2. /\ LeaseParts' /\ OpsKeep /\ GensKeep /\ wk[w].op \in Ops /\ Others(w)
      /\ gen[g].state = "new" /\ gen'[g].state = "building" /\ gen'[g].src = space.rev
      /\ gen'[g].docs = Snapshot(Row(w)) /\ wk'[w].pc = "content" /\ wk'[w].gen = g
      /\ wk'[w].op = wk[w].op
  BY <1>1, PublishStartLeases
<1>3. \A x \in Workers : x # w => MayOnlyKeep(x) /\ wk'[x] = wk[x]
  BY <1>1, PublishStartLeases DEF Others
<1>4. \A x \in Gens : x # g => gen'[x] = gen[x]
  BY <1>1, PublishStartLeases
<1>5. OpsSame
  BY <1>1, PublishStartLeases DEF OpsSame
<1>6. UNCHANGED <<space, skill, version, files, coll, threads>> /\ TypeOK /\ TypeOK'
  BY <1>2 DEF PublishStart, assetVars, LeaseParts
<1>7. SpaceKeeps /\ AssetsKeep /\ ActiveKeeps /\ VersionsStay /\ ShownKeeps
  BY <1>6, StillKeeps
<1>8. Serving' = Serving
  BY <1>6 DEF Serving
<1>9. space.active # g
  BY <1>2, SkillAssumption DEF ServeParts, GenInv, ActiveIsServed, Active
<1>10. \A x \in Gens : Gone(x) => Gone(x)'
  <2> SUFFICES ASSUME NEW x \in Gens, Gone(x) PROVE Gone(x)'
    OBVIOUS
  <2>1. x # g /\ gen'[x] = gen[x]
    BY <1>2, <1>4 DEF Gone
  <2>2. CASE Emptied
    BY <1>6, <2>1, <2>2 DEF Gone, Emptied
  <2>3. CASE x # space.active /\ \A y \in Workers : MayPublish(y) => wk[y].gen # x
    <3>1. \A y \in Workers : MayPublish(y)' => wk'[y].gen # x
      BY <1>2, <1>3, <2>1, <2>3 DEF MayOnlyKeep
    <3>2. QED BY <1>6, <2>1, <2>3, <3>1 DEF Gone
  <2>4. QED BY <2>2, <2>3 DEF Gone
<1>11. ASSUME NEW x \in Workers, x # w, wk[x].pc \in Building PROVE wk[x].gen \in Gens \ {g}
  BY <1>2, <1>11, BuilderGen
<1>12. AssetInv'
  BY <1>5, <1>7, AssetStays DEF ServeParts
<1>13. ShownInv'
  BY <1>6 DEF ServeParts, ShownInv, ShownOK, Usable
<1>14. GenInv'
  <2>1. \A x \in Gens : gen'[x].state # "new" => gen'[x].src <= space'.rev
    <3>1. space.rev \in Nat /\ space'.rev = space.rev
      BY <1>6 DEF TypeOK, Spaces
    <3>2. gen'[g].src <= space'.rev
      BY <1>2, <3>1
    <3>3. QED BY <1>4, <3>1, <3>2 DEF ServeParts, GenInv
  <2>2. ASSUME NEW x \in Workers, MayPublish(x)'
        PROVE  gen'[wk'[x].gen].state = "building" \/ Emptied'
    <3>1. CASE x = w
      BY <1>2, <3>1
    <3>2. CASE x # w
      <4>1. MayPublish(x) /\ wk'[x] = wk[x]
        BY <1>3, <2>2, <3>2 DEF MayOnlyKeep
      <4>2. wk[x].gen \in Gens \ {g}
        BY <1>11, <3>2, <4>1 DEF MayPublish, Building
      <4>3. gen[wk[x].gen].state = "building" \/ Emptied
        BY <4>1 DEF ServeParts, GenInv
      <4>4. QED BY <1>4, <1>6, <4>1, <4>2, <4>3 DEF Emptied
    <3>3. QED BY <3>1, <3>2
  <2>3. \A x \in Workers : wk'[x].pc \in Publishing => wk'[x].gen # space'.active
    BY <1>2, <1>3, <1>6, <1>9 DEF ServeParts, GenInv
  <2>4. ActiveIsServed'
    <3>1. space.active # None => space.active \in Gens
      BY <1>6 DEF TypeOK, Spaces, Maybe
    <3>2. space.active # None => gen'[space.active] = gen[space.active]
      BY <1>4, <1>9, <3>1
    <3>3. QED BY <1>6, <1>8, <3>2 DEF ServeParts, GenInv, ActiveIsServed
  <2>5. QED BY <2>1, <2>2, <2>3, <2>4 DEF GenInv
<1>15. DropInv'
  <2>1. wk'[w].pc \notin Dropping \cup {"purging", "purged"}
    BY <1>2 DEF Dropping
  <2>2. QED BY <1>2, <1>3, <1>10, <2>1, DropStays DEF DropInv, ServeParts
<1>16. ThreadInv'
  <2>1. \A t \in threads : t[1] \in Writes => t[2] # g
    BY <1>2 DEF ServeParts, ThreadInv, ThreadOK
  <2>2. \A t \in threads :
          t[1] \in Writes => \A x \in Workers : wk'[x].gen = t[2] => wk'[x].pc \notin Written
    BY <1>2, <1>3, <2>1 DEF ServeParts, ThreadInv, ThreadOK
  <2>3. \A t \in threads : ThreadOK(t)'
    BY <1>2, <1>6, <1>7, <1>10, <2>2, ThreadKept DEF ServeParts
  <2>4. QED BY <1>6, <2>3 DEF ServeParts, ThreadInv
<1>17. BuildOK(w)'
  <2>1. PICK docs : docs = Snapshot(Row(w)) /\ gen'[g].docs = docs
    BY <1>2
  <2>2. /\ Row(w)'.skill = Row(w).skill /\ Row(w)'.ver = Row(w).ver
        /\ Row(w)'.activate = Row(w).activate
    BY <1>2, <1>5 DEF OpsSame, Row
  <2>3. Snapshot(Row(w))' = docs
    <3>1. \A s \in Skills : Selected(Row(w), s)' = Selected(Row(w), s)
      BY <1>6, <2>2 DEF Selected
    <3>2. QED BY <1>6, <2>1, <3>1 DEF Snapshot
  <2>4. (Row(w).skill # None => Usable(Row(w).skill))'
    BY <1>6, <2>2 DEF PublishStart, Admissible, Usable
  <2>5. \A v \in docs : version'[v] = "installed"
    BY <1>6, <2>1 DEF PublishStart, Admissible
  <2>6. QED BY <1>2, <2>1, <2>3, <2>4, <2>5 DEF BuildOK
<1>18. BuildInv'
  <2> SUFFICES ASSUME NEW x \in Workers, x # w PROVE BuildOK(x)'
    BY <1>17 DEF BuildInv
  <2>1. MayOnlyKeep(x) /\ wk'[x] = wk[x] /\ BuildOK(x) /\ GenInv /\ ShownInv
    BY <1>3 DEF ServeParts, BuildInv
  <2>2. Current(x) /\ wk'[x].pc \in {"switch", "commit"} => coll'[wk[x].gen] = gen[wk[x].gen].docs
    BY <1>6, <2>1 DEF BuildOK
  <2>3. QED BY <1>2, <1>6, <1>7, <2>1, <2>2, BuildStays
<1>19. RemoveInv'
  <2>1. wk'[w].pc \notin Removing
    BY <1>2 DEF Removing
  <2>2. QED BY <1>2, <1>3, <1>7, <1>8, <2>1, RemoveStays DEF RemoveInv, ServeParts
<1>20. IndexMatchesSkills' /\ ServedHasFiles'
  BY <1>6, <1>8, MatchStays, FilesStay DEF ServeParts, Usable
<1>21. QED
  BY <1>12, <1>13, <1>14, <1>15, <1>16, <1>18, <1>19, <1>20 DEF ServeParts

(* What may be put in service: what the skills will show, built from files *)
(* that are there.                                                         *)
Publishable(w, g) ==
    /\ space.state = Active /\ wk[w].op \in Ops
    /\ Row(w).skill # None => Usable(Row(w).skill)
    /\ Row(w).activate /\ Row(w).ver # None => version[Row(w).ver] = "installed"
    /\ g # None =>
         /\ g = wk[w].gen /\ wk[w].pc = "commit" /\ MayPublish(w)
         /\ coll[g] = Snapshot(Row(w)) /\ coll[g] \subseteq files
         /\ \A v \in coll[g] : version[v] = "installed"

(* The skills show what was selected. *)
LEMMA ShownPublished ==
    ASSUME LeaseParts, ServeParts, NEW w \in Workers, NEW g \in Maybe(Gens),
           Publishable(w, g), Switched(w, g), UNCHANGED version
    PROVE  ShownInv'
<1> SUFFICES ASSUME NEW s \in Skills PROVE ShownOK(s)'
  BY DEF ShownInv
<1>1. ShownOK(s) /\ ShownInv
  BY DEF ServeParts, ShownInv
<1>2. skill'[s].state = skill[s].state /\ skill'[s].active = Selected(Row(w), s)
  BY DEF Switched
<1>3. Selected(Row(w), s) # None => SkillOf[Selected(Row(w), s)] = s
  BY <1>1, SnapshotUsable DEF Publishable
<1>4. CASE Row(w).activate /\ s = Row(w).skill
  <2>1. Selected(Row(w), s) = Row(w).ver /\ Usable(s)
    BY <1>4, SkillAssumption DEF Selected, Publishable
  <2>2. QED BY <1>2, <1>3, <1>4, <2>1 DEF ShownOK, Publishable, Usable, Active
<1>5. CASE ~(Row(w).activate /\ s = Row(w).skill)
  <2>1. Selected(Row(w), s) = skill[s].active
    BY <1>5 DEF Selected
  <2>2. QED BY <1>1, <1>2, <2>1 DEF ShownOK, Usable
<1>6. QED BY <1>4, <1>5

(* The index and the skills change in one step. *)
LEMMA MatchPublished ==
    ASSUME LeaseParts, ServeParts, NEW w \in Workers, NEW g \in Maybe(Gens),
           Publishable(w, g), Switched(w, g), UNCHANGED <<files, coll>>
    PROVE  /\ g = None => Serving' = None
           /\ g # None => Serving' = coll[g] /\ Serving' = Snapshot(Row(w)) /\ Serving' # None
           /\ IndexMatchesSkills' /\ ServedHasFiles'
<1>1. Serving' = IF g = None THEN None ELSE coll[g]
  BY DEF Serving, Switched
<1>2. CASE g = None
  BY <1>1, <1>2 DEF IndexMatchesSkills, ServedHasFiles
<1>3. CASE g # None
  <2>1. PICK docs : docs = Snapshot(Row(w)) /\ docs = coll[g] /\ docs \subseteq files
    BY <1>3 DEF Publishable
  <2>2. docs \in SUBSET Versions /\ docs # None
    BY <2>1, SkillAssumption DEF LeaseParts, TypeOK
  <2>3. Serving' = docs /\ ServedHasFiles'
    BY <1>1, <1>3, <2>1 DEF ServedHasFiles
  <2>4. ASSUME NEW s \in Skills, skill'[s].state = Active
        PROVE  docs \cap Of(s) = {skill'[s].active} \ {None}
    <3>1. skill[s].state = Active /\ skill'[s].active = Selected(Row(w), s)
      BY <2>4 DEF Switched
    <3>2. \A t \in Skills : Selected(Row(w), t) # None =>
            Selected(Row(w), t) \in Versions /\ SkillOf[Selected(Row(w), t)] = t
      BY SnapshotUsable DEF Publishable, ServeParts
    <3>3. ASSUME NEW v \in docs, v \in Of(s) PROVE v = skill'[s].active /\ v # None
      <4>1. PICK t \in Skills : v = Selected(Row(w), t) /\ v # None
        BY <2>1, <3>3 DEF Snapshot
      <4>2. SkillOf[v] = t /\ SkillOf[v] = s
        BY <3>2, <3>3, <4>1 DEF Of
      <4>3. QED BY <3>1, <4>1, <4>2
    <3>4. ASSUME skill'[s].active # None
          PROVE  skill'[s].active \in docs /\ skill'[s].active \in Of(s)
      BY <2>1, <3>1, <3>2, <3>4 DEF Snapshot, Of
    <3>5. QED BY <3>3, <3>4
  <2>5. QED BY <1>3, <2>1, <2>2, <2>3, <2>4 DEF IndexMatchesSkills
<1>4. QED BY <1>2, <1>3

(* One generation replaces another. *)
LEMMA GensPublished ==
    ASSUME LeaseParts, LeaseParts', ServeParts, NEW w \in Workers, NEW g \in Maybe(Gens),
           Publishable(w, g), Switched(w, g), UNCHANGED <<files, coll>>, GensKeep,
           \A x \in Workers : MayOnlyKeep(x),
           NEW pc \in {"list", "mark_failed"}, Moved(w, pc)
    PROVE  GenInv' /\ BuildInv' /\ \A x \in Gens : Gone(x) => Gone(x)'
<1>1. ~Emptied /\ GenInv /\ space.rev \in Nat /\ space'.rev = space.rev + 1 /\ space'.active = g
  BY DEF Publishable, Emptied, ServeParts, LeaseParts, TypeOK, Spaces, Switched
<1>2. wk'[w].pc \notin Publishing /\ ~MayPublish(w)'
  BY DEF Moved, Publishing, MayPublish
<1>3. \A x \in Workers : x # w => wk'[x] = wk[x]
  BY DEF Moved, Others
<1>4. ASSUME NEW x \in Workers, x # w, wk[x].pc \in Publishing
      PROVE  wk[x].gen \in Gens /\ wk[x].gen # g /\ wk[x].gen # space.active
  <2>1. wk[x].gen \in Gens /\ wk[x].gen # space.active
    BY <1>1, <1>4, BuilderGen DEF Building, GenInv
  <2>2. wk[x].gen # g
    BY <1>4, <2>1, OneBuilder, SkillAssumption DEF Publishable, Building, Publishing
  <2>3. QED BY <2>1, <2>2
<1>5. \A x \in Gens : Gone(x) => Gone(x)'
  <2> SUFFICES ASSUME NEW x \in Gens, Gone(x) PROVE Gone(x)'
    OBVIOUS
  <2>1. \A y \in Workers : MayPublish(y) => wk[y].gen # x
    BY <1>1 DEF Gone
  <2>2. x # g
    BY <2>1, SkillAssumption DEF Publishable
  <2>3. \A y \in Workers : MayPublish(y)' => wk'[y].gen # x
    BY <2>1 DEF MayOnlyKeep
  <2>4. gen'[x].state # "new"
    BY DEF Gone, GensKeep
  <2>5. QED BY <1>1, <2>2, <2>3, <2>4 DEF Gone
<1>6. \A x \in Gens : gen'[x].state # "new" => gen'[x].src <= space.rev
  <2> SUFFICES ASSUME NEW x \in Gens, gen'[x].state # "new" PROVE gen'[x].src <= space.rev
    OBVIOUS
  <2>1. gen[x].state # "new"
    <3>1. CASE x = g
      <4>1. MayPublish(w) /\ wk[w].gen = g
        BY <3>1, SkillAssumption DEF Publishable
      <4>2. QED BY <1>1, <3>1, <4>1 DEF GenInv
    <3>2. CASE x = space.active /\ x # g
      BY <1>1, <3>2, SkillAssumption DEF GenInv, ActiveIsServed, Active
    <3>3. QED BY <3>1, <3>2 DEF Switched
  <2>2. QED BY <1>1, <2>1 DEF GenInv, Switched
<1>7. \A x \in Gens : gen'[x].state # "new" => gen'[x].src <= space'.rev
  <2>1. \A x \in Gens : gen'[x].src \in Nat
    BY DEF LeaseParts, TypeOK, GenRows
  <2>2. QED BY <1>1, <1>6, <2>1
<1>8. ASSUME NEW x \in Workers, MayPublish(x)'
      PROVE  gen'[wk'[x].gen].state = "building"
  <2>1. x # w /\ MayPublish(x) /\ wk'[x] = wk[x]
    BY <1>2, <1>3, <1>8 DEF MayOnlyKeep
  <2>2. wk[x].gen \in Gens /\ wk[x].gen # g /\ wk[x].gen # space.active
    BY <1>4, <2>1 DEF MayPublish
  <2>3. gen[wk[x].gen].state = "building"
    BY <1>1, <2>1 DEF GenInv
  <2>4. QED BY <2>1, <2>2, <2>3 DEF Switched
<1>9. \A x \in Workers : wk'[x].pc \in Publishing => wk'[x].gen # space'.active
  BY <1>1, <1>2, <1>3, <1>4
<1>10. ActiveIsServed'
  <2>1. g # None => g \in Gens /\ Serving' # None
    BY MatchPublished DEF Maybe
  <2>2. g # None => gen'[g].state = Active
    BY <2>1 DEF Switched
  <2>3. QED BY <1>1, <2>1, <2>2 DEF ActiveIsServed
<1>11. GenInv'
  BY <1>7, <1>8, <1>9, <1>10 DEF GenInv
<1>12. BuildInv'
  <2> SUFFICES ASSUME NEW x \in Workers PROVE ~Current(x)'
    BY DEF BuildInv, BuildOK
  <2>1. SUFFICES ASSUME MayPublish(x)' PROVE gen'[wk'[x].gen].src # space'.rev
    BY DEF Current
  <2>2. PICK y \in Gens : y = wk'[x].gen
    BY <2>1, <1>3, <1>2, <1>4 DEF MayPublish
  <2>3. gen'[y].src <= space.rev /\ gen'[y].src \in Nat
    BY <1>6, <1>8, <2>1, <2>2 DEF LeaseParts, TypeOK, GenRows
  <2>4. QED BY <1>1, <2>2, <2>3
<1>13. QED BY <1>5, <1>11, <1>12

(* A publication, with a new index or with none. *)
LEMMA PublishedServes ==
    ASSUME LeaseParts, LeaseParts', ServeParts, NEW w \in Workers, NEW g \in Maybe(Gens),
           Publishable(w, g), Switched(w, g), UNCHANGED <<version, files, coll, threads>>,
           OpsKeep, OpsSame, GensKeep, \A x \in Workers : MayOnlyKeep(x),
           NEW pc \in {"list", "mark_failed"}, Moved(w, pc)
    PROVE  ServeParts'
<1>1. GenInv' /\ BuildInv' /\ \A x \in Gens : Gone(x) => Gone(x)'
  BY GensPublished
<1>2. SpaceKeeps /\ AssetsKeep /\ VersionsStay
  <2>1. space.rev \in Nat /\ space.state = Active
    BY DEF LeaseParts, TypeOK, Spaces, Publishable
  <2>2. SpaceKeeps
    BY <2>1 DEF SpaceKeeps, Switched, Emptied
  <2>3. QED BY <2>2 DEF AssetsKeep, VersionsStay, Switched, Usable
<1>3. AssetInv'
  BY <1>2, AssetStays DEF ServeParts
<1>4. ShownInv'
  BY ShownPublished
<1>5. \A x \in Workers : x # w => wk'[x] = wk[x]
  BY DEF Moved, Others
<1>6. wk'[w].pc \notin Dropping \cup Removing \cup Written
  BY DEF Moved, Dropping, Removing, Written, Publishing
<1>7. DropInv'
  <2>1. wk'[w].pc \notin Dropping \cup {"purging", "purged"}
    BY <1>6 DEF Removing
  <2>2. QED BY <1>1, <1>5, <2>1, DropStays DEF DropInv, ServeParts
<1>8. ThreadInv'
  <2> SUFFICES ASSUME NEW t \in threads PROVE ThreadOK(t)'
    BY DEF ServeParts, ThreadInv
  <2>1. ThreadOK(t) /\ t[2] \in Gens /\ t[4] \subseteq Versions
    BY DEF ServeParts, ThreadInv, LeaseParts, TypeOK
  <2>2. t[1] = "drop" => Gone(t[2])'
    BY <1>1, <2>1 DEF ThreadOK
  <2>3. t[1] = "purge" => \A v \in t[4] : Doomed(v)'
    BY <1>2, <2>1, DoomedKeeps DEF ThreadOK
  <2>4. ASSUME t[1] \in Writes PROVE gen'[t[2]].state # "new" /\ t[2] # space'.active
    <3>1. gen'[t[2]].state # "new"
      BY <2>1, <2>4 DEF ThreadOK, GensKeep
    <3>2. t[2] # g
      BY <2>1, <2>4, SkillAssumption DEF ThreadOK, Publishable, Written, Publishing
    <3>3. QED BY <3>1, <3>2 DEF Switched
  <2>5. t[1] \in Writes => \A x \in Workers : wk'[x].gen = t[2] => wk'[x].pc \notin Written
    BY <1>5, <1>6, <2>1 DEF ThreadOK
  <2>6. QED BY <2>2, <2>3, <2>4, <2>5 DEF ThreadOK
<1>9. RemoveInv'
  <2> SUFFICES ASSUME NEW x \in Workers, wk'[x].pc \in Removing PROVE RemoveOK(x)'
    BY DEF RemoveInv, RemoveOK
  <2>1. wk'[x] = wk[x] /\ wk[x].pc \in Removing /\ RemoveOK(x)
    BY <1>5, <1>6 DEF ServeParts, RemoveInv
  <2>2. PICK ids \in SUBSET Versions : ids = wk[x].ids
    BY DEF LeaseParts, TypeOK, WorkerRows
  <2>3. \A v \in ids : Doomed(v) /\ Doomed(v)'
    BY <1>2, <2>1, <2>2, DoomedKeeps DEF RemoveOK
  <2>4. Row(x)'.kind # "delete_space"
    <3>1. wk[x].op \in Ops
      BY <2>1 DEF LeaseParts, TypeOK, WorkerRows, Maybe, WorkerInv, WorkerOK, Removing,
         Unclaimed
    <3>2. Row(x).kind # "delete_space"
      BY <2>1 DEF RemoveOK, Emptied, Publishable
    <3>3. QED BY <2>1, <3>1, <3>2 DEF OpsSame, Row
  <2>5. ~StillServed(ids)'
    <3>1. CASE g = None
      BY <3>1, MatchPublished DEF StillServed
    <3>2. CASE g # None
      <4>1. Serving' = coll[g] /\ Serving' = Snapshot(Row(w))
        BY <3>2, MatchPublished
      <4>2. \A v \in Serving' : version[v] = "installed"
        BY <3>2, <4>1 DEF Publishable
      <4>3. \A v \in Serving' : Usable(SkillOf[v])
        BY <4>1, SnapshotUsable DEF Publishable, ServeParts
      <4>4. QED BY <2>3, <4>2, <4>3 DEF StillServed, Doomed, Dying
    <3>3. QED BY <3>1, <3>2
  <2>6. QED BY <2>1, <2>2, <2>3, <2>4, <2>5 DEF RemoveOK, StillServed
<1>10. IndexMatchesSkills' /\ ServedHasFiles'
  BY MatchPublished
<1>11. QED BY <1>1, <1>3, <1>4, <1>7, <1>8, <1>9, <1>10 DEF ServeParts

(* A publication without an index, which serves nothing, may be published. *)
LEMMA UnindexedPublishable ==
    ASSUME NEW w \in Workers, wk[w].op \in Ops, PublishUnindexed(w)
    PROVE  Publishable(w, None)
BY DEF PublishUnindexed, Admissible, Publishable, Usable

(* The source is unchanged, so the generation is what the skills will show. *)
LEMMA SwitchPublishable ==
    ASSUME LeaseParts, ServeParts, NEW w \in Workers, wk[w].pc = "commit", Switch(w)
    PROVE  Publishable(w, wk[w].gen)
<1>1. MayPublish(w) /\ Current(w) /\ space.state = Active
  BY DEF Switch, SourceUnchanged, Current, MayPublish, Publishing
<1>2. wk[w].op \in Ops
  BY <1>1, OnlyRunning
<1>3. PICK docs : docs = gen[wk[w].gen].docs
  OBVIOUS
<1>4. /\ docs = Snapshot(Row(w)) /\ docs = coll[wk[w].gen] /\ docs \subseteq files
      /\ \A v \in docs : version[v] = "installed"
      /\ Row(w).skill # None => Usable(Row(w).skill)
  BY <1>1, <1>3 DEF ServeParts, BuildInv, BuildOK
<1>5. ASSUME Row(w).activate, Row(w).ver # None PROVE version[Row(w).ver] = "installed"
  <2>1. Row(w).skill \in Skills
    BY <1>2, <1>5 DEF LeaseParts, RowInv, RowOK, Row
  <2>2. Usable(Row(w).skill)
    BY <1>4, <2>1, SkillAssumption
  <2>3. Row(w).ver \in Snapshot(Row(w))
    BY <1>5, <2>1, <2>2 DEF Snapshot, Selected, Usable
  <2>4. QED BY <1>4, <2>3
<1>6. QED BY <1>1, <1>2, <1>4, <1>5 DEF Publishable

(* Without an embedding model nothing is served any more. *)
LEMMA PublishUnindexedServes ==
    ASSUME LeaseParts, ServeParts, NEW w \in Workers, PublishUnindexed(w)
    PROVE  ServeParts'
<1>1. /\ LeaseParts' /\ (\A x \in Workers : MayOnlyKeep(x)) /\ OpsKeep /\ GensKeep
      /\ Switched(w, None) /\ Moved(w, "list") /\ wk[w].op \in Ops
  BY PublishUnindexedLeases
<1>2. OpsSame
  <2>1. op[wk[w].op].state # "new"
    BY DEF PublishUnindexed, Locked
  <2>2. \A x \in Ops : x # wk[w].op => op'[x] = op[x]
    BY PublishUnindexedLeases
  <2>3. \A x \in Ops : op'[x].activate = op[x].activate
    BY <1>1, <2>1, <2>2 DEF OpsKeep
  <2>4. QED BY <2>3, PublishUnindexedLeases DEF OpsSame
<1>3. UNCHANGED <<version, files, coll, threads>>
  BY DEF PublishUnindexed
<1>4. Publishable(w, None)
  BY <1>1, UnindexedPublishable
<1>5. QED BY <1>1, <1>2, <1>3, <1>4, PublishedServes DEF Maybe

(* The publishing transaction. *)
LEMMA SwitchServes ==
    ASSUME LeaseParts, ServeParts, NEW w \in Workers, wk[w].pc = "commit", Switch(w),
           trouble' \in Nat, NEW pc \in {"list", "mark_failed"}, Goto(w, pc)
    PROVE  ServeParts'
<1>1. /\ LeaseParts' /\ (\A x \in Workers : MayOnlyKeep(x)) /\ OpsKeep /\ GensKeep
      /\ wk[w].op \in Ops /\ wk[w].gen \in Gens /\ Switched(w, wk[w].gen) /\ Moved(w, pc)
  BY SwitchLeases
<1>2. OpsSame
  <2>1. op[wk[w].op].state # "new"
    BY OnlyRunning DEF MayPublish, Publishing
  <2>2. \A x \in Ops : x # wk[w].op => op'[x] = op[x]
    BY SwitchLeases
  <2>3. \A x \in Ops : op'[x].activate = op[x].activate
    BY <1>1, <2>1, <2>2 DEF OpsKeep
  <2>4. QED BY <2>3, SwitchLeases DEF OpsSame
<1>3. UNCHANGED <<version, files, coll, threads>>
  BY DEF Switch
<1>4. Publishable(w, wk[w].gen)
  BY SwitchPublishable
<1>5. QED BY <1>1, <1>2, <1>3, <1>4, PublishedServes DEF Maybe

(* The switch serves the new generation, which holds what the skills show. *)
LEMMA SwitchCommitServes ==
    ASSUME LeaseParts, ServeParts, NEW w \in Workers, SwitchCommit(w)
    PROVE  ServeParts'
<1>1. trouble' \in Nat
  BY DEF SwitchCommit, LeaseParts, TypeOK
<1>2. QED BY <1>1, SwitchServes DEF SwitchCommit, At

(* So does a switch that is committed but not answered. *)
LEMMA SwitchUnansweredServes ==
    ASSUME LeaseParts, ServeParts, NEW w \in Workers, SwitchUnanswered(w)
    PROVE  ServeParts'
<1>1. trouble' \in Nat
  BY TroubleCounts DEF SwitchUnanswered, LeaseParts
<1>2. QED BY <1>1, SwitchServes DEF SwitchUnanswered, At

-----------------------------------------------------------------------------
(* Every step *)

(* A request. *)
LEMMA RequestServes ==
    ASSUME LeaseParts, ServeParts, NEW o \in Ops, Request(o)
    PROVE  ServeParts'
<1>1. CASE \E s \in Skills : \E v \in Maybe(Of(s)) : RegisterActivate(o, s, v)
  BY <1>1, RegisterActivateServes
<1>2. CASE \E s \in Skills : RegisterDeleteSkill(o, s)
  BY <1>2, RegisterDeleteSkillServes
<1>3. CASE \E v \in Versions : RegisterDeleteVersion(o, v)
  BY <1>3, RegisterDeleteVersionServes
<1>4. CASE \E v \in Versions : \E activate \in BOOLEAN : StagePackage(o, v, activate)
  BY <1>4, StagePackageServes
<1>5. CASE RegisterReindex(o)
  BY <1>5, RegisterReindexServes
<1>6. CASE RegisterDeleteSpace(o)
  BY <1>6, RegisterDeleteSpaceServes
<1>7. CASE SealPackage(o)
  BY <1>7, SealPackageServes
<1>8. CASE UploadFails(o)
  BY <1>8, UploadFailsServes
<1>9. CASE Retry(o)
  BY <1>9, RetryServes
<1>10. QED BY <1>1, <1>2, <1>3, <1>4, <1>5, <1>6, <1>7, <1>8, <1>9 DEF Request

(* What the worker does next. *)
LEMMA WorkerStepServes ==
    ASSUME LeaseParts, ServeParts, NEW w \in Workers, WorkerStep(w)
    PROVE  ServeParts'
<1>1. CASE Install(w) \/ Fail(w) \/ Finish(w) \/ LeaseLost(w)
  BY <1>1, InstallServes, FailServes, FinishServes, LeaseLostServes
<1>2. CASE PublishAgain(w) \/ PublishRefused(w) \/ PublishUnindexed(w) \/ PublishStart(w)
  BY <1>2, PublishAgainServes, PublishRefusedServes, PublishUnindexedServes, PublishStartServes
<1>3. CASE ReadContent(w) \/ Seal(w)
  BY <1>3, ReadContentServes, SealServes
<1>4. CASE SwitchStart(w) \/ SwitchCommit(w) \/ SwitchRefused(w) \/ MarkFailed(w)
  BY <1>4, SwitchStartServes, SwitchCommitServes, SwitchRefusedServes, MarkFailedServes
<1>5. CASE CleanupStart(w) \/ CleanupMark(w) \/ CleanupFailed(w)
  BY <1>5, CleanupStartServes, CleanupMarkServes, CleanupFailedServes
<1>6. CASE RemoveStart(w) \/ RemoveNothing(w) \/ PurgeMark(w)
  BY <1>6, RemoveStartServes, RemoveNothingServes, PurgeMarkServes
<1>7. CASE RemoveFiles(w) \/ RemoveDone(w) \/ RemoveFailed(w)
  BY <1>7, RemoveFilesServes, RemoveDoneServes, RemoveFailedServes
<1>8. CASE SweepMark(w)
  BY <1>8, SweepMarkServes
<1>9. QED BY <1>1, <1>2, <1>3, <1>4, <1>5, <1>6, <1>7, <1>8 DEF WorkerStep

(* Every step keeps what is served, sweeps while no publishing transaction *)
(* is overdue.                                                             *)
LEMMA NextServes ==
    ASSUME LeaseParts, ServeParts, [Next /\ InTime]_vars
    PROVE  ServeParts'
<1>1. CASE \E o \in Ops : Request(o) \/ HeartbeatLate(o) \/ AbandonedLeaseEnds(o)
  BY <1>1, RequestServes, LeaseEndServes
<1>2. CASE EditSpace
  BY <1>2, EditSpaceServes
<1>3. CASE \E w \in Workers : WorkerStep(w)
  BY <1>3, WorkerStepServes
<1>4. ASSUME NEW w \in Workers, Pick(w), InTime PROVE ServeParts'
  BY <1>4, SweepStartServes, ClaimServes, RecoverStagingServes DEF Pick, InTime
<1>5. CASE \E w \in Workers : Disturbed(w)
  BY <1>5, HeartbeatFailsServes, CrashServes, BuildFailsServes, SwitchUnansweredServes,
     DeletionFailsServes DEF Disturbed
<1>6. CASE \E w \in Workers, g \in Gens : ThreadStep(w, g)
  BY <1>6, IndexCreateServes, IndexInsertServes, IndexDropServes, IndexPurgeServes DEF
     ThreadStep
<1>7. CASE UNCHANGED vars
  BY <1>7, NothingServes
<1>8. QED BY <1>1, <1>2, <1>3, <1>4, <1>5, <1>6, <1>7 DEF Next

(* A fresh space serves nothing. *)
LEMMA InitServes ==
    ASSUME Init
    PROVE  ServeParts
<1>1. space.state = Active /\ space.active = None /\ space.rev = 1 /\ Serving = None
  BY DEF Init, Serving
<1>2. \A w \in Workers : wk[w].pc = "idle"
  BY DEF Init, IdleWorker
<1>3. AssetInv
  <2>1. \A o \in Ops : op[o].kind = None
    BY DEF Init, NoOp
  <2>2. QED BY <2>1, SkillAssumption DEF AssetInv, AssetOK, Kinds, DeleteKinds
<1>4. ShownInv
  BY DEF Init, ShownInv, ShownOK, Active
<1>5. GenInv
  BY <1>1, <1>2 DEF Init, GenInv, MayPublish, Publishing, ActiveIsServed
<1>6. DropInv /\ BuildInv /\ RemoveInv
  BY <1>2 DEF DropInv, DropOK, Drops, Dropping, BuildInv, BuildOK, Current, MayPublish,
     Publishing, RemoveInv, RemoveOK, Removing
<1>7. ThreadInv
  BY DEF Init, ThreadInv
<1>8. QED
  BY <1>1, <1>3, <1>4, <1>5, <1>6, <1>7 DEF ServeParts, IndexMatchesSkills, ServedHasFiles

-----------------------------------------------------------------------------
(* What is served *)

(***************************************************************************)
(* In every behaviour in which no sweep reads its list while a publishing  *)
(* transaction has outlived its lease: what workers and late threads drop  *)
(* is out of use for good, what they publish is what the skills show, and  *)
(* removals keep their order (worker.py).                                  *)
(***************************************************************************)
THEOREM ServingHolds == TimelySpec => [](LeaseParts /\ ServeParts)
<1>1. Init => LeaseParts /\ ServeParts
  BY InitLeases, InitServes
<1>2. LeaseParts /\ ServeParts /\ [Next /\ InTime]_vars => LeaseParts' /\ ServeParts'
  BY NextLeases, NextServes
<1>3. QED BY <1>1, <1>2, PTL DEF TimelySpec

(***************************************************************************)
(* In these behaviours a search never reads a missing collection: no       *)
(* sweep, no cleanup and no late thread touches what is, or is about to    *)
(* become, active (worker.py, sweep and cleanup).                          *)
(***************************************************************************)
THEOREM ActiveServed == TimelySpec => []ActiveIsServed
<1>1. ServeParts => ActiveIsServed
  BY DEF ServeParts, GenInv
<1>2. QED BY <1>1, ServingHolds, PTL

(***************************************************************************)
(* In these behaviours the index that is served holds exactly what the     *)
(* usable skills show (worker.py, publish and switch).                     *)
(***************************************************************************)
THEOREM IndexMatches == TimelySpec => []IndexMatchesSkills
<1>1. ServeParts => IndexMatchesSkills
  BY DEF ServeParts
<1>2. QED BY <1>1, ServingHolds, PTL

(***************************************************************************)
(* In these behaviours nothing that is served has lost its files: a        *)
(* removal empties every index before it deletes files (worker.py,         *)
(* remove).                                                                *)
(***************************************************************************)
THEOREM ServedKeepsFiles == TimelySpec => []ServedHasFiles
<1>1. ServeParts => ServedHasFiles
  BY DEF ServeParts
<1>2. QED BY <1>1, ServingHolds, PTL
=============================================================================

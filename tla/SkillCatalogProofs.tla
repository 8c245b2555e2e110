-------------------------- MODULE SkillCatalogProofs --------------------------
(***************************************************************************)
(* Proof that the skill API and its workers implement SkillCatalog, for    *)
(* any number of workers, operations, skills, versions and generations,    *)
(* and for any amount of trouble, in every behaviour in which no sweep     *)
(* reads its list while a publishing transaction has outlived its lease    *)
(* (TimelySpec).                                                           *)
(*                                                                         *)
(* The argument: by the invariant of SkillServeProofs, leases, builds,     *)
(* cleanups, sweeps and late threads leave what readers see as it is; a    *)
(* publication is one step of the catalogue, and so is each step of a      *)
(* removal that readers can notice.                                        *)
(***************************************************************************)
EXTENDS SkillServeProofs

-----------------------------------------------------------------------------
(* What readers see *)

(* No operation takes effect. *)
DoneKeeps == \A o \in Ops : op'[o].done <=> op[o].done

(* Nothing changes for readers. *)
Unseen ==
    /\ space'.state = Active <=> space.state = Active
    /\ \A s \in Skills : (Usable(s)' <=> Usable(s)) /\ skill'[s].active = skill[s].active
    /\ Serving' = Serving
    /\ DoneKeeps

(* A step of the catalogue, or none. *)
Refines == Catalog!Step \/ UNCHANGED Catalog!catalog

(* The operations that took effect, as a set. *)
LEMMA SameApplied ==
    ASSUME DoneKeeps
    PROVE  UNCHANGED {o \in Ops : op[o].done}
BY DEF DoneKeeps

(* What readers do not notice is no step of the catalogue. *)
LEMMA UnseenRefines ==
    ASSUME Unseen
    PROVE  Refines
<1>1. (space.state = Active)' = (space.state = Active)
  BY DEF Unseen
<1>2. UNCHANGED {s \in Skills : skill[s].state = Active}
  BY DEF Unseen, Usable
<1>3. UNCHANGED [s \in Skills |-> skill[s].active]
  BY DEF Unseen
<1>4. UNCHANGED {o \in Ops : op[o].done}
  BY SameApplied DEF Unseen
<1>5. QED BY <1>1, <1>2, <1>3, <1>4 DEF Unseen, Refines, Catalog!catalog

(* Without a publication no operation takes effect. *)
LEMMA UnpublishedKeeps ==
    ASSUME LeaseParts, LeaseParts', UNCHANGED published
    PROVE  DoneKeeps
<1> SUFFICES ASSUME NEW o \in Ops PROVE op'[o].done <=> op[o].done
  BY DEF DoneKeeps
<1>1. published[o] = (IF op[o].done THEN 1 ELSE 0) /\ op[o].done \in BOOLEAN
  BY DEF LeaseParts, TypeOK, OpRows, RowInv, RowOK
<1>2. published'[o] = (IF op'[o].done THEN 1 ELSE 0) /\ op'[o].done \in BOOLEAN
  BY DEF LeaseParts, TypeOK, OpRows, RowInv, RowOK
<1>3. QED BY <1>1, <1>2

(* The workers' bookkeeping. *)
LEMMA QuietRefines ==
    ASSUME LeaseParts, LeaseParts', UNCHANGED <<space, skill, coll, published>>
    PROVE  Refines
<1>1. DoneKeeps
  BY UnpublishedKeeps
<1>2. Unseen
  BY <1>1 DEF Unseen, Usable, Serving
<1>3. QED BY <1>2, UnseenRefines

-----------------------------------------------------------------------------
(* Requests *)

(* The space moves on and is still the same for readers. *)
LEMMA TouchedRefines ==
    ASSUME LeaseParts, LeaseParts', space' = Touched(space), UNCHANGED <<skill, coll, published>>
    PROVE  Refines
<1>1. space'.state = space.state /\ space'.active = space.active
  BY TouchedRow DEF LeaseParts
<1>2. DoneKeeps
  BY UnpublishedKeeps
<1>3. Unseen
  BY <1>1, <1>2 DEF Unseen, Usable, Serving
<1>4. QED BY <1>3, UnseenRefines

(* A skill is taken out of use. *)
LEMMA RegisterDeleteSkillRefines ==
    ASSUME LeaseParts, LeaseParts', NEW o \in Ops, NEW s \in Skills, RegisterDeleteSkill(o, s)
    PROVE  Refines
<1>1. TypeOK
  BY DEF LeaseParts
<1>2. DoneKeeps
  BY UnpublishedKeeps DEF RegisterDeleteSkill, workerVars
<1>3. UNCHANGED coll /\ space' = Touched(space) /\ space.state = Active
  BY DEF RegisterDeleteSkill, workerVars, SpaceOpen
<1>4. space'.state = space.state /\ space'.active = space.active
  BY <1>1, <1>3, TouchedRow
<1>5. Serving' = Serving
  BY <1>3, <1>4 DEF Serving
<1>6. /\ ~Usable(s)' /\ skill'[s].active = skill[s].active
      /\ \A t \in Skills : t # s => skill'[t] = skill[t]
  <2>1. ASSUME NEW r \in SkillRows, NEW st PROVE LET row == [r EXCEPT !.state = st] IN
               row.state = st /\ row.active = r.active
    BY DEF SkillRows
  <2>2. PICK st : st = Deletable(skill[s].state)
    OBVIOUS
  <2>3. st # Active
    BY <2>2 DEF Deletable, Active
  <2>4. /\ skill[s] \in SkillRows /\ skill'[s] = [skill[s] EXCEPT !.state = st]
        /\ \A t \in Skills : t # s => skill'[t] = skill[t]
    BY <1>1, <2>2 DEF RegisterDeleteSkill, TypeOK
  <2>5. QED BY <2>1, <2>3, <2>4 DEF Usable
<1>7. CASE ~Usable(s)
  <2>1. Unseen
    BY <1>2, <1>4, <1>5, <1>6, <1>7 DEF Unseen, Usable
  <2>2. QED BY <2>1, UnseenRefines
<1>8. CASE Usable(s)
  <2>1. s \in {t \in Skills : skill[t].state = Active}
    BY <1>8 DEF Usable
  <2>2. {t \in Skills : skill[t].state = Active}' = {t \in Skills : skill[t].state = Active} \ {s}
    BY <1>6 DEF Usable
  <2>3. UNCHANGED [t \in Skills |-> skill[t].active]
    BY <1>6
  <2>4. (space.state = Active)' = (space.state = Active)
    BY <1>4
  <2>5. UNCHANGED {x \in Ops : op[x].done}
    BY <1>2, SameApplied
  <2>6. Catalog!Withdraw(s)
    BY <1>5, <2>1, <2>2, <2>3, <2>4, <2>5 DEF Catalog!Withdraw
  <2>7. QED BY <2>6 DEF Refines, Catalog!Step
<1>9. QED BY <1>7, <1>8

(* The space is closed. *)
LEMMA RegisterDeleteSpaceRefines ==
    ASSUME LeaseParts, LeaseParts', NEW o \in Ops, RegisterDeleteSpace(o)
    PROVE  Refines
<1>1. space'.state = "deleting" /\ space'.active = space.active
  BY RegisterDeleteSpaceLeases
<1>2. UNCHANGED <<skill, coll, published>> /\ space.state = Active
  BY DEF RegisterDeleteSpace, workerVars, SpaceOpen
<1>3. UNCHANGED {x \in Ops : op[x].done}
  BY <1>2, UnpublishedKeeps, SameApplied
<1>4. Serving' = Serving /\ (space.state = Active)' = FALSE
  BY <1>1, <1>2 DEF Serving, Active
<1>5. Catalog!Close
  BY <1>2, <1>3, <1>4 DEF Catalog!Close
<1>6. QED BY <1>5 DEF Refines, Catalog!Step

(* A request changes nothing for readers, except that a deletion hides     *)
(* what it deletes.                                                        *)
LEMMA RequestRefines ==
    ASSUME LeaseParts, LeaseParts', NEW o \in Ops, Request(o)
    PROVE  Refines
<1>1. CASE \E s \in Skills : RegisterDeleteSkill(o, s)
  BY <1>1, RegisterDeleteSkillRefines
<1>2. CASE RegisterDeleteSpace(o)
  BY <1>2, RegisterDeleteSpaceRefines
<1>3. CASE \E s \in Skills : \E v \in Maybe(Of(s)) : RegisterActivate(o, s, v)
  BY <1>3, TouchedRefines DEF RegisterActivate, workerVars
<1>4. CASE \E v \in Versions : RegisterDeleteVersion(o, v)
  BY <1>4, TouchedRefines DEF RegisterDeleteVersion, workerVars
<1>5. CASE \E v \in Versions : \E activate \in BOOLEAN : StagePackage(o, v, activate)
  BY <1>5, TouchedRefines DEF StagePackage, workerVars
<1>6. CASE RegisterReindex(o)
  BY <1>6, TouchedRefines DEF RegisterReindex, workerVars
<1>7. CASE SealPackage(o) \/ UploadFails(o) \/ Retry(o)
  BY <1>7, QuietRefines DEF SealPackage, UploadFails, Retry, workerVars
<1>8. QED BY <1>1, <1>2, <1>3, <1>4, <1>5, <1>6, <1>7 DEF Request

(* The model of the space is set or unset. *)
LEMMA EditSpaceRefines ==
    ASSUME LeaseParts, LeaseParts', EditSpace
    PROVE  Refines
<1>1. space'.state = space.state /\ space'.active = space.active
  BY EditSpaceLeases
<1>2. DoneKeeps /\ UNCHANGED <<skill, coll>>
  BY UnpublishedKeeps DEF EditSpace
<1>3. Unseen
  BY <1>1, <1>2 DEF Unseen, Usable, Serving
<1>4. QED BY <1>3, UnseenRefines

-----------------------------------------------------------------------------
(* Threads *)

(* A late call may only change a collection that nobody reads. *)
LEMMA ThreadRefines ==
    ASSUME LeaseParts, LeaseParts', ServeParts, NEW w \in Workers, NEW g \in Gens,
           IndexCreate(w, g) \/ IndexInsert(w, g) \/ IndexDrop(w, g)
    PROVE  Refines
<1>1. PICK c \in threads : c[2] = g /\ c[1] \in Writes \cup {"drop"}
  BY DEF IndexCreate, IndexInsert, IndexDrop, Writes
<1>2. Emptied \/ g # space.active
  BY <1>1 DEF ServeParts, ThreadInv, ThreadOK, Gone
<1>3. \A x \in Gens : x # g => coll'[x] = coll[x]
  BY DEF IndexCreate, IndexInsert, IndexDrop, LeaseParts, TypeOK
<1>4. UNCHANGED <<space, skill, published>>
  BY DEF IndexCreate, IndexInsert, IndexDrop, assetVars
<1>5. Serving' = Serving
  <2>1. space.active # None => space.active \in Gens
    BY DEF LeaseParts, TypeOK, Spaces, Maybe
  <2>2. QED BY <1>2, <1>3, <1>4, <2>1 DEF Serving, Emptied
<1>6. DoneKeeps
  BY <1>4, UnpublishedKeeps
<1>7. Unseen
  BY <1>4, <1>5, <1>6 DEF Unseen, Usable
<1>8. QED BY <1>7, UnseenRefines

(* A purge takes only versions that no usable skill shows. *)
LEMMA IndexPurgeRefines ==
    ASSUME LeaseParts, LeaseParts', ServeParts, NEW w \in Workers, NEW g \in Gens, IndexPurge(w, g)
    PROVE  Refines
<1>1. PICK docs \in SUBSET Versions :
        /\ <<"purge", g, w, docs>> \in threads
        /\ coll' = [coll EXCEPT ![g] = IF @ = None THEN None ELSE @ \ docs]
        /\ UNCHANGED <<assetVars, op, gen, trouble, published>>
  BY DEF IndexPurge
<1>2. \A v \in docs : Doomed(v)
  <2>1. PICK c \in threads : c = <<"purge", g, w, docs>>
    BY <1>1
  <2>2. c[1] = "purge" /\ c[4] = docs
    BY <2>1
  <2>3. QED BY <2>2 DEF ServeParts, ThreadInv, ThreadOK
<1>3. UNCHANGED <<space, skill>> /\ DoneKeeps
  BY <1>1, UnpublishedKeeps DEF assetVars
<1>4. Serving # None => Serving \in SUBSET Versions
  BY DEF Serving, LeaseParts, TypeOK, Spaces, Maybe
<1>5. Serving' = IF Serving # None /\ g = space.active THEN Serving \ docs ELSE Serving
  <2>1. space.active # None => space.active \in Gens
    BY DEF LeaseParts, TypeOK, Spaces, Maybe
  <2>2. /\ \A x \in Gens : x # g => coll'[x] = coll[x]
        /\ coll'[g] = IF coll[g] = None THEN None ELSE coll[g] \ docs
    BY <1>1 DEF LeaseParts, TypeOK
  <2>3. QED BY <1>3, <2>1, <2>2 DEF Serving
<1>6. CASE ~(Serving # None /\ g = space.active)
  <2>1. Unseen
    BY <1>3, <1>5, <1>6 DEF Unseen, Usable
  <2>2. QED BY <2>1, UnseenRefines
<1>7. CASE Serving # None /\ g = space.active
  <2>1. Serving' = Serving \ docs /\ Serving' # None
    BY <1>4, <1>5, <1>7, SkillAssumption
  <2>2. \A s \in Skills : Usable(s) /\ skill[s].active # None => skill[s].active \notin docs
    BY <1>2 DEF ServeParts, ShownInv, ShownOK, Doomed, Dying
  <2>3. (Serving \ Serving') \cap Catalog!IndexOf([s \in Skills |-> skill[s].active]) = {}
    BY <2>1, <2>2 DEF Catalog!IndexOf, Usable
  <2>4. UNCHANGED {o \in Ops : op[o].done}
    BY <1>3, SameApplied
  <2>5. Catalog!Purge
    BY <1>3, <1>7, <2>1, <2>3, <2>4 DEF Catalog!Purge
  <2>6. QED BY <2>5 DEF Refines, Catalog!Step
<1>8. QED BY <1>6, <1>7

-----------------------------------------------------------------------------
(* Publication *)

(* The operation takes effect, with the index of what is then shown. *)
LEMMA PublishedRefines ==
    ASSUME LeaseParts, ServeParts, NEW w \in Workers, NEW g \in Maybe(Gens),
           Publishable(w, g), Switched(w, g), UNCHANGED <<files, coll>>,
           ~op[wk[w].op].done, op'[wk[w].op].done, \A x \in Ops : x # wk[w].op => op'[x] = op[x],
           Row(w).activate \/ g # None
    PROVE  Refines
<1>1. PICK o \in Ops : o = wk[w].op
  BY DEF Publishable
<1>2. space.state = Active /\ (space.state = Active)' = (space.state = Active)
  BY DEF Publishable, Switched
<1>3. Catalog!Apply(o)
  <2>1. o \notin {x \in Ops : op[x].done}
    BY <1>1
  <2>2. {x \in Ops : op[x].done}' = {x \in Ops : op[x].done} \cup {o}
    BY <1>1
  <2>3. QED BY <1>2, <2>1, <2>2 DEF Catalog!Apply
<1>4. UNCHANGED {s \in Skills : skill[s].state = Active}
  BY DEF Switched
<1>5. [s \in Skills |-> skill[s].active]' = [s \in Skills |-> Selected(Row(w), s)]
  BY DEF Switched
<1>6. /\ g = None => Serving' = None
      /\ g # None => Serving' = Snapshot(Row(w))
  BY MatchPublished
<1>7. Catalog!IndexOf([s \in Skills |-> Selected(Row(w), s)]) = Snapshot(Row(w))
  BY DEF Catalog!IndexOf, Snapshot
<1>8. CASE Row(w).activate
  <2>1. PICK s \in Skills, v \in Maybe(Versions) : s = Row(w).skill /\ v = Row(w).ver
    BY <1>1, <1>8 DEF LeaseParts, TypeOK, OpRows, RowInv, RowOK, Row
  <2>2. v # None => SkillOf[v] = s
    BY <1>1, <1>8, <2>1 DEF LeaseParts, RowInv, RowOK, Row
  <2>3. s \in {t \in Skills : skill[t].state = Active}
    BY <2>1, SkillAssumption DEF Publishable, Usable
  <2>4. [t \in Skills |-> skill[t].active]' = [[t \in Skills |-> skill[t].active] EXCEPT ![s] = v]
    BY <1>5, <1>8, <2>1 DEF Selected
  <2>5. Serving' \in {None, Catalog!IndexOf([t \in Skills |-> skill[t].active]')}
    BY <1>5, <1>6, <1>7
  <2>6. Catalog!Activate(s, v)
    BY <1>2, <1>4, <2>2, <2>3, <2>4, <2>5 DEF Catalog!Activate
  <2>7. QED BY <1>3, <2>6 DEF Refines, Catalog!Step, Maybe
<1>9. CASE ~Row(w).activate
  <2>1. [s \in Skills |-> Selected(Row(w), s)] = [s \in Skills |-> skill[s].active]
    BY <1>9 DEF Selected
  <2>2. Serving' = Catalog!IndexOf([s \in Skills |-> skill[s].active])
    BY <1>6, <1>7, <1>9, <2>1
  <2>3. Catalog!Reindex
    BY <1>2, <1>4, <1>5, <2>1, <2>2 DEF Catalog!Reindex
  <2>4. QED BY <1>3, <2>3 DEF Refines, Catalog!Step
<1>10. QED BY <1>8, <1>9

(* A publication without an index is a publication of the catalogue. *)
LEMMA PublishUnindexedRefines ==
    ASSUME LeaseParts, ServeParts, NEW w \in Workers, PublishUnindexed(w)
    PROVE  Refines
<1>1. Switched(w, None) /\ op'[wk[w].op].done /\ wk[w].op \in Ops
  BY PublishUnindexedLeases
<1>2. \A x \in Ops : x # wk[w].op => op'[x] = op[x]
  BY PublishUnindexedLeases
<1>3. ~op[wk[w].op].done /\ Row(w).activate /\ UNCHANGED <<files, coll>>
  BY DEF PublishUnindexed, Admissible, Row
<1>4. Publishable(w, None)
  BY <1>1, UnindexedPublishable
<1>5. QED BY <1>1, <1>2, <1>3, <1>4, PublishedRefines DEF Maybe

(* The switch is a publication of the catalogue. *)
LEMMA SwitchRefines ==
    ASSUME LeaseParts, ServeParts, NEW w \in Workers, wk[w].pc = "commit", Switch(w),
           trouble' \in Nat, NEW pc \in {"list", "mark_failed"}, Goto(w, pc)
    PROVE  Refines
<1>1. /\ Switched(w, wk[w].gen) /\ op'[wk[w].op].done /\ ~op[wk[w].op].done
      /\ wk[w].op \in Ops /\ wk[w].gen \in Gens
  BY SwitchLeases
<1>2. \A x \in Ops : x # wk[w].op => op'[x] = op[x]
  BY SwitchLeases
<1>3. UNCHANGED <<files, coll>>
  BY DEF Switch
<1>4. Publishable(w, wk[w].gen) /\ wk[w].gen # None /\ wk[w].gen \in Maybe(Gens)
  BY <1>1, SwitchPublishable, SkillAssumption DEF Maybe
<1>5. QED BY <1>1, <1>2, <1>3, <1>4, PublishedRefines

-----------------------------------------------------------------------------
(* Removal *)

(* A skill under deletion is no longer shown. *)
LEMMA HidingRefines ==
    ASSUME LeaseParts, LeaseParts', NEW s \in Skills, ~Usable(s), ~Usable(s)',
           skill'[s].active = None, \A t \in Skills : t # s => skill'[t] = skill[t],
           UNCHANGED <<space, coll, published>>
    PROVE  Refines
<1>1. s \notin {t \in Skills : skill[t].state = Active}
  BY DEF Usable
<1>2. UNCHANGED {t \in Skills : skill[t].state = Active}
  BY DEF Usable
<1>3. [t \in Skills |-> skill[t].active]' = [[t \in Skills |-> skill[t].active] EXCEPT ![s] = None]
  OBVIOUS
<1>4. Serving' = Serving
  BY DEF Serving
<1>5. UNCHANGED {o \in Ops : op[o].done}
  BY UnpublishedKeeps, SameApplied
<1>6. Catalog!Hide(s)
  BY <1>1, <1>2, <1>3, <1>4, <1>5 DEF Catalog!Hide
<1>7. QED BY <1>6 DEF Refines, Catalog!Step

(* A closed space is emptied. *)
LEMMA EmptyingRefines ==
    ASSUME LeaseParts, LeaseParts', space.state # Active, space'.state # Active,
           space'.active = None, \A s \in Skills : ~Usable(s)' /\ skill'[s].active = None,
           UNCHANGED published
    PROVE  Refines
<1>1. (space.state = Active)' = (space.state = Active) /\ ~(space.state = Active)
  OBVIOUS
<1>2. {s \in Skills : skill[s].state = Active}' = {}
  BY DEF Usable
<1>3. [s \in Skills |-> skill[s].active]' = [s \in Skills |-> None]
  OBVIOUS
<1>4. Serving' = None
  BY DEF Serving
<1>5. UNCHANGED {o \in Ops : op[o].done}
  BY UnpublishedKeeps, SameApplied
<1>6. Catalog!Empty
  BY <1>1, <1>2, <1>3, <1>4, <1>5 DEF Catalog!Empty
<1>7. QED BY <1>6 DEF Refines, Catalog!Step

(* What a removal does to the rows of what it deletes. *)
LEMMA RemovalRefines ==
    ASSUME LeaseParts, LeaseParts', ServeParts, UNCHANGED <<coll, published>>,
           NEW o \in Ops, op[o].kind \in DeleteKinds,
           \A s \in Skills :
               IF s \in DoomedSkills(op[o]) THEN ~Usable(s)' /\ skill'[s].active = None
               ELSE skill'[s] = skill[s],
           IF op[o].kind = "delete_space" THEN space'.state # Active /\ space'.active = None
           ELSE space' = space
    PROVE  Refines
<1>1. AssetOK(o) /\ ShownInv
  BY DEF ServeParts, AssetInv
<1>2. CASE op[o].kind = "delete_version"
  <2>1. \A s \in Skills : skill'[s] = skill[s]
    BY <1>2 DEF DoomedSkills
  <2>2. Unseen
    BY <1>2, <2>1, UnpublishedKeeps DEF Unseen, Usable, Serving
  <2>3. QED BY <2>2, UnseenRefines
<1>3. CASE op[o].kind = "delete_skill"
  <2>1. PICK s \in Skills : s = op[o].skill /\ ~Usable(s)
    BY <1>1, <1>3 DEF AssetOK
  <2>2. DoomedSkills(op[o]) = {s}
    BY <1>3, <2>1 DEF DoomedSkills
  <2>3. QED BY <1>3, <2>1, <2>2, HidingRefines
<1>4. CASE op[o].kind = "delete_space"
  <2>1. space.state # Active
    BY <1>1, <1>4 DEF AssetOK
  <2>2. DoomedSkills(op[o]) = {s \in Skills : skill[s].state # "deleted"}
    BY <1>4 DEF DoomedSkills
  <2>3. \A s \in Skills : ~Usable(s)' /\ skill'[s].active = None
    BY <1>1, <2>2 DEF ShownInv, ShownOK, Usable, Active
  <2>4. QED BY <1>4, <2>1, <2>3, EmptyingRefines
<1>5. QED BY <1>2, <1>3, <1>4 DEF DeleteKinds

(* The start of a removal hides a skill or empties the space. *)
LEMMA RemoveStartRefines ==
    ASSUME LeaseParts, LeaseParts', ServeParts, NEW w \in Workers, RemoveStart(w)
    PROVE  Refines
<1>1. PICK o \in Ops : o = wk[w].op /\ Row(w) = op[o] /\ op[o].kind \in DeleteKinds
  BY RemoverRow DEF RemoveStart, At, RemovePcs
<1>2. ASSUME NEW s \in DoomedSkills(op[o]), s \in Skills
      PROVE  ~Usable(s)' /\ skill'[s].active = None
  <2>1. skill'[s] = [state |-> "deleting", active |-> None, rev |-> skill[s].rev + 1]
    BY <1>1, <1>2 DEF RemoveStart
  <2>2. skill'[s].state = "deleting" /\ skill'[s].active = None
    BY <2>1
  <2>3. QED BY <2>2 DEF Usable, Active
<1>3. \A s \in Skills : s \notin DoomedSkills(op[o]) => skill'[s] = skill[s]
  BY <1>1 DEF RemoveStart
<1>4. IF op[o].kind = "delete_space" THEN space'.state # Active /\ space'.active = None
      ELSE space' = space
  BY <1>1 DEF RemoveStart, LeaseParts, TypeOK, Spaces, Active
<1>5. UNCHANGED <<coll, published>>
  BY DEF RemoveStart
<1>6. QED BY <1>1, <1>2, <1>3, <1>4, <1>5, RemovalRefines

(* Its end leaves the skill hidden and the space empty. *)
LEMMA RemoveDoneRefines ==
    ASSUME LeaseParts, LeaseParts', ServeParts, NEW w \in Workers, RemoveDone(w)
    PROVE  Refines
<1>1. PICK o \in Ops : o = wk[w].op /\ Row(w) = op[o] /\ op[o].kind \in DeleteKinds
  BY RemoverRow DEF RemoveDone, At, RemovePcs
<1>2. ASSUME NEW s \in DoomedSkills(op[o]), s \in Skills
      PROVE  ~Usable(s)' /\ skill'[s].active = None
  <2>1. ASSUME NEW r \in SkillRows
        PROVE  LET row == [r EXCEPT !.state = "deleted", !.active = None] IN
               row.state = "deleted" /\ row.active = None
    BY DEF SkillRows
  <2>2. skill[s] \in SkillRows /\ skill'[s] = [skill[s] EXCEPT !.state = "deleted", !.active = None]
    BY <1>1, <1>2 DEF RemoveDone, LeaseParts, TypeOK
  <2>3. skill'[s].state = "deleted" /\ skill'[s].active = None
    BY <2>1, <2>2
  <2>4. QED BY <2>3 DEF Usable, Active
<1>3. \A s \in Skills : s \notin DoomedSkills(op[o]) => skill'[s] = skill[s]
  BY <1>1 DEF RemoveDone
<1>4. IF op[o].kind = "delete_space" THEN space'.state # Active /\ space'.active = None
      ELSE space' = space
  BY <1>1 DEF RemoveDone, LeaseParts, TypeOK, Spaces, Active
<1>5. UNCHANGED <<coll, published>>
  BY DEF RemoveDone
<1>6. QED BY <1>1, <1>2, <1>3, <1>4, <1>5, RemovalRefines

(* A failed removal shows nothing again. *)
LEMMA RemoveFailedRefines ==
    ASSUME LeaseParts, LeaseParts', ServeParts, NEW w \in Workers, RemoveFailed(w)
    PROVE  Refines
<1>1. PICK o \in Ops : o = wk[w].op /\ Row(w) = op[o] /\ op[o].kind \in DeleteKinds
  BY RemoverRow DEF RemoveFailed, At, RemovePcs
<1>2. TypeOK /\ AssetOK(o) /\ UNCHANGED coll /\ DoneKeeps
  BY UnpublishedKeeps DEF LeaseParts, ServeParts, AssetInv, RemoveFailed
<1>3. \A state : state # Active => DeleteFailed(state) # Active
  BY DEF DeleteFailed, Active
<1>4. ASSUME op[o].kind = "delete_space"
      PROVE  space.state # Active /\ space'.state # Active /\ space'.active = space.active
  <2>1. space.state # Active
    BY <1>2, <1>4 DEF AssetOK
  <2>2. space'.state = DeleteFailed(space.state) /\ space'.active = space.active
    BY <1>1, <1>2, <1>4 DEF RemoveFailed, TypeOK, Spaces
  <2>3. QED BY <1>3, <2>1, <2>2
<1>5. (space'.state = Active <=> space.state = Active) /\ space'.active = space.active
  BY <1>1, <1>4 DEF RemoveFailed
<1>6. ASSUME op[o].kind = "delete_skill", NEW t \in Skills
      PROVE  (Usable(t)' <=> Usable(t)) /\ skill'[t].active = skill[t].active
  <2>1. PICK s \in Skills : s = op[o].skill /\ ~Usable(s)
    BY <1>2, <1>6 DEF AssetOK
  <2>2. ASSUME NEW r \in SkillRows, NEW st
        PROVE  LET row == [r EXCEPT !.state = st] IN row.state = st /\ row.active = r.active
    BY DEF SkillRows
  <2>3. PICK st : st = DeleteFailed(skill[s].state)
    OBVIOUS
  <2>4. skill' = [skill EXCEPT ![s] = [skill[s] EXCEPT !.state = st]]
    BY <1>1, <1>2, <1>6, <2>1, <2>3 DEF RemoveFailed, TypeOK
  <2>5. /\ skill[s] \in SkillRows /\ skill'[s] = [skill[s] EXCEPT !.state = st]
        /\ t # s => skill'[t] = skill[t]
    BY <1>2, <2>4 DEF TypeOK
  <2>6. skill'[s].state = st /\ skill'[s].active = skill[s].active
    BY <2>2, <2>5
  <2>7. QED BY <1>3, <2>1, <2>3, <2>5, <2>6, ZenonT(30) DEF Usable
<1>7. op[o].kind # "delete_skill" => UNCHANGED skill
  BY <1>1 DEF RemoveFailed
<1>8. Unseen
  BY <1>2, <1>5, <1>6, <1>7 DEF Unseen, Usable, Serving
<1>9. QED BY <1>8, UnseenRefines

-----------------------------------------------------------------------------
(* Every step *)

(* A step of a worker is a step of the catalogue, or none. *)
LEMMA WorkerStepRefines ==
    ASSUME LeaseParts, LeaseParts', ServeParts, NEW w \in Workers, WorkerStep(w)
    PROVE  Refines
<1>1. CASE Install(w) \/ Fail(w) \/ Finish(w) \/ LeaseLost(w)
  BY <1>1, QuietRefines DEF Install, Fail, Finish, LeaseLost, assetVars
<1>2. CASE PublishAgain(w) \/ PublishRefused(w) \/ PublishStart(w) \/ ReadContent(w) \/ Seal(w)
  BY <1>2, QuietRefines DEF PublishAgain, PublishRefused, PublishStart, ReadContent, Seal,
     assetVars
<1>3. CASE PublishUnindexed(w)
  BY <1>3, PublishUnindexedRefines
<1>4. CASE SwitchStart(w) \/ SwitchRefused(w) \/ MarkFailed(w)
  BY <1>4, QuietRefines DEF SwitchStart, SwitchRefused, MarkFailed, assetVars
<1>5. CASE SwitchCommit(w)
  <2>1. trouble' \in Nat
    BY <1>5 DEF SwitchCommit, LeaseParts, TypeOK
  <2>2. QED BY <1>5, <2>1, SwitchRefines DEF SwitchCommit, At
<1>6. CASE CleanupStart(w) \/ CleanupMark(w) \/ CleanupFailed(w) \/ SweepMark(w)
  BY <1>6, QuietRefines DEF CleanupStart, CleanupMark, CleanupFailed, SweepMark, assetVars
<1>7. CASE RemoveNothing(w) \/ PurgeMark(w) \/ RemoveFiles(w)
  BY <1>7, QuietRefines DEF RemoveNothing, PurgeMark, RemoveFiles, assetVars
<1>8. CASE RemoveStart(w) \/ RemoveDone(w) \/ RemoveFailed(w)
  BY <1>8, RemoveStartRefines, RemoveDoneRefines, RemoveFailedRefines
<1>9. QED BY <1>1, <1>2, <1>3, <1>4, <1>5, <1>6, <1>7, <1>8 DEF WorkerStep

(* So is every step. *)
LEMMA NextRefines ==
    ASSUME LeaseParts, LeaseParts', ServeParts, [Next]_vars
    PROVE  Refines
<1>1. CASE \E o \in Ops : Request(o) \/ HeartbeatLate(o) \/ AbandonedLeaseEnds(o)
  BY <1>1, RequestRefines, QuietRefines DEF HeartbeatLate, AbandonedLeaseEnds, LeaseEnds,
     assetVars
<1>2. CASE EditSpace
  BY <1>2, EditSpaceRefines
<1>3. CASE \E w \in Workers : WorkerStep(w)
  BY <1>3, WorkerStepRefines
<1>4. CASE \E w \in Workers : Pick(w)
  BY <1>4, QuietRefines DEF Pick, SweepStart, Claim, RecoverStaging, assetVars
<1>5. CASE \E w \in Workers : Disturbed(w)
  <2>1. PICK w \in Workers : Disturbed(w)
    BY <1>5
  <2>2. CASE SwitchUnanswered(w)
    <3>1. trouble' \in Nat
      BY <2>2, TroubleCounts DEF SwitchUnanswered, LeaseParts
    <3>2. QED BY <2>2, <3>1, SwitchRefines DEF SwitchUnanswered, At
  <2>3. QED
    BY <2>1, <2>2, QuietRefines
    DEF Disturbed, HeartbeatFails, Crash, BuildFails, DeletionFails, CallFails, assetVars
<1>6. CASE \E w \in Workers, g \in Gens : ThreadStep(w, g)
  BY <1>6, ThreadRefines, IndexPurgeRefines DEF ThreadStep
<1>7. CASE UNCHANGED vars
  BY <1>7, QuietRefines DEF vars
<1>8. QED BY <1>1, <1>2, <1>3, <1>4, <1>5, <1>6, <1>7 DEF Next

(* A fresh space is an empty catalogue. *)
LEMMA InitRefines ==
    ASSUME Init
    PROVE  Catalog!Start
BY DEF Init, Catalog!Start, Serving, NoOp

(***************************************************************************)
(* In every behaviour in which no sweep reads its list while a publishing  *)
(* transaction has outlived its lease, readers see the catalogue: a        *)
(* publication switches the active version and the index in one step and   *)
(* once per operation, and what is served changes otherwise only by losing *)
(* versions that no usable skill shows, or with the space (worker.py and   *)
(* service.py).                                                            *)
(***************************************************************************)
THEOREM CatalogImplemented == TimelySpec => ImplementsCatalog
<1>1. Init => Catalog!Start
  BY InitRefines
<1>2. /\ LeaseParts /\ ServeParts /\ LeaseParts' /\ ServeParts'
      /\ [Next /\ InTime]_vars
      => [Catalog!Step]_(Catalog!catalog)
  BY NextRefines DEF Refines
<1>3. QED
  BY <1>1, <1>2, ServingHolds, PTL DEF TimelySpec, ImplementsCatalog, Catalog!CatalogSpec
=============================================================================

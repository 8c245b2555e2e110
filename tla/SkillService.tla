----------------------------- MODULE SkillService -----------------------------
(***************************************************************************)
(* The skill API (api/skills/service.py): the requests that change a space *)
(* and register operations.  Every request is one transaction that holds   *)
(* the space row, so each is one step; only the upload of a package        *)
(* commits twice.                                                          *)
(***************************************************************************)
EXTENDS SkillState

workerVars == <<gen, coll, threads, wk, trouble, published>>

(* A row for a new operation on skill s and version v. *)
NewOperation(kind, s, v) ==
    [NoOp EXCEPT !.kind = kind, !.skill = s, !.ver = v, !.state = "pending", !.rev = 1,
                 !.activate = kind = "activate",
                 !.expect = IF kind = "activate" THEN skill[s].rev ELSE 0]

(* space(write=True) *)
SpaceOpen == space.state = Active
Touched(sp) == [sp EXCEPT !.rev = @ + 1]

Deletable(state) == IF state = "deleted" THEN state ELSE "deleting"

(* register_action: the operation is accepted only for what it applies to. *)
RegisterActivate(o, s, v) ==
    /\ op[o].state = "new" /\ SpaceOpen
    /\ skill[s].state = Active
    /\ v # None => SkillOf[v] = s /\ version[v] = "installed"
    /\ op' = [op EXCEPT ![o] = NewOperation("activate", s, v)]
    /\ space' = Touched(space)
    /\ UNCHANGED <<skill, version, files, workerVars>>

RegisterReindex(o) ==
    /\ op[o].state = "new" /\ SpaceOpen
    /\ op' = [op EXCEPT ![o] = NewOperation("reindex", None, None)]
    /\ space' = Touched(space)
    /\ UNCHANGED <<skill, version, files, workerVars>>

RegisterDeleteVersion(o, v) ==
    /\ op[o].state = "new" /\ SpaceOpen
    /\ version[v] # "new"
    /\ skill[SkillOf[v]].state = Active
    /\ skill[SkillOf[v]].active # v
    /\ op' = [op EXCEPT ![o] = NewOperation("delete_version", SkillOf[v], v)]
    /\ version' = [version EXCEPT ![v] = Deletable(@)]
    /\ space' = Touched(space)
    /\ UNCHANGED <<skill, files, workerVars>>

RegisterDeleteSkill(o, s) ==
    /\ op[o].state = "new" /\ SpaceOpen
    /\ op' = [op EXCEPT ![o] = NewOperation("delete_skill", s, None)]
    /\ skill' = [skill EXCEPT ![s].state = Deletable(@)]
    /\ space' = Touched(space)
    /\ UNCHANGED <<version, files, workerVars>>

RegisterDeleteSpace(o) ==
    /\ op[o].state = "new" /\ SpaceOpen
    /\ op' = [op EXCEPT ![o] = NewOperation("delete_space", None, None)]
    /\ space' = [Touched(space) EXCEPT !.state = "deleting"]
    /\ UNCHANGED <<skill, version, files, workerVars>>

(***************************************************************************)
(* install: the version, its file rows and the operation are committed in  *)
(* phase "staging" before any object is written; sealing makes the         *)
(* operation executable.  A failing upload records its own failure; a      *)
(* server that dies leaves the operation staging (recover_staging).        *)
(***************************************************************************)
StagePackage(o, v, activate) ==
    /\ op[o].state = "new" /\ SpaceOpen
    /\ version[v] = "new"
    /\ skill[SkillOf[v]].state = Active
    /\ op' = [op EXCEPT ![o] = [NewOperation("install", SkillOf[v], v) EXCEPT
                                 !.phase = "staging", !.activate = activate]]
    /\ version' = [version EXCEPT ![v] = "staging"]
    /\ files' = files \cup {v}
    /\ space' = Touched(space)
    /\ UNCHANGED <<skill, workerVars>>

Staging(o) == op[o].state = "pending" /\ op[o].phase = "staging"

SealPackage(o) ==
    /\ Staging(o) /\ SpaceOpen
    /\ version[op[o].ver] = "staging"
    /\ op' = [op EXCEPT ![o].phase = "sealed"]
    /\ UNCHANGED <<space, skill, version, files, workerVars>>

UploadFails(o) ==
    /\ Staging(o)
    /\ op' = [op EXCEPT ![o].state = "failed"]
    /\ version' = [version EXCEPT ![op[o].ver] = IF @ = "staging" THEN "install_failed" ELSE @]
    /\ UNCHANGED <<space, skill, files, workerVars>>

(* update_space and update_config; the latter may set or unset the model. *)
EditSpace ==
    /\ SpaceOpen
    /\ Trouble
    /\ \E embed \in BOOLEAN : space' = [Touched(space) EXCEPT !.embed = embed]
    /\ UNCHANGED <<skill, version, files, op, gen, coll, threads, wk, published>>

(* retry: a failed operation becomes claimable again, under a new revision. *)
Retry(o) ==
    /\ op[o].state = "failed"
    /\ op[o].phase # "staging"
    /\ Trouble
    /\ op' = [op EXCEPT ![o].state = "pending", ![o].owner = None, ![o].lease = FALSE,
                        ![o].rev = @ + 1]
    /\ UNCHANGED <<space, skill, version, files, gen, coll, threads, wk, published>>

Request(o) ==
    \/ \E s \in Skills : \/ \E v \in Maybe(Of(s)) : RegisterActivate(o, s, v)
                         \/ RegisterDeleteSkill(o, s)
    \/ \E v \in Versions : \/ RegisterDeleteVersion(o, v)
                           \/ \E activate \in BOOLEAN : StagePackage(o, v, activate)
    \/ RegisterReindex(o) \/ RegisterDeleteSpace(o)
    \/ SealPackage(o) \/ UploadFails(o) \/ Retry(o)
=============================================================================

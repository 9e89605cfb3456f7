------------------------------ MODULE AdoptTxn ------------------------------
(***************************************************************************)
(* One container made dockerMan-managed by unraid.docker.adopt or          *)
(* unraid.docker.set_icon: the plan made from a snapshot of the host, the  *)
(* apply loop that runs its steps one after the other, the rollback of a   *)
(* failure before the rebuild, and everybody else who acts on the same     *)
(* host meanwhile (docker users, other containers, volume pruning).        *)
(*                                                                         *)
(* A volume's data is the set of the writes it holds.  A place that may be *)
(* missing is Absent or a singleton: Absent = {}, present = {contents}.    *)
(* Which volumes the run moves is plan.moved; where it moves them depends  *)
(* on the verb: to a directory of appdata through a stage (Migrate), or to *)
(* a new labelled volume (a conversion, adopt's default and set_icon).     *)
(***************************************************************************)
EXTENDS Naturals, FiniteSets

CONSTANTS
    Vols,         \* the container's volumes
    Migrate,      \* --migrate-volumes: stage and expose instead of converting
    LostReplies,  \* steps whose failure may hide that they took effect
    EnvActs,      \* which of the other actors of the host act
    EnvBudget,    \* bound: actions of the other actors
    MaxRuns       \* bound: verbs executed on the container

ASSUME ConstantsAssumption ==
    /\ Migrate \in BOOLEAN
    /\ EnvBudget \in Nat
    /\ MaxRuns \in Nat

VARIABLES
    ctr,        \* the container: gen, up, times (StartedAt/FinishedAt), at
    autostart,  \* is it listed in the autostart file
    tmpl,       \* my-<name>.xml
    bak,        \* what this run's backup_id saved of it
    src,        \* the volumes' data where the original container mounts it
    dst,        \* and where the recreated one does
    stage,      \* this run's root-only copy stages
    birth,      \* CreatedAt of the volume at dst
    foreign,    \* volumes whose dst somebody else created
    other,      \* volumes another container mounts at src
    budget,     \* actions the other actors have left
    phase, cur, todo,  \* the step in progress, its volume, the ones left
    plan,       \* what the run was planned from
    run,        \* ApplyState and the locals of apply
    hist        \* observations of the past that no step reads

host == <<ctr, autostart, tmpl, bak, src, dst, stage, birth, foreign, other>>
vars == <<host, budget, phase, cur, todo, plan, run, hist>>

Absent == {}
AllAbsent == [v \in Vols |-> Absent]
Empty == {{}}
Contents(place) == UNION place

Steps == {"probe", "stop", "stopRecord", "copy", "creating", "created", "copying",
          "verifying", "save", "write", "auto1", "expose", "check", "rebuild", "auto2",
          "state", "verify", "icons", "remove", "removing"}
Rollback == {"rb_template", "rb_autostart", "rb_copies", "rb_created",
             "rb_removing", "rb_start"}
Ended == {"done", "recovery", "rolledback", "crashed"}
Undos == {"template", "autostart", "copies", "start"}

-----------------------------------------------------------------------------
(* The plan: which steps follow which. *)

NoPlan == [moved |-> {}, reuse |-> {}, wasUp |-> FALSE, inAuto |-> FALSE,
           want |-> FALSE, tmpl |-> "none"]

FreshRun(stoppedAt) ==
    [stopped |-> FALSE, tmplWritten |-> FALSE, autoChanged |-> FALSE, rebuilt |-> FALSE,
     copies |-> {}, exposed |-> {}, created |-> {}, manifests |-> AllAbsent,
     births |-> [v \in Vols |-> 0], stoppedAt |-> stoppedAt, base |-> Absent]

AfterProbe == IF plan.moved = {} THEN "save" ELSE IF plan.wasUp THEN "stop" ELSE "copy"
ToRebuild == IF plan.moved = {} THEN "rebuild" ELSE IF Migrate THEN "expose" ELSE "check"
AfterWrite == IF plan.inAuto # plan.wasUp THEN "auto1" ELSE ToRebuild
AfterRebuildUnlisted == "state"
AfterRebuild == IF plan.want # plan.wasUp THEN "auto2" ELSE "state"
AfterIcons == IF plan.moved = {} THEN "done" ELSE "remove"

(* What a step reports: success, a failure that changed nothing, or a      *)
(* failure reported although the effect took place.                        *)
Outcomes(step) == {"ok", "fail"} \cup (IF step \in LostReplies THEN {"lost"} ELSE {})

FailPhaseUnhandled == IF run.rebuilt THEN "recovery" ELSE "failed"
FailPhase == IF run.rebuilt THEN "recovery" ELSE "rb_template"
Go(r, next) == phase' = IF r = "ok" THEN next ELSE FailPhase

Undone(what, ok) == [hist EXCEPT !.failed = IF ok THEN @ ELSE @ \cup {what}]

Labelled(v) == dst[v] # Absent /\ v \notin foreign
Movable == {v \in Vols : ctr.at[v] = "src" /\ src[v] # Absent}

(* A managed container with a template is set_icon's, any other adopt's;    *)
(* set_icon always converts, and keeps the autostart entry as it is.        *)
SetIcon == ctr.gen = "managed" /\ tmpl # "none"

(* What the run was planned from; a volume it converts to that is there     *)
(* already is used again.                                                   *)
Snapshot(want) ==
    [moved |-> Movable, reuse |-> {v \in Movable : ~Migrate /\ dst[v] # Absent},
     wasUp |-> ctr.up, inAuto |-> autostart, want |-> want, tmpl |-> tmpl]

PlanRun ==
    /\ phase \in {"idle"} \cup Ended
    /\ hist.runs < MaxRuns
    /\ ctr.gen # "none"
    /\ SetIcon => ~Migrate
    /\ \A v \in Movable :
         /\ v \notin other
         /\ ~Migrate => dst[v] = Absent \/ Labelled(v)
    /\ \E want \in IF SetIcon THEN {autostart} ELSE BOOLEAN : plan' = Snapshot(want)
    /\ run' = FreshRun(IF ctr.up THEN Absent ELSE {ctr.times})
    /\ phase' = "probe" /\ todo' = Movable
    /\ bak' = "absent" /\ stage' = AllAbsent
    /\ hist' = [hist EXCEPT !.runs = @ + 1, !.touched = FALSE, !.failed = {}, !.ran = {},
                            !.sealed = AllAbsent, !.found = dst, !.raced = {}]
    /\ UNCHANGED <<ctr, autostart, tmpl, src, dst, birth, foreign, other, budget, cur>>

-----------------------------------------------------------------------------
(* The steps before the rebuild. *)

Probe ==
    /\ phase = "probe"
    /\ \E r \in Outcomes("probe") : Go(r, AfterProbe)
    /\ UNCHANGED <<host, budget, cur, todo, plan, run, hist>>

Stopped(c) == IF c.up THEN [c EXCEPT !.up = FALSE, !.times = @ + 1] ELSE c
Started(c) == IF c.up THEN c ELSE [c EXCEPT !.up = TRUE, !.times = @ + 1]

(* docker stop; whether it succeeded is all apply remembers of it. *)
Stop ==
    /\ phase = "stop"
    /\ \E r \in Outcomes("stop") :
         /\ ctr' = IF r = "fail" THEN ctr ELSE Stopped(ctr)
         /\ run' = [run EXCEPT !.stopped = r = "ok"]
         /\ Go(r, "stopRecord")
    /\ UNCHANGED <<autostart, tmpl, bak, src, dst, stage, birth, foreign, other,
                   budget, cur, todo, plan, hist>>

(* The inspect after it; a failure is swallowed and leaves nothing recorded. *)
StopRecord ==
    /\ phase = "stopRecord"
    /\ \E seen \in BOOLEAN :
         run' = [run EXCEPT !.stoppedAt = IF seen THEN {ctr.times} ELSE @]
    /\ phase' = "copy"
    /\ UNCHANGED <<host, budget, cur, todo, plan, hist>>

(* Next volume to copy: a conversion that is not reused is created first. *)
PickVolume ==
    /\ phase = "copy"
    /\ \/ todo = {} /\ phase' = "save" /\ todo' = plan.moved /\ UNCHANGED cur
       \/ \E v \in todo :
            /\ cur' = v /\ todo' = todo \ {v}
            /\ phase' = IF Migrate \/ v \in plan.reuse THEN "copying"
                        ELSE IF dst[v] = Absent THEN "creating" ELSE "rb_template"
    /\ UNCHANGED <<host, budget, plan, run, hist>>

(* docker volume create succeeds on an existing name: the volume is only   *)
(* this run's when it carries the labels and the root probe finds it empty.*)
ThisRuns(v) == v \notin foreign

CreateVolume ==
    /\ phase = "creating"
    /\ \/ UNCHANGED <<dst, birth, run>> /\ phase' = "rb_template"
       \/ /\ dst' = [dst EXCEPT ![cur] = IF @ = Absent THEN Empty ELSE @]
          /\ birth' = [birth EXCEPT ![cur] = IF dst[cur] = Absent THEN @ + 1 ELSE @]
          /\ \/ /\ ThisRuns(cur)
                /\ run' = [run EXCEPT !.created = @ \cup {cur}, !.births[cur] = birth'[cur]]
                /\ phase' = "copying"
             \/ UNCHANGED run /\ phase' = "rb_template"
    /\ UNCHANGED <<ctr, autostart, tmpl, bak, src, stage, foreign, other,
                   budget, cur, todo, plan, hist>>

(* The root side of CopyVolume and CopyIntoVolume, up to the source's      *)
(* manifest: the container is stopped, nobody else uses the volume, the    *)
(* target is this run's to fill.                                           *)
TargetFree(v) == IF Migrate THEN dst[v] = Absent ELSE Labelled(v) /\ dst[v] = Empty

BeginCopy ==
    /\ phase = "copying"
    /\ \/ UNCHANGED <<run, stage>> /\ phase' = "rb_template"
       \/ /\ ~ctr.up /\ cur \notin other /\ TargetFree(cur)
          /\ run' = [run EXCEPT !.base = src[cur]]
          /\ stage' = IF Migrate THEN [stage EXCEPT ![cur] = Empty] ELSE stage
          /\ phase' = "created"
    /\ UNCHANGED <<ctr, autostart, tmpl, bak, src, dst, birth, foreign, other,
                   budget, cur, todo, plan, hist>>

(* cp reads the source after its manifest was taken. *)
CopyData ==
    /\ phase = "created"
    /\ IF Migrate
       THEN stage' = [stage EXCEPT ![cur] = src[cur]] /\ UNCHANGED dst
       ELSE dst' = [dst EXCEPT ![cur] = IF @ = Absent \/ cur \in foreign
                                        THEN @ ELSE src[cur]] /\ UNCHANGED stage
    /\ phase' = "verifying"
    /\ UNCHANGED <<ctr, autostart, tmpl, bak, src, birth, foreign, other,
                   budget, cur, todo, plan, run, hist>>

CopyOf(v) == IF Migrate THEN stage[v] ELSE dst[v]

(* The copy is kept when it matches the manifest and the container is still *)
(* stopped; otherwise it is discarded, and discarding may fail too.         *)
VerifyCopy ==
    /\ phase = "verifying"
    /\ \/ /\ CopyOf(cur) = run.base /\ ~ctr.up
          /\ \E r \in Outcomes("copy") \ {"fail"} :
               /\ run' = IF r # "ok" THEN run
                         ELSE [run EXCEPT !.manifests[cur] = run.base,
                                          !.copies = IF Migrate THEN @ \cup {cur} ELSE @]
               /\ Go(r, "copy")
          /\ UNCHANGED <<stage, dst, hist>>
       \/ /\ \E cleaned \in BOOLEAN :
               /\ stage' = IF cleaned THEN [stage EXCEPT ![cur] = Absent] ELSE stage
               /\ dst' = IF cleaned /\ ~Migrate /\ Labelled(cur)
                         THEN [dst EXCEPT ![cur] = Empty] ELSE dst
               /\ hist' = Undone("copies", cleaned)
          /\ phase' = "rb_template" /\ UNCHANGED run
    /\ UNCHANGED <<ctr, autostart, tmpl, bak, src, birth, foreign, other,
                   budget, cur, todo, plan>>

SaveInspect ==
    /\ phase = "save"
    /\ \E r \in Outcomes("save") : Go(r, "write")
    /\ UNCHANGED <<host, budget, cur, todo, plan, run, hist>>

(* The existing template, or that there was none, is saved first; marked   *)
(* only once the write succeeded.                                          *)
WriteTemplate ==
    /\ phase = "write"
    /\ \E r \in Outcomes("write") :
         /\ \/ bak' = tmpl
            \/ r = "fail" /\ UNCHANGED bak
         /\ tmpl' = IF r = "fail" THEN tmpl ELSE "orca"
         /\ run' = [run EXCEPT !.tmplWritten = r = "ok"]
         /\ Go(r, AfterWrite)
    /\ UNCHANGED <<ctr, autostart, src, dst, stage, birth, foreign, other,
                   budget, cur, todo, plan, hist>>

(* rebuild_container leaves the container running exactly when it is       *)
(* listed, so it is listed as it ran; marked before it runs.               *)
SetAutostartBeforeMarked ==
    /\ phase = "auto1"
    /\ \E r \in Outcomes("autostart") :
         /\ autostart' = IF r = "fail" THEN autostart ELSE plan.wasUp
         /\ run' = [run EXCEPT !.autoChanged = r = "ok"]
         /\ Go(r, ToRebuild)
    /\ UNCHANGED <<ctr, tmpl, bak, src, dst, stage, birth, foreign, other,
                   budget, cur, todo, plan, hist>>

SetAutostartBefore ==
    /\ phase = "auto1"
    /\ \E r \in Outcomes("autostart") :
         /\ autostart' = IF r = "fail" THEN autostart ELSE plan.wasUp
         /\ Go(r, ToRebuild)
    /\ run' = [run EXCEPT !.autoChanged = TRUE]
    /\ UNCHANGED <<ctr, tmpl, bak, src, dst, stage, birth, foreign, other,
                   budget, cur, todo, plan, hist>>

(* The staged copy is renamed to where the template mounts it, never over  *)
(* anything there; its stage is removed after that, or the removal fails.   *)
ExposeCopy ==
    /\ phase = "expose"
    /\ \/ todo = {} /\ phase' = "check" /\ UNCHANGED <<dst, stage, run, todo, cur>>
       \/ \E v \in todo : \E r \in Outcomes("expose") :
            /\ cur' = v /\ todo' = todo \ {v}
            /\ r # "fail" => dst[v] = Absent /\ stage[v] # Absent
            /\ IF r = "fail" THEN UNCHANGED <<dst, stage>>
               ELSE /\ dst' = [dst EXCEPT ![v] = stage[v]]
                    /\ \/ stage' = [stage EXCEPT ![v] = Absent]
                       \/ r = "lost" /\ stage' = [stage EXCEPT ![v] = Empty]
            /\ run' = [run EXCEPT !.exposed = IF r = "ok" THEN @ \cup {v} ELSE @]
            /\ phase' = IF r = "ok" THEN "expose" ELSE "rb_template"
    /\ UNCHANGED <<ctr, autostart, tmpl, bak, src, birth, foreign, other,
                   budget, plan, hist>>

(* changed_since_copy: a copy was recorded and the source still matches it. *)
UnchangedSinceCopyRecorded(v) == run.manifests[v] # Absent
UnchangedSinceCopy(v) == run.manifests[v] # Absent /\ src[v] = run.manifests[v]
StillStoppedNow == ~ctr.up
StillStopped == ~ctr.up /\ run.stoppedAt = {ctr.times}

EnsureStopped ==
    /\ phase = "check"
    /\ \/ /\ StillStopped /\ \A v \in plan.moved : UnchangedSinceCopy(v)
          /\ phase' = "rebuild"
          /\ hist' = [hist EXCEPT !.sealed = src]
       \/ phase' = "rb_template" /\ UNCHANGED hist
    /\ UNCHANGED <<host, budget, cur, todo, plan, run>>

(* rebuild_container removes the container, keeping its volumes, and       *)
(* creates it again from the template; it may stop half way.               *)
Recreated ==
    [ctr EXCEPT !.gen = "managed", !.up = autostart, !.times = @ + 1,
                !.at = [v \in Vols |-> IF tmpl = "orca" /\ v \in plan.moved
                                       THEN "dst" ELSE ctr.at[v]]]

Rebuild ==
    /\ phase = "rebuild"
    /\ run' = [run EXCEPT !.rebuilt = TRUE]
    /\ \E r \in Outcomes("rebuild") :
         /\ \/ r # "fail" /\ tmpl # "none" /\ ctr' = Recreated
            \/ r # "ok" /\ UNCHANGED ctr
            \/ r # "ok" /\ tmpl # "none" /\ ctr' = [ctr EXCEPT !.gen = "none", !.up = FALSE]
         /\ phase' = IF r = "ok" THEN AfterRebuild ELSE "recovery"
    /\ dst' = [v \in Vols |-> IF ctr'.at[v] = "dst" /\ dst[v] = Absent THEN Empty ELSE dst[v]]
    /\ UNCHANGED <<autostart, tmpl, bak, src, stage, birth, foreign, other,
                   budget, cur, todo, plan, hist>>

-----------------------------------------------------------------------------
(* The steps after the rebuild: from here a failure is only reported.      *)

SetAutostartAfter ==
    /\ phase = "auto2"
    /\ \E r \in Outcomes("autostart") :
         /\ autostart' = IF r = "fail" THEN autostart ELSE plan.want
         /\ Go(r, "state")
    /\ UNCHANGED <<ctr, tmpl, bak, src, dst, stage, birth, foreign, other,
                   budget, cur, todo, plan, run, hist>>

EnsureState ==
    /\ phase = "state"
    /\ \E r \in Outcomes("state") :
         /\ ctr' = IF r = "fail" THEN ctr
                   ELSE IF plan.wasUp THEN Started(ctr) ELSE Stopped(ctr)
         /\ Go(r, "verify")
    /\ UNCHANGED <<autostart, tmpl, bak, src, dst, stage, birth, foreign, other,
                   budget, cur, todo, plan, run, hist>>

(* Managed, running if it ran, and mounting what the template mounts.      *)
AsRendered == /\ ctr.gen = "managed"
              /\ plan.wasUp => ctr.up
              /\ \A v \in plan.moved : ctr.at[v] = "dst"

VerifyManaged ==
    /\ phase = "verify"
    /\ \/ AsRendered /\ phase' = "icons"
       \/ phase' = "recovery"
    /\ UNCHANGED <<host, budget, cur, todo, plan, run, hist>>

(* ClearIconCache, RefreshIcons. *)
Icons ==
    /\ phase = "icons"
    /\ \E r \in Outcomes("icons") : Go(r, AfterIcons)
    /\ todo' = plan.moved
    /\ UNCHANGED <<host, budget, cur, plan, run, hist>>

(* Old volumes go one by one.  RemoveVolume (migrations) wants the          *)
(* container running, RemoveOwnAnonymousVolumes (conversions) wants nobody  *)
(* to mount the volume; both want it unchanged since its copy.              *)
RemovableUnchecked(v) == IF Migrate THEN ctr.up ELSE v \notin other
Removable(v) == /\ UnchangedSinceCopy(v)
                /\ IF Migrate THEN ctr.up ELSE v \notin other

CheckVolume ==
    /\ phase = "remove"
    /\ \/ todo = {} /\ phase' = "done" /\ UNCHANGED <<cur, todo>>
       \/ \E v \in todo :
            /\ cur' = v /\ todo' = todo \ {v}
            /\ phase' = IF Removable(v) THEN "removing" ELSE "remove"
       \/ phase' = "recovery" /\ UNCHANGED <<cur, todo>>
    /\ UNCHANGED <<host, budget, plan, run, hist>>

(* docker volume rm refuses a volume some container mounts. *)
MountedSrc(v) == v \in other \/ (ctr.gen # "none" /\ ctr.at[v] = "src")

RemoveVolume ==
    /\ phase = "removing"
    /\ \E r \in Outcomes("remove") :
         /\ r # "fail" => ~MountedSrc(cur)
         /\ src' = IF r = "fail" THEN src ELSE [src EXCEPT ![cur] = Absent]
         /\ Go(r, "remove")
    /\ UNCHANGED <<ctr, autostart, tmpl, bak, dst, stage, birth, foreign, other,
                   budget, cur, todo, plan, run, hist>>

-----------------------------------------------------------------------------
(* Rolling back a failure before the rebuild.  Each undo may fail, which is *)
(* noted, and the next one runs all the same.                               *)

(* Restores this run's backup; with the "none" sentinel it removes the      *)
(* template instead, and refuses one that is not orca's.                    *)
RestoredIfSaved == IF bak = "none" THEN tmpl ELSE bak
Restored == bak
RestorableAny == bak # "absent"
Restorable == bak # "absent" /\ (bak = "none" => tmpl # "user")

RestoreTemplate ==
    /\ phase = "rb_template"
    /\ \E ok \in IF run.tmplWritten THEN BOOLEAN ELSE {TRUE} :
         /\ run.tmplWritten /\ ok => Restorable
         /\ tmpl' = IF run.tmplWritten /\ ok THEN Restored ELSE tmpl
         /\ hist' = Undone("template", ok)
    /\ phase' = "rb_autostart"
    /\ UNCHANGED <<ctr, autostart, bak, src, dst, stage, birth, foreign, other,
                   budget, cur, todo, plan, run>>

RestoreAutostartReturns ==
    /\ phase = "rb_autostart"
    /\ \E ok \in IF run.autoChanged THEN BOOLEAN ELSE {TRUE} :
         /\ autostart' = IF run.autoChanged /\ ok THEN plan.inAuto ELSE autostart
         /\ hist' = Undone("autostart", ok)
         /\ phase' = IF ok THEN "rb_copies" ELSE "rolledback"
    /\ todo' = run.copies \ run.exposed
    /\ UNCHANGED <<ctr, tmpl, bak, src, dst, stage, birth, foreign, other,
                   budget, cur, plan, run>>

RestoreAutostart ==
    /\ phase = "rb_autostart"
    /\ \E ok \in IF run.autoChanged THEN BOOLEAN ELSE {TRUE} :
         /\ autostart' = IF run.autoChanged /\ ok THEN plan.inAuto ELSE autostart
         /\ hist' = Undone("autostart", ok)
    /\ phase' = "rb_copies" /\ todo' = run.copies \ run.exposed
    /\ UNCHANGED <<ctr, tmpl, bak, src, dst, stage, birth, foreign, other,
                   budget, cur, plan, run>>

(* Only stages go; an exposed copy stays in place. *)
RemoveCopies ==
    /\ phase = "rb_copies"
    /\ \/ /\ todo = {} /\ phase' = "rb_created" /\ todo' = run.created
          /\ UNCHANGED <<stage, cur, hist>>
       \/ \E v \in todo, ok \in BOOLEAN :
            /\ ok => stage[v] # Absent
            /\ cur' = v /\ todo' = todo \ {v} /\ UNCHANGED phase
            /\ stage' = IF ok THEN [stage EXCEPT ![v] = Absent] ELSE stage
            /\ hist' = Undone("copies", ok)
    /\ UNCHANGED <<ctr, autostart, tmpl, bak, src, dst, birth, foreign, other,
                   budget, plan, run>>

(* A created volume is removed if it is still the one this run created:    *)
(* first its CreatedAt is read, then docker volume rm runs.                *)
SameVolumeByName(v) == dst[v] # Absent
SameVolume(v) == dst[v] # Absent /\ birth[v] = run.births[v]

CheckCreated ==
    /\ phase = "rb_created"
    /\ \/ /\ todo = {} /\ phase' = "rb_start" /\ UNCHANGED <<cur, todo, hist>>
       \/ \E v \in todo :
            /\ cur' = v /\ todo' = todo \ {v}
            /\ \/ SameVolume(v) /\ phase' = "rb_removing" /\ UNCHANGED hist
               \/ UNCHANGED phase /\ hist' = Undone("copies", FALSE)
    /\ UNCHANGED <<host, budget, plan, run>>

MountedDst(v) == ctr.gen # "none" /\ ctr.at[v] = "dst"

RemoveCreated ==
    /\ phase = "rb_removing"
    /\ \E ok \in BOOLEAN :
         /\ ok => ~MountedDst(cur) /\ dst[cur] # Absent
         /\ dst' = IF ok THEN [dst EXCEPT ![cur] = Absent] ELSE dst
         /\ foreign' = IF ok THEN foreign \ {cur} ELSE foreign
         /\ hist' = Undone("copies", ok)
    /\ phase' = "rb_created"
    /\ UNCHANGED <<ctr, autostart, tmpl, bak, src, stage, birth, other,
                   budget, cur, todo, plan, run>>

Restart ==
    /\ phase = "rb_start"
    /\ \E ok \in IF run.stopped /\ plan.wasUp THEN BOOLEAN ELSE {TRUE} :
         /\ ctr' = IF run.stopped /\ plan.wasUp /\ ok THEN Started(ctr) ELSE ctr
         /\ hist' = Undone("start", ok)
    /\ phase' = "rolledback"
    /\ UNCHANGED <<autostart, tmpl, bak, src, dst, stage, birth, foreign, other,
                   budget, cur, todo, plan, run>>

(* The process dies; the next run starts from what it left on the host. *)
Crash ==
    /\ "crash" \in EnvActs /\ budget > 0 /\ budget' = budget - 1
    /\ phase \in Steps \cup Rollback
    /\ phase' = "crashed"
    /\ UNCHANGED <<host, cur, todo, plan, run, hist>>

-----------------------------------------------------------------------------
(* The other actors of the host.  A write is numbered by what is left of    *)
(* the budget, so no two writes are the same.                               *)

Acts(kind) == kind \in EnvActs /\ budget > 0 /\ budget' = budget - 1
Touch == hist' = [hist EXCEPT !.touched = TRUE]
Written(place) == {c \cup {budget} : c \in place}

(* Volumes whose copy has begun in this run. *)
Copied == {v \in Vols : run.manifests[v] # Absent}
            \cup (IF phase \in {"created", "verifying"} THEN {cur} ELSE {})

UserPower ==
    /\ Acts("power") /\ ctr.gen # "none"
    /\ ctr' \in {Started(ctr), Stopped(ctr)} \ {ctr}
    /\ hist' = [hist EXCEPT !.touched = TRUE, !.ran = IF ctr'.up THEN @ \cup Copied ELSE @]
    /\ UNCHANGED <<autostart, tmpl, bak, src, dst, stage, birth, foreign, other,
                   phase, cur, todo, plan, run>>

ContainerWrites(v) ==
    /\ Acts("write") /\ ctr.up
    /\ src' = IF ctr.at[v] = "src" THEN [src EXCEPT ![v] = Written(@)] ELSE src
    /\ dst' = IF ctr.at[v] = "dst" THEN [dst EXCEPT ![v] = Written(@)] ELSE dst
    /\ hist' = [hist EXCEPT !.written[v] = @ \cup {budget}]
    /\ UNCHANGED <<ctr, autostart, tmpl, bak, stage, birth, foreign, other,
                   phase, cur, todo, plan, run>>

OtherMounts(v) ==
    /\ Acts("other") /\ src[v] # Absent
    /\ other' = IF v \in other THEN other \ {v} ELSE other \cup {v}
    /\ UNCHANGED <<ctr, autostart, tmpl, bak, src, dst, stage, birth, foreign,
                   phase, cur, todo, plan, run, hist>>

OtherWrites(v) ==
    /\ Acts("other") /\ v \in other
    /\ src' = [src EXCEPT ![v] = Written(@)]
    /\ UNCHANGED <<ctr, autostart, tmpl, bak, dst, stage, birth, foreign, other,
                   phase, cur, todo, plan, run, hist>>

UserAutostart ==
    /\ Acts("autostart")
    /\ autostart' = ~autostart
    /\ Touch
    /\ UNCHANGED <<ctr, tmpl, bak, src, dst, stage, birth, foreign, other,
                   phase, cur, todo, plan, run>>

UserTemplate ==
    /\ Acts("template")
    /\ tmpl' = "user"
    /\ Touch
    /\ UNCHANGED <<ctr, autostart, bak, src, dst, stage, birth, foreign, other,
                   phase, cur, todo, plan, run>>

(* docker volume prune takes a volume no container mounts. *)
Prune(v) ==
    /\ Acts("prune") /\ ~Migrate /\ dst[v] # Absent /\ ~MountedDst(v)
    /\ dst' = [dst EXCEPT ![v] = Absent] /\ foreign' = foreign \ {v}
    /\ hist' = [hist EXCEPT !.touched = TRUE, !.pruned = @ \cup {v}]
    /\ UNCHANGED <<ctr, autostart, tmpl, bak, src, stage, birth, other,
                   phase, cur, todo, plan, run>>

Recreate(v) ==
    /\ Acts("prune") /\ ~Migrate /\ dst[v] = Absent
    /\ dst' = [dst EXCEPT ![v] = Empty] /\ foreign' = foreign \cup {v}
    /\ birth' = [birth EXCEPT ![v] = @ + 1]
    /\ hist' = [hist EXCEPT !.touched = TRUE,
                            !.raced = IF phase = "rb_removing" THEN @ \cup {v} ELSE @]
    /\ UNCHANGED <<ctr, autostart, tmpl, bak, src, stage, other,
                   phase, cur, todo, plan, run>>

-----------------------------------------------------------------------------
Init ==
    /\ \E up \in BOOLEAN :
         ctr = [gen |-> "orig", up |-> up, times |-> 0, at |-> [v \in Vols |-> "src"]]
    /\ autostart \in BOOLEAN
    /\ tmpl \in {"none", "user"} /\ bak = "absent"
    /\ src = [v \in Vols |-> {{0}}] /\ dst = AllAbsent /\ stage = AllAbsent
    /\ birth = [v \in Vols |-> 0] /\ foreign = {} /\ other = {}
    /\ budget = EnvBudget
    /\ phase = "idle" /\ cur \in Vols /\ todo = {} /\ plan = NoPlan
    /\ run = FreshRun(Absent)
    /\ hist = [runs |-> 0, touched |-> FALSE, failed |-> {}, ran |-> {}, sealed |-> AllAbsent,
               found |-> AllAbsent, raced |-> {}, written |-> [v \in Vols |-> {0}], pruned |-> {}]

Apply ==
    \/ Probe \/ Stop \/ StopRecord \/ PickVolume \/ CreateVolume \/ BeginCopy \/ CopyData
    \/ VerifyCopy \/ SaveInspect \/ WriteTemplate \/ SetAutostartBefore \/ ExposeCopy
    \/ EnsureStopped \/ Rebuild \/ SetAutostartAfter \/ EnsureState \/ VerifyManaged
    \/ Icons \/ CheckVolume \/ RemoveVolume

RollBack ==
    \/ RestoreTemplate \/ RestoreAutostart \/ RemoveCopies \/ CheckCreated
    \/ RemoveCreated \/ Restart

Environment ==
    \/ UserPower \/ UserAutostart \/ UserTemplate \/ Crash
    \/ \E v \in Vols : \/ ContainerWrites(v) \/ OtherMounts(v) \/ OtherWrites(v)
                       \/ Prune(v) \/ Recreate(v)

Next == PlanRun \/ Apply \/ RollBack \/ Environment

Spec == Init /\ [][Next]_vars

(* apply is one async function that runs to its end unless the process     *)
(* dies; nobody has to plan a run or to act on the host.                   *)
FairSpec == Spec /\ WF_vars(Apply \/ RollBack)

-----------------------------------------------------------------------------
Writes == 0 .. EnvBudget
Places == {Absent} \cup {{c} : c \in SUBSET Writes}

Containers == [gen : {"orig", "managed", "none"}, up : BOOLEAN, times : Nat,
               at : [Vols -> {"src", "dst"}]]
Plans == [moved : SUBSET Vols, reuse : SUBSET Vols, wasUp : BOOLEAN, inAuto : BOOLEAN,
          want : BOOLEAN, tmpl : {"none", "user", "orca"}]
Runs == [stopped : BOOLEAN, tmplWritten : BOOLEAN, autoChanged : BOOLEAN,
         rebuilt : BOOLEAN, copies : SUBSET Vols, exposed : SUBSET Vols,
         created : SUBSET Vols, manifests : [Vols -> Places], births : [Vols -> Nat],
         stoppedAt : SUBSET Nat, base : Places]
Histories == [runs : Nat, touched : BOOLEAN, failed : SUBSET Undos, ran : SUBSET Vols,
              sealed : [Vols -> Places], found : [Vols -> Places], raced : SUBSET Vols,
              written : [Vols -> SUBSET Writes], pruned : SUBSET Vols]

TypeOK ==
    /\ ctr \in Containers
    /\ autostart \in BOOLEAN
    /\ tmpl \in {"none", "user", "orca"} /\ bak \in {"absent", "none", "user", "orca"}
    /\ src \in [Vols -> Places] /\ dst \in [Vols -> Places] /\ stage \in [Vols -> Places]
    /\ birth \in [Vols -> Nat] /\ foreign \subseteq Vols /\ other \subseteq Vols
    /\ budget \in 0 .. EnvBudget
    /\ phase \in {"idle"} \cup Steps \cup Rollback \cup Ended
    /\ cur \in Vols /\ todo \subseteq Vols
    /\ plan \in Plans /\ run \in Runs /\ hist \in Histories

(* Whatever the container wrote to a volume is in the volume or where the   *)
(* run moved it, in every interleaving, failure and crash, unless somebody  *)
(* pruned the volume it was moved to: apply copies, removes the old volume  *)
(* and rolls back without losing a write (mod.rs RemoveVolume,              *)
(* RemoveOwnAnonymousVolumes, EnsureStopped and the rollback).              *)
WritesKept ==
    \A v \in Vols \ hist.pruned :
        hist.written[v] \subseteq Contents(src[v]) \cup Contents(dst[v])

(* Why WritesKept holds: the inductive invariant, a named part per reason.  *)
BeforeRebuild == {"probe", "stop", "stopRecord", "copy", "creating", "created", "copying",
                  "verifying", "save", "write", "auto1", "expose", "check", "rebuild"}
Picking == {"probe", "stop", "stopRecord", "copy"}
CopyingOne == {"creating", "copying", "created", "verifying"}
Copy(v) == Contents(run.manifests[v])

ContainerExists ==
    /\ phase \in Steps \cup Rollback => ctr.gen # "none"
    /\ ctr.gen = "none" => ~ctr.up

SourceHolds ==
    \A v \in Vols : ctr.at[v] = "src" => /\ src[v] # Absent
                                         /\ hist.written[v] \subseteq Contents(src[v])

TargetThere == \A v \in Vols \ hist.pruned : ctr.at[v] = "dst" => dst[v] # Absent

MovedAtSource == phase \in BeforeRebuild => \A v \in plan.moved : ctr.at[v] = "src"

OneCopyEach ==
    /\ phase \in Picking \cup CopyingOne =>
         todo \subseteq plan.moved /\ \A v \in todo : run.manifests[v] = Absent
    /\ phase \in CopyingOne =>
         cur \in plan.moved /\ cur \notin todo /\ run.manifests[cur] = Absent

CopiesOfMoved ==
    phase \in BeforeRebuild => \A v \in Vols \ plan.moved : run.manifests[v] = Absent

CopyHolds ==
    /\ ~Migrate => stage = AllAbsent
    /\ phase \in BeforeRebuild =>
         \A v \in Vols \ hist.pruned : Copy(v) \subseteq Contents(stage[v]) \cup Contents(dst[v])

CopiesExposed ==
    /\ phase \in {"save", "write", "auto1"} => todo = plan.moved
    /\ phase = "expose" =>
         \A v \in plan.moved \ (todo \cup hist.pruned) : Copy(v) \subseteq Contents(dst[v])
    /\ phase \in {"check", "rebuild"} =>
         \A v \in Vols \ hist.pruned : Copy(v) \subseteq Contents(dst[v])

RebuiltHolds ==
    phase \in Steps \ BeforeRebuild =>
        \A v \in Vols \ hist.pruned : ctr.at[v] = "dst" => Copy(v) \subseteq Contents(dst[v])

RemovedIsCopied ==
    phase = "removing" /\ cur \notin hist.pruned /\ ctr.at[cur] = "dst" =>
        hist.written[cur] \subseteq Contents(dst[cur])

WritesKeptInv ==
    /\ TypeOK /\ WritesKept /\ ContainerExists /\ SourceHolds /\ TargetThere
    /\ MovedAtSource /\ OneCopyEach /\ CopiesOfMoved /\ CopyHolds /\ CopiesExposed
    /\ RebuiltHolds /\ RemovedIsCopied

(* A container that mounts a moved volume mounts all that was in the old    *)
(* one when EnsureStopped passed: the rebuild never runs over a copy the    *)
(* source has moved on from.                                                *)
RebuiltOnFreshCopy ==
    \A v \in Vols \ hist.pruned :
        (phase \in {"auto2", "state", "verify", "icons", "remove", "removing", "done"}
           /\ v \in plan.moved /\ ctr.at[v] = "dst")
        => Contents(hist.sealed[v]) \subseteq Contents(dst[v])

(* A failure before the rebuild leaves the host as the run found it when    *)
(* nobody else touched it, item by item unless that item's own undo failed: *)
(* template, autostart list, running state, no stage, and of the volumes it *)
(* creates at most an empty one; exposed copies stay.                       *)
RollbackRestores ==
    (phase = "rolledback" /\ ~hist.touched) =>
        /\ "template" \in hist.failed \/ tmpl = plan.tmpl
        /\ "autostart" \in hist.failed \/ autostart = plan.inAuto
        /\ "start" \in hist.failed \/ ctr.up = plan.wasUp
        /\ "copies" \in hist.failed \/
             /\ stage = AllAbsent
             /\ \A v \in plan.moved \ (run.exposed \cup plan.reuse) :
                   dst[v] \in {Absent, Empty, hist.found[v]}

(* A run that reports success leaves the container managed, its autostart   *)
(* as asked and running exactly if it ran, when nobody else touched it.     *)
DoneAsPlanned ==
    (phase = "done" /\ ~hist.touched) =>
        /\ ctr.gen = "managed" /\ tmpl = "orca"
        /\ autostart = plan.want /\ ctr.up = plan.wasUp

(* A rollback removes a volume somebody else created under the converted    *)
(* name only if it took the place of the run's own after CreatedAt was read.*)
SparesForeignVolumes ==
    [][\A v \in foreign : phase = "rb_removing" /\ dst'[v] = Absent /\ budget' = budget
                            => v \in hist.raced]_vars

(* A template somebody wrote where there was none is never removed by the   *)
(* rollback (restore_template_in: "is not orca's; left in place").          *)
SparesUserTemplate ==
    [][phase = "rb_template" /\ tmpl = "user" /\ tmpl' # "user" => bak \in {"user", "orca"}]_vars

(* The rebuild never starts over a copy the container ran after: whoever    *)
(* started and stopped it since its copy began moved its run times          *)
(* (EnsureStopped: "Not running now does not mean it never ran").           *)
CopiedWhileQuiet ==
    [][phase = "check" /\ phase' = "rebuild" => hist.ran \cap plan.moved = {}]_vars

(* A container the run stopped is started again whatever other undo failed, *)
(* unless the start itself failed, the run got as far as the rebuild, or    *)
(* somebody else took the container over.                                   *)
StoppedComesBack ==
    run.stopped ~> (ctr.up \/ "start" \in hist.failed \/ hist.touched \/ phase = "recovery")

=============================================================================

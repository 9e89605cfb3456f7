--------------------------- MODULE AdoptTxnProofs ---------------------------
(***************************************************************************)
(* Theorems about AdoptTxn for every set of volumes, every budget of the   *)
(* other actors, every set of steps whose reply may be lost and every      *)
(* number of runs.                                                         *)
(***************************************************************************)
EXTENDS AdoptTxn, TLAPS

(* The places a volume's data can be in are closed under one more write.    *)
LEMMA PlacesType ==
    /\ Absent \in Places /\ Empty \in Places /\ {{0}} \in Places
    /\ \A p \in Places : budget \in Writes => Written(p) \in Places
<1>1. 0 \in Writes
  BY ConstantsAssumption DEF Writes
<1>2. \A c \in SUBSET Writes : {c} \in Places
  BY DEF Places
<1>3. {} \in SUBSET Writes /\ {0} \in SUBSET Writes
  BY <1>1
<1>4. ASSUME NEW p \in Places, budget \in Writes PROVE Written(p) \in Places
  <2>1. CASE p = Absent
    <3>1. Written(p) = {}
      BY <2>1 DEF Written, Absent
    <3>2. QED
      BY <3>1 DEF Places, Absent
  <2>2. CASE p # Absent
    <3>1. PICK c \in SUBSET Writes : p = {c}
      BY <2>2 DEF Places
    <3>2. Written(p) = {c \cup {budget}}
      BY <3>1 DEF Written
    <3>3. c \cup {budget} \in SUBSET Writes
      BY <1>4
    <3>4. QED
      BY <3>2, <3>3, <1>2
  <2>3. QED
    BY <2>1, <2>2
<1>5. QED
  BY <1>2, <1>3, <1>4 DEF Places, Absent, Empty

(* Starting and stopping a container keep it a container.                   *)
LEMMA PowerType ==
    ASSUME NEW c \in Containers
    PROVE  Started(c) \in Containers /\ Stopped(c) \in Containers
<1>1. c.times + 1 \in Nat
  BY DEF Containers
<1>2. ASSUME NEW n \in Nat, NEW up \in BOOLEAN
      PROVE  [c EXCEPT !.up = up, !.times = n] \in Containers
  BY DEF Containers
<1>3. /\ [c EXCEPT !.up = TRUE, !.times = c.times + 1] \in Containers
      /\ [c EXCEPT !.up = FALSE, !.times = c.times + 1] \in Containers
  BY <1>1, <1>2
<1>4. QED
  BY <1>3 DEF Started, Stopped

(* The empty host has no volume data anywhere.                              *)
LEMMA AllAbsentType == AllAbsent \in [Vols -> Places]
BY PlacesType DEF AllAbsent

(* Each run starts from a fresh ApplyState.                                 *)
LEMMA FreshRunType ==
    ASSUME NEW s \in SUBSET Nat
    PROVE  FreshRun(s) \in Runs
<1>1. [v \in Vols |-> 0] \in [Vols -> Nat]
  OBVIOUS
<1>2. QED
  BY <1>1, AllAbsentType, PlacesType DEF FreshRun, Runs

(* Every action of another actor uses up one of the budget.                 *)
LEMMA BudgetType ==
    ASSUME budget \in 0 .. EnvBudget, budget > 0
    PROVE  budget - 1 \in 0 .. EnvBudget
BY ConstantsAssumption

(* Noting the outcome of an undo keeps the history's type.                  *)
LEMMA UndoneType ==
    ASSUME hist \in Histories, NEW w \in Undos, NEW ok \in BOOLEAN
    PROVE  Undone(w, ok) \in Histories
BY DEF Undone, Histories

(* Noting that somebody acted keeps the history's type.                     *)
LEMMA TouchType ==
    ASSUME hist \in Histories, Touch
    PROVE  hist' \in Histories
BY DEF Touch, Histories

(* Every step of the system keeps every variable in its type.               *)
LEMMA TypeInductive == TypeOK /\ [Next]_vars => TypeOK'
<1> SUFFICES ASSUME TypeOK, [Next]_vars PROVE TypeOK'
  OBVIOUS
<1> USE DEF TypeOK, Steps, Rollback, Ended, host, Go, FailPhase
<1>1. CASE PlanRun
  <2>1. plan' \in Plans
    <3>1. Movable \subseteq Vols /\ ctr.up \in BOOLEAN
      BY DEF Movable, Containers
    <3>2. \A m \in SUBSET Vols, w, up \in BOOLEAN :
            [moved |-> m, reuse |-> {v \in m : ~Migrate /\ dst[v] # Absent}, wasUp |-> up,
             inAuto |-> autostart, want |-> w, tmpl |-> tmpl] \in Plans
      BY DEF Plans
    <3>3. QED
      BY <1>1, <3>1, <3>2 DEF PlanRun, Snapshot
  <2>2. run' \in Runs
    <3>1. (IF ctr.up THEN Absent ELSE {ctr.times}) \in SUBSET Nat
      BY DEF Containers, Absent
    <3>2. QED
      BY <1>1, <3>1, FreshRunType DEF PlanRun, Snapshot
  <2>3. stage' \in [Vols -> Places]
    BY <1>1, PlacesType DEF PlanRun, Snapshot, AllAbsent
  <2>4. hist' \in Histories
    <3>1. hist.runs + 1 \in Nat
      BY DEF Histories
    <3>2. ASSUME NEW n \in Nat
          PROVE  [hist EXCEPT !.runs = n, !.touched = FALSE, !.failed = {}, !.ran = {},
                              !.sealed = AllAbsent, !.found = dst, !.raced = {}]
                   \in Histories
      BY AllAbsentType DEF Histories
    <3>3. QED
      BY <1>1, <3>1, <3>2 DEF PlanRun, Snapshot
  <2>5. QED
    BY <1>1, <2>1, <2>2, <2>3, <2>4 DEF PlanRun, Snapshot, Movable
<1>2. CASE Probe
  BY <1>2 DEF Probe, AfterProbe
<1>3. CASE Stop
  <2>1. ctr' \in Containers
    BY <1>3, PowerType DEF Stop
  <2>2. run' \in Runs
    BY <1>3 DEF Stop, Runs
  <2>3. QED
    BY <1>3, <2>1, <2>2 DEF Stop
<1>4. CASE StopRecord
  <2>1. run' \in Runs
    BY <1>4 DEF StopRecord, Runs, Containers
  <2>2. QED
    BY <1>4, <2>1 DEF StopRecord
<1>5. CASE PickVolume
  <2>1. todo' \subseteq Vols
    BY <1>5 DEF PickVolume, Plans
  <2>2. QED
    BY <1>5, <2>1 DEF PickVolume
<1>6. CASE CreateVolume
  <2>1. dst' \in [Vols -> Places]
    BY <1>6, PlacesType DEF CreateVolume
  <2>2. birth' \in [Vols -> Nat]
    BY <1>6 DEF CreateVolume
  <2>3. run' \in Runs
    <3>1. ASSUME NEW n \in Nat
          PROVE  [run EXCEPT !.created = @ \cup {cur}, !.births[cur] = n] \in Runs
      BY DEF Runs
    <3>2. birth'[cur] \in Nat
      BY <2>2
    <3>3. QED
      BY <1>6, <3>1, <3>2 DEF CreateVolume
  <2>4. QED
    BY <1>6, <2>1, <2>2, <2>3 DEF CreateVolume
<1>7. CASE BeginCopy
  <2>1. run' \in Runs
    BY <1>7 DEF BeginCopy, Runs
  <2>2. stage' \in [Vols -> Places]
    BY <1>7, PlacesType DEF BeginCopy
  <2>3. QED
    BY <1>7, <2>1, <2>2 DEF BeginCopy
<1>8. CASE CopyData
  BY <1>8 DEF CopyData
<1>9. CASE VerifyCopy
  <2>1. run' \in Runs
    <3>1. run.base \in Places /\ run.copies \subseteq Vols
      BY DEF Runs
    <3>2. ASSUME NEW p \in Places, NEW c \in SUBSET Vols
          PROVE  [run EXCEPT !.manifests[cur] = p, !.copies = c] \in Runs
      BY DEF Runs
    <3>3. [run EXCEPT !.manifests[cur] = run.base,
                      !.copies = IF Migrate THEN run.copies \cup {cur} ELSE run.copies]
            \in Runs
      BY <3>1, <3>2
    <3>4. QED
      BY <1>9, <3>3 DEF VerifyCopy
  <2>2. stage' \in [Vols -> Places] /\ dst' \in [Vols -> Places]
    BY <1>9, PlacesType DEF VerifyCopy
  <2>3. hist' \in Histories
    BY <1>9, UndoneType DEF VerifyCopy, Undos
  <2>4. QED
    BY <1>9, <2>1, <2>2, <2>3 DEF VerifyCopy
<1>10. CASE SaveInspect
  BY <1>10 DEF SaveInspect
<1>11. CASE WriteTemplate
  <2>1. run' \in Runs
    BY <1>11 DEF WriteTemplate, Runs
  <2>2. QED
    BY <1>11, <2>1 DEF WriteTemplate, AfterWrite, ToRebuild
<1>12. CASE SetAutostartBefore
  <2>1. run' \in Runs
    BY <1>12 DEF SetAutostartBefore, Runs
  <2>2. autostart' \in BOOLEAN
    BY <1>12 DEF SetAutostartBefore, Plans
  <2>3. QED
    BY <1>12, <2>1, <2>2 DEF SetAutostartBefore, ToRebuild
<1>13. CASE ExposeCopy
  <2>1. run' \in Runs
    BY <1>13 DEF ExposeCopy, Runs
  <2>2. stage' \in [Vols -> Places] /\ dst' \in [Vols -> Places]
    BY <1>13, PlacesType DEF ExposeCopy
  <2>3. QED
    BY <1>13, <2>1, <2>2 DEF ExposeCopy
<1>14. CASE EnsureStopped
  <2>1. hist' \in Histories
    BY <1>14 DEF EnsureStopped, Histories
  <2>2. QED
    BY <1>14, <2>1 DEF EnsureStopped
<1>15. CASE Rebuild
  <2>1. run' \in Runs
    BY <1>15 DEF Rebuild, Runs
  <2>2. Recreated \in Containers
    <3>1. /\ ctr.times + 1 \in Nat
          /\ [v \in Vols |-> IF tmpl = "orca" /\ v \in plan.moved THEN "dst" ELSE ctr.at[v]]
               \in [Vols -> {"src", "dst"}]
      BY DEF Containers
    <3>2. ASSUME NEW n \in Nat, NEW at \in [Vols -> {"src", "dst"}]
          PROVE  [ctr EXCEPT !.gen = "managed", !.up = autostart, !.times = n, !.at = at]
                   \in Containers
      BY DEF Containers
    <3>3. QED
      BY <3>1, <3>2 DEF Recreated
  <2>3. ctr' \in Containers
    BY <1>15, <2>2 DEF Rebuild, Containers
  <2>4. dst' \in [Vols -> Places]
    BY <1>15, PlacesType DEF Rebuild
  <2>5. QED
    BY <1>15, <2>1, <2>2, <2>3, <2>4 DEF Rebuild, AfterRebuild
<1>16. CASE SetAutostartAfter
  <2>1. autostart' \in BOOLEAN
    BY <1>16 DEF SetAutostartAfter, Plans
  <2>2. QED
    BY <1>16, <2>1 DEF SetAutostartAfter
<1>17. CASE EnsureState
  <2>1. ctr' \in Containers
    BY <1>17, PowerType DEF EnsureState
  <2>2. QED
    BY <1>17, <2>1 DEF EnsureState
<1>18. CASE VerifyManaged
  BY <1>18 DEF VerifyManaged
<1>19. CASE Icons
  <2>1. todo' \subseteq Vols
    BY <1>19 DEF Icons, Plans
  <2>2. QED
    BY <1>19, <2>1 DEF Icons, AfterIcons
<1>20. CASE CheckVolume
  BY <1>20 DEF CheckVolume
<1>21. CASE RemoveVolume
  <2>1. src' \in [Vols -> Places]
    BY <1>21, PlacesType DEF RemoveVolume
  <2>2. QED
    BY <1>21, <2>1 DEF RemoveVolume
<1>22. CASE RestoreTemplate
  <2>1. hist' \in Histories
    BY <1>22, UndoneType DEF RestoreTemplate, Undos
  <2>2. QED
    BY <1>22, <2>1 DEF RestoreTemplate, Restored, Restorable
<1>23. CASE RestoreAutostart
  <2>1. hist' \in Histories
    BY <1>23, UndoneType DEF RestoreAutostart, Undos
  <2>2. autostart' \in BOOLEAN
    BY <1>23 DEF RestoreAutostart, Plans
  <2>3. todo' \subseteq Vols
    BY <1>23 DEF RestoreAutostart, Runs
  <2>4. QED
    BY <1>23, <2>1, <2>2, <2>3 DEF RestoreAutostart
<1>24. CASE RemoveCopies
  <2>1. hist' \in Histories
    BY <1>24, UndoneType DEF RemoveCopies, Undos
  <2>2. stage' \in [Vols -> Places]
    BY <1>24, PlacesType DEF RemoveCopies
  <2>3. todo' \subseteq Vols
    BY <1>24 DEF RemoveCopies, Runs
  <2>4. QED
    BY <1>24, <2>1, <2>2, <2>3 DEF RemoveCopies
<1>25. CASE CheckCreated
  <2>1. hist' \in Histories
    BY <1>25, UndoneType DEF CheckCreated, Undos
  <2>2. QED
    BY <1>25, <2>1 DEF CheckCreated
<1>26. CASE RemoveCreated
  <2>1. hist' \in Histories
    BY <1>26, UndoneType DEF RemoveCreated, Undos
  <2>2. dst' \in [Vols -> Places]
    BY <1>26, PlacesType DEF RemoveCreated
  <2>3. QED
    BY <1>26, <2>1, <2>2 DEF RemoveCreated
<1>27. CASE Restart
  <2>1. hist' \in Histories
    BY <1>27, UndoneType DEF Restart, Undos
  <2>2. ctr' \in Containers
    BY <1>27, PowerType DEF Restart
  <2>3. QED
    BY <1>27, <2>1, <2>2 DEF Restart
<1>28. CASE Crash
  BY <1>28, BudgetType DEF Crash
<1>29. CASE UserPower
  <2>1. ctr' \in Containers
    BY <1>29, PowerType DEF UserPower
  <2>2. Copied \subseteq Vols
    BY <1>29 DEF Copied
  <2>3. hist' \in Histories
    BY <1>29, <2>2 DEF UserPower, Histories
  <2>4. QED
    BY <1>29, <2>1, <2>2, <2>3, BudgetType DEF UserPower, Acts
<1>30. CASE UserAutostart
  <2>1. hist' \in Histories
    BY <1>30, TouchType DEF UserAutostart
  <2>2. QED
    BY <1>30, <2>1, BudgetType DEF UserAutostart, Acts
<1>31. CASE UserTemplate
  <2>1. hist' \in Histories
    BY <1>31, TouchType DEF UserTemplate
  <2>2. QED
    BY <1>31, <2>1, BudgetType DEF UserTemplate, Acts
<1>32. ASSUME NEW v \in Vols, ContainerWrites(v) PROVE TypeOK'
  <2>1. budget \in Writes
    BY <1>32 DEF Writes
  <2>2. src' \in [Vols -> Places] /\ dst' \in [Vols -> Places]
    BY <1>32, <2>1, PlacesType DEF ContainerWrites
  <2>3. hist' \in Histories
    BY <1>32, <2>1 DEF ContainerWrites, Histories
  <2>4. QED
    BY <1>32, <2>1, <2>2, <2>3, BudgetType DEF ContainerWrites, Acts
<1>33. ASSUME NEW v \in Vols, OtherMounts(v) PROVE TypeOK'
  BY <1>33, BudgetType DEF OtherMounts, Acts
<1>34. ASSUME NEW v \in Vols, OtherWrites(v) PROVE TypeOK'
  <2>1. budget \in Writes
    BY <1>34 DEF Writes
  <2>2. src' \in [Vols -> Places]
    BY <1>34, <2>1, PlacesType DEF OtherWrites
  <2>3. QED
    BY <1>34, <2>1, <2>2, BudgetType DEF OtherWrites, Acts
<1>35. ASSUME NEW v \in Vols, Prune(v) PROVE TypeOK'
  <2>1. dst' \in [Vols -> Places]
    BY <1>35, PlacesType DEF Prune
  <2>2. hist' \in Histories
    BY <1>35 DEF Prune, Histories
  <2>3. QED
    BY <1>35, <2>1, <2>2, BudgetType DEF Prune, Acts
<1>36. ASSUME NEW v \in Vols, Recreate(v) PROVE TypeOK'
  <2>1. dst' \in [Vols -> Places]
    BY <1>36, PlacesType DEF Recreate
  <2>2. birth' \in [Vols -> Nat]
    BY <1>36 DEF Recreate
  <2>3. hist' \in Histories
    BY <1>36 DEF Recreate, Histories
  <2>4. QED
    BY <1>36, <2>1, <2>2, <2>3, BudgetType DEF Recreate, Acts
<1>37. CASE UNCHANGED vars
  BY <1>37 DEF vars
<1>38. QED
  BY <1>1, <1>2, <1>3, <1>4, <1>5, <1>6, <1>7, <1>8, <1>9, <1>10,
     <1>11, <1>12, <1>13, <1>14, <1>15, <1>16, <1>17, <1>18, <1>19, <1>20,
     <1>21, <1>22, <1>23, <1>24, <1>25, <1>26, <1>27, <1>28, <1>29, <1>30,
     <1>31, <1>32, <1>33, <1>34, <1>35, <1>36, <1>37
  DEF Next, Apply, RollBack, Environment

(* The host as the plugin first finds it is in its types.                   *)
LEMMA InitType == Init => TypeOK
<1> SUFFICES ASSUME Init PROVE TypeOK
  OBVIOUS
<1>1. ctr \in Containers
  BY DEF Init, Containers
<1>2. src \in [Vols -> Places] /\ dst \in [Vols -> Places] /\ stage \in [Vols -> Places]
  BY PlacesType, AllAbsentType DEF Init
<1>3. plan \in Plans
  BY DEF Init, Plans, NoPlan
<1>4. run \in Runs
  BY FreshRunType DEF Init, Absent
<1>5. hist \in Histories
  <2>1. [v \in Vols |-> {0}] \in [Vols -> SUBSET Writes]
    BY ConstantsAssumption DEF Writes
  <2>2. QED
    BY <2>1, AllAbsentType DEF Init, Histories
<1>6. budget \in 0 .. EnvBudget
  BY ConstantsAssumption DEF Init
<1>7. QED
  BY <1>1, <1>2, <1>3, <1>4, <1>5, <1>6 DEF Init, TypeOK

(* Type correctness of the whole system (mod.rs apply and its rollback,     *)
(* with everybody else on the host acting between any two of their steps).  *)
THEOREM TypeCorrect == Spec => []TypeOK
BY InitType, TypeInductive, PTL DEF Spec

-----------------------------------------------------------------------------
(* No write is lost.                                                        *)

(* What a place holds, and what one more write adds to it.                  *)
LEMMA ContentsOf ==
    /\ Contents(Absent) = {} /\ Contents(Empty) = {} /\ Written(Absent) = Absent
    /\ \A p \in Places : p # Absent => /\ Contents(Written(p)) = Contents(p) \cup {budget}
                                       /\ Written(p) # Absent
<1>1. Contents(Absent) = {} /\ Contents(Empty) = {}
  BY DEF Contents, Absent, Empty
<1>2. ASSUME NEW p \in Places, p # Absent
      PROVE  Contents(Written(p)) = Contents(p) \cup {budget} /\ Written(p) # Absent
  <2>1. PICK c \in SUBSET Writes : p = {c}
    BY <1>2 DEF Places
  <2>2. Written(p) = {c \cup {budget}}
    BY <2>1 DEF Written
  <2>3. UNION {c} = c /\ UNION {c \cup {budget}} = c \cup {budget}
    OBVIOUS
  <2>4. Contents(p) = c /\ Contents(Written(p)) = c \cup {budget}
    BY <2>1, <2>2, <2>3 DEF Contents
  <2>5. Written(p) # Absent
    BY <2>2, c \cup {budget} \in {c \cup {budget}} DEF Absent
  <2>6. QED
    BY <2>4, <2>5
<1>3. Written(Absent) = Absent
  BY DEF Written, Absent
<1>4. QED
  BY <1>1, <1>2, <1>3

(* Starting and stopping a container changes neither its mounts nor what it *)
(* is.                                                                      *)
LEMMA PowerKeeps ==
    ASSUME NEW c \in Containers
    PROVE  /\ Started(c).at = c.at /\ Started(c).gen = c.gen
           /\ Stopped(c).at = c.at /\ Stopped(c).gen = c.gen /\ ~Stopped(c).up
BY DEF Started, Stopped, Containers

(* The step moves no data but to where the run moves volumes to: what the   *)
(* container mounts there only grows.                                       *)
DataStays ==
    /\ src' = src /\ ctr'.at = ctr.at
    /\ hist'.written = hist.written /\ hist'.pruned = hist.pruned
    /\ \A v \in Vols : \/ ctr.at[v] = "src"
                       \/ /\ Contents(dst[v]) \subseteq Contents(dst'[v])
                          /\ dst[v] # Absent => dst'[v] # Absent

(* Neither the copies nor what the run knows of them change.                *)
CopiesKept == stage' = stage /\ plan' = plan /\ run'.manifests = run.manifests

(* Such a step loses no write.                                              *)
LEMMA DataStaysKept ==
    ASSUME WritesKeptInv, DataStays
    PROVE  WritesKept' /\ SourceHolds' /\ TargetThere'
BY DEF WritesKeptInv, DataStays, WritesKept, SourceHolds, TargetThere

(* A step of somebody else, who may write or prune but not shrink a copy.   *)
LEMMA OthersStep ==
    ASSUME WritesKeptInv, TypeOK', WritesKept', SourceHolds', TargetThere',
           ContainerExists', RemovedIsCopied',
           CopiesKept, UNCHANGED <<phase, cur, todo>>, ctr'.at = ctr.at,
           hist.pruned \subseteq hist'.pruned,
           \A v \in Vols \ hist'.pruned : Contents(dst[v]) \subseteq Contents(dst'[v])
    PROVE  WritesKeptInv'
<1>1. MovedAtSource' /\ OneCopyEach' /\ CopiesOfMoved'
  BY DEF WritesKeptInv, CopiesKept, MovedAtSource, OneCopyEach, CopiesOfMoved
<1>2. \A v \in Vols : Copy(v)' = Copy(v)
  BY DEF CopiesKept, Copy
<1>3. CopyHolds'
  BY <1>2 DEF WritesKeptInv, CopiesKept, CopyHolds
<1>4. CopiesExposed'
  BY <1>2 DEF WritesKeptInv, CopiesKept, CopiesExposed, TypeOK, Plans
<1>5. RebuiltHolds'
  BY <1>2 DEF WritesKeptInv, RebuiltHolds
<1>6. QED
  BY <1>1, <1>3, <1>4, <1>5 DEF WritesKeptInv

(* A step to the rollback or to the end.                                    *)
LEMMA Leaves ==
    ASSUME TypeOK', WritesKept', SourceHolds', TargetThere', ContainerExists',
           phase' \in Rollback \cup Ended, ~Migrate => stage' = AllAbsent
    PROVE  WritesKeptInv'
BY DEF WritesKeptInv, MovedAtSource, OneCopyEach, CopiesOfMoved, CopyHolds, CopiesExposed,
       RebuiltHolds, RemovedIsCopied, BeforeRebuild, Picking, CopyingOne, Steps, Rollback,
       Ended

(* A step of the run that touches no volume and no copy, and does not cross *)
(* the rebuild.                                                             *)
NoDataMoved ==
    /\ UNCHANGED <<src, dst>> /\ ctr'.at = ctr.at
    /\ hist'.written = hist.written /\ hist'.pruned = hist.pruned
    /\ CopiesKept

SameSide ==
    /\ phase \in Steps \cup Rollback
    /\ \/ phase' \in Rollback \cup Ended
       \/ phase \in BeforeRebuild /\ phase' \in BeforeRebuild
       \/ phase \in Steps \ BeforeRebuild /\ phase' \in Steps \ BeforeRebuild

(* Only what the invariant says of the step in progress is left to show.    *)
LEMMA MovesOn ==
    ASSUME WritesKeptInv, TypeOK', NoDataMoved, SameSide, ContainerExists',
           OneCopyEach', CopiesExposed', RemovedIsCopied'
    PROVE  WritesKeptInv'
<1>1. WritesKept' /\ SourceHolds' /\ TargetThere'
  <2>1. DataStays
    BY DEF NoDataMoved, DataStays
  <2>2. QED
    BY <2>1, DataStaysKept
<1>2. ~Migrate => stage' = AllAbsent
  BY DEF WritesKeptInv, CopyHolds, NoDataMoved, CopiesKept
<1>3. CASE phase' \in Rollback \cup Ended
  BY <1>1, <1>2, <1>3, Leaves
<1>4. CASE \/ phase \in BeforeRebuild /\ phase' \in BeforeRebuild
           \/ phase \in Steps \ BeforeRebuild /\ phase' \in Steps \ BeforeRebuild
  <2>1. MovedAtSource' /\ CopiesOfMoved' /\ CopyHolds' /\ RebuiltHolds'
    BY <1>4 DEF WritesKeptInv, NoDataMoved, CopiesKept, MovedAtSource, CopiesOfMoved,
                CopyHolds, RebuiltHolds, Copy
  <2>2. QED
    BY <1>1, <2>1 DEF WritesKeptInv
<1>5. QED
  BY <1>3, <1>4 DEF SameSide

(* Leaving the steps before the exposure, every copy is staged or in place. *)
LEMMA ToRebuildHolds ==
    ASSUME WritesKeptInv, phase \in {"write", "auto1"},
           UNCHANGED <<dst, todo>>, CopiesKept, hist'.pruned = hist.pruned,
           phase' = ToRebuild
    PROVE  CopiesExposed'
<1> USE DEF WritesKeptInv, CopiesKept
<1>1. CASE plan.moved = {}
  <2>1. \A v \in Vols : Copy(v)' = {}
    BY <1>1, ContentsOf DEF CopiesOfMoved, BeforeRebuild, Copy
  <2>2. QED
    BY <1>1, <2>1 DEF CopiesExposed, ToRebuild
<1>2. CASE plan.moved # {} /\ Migrate
  BY <1>2 DEF CopiesExposed, ToRebuild
<1>3. CASE plan.moved # {} /\ ~Migrate
  <2>1. \A v \in Vols \ hist.pruned : Copy(v) \subseteq Contents(dst[v])
    BY <1>3, ContentsOf DEF CopyHolds, BeforeRebuild, AllAbsent
  <2>2. QED
    BY <1>3, <2>1 DEF CopiesExposed, ToRebuild, Copy
<1>4. QED
  BY <1>1, <1>2, <1>3 DEF TypeOK

(* The invariant behind WritesKept is inductive: one step per action.       *)
LEMMA WritesKeptInductive == WritesKeptInv /\ [Next]_vars => WritesKeptInv'
<1> SUFFICES ASSUME WritesKeptInv, [Next]_vars PROVE WritesKeptInv'
  OBVIOUS
<1>0. TypeOK'
  BY TypeInductive DEF WritesKeptInv
<1> USE DEF host, Go, FailPhase, Steps, Rollback, Ended, BeforeRebuild
<1>1. CASE PlanRun
  <2>1. DataStays /\ ContainerExists'
    BY <1>1 DEF PlanRun, Snapshot, DataStays, WritesKeptInv, ContainerExists
  <2>2. WritesKept' /\ SourceHolds' /\ TargetThere'
    BY <2>1, DataStaysKept
  <2>3. run'.manifests = AllAbsent /\ stage' = AllAbsent /\ phase' = "probe"
    BY <1>1 DEF PlanRun, Snapshot, FreshRun
  <2>4. plan'.moved = Movable /\ todo' = Movable /\ ctr' = ctr
    BY <1>1 DEF PlanRun, Snapshot
  <2>5. MovedAtSource' /\ CopiesExposed' /\ RebuiltHolds' /\ RemovedIsCopied'
    BY <2>3, <2>4 DEF MovedAtSource, Movable, CopiesExposed, RebuiltHolds, RemovedIsCopied
  <2>6. OneCopyEach' /\ CopiesOfMoved'
    BY <2>3, <2>4 DEF OneCopyEach, CopiesOfMoved, CopyingOne, Movable, AllAbsent
  <2>7. \A v \in Vols : Copy(v)' = {}
    BY <2>3, ContentsOf DEF Copy, AllAbsent
  <2>8. CopyHolds'
    BY <2>3, <2>7 DEF CopyHolds
  <2>9. QED
    BY <1>0, <2>1, <2>2, <2>5, <2>6, <2>8 DEF WritesKeptInv
<1>2. CASE Probe
  <2>1. CopiesKept /\ ContainerExists'
    BY <1>2 DEF Probe, CopiesKept, WritesKeptInv, ContainerExists
  <2>2. OneCopyEach' /\ RemovedIsCopied'
    BY <1>2 DEF Probe, AfterProbe, WritesKeptInv, OneCopyEach, Picking, CopyingOne,
                RemovedIsCopied
  <2>3. CopiesExposed'
    BY <1>2 DEF Probe, AfterProbe, WritesKeptInv, OneCopyEach, Picking, CopiesExposed
  <2>4. NoDataMoved /\ SameSide
    BY <1>2, <2>1 DEF Probe, AfterProbe, NoDataMoved, SameSide
  <2>5. QED
    BY <1>0, <2>1, <2>2, <2>3, <2>4, MovesOn
<1>3. CASE Stop
  <2>1. ctr'.at = ctr.at /\ ctr'.gen = ctr.gen
    BY <1>3, PowerKeeps DEF Stop, WritesKeptInv, TypeOK
  <2>2. CopiesKept /\ ContainerExists'
    BY <1>3, <2>1 DEF Stop, CopiesKept, WritesKeptInv, ContainerExists, TypeOK, Runs
  <2>3. OneCopyEach' /\ RemovedIsCopied' /\ CopiesExposed'
    BY <1>3, <2>2 DEF Stop, WritesKeptInv, CopiesKept, OneCopyEach, Picking, CopyingOne,
                      RemovedIsCopied, CopiesExposed
  <2>4. NoDataMoved /\ SameSide
    BY <1>3, <2>1, <2>2 DEF Stop, NoDataMoved, SameSide
  <2>5. QED
    BY <1>0, <2>2, <2>3, <2>4, MovesOn
<1>4. CASE StopRecord
  <2>1. CopiesKept /\ ContainerExists'
    BY <1>4 DEF StopRecord, CopiesKept, WritesKeptInv, ContainerExists, TypeOK, Runs
  <2>2. OneCopyEach' /\ RemovedIsCopied' /\ CopiesExposed'
    BY <1>4, <2>1 DEF StopRecord, WritesKeptInv, CopiesKept, OneCopyEach, Picking,
                      CopyingOne, RemovedIsCopied, CopiesExposed
  <2>3. NoDataMoved /\ SameSide
    BY <1>4, <2>1 DEF StopRecord, NoDataMoved, SameSide
  <2>4. QED
    BY <1>0, <2>1, <2>2, <2>3, MovesOn
<1>5. CASE PickVolume
  <2>1. CopiesKept /\ ContainerExists'
    BY <1>5 DEF PickVolume, CopiesKept, WritesKeptInv, ContainerExists
  <2>2. OneCopyEach' /\ RemovedIsCopied' /\ CopiesExposed'
    BY <1>5 DEF PickVolume, WritesKeptInv, OneCopyEach, Picking, CopyingOne,
                RemovedIsCopied, CopiesExposed
  <2>3. NoDataMoved /\ SameSide
    BY <1>5, <2>1 DEF PickVolume, NoDataMoved, SameSide
  <2>4. QED
    BY <1>0, <2>1, <2>2, <2>3, MovesOn
<1>6. CASE CreateVolume
  <2>1. /\ \A v \in Vols : Contents(dst'[v]) = Contents(dst[v])
        /\ \A v \in Vols : dst[v] # Absent => dst'[v] # Absent
    BY <1>6, ContentsOf DEF CreateVolume, WritesKeptInv, TypeOK
  <2>2. CopiesKept
    BY <1>6 DEF CreateVolume, CopiesKept, WritesKeptInv, TypeOK, Runs
  <2>3. DataStays /\ ContainerExists'
    BY <1>6, <2>1 DEF CreateVolume, DataStays, WritesKeptInv, ContainerExists
  <2>4. WritesKept' /\ SourceHolds' /\ TargetThere'
    BY <2>3, DataStaysKept
  <2>5. CASE phase' = "copying"
    <3>1. OneCopyEach' /\ RemovedIsCopied' /\ CopiesExposed' /\ RebuiltHolds'
      BY <1>6, <2>2, <2>5 DEF CreateVolume, CopiesKept, WritesKeptInv, OneCopyEach, Picking,
           CopyingOne, RemovedIsCopied, CopiesExposed, RebuiltHolds
    <3>2. MovedAtSource' /\ CopiesOfMoved' /\ CopyHolds'
      BY <1>6, <2>1, <2>2, <2>5 DEF CreateVolume, CopiesKept, WritesKeptInv,
           MovedAtSource, CopiesOfMoved, CopyHolds, Copy
    <3>3. QED
      BY <1>0, <2>3, <2>4, <3>1, <3>2 DEF WritesKeptInv
  <2>6. CASE phase' = "rb_template"
    BY <1>0, <1>6, <2>2, <2>3, <2>4, <2>6, Leaves
    DEF CopiesKept, WritesKeptInv, CopyHolds
  <2>7. QED
    BY <1>6, <2>5, <2>6 DEF CreateVolume
<1>7. CASE BeginCopy
  <2>1. DataStays /\ ContainerExists'
    BY <1>7 DEF BeginCopy, DataStays, WritesKeptInv, ContainerExists
  <2>2. WritesKept' /\ SourceHolds' /\ TargetThere'
    BY <2>1, DataStaysKept
  <2>3. run'.manifests = run.manifests /\ plan' = plan /\ ~Migrate => stage' = AllAbsent
    BY <1>7 DEF BeginCopy, WritesKeptInv, CopyHolds, TypeOK, Runs
  <2>4. CASE phase' = "created"
    <3>1. run'.manifests = run.manifests
      BY <1>7 DEF BeginCopy, WritesKeptInv, TypeOK, Runs
    <3>2. OneCopyEach' /\ RemovedIsCopied' /\ CopiesExposed' /\ RebuiltHolds'
      BY <1>7, <2>4, <3>1 DEF BeginCopy, WritesKeptInv, OneCopyEach, Picking,
           CopyingOne, RemovedIsCopied, CopiesExposed, RebuiltHolds
    <3>3. MovedAtSource' /\ CopiesOfMoved'
      BY <1>7, <2>4, <3>1 DEF BeginCopy, WritesKeptInv, MovedAtSource, CopiesOfMoved
    <3>4. Copy(cur)' = {} /\ \A v \in Vols : Copy(v)' = Copy(v)
      BY <1>7, <3>1, ContentsOf DEF BeginCopy, WritesKeptInv, OneCopyEach, CopyingOne, Copy
    <3>5. \A v \in Vols \ {cur} : stage'[v] = stage[v]
      BY <1>7 DEF BeginCopy, WritesKeptInv, TypeOK
    <3>6. CopyHolds'
      BY <1>7, <2>4, <3>4, <3>5 DEF BeginCopy, WritesKeptInv, CopyHolds
    <3>7. QED
      BY <1>0, <2>1, <2>2, <3>2, <3>3, <3>6 DEF WritesKeptInv
  <2>5. CASE phase' = "rb_template"
    BY <1>0, <1>7, <2>1, <2>2, <2>5, Leaves DEF BeginCopy, WritesKeptInv, CopyHolds
  <2>6. QED
    BY <1>7, <2>4, <2>5 DEF BeginCopy
<1>8. CASE CopyData
  <2>1. cur \in plan.moved /\ ctr.at[cur] = "src" /\ Copy(cur) = {}
    BY <1>8, ContentsOf DEF CopyData, WritesKeptInv, OneCopyEach, CopyingOne, MovedAtSource,
                            Copy
  <2>2. \A v \in Vols \ {cur} : dst'[v] = dst[v] /\ stage'[v] = stage[v]
    BY <1>8 DEF CopyData, WritesKeptInv, TypeOK
  <2>3. DataStays /\ ContainerExists'
    BY <1>8, <2>1, <2>2 DEF CopyData, DataStays, WritesKeptInv, ContainerExists
  <2>4. WritesKept' /\ SourceHolds' /\ TargetThere'
    BY <2>3, DataStaysKept
  <2>5. CopyHolds'
    BY <1>8, <2>1, <2>2 DEF CopyData, WritesKeptInv, CopyHolds, Copy
  <2>6. OneCopyEach' /\ RemovedIsCopied' /\ CopiesExposed' /\ RebuiltHolds'
    BY <1>8 DEF CopyData, WritesKeptInv, OneCopyEach, Picking, CopyingOne, RemovedIsCopied,
                CopiesExposed, RebuiltHolds
  <2>7. MovedAtSource' /\ CopiesOfMoved'
    BY <1>8 DEF CopyData, WritesKeptInv, MovedAtSource, CopiesOfMoved
  <2>8. QED
    BY <1>0, <2>3, <2>4, <2>5, <2>6, <2>7 DEF WritesKeptInv
<1>9. CASE VerifyCopy
  <2>1. cur \in plan.moved /\ cur \notin todo /\ ctr.at[cur] = "src"
    BY <1>9 DEF VerifyCopy, WritesKeptInv, OneCopyEach, CopyingOne, MovedAtSource
  <2>2. \A v \in Vols \ {cur} : dst'[v] = dst[v]
    BY <1>9 DEF VerifyCopy, WritesKeptInv, TypeOK
  <2>3. hist'.written = hist.written /\ hist'.pruned = hist.pruned
    BY <1>9 DEF VerifyCopy, Undone, WritesKeptInv, TypeOK, Histories
  <2>4. DataStays /\ ContainerExists'
    BY <1>9, <2>1, <2>2, <2>3 DEF VerifyCopy, DataStays, WritesKeptInv, ContainerExists
  <2>5. WritesKept' /\ SourceHolds' /\ TargetThere'
    BY <2>4, DataStaysKept
  <2>6. CASE phase' = "copy"
    <3>1. /\ CopyOf(cur) = run.base /\ dst' = dst /\ stage' = stage
          /\ run'.manifests = [run.manifests EXCEPT ![cur] = run.base]
      BY <1>9, <2>6 DEF VerifyCopy, WritesKeptInv, TypeOK, Runs
    <3>2. \A v \in Vols \ {cur} : run'.manifests[v] = run.manifests[v]
      BY <3>1 DEF WritesKeptInv, TypeOK, Runs
    <3>3. Copy(cur)' = Contents(CopyOf(cur)) /\ cur' = cur
      BY <1>9, <3>1 DEF VerifyCopy, Copy, WritesKeptInv, TypeOK, Runs
    <3>4. CopyHolds'
      BY <1>9, <2>3, <3>1, <3>2, <3>3 DEF VerifyCopy, WritesKeptInv, CopyHolds, Copy, CopyOf
    <3>5. OneCopyEach' /\ CopiesOfMoved'
      <4>1. plan' = plan /\ todo' = todo /\ phase = "verifying"
        BY <1>9 DEF VerifyCopy
      <4>2. todo \subseteq plan.moved /\ \A v \in todo : run.manifests[v] = Absent
        BY <4>1 DEF WritesKeptInv, OneCopyEach, CopyingOne
      <4>3. OneCopyEach'
        BY <2>1, <2>6, <3>2, <4>1, <4>2 DEF OneCopyEach, Picking, CopyingOne,
             WritesKeptInv, TypeOK
      <4>4. CopiesOfMoved'
        BY <2>1, <2>6, <3>2, <4>1 DEF CopiesOfMoved, WritesKeptInv
      <4>5. QED
        BY <4>3, <4>4
    <3>6. MovedAtSource' /\ RemovedIsCopied' /\ CopiesExposed' /\ RebuiltHolds'
      BY <1>9, <2>6 DEF VerifyCopy, WritesKeptInv, MovedAtSource, RemovedIsCopied,
           CopiesExposed, RebuiltHolds
    <3>7. QED
      BY <1>0, <2>4, <2>5, <3>4, <3>5, <3>6 DEF WritesKeptInv
  <2>7. CASE phase' # "copy"
    <3>1. phase' \in Rollback \cup Ended
      BY <1>9, <2>7 DEF VerifyCopy
    <3>2. ~Migrate => stage' = AllAbsent
      BY <1>9 DEF VerifyCopy, WritesKeptInv, CopyHolds, AllAbsent, TypeOK
    <3>3. QED
      BY <1>0, <2>4, <2>5, <3>1, <3>2, Leaves
  <2>8. QED
    BY <2>6, <2>7
<1>10. CASE SaveInspect
  <2>1. CopiesKept /\ ContainerExists'
    BY <1>10 DEF SaveInspect, CopiesKept, WritesKeptInv, ContainerExists
  <2>2. OneCopyEach' /\ RemovedIsCopied' /\ CopiesExposed'
    BY <1>10 DEF SaveInspect, WritesKeptInv, OneCopyEach, Picking, CopyingOne,
                 RemovedIsCopied, CopiesExposed
  <2>3. NoDataMoved /\ SameSide
    BY <1>10, <2>1 DEF SaveInspect, NoDataMoved, SameSide
  <2>4. QED
    BY <1>0, <2>1, <2>2, <2>3, MovesOn
<1>11. CASE WriteTemplate
  <2>1. CopiesKept /\ ContainerExists'
    BY <1>11 DEF WriteTemplate, CopiesKept, WritesKeptInv, ContainerExists, TypeOK, Runs
  <2>2. OneCopyEach' /\ RemovedIsCopied'
    BY <1>11 DEF WriteTemplate, AfterWrite, ToRebuild, OneCopyEach, Picking, CopyingOne,
                 RemovedIsCopied
  <2>3. phase' = ToRebuild => CopiesExposed'
    BY <1>11, <2>1, ToRebuildHolds DEF WriteTemplate
  <2>4. phase' \in {"auto1", "rb_template", "recovery"} => CopiesExposed'
    BY <1>11, <2>1 DEF WriteTemplate, CopiesKept, WritesKeptInv, CopiesExposed
  <2>5. NoDataMoved /\ SameSide
    BY <1>11, <2>1 DEF WriteTemplate, AfterWrite, ToRebuild, NoDataMoved, SameSide
  <2>6. CopiesExposed'
    BY <1>11, <2>3, <2>4 DEF WriteTemplate, AfterWrite
  <2>7. QED
    BY <1>0, <2>1, <2>2, <2>5, <2>6, MovesOn
<1>12. CASE SetAutostartBefore
  <2>1. CopiesKept /\ ContainerExists'
    BY <1>12 DEF SetAutostartBefore, CopiesKept, WritesKeptInv, ContainerExists, TypeOK,
                 Runs
  <2>2. OneCopyEach' /\ RemovedIsCopied'
    BY <1>12 DEF SetAutostartBefore, ToRebuild, OneCopyEach, Picking, CopyingOne,
                 RemovedIsCopied
  <2>3. phase' = ToRebuild => CopiesExposed'
    BY <1>12, <2>1, ToRebuildHolds DEF SetAutostartBefore
  <2>4. phase' \in {"rb_template", "recovery"} => CopiesExposed'
    BY DEF CopiesExposed
  <2>5. NoDataMoved /\ SameSide
    BY <1>12, <2>1 DEF SetAutostartBefore, ToRebuild, NoDataMoved, SameSide
  <2>6. CopiesExposed'
    BY <1>12, <2>3, <2>4 DEF SetAutostartBefore
  <2>7. QED
    BY <1>0, <2>1, <2>2, <2>5, <2>6, MovesOn
<1>13. CASE ExposeCopy
  <2>1. /\ ctr' = ctr /\ src' = src /\ plan' = plan /\ hist' = hist
        /\ run'.manifests = run.manifests
    BY <1>13 DEF ExposeCopy, WritesKeptInv, TypeOK, Runs
  <2>2. \A v \in Vols : Copy(v)' = Copy(v)
    BY <2>1 DEF Copy
  <2>3. CASE todo = {}
    <3>1. phase' = "check" /\ UNCHANGED <<dst, stage, todo, cur>>
      BY <1>13, <2>3 DEF ExposeCopy
    <3>2. \A v \in Vols \ plan.moved : Copy(v) = {}
      BY <1>13, ContentsOf DEF ExposeCopy, WritesKeptInv, CopiesOfMoved, Copy
    <3>3. CopiesExposed'
      BY <1>13, <2>1, <2>2, <2>3, <3>1, <3>2 DEF ExposeCopy, WritesKeptInv, CopiesExposed
    <3>4. OneCopyEach' /\ RemovedIsCopied' /\ ContainerExists'
      BY <1>13, <2>1, <3>1 DEF ExposeCopy, OneCopyEach, Picking, CopyingOne,
           RemovedIsCopied, ContainerExists, WritesKeptInv
    <3>5. NoDataMoved /\ SameSide
      BY <1>13, <2>1, <3>1 DEF ExposeCopy, NoDataMoved, SameSide, CopiesKept
    <3>6. QED
      BY <1>0, <3>3, <3>4, <3>5, MovesOn
  <2>4. CASE todo # {}
    <3>1. PICK v \in todo, r \in Outcomes("expose") :
            /\ todo' = todo \ {v}
            /\ r # "fail" => dst[v] = Absent /\ stage[v] # Absent
            /\ IF r = "fail" THEN UNCHANGED <<dst, stage>>
               ELSE /\ dst' = [dst EXCEPT ![v] = stage[v]]
                    /\ stage' \in {[stage EXCEPT ![v] = Absent], [stage EXCEPT ![v] = Empty]}
            /\ phase' = IF r = "ok" THEN "expose" ELSE "rb_template"
      BY <1>13, <2>4 DEF ExposeCopy
    <3>2. v \in Vols
      BY DEF WritesKeptInv, TypeOK
    <3>3. \A w \in Vols \ {v} : dst'[w] = dst[w] /\ stage'[w] = stage[w]
      BY <3>1, <3>2 DEF WritesKeptInv, TypeOK
    <3>4. r # "fail" => /\ dst'[v] = stage[v] /\ Contents(dst[v]) = {}
                        /\ dst'[v] # Absent
      BY <3>1, <3>2, ContentsOf DEF WritesKeptInv, TypeOK
    <3>5. DataStays /\ ContainerExists'
      BY <1>13, <2>1, <3>1, <3>3, <3>4 DEF DataStays, WritesKeptInv, ContainerExists,
           ExposeCopy
    <3>6. WritesKept' /\ SourceHolds' /\ TargetThere'
      BY <3>5, DataStaysKept
    <3>7. ~Migrate => stage' = AllAbsent
      <4>1. SUFFICES ASSUME ~Migrate PROVE r = "fail"
        BY <3>1 DEF WritesKeptInv, CopyHolds
      <4>2. stage[v] = Absent
        BY <3>2, <4>1 DEF WritesKeptInv, CopyHolds, AllAbsent
      <4>3. QED
        BY <3>1, <4>2
    <3>8. CASE r = "ok"
      <4>1. \A w \in Vols \ hist.pruned : Copy(w) \subseteq Contents(stage[w]) \cup Contents(dst[w])
        BY <1>13 DEF ExposeCopy, WritesKeptInv, CopyHolds
      <4>2. CopyHolds'
        BY <2>1, <2>2, <3>1, <3>3, <3>4, <3>7, <3>8, <4>1 DEF CopyHolds
      <4>3. CopiesExposed'
        BY <1>13, <2>1, <2>2, <3>1, <3>2, <3>3, <3>4, <3>8, <4>1
        DEF ExposeCopy, CopiesExposed, WritesKeptInv, TypeOK, Plans
      <4>4. OneCopyEach' /\ RemovedIsCopied' /\ RebuiltHolds'
        BY <3>1, <3>8 DEF OneCopyEach, Picking, CopyingOne, RemovedIsCopied, RebuiltHolds
      <4>5. MovedAtSource' /\ CopiesOfMoved'
        BY <1>13, <2>1, <3>1, <3>8 DEF ExposeCopy, WritesKeptInv, MovedAtSource, CopiesOfMoved
      <4>6. QED
        BY <1>0, <3>5, <3>6, <4>2, <4>3, <4>4, <4>5 DEF WritesKeptInv
    <3>9. CASE r # "ok"
      BY <1>0, <3>1, <3>5, <3>6, <3>7, <3>9, Leaves
    <3>10. QED
      BY <3>8, <3>9
  <2>5. QED
    BY <2>3, <2>4
<1>14. CASE EnsureStopped
  <2>1. hist'.written = hist.written /\ hist'.pruned = hist.pruned
    BY <1>14 DEF EnsureStopped, WritesKeptInv, TypeOK, Histories
  <2>2. CopiesKept /\ ContainerExists'
    BY <1>14 DEF EnsureStopped, CopiesKept, WritesKeptInv, ContainerExists
  <2>3. OneCopyEach' /\ RemovedIsCopied' /\ CopiesExposed'
    BY <1>14, <2>1 DEF EnsureStopped, WritesKeptInv, OneCopyEach, Picking, CopyingOne,
                       RemovedIsCopied, CopiesExposed, Copy
  <2>4. NoDataMoved /\ SameSide
    BY <1>14, <2>1, <2>2 DEF EnsureStopped, NoDataMoved, SameSide
  <2>5. QED
    BY <1>0, <2>2, <2>3, <2>4, MovesOn
<1>15. CASE Rebuild
  <2>1. /\ phase = "rebuild" /\ src' = src /\ stage' = stage /\ plan' = plan /\ hist' = hist
        /\ run'.manifests = run.manifests
    BY <1>15 DEF Rebuild, WritesKeptInv, TypeOK, Runs
  <2>2. \A v \in Vols : /\ Contents(dst[v]) \subseteq Contents(dst'[v])
                        /\ dst[v] # Absent => dst'[v] # Absent
                        /\ ctr'.at[v] = "dst" => dst'[v] # Absent
    BY <1>15, ContentsOf, {} \in Empty DEF Rebuild, Empty, Absent
  <2>3. /\ phase' \in {"auto2", "state", "recovery"}
        /\ phase' # "recovery" => ctr' = Recreated
    BY <1>15 DEF Rebuild, AfterRebuild
  <2>4. \A v \in Vols : ctr'.at[v] = "src" => ctr.at[v] = "src"
    <3>1. \A v \in Vols : Recreated.at[v] = "src" => ctr.at[v] = "src"
      BY DEF Recreated, WritesKeptInv, TypeOK, Containers
    <3>2. [ctr EXCEPT !.gen = "none", !.up = FALSE].at = ctr.at
      BY DEF WritesKeptInv, TypeOK, Containers
    <3>3. ctr' \in {ctr, Recreated, [ctr EXCEPT !.gen = "none", !.up = FALSE]}
      BY <1>15 DEF Rebuild
    <3>4. QED
      BY <3>1, <3>2, <3>3
  <2>5. WritesKept' /\ SourceHolds'
    BY <2>1, <2>2, <2>4 DEF WritesKeptInv, WritesKept, SourceHolds
  <2>6. TargetThere'
    BY <2>2 DEF TargetThere
  <2>7. ContainerExists'
    <3>1. ctr.gen # "none" /\ Recreated.gen = "managed"
      BY <2>1 DEF WritesKeptInv, ContainerExists, Recreated, TypeOK, Containers
    <3>2. CASE ctr' \in {ctr, Recreated}
      BY <3>1, <3>2 DEF ContainerExists
    <3>3. CASE ctr' = [ctr EXCEPT !.gen = "none", !.up = FALSE]
      <4>1. ~ctr'.up
        BY <3>3 DEF WritesKeptInv, TypeOK, Containers
      <4>2. ctr'.gen = "none"
        BY <3>3 DEF WritesKeptInv, TypeOK, Containers
      <4>3. Recreated # ctr'
        BY <3>1, <4>2
      <4>4. phase' = "recovery"
        BY <2>3, <4>3
      <4>5. QED
        BY <4>1, <4>4 DEF ContainerExists
    <3>4. QED
      BY <1>15, <3>2, <3>3 DEF Rebuild
  <2>8. CASE phase' = "recovery"
    BY <1>0, <2>1, <2>5, <2>6, <2>7, <2>8, Leaves DEF WritesKeptInv, CopyHolds
  <2>9. CASE phase' \in {"auto2", "state"}
    <3>1. RebuiltHolds'
      BY <2>1, <2>2, <2>9 DEF WritesKeptInv, CopiesExposed, RebuiltHolds, Copy
    <3>2. MovedAtSource' /\ OneCopyEach' /\ CopiesOfMoved' /\ CopyHolds' /\ CopiesExposed'
            /\ RemovedIsCopied'
      BY <2>1, <2>9 DEF WritesKeptInv, MovedAtSource, OneCopyEach, Picking, CopyingOne,
           CopiesOfMoved, CopyHolds, CopiesExposed, RemovedIsCopied
    <3>3. QED
      BY <1>0, <2>5, <2>6, <2>7, <3>1, <3>2 DEF WritesKeptInv
  <2>10. QED
    BY <2>3, <2>8, <2>9
<1>16. CASE SetAutostartAfter
  <2>1. CopiesKept /\ ContainerExists'
    BY <1>16 DEF SetAutostartAfter, CopiesKept, WritesKeptInv, ContainerExists
  <2>2. OneCopyEach' /\ RemovedIsCopied' /\ CopiesExposed'
    BY <1>16 DEF SetAutostartAfter, OneCopyEach, Picking, CopyingOne, RemovedIsCopied,
                 CopiesExposed
  <2>3. NoDataMoved /\ SameSide
    BY <1>16, <2>1 DEF SetAutostartAfter, NoDataMoved, SameSide
  <2>4. QED
    BY <1>0, <2>1, <2>2, <2>3, MovesOn
<1>17. CASE EnsureState
  <2>1. ctr'.at = ctr.at /\ ctr'.gen = ctr.gen
    BY <1>17, PowerKeeps DEF EnsureState, WritesKeptInv, TypeOK
  <2>2. CopiesKept /\ ContainerExists'
    BY <1>17, <2>1 DEF EnsureState, CopiesKept, WritesKeptInv, ContainerExists
  <2>3. OneCopyEach' /\ RemovedIsCopied' /\ CopiesExposed'
    BY <1>17 DEF EnsureState, OneCopyEach, Picking, CopyingOne, RemovedIsCopied,
                 CopiesExposed
  <2>4. NoDataMoved /\ SameSide
    BY <1>17, <2>1, <2>2 DEF EnsureState, NoDataMoved, SameSide
  <2>5. QED
    BY <1>0, <2>2, <2>3, <2>4, MovesOn
<1>18. CASE VerifyManaged
  <2>1. CopiesKept /\ ContainerExists'
    BY <1>18 DEF VerifyManaged, CopiesKept, WritesKeptInv, ContainerExists
  <2>2. OneCopyEach' /\ RemovedIsCopied' /\ CopiesExposed'
    BY <1>18 DEF VerifyManaged, OneCopyEach, Picking, CopyingOne, RemovedIsCopied,
                 CopiesExposed
  <2>3. NoDataMoved /\ SameSide
    BY <1>18, <2>1 DEF VerifyManaged, NoDataMoved, SameSide
  <2>4. QED
    BY <1>0, <2>1, <2>2, <2>3, MovesOn
<1>19. CASE Icons
  <2>1. CopiesKept /\ ContainerExists'
    BY <1>19 DEF Icons, CopiesKept, WritesKeptInv, ContainerExists
  <2>2. OneCopyEach' /\ RemovedIsCopied' /\ CopiesExposed'
    BY <1>19 DEF Icons, AfterIcons, OneCopyEach, Picking, CopyingOne, RemovedIsCopied,
                 CopiesExposed
  <2>3. NoDataMoved /\ SameSide
    BY <1>19, <2>1 DEF Icons, AfterIcons, NoDataMoved, SameSide
  <2>4. QED
    BY <1>0, <2>1, <2>2, <2>3, MovesOn
<1>20. CASE CheckVolume
  <2>1. CopiesKept /\ ContainerExists'
    BY <1>20 DEF CheckVolume, CopiesKept, WritesKeptInv, ContainerExists
  <2>2. OneCopyEach' /\ CopiesExposed'
    BY <1>20 DEF CheckVolume, OneCopyEach, Picking, CopyingOne, CopiesExposed
  <2>3. RemovedIsCopied'
    <3>1. SUFFICES ASSUME phase' = "removing", cur' \notin hist.pruned, ctr.at[cur'] = "dst"
                   PROVE  hist.written[cur'] \subseteq Contents(dst[cur'])
      BY <1>20 DEF CheckVolume, RemovedIsCopied
    <3>2. cur' \in Vols /\ UnchangedSinceCopy(cur')
      BY <1>20, <3>1 DEF CheckVolume, Removable, WritesKeptInv, TypeOK
    <3>3. Contents(src[cur']) \subseteq Contents(dst[cur'])
      BY <1>20, <3>1, <3>2 DEF CheckVolume, UnchangedSinceCopy, WritesKeptInv, RebuiltHolds,
           Copy
    <3>4. QED
      BY <3>1, <3>2, <3>3 DEF WritesKeptInv, WritesKept
  <2>4. NoDataMoved /\ SameSide
    BY <1>20, <2>1 DEF CheckVolume, NoDataMoved, SameSide
  <2>5. QED
    BY <1>0, <2>1, <2>2, <2>3, <2>4, MovesOn
<1>21. CASE RemoveVolume
  <2>1. /\ phase = "removing" /\ UNCHANGED <<ctr, dst, stage, plan, run, hist, cur>>
        /\ phase' \in {"remove", "rb_template", "recovery"}
    BY <1>21 DEF RemoveVolume
  <2>2. /\ \A v \in Vols \ {cur} : src'[v] = src[v]
        /\ src' = src \/ ctr.at[cur] # "src"
    BY <1>21, <2>1 DEF RemoveVolume, MountedSrc, WritesKeptInv, TypeOK, ContainerExists
  <2>3. cur \in Vols /\ ctr.at[cur] \in {"src", "dst"}
    BY DEF WritesKeptInv, TypeOK, Containers
  <2>4. WritesKept' /\ SourceHolds' /\ TargetThere'
    <3>1. SourceHolds' /\ TargetThere'
      BY <2>1, <2>2 DEF WritesKeptInv, SourceHolds, TargetThere
    <3>2. src' # src /\ cur \notin hist.pruned => hist.written[cur] \subseteq Contents(dst[cur])
      BY <2>1, <2>2, <2>3 DEF WritesKeptInv, RemovedIsCopied
    <3>3. WritesKept'
      BY <2>1, <2>2, <3>2 DEF WritesKeptInv, WritesKept
    <3>4. QED
      BY <3>1, <3>3
  <2>5. ContainerExists'
    BY <2>1 DEF WritesKeptInv, ContainerExists
  <2>6. CASE phase' = "remove"
    <3>1. MovedAtSource' /\ OneCopyEach' /\ CopiesOfMoved' /\ CopyHolds' /\ CopiesExposed'
            /\ RebuiltHolds' /\ RemovedIsCopied'
      BY <2>1, <2>6 DEF WritesKeptInv, MovedAtSource, OneCopyEach, Picking, CopyingOne,
           CopiesOfMoved, CopyHolds, CopiesExposed, RebuiltHolds, RemovedIsCopied, Copy
    <3>2. QED
      BY <1>0, <2>4, <2>5, <3>1 DEF WritesKeptInv
  <2>7. CASE phase' # "remove"
    BY <1>0, <2>1, <2>4, <2>5, <2>7, Leaves DEF WritesKeptInv, CopyHolds
  <2>8. QED
    BY <2>6, <2>7
<1>22. CASE RestoreTemplate
  <2>1. hist'.written = hist.written /\ hist'.pruned = hist.pruned
    BY <1>22 DEF RestoreTemplate, Undone, WritesKeptInv, TypeOK, Histories
  <2>2. CopiesKept /\ ContainerExists'
    BY <1>22 DEF RestoreTemplate, CopiesKept, WritesKeptInv, ContainerExists
  <2>3. OneCopyEach' /\ RemovedIsCopied' /\ CopiesExposed'
    BY <1>22 DEF RestoreTemplate, OneCopyEach, Picking, CopyingOne, RemovedIsCopied,
                 CopiesExposed
  <2>4. NoDataMoved /\ SameSide
    BY <1>22, <2>1, <2>2 DEF RestoreTemplate, NoDataMoved, SameSide
  <2>5. QED
    BY <1>0, <2>2, <2>3, <2>4, MovesOn
<1>23. CASE RestoreAutostart
  <2>1. hist'.written = hist.written /\ hist'.pruned = hist.pruned
    BY <1>23 DEF RestoreAutostart, Undone, WritesKeptInv, TypeOK, Histories
  <2>2. CopiesKept /\ ContainerExists'
    BY <1>23 DEF RestoreAutostart, CopiesKept, WritesKeptInv, ContainerExists
  <2>3. OneCopyEach' /\ RemovedIsCopied' /\ CopiesExposed'
    BY <1>23 DEF RestoreAutostart, OneCopyEach, Picking, CopyingOne, RemovedIsCopied,
                 CopiesExposed
  <2>4. NoDataMoved /\ SameSide
    BY <1>23, <2>1, <2>2 DEF RestoreAutostart, NoDataMoved, SameSide
  <2>5. QED
    BY <1>0, <2>2, <2>3, <2>4, MovesOn
<1>24. CASE RemoveCopies
  <2>1. hist'.written = hist.written /\ hist'.pruned = hist.pruned
    BY <1>24 DEF RemoveCopies, Undone, WritesKeptInv, TypeOK, Histories
  <2>2. DataStays /\ ContainerExists'
    BY <1>24, <2>1 DEF RemoveCopies, DataStays, WritesKeptInv, ContainerExists
  <2>3. WritesKept' /\ SourceHolds' /\ TargetThere'
    BY <2>2, DataStaysKept
  <2>4. ~Migrate => stage' = AllAbsent
    BY <1>24 DEF RemoveCopies, WritesKeptInv, CopyHolds, AllAbsent, TypeOK
  <2>5. phase' \in Rollback
    BY <1>24 DEF RemoveCopies
  <2>6. QED
    BY <1>0, <2>2, <2>3, <2>4, <2>5, Leaves
<1>25. CASE CheckCreated
  <2>1. hist'.written = hist.written /\ hist'.pruned = hist.pruned
    BY <1>25 DEF CheckCreated, Undone, WritesKeptInv, TypeOK, Histories
  <2>2. CopiesKept /\ ContainerExists'
    BY <1>25 DEF CheckCreated, CopiesKept, WritesKeptInv, ContainerExists
  <2>3. OneCopyEach' /\ RemovedIsCopied' /\ CopiesExposed'
    BY <1>25 DEF CheckCreated, OneCopyEach, Picking, CopyingOne, RemovedIsCopied,
                 CopiesExposed
  <2>4. NoDataMoved /\ SameSide
    BY <1>25, <2>1, <2>2 DEF CheckCreated, NoDataMoved, SameSide
  <2>5. QED
    BY <1>0, <2>2, <2>3, <2>4, MovesOn
<1>26. CASE RemoveCreated
  <2>1. hist'.written = hist.written /\ hist'.pruned = hist.pruned
    BY <1>26 DEF RemoveCreated, Undone, WritesKeptInv, TypeOK, Histories
  <2>2. \A v \in Vols \ {cur} : dst'[v] = dst[v]
    BY <1>26 DEF RemoveCreated, WritesKeptInv, TypeOK
  <2>3. dst' = dst \/ ctr.at[cur] = "src"
    BY <1>26 DEF RemoveCreated, MountedDst, WritesKeptInv, ContainerExists, TypeOK,
                 Containers
  <2>4. DataStays /\ ContainerExists'
    BY <1>26, <2>1, <2>2, <2>3 DEF RemoveCreated, DataStays, WritesKeptInv, ContainerExists
  <2>5. WritesKept' /\ SourceHolds' /\ TargetThere'
    BY <2>4, DataStaysKept
  <2>6. QED
    BY <1>0, <1>26, <2>4, <2>5, Leaves DEF RemoveCreated, WritesKeptInv, CopyHolds
<1>27. CASE Restart
  <2>1. hist'.written = hist.written /\ hist'.pruned = hist.pruned
    BY <1>27 DEF Restart, Undone, WritesKeptInv, TypeOK, Histories
  <2>2. ctr'.at = ctr.at /\ ctr'.gen = ctr.gen
    BY <1>27, PowerKeeps DEF Restart, WritesKeptInv, TypeOK
  <2>3. CopiesKept /\ ContainerExists'
    BY <1>27, <2>2 DEF Restart, CopiesKept, WritesKeptInv, ContainerExists
  <2>4. OneCopyEach' /\ RemovedIsCopied' /\ CopiesExposed'
    BY <1>27 DEF Restart, OneCopyEach, Picking, CopyingOne, RemovedIsCopied, CopiesExposed
  <2>5. NoDataMoved /\ SameSide
    BY <1>27, <2>1, <2>2, <2>3 DEF Restart, NoDataMoved, SameSide
  <2>6. QED
    BY <1>0, <2>3, <2>4, <2>5, MovesOn
<1>28. CASE Crash
  <2>1. CopiesKept /\ ContainerExists'
    BY <1>28 DEF Crash, CopiesKept, WritesKeptInv, ContainerExists
  <2>2. OneCopyEach' /\ RemovedIsCopied' /\ CopiesExposed'
    BY <1>28 DEF Crash, OneCopyEach, Picking, CopyingOne, RemovedIsCopied, CopiesExposed
  <2>3. NoDataMoved /\ SameSide
    BY <1>28, <2>1 DEF Crash, NoDataMoved, SameSide
  <2>4. QED
    BY <1>0, <2>1, <2>2, <2>3, MovesOn
<1>29. CASE UserPower
  <2>1. ctr'.at = ctr.at /\ ctr'.gen = ctr.gen /\ ctr.gen # "none"
    BY <1>29, PowerKeeps DEF UserPower, WritesKeptInv, TypeOK
  <2>2. hist'.written = hist.written /\ hist'.pruned = hist.pruned
    BY <1>29 DEF UserPower, WritesKeptInv, TypeOK, Histories
  <2>3. DataStays /\ ContainerExists' /\ RemovedIsCopied'
    BY <1>29, <2>1, <2>2 DEF UserPower, DataStays, WritesKeptInv, ContainerExists,
         RemovedIsCopied
  <2>4. QED
    BY <1>0, <1>29, <2>1, <2>2, <2>3, DataStaysKept, OthersStep DEF UserPower, CopiesKept
<1>30. CASE UserAutostart
  <2>1. hist'.written = hist.written /\ hist'.pruned = hist.pruned
    BY <1>30 DEF UserAutostart, Touch, WritesKeptInv, TypeOK, Histories
  <2>2. DataStays /\ ContainerExists' /\ RemovedIsCopied'
    BY <1>30, <2>1 DEF UserAutostart, DataStays, WritesKeptInv, ContainerExists,
         RemovedIsCopied
  <2>3. QED
    BY <1>0, <1>30, <2>1, <2>2, DataStaysKept, OthersStep DEF UserAutostart, CopiesKept
<1>31. CASE UserTemplate
  <2>1. hist'.written = hist.written /\ hist'.pruned = hist.pruned
    BY <1>31 DEF UserTemplate, Touch, WritesKeptInv, TypeOK, Histories
  <2>2. DataStays /\ ContainerExists' /\ RemovedIsCopied'
    BY <1>31, <2>1 DEF UserTemplate, DataStays, WritesKeptInv, ContainerExists,
         RemovedIsCopied
  <2>3. QED
    BY <1>0, <1>31, <2>1, <2>2, DataStaysKept, OthersStep DEF UserTemplate, CopiesKept
<1>32. ASSUME NEW v \in Vols, ContainerWrites(v) PROVE WritesKeptInv'
  <2>1. /\ UNCHANGED <<ctr, stage, phase, cur, todo, plan, run>> /\ ctr.up
        /\ hist'.pruned = hist.pruned
        /\ \A w \in Vols : hist'.written[w] = IF w = v THEN hist.written[v] \cup {budget}
                                              ELSE hist.written[w]
    BY <1>32 DEF ContainerWrites, WritesKeptInv, TypeOK, Histories
  <2>2. \A w \in Vols \ {v} : src'[w] = src[w] /\ dst'[w] = dst[w]
    BY <1>32 DEF ContainerWrites, WritesKeptInv, TypeOK
  <2>3. CASE ctr.at[v] = "src"
    <3>1. /\ src[v] # Absent /\ src[v] \in Places
          /\ src'[v] = Written(src[v]) /\ dst' = dst
      BY <1>32, <2>3 DEF ContainerWrites, WritesKeptInv, SourceHolds, TypeOK
    <3>2. src'[v] # Absent /\ Contents(src'[v]) = Contents(src[v]) \cup {budget}
      BY <3>1, ContentsOf
    <3>3. SourceHolds' /\ TargetThere'
      BY <2>1, <2>2, <2>3, <3>1, <3>2 DEF WritesKeptInv, SourceHolds, TargetThere
    <3>4. WritesKept'
      BY <2>1, <2>2, <3>1, <3>2 DEF WritesKeptInv, WritesKept
    <3>5. ContainerExists' /\ RemovedIsCopied'
      BY <2>1, <2>3, <3>1 DEF WritesKeptInv, ContainerExists, RemovedIsCopied, TypeOK
    <3>6. CopiesKept /\ ctr'.at = ctr.at
      BY <2>1 DEF CopiesKept
    <3>7. QED
      BY <1>0, <2>1, <3>1, <3>3, <3>4, <3>5, <3>6, OthersStep
  <2>4. CASE ctr.at[v] = "dst"
    <3>1. dst'[v] = Written(dst[v]) /\ src' = src /\ dst[v] \in Places
      BY <1>32, <2>4 DEF ContainerWrites, WritesKeptInv, TypeOK
    <3>2. v \notin hist.pruned => /\ dst'[v] # Absent
                                  /\ Contents(dst'[v]) = Contents(dst[v]) \cup {budget}
      BY <2>4, <3>1, ContentsOf DEF WritesKeptInv, TargetThere
    <3>3. SourceHolds' /\ TargetThere'
      BY <2>1, <2>2, <2>4, <3>1, <3>2 DEF WritesKeptInv, SourceHolds, TargetThere
    <3>4. WritesKept'
      BY <2>1, <2>2, <3>1, <3>2 DEF WritesKeptInv, WritesKept
    <3>5. ContainerExists'
      BY <2>1 DEF WritesKeptInv, ContainerExists
    <3>6. RemovedIsCopied'
      BY <2>1, <2>2, <3>2 DEF WritesKeptInv, RemovedIsCopied, TypeOK
    <3>7. CopiesKept /\ ctr'.at = ctr.at
      BY <2>1 DEF CopiesKept
    <3>8. \A w \in Vols \ hist'.pruned : Contents(dst[w]) \subseteq Contents(dst'[w])
      BY <2>1, <2>2, <3>2
    <3>9. QED
      BY <1>0, <2>1, <3>3, <3>4, <3>5, <3>6, <3>7, <3>8, OthersStep
  <2>5. QED
    BY <2>3, <2>4 DEF WritesKeptInv, TypeOK, Containers
<1>33. ASSUME NEW v \in Vols, OtherMounts(v) PROVE WritesKeptInv'
  <2>1. DataStays /\ ContainerExists' /\ RemovedIsCopied'
    BY <1>33 DEF OtherMounts, DataStays, WritesKeptInv, ContainerExists, RemovedIsCopied
  <2>2. QED
    BY <1>0, <1>33, <2>1, DataStaysKept, OthersStep DEF OtherMounts, CopiesKept
<1>34. ASSUME NEW v \in Vols, OtherWrites(v) PROVE WritesKeptInv'
  <2>1. /\ UNCHANGED <<ctr, dst, stage, phase, cur, todo, plan, run, hist>>
        /\ src' = [src EXCEPT ![v] = Written(src[v])] /\ src[v] \in Places
    BY <1>34 DEF OtherWrites, WritesKeptInv, TypeOK
  <2>2. \A w \in Vols : /\ Contents(src[w]) \subseteq Contents(src'[w])
                        /\ src[w] # Absent => src'[w] # Absent
    BY <2>1, ContentsOf DEF WritesKeptInv, TypeOK
  <2>3. WritesKept' /\ SourceHolds' /\ TargetThere'
    BY <2>1, <2>2 DEF WritesKeptInv, WritesKept, SourceHolds, TargetThere
  <2>4. ContainerExists' /\ RemovedIsCopied'
    BY <2>1 DEF WritesKeptInv, ContainerExists, RemovedIsCopied
  <2>5. CopiesKept
    BY <2>1 DEF CopiesKept
  <2>6. QED
    BY <1>0, <2>1, <2>3, <2>4, <2>5, OthersStep
<1>35. ASSUME NEW v \in Vols, Prune(v) PROVE WritesKeptInv'
  <2>1. /\ UNCHANGED <<ctr, src, stage, phase, cur, todo, plan, run>>
        /\ hist'.pruned = hist.pruned \cup {v} /\ hist'.written = hist.written
        /\ \A w \in Vols \ {v} : dst'[w] = dst[w]
    BY <1>35 DEF Prune, WritesKeptInv, TypeOK, Histories
  <2>2. WritesKept' /\ SourceHolds' /\ TargetThere'
    BY <2>1 DEF WritesKeptInv, WritesKept, SourceHolds, TargetThere
  <2>3. ContainerExists' /\ RemovedIsCopied'
    BY <2>1 DEF WritesKeptInv, ContainerExists, RemovedIsCopied, TypeOK
  <2>4. CopiesKept
    BY <2>1 DEF CopiesKept
  <2>5. QED
    BY <1>0, <2>1, <2>2, <2>3, <2>4, OthersStep
<1>36. ASSUME NEW v \in Vols, Recreate(v) PROVE WritesKeptInv'
  <2>1. /\ UNCHANGED <<ctr, src, stage, phase, cur, todo, plan, run>>
        /\ hist'.pruned = hist.pruned /\ hist'.written = hist.written
    BY <1>36 DEF Recreate, WritesKeptInv, TypeOK, Histories
  <2>2. \A w \in Vols : /\ Contents(dst[w]) \subseteq Contents(dst'[w])
                        /\ dst[w] # Absent => dst'[w] # Absent
    BY <1>36, ContentsOf DEF Recreate, WritesKeptInv, TypeOK
  <2>3. DataStays /\ ContainerExists' /\ RemovedIsCopied'
    BY <2>1, <2>2 DEF DataStays, WritesKeptInv, ContainerExists, RemovedIsCopied, TypeOK
  <2>4. CopiesKept
    BY <2>1 DEF CopiesKept
  <2>5. QED
    BY <1>0, <2>1, <2>2, <2>3, <2>4, DataStaysKept, OthersStep
<1>37. CASE UNCHANGED vars
  <2>1. DataStays /\ ContainerExists' /\ RemovedIsCopied'
    BY <1>37 DEF vars, DataStays, WritesKeptInv, ContainerExists, RemovedIsCopied
  <2>2. QED
    BY <1>0, <1>37, <2>1, DataStaysKept, OthersStep DEF vars, CopiesKept
<1>38. QED
  BY <1>1, <1>2, <1>3, <1>4, <1>5, <1>6, <1>7, <1>8, <1>9, <1>10,
     <1>11, <1>12, <1>13, <1>14, <1>15, <1>16, <1>17, <1>18, <1>19, <1>20,
     <1>21, <1>22, <1>23, <1>24, <1>25, <1>26, <1>27, <1>28, <1>29, <1>30,
     <1>31, <1>32, <1>33, <1>34, <1>35, <1>36, <1>37
  DEF Next, Apply, RollBack, Environment

(* And it holds of the host a first run finds.                              *)
LEMMA WritesKeptInit == Init => WritesKeptInv
<1> SUFFICES ASSUME Init PROVE WritesKeptInv
  OBVIOUS
<1>1. TypeOK
  BY InitType
<1>2. \A v \in Vols : hist.written[v] = {0} /\ src[v] = {{0}} /\ ctr.at[v] = "src"
  BY DEF Init
<1>3. {{0}} # Absent /\ Contents({{0}}) = {0}
  BY {0} \in {{0}}, UNION {{0}} = {0} DEF Absent, Contents
<1>4. WritesKept /\ SourceHolds /\ TargetThere /\ ContainerExists
  BY <1>2, <1>3 DEF Init, WritesKept, SourceHolds, TargetThere, ContainerExists
<1>5. MovedAtSource /\ OneCopyEach /\ CopiesOfMoved /\ CopiesExposed /\ RebuiltHolds
        /\ RemovedIsCopied /\ CopyHolds
  BY DEF Init, MovedAtSource, OneCopyEach, CopiesOfMoved, CopiesExposed, RebuiltHolds,
         RemovedIsCopied, CopyHolds, BeforeRebuild, Picking, CopyingOne, Steps
<1>6. QED
  BY <1>1, <1>4, <1>5 DEF WritesKeptInv

(* Whatever the container wrote is in the volume or where the run moved it, *)
(* for any volumes, any failures and lost replies, any crashes and any      *)
(* interleaving with everybody else on the host (mod.rs apply and its       *)
(* rollback).                                                               *)
THEOREM WritesAreKept == Spec => []WritesKept
<1>1. WritesKeptInv => WritesKept
  BY DEF WritesKeptInv
<1>2. QED
  BY <1>1, WritesKeptInit, WritesKeptInductive, PTL DEF Spec

-----------------------------------------------------------------------------
(* What a run promises whoever asked for it: how it ends, what it is        *)
(* rebuilt on, and what a rollback may take away.                           *)

Rebuilt == {"auto2", "state", "verify", "icons", "remove", "removing"}

(* Why DoneAsPlanned holds: where the run is says what it has done, as long *)
(* as nobody else touched the container.                                    *)
DoneInv ==
    ~hist.touched =>
        /\ phase \in BeforeRebuild \ {"expose", "check", "rebuild"} => autostart = plan.inAuto
        /\ phase \in {"expose", "check", "rebuild"} => autostart = plan.wasUp
        /\ phase \in {"auto1", "expose", "check", "rebuild", "done"} \cup Rebuilt => tmpl = "orca"
        /\ phase \in Rebuilt \cup {"done"} => ctr.gen = "managed"
        /\ phase \in (Rebuilt \ {"auto2"}) \cup {"done"} => autostart = plan.want
        /\ phase \in (Rebuilt \ {"auto2", "state"}) \cup {"done"} => ctr.up = plan.wasUp

LEMMA DoneInductive == TypeOK /\ DoneInv /\ [Next]_vars => DoneInv'
<1> SUFFICES ASSUME TypeOK, DoneInv, [Next]_vars PROVE DoneInv'
  OBVIOUS
<1>0. hist \in Histories /\ ctr \in Containers /\ phase \in {"idle"} \cup Steps \cup Rollback \cup Ended
  BY DEF TypeOK
<1> USE <1>0 DEF DoneInv, BeforeRebuild, Rebuilt, Steps, Rollback, Ended, host, Go, FailPhase
<1>1. CASE PlanRun
  BY <1>1 DEF PlanRun, Snapshot
<1>2. CASE Probe
  BY <1>2 DEF Probe, AfterProbe
<1>3. CASE Stop
  BY <1>3 DEF Stop
<1>4. CASE StopRecord
  BY <1>4 DEF StopRecord
<1>5. CASE PickVolume
  BY <1>5 DEF PickVolume
<1>6. CASE CreateVolume
  BY <1>6 DEF CreateVolume
<1>7. CASE BeginCopy
  BY <1>7 DEF BeginCopy
<1>8. CASE CopyData
  BY <1>8 DEF CopyData
<1>9. CASE VerifyCopy
  BY <1>9 DEF VerifyCopy, Undone
<1>10. CASE SaveInspect
  BY <1>10 DEF SaveInspect
<1>11. CASE WriteTemplate
  BY <1>11 DEF WriteTemplate, AfterWrite, ToRebuild
<1>12. CASE SetAutostartBefore
  BY <1>12 DEF SetAutostartBefore, ToRebuild
<1>13. CASE ExposeCopy
  BY <1>13 DEF ExposeCopy
<1>14. CASE EnsureStopped
  BY <1>14 DEF EnsureStopped, Histories
<1>15. CASE Rebuild
  BY <1>15 DEF Rebuild, Recreated, AfterRebuild, Containers
<1>16. CASE SetAutostartAfter
  BY <1>16 DEF SetAutostartAfter
<1>17. CASE EnsureState
  <2>1. plan.wasUp \in BOOLEAN /\ ctr.up \in BOOLEAN
    BY DEF TypeOK, Plans, Containers
  <2>2. Started(ctr).up = TRUE /\ Stopped(ctr).up = FALSE
    BY <2>1 DEF Started, Stopped, Containers
  <2>3. ctr'.gen = ctr.gen /\ (phase' = "verify" => ctr'.up = plan.wasUp)
    BY <1>17, <2>1, <2>2, PowerKeeps DEF EnsureState
  <2>4. QED
    BY <1>17, <2>3 DEF EnsureState
<1>18. CASE VerifyManaged
  BY <1>18 DEF VerifyManaged
<1>19. CASE Icons
  BY <1>19 DEF Icons, AfterIcons
<1>20. CASE CheckVolume
  BY <1>20 DEF CheckVolume
<1>21. CASE RemoveVolume
  BY <1>21 DEF RemoveVolume
<1>22. CASE RollBack
  BY <1>22 DEF RollBack, RestoreTemplate, RestoreAutostart, RemoveCopies, CheckCreated,
               RemoveCreated, Restart, Undone
<1>23. CASE UserPower \/ UserAutostart \/ UserTemplate
  BY <1>23 DEF UserPower, UserAutostart, UserTemplate, Touch, Histories
<1>24. CASE Crash
  BY <1>24 DEF Crash
<1>25. ASSUME NEW v \in Vols,
              ContainerWrites(v) \/ OtherMounts(v) \/ OtherWrites(v) \/ Prune(v) \/ Recreate(v)
       PROVE  DoneInv'
  BY <1>25 DEF ContainerWrites, OtherMounts, OtherWrites, Prune, Recreate, Histories
<1>26. CASE UNCHANGED vars
  BY <1>26 DEF vars
<1>27. QED
  BY <1>1, <1>2, <1>3, <1>4, <1>5, <1>6, <1>7, <1>8, <1>9, <1>10,
     <1>11, <1>12, <1>13, <1>14, <1>15, <1>16, <1>17, <1>18, <1>19, <1>20,
     <1>21, <1>22, <1>23, <1>24, <1>25, <1>26
  DEF Next, Apply, Environment

(* A run that reports success leaves the container managed, its autostart   *)
(* as asked and running exactly if it ran (mod.rs apply), whatever failed   *)
(* or was lost on the way.                                                  *)
THEOREM SuccessIsAsPlanned == Spec => []DoneAsPlanned
<1>1. Init => DoneInv
  BY DEF Init, DoneInv, BeforeRebuild, Rebuilt
<1>2. DoneInv => DoneAsPlanned
  BY DEF DoneInv, DoneAsPlanned, Rebuilt
<1>3. QED
  BY <1>1, <1>2, DoneInductive, TypeCorrect, PTL DEF Spec

-----------------------------------------------------------------------------
(* Why CopiedWhileQuiet holds: once the container ran after a copy began,   *)
(* its run times are past those the run recorded, which it does before it   *)
(* copies anything.                                                         *)
QuietInv ==
    /\ phase \in {"probe", "stop", "stopRecord"} => run.manifests = AllAbsent /\ hist.ran = {}
    /\ \A t \in run.stoppedAt : t <= ctr.times /\ (hist.ran # {} => t < ctr.times)

LEMMA QuietInductive == TypeOK /\ QuietInv /\ [Next]_vars => QuietInv'
<1> SUFFICES ASSUME TypeOK, QuietInv, [Next]_vars PROVE QuietInv'
  OBVIOUS
<1>0. /\ hist \in Histories /\ ctr \in Containers /\ run \in Runs
      /\ phase \in {"idle"} \cup Steps \cup Rollback \cup Ended
  BY DEF TypeOK
<1> USE <1>0 DEF QuietInv, Steps, Rollback, Ended, host, Go, FailPhase
<1>1. CASE PlanRun
  BY <1>1 DEF PlanRun, Snapshot, FreshRun, Histories, Containers, Absent
<1>2. CASE Probe \/ StopRecord \/ PickVolume \/ SaveInspect
  BY <1>2 DEF Probe, AfterProbe, StopRecord, PickVolume, SaveInspect, Runs, Containers
<1>3. CASE Stop
  BY <1>3 DEF Stop, Stopped, Runs, Containers
<1>4. CASE CreateVolume \/ BeginCopy \/ CopyData
  BY <1>4 DEF CreateVolume, BeginCopy, CopyData, Runs
<1>5. CASE VerifyCopy
  BY <1>5 DEF VerifyCopy, Undone, Runs, Histories
<1>6. CASE WriteTemplate \/ SetAutostartBefore \/ ExposeCopy
  BY <1>6 DEF WriteTemplate, SetAutostartBefore, ExposeCopy, AfterWrite, ToRebuild, Runs
<1>7. CASE EnsureStopped
  BY <1>7 DEF EnsureStopped, Histories
<1>8. CASE Rebuild
  <2>1. ctr'.times \in Nat /\ ctr'.times >= ctr.times
    <3>1. Recreated.times = ctr.times + 1
      BY DEF Recreated, Containers
    <3>2. [ctr EXCEPT !.gen = "none", !.up = FALSE].times = ctr.times
      BY DEF Containers
    <3>3. ctr.times \in Nat
      BY DEF Containers
    <3>4. ctr'.times \in {ctr.times, ctr.times + 1}
      BY <1>8, <3>1, <3>2 DEF Rebuild
    <3>5. QED
      BY <3>3, <3>4
  <2>2. /\ hist' = hist /\ run'.stoppedAt = run.stoppedAt
        /\ phase' \notin {"probe", "stop", "stopRecord"}
    BY <1>8 DEF Rebuild, AfterRebuild, Runs
  <2>3. QED
    BY <2>1, <2>2 DEF Runs, Containers
<1>9. CASE SetAutostartAfter \/ VerifyManaged \/ Icons \/ CheckVolume \/ RemoveVolume
  BY <1>9 DEF SetAutostartAfter, VerifyManaged, Icons, AfterIcons, CheckVolume, RemoveVolume
<1>10. CASE EnsureState
  <2>1. ctr'.times \in Nat /\ ctr'.times >= ctr.times
    BY <1>10 DEF EnsureState, Started, Stopped, Containers
  <2>2. UNCHANGED <<run, hist>> /\ phase' \notin {"probe", "stop", "stopRecord"}
    BY <1>10 DEF EnsureState
  <2>3. QED
    BY <2>1, <2>2 DEF Runs, Containers
<1>11. CASE RestoreTemplate \/ RestoreAutostart \/ RemoveCopies \/ CheckCreated \/ RemoveCreated
  BY <1>11 DEF RestoreTemplate, RestoreAutostart, RemoveCopies, CheckCreated, RemoveCreated,
               Undone, Histories
<1>12. CASE Restart
  BY <1>12 DEF Restart, Started, Undone, Histories, Containers, Runs
<1>13. CASE UserPower
  <2>1. CASE ctr' = Stopped(ctr)
    BY <1>13, <2>1 DEF UserPower, Stopped, Histories, Containers, Runs
  <2>2. CASE ctr' = Started(ctr) /\ ctr' # ctr
    <3>1. ctr'.times = ctr.times + 1
      BY <2>2 DEF Started, Containers
    <3>2. phase \in {"probe", "stop", "stopRecord"} => Copied = {}
      BY DEF Copied, AllAbsent, Absent
    <3>3. QED
      BY <1>13, <3>1, <3>2 DEF UserPower, Histories, Containers, Runs
  <2>3. QED
    BY <1>13, <2>1, <2>2 DEF UserPower
<1>14. CASE UserAutostart \/ UserTemplate \/ Crash
  BY <1>14 DEF UserAutostart, UserTemplate, Crash, Touch, Histories
<1>15. ASSUME NEW v \in Vols,
              ContainerWrites(v) \/ OtherMounts(v) \/ OtherWrites(v) \/ Prune(v) \/ Recreate(v)
       PROVE  QuietInv'
  BY <1>15 DEF ContainerWrites, OtherMounts, OtherWrites, Prune, Recreate, Histories
<1>16. CASE UNCHANGED vars
  BY <1>16 DEF vars
<1>17. QED
  BY <1>1, <1>2, <1>3, <1>4, <1>5, <1>6, <1>7, <1>8, <1>9, <1>10,
     <1>11, <1>12, <1>13, <1>14, <1>15, <1>16
  DEF Next, Apply, RollBack, Environment

(* The rebuild never starts over a copy the container ran after             *)
(* (EnsureStopped: "Not running now does not mean it never ran").           *)
THEOREM CopiesAreQuiet == Spec => CopiedWhileQuiet
<1> DEFINE Quiet == phase = "check" /\ phase' = "rebuild" => hist.ran \cap plan.moved = {}
<1>1. Init => QuietInv
  BY DEF Init, QuietInv, FreshRun, Absent
<1>2. TypeOK /\ QuietInv /\ [Next]_vars => [Quiet]_vars
  <2> SUFFICES ASSUME TypeOK, QuietInv, Next, phase = "check", phase' = "rebuild"
               PROVE  hist.ran = {}
    OBVIOUS
  <2>1. EnsureStopped /\ StillStopped
    BY DEF Next, Apply, RollBack, Environment, PlanRun, Probe, Stop, StopRecord, PickVolume,
           CreateVolume, BeginCopy, CopyData, VerifyCopy, SaveInspect, WriteTemplate,
           SetAutostartBefore, ExposeCopy, EnsureStopped, Rebuild, SetAutostartAfter,
           EnsureState, VerifyManaged, Icons, CheckVolume, RemoveVolume, RestoreTemplate,
           RestoreAutostart, RemoveCopies, CheckCreated, RemoveCreated, Restart, UserPower,
           UserAutostart, UserTemplate, Crash, ContainerWrites, OtherMounts, OtherWrites,
           Prune, Recreate, Ended
  <2>2. QED
    BY <2>1 DEF StillStopped, QuietInv, TypeOK, Containers
<1>3. QED
  BY <1>1, <1>2, QuietInductive, TypeCorrect, PTL DEF Spec, CopiedWhileQuiet

-----------------------------------------------------------------------------
(* Why RebuiltOnFreshCopy holds: what EnsureStopped found in the volumes is *)
(* what was copied, and what was copied is where the container mounts it    *)
(* (RebuiltHolds).                                                          *)
FreshInv ==
    /\ phase \in {"rebuild"} \cup Rebuilt =>
         \A v \in plan.moved : hist.sealed[v] = run.manifests[v]
    /\ RebuiltOnFreshCopy

LEMMA FreshInductive == WritesKeptInv /\ FreshInv /\ [Next]_vars => FreshInv'
<1> SUFFICES ASSUME WritesKeptInv, FreshInv, [Next]_vars PROVE FreshInv'
  OBVIOUS
<1>0. /\ hist \in Histories /\ ctr \in Containers /\ run \in Runs /\ plan.moved \subseteq Vols
      /\ phase \in {"idle"} \cup Steps \cup Rollback \cup Ended /\ dst \in [Vols -> Places]
  BY DEF WritesKeptInv, TypeOK, Plans
<1>00. WritesKeptInv'
  BY WritesKeptInductive
<1> DEFINE Sealed == \A v \in plan.moved : hist.sealed[v] = run.manifests[v]
<1>a. ASSUME phase' \in Rebuilt, Sealed' PROVE RebuiltOnFreshCopy'
  BY <1>00, <1>a DEF WritesKeptInv, RebuiltHolds, RebuiltOnFreshCopy, Copy, Rebuilt, Steps,
                     BeforeRebuild
<1>b. ASSUME phase' \notin Rebuilt \cup {"done"} PROVE RebuiltOnFreshCopy'
  BY <1>b DEF RebuiltOnFreshCopy, Rebuilt
<1> USE <1>0 DEF FreshInv, Rebuilt, Steps, Rollback, Ended, host, Go, FailPhase
<1>c. ASSUME UNCHANGED <<plan, run>>, hist'.sealed = hist.sealed, phase' # "done",
             phase \in {"rebuild"} \cup Rebuilt \/ phase' \notin {"rebuild"} \cup Rebuilt
      PROVE  FreshInv'
  BY <1>a, <1>b, <1>c
<1>d. ASSUME UNCHANGED <<plan, phase, ctr>>, hist'.sealed = hist.sealed,
             run'.manifests = run.manifests, hist.pruned \subseteq hist'.pruned,
             \A v \in Vols \ hist'.pruned : Contents(dst[v]) \subseteq Contents(dst'[v])
      PROVE  FreshInv'
  BY <1>d DEF RebuiltOnFreshCopy
<1>1. CASE PlanRun
  BY <1>1, <1>b DEF PlanRun
<1>2. CASE Probe \/ Stop \/ StopRecord \/ PickVolume \/ CreateVolume \/ BeginCopy \/ CopyData
           \/ VerifyCopy \/ SaveInspect
  BY <1>2, <1>b DEF Probe, AfterProbe, Stop, StopRecord, PickVolume, CreateVolume, BeginCopy,
                    CopyData, VerifyCopy, SaveInspect
<1>3. CASE WriteTemplate \/ SetAutostartBefore
  <2>1. phase' # "done" /\ phase' \notin Rebuilt /\ plan' = plan
        /\ (phase' = "rebuild" => plan.moved = {})
    BY <1>3 DEF WriteTemplate, SetAutostartBefore, AfterWrite, ToRebuild
  <2>2. QED
    BY <2>1, <1>b
<1>4. CASE ExposeCopy
  BY <1>4, <1>b DEF ExposeCopy
<1>5. CASE EnsureStopped
  <2>1. CASE phase' = "rebuild"
    BY <1>5, <1>b, <2>1 DEF EnsureStopped, UnchangedSinceCopy, Histories
  <2>2. CASE phase' # "rebuild"
    BY <1>5, <1>b, <2>2 DEF EnsureStopped
  <2>3. QED
    BY <2>1, <2>2
<1>6. CASE Rebuild
  <2>1. phase' \in Rebuilt \cup {"recovery"} /\ phase = "rebuild"
    BY <1>6 DEF Rebuild, AfterRebuild
  <2>2. Sealed'
    BY <1>6, <2>1 DEF Rebuild, Runs
  <2>3. QED
    BY <2>1, <2>2, <1>a, <1>b
<1>7. CASE SetAutostartAfter \/ EnsureState \/ VerifyManaged \/ RemoveVolume
  BY <1>7, <1>c DEF SetAutostartAfter, EnsureState, VerifyManaged, RemoveVolume
<1>8. CASE Icons \/ CheckVolume
  <2>1. phase \in Rebuilt /\ UNCHANGED <<plan, run, hist, ctr, dst>>
    BY <1>8 DEF Icons, CheckVolume
  <2>2. CASE phase' = "done"
    BY <2>1, <2>2 DEF RebuiltOnFreshCopy
  <2>3. CASE phase' # "done"
    BY <2>1, <2>3, <1>c
  <2>4. QED
    BY <2>2, <2>3
<1>9. CASE RollBack
  BY <1>9, <1>b DEF RollBack, RestoreTemplate, RestoreAutostart, RemoveCopies, CheckCreated,
                    RemoveCreated, Restart
<1>10. CASE UserPower
  <2>1. /\ ctr'.at = ctr.at /\ UNCHANGED <<plan, run, phase, dst>>
        /\ hist'.sealed = hist.sealed /\ hist'.pruned = hist.pruned
    BY <1>10, PowerKeeps DEF UserPower, Histories
  <2>2. QED
    BY <2>1 DEF RebuiltOnFreshCopy
<1>11. CASE UserAutostart \/ UserTemplate
  BY <1>11, <1>d DEF UserAutostart, UserTemplate, Touch, Histories
<1>12. CASE Crash
  BY <1>12, <1>b DEF Crash
<1>13. ASSUME NEW v \in Vols, ContainerWrites(v) PROVE FreshInv'
  <2>1. \A w \in Vols : Contents(dst[w]) \subseteq Contents(dst'[w])
    BY <1>13, ContentsOf DEF ContainerWrites
  <2>2. QED
    BY <1>13, <2>1, <1>d DEF ContainerWrites, Histories
<1>14. ASSUME NEW v \in Vols, OtherMounts(v) \/ OtherWrites(v) PROVE FreshInv'
  BY <1>14, <1>d DEF OtherMounts, OtherWrites
<1>15. ASSUME NEW v \in Vols, Prune(v) PROVE FreshInv'
  BY <1>15, <1>d DEF Prune, Histories
<1>16. ASSUME NEW v \in Vols, Recreate(v) PROVE FreshInv'
  BY <1>16, <1>d, ContentsOf DEF Recreate, Histories
<1>17. CASE UNCHANGED vars
  BY <1>17, <1>d DEF vars
<1>18. QED
  BY <1>1, <1>2, <1>3, <1>4, <1>5, <1>6, <1>7, <1>8, <1>9, <1>10,
     <1>11, <1>12, <1>13, <1>14, <1>15, <1>16, <1>17
  DEF Next, Apply, Environment

(* A container that mounts a moved volume mounts all that was in the old    *)
(* one when EnsureStopped passed.                                           *)
THEOREM RebuiltIsFresh == Spec => []RebuiltOnFreshCopy
<1>1. Init => FreshInv
  BY DEF Init, FreshInv, RebuiltOnFreshCopy, Rebuilt
<1>2. FreshInv => RebuiltOnFreshCopy
  BY DEF FreshInv
<1>3. QED
  BY <1>1, <1>2, FreshInductive, WritesKeptInit, WritesKeptInductive, PTL DEF Spec

-----------------------------------------------------------------------------
(* The rollback takes away only what the run made.                          *)

(* A template somebody wrote where there was none is never removed by the   *)
(* rollback (restore_template_in: "is not orca's; left in place").          *)
THEOREM UserTemplateStays == Spec => SparesUserTemplate
<1> DEFINE Spared == phase = "rb_template" /\ tmpl = "user" /\ tmpl' # "user"
                       => bak \in {"user", "orca"}
<1>1. TypeOK /\ [Next]_vars => [Spared]_vars
  <2> SUFFICES ASSUME TypeOK, Next, phase = "rb_template", tmpl = "user", tmpl' # "user"
               PROVE  bak \in {"user", "orca"}
    OBVIOUS
  <2>1. RestoreTemplate
    BY DEF Next, Apply, RollBack, Environment, PlanRun, Probe, Stop, StopRecord, PickVolume,
           CreateVolume, BeginCopy, CopyData, VerifyCopy, SaveInspect, WriteTemplate,
           SetAutostartBefore, ExposeCopy, EnsureStopped, Rebuild, SetAutostartAfter,
           EnsureState, VerifyManaged, Icons, CheckVolume, RemoveVolume, RestoreTemplate,
           RestoreAutostart, RemoveCopies, CheckCreated, RemoveCreated, Restart, UserPower,
           UserAutostart, UserTemplate, Crash, ContainerWrites, OtherMounts, OtherWrites,
           Prune, Recreate, Ended, host
  <2>2. Restorable
    BY <2>1 DEF RestoreTemplate
  <2>3. QED
    BY <2>2 DEF Restorable, TypeOK
<1>2. QED
  BY <1>1, TypeCorrect, PTL DEF Spec, SparesUserTemplate

(* Why SparesForeignVolumes holds: a volume somebody else created in place  *)
(* of the run's own has a later birth, and what is being removed had the    *)
(* run's birth when that was read.                                          *)
ForeignInv ==
    /\ \A v \in foreign : dst[v] # Absent
    /\ \A v \in run.created :
         /\ run.births[v] <= birth[v]
         /\ v \in foreign => run.births[v] < birth[v]
    /\ phase \in {"rb_created", "rb_removing"} => todo \subseteq run.created
    /\ phase = "rb_removing" => cur \in run.created /\ (cur \in foreign => cur \in hist.raced)

LEMMA ForeignInductive == TypeOK /\ ForeignInv /\ [Next]_vars => ForeignInv'
<1> SUFFICES ASSUME TypeOK, ForeignInv, [Next]_vars PROVE ForeignInv'
  OBVIOUS
<1>0. /\ hist \in Histories /\ ctr \in Containers /\ run \in Runs /\ plan.moved \subseteq Vols
      /\ phase \in {"idle"} \cup Steps \cup Rollback \cup Ended /\ dst \in [Vols -> Places]
      /\ foreign \subseteq Vols /\ birth \in [Vols -> Nat] /\ cur \in Vols
      /\ run.created \subseteq Vols /\ run.births \in [Vols -> Nat]
  BY DEF TypeOK, Plans, Runs
<1>00. Empty # Absent /\ \A p \in Places : p # Absent => Written(p) # Absent
  BY ContentsOf DEF Empty, Absent
<1>a. ASSUME UNCHANGED <<dst, foreign, birth>>,
             run'.created = run.created, run'.births = run.births,
             phase' \notin {"rb_created", "rb_removing"}
      PROVE  ForeignInv'
  BY <1>a DEF ForeignInv
<1>b. ASSUME UNCHANGED <<foreign, birth, phase, todo, cur, run>>, hist'.raced = hist.raced,
             \A v \in foreign : dst[v] # Absent => dst'[v] # Absent
      PROVE  ForeignInv'
  BY <1>b DEF ForeignInv
<1> USE <1>0 DEF Steps, Rollback, Ended, host, Go, FailPhase
<1>1. CASE PlanRun
  BY <1>1 DEF PlanRun, FreshRun, ForeignInv
<1>2. CASE Probe \/ StopRecord \/ PickVolume \/ BeginCopy \/ SaveInspect
  BY <1>2, <1>a DEF Probe, AfterProbe, StopRecord, PickVolume, BeginCopy, SaveInspect, Runs
<1>3. CASE Stop
  BY <1>3, <1>a DEF Stop, Runs
<1>4. CASE CreateVolume
  <2>1. /\ UNCHANGED <<foreign, hist>> /\ phase' \notin {"rb_created", "rb_removing"}
        /\ \A v \in Vols : birth'[v] \in Nat /\ birth'[v] >= birth[v]
        /\ \A v \in Vols : dst[v] # Absent => dst'[v] # Absent
    BY <1>4, <1>00 DEF CreateVolume
  <2>2. \/ run' = run
        \/ cur \notin foreign /\ run' = [run EXCEPT !.created = @ \cup {cur},
                                                    !.births[cur] = birth'[cur]]
    BY <1>4 DEF CreateVolume, ThisRuns
  <2>3. CASE run' = run
    BY <2>1, <2>3 DEF ForeignInv
  <2>4. CASE cur \notin foreign /\ run' = [run EXCEPT !.created = @ \cup {cur},
                                                      !.births[cur] = birth'[cur]]
    <3>1. run'.created = run.created \cup {cur}
          /\ run'.births = [run.births EXCEPT ![cur] = birth'[cur]]
      BY <2>4 DEF Runs
    <3>2. QED
      BY <2>1, <2>4, <3>1 DEF ForeignInv
  <2>5. QED
    BY <2>2, <2>3, <2>4
<1>5. CASE CopyData
  <2>1. \A v \in foreign : dst'[v] = dst[v]
    BY <1>5 DEF CopyData
  <2>2. QED
    BY <1>5, <2>1 DEF CopyData, ForeignInv
<1>6. CASE VerifyCopy
  <2>1. \A v \in foreign : dst'[v] = dst[v]
    BY <1>6 DEF VerifyCopy, Labelled
  <2>2. run'.created = run.created /\ run'.births = run.births
    BY <1>6 DEF VerifyCopy, Runs
  <2>3. QED
    BY <1>6, <2>1, <2>2 DEF VerifyCopy, ForeignInv
<1>7. CASE WriteTemplate \/ SetAutostartBefore
  BY <1>7, <1>a DEF WriteTemplate, SetAutostartBefore, AfterWrite, ToRebuild, Runs
<1>8. CASE ExposeCopy
  <2>1. \A v \in foreign : dst[v] # Absent => dst'[v] # Absent
    BY <1>8 DEF ExposeCopy
  <2>2. run'.created = run.created /\ run'.births = run.births
    BY <1>8 DEF ExposeCopy, Runs
  <2>3. QED
    BY <1>8, <2>1, <2>2 DEF ExposeCopy, ForeignInv
<1>9. CASE EnsureStopped
  BY <1>9, <1>a DEF EnsureStopped
<1>10. CASE Rebuild
  <2>1. \A v \in Vols : dst[v] # Absent => dst'[v] # Absent
    BY <1>10, <1>00 DEF Rebuild
  <2>2. run'.created = run.created /\ run'.births = run.births
    BY <1>10 DEF Rebuild, Runs
  <2>3. QED
    BY <1>10, <2>1, <2>2 DEF Rebuild, AfterRebuild, ForeignInv
<1>11. CASE SetAutostartAfter \/ EnsureState \/ VerifyManaged \/ Icons \/ CheckVolume \/ RemoveVolume
  BY <1>11, <1>a DEF SetAutostartAfter, EnsureState, VerifyManaged, Icons, AfterIcons,
                     CheckVolume, RemoveVolume
<1>12. CASE RestoreTemplate \/ RestoreAutostart
  BY <1>12, <1>a DEF RestoreTemplate, RestoreAutostart
<1>13. CASE RemoveCopies
  BY <1>13 DEF RemoveCopies, ForeignInv
<1>14. CASE CheckCreated
  <2>1. /\ UNCHANGED <<foreign, birth, dst, run>> /\ todo' \subseteq todo
        /\ todo \subseteq run.created
    BY <1>14 DEF CheckCreated, ForeignInv
  <2>2. ASSUME phase' = "rb_removing" PROVE cur' \in todo /\ run.births[cur'] = birth[cur']
    BY <1>14, <2>2 DEF CheckCreated, SameVolume
  <2>3. phase' = "rb_removing" => cur' \in run'.created /\ cur' \notin foreign'
    BY <2>1, <2>2 DEF ForeignInv
  <2>4. QED
    BY <2>1, <2>3 DEF ForeignInv
<1>15. CASE RemoveCreated
  BY <1>15 DEF RemoveCreated, ForeignInv
<1>16. CASE Restart
  BY <1>16, <1>a DEF Restart
<1>17. CASE UserPower \/ UserAutostart \/ UserTemplate
  BY <1>17, <1>b DEF UserPower, UserAutostart, UserTemplate, Touch, Histories
<1>18. CASE Crash
  BY <1>18, <1>a DEF Crash
<1>19. ASSUME NEW v \in Vols, ContainerWrites(v) \/ OtherMounts(v) \/ OtherWrites(v)
       PROVE  ForeignInv'
  <2>1. \A w \in Vols : dst[w] # Absent => dst'[w] # Absent
    BY <1>19, <1>00 DEF ContainerWrites, OtherMounts, OtherWrites
  <2>2. hist'.raced = hist.raced
    BY <1>19 DEF ContainerWrites, OtherMounts, OtherWrites, Histories
  <2>3. QED
    BY <1>19, <1>b, <2>1, <2>2 DEF ContainerWrites, OtherMounts, OtherWrites
<1>20. ASSUME NEW v \in Vols, Prune(v) PROVE ForeignInv'
  <2>1. hist'.raced = hist.raced
    BY <1>20 DEF Prune, Histories
  <2>2. QED
    BY <1>20, <2>1 DEF Prune, ForeignInv
<1>21. ASSUME NEW v \in Vols, Recreate(v) PROVE ForeignInv'
  <2>1. hist'.raced = IF phase = "rb_removing" THEN hist.raced \cup {v} ELSE hist.raced
    BY <1>21 DEF Recreate, Histories
  <2>2. QED
    BY <1>21, <1>00, <2>1 DEF Recreate, ForeignInv
<1>22. CASE UNCHANGED vars
  BY <1>22, <1>b DEF vars
<1>23. QED
  BY <1>1, <1>2, <1>3, <1>4, <1>5, <1>6, <1>7, <1>8, <1>9, <1>10,
     <1>11, <1>12, <1>13, <1>14, <1>15, <1>16, <1>17, <1>18, <1>19, <1>20, <1>21, <1>22
  DEF Next, Apply, RollBack, Environment

(* A rollback removes a volume somebody else created under the converted    *)
(* name only if it took the place of the run's own after CreatedAt was read.*)
THEOREM ForeignVolumesStay == Spec => SparesForeignVolumes
<1> DEFINE Spared == \A v \in foreign : phase = "rb_removing" /\ dst'[v] = Absent
                                          /\ budget' = budget => v \in hist.raced
<1>1. Init => ForeignInv
  BY DEF Init, FreshRun, ForeignInv
<1>2. TypeOK /\ ForeignInv /\ [Next]_vars => [Spared]_vars
  <2> SUFFICES ASSUME TypeOK, ForeignInv, Next, phase = "rb_removing", budget' = budget,
                      NEW v \in foreign, dst'[v] = Absent
               PROVE  v \in hist.raced
    OBVIOUS
  <2>1. budget - 1 # budget
    BY DEF TypeOK
  <2>2. RemoveCreated
    BY <2>1 DEF Next, Apply, RollBack, Environment, PlanRun, Probe, Stop, StopRecord,
           PickVolume, CreateVolume, BeginCopy, CopyData, VerifyCopy, SaveInspect,
           WriteTemplate, SetAutostartBefore, ExposeCopy, EnsureStopped, Rebuild,
           SetAutostartAfter, EnsureState, VerifyManaged, Icons, CheckVolume, RemoveVolume,
           RestoreTemplate, RestoreAutostart, RemoveCopies, CheckCreated, Restart, UserPower,
           UserAutostart, UserTemplate, Crash, ContainerWrites, OtherMounts, OtherWrites,
           Prune, Recreate, Acts, Ended
  <2>3. v = cur
    BY <2>2 DEF RemoveCreated, ForeignInv, TypeOK
  <2>4. QED
    BY <2>3 DEF ForeignInv
<1>3. QED
  BY <1>1, <1>2, ForeignInductive, TypeCorrect, PTL DEF Spec, SparesForeignVolumes

-----------------------------------------------------------------------------
(* A rollback puts back what the run changed, provided that a failed stop   *)
(* or write of the template changed nothing, and in a migration neither did *)
(* a failed copy or exposure: apply remembers of those only that they       *)
(* succeeded, and each of them is needed.                                   *)
FailedMeansUndone ==
    LostReplies \cap ({"stop", "write"} \cup IF Migrate THEN {"copy", "expose"} ELSE {}) = {}

Early == BeforeRebuild \ {"auto1", "expose", "check", "rebuild"}
Ready == {"expose", "check", "rebuild"}
Undoing == Rollback \cup {"rolledback"}

(* Until the rebuild the container mounts what it did; after it a failure   *)
(* is not rolled back.                                                      *)
AtSource ==
    /\ phase \in BeforeRebuild \cup Undoing => \A v \in plan.moved : ctr.at[v] = "src"
    /\ phase \in Rebuilt => run.rebuilt
    /\ phase = "expose" => Migrate

(* What has to be undone, step by step: the template, ...                   *)
TemplateBack ==
    /\ phase \in Early => tmpl = plan.tmpl /\ ~run.tmplWritten
    /\ phase \in {"auto1"} \cup Ready => run.tmplWritten /\ bak = plan.tmpl
    /\ phase = "rb_template" => IF run.tmplWritten THEN bak = plan.tmpl ELSE tmpl = plan.tmpl
    /\ phase \in Undoing \ {"rb_template"} => "template" \in hist.failed \/ tmpl = plan.tmpl

(* ... the autostart list, ...                                              *)
AutostartBack ==
    /\ phase \in Early \cup {"auto1"} => autostart = plan.inAuto
    /\ phase \in Ready \cup {"rb_template", "rb_autostart"} =>
         run.autoChanged \/ autostart = plan.inAuto
    /\ phase \in Undoing \ {"rb_template", "rb_autostart"} =>
         "autostart" \in hist.failed \/ autostart = plan.inAuto

(* ... the running state, ...                                               *)
PowerBack ==
    /\ phase \in {"probe", "stop"} => ctr.up = plan.wasUp
    /\ phase = "stop" => plan.wasUp
    /\ phase \in BeforeRebuild \cup Rollback =>
         ctr.up = plan.wasUp \/ (run.stopped /\ plan.wasUp)
    /\ phase = "rolledback" => "start" \in hist.failed \/ ctr.up = plan.wasUp

(* ... the stages, ...                                                      *)
StageBack ==
    /\ phase \in Early => run.exposed = {}
    /\ \A v \in Vols : stage[v] # Absent =>
         /\ phase \in BeforeRebuild \cup {"rb_template", "rb_autostart"} =>
              \/ v \in run.copies \ run.exposed \/ "copies" \in hist.failed
              \/ phase \in {"created", "verifying"} /\ v = cur
         /\ phase = "rb_copies" => v \in todo \/ "copies" \in hist.failed
         /\ phase \in {"rb_created", "rb_removing", "rb_start", "rolledback"} =>
              "copies" \in hist.failed

(* ... and the volumes it created.                                          *)
AsFound(v) == dst[v] \in {Absent, Empty, hist.found[v]}
CreatedBack ==
    /\ phase \in {"copying", "created", "verifying"} /\ ~Migrate =>
         cur \in plan.reuse \cup run.created
    /\ \A v \in plan.moved \ (run.exposed \cup plan.reuse) : ~AsFound(v) =>
         /\ phase \in BeforeRebuild \cup {"rb_template", "rb_autostart", "rb_copies"} =>
              v \in run.created
         /\ phase = "rb_created" => v \in todo \/ "copies" \in hist.failed
         /\ phase = "rb_removing" => v \in todo \cup {cur} \/ "copies" \in hist.failed
         /\ phase \in {"rb_start", "rolledback"} => "copies" \in hist.failed

RestoreInv ==
    /\ AtSource
    /\ ~hist.touched => /\ TemplateBack /\ AutostartBack /\ PowerBack
                        /\ StageBack /\ CreatedBack

LEMMA AtSourceInductive == TypeOK /\ AtSource /\ [Next]_vars => AtSource'
<1> SUFFICES ASSUME TypeOK, AtSource, [Next]_vars PROVE AtSource'
  OBVIOUS
<1>0. /\ ctr \in Containers /\ run \in Runs /\ plan.moved \subseteq Vols
      /\ phase \in {"idle"} \cup Steps \cup Rollback \cup Ended
  BY DEF TypeOK, Plans
<1> USE <1>0 DEF AtSource, BeforeRebuild, Undoing, Rebuilt, Steps, Rollback, Ended, host, Go,
                 FailPhase
<1>1. CASE PlanRun
  BY <1>1 DEF PlanRun, Snapshot, Movable
<1>2. CASE Probe \/ StopRecord \/ PickVolume \/ CreateVolume \/ BeginCopy \/ CopyData \/ VerifyCopy
           \/ SaveInspect
  BY <1>2 DEF Probe, AfterProbe, StopRecord, PickVolume, CreateVolume, BeginCopy, CopyData,
              VerifyCopy, SaveInspect
<1>3. CASE Stop
  BY <1>3, PowerKeeps DEF Stop
<1>4. CASE WriteTemplate \/ SetAutostartBefore \/ ExposeCopy \/ EnsureStopped
  BY <1>4 DEF WriteTemplate, SetAutostartBefore, ExposeCopy, EnsureStopped, AfterWrite, ToRebuild
<1>5. CASE Rebuild
  BY <1>5 DEF Rebuild, AfterRebuild, Runs
<1>6. CASE SetAutostartAfter \/ VerifyManaged \/ Icons \/ CheckVolume \/ RemoveVolume
  BY <1>6 DEF SetAutostartAfter, VerifyManaged, Icons, AfterIcons, CheckVolume, RemoveVolume
<1>7. CASE EnsureState
  BY <1>7 DEF EnsureState
<1>8. CASE RestoreTemplate \/ RestoreAutostart \/ RemoveCopies \/ CheckCreated \/ RemoveCreated
  BY <1>8 DEF RestoreTemplate, RestoreAutostart, RemoveCopies, CheckCreated, RemoveCreated
<1>9. CASE Restart
  BY <1>9, PowerKeeps DEF Restart
<1>10. CASE UserPower
  BY <1>10, PowerKeeps DEF UserPower
<1>11. CASE UserAutostart \/ UserTemplate \/ Crash
  BY <1>11 DEF UserAutostart, UserTemplate, Crash
<1>12. ASSUME NEW v \in Vols,
              ContainerWrites(v) \/ OtherMounts(v) \/ OtherWrites(v) \/ Prune(v) \/ Recreate(v)
       PROVE  AtSource'
  BY <1>12 DEF ContainerWrites, OtherMounts, OtherWrites, Prune, Recreate
<1>13. CASE UNCHANGED vars
  BY <1>13 DEF vars
<1>14. QED
  BY <1>1, <1>2, <1>3, <1>4, <1>5, <1>6, <1>7, <1>8, <1>9, <1>10, <1>11, <1>12, <1>13
  DEF Next, Apply, RollBack, Environment

(* Noting an undo changes only what is noted.                               *)
LEMMA UndoneKeeps ==
    ASSUME hist \in Histories, NEW w, NEW ok \in BOOLEAN
    PROVE  /\ Undone(w, ok).failed = IF ok THEN hist.failed ELSE hist.failed \cup {w}
           /\ Undone(w, ok).touched = hist.touched /\ Undone(w, ok).found = hist.found
BY DEF Undone, Histories

(* A step of the rollback only adds to what is noted.                       *)
LEMMA UndoNotes ==
    ASSUME hist \in Histories, RollBack
    PROVE  /\ hist'.touched = hist.touched /\ hist'.found = hist.found
           /\ hist.failed \subseteq hist'.failed
<1> DEFINE Noted == hist' = hist \/ \E w \in Undos, ok \in BOOLEAN : hist' = Undone(w, ok)
<1>1. ASSUME RestoreTemplate PROVE Noted
  BY <1>1 DEF RestoreTemplate, Undos
<1>2. ASSUME RestoreAutostart PROVE Noted
  BY <1>2 DEF RestoreAutostart, Undos
<1>3. ASSUME RemoveCopies PROVE Noted
  BY <1>3 DEF RemoveCopies, Undos
<1>4. ASSUME CheckCreated PROVE Noted
  <2>1. hist' = hist \/ hist' = Undone("copies", FALSE)
    BY <1>4 DEF CheckCreated
  <2>2. QED
    BY <2>1, FALSE \in BOOLEAN DEF Undos
<1>5. ASSUME RemoveCreated PROVE Noted
  BY <1>5 DEF RemoveCreated, Undos
<1>6. ASSUME Restart PROVE Noted
  BY <1>6 DEF Restart, Undos
<1>7. Noted
  BY <1>1, <1>2, <1>3, <1>4, <1>5, <1>6 DEF RollBack
<1>8. CASE hist' = hist
  BY <1>8
<1>9. ASSUME NEW w \in Undos, NEW ok \in BOOLEAN, hist' = Undone(w, ok)
      PROVE  /\ hist'.touched = hist.touched /\ hist'.found = hist.found
             /\ hist.failed \subseteq hist'.failed
  BY <1>9, UndoneKeeps
<1>10. QED
  BY <1>7, <1>8, <1>9

(* What somebody else does without touching the container changes none of  *)
(* what a rollback puts back.                                               *)
LEMMA OthersUntouched ==
    ASSUME TypeOK, Environment, ~hist'.touched
    PROVE  /\ UNCHANGED <<ctr, autostart, tmpl, bak, stage, run, plan, todo, cur>>
           /\ phase' \in {phase, "crashed"}
           /\ ~hist.touched /\ hist'.failed = hist.failed /\ hist'.found = hist.found
           /\ \A v \in Vols : ctr.at[v] = "src" => dst'[v] = dst[v]
<1>0. hist \in Histories /\ dst \in [Vols -> Places]
  BY DEF TypeOK
<1>1. ~UserPower /\ ~UserAutostart /\ ~UserTemplate
  BY <1>0 DEF UserPower, UserAutostart, UserTemplate, Touch, Histories
<1>2. CASE Crash
  BY <1>2 DEF Crash, host
<1>3. ASSUME NEW v \in Vols, ContainerWrites(v)
      PROVE  /\ UNCHANGED <<ctr, autostart, tmpl, bak, stage, run, plan, todo, cur, phase>>
             /\ ~hist.touched /\ hist'.failed = hist.failed /\ hist'.found = hist.found
             /\ \A w \in Vols : ctr.at[w] = "src" => dst'[w] = dst[w]
  BY <1>0, <1>3 DEF ContainerWrites, Histories
<1>4. ASSUME NEW v \in Vols, OtherMounts(v) \/ OtherWrites(v)
      PROVE  UNCHANGED <<ctr, autostart, tmpl, bak, stage, run, plan, todo, cur, phase, hist, dst>>
  BY <1>4 DEF OtherMounts, OtherWrites
<1>5. ASSUME NEW v \in Vols PROVE ~Prune(v) /\ ~Recreate(v)
  BY <1>0 DEF Prune, Recreate, Histories
<1>6. QED
  BY <1>1, <1>2, <1>3, <1>4, <1>5 DEF Environment

(* From the rebuild on nothing leads back.                                  *)
LEMMA NoWayBack ==
    ASSUME TypeOK, AtSource, Apply, phase \in Rebuilt \cup {"rebuild"}
    PROVE  phase' \in Rebuilt \cup {"done", "recovery"}
<1> USE DEF AtSource, Rebuilt, Go, FailPhase
<1>1. CASE phase = "rebuild"
  <2>1. Rebuild
    BY <1>1 DEF Apply, Probe, Stop, StopRecord, PickVolume, CreateVolume, BeginCopy, CopyData,
           VerifyCopy, SaveInspect, WriteTemplate, SetAutostartBefore, ExposeCopy, EnsureStopped,
           SetAutostartAfter, EnsureState, VerifyManaged, Icons, CheckVolume, RemoveVolume
  <2>2. QED
    BY <2>1 DEF Rebuild, AfterRebuild
<1>2. CASE phase \in Rebuilt
  <2>1. SetAutostartAfter \/ EnsureState \/ VerifyManaged \/ Icons \/ CheckVolume \/ RemoveVolume
    BY <1>2 DEF Apply, Probe, Stop, StopRecord, PickVolume, CreateVolume, BeginCopy, CopyData,
           VerifyCopy, SaveInspect, WriteTemplate, SetAutostartBefore, ExposeCopy, EnsureStopped,
           Rebuild
  <2>2. QED
    BY <1>2, <2>1 DEF SetAutostartAfter, EnsureState, VerifyManaged, Icons, AfterIcons,
                      CheckVolume, RemoveVolume
<1>3. QED
  BY <1>1, <1>2

(* What the end of a copy leaves alone.                                     *)
LEMMA VerifyKeeps ==
    ASSUME TypeOK, VerifyCopy
    PROVE  /\ hist'.touched = hist.touched /\ hist'.found = hist.found
           /\ hist.failed \subseteq hist'.failed
           /\ run'.stopped = run.stopped /\ run'.tmplWritten = run.tmplWritten
           /\ run'.autoChanged = run.autoChanged /\ run'.rebuilt = run.rebuilt
           /\ run'.exposed = run.exposed /\ run'.created = run.created
<1>1. hist \in Histories /\ run \in Runs
  BY DEF TypeOK
<1>2. hist' = hist \/ \E cleaned \in BOOLEAN : hist' = Undone("copies", cleaned)
  BY DEF VerifyCopy
<1>3. /\ hist'.touched = hist.touched /\ hist'.found = hist.found
      /\ hist.failed \subseteq hist'.failed
  <2>1. CASE hist' = hist
    BY <2>1
  <2>2. ASSUME NEW cleaned \in BOOLEAN, hist' = Undone("copies", cleaned) PROVE <1>3!:
    BY <1>1, <2>2, UndoneKeeps
  <2>3. QED
    BY <1>2, <2>1, <2>2
<1>4. QED
  BY <1>1, <1>3 DEF VerifyCopy, Runs

(* The template, step by step.                                              *)
LEMMA TemplateInductive ==
    ASSUME TypeOK, AtSource, ~hist.touched => TemplateBack, FailedMeansUndone,
           [Next]_vars, ~hist'.touched
    PROVE  TemplateBack'
<1>0. /\ hist \in Histories /\ run \in Runs
      /\ phase \in {"idle"} \cup Steps \cup Rollback \cup Ended
  BY DEF TypeOK
<1> USE <1>0 DEF TemplateBack, Early, Ready, BeforeRebuild, Undoing, Rebuilt, Steps, Rollback,
                 Ended, host, Go, FailPhase
<1>1. CASE PlanRun
  BY <1>1 DEF PlanRun, Snapshot, FreshRun
<1>2. CASE Probe \/ PickVolume
  BY <1>2 DEF Probe, AfterProbe, PickVolume
<1>3. CASE Stop \/ StopRecord \/ CreateVolume \/ BeginCopy \/ CopyData \/ SaveInspect
  <2>1. run'.tmplWritten = run.tmplWritten
    BY <1>3 DEF Stop, StopRecord, CreateVolume, BeginCopy, CopyData, SaveInspect, Runs
  <2>2. QED
    BY <1>3, <2>1 DEF Stop, StopRecord, CreateVolume, BeginCopy, CopyData, SaveInspect
<1>4. CASE VerifyCopy
  BY <1>4 DEF VerifyCopy, Undone, Runs, Histories
<1>5. CASE WriteTemplate
  <2>1. Outcomes("write") = {"ok", "fail"}
    BY DEF Outcomes, FailedMeansUndone
  <2>2. QED
    BY <1>5, <2>1 DEF WriteTemplate, AfterWrite, ToRebuild, Runs
<1>6. CASE SetAutostartBefore
  BY <1>6 DEF SetAutostartBefore, ToRebuild, Runs
<1>7. CASE ExposeCopy
  BY <1>7 DEF ExposeCopy, Runs
<1>8. CASE EnsureStopped
  BY <1>8 DEF EnsureStopped, Histories
<1>9. CASE Apply /\ phase \in Rebuilt \cup {"rebuild"}
  BY <1>9, NoWayBack
<1>10. CASE RestoreTemplate
  <2>1. PICK ok \in IF run.tmplWritten THEN BOOLEAN ELSE {TRUE} :
          /\ tmpl' = IF run.tmplWritten /\ ok THEN bak ELSE tmpl
          /\ hist' = Undone("template", ok)
    BY <1>10 DEF RestoreTemplate, Restored
  <2>2. ~ok => "template" \in hist'.failed
    BY <2>1, UndoneKeeps
  <2>3. hist.touched = hist'.touched /\ phase = "rb_template" /\ phase' = "rb_autostart"
    BY <1>10, <2>1, UndoneKeeps DEF RestoreTemplate
  <2>4. ok => tmpl' = plan.tmpl
    BY <2>1, <2>3 DEF Runs
  <2>5. QED
    BY <1>10, <2>2, <2>3, <2>4 DEF RestoreTemplate
<1>11. CASE RestoreAutostart \/ RemoveCopies \/ CheckCreated \/ RemoveCreated \/ Restart
  <2>1. /\ phase \in Undoing \ {"rb_template"} /\ phase' \in Undoing \ {"rb_template"}
        /\ UNCHANGED <<tmpl, plan>>
    BY <1>11 DEF RestoreAutostart, RemoveCopies, CheckCreated, RemoveCreated, Restart
  <2>2. hist'.touched = hist.touched /\ hist.failed \subseteq hist'.failed
    BY <1>11, UndoNotes DEF RollBack
  <2>3. QED
    BY <2>1, <2>2
<1>12. CASE Environment
  BY <1>12, OthersUntouched
<1>13. CASE UNCHANGED vars
  BY <1>13 DEF vars
<1>14. QED
  BY <1>1, <1>2, <1>3, <1>4, <1>5, <1>6, <1>7, <1>8, <1>9, <1>10, <1>11, <1>12, <1>13
  DEF Next, Apply, RollBack, Rebuild, SetAutostartAfter, EnsureState, VerifyManaged, Icons,
      CheckVolume, RemoveVolume

(* The autostart list.                                                      *)
LEMMA AutostartInductive ==
    ASSUME TypeOK, AtSource, ~hist.touched => AutostartBack, [Next]_vars, ~hist'.touched
    PROVE  AutostartBack'
<1>0. /\ hist \in Histories /\ run \in Runs
      /\ phase \in {"idle"} \cup Steps \cup Rollback \cup Ended
  BY DEF TypeOK
<1> USE <1>0 DEF AutostartBack, Early, Ready, BeforeRebuild, Undoing, Rebuilt, Steps, Rollback,
                 Ended, host, Go, FailPhase
<1>1. CASE PlanRun
  BY <1>1 DEF PlanRun, Snapshot
<1>2. CASE Probe \/ PickVolume \/ Stop \/ StopRecord \/ CreateVolume \/ BeginCopy \/ CopyData
           \/ SaveInspect
  BY <1>2 DEF Probe, AfterProbe, PickVolume, Stop, StopRecord, CreateVolume, BeginCopy, CopyData,
              SaveInspect
<1>3. CASE VerifyCopy
  BY <1>3, VerifyKeeps DEF VerifyCopy
<1>4. CASE WriteTemplate
  BY <1>4 DEF WriteTemplate, AfterWrite, ToRebuild
<1>5. CASE SetAutostartBefore
  BY <1>5 DEF SetAutostartBefore, ToRebuild, Runs
<1>6. CASE ExposeCopy
  BY <1>6 DEF ExposeCopy, Runs
<1>7. CASE EnsureStopped
  BY <1>7 DEF EnsureStopped, Histories
<1>8. CASE Apply /\ phase \in Rebuilt \cup {"rebuild"}
  BY <1>8, NoWayBack
<1>9. CASE RestoreTemplate
  <2>1. hist'.touched = hist.touched
    BY <1>9, UndoNotes DEF RollBack
  <2>2. QED
    BY <1>9, <2>1 DEF RestoreTemplate
<1>10. CASE RestoreAutostart
  <2>1. PICK ok \in IF run.autoChanged THEN BOOLEAN ELSE {TRUE} :
          /\ autostart' = IF run.autoChanged /\ ok THEN plan.inAuto ELSE autostart
          /\ hist' = Undone("autostart", ok)
    BY <1>10 DEF RestoreAutostart
  <2>2. (~ok => "autostart" \in hist'.failed) /\ hist'.touched = hist.touched
    BY <2>1, UndoneKeeps
  <2>3. QED
    BY <1>10, <2>1, <2>2 DEF RestoreAutostart, Runs
<1>11. CASE RemoveCopies \/ CheckCreated \/ RemoveCreated \/ Restart
  <2>1. /\ phase \in Undoing \ {"rb_template", "rb_autostart"}
        /\ phase' \in Undoing \ {"rb_template", "rb_autostart"}
        /\ UNCHANGED <<autostart, plan>>
    BY <1>11 DEF RemoveCopies, CheckCreated, RemoveCreated, Restart
  <2>2. hist'.touched = hist.touched /\ hist.failed \subseteq hist'.failed
    BY <1>11, UndoNotes DEF RollBack
  <2>3. QED
    BY <2>1, <2>2
<1>12. CASE Environment
  BY <1>12, OthersUntouched
<1>13. CASE UNCHANGED vars
  BY <1>13 DEF vars
<1>14. QED
  BY <1>1, <1>2, <1>3, <1>4, <1>5, <1>6, <1>7, <1>8, <1>9, <1>10, <1>11, <1>12, <1>13
  DEF Next, Apply, RollBack, Rebuild, SetAutostartAfter, EnsureState, VerifyManaged, Icons,
      CheckVolume, RemoveVolume

(* The running state.                                                       *)
LEMMA PowerInductive ==
    ASSUME TypeOK, AtSource, ~hist.touched => PowerBack, FailedMeansUndone, [Next]_vars,
           ~hist'.touched
    PROVE  PowerBack'
<1>0. /\ hist \in Histories /\ run \in Runs /\ ctr \in Containers /\ plan \in Plans
      /\ phase \in {"idle"} \cup Steps \cup Rollback \cup Ended
  BY DEF TypeOK
<1>00. ctr.up \in BOOLEAN /\ plan.wasUp \in BOOLEAN
  BY <1>0 DEF Containers, Plans
<1> USE <1>0, <1>00 DEF PowerBack, BeforeRebuild, Undoing, Rebuilt, Steps, Rollback, Ended, host,
                 Go, FailPhase
<1>1. CASE PlanRun
  BY <1>1 DEF PlanRun, Snapshot
<1>2. CASE Probe
  BY <1>2 DEF Probe, AfterProbe
<1>3. CASE Stop
  <2>1. Outcomes("stop") = {"ok", "fail"}
    BY DEF Outcomes, FailedMeansUndone
  <2>2. PICK r \in {"ok", "fail"} : /\ ctr' = IF r = "fail" THEN ctr ELSE Stopped(ctr)
                                    /\ run' = [run EXCEPT !.stopped = r = "ok"]
                                    /\ Go(r, "stopRecord")
    BY <1>3, <2>1 DEF Stop
  <2>3. run'.stopped = (r = "ok")
    BY <2>2 DEF Runs
  <2>4. QED
    BY <1>3, <2>2, <2>3 DEF Stop
<1>4. CASE StopRecord \/ PickVolume \/ CreateVolume \/ BeginCopy \/ CopyData \/ SaveInspect
           \/ WriteTemplate \/ SetAutostartBefore \/ ExposeCopy
  <2>1. run'.stopped = run.stopped
    BY <1>4 DEF StopRecord, PickVolume, CreateVolume, BeginCopy, CopyData, SaveInspect,
                WriteTemplate, SetAutostartBefore, ExposeCopy, Runs
  <2>2. UNCHANGED <<ctr, plan, hist>> /\ phase \in BeforeRebuild \ {"probe", "stop"}
        /\ phase' \in {"recovery"} \cup ((BeforeRebuild \cup Rollback) \ {"probe", "stop"})
    BY <1>4 DEF StopRecord, PickVolume, CreateVolume, BeginCopy, CopyData, SaveInspect,
                WriteTemplate, SetAutostartBefore, ExposeCopy, AfterWrite, ToRebuild
  <2>3. QED
    BY <2>1, <2>2
<1>5. CASE VerifyCopy
  <2>1. run'.stopped = run.stopped /\ hist'.touched = hist.touched
    BY <1>5, VerifyKeeps
  <2>2. QED
    BY <1>5, <2>1 DEF VerifyCopy
<1>6. CASE EnsureStopped
  BY <1>6 DEF EnsureStopped, Histories
<1>7. CASE Apply /\ phase \in Rebuilt \cup {"rebuild"}
  BY <1>7, NoWayBack
<1>8. CASE RestoreTemplate \/ RestoreAutostart \/ RemoveCopies \/ CheckCreated \/ RemoveCreated
  <2>1. phase \in Rollback /\ phase' \in Rollback /\ UNCHANGED <<ctr, plan, run>>
    BY <1>8 DEF RestoreTemplate, RestoreAutostart, RemoveCopies, CheckCreated, RemoveCreated
  <2>2. hist'.touched = hist.touched
    BY <1>8, UndoNotes DEF RollBack
  <2>3. QED
    BY <2>1, <2>2
<1>9. CASE Restart
  <2>1. PICK ok \in IF run.stopped /\ plan.wasUp THEN BOOLEAN ELSE {TRUE} :
          /\ ctr' = IF run.stopped /\ plan.wasUp /\ ok THEN Started(ctr) ELSE ctr
          /\ hist' = Undone("start", ok)
    BY <1>9 DEF Restart
  <2>2. (~ok => "start" \in hist'.failed) /\ hist'.touched = hist.touched
    BY <2>1, UndoneKeeps
  <2>3. Started(ctr).up = TRUE
    BY DEF Started, Containers
  <2>4. QED
    BY <1>9, <2>1, <2>2, <2>3 DEF Restart
<1>10. CASE Environment
  BY <1>10, OthersUntouched
<1>11. CASE UNCHANGED vars
  BY <1>11 DEF vars
<1>12. QED
  BY <1>1, <1>2, <1>3, <1>4, <1>5, <1>6, <1>7, <1>8, <1>9, <1>10, <1>11
  DEF Next, Apply, RollBack, Rebuild, SetAutostartAfter, EnsureState, VerifyManaged, Icons,
      CheckVolume, RemoveVolume

(* The stages: one that is there is on the list of the ones to remove, or   *)
(* is the one being filled.                                                 *)
LEMMA StageInductive ==
    ASSUME TypeOK, AtSource, ~Migrate => stage = AllAbsent, ~hist.touched => StageBack,
           FailedMeansUndone, [Next]_vars, ~hist'.touched
    PROVE  StageBack'
<1>0. /\ hist \in Histories /\ run \in Runs /\ stage \in [Vols -> Places] /\ cur \in Vols
      /\ phase \in {"idle"} \cup Steps \cup Rollback \cup Ended
  BY DEF TypeOK
<1> USE <1>0 DEF StageBack, Early, BeforeRebuild, Undoing, Rebuilt, Steps, Rollback,
                 Ended, host, Go, FailPhase
<1>1. CASE PlanRun
  BY <1>1 DEF PlanRun, FreshRun, AllAbsent
<1>2. CASE Probe \/ PickVolume
  BY <1>2 DEF Probe, AfterProbe, PickVolume
<1>3. CASE Stop \/ StopRecord \/ CreateVolume \/ CopyData \/ SaveInspect \/ WriteTemplate
           \/ SetAutostartBefore
  <2>1. run'.copies = run.copies /\ run'.exposed = run.exposed
    BY <1>3 DEF Stop, StopRecord, CreateVolume, CopyData, SaveInspect, WriteTemplate,
                SetAutostartBefore, Runs
  <2>2. UNCHANGED <<hist, cur>> /\ \A v \in Vols : stage'[v] # Absent => stage[v] # Absent \/ v = cur
    BY <1>3 DEF Stop, StopRecord, CreateVolume, CopyData, SaveInspect, WriteTemplate,
                SetAutostartBefore
  <2>3. \/ /\ phase \in BeforeRebuild \ {"created", "verifying", "expose"}
           /\ phase' \in (BeforeRebuild \ {"created", "verifying"}) \cup {"rb_template", "recovery"}
           /\ phase' \in Early => phase \in Early
           /\ stage' = stage
        \/ phase = "created" /\ phase' = "verifying"
    BY <1>3 DEF Stop, StopRecord, CreateVolume, CopyData, SaveInspect, WriteTemplate,
                SetAutostartBefore, AfterWrite, ToRebuild
  <2>4. QED
    BY <2>1, <2>2, <2>3
<1>4. CASE BeginCopy
  <2>1. run'.copies = run.copies /\ run'.exposed = run.exposed
    BY <1>4 DEF BeginCopy, Runs
  <2>2. QED
    BY <1>4, <2>1 DEF BeginCopy
<1>5. CASE VerifyCopy
  <2>1. run'.exposed = run.exposed /\ hist'.touched = hist.touched /\ hist.failed \subseteq hist'.failed
    BY <1>5, VerifyKeeps
  <2> SUFFICES ASSUME Migrate PROVE StageBack'
    <3>1. ASSUME ~Migrate, NEW v \in Vols PROVE stage'[v] = Absent
      BY <1>5, <3>1 DEF VerifyCopy, AllAbsent
    <3>2. phase = "verifying"
      BY <1>5 DEF VerifyCopy
    <3>3. QED
      BY <2>1, <3>1, <3>2
  <2>2. Outcomes("copy") \ {"fail"} = {"ok"}
    BY DEF Outcomes, FailedMeansUndone
  <2>3. \/ /\ phase' = "copy" /\ UNCHANGED <<stage, hist>>
           /\ run' = [run EXCEPT !.manifests[cur] = run.base,
                                 !.copies = IF Migrate THEN @ \cup {cur} ELSE @]
        \/ \E cleaned \in BOOLEAN :
             /\ phase' = "rb_template" /\ run' = run /\ hist' = Undone("copies", cleaned)
             /\ stage' = IF cleaned THEN [stage EXCEPT ![cur] = Absent] ELSE stage
    BY <1>5, <2>2 DEF VerifyCopy
  <2>4. ASSUME run' = [run EXCEPT !.manifests[cur] = run.base,
                                  !.copies = IF Migrate THEN @ \cup {cur} ELSE @]
        PROVE  run.copies \subseteq run'.copies /\ (Migrate => cur \in run'.copies)
    BY <2>4 DEF Runs
  <2>5. run.copies \subseteq run'.copies
    BY <2>3, <2>4
  <2>6. CASE phase' = "copy"
    <3>1. stage' = stage /\ (Migrate => cur \in run'.copies)
      BY <2>3, <2>4, <2>6
    <3>2. phase = "verifying"
      BY <1>5 DEF VerifyCopy
    <3>3. run.exposed = {}
      BY <2>1, <3>2
    <3>4. ASSUME NEW v \in Vols, stage'[v] # Absent
          PROVE  v \in run'.copies \ run'.exposed \/ "copies" \in hist'.failed
      <4>1. Migrate
        BY <3>1, <3>4 DEF AllAbsent
      <4>2. v \in run.copies \/ "copies" \in hist.failed \/ v = cur
        BY <2>1, <3>1, <3>2, <3>4
      <4>3. QED
        BY <2>1, <2>5, <3>1, <3>3, <4>1, <4>2
    <3>5. QED
      BY <2>1, <2>6, <3>3, <3>4
  <2>7. CASE phase' = "rb_template"
    <3>1. phase = "verifying"
      BY <1>5 DEF VerifyCopy
    <3>2. PICK cleaned \in BOOLEAN :
            /\ run' = run /\ hist' = Undone("copies", cleaned)
            /\ stage' = IF cleaned THEN [stage EXCEPT ![cur] = Absent] ELSE stage
      BY <2>3, <2>7
    <3>3. ~cleaned => "copies" \in hist'.failed
      BY <3>2, UndoneKeeps
    <3>4. QED
      BY <2>1, <2>7, <3>1, <3>2, <3>3
  <2>8. QED
    BY <2>3, <2>6, <2>7
<1>6. CASE ExposeCopy
  <2>1. Outcomes("expose") = {"ok", "fail"}
    BY <1>6 DEF ExposeCopy, AtSource, Outcomes, FailedMeansUndone
  <2>2. phase = "expose" /\ hist' = hist
    BY <1>6 DEF ExposeCopy
  <2>3. CASE phase' = "check" /\ UNCHANGED <<stage, run>>
    BY <2>2, <2>3
  <2>4. ASSUME NEW v \in Vols, NEW r \in {"ok", "fail"},
               IF r = "fail" THEN stage' = stage ELSE stage' = [stage EXCEPT ![v] = Absent],
               run' = [run EXCEPT !.exposed = IF r = "ok" THEN @ \cup {v} ELSE @],
               phase' = IF r = "ok" THEN "expose" ELSE "rb_template"
        PROVE  StageBack'
    <3>1. /\ run'.copies = run.copies
          /\ run'.exposed = IF r = "ok" THEN run.exposed \cup {v} ELSE run.exposed
      BY <2>4 DEF Runs
    <3>2. QED
      BY <2>2, <2>4, <3>1
  <2>5. QED
    BY <1>6, <2>1, <2>3, <2>4 DEF ExposeCopy, TypeOK
<1>7. CASE EnsureStopped
  BY <1>7 DEF EnsureStopped, Histories
<1>8. CASE Apply /\ phase \in Rebuilt \cup {"rebuild"}
  BY <1>8, NoWayBack
<1>9. CASE RestoreTemplate \/ RestoreAutostart
  <2>1. hist'.touched = hist.touched /\ hist.failed \subseteq hist'.failed
    BY <1>9, UndoNotes DEF RollBack
  <2>2. QED
    BY <1>9, <2>1 DEF RestoreTemplate, RestoreAutostart
<1>10. CASE RemoveCopies
  <2>1. phase = "rb_copies" /\ phase' \in {"rb_copies", "rb_created"} /\ run' = run
    BY <1>10 DEF RemoveCopies
  <2>2. hist'.touched = hist.touched /\ hist.failed \subseteq hist'.failed
    BY <1>10, UndoNotes DEF RollBack
  <2>3. CASE todo = {} /\ stage' = stage
    BY <2>1, <2>2, <2>3
  <2>4. ASSUME NEW v \in todo, NEW ok \in BOOLEAN, todo' = todo \ {v}, phase' = phase,
               stage' = IF ok THEN [stage EXCEPT ![v] = Absent] ELSE stage,
               hist' = Undone("copies", ok)
        PROVE  StageBack'
    <3>1. ~ok => "copies" \in hist'.failed
      BY <2>4, UndoneKeeps
    <3>2. QED
      BY <2>1, <2>2, <2>4, <3>1
  <2>5. QED
    BY <1>10, <2>3, <2>4 DEF RemoveCopies
<1>11. CASE CheckCreated \/ RemoveCreated \/ Restart
  <2>1. /\ phase \in {"rb_created", "rb_removing", "rb_start"}
        /\ phase' \in {"rb_created", "rb_removing", "rb_start", "rolledback"}
        /\ UNCHANGED stage
    BY <1>11 DEF CheckCreated, RemoveCreated, Restart
  <2>2. hist'.touched = hist.touched /\ hist.failed \subseteq hist'.failed
    BY <1>11, UndoNotes DEF RollBack
  <2>3. QED
    BY <2>1, <2>2
<1>12. CASE Environment
  BY <1>12, OthersUntouched
<1>13. CASE UNCHANGED vars
  BY <1>13 DEF vars
<1>14. QED
  BY <1>1, <1>2, <1>3, <1>4, <1>5, <1>6, <1>7, <1>8, <1>9, <1>10, <1>11, <1>12, <1>13
  DEF Next, Apply, RollBack, Rebuild, SetAutostartAfter, EnsureState, VerifyManaged, Icons,
      CheckVolume, RemoveVolume

(* The volumes it created: one that holds something is on the list of the   *)
(* ones to remove.                                                          *)
LEMMA CreatedInductive ==
    ASSUME TypeOK, AtSource, ~hist.touched => CreatedBack, FailedMeansUndone,
           [Next]_vars, ~hist'.touched
    PROVE  CreatedBack'
<1>0. /\ hist \in Histories /\ run \in Runs /\ dst \in [Vols -> Places] /\ cur \in Vols
      /\ plan \in Plans /\ phase \in {"idle"} \cup Steps \cup Rollback \cup Ended
  BY DEF TypeOK
<1>00. plan.moved \subseteq Vols
  BY <1>0 DEF Plans
<1> USE <1>0, <1>00 DEF CreatedBack, AsFound, BeforeRebuild, Undoing, Rebuilt, Steps, Rollback,
                 Ended, host, Go, FailPhase
<1>1. CASE PlanRun
  <2>1. hist'.found = dst
    BY <1>1 DEF PlanRun, Histories
  <2>2. QED
    BY <1>1, <2>1 DEF PlanRun
<1>2. CASE Probe \/ PickVolume
  BY <1>2 DEF Probe, AfterProbe, PickVolume
<1>3. CASE Stop \/ StopRecord \/ SaveInspect \/ WriteTemplate \/ SetAutostartBefore
  <2>1. run'.created = run.created /\ run'.exposed = run.exposed
    BY <1>3 DEF Stop, StopRecord, SaveInspect, WriteTemplate, SetAutostartBefore, Runs
  <2>2. /\ UNCHANGED <<hist, dst, plan>>
        /\ phase \in BeforeRebuild \ {"copying", "created", "verifying"}
        /\ phase' \in (BeforeRebuild \ {"copying", "created", "verifying"})
                       \cup {"rb_template", "recovery"}
    BY <1>3 DEF Stop, StopRecord, SaveInspect, WriteTemplate, SetAutostartBefore, AfterWrite,
                ToRebuild
  <2>3. QED
    BY <2>1, <2>2
<1>4. CASE CreateVolume
  <2>1. /\ run'.exposed = run.exposed /\ run.created \subseteq run'.created
        /\ phase' = "copying" => cur \in run'.created
    <3>1. CASE run' = [run EXCEPT !.created = @ \cup {cur}, !.births[cur] = birth'[cur]]
      BY <3>1 DEF Runs
    <3>2. CASE run' = run /\ phase' = "rb_template"
      BY <3>2
    <3>3. QED
      BY <1>4, <3>1, <3>2 DEF CreateVolume
  <2>2. \A v \in Vols : dst'[v] = dst[v] \/ dst'[v] = Empty
    BY <1>4 DEF CreateVolume
  <2>3. /\ phase = "creating" /\ phase' \in {"copying", "rb_template"}
        /\ UNCHANGED <<plan, hist, cur>>
    BY <1>4 DEF CreateVolume
  <2>4. \A v \in Vols : AsFound(v) => AsFound(v)'
    BY <2>2, <2>3
  <2>5. QED
    BY <2>1, <2>3, <2>4
<1>5. CASE BeginCopy
  <2>1. run'.created = run.created /\ run'.exposed = run.exposed
    BY <1>5 DEF BeginCopy, Runs
  <2>2. QED
    BY <1>5, <2>1 DEF BeginCopy
<1>6. CASE CopyData
  BY <1>6 DEF CopyData
<1>7. CASE VerifyCopy
  <2>1. \A v \in Vols : dst'[v] = dst[v] \/ dst'[v] = Empty
    BY <1>7 DEF VerifyCopy
  <2>2. /\ phase = "verifying" /\ phase' \in {"copy", "rb_template", "recovery"}
        /\ UNCHANGED plan
    BY <1>7 DEF VerifyCopy
  <2>3. \A v \in Vols : AsFound(v) => AsFound(v)'
    BY <1>7, <2>1, VerifyKeeps
  <2>4. QED
    BY <1>7, <2>2, <2>3, VerifyKeeps
<1>8. CASE ExposeCopy
  <2>1. Outcomes("expose") = {"ok", "fail"}
    BY <1>8 DEF ExposeCopy, AtSource, Outcomes, FailedMeansUndone
  <2>2. phase = "expose" /\ hist' = hist /\ UNCHANGED plan
    BY <1>8 DEF ExposeCopy
  <2>3. CASE phase' = "check" /\ UNCHANGED <<dst, run>>
    BY <2>2, <2>3
  <2>4. ASSUME NEW v \in Vols, NEW r \in {"ok", "fail"},
               IF r = "fail" THEN dst' = dst ELSE dst' = [dst EXCEPT ![v] = stage[v]],
               run' = [run EXCEPT !.exposed = IF r = "ok" THEN @ \cup {v} ELSE @],
               phase' = IF r = "ok" THEN "expose" ELSE "rb_template"
        PROVE  CreatedBack'
    <3>1. /\ run'.created = run.created
          /\ run'.exposed = IF r = "ok" THEN run.exposed \cup {v} ELSE run.exposed
      BY <2>4 DEF Runs
    <3>2. QED
      BY <2>2, <2>4, <3>1
  <2>5. QED
    BY <1>8, <2>1, <2>3, <2>4 DEF ExposeCopy, TypeOK
<1>9. CASE EnsureStopped
  <2>1. hist'.touched = hist.touched /\ hist'.found = hist.found /\ hist'.failed = hist.failed
    BY <1>9 DEF EnsureStopped, Histories
  <2>2. QED
    BY <1>9, <2>1 DEF EnsureStopped
<1>10. CASE Apply /\ phase \in Rebuilt \cup {"rebuild"}
  BY <1>10, NoWayBack
<1>11. CASE RestoreTemplate \/ RestoreAutostart
  BY <1>11, UndoNotes DEF RestoreTemplate, RestoreAutostart, RollBack
<1>12. CASE RemoveCopies
  BY <1>12, UndoNotes DEF RemoveCopies, RollBack
<1>13. CASE CheckCreated
  <2>1. phase = "rb_created" /\ UNCHANGED <<dst, plan, run>>
    BY <1>13 DEF CheckCreated
  <2>2. /\ hist'.touched = hist.touched /\ hist'.found = hist.found
        /\ hist.failed \subseteq hist'.failed
    BY <1>13, UndoNotes DEF RollBack
  <2>3. CASE todo = {} /\ phase' = "rb_start"
    BY <2>1, <2>2, <2>3
  <2>4. CASE hist' = Undone("copies", FALSE) /\ phase' = phase
    <3>1. "copies" \in hist'.failed
      BY <2>4, FALSE \in BOOLEAN, UndoneKeeps
    <3>2. QED
      BY <2>1, <2>2, <2>4, <3>1
  <2>5. CASE phase' = "rb_removing" /\ \E v \in todo : cur' = v /\ todo' = todo \ {v}
    BY <2>1, <2>2, <2>5
  <2>6. QED
    BY <1>13, <2>3, <2>4, <2>5 DEF CheckCreated
<1>14. CASE RemoveCreated
  <2>1. phase = "rb_removing" /\ phase' = "rb_created" /\ UNCHANGED <<plan, run, todo>>
    BY <1>14 DEF RemoveCreated
  <2>2. /\ hist'.touched = hist.touched /\ hist'.found = hist.found
        /\ hist.failed \subseteq hist'.failed
    BY <1>14, UndoNotes DEF RollBack
  <2>3. PICK ok \in BOOLEAN : /\ dst' = IF ok THEN [dst EXCEPT ![cur] = Absent] ELSE dst
                              /\ hist' = Undone("copies", ok)
    BY <1>14 DEF RemoveCreated
  <2>4. ~ok => "copies" \in hist'.failed
    BY <2>3, UndoneKeeps
  <2>5. QED
    BY <2>1, <2>2, <2>3, <2>4
<1>15. CASE Restart
  BY <1>15, UndoNotes DEF Restart, RollBack
<1>16. CASE Environment
  BY <1>16, OthersUntouched DEF AtSource
<1>17. CASE UNCHANGED vars
  BY <1>17 DEF vars
<1>18. QED
  BY <1>1, <1>2, <1>3, <1>4, <1>5, <1>6, <1>7, <1>8, <1>9, <1>10, <1>11, <1>12, <1>13, <1>14,
     <1>15, <1>16, <1>17
  DEF Next, Apply, RollBack, Rebuild, SetAutostartAfter, EnsureState, VerifyManaged, Icons,
      CheckVolume, RemoveVolume

(* A failure before the rebuild leaves the host as the run found it, when   *)
(* nobody else touched it and a failed stop or write, or a failed copy or   *)
(* exposure of a migration, changed nothing: each item is put back unless   *)
(* its own undo failed (mod.rs rollback and ApplyState).                    *)
THEOREM FailuresAreUndone == FailedMeansUndone => (Spec => []RollbackRestores)
<1> SUFFICES ASSUME FailedMeansUndone PROVE Spec => []RollbackRestores
  OBVIOUS
<1>1. Init => RestoreInv
  BY DEF Init, RestoreInv, AtSource, TemplateBack, AutostartBack, PowerBack, StageBack,
         CreatedBack, BeforeRebuild, Undoing, Rebuilt, Rollback, Early, Ready, Steps, AllAbsent
<1>2. WritesKeptInv /\ RestoreInv /\ [Next]_vars => RestoreInv'
  <2> SUFFICES ASSUME WritesKeptInv, RestoreInv, [Next]_vars PROVE RestoreInv'
    OBVIOUS
  <2>1. TypeOK /\ (~Migrate => stage = AllAbsent)
    BY DEF WritesKeptInv, CopyHolds
  <2>2. AtSource'
    BY <2>1, AtSourceInductive DEF RestoreInv
  <2>3. ASSUME ~hist'.touched PROVE /\ TemplateBack' /\ AutostartBack' /\ PowerBack'
                                    /\ StageBack' /\ CreatedBack'
    BY <2>1, <2>3, TemplateInductive, AutostartInductive, PowerInductive, StageInductive,
       CreatedInductive DEF RestoreInv
  <2>4. QED
    BY <2>2, <2>3 DEF RestoreInv
<1>3. TypeOK /\ RestoreInv => RollbackRestores
  <2> SUFFICES ASSUME TypeOK, RestoreInv, phase = "rolledback", ~hist.touched
               PROVE  RollbackRestores
    BY DEF RollbackRestores
  <2> USE DEF Undoing, Rollback
  <2>1. /\ "template" \in hist.failed \/ tmpl = plan.tmpl
        /\ "autostart" \in hist.failed \/ autostart = plan.inAuto
        /\ "start" \in hist.failed \/ ctr.up = plan.wasUp
    BY DEF RestoreInv, TemplateBack, AutostartBack, PowerBack
  <2>2. "copies" \notin hist.failed => stage = AllAbsent
    BY DEF RestoreInv, StageBack, TypeOK, AllAbsent
  <2>3. "copies" \notin hist.failed =>
          \A v \in plan.moved \ (run.exposed \cup plan.reuse) : AsFound(v)
    BY DEF RestoreInv, CreatedBack
  <2>4. QED
    BY <2>1, <2>2, <2>3 DEF RollbackRestores, AsFound
<1>4. WritesKeptInv => TypeOK
  BY DEF WritesKeptInv
<1>5. QED
  BY <1>1, <1>2, <1>3, <1>4, WritesKeptInit, WritesKeptInductive, PTL DEF Spec
=============================================================================

--------------------------- MODULE RootSideProofs ---------------------------
(* What the root side removes is of no use to anybody, what a plan says is  *)
(* retired is, and a staged copy is whole or gone: for every set of         *)
(* containers, of runs and of other people's directories.                   *)
EXTENDS MCRootSide, FiniteSetTheorems, TLAPS

(* Leftovers.  A directory has the number it was deployed under.            *)
Ids == {0, 1} \cup {1 + Left!Cardinality(S) : S \in SUBSET Ctrs}
Checking == {"members", "binds", "move"}
Rebuilt == {"net", "rm", "stack"} \cup Checking
LeftPcs == {"idle", "planned", "failed", "refused", "ended"} \cup Rebuilt
Late == {"net", "stack", "member", "bind"}

CtrRecords == [there : BOOLEAN, proj : BOOLEAN, net : BOOLEAN, up : BOOLEAN, bind : Left!Binds]
StackRecords == [id : Ids, file : {"mine", "other", None}]
OpRecords == [pc : LeftPcs, net : BOOLEAN, retire : BOOLEAN, held : Ids, late : SUBSET Late,
              changed : BOOLEAN]

LeftType ==
    /\ ctr \in [Ctrs -> CtrRecords] /\ net \in BOOLEAN
    /\ stack \in StackRecords /\ retired \in [Ctrs -> Ids] /\ site \in Left!Sites
    /\ lop \in [Ctrs -> OpRecords] /\ lbudget \in 0 .. EnvBudget

GoneIsBlank ==
    /\ \A o \in Ctrs : ~ctr[o].there => ctr[o] = Left!NoCtr
    /\ stack.id = 0 => stack.file = None

NobodyAttached == \A o \in Ctrs : ~(ctr[o].there /\ ctr[o].net)
NoMemberBut(r) == \A o \in Ctrs : ctr[o].there /\ ctr[o].proj => o = r
NoMember == \A o \in Ctrs : ~(ctr[o].there /\ ctr[o].proj)
NoBindUnder == \A o \in Ctrs : ~(ctr[o].there /\ ctr[o].bind \in {"under", "underByPool"})

(* What a step has checked stands, or what changed it came later.           *)
CheckedStands ==
    \A r \in Ctrs :
        /\ lop[r].pc = "rm" => "net" \in lop[r].late \/ NobodyAttached
        /\ lop[r].pc \in Checking =>
             "stack" \in lop[r].late \/ stack.id = 0 \/ stack.id = lop[r].held
        /\ lop[r].pc \in {"binds", "move"} => "member" \in lop[r].late \/ NoMember
        /\ lop[r].pc = "move" => "bind" \in lop[r].late \/ NoBindUnder

(* What the plan found stands while nothing changes: root's checks find it  *)
(* again.                                                                   *)
PlanStands ==
    \A r \in Ctrs :
        /\ lop[r].pc \in {"stack"} \cup Checking => lop[r].retire
        /\ lop[r].pc \in {"planned"} \cup Rebuilt /\ lop[r].retire /\ ~lop[r].changed =>
             /\ stack.file # None /\ (site.byDir \/ stack.file = "mine")
             /\ NoBindUnder /\ site.owned /\ NoMemberBut(r)
             /\ lop[r].pc \in Rebuilt => NoMember
        /\ lop[r].pc = "refused" => lop[r].changed \/ site.link \/ retired[r] # 0

LeftInv == LeftType /\ GoneIsBlank /\ CheckedStands /\ PlanStands

(* Who acts on the host, and what a run then knows.                         *)
LEMMA ActsNotes ==
    ASSUME LeftType, NEW kinds \in SUBSET Late, Left!Acts(kinds)
    PROVE  /\ UNCHANGED site /\ lbudget' \in 0 .. EnvBudget
           /\ lop' \in [Ctrs -> OpRecords]
           /\ \A r \in Ctrs :
                /\ lop'[r].pc = lop[r].pc /\ lop'[r].held = lop[r].held
                /\ lop'[r].retire = lop[r].retire /\ lop[r].late \subseteq lop'[r].late
                /\ \A k \in kinds : Left!After(r, k) => k \in lop'[r].late
                /\ lop[r].changed => lop'[r].changed
                /\ lop[r].pc # "idle" => lop'[r].changed
<1>0. lbudget' = lbudget - 1 /\ lbudget > 0 /\ UNCHANGED site
  BY DEF Left!Acts
<1>1. lbudget' \in 0 .. EnvBudget
  BY <1>0, ConstantsAssumption DEF LeftType
<1>2. ASSUME NEW r \in Ctrs
      PROVE  lop'[r] = [lop[r] EXCEPT !.late = @ \cup {k \in kinds : Left!After(r, k)},
                                      !.changed = @ \/ lop[r].pc # "idle"]
  BY DEF Left!Acts, Left!At, LeftType
<1>3. DOMAIN lop' = Ctrs /\ lop' = [r \in Ctrs |-> lop'[r]]
  BY DEF Left!Acts
<1>4. ASSUME NEW r \in Ctrs
      PROVE  /\ lop'[r] \in OpRecords
             /\ lop'[r].pc = lop[r].pc /\ lop'[r].held = lop[r].held
             /\ lop'[r].retire = lop[r].retire
             /\ lop'[r].late = lop[r].late \cup {k \in kinds : Left!After(r, k)}
             /\ lop'[r].changed = (lop[r].changed \/ lop[r].pc # "idle")
  <2> DEFINE new == {k \in kinds : Left!After(r, k)}
  <2>1. lop[r] \in OpRecords /\ new \in SUBSET Late
    BY DEF LeftType
  <2>2. lop'[r] = [lop[r] EXCEPT !.late = @ \cup new, !.changed = @ \/ lop[r].pc # "idle"]
    BY <1>2
  <2> HIDE DEF new
  <2>3. QED
    BY <2>1, <2>2 DEF OpRecords, new
<1>5. lop' \in [Ctrs -> OpRecords]
  BY <1>3, <1>4
<1>6. QED
  BY <1>0, <1>1, <1>4, <1>5

(* A run goes on, and nothing else about it changes.                        *)
LEMMA GoesNotes ==
    ASSUME LeftType, NEW r \in Ctrs, NEW pc \in LeftPcs, Left!Goes(r, pc)
    PROVE  /\ lop' \in [Ctrs -> OpRecords]
           /\ \A q \in Ctrs \ {r} : lop'[q] = lop[q]
           /\ lop'[r].pc = pc /\ lop'[r].net = lop[r].net /\ lop'[r].retire = lop[r].retire
           /\ lop'[r].held = lop[r].held /\ lop'[r].late = lop[r].late
           /\ lop'[r].changed = lop[r].changed
<1>1. lop \in [Ctrs -> OpRecords] /\ lop[r] \in OpRecords
  BY DEF LeftType
<1>2. lop' = [lop EXCEPT ![r] = [lop[r] EXCEPT !.pc = pc]]
  BY DEF Left!Goes
<1>3. [lop[r] EXCEPT !.pc = pc] \in OpRecords
  BY <1>1 DEF OpRecords
<1>4. lop'[r] = [lop[r] EXCEPT !.pc = pc]
  BY <1>1, <1>2
<1>5. lop'[r].pc = pc /\ lop'[r].net = lop[r].net /\ lop'[r].retire = lop[r].retire
      /\ lop'[r].held = lop[r].held /\ lop'[r].late = lop[r].late
      /\ lop'[r].changed = lop[r].changed
  BY <1>1, <1>4 DEF OpRecords
<1>6. QED
  BY <1>1, <1>2, <1>3, <1>5

LEMMA LeftTypeInductive ==
    ASSUME LeftType, [Left!Next]_leftVars
    PROVE  LeftType'
<1> USE DEF Left!host
<1>1. ASSUME NEW r \in Ctrs, Left!Plan(r) PROVE LeftType'
  <2>1. lop \in [Ctrs -> OpRecords] /\ lop[r] \in OpRecords /\ lop[r].pc = "idle"
        /\ ctr[r].net \in BOOLEAN /\ Left!MayRetire(r) \in BOOLEAN
    BY <1>1 DEF Left!Plan, Left!At, LeftType, CtrRecords, Left!MayRetire
  <2>2. [lop[r] EXCEPT !.pc = "planned", !.net = ctr[r].net, !.retire = Left!MayRetire(r)]
          \in OpRecords
    BY <2>1 DEF OpRecords, LeftPcs
  <2>3. lop' \in [Ctrs -> OpRecords]
    BY <1>1, <2>1, <2>2 DEF Left!Plan
  <2>4. QED
    BY <1>1, <2>3 DEF Left!Plan, LeftType
<1>2. ASSUME NEW r \in Ctrs, Left!Rebuild(r) PROVE LeftType'
  <2>1. ctr' \in [Ctrs -> CtrRecords]
    <3>1. ctr \in [Ctrs -> CtrRecords] /\ ctr[r] \in CtrRecords
      BY DEF LeftType
    <3>2. [ctr[r] EXCEPT !.proj = FALSE, !.net = IF lop[r].net THEN FALSE ELSE @]
            \in CtrRecords
      BY <3>1 DEF CtrRecords
    <3>3. CASE UNCHANGED ctr
      BY <3>1, <3>3
    <3>4. CASE ctr' = [ctr EXCEPT ![r] = [ctr[r] EXCEPT !.proj = FALSE,
                                            !.net = IF lop[r].net THEN FALSE ELSE @]]
      BY <3>1, <3>2, <3>4
    <3>5. QED
      BY <1>2, <3>3, <3>4 DEF Left!Rebuild
  <2>2. lop' \in [Ctrs -> OpRecords]
    BY <1>2, GoesNotes DEF Left!Rebuild, Left!AfterNetwork, LeftPcs, Rebuilt
  <2>3. QED
    BY <1>2, <2>1, <2>2 DEF Left!Rebuild, LeftType
<1>3. ASSUME NEW r \in Ctrs, Left!CheckNetwork(r) \/ Left!RemoveNetwork(r) PROVE LeftType'
  <2>1. lop' \in [Ctrs -> OpRecords]
    BY <1>3, GoesNotes
    DEF Left!CheckNetwork, Left!RemoveNetwork, Left!AfterNetwork, LeftPcs, Rebuilt
  <2>2. QED
    BY <1>3, <2>1 DEF Left!CheckNetwork, Left!RemoveNetwork, LeftType
<1>4. ASSUME NEW r \in Ctrs, Left!OpenStack(r) PROVE LeftType'
  <2>1. lop \in [Ctrs -> OpRecords] /\ lop[r] \in OpRecords /\ stack.id \in Ids
    BY DEF LeftType, StackRecords
  <2>2. [lop[r] EXCEPT !.pc = "members", !.held = stack.id] \in OpRecords
    BY <2>1 DEF OpRecords, LeftPcs, Rebuilt, Checking
  <2>3. CASE Left!Goes(r, "refused")
    BY <1>4, <2>3, GoesNotes DEF Left!OpenStack, LeftType, LeftPcs
  <2>4. CASE lop' = [lop EXCEPT ![r] = [lop[r] EXCEPT !.pc = "members", !.held = stack.id]]
    BY <1>4, <2>1, <2>2, <2>4 DEF Left!OpenStack, LeftType
  <2>5. QED
    BY <1>4, <2>3, <2>4 DEF Left!OpenStack
<1>5. ASSUME NEW r \in Ctrs, Left!CheckMembers(r) \/ Left!CheckBinds(r) PROVE LeftType'
  <2>1. lop' \in [Ctrs -> OpRecords]
    BY <1>5, GoesNotes
    DEF Left!CheckMembers, Left!CheckBinds, LeftPcs, Rebuilt, Checking
  <2>2. QED
    BY <1>5, <2>1 DEF Left!CheckMembers, Left!CheckBinds, LeftType
<1>6. ASSUME NEW r \in Ctrs, Left!RetireStack(r) PROVE LeftType'
  <2> DEFINE moves == site.owned /\ stack.id # 0 /\ retired[r] = 0
  <2>1. CASE ~moves
    <3>1. UNCHANGED <<ctr, net, stack, retired, site, lbudget>> /\ Left!Goes(r, "refused")
      BY <1>6, <2>1 DEF Left!RetireStack
    <3>2. lop' \in [Ctrs -> OpRecords]
      BY <3>1, GoesNotes DEF LeftPcs
    <3>3. QED
      BY <3>1, <3>2 DEF LeftType
  <2>2. CASE moves
    <3>1. /\ retired' = [retired EXCEPT ![r] = stack.id] /\ stack' = Left!NoStack
          /\ lop' = [q \in Ctrs |-> IF q = r THEN [lop[q] EXCEPT !.pc = "ended"]
                                    ELSE [lop[q] EXCEPT !.changed = @ \/ ~Left!At(q, "idle")]]
      BY <1>6, <2>2 DEF Left!RetireStack
    <3>2. ASSUME NEW q \in Ctrs PROVE lop'[q] \in OpRecords
      <4>1. lop[q] \in OpRecords
        BY DEF LeftType
      <4>2. [lop[q] EXCEPT !.pc = "ended"] \in OpRecords
        BY <4>1 DEF OpRecords, LeftPcs
      <4>3. [lop[q] EXCEPT !.changed = @ \/ ~Left!At(q, "idle")] \in OpRecords
        BY <4>1 DEF OpRecords
      <4>4. QED
        BY <3>1, <4>2, <4>3
    <3>3. lop' \in [Ctrs -> OpRecords]
      BY <3>1, <3>2
    <3>4. retired' \in [Ctrs -> Ids] /\ stack' \in StackRecords
      BY <3>1 DEF LeftType, StackRecords, Ids, Left!NoStack, Left!None, None
    <3>5. QED
      BY <1>6, <3>3, <3>4 DEF Left!RetireStack, LeftType
  <2>3. QED
    BY <2>1, <2>2
<1>7. ASSUME NEW r \in Ctrs, Left!Again(r) PROVE LeftType'
  <2>1. Left!Idle \in OpRecords
    BY DEF Left!Idle, OpRecords, LeftPcs, Ids
  <2>2. lop' \in [Ctrs -> OpRecords]
    BY <1>7, <2>1 DEF Left!Again, LeftType
  <2>3. QED
    BY <1>7, <2>2 DEF Left!Again, LeftType
<1>8. ASSUME NEW o \in Ctrs, Left!ComposeUp(o) PROVE LeftType'
  <2>1. PICK isUp \in BOOLEAN, attached \in BOOLEAN :
          /\ ctr' = [ctr EXCEPT ![o] = [Left!NoCtr EXCEPT !.there = TRUE, !.proj = TRUE,
                                                          !.net = attached, !.up = isUp]]
          /\ net' = (net \/ attached)
          /\ Left!Acts({"member"} \cup (IF attached THEN {"net"} ELSE {}))
    BY <1>8 DEF Left!ComposeUp
  <2>2. [Left!NoCtr EXCEPT !.there = TRUE, !.proj = TRUE, !.net = attached, !.up = isUp]
          \in CtrRecords
    BY DEF Left!NoCtr, CtrRecords, Left!Binds, Left!None
  <2>3. ctr' \in [Ctrs -> CtrRecords] /\ net' \in BOOLEAN
    BY <2>1, <2>2 DEF LeftType
  <2>4. ({"member"} \cup (IF attached THEN {"net"} ELSE {})) \in SUBSET Late
    BY DEF Late
  <2>5. QED
    BY <1>8, <2>1, <2>3, <2>4, ActsNotes DEF Left!ComposeUp, LeftType
<1>9. ASSUME NEW o \in Ctrs, Left!DockerRun(o) PROVE LeftType'
  <2>1. PICK isUp \in BOOLEAN, attached \in BOOLEAN, bind \in Left!Binds :
          /\ ctr' = [ctr EXCEPT ![o] = [Left!NoCtr EXCEPT !.there = TRUE, !.net = attached,
                                                          !.up = isUp, !.bind = bind]]
          /\ Left!Acts({"bind"} \cup (IF attached THEN {"net"} ELSE {}))
    BY <1>9 DEF Left!DockerRun
  <2>2. [Left!NoCtr EXCEPT !.there = TRUE, !.net = attached, !.up = isUp, !.bind = bind]
          \in CtrRecords
    BY DEF Left!NoCtr, CtrRecords
  <2>3. ctr' \in [Ctrs -> CtrRecords]
    BY <2>1, <2>2 DEF LeftType
  <2>4. ({"bind"} \cup (IF attached THEN {"net"} ELSE {})) \in SUBSET Late
    BY DEF Late
  <2>5. QED
    BY <1>9, <2>1, <2>3, <2>4, ActsNotes DEF Left!DockerRun, LeftType
<1>10. ASSUME NEW o \in Ctrs, Left!DockerRemove(o) PROVE LeftType'
  <2>1. Left!NoCtr \in CtrRecords /\ {} \in SUBSET Late
    BY DEF Left!NoCtr, CtrRecords, Left!Binds, Left!None
  <2>2. ctr' \in [Ctrs -> CtrRecords]
    BY <1>10, <2>1 DEF Left!DockerRemove, LeftType
  <2>3. QED
    BY <1>10, <2>1, <2>2, ActsNotes DEF Left!DockerRemove, LeftType
<1>11. ASSUME NEW file \in {"mine", "other", Left!None}, Left!Deploy(file) PROVE LeftType'
  <2>1. PICK id \in {stack.id, 1 + Left!Cardinality({r \in Ctrs : retired[r] # 0})} \ {0} :
          stack' = [id |-> id, file |-> file]
    BY <1>11 DEF Left!Deploy
  <2> DEFINE taken == {r \in Ctrs : retired[r] # 0}
  <2>2. taken \in SUBSET Ctrs
    OBVIOUS
  <2>3. stack.id \in Ids
    BY DEF LeftType, StackRecords
  <2> HIDE DEF taken
  <2>4. id \in Ids
    <3>1. id = stack.id \/ id = 1 + Left!Cardinality(taken)
      BY <2>1 DEF taken
    <3>2. QED
      BY <2>2, <2>3, <3>1 DEF Ids
  <2>5. stack' \in StackRecords
    BY <2>1, <2>4 DEF StackRecords, None, Left!None
  <2>6. {"stack"} \in SUBSET Late
    BY DEF Late
  <2>7. QED
    BY <1>11, <2>5, <2>6, ActsNotes DEF Left!Deploy, LeftType
<1>12. CASE UNCHANGED leftVars
  BY <1>12 DEF leftVars, LeftType
<1>13. QED
  BY <1>1, <1>2, <1>3, <1>4, <1>5, <1>6, <1>7, <1>8, <1>9, <1>10, <1>11, <1>12
  DEF Left!Next, Left!RunStep

(* What the others do, by what a run can tell afterwards.                   *)
Noticed(kind) == \A r \in Ctrs : Left!After(r, kind) => kind \in lop'[r].late
RunsStay ==
    \A r \in Ctrs :
        /\ lop'[r].pc = lop[r].pc /\ lop'[r].held = lop[r].held
        /\ lop'[r].retire = lop[r].retire /\ lop[r].late \subseteq lop'[r].late
        /\ lop[r].changed => lop'[r].changed
        /\ lop[r].pc # "idle" => lop'[r].changed

LEMMA ComposeUpDoes ==
    ASSUME LeftType, NEW o \in Ctrs, Left!ComposeUp(o)
    PROVE  /\ RunsStay /\ Noticed("member") /\ UNCHANGED <<site, stack, retired>>
           /\ \A q \in Ctrs \ {o} : ctr'[q] = ctr[q]
           /\ ctr'[o].there /\ ctr'[o].bind = None
           /\ ctr'[o].net => Noticed("net")
<1>1. PICK isUp \in BOOLEAN, attached \in BOOLEAN :
        /\ ctr' = [ctr EXCEPT ![o] = [Left!NoCtr EXCEPT !.there = TRUE, !.proj = TRUE,
                                                        !.net = attached, !.up = isUp]]
        /\ Left!Acts({"member"} \cup (IF attached THEN {"net"} ELSE {}))
  BY DEF Left!ComposeUp
<1> DEFINE kinds == {"member"} \cup (IF attached THEN {"net"} ELSE {})
<1>2. kinds \in SUBSET Late /\ Left!Acts(kinds) /\ "member" \in kinds /\ (attached => "net" \in kinds)
  BY <1>1 DEF Late
<1> HIDE DEF kinds
<1>3. RunsStay /\ \A k \in kinds : Noticed(k)
  BY <1>2, ActsNotes DEF RunsStay, Noticed
<1>4. /\ \A q \in Ctrs \ {o} : ctr'[q] = ctr[q]
      /\ ctr'[o].there /\ ctr'[o].bind = None /\ ctr'[o].net = attached
  BY <1>1 DEF LeftType, Left!NoCtr, Left!None, None
<1>5. UNCHANGED <<site, stack, retired>>
  BY <1>2, ActsNotes DEF Left!ComposeUp
<1>6. QED
  BY <1>2, <1>3, <1>4, <1>5

LEMMA DockerRunDoes ==
    ASSUME LeftType, NEW o \in Ctrs, Left!DockerRun(o)
    PROVE  /\ RunsStay /\ Noticed("bind") /\ UNCHANGED <<site, stack, retired>>
           /\ \A q \in Ctrs \ {o} : ctr'[q] = ctr[q]
           /\ ctr'[o].there /\ ~ctr'[o].proj
           /\ ctr'[o].net => Noticed("net")
<1>1. PICK isUp \in BOOLEAN, attached \in BOOLEAN, bind \in Left!Binds :
        /\ ctr' = [ctr EXCEPT ![o] = [Left!NoCtr EXCEPT !.there = TRUE, !.net = attached,
                                                        !.up = isUp, !.bind = bind]]
        /\ Left!Acts({"bind"} \cup (IF attached THEN {"net"} ELSE {}))
  BY DEF Left!DockerRun
<1> DEFINE kinds == {"bind"} \cup (IF attached THEN {"net"} ELSE {})
<1>2. kinds \in SUBSET Late /\ Left!Acts(kinds) /\ "bind" \in kinds /\ (attached => "net" \in kinds)
  BY <1>1 DEF Late
<1> HIDE DEF kinds
<1>3. RunsStay /\ \A k \in kinds : Noticed(k)
  BY <1>2, ActsNotes DEF RunsStay, Noticed
<1>4. /\ \A q \in Ctrs \ {o} : ctr'[q] = ctr[q]
      /\ ctr'[o].there /\ ~ctr'[o].proj /\ ctr'[o].net = attached
  BY <1>1 DEF LeftType, Left!NoCtr
<1>5. UNCHANGED <<site, stack, retired>>
  BY <1>2, ActsNotes DEF Left!DockerRun
<1>6. QED
  BY <1>2, <1>3, <1>4, <1>5

LEMMA DockerRemoveDoes ==
    ASSUME LeftType, NEW o \in Ctrs, Left!DockerRemove(o)
    PROVE  /\ RunsStay /\ UNCHANGED <<site, stack, retired>>
           /\ \A q \in Ctrs \ {o} : ctr'[q] = ctr[q]
           /\ ctr'[o] = Left!NoCtr /\ ~ctr'[o].there
<1>1. Left!Acts({}) /\ {} \in SUBSET Late
  BY DEF Left!DockerRemove
<1>2. RunsStay /\ UNCHANGED site
  BY <1>1, ActsNotes DEF RunsStay
<1>3. ctr' = [ctr EXCEPT ![o] = Left!NoCtr] /\ UNCHANGED <<stack, retired>>
  BY DEF Left!DockerRemove
<1>4. QED
  BY <1>2, <1>3 DEF LeftType, Left!NoCtr

(* What becomes of a container and of its run when it is rebuilt.           *)
LEMMA RebuildDoes ==
    ASSUME LeftType, NEW r \in Ctrs, Left!Rebuild(r)
    PROVE  /\ UNCHANGED <<net, stack, retired, site>> /\ lop[r].pc = "planned"
           /\ \A q \in Ctrs \ {r} : lop'[q] = lop[q] /\ ctr'[q] = ctr[q]
           /\ lop'[r].retire = lop[r].retire /\ lop'[r].late = lop[r].late
           /\ lop'[r].held = lop[r].held /\ lop'[r].changed = lop[r].changed
           /\ ctr'[r].there = ctr[r].there /\ ctr'[r].bind = ctr[r].bind
           /\ (ctr'[r].net => ctr[r].net) /\ (ctr'[r].proj => ctr[r].proj)
           /\ ~ctr[r].there => ctr'[r] = ctr[r]
           /\ \/ lop'[r].pc = "failed"
              \/ /\ ~ctr'[r].proj
                 /\ lop'[r].pc = "net" \/ lop'[r].pc = "ended" \/ (lop'[r].pc = "stack" /\ lop[r].retire)
<1> DEFINE onBridge == [ctr[r] EXCEPT !.proj = FALSE, !.net = IF lop[r].net THEN FALSE ELSE @]
<1>1. UNCHANGED <<net, stack, retired, site>> /\ lop[r].pc = "planned" /\ ctr \in [Ctrs -> CtrRecords]
  BY DEF Left!Rebuild, Left!At, LeftType
<1>2. /\ onBridge.there = ctr[r].there /\ onBridge.bind = ctr[r].bind /\ ~onBridge.proj
      /\ onBridge.net => ctr[r].net
  BY <1>1 DEF CtrRecords
<1> HIDE DEF onBridge
<1>3. CASE Left!Goes(r, "failed") /\ UNCHANGED ctr
  BY <1>1, <1>3, GoesNotes DEF LeftPcs
<1>4. CASE ctr[r].there /\ ctr' = [ctr EXCEPT ![r] = onBridge]
           /\ Left!Goes(r, IF lop[r].net THEN "net" ELSE Left!AfterNetwork(r))
  <2>1. \E pc \in {"net", "ended", "stack"} : Left!Goes(r, pc) /\ (pc = "stack" => lop[r].retire)
    BY <1>4 DEF Left!AfterNetwork
  <2>2. PICK pc \in {"net", "ended", "stack"} : Left!Goes(r, pc) /\ (pc = "stack" => lop[r].retire)
    BY <2>1
  <2>3. pc \in LeftPcs
    BY DEF LeftPcs, Rebuilt
  <2>4. ctr'[r] = onBridge /\ \A q \in Ctrs \ {r} : ctr'[q] = ctr[q]
    BY <1>1, <1>4
  <2>5. QED
    BY <1>1, <1>2, <1>4, <2>2, <2>3, <2>4, GoesNotes
<1>5. QED
  BY <1>3, <1>4 DEF Left!Rebuild, onBridge

(* And what root does, once it moves the directory.                         *)
Moves(r) == site.owned /\ stack.id # 0 /\ retired[r] = 0

LEMMA RetireStackDoes ==
    ASSUME LeftType, NEW r \in Ctrs, Left!RetireStack(r), Moves(r)
    PROVE  /\ UNCHANGED <<ctr, net, site>> /\ lop[r].pc = "move" /\ lop'[r].pc = "ended"
           /\ stack'.id = 0 /\ stack'.file = None /\ retired'[r] = stack.id
           /\ \A q \in Ctrs \ {r} :
                /\ lop'[q].pc = lop[q].pc /\ lop'[q].held = lop[q].held
                /\ lop'[q].late = lop[q].late /\ lop'[q].retire = lop[q].retire
                /\ lop[q].pc # "idle" => lop'[q].changed
                /\ retired'[q] = retired[q]
<1>1. /\ UNCHANGED <<ctr, net, site>> /\ lop[r].pc = "move"
      /\ retired' = [retired EXCEPT ![r] = stack.id] /\ stack' = Left!NoStack
      /\ lop' = [q \in Ctrs |-> IF q = r THEN [lop[q] EXCEPT !.pc = "ended"]
                                ELSE [lop[q] EXCEPT !.changed = @ \/ ~Left!At(q, "idle")]]
  BY DEF Left!RetireStack, Moves, Left!At
<1>2. stack'.id = 0 /\ stack'.file = None /\ retired'[r] = stack.id
      /\ \A q \in Ctrs \ {r} : retired'[q] = retired[q]
  BY <1>1 DEF Left!NoStack, Left!None, None, LeftType
<1>3. ASSUME NEW q \in Ctrs \ {r}
      PROVE  /\ lop'[q].pc = lop[q].pc /\ lop'[q].held = lop[q].held
             /\ lop'[q].late = lop[q].late /\ lop'[q].retire = lop[q].retire
             /\ lop[q].pc # "idle" => lop'[q].changed
  <2>1. lop'[q] = [lop[q] EXCEPT !.changed = @ \/ ~Left!At(q, "idle")]
    BY <1>1
  <2>2. lop[q] \in OpRecords
    BY DEF LeftType
  <2>3. QED
    BY <2>1, <2>2 DEF OpRecords, Left!At
<1>4. lop'[r].pc = "ended"
  <2>1. lop'[r] = [lop[r] EXCEPT !.pc = "ended"] /\ lop[r] \in OpRecords
    BY <1>1 DEF LeftType
  <2>2. QED
    BY <2>1 DEF OpRecords
<1>5. QED
  BY <1>1, <1>2, <1>3, <1>4

LEMMA DeployDoes ==
    ASSUME LeftType, NEW file \in {"mine", "other", Left!None}, Left!Deploy(file)
    PROVE  RunsStay /\ Noticed("stack") /\ stack'.id # 0 /\ UNCHANGED <<ctr, retired, site>>
<1>1. {"stack"} \in SUBSET Late /\ Left!Acts({"stack"})
  BY DEF Left!Deploy, Late
<1>2. RunsStay /\ Noticed("stack") /\ UNCHANGED site
  BY <1>1, ActsNotes DEF RunsStay, Noticed
<1>3. stack'.id # 0 /\ UNCHANGED <<ctr, retired>>
  BY DEF Left!Deploy
<1>4. QED
  BY <1>2, <1>3

LEMMA GoneIsBlankInductive ==
    ASSUME LeftType, GoneIsBlank, [Left!Next]_leftVars
    PROVE  GoneIsBlank'
<1> USE DEF GoneIsBlank, Left!host
<1>1. ASSUME NEW r \in Ctrs, Left!Rebuild(r) PROVE GoneIsBlank'
  BY <1>1, RebuildDoes
<1>2. ASSUME NEW r \in Ctrs,
             \/ Left!Plan(r) \/ Left!CheckNetwork(r) \/ Left!RemoveNetwork(r)
             \/ Left!OpenStack(r) \/ Left!CheckMembers(r) \/ Left!CheckBinds(r) \/ Left!Again(r)
      PROVE  GoneIsBlank'
  BY <1>2 DEF Left!Plan, Left!CheckNetwork, Left!RemoveNetwork, Left!OpenStack,
     Left!CheckMembers, Left!CheckBinds, Left!Again
<1>3. ASSUME NEW r \in Ctrs, Left!RetireStack(r) PROVE GoneIsBlank'
  BY <1>3, RetireStackDoes DEF Left!RetireStack, Moves
<1>4. ASSUME NEW o \in Ctrs, Left!ComposeUp(o) \/ Left!DockerRun(o) \/ Left!DockerRemove(o)
      PROVE  GoneIsBlank'
  BY <1>4, ComposeUpDoes, DockerRunDoes, DockerRemoveDoes
<1>5. ASSUME NEW file \in {"mine", "other", Left!None}, Left!Deploy(file) PROVE GoneIsBlank'
  BY <1>5, DeployDoes
<1>6. CASE UNCHANGED leftVars
  BY <1>6 DEF leftVars
<1>7. QED
  BY <1>1, <1>2, <1>3, <1>4, <1>5, <1>6 DEF Left!Next, Left!RunStep

(* The sets the code computes, and whether they are empty.                  *)
LEMMA WhoIsLeft ==
    ASSUME LeftType
    PROVE  /\ Left!NetworkUsers = {} <=> NobodyAttached
           /\ Left!Members = {} <=> NoMember
           /\ Left!BindsUnder = {} <=> NoBindUnder
           /\ \A r \in Ctrs : Left!Members \ {r} = {} <=> NoMemberBut(r)
<1>1. Left!NetworkUsers = {} <=> NobodyAttached
  BY DEF Left!NetworkUsers, NobodyAttached
<1>2. Left!Members = {} <=> NoMember
  BY DEF Left!Members, NoMember
<1>3. \A o \in Ctrs : Left!Under(o) <=> ctr[o].bind \in {"under", "underByPool"}
  BY DEF Left!Under, Left!Alias
<1>4. Left!BindsUnder = {} <=> NoBindUnder
  BY <1>3 DEF Left!BindsUnder, NoBindUnder
<1>5. \A r \in Ctrs : Left!Members \ {r} = {} <=> NoMemberBut(r)
  BY DEF Left!Members, NoMemberBut
<1>6. QED
  BY <1>1, <1>2, <1>4, <1>5

LEMMA CheckedStandsInductive ==
    ASSUME LeftType, CheckedStands, [Left!Next]_leftVars
    PROVE  CheckedStands'
<1> USE DEF CheckedStands, Checking, NobodyAttached, NoMember, NoBindUnder, Left!host
<1>1. ASSUME NEW r \in Ctrs, Left!Plan(r) \/ Left!Again(r) PROVE CheckedStands'
  BY <1>1 DEF Left!Plan, Left!Again, Left!Idle, LeftType, OpRecords
<1>2. ASSUME NEW r \in Ctrs, Left!Rebuild(r) PROVE CheckedStands'
  BY <1>2, RebuildDoes
<1>3. ASSUME NEW r \in Ctrs, Left!CheckNetwork(r) PROVE CheckedStands'
  <2>1. PICK pc \in {"stack", "ended", "rm"} :
          Left!Goes(r, pc) /\ (pc = "rm" => NobodyAttached) /\ UNCHANGED <<ctr, stack>>
    BY <1>3, WhoIsLeft DEF Left!CheckNetwork, Left!AfterNetwork
  <2>2. pc \in LeftPcs
    BY DEF LeftPcs, Rebuilt
  <2>3. QED
    BY <2>1, <2>2, GoesNotes
<1>4. ASSUME NEW r \in Ctrs, Left!RemoveNetwork(r) PROVE CheckedStands'
  <2>1. PICK pc \in {"stack", "ended", "failed"} : Left!Goes(r, pc) /\ UNCHANGED <<ctr, stack>>
    BY <1>4 DEF Left!RemoveNetwork, Left!AfterNetwork
  <2>2. pc \in LeftPcs
    BY DEF LeftPcs, Rebuilt
  <2>3. QED
    BY <2>1, <2>2, GoesNotes
<1>5. ASSUME NEW r \in Ctrs, Left!OpenStack(r) PROVE CheckedStands'
  <2>1. CASE Left!Goes(r, "refused")
    BY <1>5, <2>1, GoesNotes DEF Left!OpenStack, LeftPcs
  <2>2. CASE lop' = [lop EXCEPT ![r] = [lop[r] EXCEPT !.pc = "members", !.held = stack.id]]
    BY <1>5, <2>2 DEF Left!OpenStack, LeftType, OpRecords
  <2>3. QED
    BY <1>5, <2>1, <2>2 DEF Left!OpenStack
<1>6. ASSUME NEW r \in Ctrs, Left!CheckMembers(r) PROVE CheckedStands'
  <2>1. PICK pc \in {"binds", "refused"} :
          /\ Left!Goes(r, pc) /\ (pc = "binds" => NoMember) /\ UNCHANGED <<ctr, stack>>
          /\ lop[r].pc = "members"
    BY <1>6, WhoIsLeft DEF Left!CheckMembers, Left!At
  <2>2. pc \in LeftPcs
    BY DEF LeftPcs, Rebuilt
  <2>3. QED
    BY <2>1, <2>2, GoesNotes
<1>7. ASSUME NEW r \in Ctrs, Left!CheckBinds(r) PROVE CheckedStands'
  <2>1. PICK pc \in {"move", "refused"} :
          /\ Left!Goes(r, pc) /\ (pc = "move" => NoBindUnder) /\ UNCHANGED <<ctr, stack>>
          /\ lop[r].pc = "binds"
    BY <1>7, WhoIsLeft DEF Left!CheckBinds, Left!At
  <2>2. pc \in LeftPcs
    BY DEF LeftPcs, Rebuilt
  <2>3. QED
    BY <2>1, <2>2, GoesNotes
<1>8. ASSUME NEW r \in Ctrs, Left!RetireStack(r) PROVE CheckedStands'
  <2>1. CASE Moves(r)
    BY <1>8, <2>1, RetireStackDoes
  <2>2. CASE ~Moves(r)
    BY <1>8, <2>2, GoesNotes DEF Left!RetireStack, Moves, LeftPcs
  <2>3. QED
    BY <2>1, <2>2
<1>9. ASSUME NEW o \in Ctrs, Left!ComposeUp(o) PROVE CheckedStands'
  BY <1>9, ComposeUpDoes DEF RunsStay, Noticed, Left!After, None
<1>10. ASSUME NEW o \in Ctrs, Left!DockerRun(o) PROVE CheckedStands'
  BY <1>10, DockerRunDoes DEF RunsStay, Noticed, Left!After
<1>11. ASSUME NEW o \in Ctrs, Left!DockerRemove(o) PROVE CheckedStands'
  BY <1>11, DockerRemoveDoes DEF RunsStay
<1>12. ASSUME NEW file \in {"mine", "other", Left!None}, Left!Deploy(file) PROVE CheckedStands'
  BY <1>12, DeployDoes DEF RunsStay, Noticed, Left!After
<1>13. CASE UNCHANGED leftVars
  BY <1>13 DEF leftVars
<1>14. QED
  BY <1>1, <1>2, <1>3, <1>4, <1>5, <1>6, <1>7, <1>8, <1>9, <1>10, <1>11, <1>12, <1>13
  DEF Left!Next, Left!RunStep

LEMMA PlanStandsInductive ==
    ASSUME LeftType, GoneIsBlank, PlanStands, [Left!Next]_leftVars
    PROVE  PlanStands'
<1> USE DEF PlanStands, Checking, Rebuilt, NoMember, NoMemberBut, NoBindUnder, Left!host
<1>1. ASSUME NEW r \in Ctrs, Left!Again(r) PROVE PlanStands'
  BY <1>1 DEF Left!Again, Left!Idle, LeftType
<1>2. ASSUME NEW r \in Ctrs, Left!Plan(r) PROVE PlanStands'
  <2>1. Left!MayRetire(r) =>
          /\ stack.file # None /\ (site.byDir \/ stack.file = "mine")
          /\ NoBindUnder /\ site.owned /\ NoMemberBut(r)
    BY WhoIsLeft DEF Left!MayRetire, Left!ComposeMatches, Left!None, None
  <2>2. /\ \A q \in Ctrs \ {r} : lop'[q] = lop[q]
        /\ lop'[r].pc = "planned" /\ lop'[r].retire = Left!MayRetire(r)
        /\ UNCHANGED <<ctr, stack, site, retired>>
    BY <1>2 DEF Left!Plan, LeftType, OpRecords
  <2>3. QED
    BY <2>1, <2>2
<1>3. ASSUME NEW r \in Ctrs, Left!Rebuild(r) PROVE PlanStands'
  BY <1>3, RebuildDoes
<1>4. ASSUME NEW r \in Ctrs, Left!CheckNetwork(r) \/ Left!RemoveNetwork(r) PROVE PlanStands'
  <2>1. PICK pc \in {"stack", "ended", "rm", "failed"} :
          /\ Left!Goes(r, pc) /\ (pc = "stack" => lop[r].retire)
          /\ lop[r].pc \in {"net", "rm"} /\ UNCHANGED <<ctr, stack, site, retired>>
    BY <1>4 DEF Left!CheckNetwork, Left!RemoveNetwork, Left!AfterNetwork, Left!At
  <2>2. pc \in LeftPcs
    BY DEF LeftPcs
  <2>3. QED
    BY <2>1, <2>2, GoesNotes
<1>5. ASSUME NEW r \in Ctrs, Left!OpenStack(r) PROVE PlanStands'
  <2>1. lop[r].pc = "stack" /\ UNCHANGED <<ctr, stack, site, retired>>
    BY <1>5 DEF Left!OpenStack, Left!At
  <2>2. CASE Left!Goes(r, "refused") /\ ~(~site.link /\ Left!ComposeMatches(stack))
    <3>1. lop[r].changed \/ site.link
      BY <2>1, <2>2 DEF Left!ComposeMatches, Left!None, None
    <3>2. QED
      BY <2>1, <2>2, <3>1, GoesNotes DEF LeftPcs
  <2>3. CASE lop' = [lop EXCEPT ![r] = [lop[r] EXCEPT !.pc = "members", !.held = stack.id]]
    BY <2>1, <2>3 DEF LeftType, OpRecords
  <2>4. QED
    BY <1>5, <2>2, <2>3 DEF Left!OpenStack
<1>6. ASSUME NEW r \in Ctrs, Left!CheckMembers(r) \/ Left!CheckBinds(r) PROVE PlanStands'
  <2>1. PICK pc \in {"binds", "move", "refused"} :
          /\ Left!Goes(r, pc) /\ (pc = "refused" => ~NoMember \/ ~NoBindUnder)
          /\ lop[r].pc \in {"members", "binds"} /\ UNCHANGED <<ctr, stack, site, retired>>
    BY <1>6, WhoIsLeft DEF Left!CheckMembers, Left!CheckBinds, Left!At
  <2>2. pc \in LeftPcs
    BY DEF LeftPcs
  <2>3. QED
    BY <2>1, <2>2, GoesNotes
<1>7. ASSUME NEW r \in Ctrs, Left!RetireStack(r) PROVE PlanStands'
  <2>1. CASE Moves(r)
    BY <1>7, <2>1, RetireStackDoes
  <2>2. CASE ~Moves(r)
    <3>1. Left!Goes(r, "refused") /\ lop[r].pc = "move" /\ UNCHANGED <<ctr, stack, site, retired>>
      BY <1>7, <2>2 DEF Left!RetireStack, Moves, Left!At
    <3>2. lop[r].changed \/ retired[r] # 0
      BY <2>2, <3>1 DEF Moves, GoneIsBlank
    <3>3. QED
      BY <3>1, <3>2, GoesNotes DEF LeftPcs
  <2>3. QED
    BY <2>1, <2>2
<1>8. ASSUME NEW o \in Ctrs, Left!ComposeUp(o) \/ Left!DockerRun(o) \/ Left!DockerRemove(o)
      PROVE  PlanStands'
  BY <1>8, ComposeUpDoes, DockerRunDoes, DockerRemoveDoes DEF RunsStay
<1>9. ASSUME NEW file \in {"mine", "other", Left!None}, Left!Deploy(file) PROVE PlanStands'
  BY <1>9, DeployDoes DEF RunsStay
<1>10. CASE UNCHANGED leftVars
  BY <1>10 DEF leftVars
<1>11. QED
  BY <1>1, <1>2, <1>3, <1>4, <1>5, <1>6, <1>7, <1>8, <1>9, <1>10 DEF Left!Next, Left!RunStep

LEMMA LeftInvHolds == MCSpec => []LeftInv
<1>1. MCInit => LeftInv
  <2> USE DEF LeftInv, GoneIsBlank, CheckedStands, PlanStands, Checking, Rebuilt
  <2>1. Left!Idle \in OpRecords /\ Left!Idle.pc = "idle" /\ 0 \in Ids /\ 1 \in Ids
    BY DEF Left!Idle, OpRecords, LeftPcs, Ids
  <2>2. /\ Left!NoCtr \in CtrRecords /\ ~Left!NoCtr.there
        /\ Left!NoStack \in StackRecords /\ Left!NoStack.file = None
    BY <2>1 DEF Left!NoCtr, CtrRecords, Left!Binds, Left!None, None, Left!NoStack, StackRecords
  <2>3. ASSUME NoLeftovers PROVE LeftInv
    <3>1. LeftType
      <4>1. ctr \in [Ctrs -> CtrRecords]
        BY <2>2, <2>3 DEF NoLeftovers
      <4>2. retired \in [Ctrs -> Ids]
        BY <2>1, <2>3 DEF NoLeftovers
      <4>3. lop \in [Ctrs -> OpRecords]
        BY <2>1, <2>3 DEF NoLeftovers
      <4>4. net \in BOOLEAN /\ stack \in StackRecords
        BY <2>2, <2>3 DEF NoLeftovers
      <4>6. lbudget \in 0 .. EnvBudget
        BY <2>3, ConstantsAssumption DEF NoLeftovers
      <4>5. site \in Left!Sites
        BY <2>3 DEF NoLeftovers, Left!Sites
      <4>7. QED
        BY <4>1, <4>2, <4>3, <4>4, <4>5, <4>6 DEF LeftType
    <3>2. QED
      BY <2>1, <2>2, <2>3, <3>1 DEF NoLeftovers
  <2>4. ASSUME Left!Init PROVE LeftInv
    <3> DEFINE there == [there : {TRUE}, proj : {TRUE}, net : BOOLEAN, up : BOOLEAN,
                         bind : {Left!None, "underByPool"}]
    <3>1. ctr \in [Ctrs -> {Left!NoCtr} \cup there] /\ there \subseteq CtrRecords
      BY <2>4 DEF Left!Init, CtrRecords, Left!Binds
    <3>2. \A t \in there : t.there
      OBVIOUS
    <3> HIDE DEF there
    <3>3. ctr \in [Ctrs -> CtrRecords] /\ \A o \in Ctrs : ~ctr[o].there => ctr[o] = Left!NoCtr
      BY <2>2, <3>1, <3>2
    <3>4. stack \in StackRecords /\ stack.id # 0
      BY <2>1, <2>4 DEF Left!Init, StackRecords, Left!None, None
    <3>5. /\ retired \in [Ctrs -> Ids] /\ lop \in [Ctrs -> OpRecords]
          /\ \A r \in Ctrs : lop[r].pc = "idle"
      BY <2>1, <2>4 DEF Left!Init
    <3>6. net \in BOOLEAN /\ site \in Left!Sites /\ lbudget \in 0 .. EnvBudget
      BY <2>4, ConstantsAssumption DEF Left!Init
    <3>7. QED
      BY <3>3, <3>4, <3>5, <3>6 DEF LeftType
  <2>5. QED
    BY <2>3, <2>4 DEF MCInit
<1>2. LeftInv /\ [MCNext]_mcvars => LeftInv'
  <2> SUFFICES ASSUME LeftInv, [MCNext]_mcvars PROVE LeftInv'
    OBVIOUS
  <2>1. [Left!Next]_leftVars
    BY DEF MCNext, mcvars
  <2>2. QED
    BY <2>1, LeftTypeInductive, GoneIsBlankInductive, CheckedStandsInductive, PlanStandsInductive
    DEF LeftInv
<1>3. QED
  BY <1>1, <1>2, PTL DEF MCSpec

(* A plan that announces a stack as retired is carried out by root, unless  *)
(* the host changed in between, the configured root is a symbolic link or   *)
(* the day's target is taken.  For every set of containers, every site and  *)
(* everything compose and docker users do.                                  *)
THEOREM AnnouncedIsRetired == MCSpec => []RetireAgrees
<1>1. LeftInv => RetireAgrees
  <2> SUFFICES ASSUME LeftInv PROVE RetireAgrees
    OBVIOUS
  <2>1. Left!TypeOK
    <3>1. \A o \in Ctrs : DOMAIN ctr[o] = DOMAIN Left!NoCtr /\ ctr[o].bind \in Left!Binds
      BY DEF LeftInv, LeftType, CtrRecords, Left!NoCtr
    <3>2. \A r \in Ctrs : DOMAIN lop[r] = DOMAIN Left!Idle
      BY DEF LeftInv, LeftType, OpRecords, Left!Idle
    <3>3. QED
      BY <3>1, <3>2 DEF Left!TypeOK, LeftInv, LeftType
  <2>2. \A r \in Ctrs :
          Left!At(r, "refused") => lop[r].changed \/ site.link \/ retired[r] # 0
    BY DEF LeftInv, PlanStands, Left!At
  <2>3. QED
    BY <2>1, <2>2 DEF RetireAgrees, Left!RetireAgrees
<1>2. QED
  BY <1>1, LeftInvHolds, PTL

(* What a run removes is of no use to anybody, but to who came after the    *)
(* step had looked: no container is on the network, none of the project is  *)
(* left, none mounts from the directory, and it is the one that was read.   *)
THEOREM RemovedWasUnused == MCSpec => LeftoversUnused
<1>1. LeftInv /\ [MCNext]_mcvars => [\A r \in Ctrs : Left!Unused(r)]_leftVars
  <2> SUFFICES ASSUME LeftInv, [MCNext]_mcvars, leftVars' # leftVars, NEW r \in Ctrs
               PROVE  Left!Unused(r)
    OBVIOUS
  <2> USE DEF LeftInv, Left!host
  <2>1. Left!Next
    BY DEF MCNext, mcvars, leftVars
  <2>2. net' = net \/ lop'[r].pc = "rm" \/ lop[r].pc # "rm" \/ NobodyAttached
          \/ "net" \in lop[r].late
    BY DEF CheckedStands
  <2>3. retired'[r] # retired[r] =>
          lop[r].pc = "move" /\ retired'[r] = stack.id /\ stack.id # 0
    <3>1. ASSUME NEW q \in Ctrs, Left!RetireStack(q), Moves(q), retired'[r] # retired[r]
          PROVE  lop[r].pc = "move" /\ retired'[r] = stack.id /\ stack.id # 0
      BY <3>1, RetireStackDoes DEF Moves
    <3>2. ASSUME NEW q \in Ctrs, Left!RetireStack(q), ~Moves(q) PROVE UNCHANGED retired
      BY <3>2 DEF Left!RetireStack, Moves
    <3>3. ASSUME NEW q \in Ctrs,
                 \/ Left!Plan(q) \/ Left!Rebuild(q) \/ Left!CheckNetwork(q)
                 \/ Left!RemoveNetwork(q) \/ Left!OpenStack(q) \/ Left!CheckMembers(q)
                 \/ Left!CheckBinds(q) \/ Left!Again(q)
          PROVE  UNCHANGED retired
      BY <3>3 DEF Left!Plan, Left!Rebuild, Left!CheckNetwork, Left!RemoveNetwork,
         Left!OpenStack, Left!CheckMembers, Left!CheckBinds, Left!Again
    <3>4. ASSUME NEW o \in Ctrs, Left!ComposeUp(o) \/ Left!DockerRun(o) \/ Left!DockerRemove(o)
          PROVE  UNCHANGED retired
      BY <3>4 DEF Left!ComposeUp, Left!DockerRun, Left!DockerRemove
    <3>5. ASSUME NEW file \in {"mine", "other", Left!None}, Left!Deploy(file)
          PROVE  UNCHANGED retired
      BY <3>5 DEF Left!Deploy
    <3>6. QED
      BY <2>1, <3>1, <3>2, <3>3, <3>4, <3>5 DEF Left!Next, Left!RunStep
  <2>4. QED
    BY <2>2, <2>3 DEF Left!Unused, Left!At, CheckedStands, Checking, NobodyAttached, NoMember,
       NoBindUnder, LeftType, CtrRecords, GoneIsBlank, Left!NoCtr, Left!None
<1>2. QED
  BY <1>1, LeftInvHolds, PTL DEF MCSpec, LeftoversUnused

-----------------------------------------------------------------------------
(* StagedCopies.                                                            *)
Unmarked == {"idle", "mkdir", "open", "mark"}
Early == Unmarked \cup {"manifest"}
Holding == {"manifest", "cp", "verify", "recheck", "moved"}
CopyPcs == Early \cup Holding \cup {"copied", "unmarked", "failed", "exposed", "unexposed",
                                    "removed", "kept"}
Readings == [Parts -> Nat]
Marks == [token : Runs \cup {None}, data : Runs \cup {None, "theirs"}]
CopyRecords == [pc : CopyPcs, app : Apps \cup {None}, st : Stages \cup {Nothing}, base : Readings]

CopyType ==
    /\ appAt \in Apps /\ ent \in [Apps -> [Names -> Objects \cup {Nothing}]]
    /\ node \in [Stages \cup Foreign -> Marks] /\ copy \in [Runs -> Readings]
    /\ src \in Readings /\ up \in BOOLEAN
    /\ op \in [Runs -> CopyRecords]
    /\ hist \in [snaps : SUBSET Readings, cut : SUBSET Runs, warned : SUBSET Runs]
    /\ budget \in 0 .. EnvBudget
    /\ \A r \in Runs : /\ op[r].pc \in {"mkdir", "open", "mark", "unmarked"} \cup Holding => op[r].app \in Apps
                       /\ op[r].pc \in {"mark"} \cup Holding => op[r].st \in Stages

(* A directory has one name at most.                                        *)
OnePlace ==
    \A d, e \in Apps : \A n, m \in Names :
        ent[d][n] = ent[e][m] /\ ent[d][n] # Nothing => d = e /\ n = m

Placed(r) == \E d \in Apps, n \in Names : ent[d][n] = Data(r)
Staged(r) == \E s \in Stages : node[s].data = r

(* The token tells whose a stage is: a run marks one, and what is in it is  *)
(* that run's copy.                                                         *)
TokensDiffer ==
    \A s, t \in Stages : node[s].token = node[t].token => s = t \/ node[s].token = None
ContentMarked == \A s \in Stages : node[s].data = None \/ node[s].data = node[s].token
TokenHeld ==
    \A r \in Runs :
        /\ op[r].pc \in Unmarked => \A s \in Stages : node[s].token # r
        /\ op[r].pc \in Holding => node[op[r].st].token = r
        /\ op[r].pc = "moved" => node[op[r].st].data = None
StagesMarked == TokensDiffer /\ ContentMarked /\ TokenHeld

TokenOut(r) == \E s \in Stages : node[s].token = r
StagePlaced(r) == \E d \in Apps, n \in Names : ent[d][n] = Stage(r)

(* A copy is in one place; it is nowhere before it is begun and after it is *)
(* reported gone.                                                           *)
WhereOf(r) ==
    /\ op[r].pc \in {"idle", "mkdir"} => ~StagePlaced(r)
    /\ op[r].pc \in Early => ~Staged(r)
    /\ op[r].pc \in Early \cup {"cp", "verify", "recheck", "copied"} => ~Placed(r)
    /\ ~(Placed(r) /\ Staged(r))
    /\ Placed(r) /\ op[r].pc # "moved" => r \in hist.cut \/ ~TokenOut(r)
    /\ op[r].pc \in {"failed", "removed"} =>
         r \in hist.cut \cup hist.warned \/ ~(Placed(r) \/ Staged(r))
Whereabouts == \A r \in Runs : WhereOf(r)

(* A copy that agrees with the manifest is what the volume was when the     *)
(* second part of the manifest had been read: a write in between shows in   *)
(* the first part of the copy.                                              *)
MomentOf(r) ==
    /\ op[r].pc \in Early =>
         copy[r][1] = 0 /\ op[r].base[2] = 0 /\ op[r].base[1] <= src[1]
    /\ op[r].pc \in {"cp", "verify"} =>
         \/ op[r].base \in hist.snaps
         \/ copy[r][1] = 0 /\ op[r].pc = "cp" /\ op[r].base[1] < src[1]
         \/ copy[r][1] > op[r].base[1]
    /\ op[r].pc \in {"recheck", "copied"} \/ Placed(r) => copy[r] \in hist.snaps
CopiesAreMoments == src \in hist.snaps /\ src[1] > 0 /\ src[2] > 0 /\ \A r \in Runs : MomentOf(r)

CopyInv == CopyType /\ OnePlace /\ StagesMarked /\ Whereabouts /\ CopiesAreMoments

(* What is called differently is different.                                 *)
LEMMA Distinct ==
    /\ \A r, q \in Runs :
         (Stage(r) = Stage(q) => r = q) /\ (Data(r) = Data(q) => r = q) /\ Stage(r) # Data(q)
    /\ \A r \in Runs : /\ Stage(r) # Nothing /\ Data(r) # Nothing /\ Data(r) \notin Stages
                       /\ r \in Names /\ r # Dest /\ r # None /\ r # "theirs"
    /\ \A f \in Foreign : f # Nothing /\ f \notin Stages /\ \A r \in Runs : f # Data(r)
    /\ Nothing \notin Objects /\ Nothing \notin Stages /\ Dest \in Names /\ None # "theirs"
    /\ Stages \subseteq Objects /\ Foreign \subseteq Objects
    /\ \A r \in Runs : Stage(r) \in Stages /\ Data(r) \in Objects
<1> USE ConstantsAssumption DEF Stage, Data, Nothing, Stages, Objects, Names, Dest, Elsewhere, None
<1>1. \A r, q \in Runs :
        (Stage(r) = Stage(q) => r = q) /\ (Data(r) = Data(q) => r = q) /\ Stage(r) # Data(q)
  OBVIOUS
<1>2. \A r \in Runs : Stage(r) # Nothing /\ Data(r) # Nothing /\ Data(r) \notin Stages
  OBVIOUS
<1>3. \A r \in Runs : r \in Names /\ r # Dest /\ r # None /\ r # "theirs"
  OBVIOUS
<1>4. \A f \in Foreign : f # Nothing /\ f \notin Stages /\ \A r \in Runs : f # Data(r)
  OBVIOUS
<1>5. Nothing \notin Objects /\ Nothing \notin Stages /\ Dest \in Names /\ None # "theirs"
  OBVIOUS
<1>6. Stages \subseteq Objects /\ Foreign \subseteq Objects
  OBVIOUS
<1>7. \A r \in Runs : Stage(r) \in Stages /\ Data(r) \in Objects
  OBVIOUS
<1>8. QED
  BY <1>1, <1>2, <1>3, <1>4, <1>5, <1>6, <1>7

(* A run goes on, or ends: what becomes of its record.                      *)
LEMMA GoesOn ==
    ASSUME CopyType, NEW r \in Runs, NEW pc \in CopyPcs, Goes(r, pc)
    PROVE  /\ op' \in [Runs -> CopyRecords] /\ \A q \in Runs \ {r} : op'[q] = op[q]
           /\ op'[r].pc = pc /\ op'[r].app = op[r].app /\ op'[r].st = op[r].st
           /\ op'[r].base = op[r].base
<1>1. op \in [Runs -> CopyRecords] /\ op[r] \in CopyRecords
  BY DEF CopyType
<1>2. op' = [op EXCEPT ![r] = [op[r] EXCEPT !.pc = pc]]
  BY DEF Goes
<1>3. [op[r] EXCEPT !.pc = pc] \in CopyRecords
  BY <1>1 DEF CopyRecords
<1>4. op'[r] = [op[r] EXCEPT !.pc = pc]
  BY <1>1, <1>2
<1>5. /\ op'[r].pc = pc /\ op'[r].app = op[r].app /\ op'[r].st = op[r].st
      /\ op'[r].base = op[r].base
  BY <1>1, <1>4 DEF CopyRecords
<1>6. QED
  BY <1>1, <1>2, <1>3, <1>5

LEMMA EndsThere ==
    ASSUME CopyType, NEW r \in Runs, NEW pc \in CopyPcs, Ends(r, pc)
    PROVE  /\ op' \in [Runs -> CopyRecords] /\ \A q \in Runs \ {r} : op'[q] = op[q]
           /\ op'[r].pc = pc
<1>1. op \in [Runs -> CopyRecords] /\ op' = [op EXCEPT ![r] = [Idle EXCEPT !.pc = pc]]
  BY DEF CopyType, Ends
<1>2. /\ [Idle EXCEPT !.pc = pc] \in CopyRecords /\ [Idle EXCEPT !.pc = pc].pc = pc
  BY DEF Idle, CopyRecords, Unread, Readings, Parts
<1>3. QED
  BY <1>1, <1>2

(* A name is given to something, or to nothing.                             *)
Gives(d, n, x) == ent' = [ent EXCEPT ![d][n] = x]

LEMMA EntSet ==
    ASSUME CopyType, NEW d \in Apps, NEW n \in Names, NEW x \in Objects \cup {Nothing},
           Gives(d, n, x)
    PROVE  /\ ent' \in [Apps -> [Names -> Objects \cup {Nothing}]] /\ ent'[d][n] = x
           /\ \A e \in Apps, m \in Names : e # d \/ m # n => ent'[e][m] = ent[e][m]
<1>1. /\ ent \in [Apps -> [Names -> Objects \cup {Nothing}]]
      /\ [ent[d] EXCEPT ![n] = x] \in [Names -> Objects \cup {Nothing}]
  BY DEF CopyType
<1>2. QED
  BY <1>1 DEF Gives

(* What a run takes away of the directories: names of stages.               *)
OnlyStagesGo ==
    /\ ent' \in [Apps -> [Names -> Objects \cup {Nothing}]]
    /\ \A d \in Apps, n \in Names :
         ent'[d][n] = ent[d][n] \/ (ent'[d][n] = Nothing /\ ent[d][n] \in Stages)

LEMMA StageNameGoes ==
    ASSUME CopyType, NEW d \in Apps, NEW r \in Runs, ent[d][r] \in Stages,
           ent' = [ent EXCEPT ![d][r] = Nothing]
    PROVE  OnlyStagesGo
<1>1. r \in Names /\ Nothing \in Objects \cup {Nothing}
  BY Distinct
<1>2. /\ ent' \in [Apps -> [Names -> Objects \cup {Nothing}]] /\ ent'[d][r] = Nothing
      /\ \A e \in Apps, m \in Names : e # d \/ m # r => ent'[e][m] = ent[e][m]
  BY <1>1, EntSet DEF Gives
<1>3. QED
  BY <1>2 DEF OnlyStagesGo

(* A stage is emptied, and its token with it; copies are dropped with it.   *)
StageEmptied(r, st) ==
    /\ UNCHANGED appAt /\ OnlyStagesGo
    /\ node' \in [Stages \cup Foreign -> Marks] /\ copy' \in [Runs -> Readings]
    /\ node'[st].token = None /\ node'[st].data = None
    /\ \A o \in Stages \cup Foreign : o # st => node'[o] = node[o]
    /\ \A q \in Runs : copy'[q] = copy[q] \/ (copy'[q] = Unread /\ node[st].data = q)

LEMMA DiscardDoes ==
    ASSUME CopyType, NEW d \in Apps, NEW r \in Runs, NEW st \in Stages, Discard(d, r, st)
    PROVE  StageEmptied(r, st)
<1>1. EmptyDir \in Marks /\ EmptyDir.token = None /\ EmptyDir.data = None /\ Unread \in Readings
  BY DEF EmptyDir, Marks, Unread, Readings
<1>2. /\ node' \in [Stages \cup Foreign -> Marks] /\ node'[st] = EmptyDir
      /\ \A o \in Stages \cup Foreign : o # st => node'[o] = node[o]
  BY <1>1 DEF Discard, CopyType
<1>3. /\ copy' \in [Runs -> Readings]
      /\ \A q \in Runs : copy'[q] = copy[q] \/ (copy'[q] = Unread /\ node[st].data = q)
  BY <1>1 DEF Discard, CopyType
<1>4. OnlyStagesGo
  <2>1. CASE NameEmptied(d, r, st)
    BY <2>1, StageNameGoes DEF Discard, NameEmptied
  <2>2. CASE ~NameEmptied(d, r, st)
    BY <2>2 DEF Discard, OnlyStagesGo, CopyType
  <2>3. QED
    BY <2>1, <2>2
<1>5. QED
  BY <1>1, <1>2, <1>3, <1>4 DEF StageEmptied, Discard

(* What the steps of a run do: some touch nothing but the run's own record. *)
Quiet(r) ==
    \/ BeginCopy(r) \/ OpenNew(r) \/ \E i \in Parts : ReadManifest(r, i)
    \/ At(r, "verify") /\ Matches(r) /\ Goes(r, "recheck") /\ UNCHANGED <<files, hist, others>>
    \/ At(r, "recheck") /\ UNCHANGED <<files, others>>
         /\ ((Ends(r, "copied") /\ UNCHANGED hist) \/ Fails(r, TRUE))
    \/ At(r, "copied") /\ Ends(r, "unexposed") /\ UNCHANGED <<files, others, hist>>
    \/ op[r].pc \in {"copied", "unexposed"} /\ Ends(r, "kept") /\ UNCHANGED <<files, others, hist>>
    \/ At(r, "moved") /\ CutShort(r, "unexposed") /\ UNCHANGED others
    \/ Kill(r)

(* Some give up a stage that bears the run's token.                         *)
GivesUp(r) ==
    /\ UNCHANGED others
    /\ \E st \in Stages :
         /\ node[st].token = r /\ StageEmptied(r, st)
         /\ \/ op[r].pc \in {"manifest", "cp", "verify", "recheck"} /\ \E w \in BOOLEAN : Fails(r, w)
            \/ op[r].pc \in {"copied", "unexposed"} /\ Ends(r, "removed") /\ UNCHANGED hist

ExposeDone(r) ==
    LET o == ent[appAt][r] IN
    /\ At(r, "copied") /\ IsStage(o, r) /\ node[o].data # None /\ ent[appAt][Dest] = Nothing
    /\ ent' = [ent EXCEPT ![appAt][Dest] = Data(node[o].data)]
    /\ node' = [node EXCEPT ![o].data = None]
    /\ op' = [op EXCEPT ![r].pc = "moved", ![r].app = appAt, ![r].st = o]
    /\ UNCHANGED <<appAt, copy, others, hist>>

UnmarkDone(r) ==
    /\ At(r, "moved")
    /\ node' = [node EXCEPT ![op[r].st].token = None]
    /\ Goes(r, "unmarked")
    /\ UNCHANGED <<appAt, ent, copy, others, hist>>

LEMMA StepsOfARun ==
    ASSUME CopyType, StagesMarked, NEW r \in Runs, RunStep(r) \/ Kill(r)
    PROVE  \/ Quiet(r) \/ MakeStage(r) \/ MarkStage(r) \/ \E i \in Parts : CopyPart(r, i)
           \/ GivesUp(r) \/ ExposeDone(r) \/ UnmarkDone(r) \/ RemoveStage(r)
<1>1. op[r].pc \in {"manifest", "cp", "verify"} /\ Discards(r) /\ UNCHANGED others => GivesUp(r)
  <2> SUFFICES ASSUME op[r].pc \in {"manifest", "cp", "verify"}, Discards(r), UNCHANGED others
               PROVE  GivesUp(r)
    OBVIOUS
  <2>1. op[r].app \in Apps /\ op[r].st \in Stages /\ node[op[r].st].token = r
    BY DEF CopyType, StagesMarked, TokenHeld, Holding
  <2>2. StageEmptied(r, op[r].st)
    BY <2>1, DiscardDoes DEF Discards
  <2>3. \E w \in BOOLEAN : Fails(r, w)
    <3>1. CASE NameEmptied(op[r].app, r, op[r].st)
      BY <3>1 DEF Discards, Fails
    <3>2. CASE ~NameEmptied(op[r].app, r, op[r].st)
      BY <3>2 DEF Discards, Fails
    <3>3. QED
      BY <3>1, <3>2
  <2>4. QED
    BY <2>1, <2>2, <2>3 DEF GivesUp
<1>2. CASE Compare(r)
  BY <1>1, <1>2 DEF Compare, At, Quiet
<1>3. CASE Uncopyable(r)
  BY <1>1, <1>3 DEF Uncopyable
<1>4. CASE Recheck(r)
  <2>1. CASE up /\ IsStage(ent[appAt][r], r)
    <3>1. StageEmptied(r, ent[appAt][r])
      BY <1>4, <2>1, DiscardDoes DEF Recheck, IsStage, CopyType
    <3>2. QED
      BY <1>4, <2>1, <3>1 DEF Recheck, IsStage, GivesUp, At
  <2>2. CASE ~(up /\ IsStage(ent[appAt][r], r))
    BY <1>4, <2>2 DEF Recheck, Quiet, At
  <2>3. QED
    BY <2>1, <2>2
<1>5. CASE RemoveCopy(r)
  <2>1. CASE IsStage(ent[appAt][r], r)
    <3>1. StageEmptied(r, ent[appAt][r])
      BY <1>5, <2>1, DiscardDoes DEF RemoveCopy, IsStage, CopyType
    <3>2. QED
      BY <1>5, <2>1, <3>1 DEF RemoveCopy, IsStage, GivesUp
  <2>2. CASE ~IsStage(ent[appAt][r], r)
    BY <1>5, <2>2 DEF RemoveCopy, Quiet
  <2>3. QED
    BY <2>1, <2>2
<1>6. CASE Expose(r)
  BY <1>6 DEF Expose, ExposeDone, Quiet, At
<1>7. CASE Unmark(r)
  BY <1>7 DEF Unmark, UnmarkDone, Quiet
<1>8. QED
  BY <1>2, <1>3, <1>4, <1>5, <1>6, <1>7 DEF RunStep, Quiet

(* What happened is not forgotten, and a failure is on record as it says.   *)
HistGrows ==
    /\ hist' \in [snaps : SUBSET Readings, cut : SUBSET Runs, warned : SUBSET Runs]
    /\ hist'.snaps = hist.snaps /\ hist.cut \subseteq hist'.cut
    /\ hist.warned \subseteq hist'.warned

(* The other runs are where they were.                                      *)
Alone(r) == op' \in [Runs -> CopyRecords] /\ \A q \in Runs \ {r} : op'[q] = op[q]
Same(r) == op'[r].app = op[r].app /\ op'[r].st = op[r].st /\ op'[r].base = op[r].base

LEMMA HistStays == ASSUME CopyType, UNCHANGED hist PROVE HistGrows
BY DEF CopyType, HistGrows

LEMMA FailsThere ==
    ASSUME CopyType, NEW r \in Runs, NEW w \in BOOLEAN, Fails(r, w)
    PROVE  /\ HistGrows /\ (w => r \in hist'.warned) /\ Alone(r) /\ op'[r].pc = "failed"
<1>1. Alone(r) /\ op'[r].pc = "failed"
  BY EndsThere DEF Fails, CopyPcs, Alone
<1>2. HistGrows /\ (w => r \in hist'.warned)
  BY DEF Fails, CopyType, HistGrows
<1>3. QED
  BY <1>1, <1>2

LEMMA KillDoes ==
    ASSUME CopyType, NEW r \in Runs, Kill(r)
    PROVE  /\ UNCHANGED <<files, src, up>> /\ budget' \in 0 .. EnvBudget
           /\ HistGrows /\ r \in hist'.cut /\ Alone(r)
           /\ \/ /\ op[r].pc \in {"mkdir", "open", "mark", "manifest", "cp", "verify", "recheck"}
                 /\ op'[r].pc = "failed"
              \/ op[r].pc \in {"moved", "unmarked"} /\ op'[r].pc = "unexposed"
<1>1. /\ UNCHANGED <<files, src, up>> /\ budget' = budget - 1 /\ budget > 0
      /\ hist' = [hist EXCEPT !.cut = @ \cup {r}]
  BY DEF Kill, CutShort
<1>2. budget' \in 0 .. EnvBudget
  BY <1>1, ConstantsAssumption DEF CopyType
<1>3. HistGrows /\ r \in hist'.cut
  BY <1>1 DEF CopyType, HistGrows
<1>4. "failed" \in CopyPcs /\ "unexposed" \in CopyPcs
  BY DEF CopyPcs
<1>5. QED
  BY <1>1, <1>2, <1>3, <1>4, EndsThere DEF Kill, CutShort, Alone

LEMMA ReadManifestDoes ==
    ASSUME CopyType, NEW r \in Runs, NEW i \in Parts, ReadManifest(r, i)
    PROVE  /\ op[r].pc = "manifest" /\ Alone(r) /\ UNCHANGED <<files, others, hist>>
           /\ op'[r].app = op[r].app /\ op'[r].st = op[r].st
           /\ \/ op'[r].pc = "manifest" /\ op'[r].base[1] = src[1] /\ op'[r].base[2] = op[r].base[2]
              \/ op'[r].pc = "cp" /\ op'[r].base[1] = op[r].base[1] /\ op'[r].base[2] = src[2]
<1>1. op \in [Runs -> CopyRecords] /\ op[r] \in CopyRecords /\ src[i] \in Nat
  BY DEF CopyType, Readings
<1>2. /\ op[r].pc = "manifest" /\ UNCHANGED <<files, others, hist>>
      /\ op' = [op EXCEPT ![r] = [op[r] EXCEPT !.base = [op[r].base EXCEPT ![i] = src[i]],
                                               !.pc = IF i = 2 THEN "cp" ELSE @]]
  BY DEF ReadManifest, At
<1> DEFINE read == [op[r].base EXCEPT ![i] = src[i]]
<1>3. read \in Readings /\ read[i] = src[i] /\ \A j \in Parts \ {i} : read[j] = op[r].base[j]
  BY <1>1 DEF CopyRecords, Readings
<1> HIDE DEF read
<1>4. op'[r] = [op[r] EXCEPT !.base = read, !.pc = IF i = 2 THEN "cp" ELSE @]
  BY <1>1, <1>2 DEF read
<1>5. /\ op'[r].app = op[r].app /\ op'[r].st = op[r].st /\ op'[r].base = read
      /\ op'[r].pc = IF i = 2 THEN "cp" ELSE "manifest"
      /\ op'[r] \in CopyRecords
  BY <1>1, <1>2, <1>3, <1>4 DEF CopyRecords, CopyPcs, Early, Holding
<1>6. Alone(r)
  BY <1>1, <1>2, <1>5 DEF Alone
<1>7. i = 1 \/ i = 2
  BY DEF Parts
<1>8. \/ op'[r].pc = "manifest" /\ op'[r].base[1] = src[1] /\ op'[r].base[2] = op[r].base[2]
      \/ op'[r].pc = "cp" /\ op'[r].base[1] = op[r].base[1] /\ op'[r].base[2] = src[2]
  <2>1. CASE i = 1
    BY <1>3, <1>5, <2>1 DEF Parts
  <2>2. CASE i = 2
    BY <1>3, <1>5, <2>2 DEF Parts
  <2>3. QED
    BY <1>7, <2>1, <2>2
<1>9. QED
  BY <1>2, <1>5, <1>6, <1>8

LEMMA QuietDoes ==
    ASSUME CopyType, NEW r \in Runs, Quiet(r)
    PROVE  /\ UNCHANGED <<files, src, up>> /\ budget' \in 0 .. EnvBudget /\ HistGrows /\ Alone(r)
           /\ \/ /\ op[r].pc = "idle" /\ op'[r].pc = "mkdir" /\ op'[r].app \in Apps
                 /\ op'[r].base = op[r].base
              \/ /\ op[r].pc = "open" /\ op'[r].pc = "mark" /\ op'[r].st \in Stages
                 /\ op'[r].app = op[r].app /\ op'[r].base = op[r].base
              \/ /\ op[r].pc = "manifest" /\ op'[r].pc = "manifest"
                 /\ op'[r].app = op[r].app /\ op'[r].st = op[r].st
                 /\ op'[r].base[1] = src[1] /\ op'[r].base[2] = op[r].base[2]
              \/ /\ op[r].pc = "manifest" /\ op'[r].pc = "cp"
                 /\ op'[r].app = op[r].app /\ op'[r].st = op[r].st
                 /\ op'[r].base[1] = op[r].base[1] /\ op'[r].base[2] = src[2]
              \/ op[r].pc = "verify" /\ op'[r].pc = "recheck" /\ Matches(r) /\ Same(r)
              \/ op[r].pc = "recheck" /\ op'[r].pc = "copied"
              \/ op[r].pc = "recheck" /\ op'[r].pc = "failed" /\ r \in hist'.warned
              \/ op[r].pc = "copied" /\ op'[r].pc = "unexposed"
              \/ op[r].pc \in {"copied", "unexposed"} /\ op'[r].pc = "kept"
              \/ op[r].pc \in {"idle", "open"} /\ op'[r].pc = "failed"
              \/ /\ op[r].pc \in {"mkdir", "open", "mark", "manifest", "cp", "verify", "recheck"}
                 /\ op'[r].pc = "failed" /\ r \in hist'.cut
              \/ /\ op[r].pc \in {"moved", "unmarked"} /\ op'[r].pc = "unexposed"
                 /\ r \in hist'.cut
<1>0. budget \in 0 .. EnvBudget /\ op \in [Runs -> CopyRecords] /\ op[r] \in CopyRecords
  BY DEF CopyType
<1>1. CASE BeginCopy(r)
  <2>1. CASE Fails(r, FALSE)
    BY <1>0, <1>1, <2>1, FailsThere DEF BeginCopy, At, others
  <2>2. CASE op' = [op EXCEPT ![r].pc = "mkdir", ![r].app = appAt] /\ UNCHANGED hist
    <3>1. op' = [op EXCEPT ![r] = [op[r] EXCEPT !.pc = "mkdir", !.app = appAt]]
      BY <2>2, <1>0
    <3>2. [op[r] EXCEPT !.pc = "mkdir", !.app = appAt] \in CopyRecords
      BY <1>0 DEF CopyRecords, CopyPcs, Early, Unmarked, CopyType
    <3>3. op'[r].pc = "mkdir" /\ op'[r].app = appAt /\ op'[r].base = op[r].base /\ Alone(r)
      BY <1>0, <3>1, <3>2 DEF CopyRecords, Alone
    <3>4. QED
      BY <1>0, <1>1, <2>2, <3>3, HistStays DEF BeginCopy, At, others, CopyType
  <2>3. QED
    BY <1>1, <2>1, <2>2 DEF BeginCopy
<1>2. CASE OpenNew(r)
  <2> DEFINE o == ent[op[r].app][r]
  <2>1. CASE Fails(r, FALSE)
    BY <1>0, <1>2, <2>1, FailsThere DEF OpenNew, At, others
  <2>2. CASE o \in Stages /\ op' = [op EXCEPT ![r].pc = "mark", ![r].st = o] /\ UNCHANGED hist
    <3>1. op' = [op EXCEPT ![r] = [op[r] EXCEPT !.pc = "mark", !.st = o]]
      BY <2>2, <1>0
    <3>2. [op[r] EXCEPT !.pc = "mark", !.st = o] \in CopyRecords
      BY <1>0, <2>2 DEF CopyRecords, CopyPcs, Early, Unmarked
    <3>3. /\ op'[r].pc = "mark" /\ op'[r].st = o /\ op'[r].app = op[r].app
          /\ op'[r].base = op[r].base /\ Alone(r)
      BY <1>0, <3>1, <3>2 DEF CopyRecords, Alone
    <3>4. QED
      BY <1>0, <1>2, <2>2, <3>3, HistStays DEF OpenNew, At, others
  <2>3. QED
    BY <1>2, <2>1, <2>2 DEF OpenNew, Fresh
<1>3. CASE \E i \in Parts : ReadManifest(r, i)
  <2>1. PICK i \in Parts : ReadManifest(r, i)
    BY <1>3
  <2>2. /\ op[r].pc = "manifest" /\ Alone(r) /\ UNCHANGED <<files, others, hist>>
        /\ op'[r].app = op[r].app /\ op'[r].st = op[r].st
        /\ \/ op'[r].pc = "manifest" /\ op'[r].base[1] = src[1] /\ op'[r].base[2] = op[r].base[2]
           \/ op'[r].pc = "cp" /\ op'[r].base[1] = op[r].base[1] /\ op'[r].base[2] = src[2]
    BY <2>1, ReadManifestDoes
  <2>3. HistGrows
    BY <2>2, HistStays
  <2>4. QED
    BY <1>0, <2>2, <2>3 DEF others
<1>4. CASE At(r, "verify") /\ Matches(r) /\ Goes(r, "recheck") /\ UNCHANGED <<files, hist, others>>
  <2>1. Alone(r) /\ op'[r].pc = "recheck" /\ Same(r)
    BY <1>4, GoesOn DEF Alone, Same, CopyPcs, Holding
  <2>2. QED
    BY <1>0, <1>4, <2>1, HistStays DEF At, others
<1>5. CASE At(r, "recheck") /\ UNCHANGED <<files, others>>
             /\ ((Ends(r, "copied") /\ UNCHANGED hist) \/ Fails(r, TRUE))
  <2>1. CASE Fails(r, TRUE)
    BY <1>0, <1>5, <2>1, FailsThere DEF At, others
  <2>2. CASE Ends(r, "copied") /\ UNCHANGED hist
    BY <1>0, <1>5, <2>2, EndsThere, HistStays DEF At, others, Alone, CopyPcs
  <2>3. QED
    BY <1>5, <2>1, <2>2
<1>6. CASE At(r, "copied") /\ Ends(r, "unexposed") /\ UNCHANGED <<files, others, hist>>
  BY <1>0, <1>6, EndsThere, HistStays DEF At, others, Alone, CopyPcs
<1>7. CASE op[r].pc \in {"copied", "unexposed"} /\ Ends(r, "kept") /\ UNCHANGED <<files, others, hist>>
  BY <1>0, <1>7, EndsThere, HistStays DEF At, others, Alone, CopyPcs
<1>8. CASE Kill(r)
  BY <1>8, KillDoes
<1>9. CASE At(r, "moved") /\ CutShort(r, "unexposed") /\ UNCHANGED others
  <2>1. HistGrows /\ r \in hist'.cut
    BY <1>9 DEF CutShort, CopyType, HistGrows
  <2>2. QED
    BY <1>0, <1>9, <2>1, EndsThere DEF At, others, CutShort, Alone, CopyPcs
<1>10. QED
  BY <1>1, <1>2, <1>3, <1>4, <1>5, <1>6, <1>7, <1>8, <1>9 DEF Quiet

LEMMA MakeStageDoes ==
    ASSUME CopyType, NEW r \in Runs, MakeStage(r)
    PROVE  /\ UNCHANGED <<appAt, node, copy, others>> /\ HistGrows /\ Alone(r) /\ op[r].pc = "mkdir"
           /\ \/ op'[r].pc = "failed" /\ UNCHANGED ent
              \/ /\ op'[r].pc = "open" /\ Same(r)
                 /\ \E d \in Apps : ent[d][r] = Nothing /\ ent' = [ent EXCEPT ![d][r] = Stage(r)]
<1>1. op[r].pc = "mkdir" /\ op[r].app \in Apps
  BY DEF MakeStage, At, CopyType
<1>2. CASE ent[op[r].app][r] # Nothing
  BY <1>1, <1>2, FailsThere DEF MakeStage, files
<1>3. CASE ent[op[r].app][r] = Nothing
  <2>1. Alone(r) /\ op'[r].pc = "open" /\ Same(r)
    BY <1>3, GoesOn DEF MakeStage, Alone, Same, CopyPcs, Early, Unmarked
  <2>2. QED
    BY <1>1, <1>3, <2>1, HistStays DEF MakeStage
<1>4. QED
  BY <1>2, <1>3

(* A mark is set, or a content, or both are taken off.                      *)
LEMMA NodeSet ==
    ASSUME CopyType, NEW st \in Stages
    PROVE  /\ \A t \in Runs \cup {None} :
                node' = [node EXCEPT ![st].token = t] =>
                  /\ node' \in [Stages \cup Foreign -> Marks]
                  /\ node'[st].token = t /\ node'[st].data = node[st].data
                  /\ \A o \in Stages \cup Foreign : o # st => node'[o] = node[o]
           /\ \A x \in Runs \cup {None} :
                node' = [node EXCEPT ![st].data = x] =>
                  /\ node' \in [Stages \cup Foreign -> Marks]
                  /\ node'[st].data = x /\ node'[st].token = node[st].token
                  /\ \A o \in Stages \cup Foreign : o # st => node'[o] = node[o]
<1>1. node \in [Stages \cup Foreign -> Marks] /\ node[st] \in Marks
  BY DEF CopyType
<1>2. ASSUME NEW t \in Runs \cup {None}, node' = [node EXCEPT ![st].token = t]
      PROVE  /\ node' \in [Stages \cup Foreign -> Marks]
             /\ node'[st].token = t /\ node'[st].data = node[st].data
             /\ \A o \in Stages \cup Foreign : o # st => node'[o] = node[o]
  <2>1. /\ [node[st] EXCEPT !.token = t] \in Marks /\ [node[st] EXCEPT !.token = t].token = t
        /\ [node[st] EXCEPT !.token = t].data = node[st].data
    BY <1>1 DEF Marks
  <2>2. node' = [node EXCEPT ![st] = [node[st] EXCEPT !.token = t]]
    BY <1>2
  <2>3. QED
    BY <1>1, <2>1, <2>2
<1>3. ASSUME NEW x \in Runs \cup {None}, node' = [node EXCEPT ![st].data = x]
      PROVE  /\ node' \in [Stages \cup Foreign -> Marks]
             /\ node'[st].data = x /\ node'[st].token = node[st].token
             /\ \A o \in Stages \cup Foreign : o # st => node'[o] = node[o]
  <2>1. /\ [node[st] EXCEPT !.data = x] \in Marks /\ [node[st] EXCEPT !.data = x].data = x
        /\ [node[st] EXCEPT !.data = x].token = node[st].token
    BY <1>1 DEF Marks
  <2>2. node' = [node EXCEPT ![st] = [node[st] EXCEPT !.data = x]]
    BY <1>3
  <2>3. QED
    BY <1>1, <2>1, <2>2
<1>4. QED
  BY <1>2, <1>3

Others(st) == \A o \in Stages \cup Foreign : o # st => node'[o] = node[o]

LEMMA MarkStageDoes ==
    ASSUME CopyType, NEW r \in Runs, MarkStage(r)
    PROVE  /\ UNCHANGED <<appAt, copy, others>> /\ HistGrows /\ Alone(r) /\ op[r].pc = "mark"
           /\ \/ op'[r].pc = "failed" /\ OnlyStagesGo /\ UNCHANGED node
              \/ /\ op'[r].pc = "manifest" /\ Same(r) /\ UNCHANGED ent
                 /\ op[r].st \in Stages /\ node[op[r].st].token = None
                 /\ node' \in [Stages \cup Foreign -> Marks] /\ node'[op[r].st].token = r
                 /\ node'[op[r].st].data = node[op[r].st].data /\ Others(op[r].st)
<1>1. op[r].pc = "mark" /\ op[r].app \in Apps /\ op[r].st \in Stages
  BY DEF MarkStage, At, CopyType
<1>2. CASE node[op[r].st].token = None
  <2>1. Alone(r) /\ op'[r].pc = "manifest" /\ Same(r)
    BY <1>2, GoesOn DEF MarkStage, Alone, Same, CopyPcs, Early
  <2>2. node' = [node EXCEPT ![op[r].st].token = r] /\ UNCHANGED <<appAt, ent, copy, hist, others>>
    BY <1>2 DEF MarkStage
  <2>3. /\ node' \in [Stages \cup Foreign -> Marks] /\ node'[op[r].st].token = r
        /\ node'[op[r].st].data = node[op[r].st].data /\ Others(op[r].st)
    BY <1>1, <2>2, NodeSet DEF Others
  <2>4. QED
    BY <1>1, <1>2, <2>1, <2>2, <2>3, HistStays
<1>3. CASE node[op[r].st].token # None
  <2>1. Fails(r, FALSE) /\ UNCHANGED <<appAt, node, copy, others>>
    BY <1>3 DEF MarkStage
  <2>2. OnlyStagesGo
    <3>1. CASE UNCHANGED ent
      BY <3>1 DEF CopyType, OnlyStagesGo
    <3>2. CASE ent[op[r].app][r] \in Stages /\ ent' = [ent EXCEPT ![op[r].app][r] = Nothing]
      BY <1>1, <3>2, StageNameGoes
    <3>3. QED
      BY <1>3, <3>1, <3>2 DEF MarkStage
  <2>3. QED
    BY <1>1, <2>1, <2>2, FailsThere
<1>4. QED
  BY <1>2, <1>3

LEMMA CopyPartDoes ==
    ASSUME CopyType, NEW r \in Runs, NEW i \in Parts, CopyPart(r, i)
    PROVE  /\ UNCHANGED <<appAt, ent, others, hist>> /\ Alone(r) /\ Same(r) /\ op[r].pc = "cp"
           /\ op[r].st \in Stages /\ copy' \in [Runs -> Readings]
           /\ \A q \in Runs \ {r} : copy'[q] = copy[q]
           /\ \/ i = 1 /\ op'[r].pc = "cp" /\ copy[r][1] = 0 /\ copy'[r][1] = src[1]
              \/ i = 2 /\ op'[r].pc = "verify" /\ copy[r][1] # 0 /\ copy'[r][1] = copy[r][1]
           /\ node' \in [Stages \cup Foreign -> Marks] /\ node'[op[r].st].data = r
           /\ node'[op[r].st].token = node[op[r].st].token /\ Others(op[r].st)
<1>1. op[r].pc = "cp" /\ op[r].st \in Stages /\ op[r] \in CopyRecords /\ op \in [Runs -> CopyRecords]
  BY DEF CopyPart, At, CopyType, Holding
<1>2. /\ node' \in [Stages \cup Foreign -> Marks] /\ node'[op[r].st].data = r
      /\ node'[op[r].st].token = node[op[r].st].token /\ Others(op[r].st)
  <2>1. PICK st \in Stages : st = op[r].st
    BY <1>1
  <2>2. node' = [node EXCEPT ![st].data = r] /\ r \in Runs \cup {None}
    BY <2>1 DEF CopyPart
  <2>3. QED
    BY <2>1, <2>2, NodeSet DEF Others
<1>3. op' = [op EXCEPT ![r] = [op[r] EXCEPT !.pc = IF i = 2 THEN "verify" ELSE @]]
  BY DEF CopyPart
<1>4. [op[r] EXCEPT !.pc = IF i = 2 THEN "verify" ELSE @] \in CopyRecords
  BY <1>1 DEF CopyRecords, CopyPcs, Holding
<1>5. op'[r].pc = (IF i = 2 THEN "verify" ELSE "cp") /\ Same(r) /\ Alone(r)
  BY <1>1, <1>3, <1>4 DEF CopyRecords, Same, Alone
<1>6. i = 1 \/ i = 2
  BY DEF Parts
<1>7. copy \in [Runs -> Readings] /\ copy[r] \in [Parts -> Nat] /\ src[i] \in Nat /\ 1 \in Parts /\ 2 \in Parts
  BY DEF CopyType, Readings, Parts
<1>8. copy' = [copy EXCEPT ![r] = [copy[r] EXCEPT ![i] = src[i]]] /\ copy[r][i] = 0
      /\ \A j \in Parts : j < i => copy[r][j] # 0
  BY DEF CopyPart
<1>9. [copy[r] EXCEPT ![i] = src[i]] \in Readings
  BY <1>7 DEF Readings
<1>10. /\ copy' \in [Runs -> Readings] /\ copy'[r] = [copy[r] EXCEPT ![i] = src[i]]
       /\ \A q \in Runs \ {r} : copy'[q] = copy[q]
  BY <1>7, <1>8, <1>9
<1>11. \/ i = 1 /\ copy[r][1] = 0 /\ copy'[r][1] = src[1]
       \/ i = 2 /\ copy[r][1] # 0 /\ copy'[r][1] = copy[r][1]
  <2>1. CASE i = 1
    BY <1>7, <1>8, <1>10, <2>1
  <2>2. CASE i = 2
    BY <1>7, <1>8, <1>10, <2>2
  <2>3. QED
    BY <1>6, <2>1, <2>2
<1>12. UNCHANGED <<appAt, ent, others, hist>>
  BY DEF CopyPart
<1>13. QED
  BY <1>1, <1>2, <1>5, <1>10, <1>11, <1>12

LEMMA GivesUpDoes ==
    ASSUME CopyType, NEW r \in Runs, GivesUp(r)
    PROVE  /\ UNCHANGED others /\ HistGrows /\ Alone(r)
           /\ \E st \in Stages : node[st].token = r /\ StageEmptied(r, st)
           /\ \/ op[r].pc \in {"manifest", "cp", "verify", "recheck"} /\ op'[r].pc = "failed"
              \/ op[r].pc \in {"copied", "unexposed"} /\ op'[r].pc = "removed"
<1>1. CASE op[r].pc \in {"manifest", "cp", "verify", "recheck"} /\ \E w \in BOOLEAN : Fails(r, w)
  BY <1>1, FailsThere DEF GivesUp
<1>2. CASE op[r].pc \in {"copied", "unexposed"} /\ Ends(r, "removed") /\ UNCHANGED hist
  BY <1>2, EndsThere, HistStays DEF GivesUp, Alone, CopyPcs
<1>3. QED
  BY <1>1, <1>2 DEF GivesUp

(* The run's own copy is exposed: nobody else's is in its stage.            *)
LEMMA ExposeDoes ==
    ASSUME CopyType, StagesMarked, NEW r \in Runs, ExposeDone(r)
    PROVE  /\ UNCHANGED <<appAt, copy, others, hist>> /\ Alone(r)
           /\ op[r].pc = "copied" /\ op'[r].pc = "moved"
           /\ op'[r].app \in Apps /\ op'[r].st \in Stages
           /\ node[op'[r].st].token = r /\ node[op'[r].st].data = r
           /\ node' \in [Stages \cup Foreign -> Marks] /\ node'[op'[r].st].data = None
           /\ node'[op'[r].st].token = r /\ Others(op'[r].st)
           /\ ent' \in [Apps -> [Names -> Objects \cup {Nothing}]]
           /\ \E d \in Apps :
                /\ ent[d][Dest] = Nothing /\ ent'[d][Dest] = Data(r)
                /\ \A e \in Apps, m \in Names : e # d \/ m # Dest => ent'[e][m] = ent[e][m]
<1> DEFINE o == ent[appAt][r]
<1>1. /\ op[r].pc = "copied" /\ o \in Stages /\ node[o].token = r /\ node[o].data # None
      /\ ent[appAt][Dest] = Nothing /\ UNCHANGED <<appAt, copy, others, hist>>
      /\ ent' = [ent EXCEPT ![appAt][Dest] = Data(node[o].data)]
      /\ node' = [node EXCEPT ![o].data = None]
      /\ op' = [op EXCEPT ![r].pc = "moved", ![r].app = appAt, ![r].st = o]
  BY DEF ExposeDone, At, IsStage
<1>2. node[o].data = r /\ appAt \in Apps
  BY <1>1 DEF StagesMarked, ContentMarked, CopyType
<1> HIDE DEF o
<1>3. op \in [Runs -> CopyRecords] /\ op[r] \in CopyRecords
  BY DEF CopyType
<1>4. op'[r] = [op[r] EXCEPT !.pc = "moved", !.app = appAt, !.st = o]
  BY <1>1, <1>3
<1>5. /\ op'[r] \in CopyRecords /\ op'[r].pc = "moved" /\ op'[r].app = appAt /\ op'[r].st = o
  BY <1>1, <1>2, <1>3, <1>4 DEF CopyRecords, CopyPcs, Holding
<1>6. Alone(r)
  BY <1>1, <1>3, <1>5 DEF Alone
<1>7. /\ node' \in [Stages \cup Foreign -> Marks] /\ node'[o].data = None
      /\ node'[o].token = r /\ Others(o)
  BY <1>1, NodeSet DEF Others
<1>8. ent' = [ent EXCEPT ![appAt][Dest] = Data(r)] /\ Data(r) \in Objects \cup {Nothing} /\ Dest \in Names
  BY <1>1, <1>2, Distinct
<1>9. /\ ent' \in [Apps -> [Names -> Objects \cup {Nothing}]] /\ ent'[appAt][Dest] = Data(r)
      /\ \A e \in Apps, m \in Names : e # appAt \/ m # Dest => ent'[e][m] = ent[e][m]
  <2>1. Gives(appAt, Dest, Data(r))
    BY <1>8 DEF Gives
  <2>2. QED
    BY <1>2, <1>8, <2>1, EntSet
<1>10. QED
  BY <1>1, <1>2, <1>5, <1>6, <1>7, <1>9

LEMMA UnmarkDoes ==
    ASSUME CopyType, NEW r \in Runs, UnmarkDone(r)
    PROVE  /\ UNCHANGED <<appAt, ent, copy, others, hist>> /\ Alone(r) /\ Same(r)
           /\ op[r].pc = "moved" /\ op'[r].pc = "unmarked" /\ op[r].st \in Stages
           /\ node' \in [Stages \cup Foreign -> Marks] /\ node'[op[r].st].token = None
           /\ node'[op[r].st].data = node[op[r].st].data /\ Others(op[r].st)
<1>1. op[r].pc = "moved" /\ op[r].st \in Stages
  BY DEF UnmarkDone, At, CopyType, Holding
<1>2. /\ node' \in [Stages \cup Foreign -> Marks] /\ node'[op[r].st].token = None
      /\ node'[op[r].st].data = node[op[r].st].data /\ Others(op[r].st)
  BY <1>1, NodeSet DEF UnmarkDone, Others
<1>3. Alone(r) /\ Same(r) /\ op'[r].pc = "unmarked"
  BY GoesOn DEF UnmarkDone, Alone, Same, CopyPcs
<1>4. QED
  BY <1>1, <1>2, <1>3 DEF UnmarkDone

LEMMA RemoveStageDoes ==
    ASSUME CopyType, NEW r \in Runs, RemoveStage(r)
    PROVE  /\ UNCHANGED <<appAt, node, copy, others, hist>> /\ Alone(r) /\ OnlyStagesGo
           /\ op[r].pc = "unmarked" /\ op'[r].pc \in {"exposed", "unexposed"}
<1>1. op[r].pc = "unmarked" /\ op[r].app \in Apps
  BY DEF RemoveStage, At, CopyType
<1>2. CASE /\ NameEmptied(op[r].app, r, Nothing)
           /\ ent' = [ent EXCEPT ![op[r].app][r] = Nothing] /\ Ends(r, "exposed")
  BY <1>1, <1>2, StageNameGoes, EndsThere DEF RemoveStage, NameEmptied, Alone, CopyPcs
<1>3. CASE Ends(r, "unexposed") /\ UNCHANGED ent
  <2>1. OnlyStagesGo
    BY <1>3 DEF OnlyStagesGo, CopyType
  <2>2. QED
    BY <1>1, <1>3, <2>1, EndsThere DEF RemoveStage, Alone, CopyPcs
<1>4. QED
  BY <1>2, <1>3 DEF RemoveStage

(* Others rename and put things, and write to the volume.                   *)
LEMMA RenameDoes ==
    ASSUME CopyType, NEW n \in Names, NEW m \in Names, Rename(appAt, n, m)
    PROVE  /\ UNCHANGED <<appAt, node, copy, src, up, op, hist>> /\ budget' \in 0 .. EnvBudget
           /\ ent' \in [Apps -> [Names -> Objects \cup {Nothing}]]
           /\ \E d \in Apps :
                /\ ent'[d][n] = Nothing /\ ent'[d][m] = ent[d][n] /\ ent[d][m] = Nothing
                /\ \A e \in Apps, k \in Names : e # d \/ (k # n /\ k # m) => ent'[e][k] = ent[e][k]
<1>1. /\ ent \in [Apps -> [Names -> Objects \cup {Nothing}]] /\ appAt \in Apps
      /\ budget \in 0 .. EnvBudget
  BY DEF CopyType
<1>2. /\ UNCHANGED <<appAt, node, copy, src, up, op, hist>> /\ budget' = budget - 1 /\ budget > 0
      /\ ent[appAt][n] # Nothing /\ ent[appAt][m] = Nothing /\ n # m
      /\ ent' = [ent EXCEPT ![appAt] = [[ent[appAt] EXCEPT ![m] = ent[appAt][n]] EXCEPT ![n] = Nothing]]
  BY <1>1 DEF Rename, Spend
<1>3. budget' \in 0 .. EnvBudget
  BY <1>1, <1>2, ConstantsAssumption
<1> DEFINE row == [[ent[appAt] EXCEPT ![m] = ent[appAt][n]] EXCEPT ![n] = Nothing]
<1>4. /\ row \in [Names -> Objects \cup {Nothing}] /\ row[n] = Nothing /\ row[m] = ent[appAt][n]
      /\ \A k \in Names : k # n /\ k # m => row[k] = ent[appAt][k]
  BY <1>1, <1>2
<1> HIDE DEF row
<1>5. ent' = [ent EXCEPT ![appAt] = row]
  BY <1>2 DEF row
<1>6. QED
  BY <1>1, <1>2, <1>3, <1>4, <1>5

LEMMA PlantDoes ==
    ASSUME CopyType, NEW f \in Foreign, NEW n \in Names, Plant(f, appAt, n)
    PROVE  /\ UNCHANGED <<appAt, node, copy, src, up, op, hist>> /\ budget' \in 0 .. EnvBudget
           /\ \A e \in Apps, m \in Names : ent[e][m] # f
           /\ ent' \in [Apps -> [Names -> Objects \cup {Nothing}]]
           /\ \E d \in Apps :
                /\ ent[d][n] = Nothing /\ ent'[d][n] = f
                /\ \A e \in Apps, m \in Names : e # d \/ m # n => ent'[e][m] = ent[e][m]
<1>1. appAt \in Apps /\ budget \in 0 .. EnvBudget /\ f \in Objects \cup {Nothing}
  BY Distinct DEF CopyType
<1>2. /\ UNCHANGED <<appAt, node, copy, src, up, op, hist>> /\ budget' = budget - 1 /\ budget > 0
      /\ ent[appAt][n] = Nothing /\ Places(f) = {} /\ ent' = [ent EXCEPT ![appAt][n] = f]
  BY DEF Plant, Spend
<1>3. budget' \in 0 .. EnvBudget
  BY <1>1, <1>2, ConstantsAssumption
<1>4. \A e \in Apps, m \in Names : ent[e][m] # f
  <2> SUFFICES ASSUME NEW e \in Apps, NEW m \in Names, ent[e][m] = f PROVE FALSE
    OBVIOUS
  <2>1. <<e, m>> \in Places(f)
    BY DEF Places
  <2>2. QED
    BY <1>2, <2>1
<1>5. Gives(appAt, n, f)
  BY <1>2 DEF Gives
<1>6. /\ ent' \in [Apps -> [Names -> Objects \cup {Nothing}]] /\ ent'[appAt][n] = f
      /\ \A e \in Apps, m \in Names : e # appAt \/ m # n => ent'[e][m] = ent[e][m]
  BY <1>1, <1>5, EntSet
<1>7. QED
  BY <1>1, <1>2, <1>3, <1>4, <1>6

LEMMA WriteDoes ==
    ASSUME CopyType, NEW i \in Parts, Write(i)
    PROVE  /\ UNCHANGED <<files, up, budget, op>> /\ src' \in Readings
           /\ src'[1] >= src[1] /\ src'[2] >= src[2]
           /\ hist' \in [snaps : SUBSET Readings, cut : SUBSET Runs, warned : SUBSET Runs]
           /\ hist.snaps \subseteq hist'.snaps /\ src' \in hist'.snaps
           /\ hist'.cut = hist.cut /\ hist'.warned = hist.warned
<1>1. src \in [Parts -> Nat] /\ 1 \in Parts /\ 2 \in Parts
  BY DEF CopyType, Readings, Parts
<1>2. /\ UNCHANGED <<files, up, budget, op>> /\ src' = [src EXCEPT ![i] = src[i] + 1]
      /\ hist' = [hist EXCEPT !.snaps = hist.snaps \cup {src'}]
  BY DEF Write
<1>3. src' \in Readings /\ src'[1] >= src[1] /\ src'[2] >= src[2]
  BY <1>1, <1>2 DEF Readings
<1>4. /\ hist' \in [snaps : SUBSET Readings, cut : SUBSET Runs, warned : SUBSET Runs]
      /\ hist.snaps \subseteq hist'.snaps /\ src' \in hist'.snaps
      /\ hist'.cut = hist.cut /\ hist'.warned = hist.warned
  BY <1>2, <1>3 DEF CopyType
<1>5. QED
  BY <1>2, <1>3, <1>4

LEMMA AroundDoes ==
    ASSUME CopyType, SwapApp \/ StartContainer
    PROVE  /\ UNCHANGED <<ent, node, copy, src, op, hist>> /\ appAt' \in Apps /\ up' \in BOOLEAN
           /\ budget' \in 0 .. EnvBudget
<1>1. budget \in 0 .. EnvBudget /\ budget' = budget - 1 /\ budget > 0
  BY DEF CopyType, SwapApp, StartContainer, Spend
<1>2. budget' \in 0 .. EnvBudget
  BY <1>1, ConstantsAssumption
<1>3. QED
  BY <1>2 DEF CopyType, SwapApp, StartContainer, files

LEMMA CopyTypeInductive ==
    ASSUME CopyType, StagesMarked, [Next]_vars
    PROVE  CopyType'
<1> USE DEF Holding
<1>1. ASSUME NEW r \in Runs, Quiet(r) PROVE CopyType'
  BY <1>1, QuietDoes DEF CopyType, HistGrows, Alone, Same, files
<1>2. ASSUME NEW r \in Runs, MakeStage(r) PROVE CopyType'
  <2>1. ent' \in [Apps -> [Names -> Objects \cup {Nothing}]]
    <3>1. ASSUME NEW d \in Apps, ent' = [ent EXCEPT ![d][r] = Stage(r)]
          PROVE  ent' \in [Apps -> [Names -> Objects \cup {Nothing}]]
      <4>1. Gives(d, r, Stage(r)) /\ r \in Names /\ Stage(r) \in Objects \cup {Nothing}
        BY <3>1, Distinct DEF Gives
      <4>2. QED
        BY <4>1, EntSet
    <3>2. QED
      BY <1>2, <3>1, MakeStageDoes DEF CopyType
  <2>2. QED
    BY <1>2, <2>1, MakeStageDoes DEF CopyType, HistGrows, Alone, Same, others
<1>3. ASSUME NEW r \in Runs, MarkStage(r) PROVE CopyType'
  BY <1>3, MarkStageDoes DEF CopyType, HistGrows, Alone, Same, others, OnlyStagesGo
<1>4. ASSUME NEW r \in Runs, NEW i \in Parts, CopyPart(r, i) PROVE CopyType'
  BY <1>4, CopyPartDoes DEF CopyType, Alone, Same, others
<1>5. ASSUME NEW r \in Runs, GivesUp(r) PROVE CopyType'
  BY <1>5, GivesUpDoes DEF CopyType, HistGrows, Alone, others, StageEmptied, OnlyStagesGo
<1>6. ASSUME NEW r \in Runs, ExposeDone(r) PROVE CopyType'
  <2>1. UNCHANGED <<src, up, budget, copy, hist, appAt>>
    BY <1>6, ExposeDoes DEF others
  <2>2. op' \in [Runs -> CopyRecords] /\ op'[r].app \in Apps /\ op'[r].st \in Stages
        /\ \A q \in Runs \ {r} : op'[q] = op[q]
    BY <1>6, ExposeDoes DEF Alone
  <2>3. /\ ent' \in [Apps -> [Names -> Objects \cup {Nothing}]]
        /\ node' \in [Stages \cup Foreign -> Marks]
    BY <1>6, ExposeDoes
  <2>4. QED
    BY <2>1, <2>2, <2>3 DEF CopyType
<1>7. ASSUME NEW r \in Runs, UnmarkDone(r) PROVE CopyType'
  BY <1>7, UnmarkDoes DEF CopyType, Alone, Same, others
<1>8. ASSUME NEW r \in Runs, RemoveStage(r) PROVE CopyType'
  BY <1>8, RemoveStageDoes DEF CopyType, Alone, others, OnlyStagesGo
<1>9. ASSUME NEW n \in Names, NEW m \in Names, Rename(appAt, n, m) PROVE CopyType'
  BY <1>9, RenameDoes DEF CopyType
<1>10. ASSUME NEW f \in Foreign, NEW n \in Names, Plant(f, appAt, n) PROVE CopyType'
  BY <1>10, PlantDoes DEF CopyType
<1>11. ASSUME SwapApp \/ StartContainer PROVE CopyType'
  BY <1>11, AroundDoes DEF CopyType
<1>12. ASSUME NEW i \in Parts, Write(i) PROVE CopyType'
  BY <1>12, WriteDoes DEF CopyType, files
<1>13. CASE UNCHANGED vars
  BY <1>13 DEF vars, files, others, CopyType
<1>14. QED
  BY <1>1, <1>2, <1>3, <1>4, <1>5, <1>6, <1>7, <1>8, <1>9, <1>10, <1>11, <1>12, <1>13,
     StepsOfARun DEF Next

LEMMA OnePlaceInductive ==
    ASSUME CopyType, StagesMarked, Whereabouts, OnePlace, [Next]_vars
    PROVE  OnePlace'
<1> USE DEF OnePlace
<1>0. ASSUME NEW r \in Runs, OnlyStagesGo PROVE OnePlace'
  BY <1>0 DEF OnlyStagesGo
<1>1. ASSUME NEW r \in Runs, Quiet(r) PROVE OnePlace'
  BY <1>1, QuietDoes DEF files
<1>2. ASSUME NEW r \in Runs, MakeStage(r) PROVE OnePlace'
  <2>1. ASSUME NEW d \in Apps, ent[d][r] = Nothing, ent' = [ent EXCEPT ![d][r] = Stage(r)]
        PROVE  OnePlace'
    <3>1. Gives(d, r, Stage(r)) /\ r \in Names /\ Stage(r) \in Objects \cup {Nothing}
      BY <2>1, Distinct DEF Gives
    <3>2. \A e \in Apps, m \in Names : ent[e][m] # Stage(r)
      BY <1>2, MakeStageDoes DEF Whereabouts, WhereOf, StagePlaced
    <3>3. /\ ent'[d][r] = Stage(r)
          /\ \A e \in Apps, m \in Names : e # d \/ m # r => ent'[e][m] = ent[e][m]
      BY <3>1, EntSet
    <3>4. QED
      BY <3>2, <3>3
  <2>2. CASE UNCHANGED ent
    BY <2>2
  <2>3. QED
    BY <1>2, <2>1, <2>2, MakeStageDoes
<1>3. ASSUME NEW r \in Runs, MarkStage(r) PROVE OnePlace'
  BY <1>0, <1>3, MarkStageDoes
<1>4. ASSUME NEW r \in Runs, NEW i \in Parts, CopyPart(r, i) PROVE OnePlace'
  BY <1>4, CopyPartDoes
<1>5. ASSUME NEW r \in Runs, GivesUp(r) PROVE OnePlace'
  BY <1>0, <1>5, GivesUpDoes DEF StageEmptied
<1>6. ASSUME NEW r \in Runs, ExposeDone(r) PROVE OnePlace'
  <2>1. ~Placed(r)
    BY <1>6, ExposeDoes DEF Whereabouts, WhereOf
  <2>2. \A e \in Apps, m \in Names : ent[e][m] # Data(r)
    BY <2>1 DEF Placed
  <2>3. QED
    BY <1>6, <2>2, ExposeDoes
<1>7. ASSUME NEW r \in Runs, UnmarkDone(r) PROVE OnePlace'
  BY <1>7, UnmarkDoes
<1>8. ASSUME NEW r \in Runs, RemoveStage(r) PROVE OnePlace'
  BY <1>0, <1>8, RemoveStageDoes
<1>9. ASSUME NEW n \in Names, NEW m \in Names, Rename(appAt, n, m) PROVE OnePlace'
  BY <1>9, RenameDoes
<1>10. ASSUME NEW f \in Foreign, NEW n \in Names, Plant(f, appAt, n) PROVE OnePlace'
  BY <1>10, PlantDoes
<1>11. ASSUME SwapApp \/ StartContainer PROVE OnePlace'
  BY <1>11, AroundDoes
<1>12. ASSUME NEW i \in Parts, Write(i) PROVE OnePlace'
  BY <1>12, WriteDoes DEF files
<1>13. CASE UNCHANGED vars
  BY <1>13 DEF vars, files
<1>14. QED
  BY <1>1, <1>2, <1>3, <1>4, <1>5, <1>6, <1>7, <1>8, <1>9, <1>10, <1>11, <1>12, <1>13,
     StepsOfARun DEF Next

(* Nobody touches the stages of the other runs.                             *)
OthersStages(r) ==
    \A s \in Stages :
        node'[s] = node[s] \/ (node[s].token \in {None, r} /\ node'[s].token \in {None, r})
OwnStage(r) ==
    /\ op'[r].pc \in Unmarked => \A s \in Stages : node'[s].token # r
    /\ op'[r].pc \in Holding => node'[op'[r].st].token = r
    /\ op'[r].pc = "moved" => node'[op'[r].st].data = None

LEMMA OthersKeepTheirs ==
    ASSUME CopyType, StagesMarked, NEW r \in Runs, Alone(r), OthersStages(r), OwnStage(r)
    PROVE  TokenHeld'
<1> USE DEF OthersStages, OwnStage
<1> SUFFICES ASSUME NEW q \in Runs \ {r}
             PROVE  /\ op[q].pc \in Unmarked => \A s \in Stages : node'[s].token # q
                    /\ op[q].pc \in Holding => node'[op[q].st].token = q
                    /\ op[q].pc = "moved" => node'[op[q].st].data = None
  BY DEF TokenHeld, Alone
<1>1. q # None
  BY Distinct
<1>2. op[q].pc \in Holding => op[q].st \in Stages /\ node[op[q].st].token = q
  BY DEF CopyType, StagesMarked, TokenHeld
<1>3. op[q].pc \in Holding => node'[op[q].st] = node[op[q].st]
  BY <1>1, <1>2
<1>4. op[q].pc \in Unmarked => \A s \in Stages : node'[s].token # q
  BY <1>1 DEF StagesMarked, TokenHeld
<1>5. QED
  BY <1>2, <1>3, <1>4 DEF StagesMarked, TokenHeld, Holding

LEMMA StagesMarkedInductive ==
    ASSUME CopyType, StagesMarked, [Next]_vars
    PROVE  StagesMarked'
<1> USE DEF StagesMarked, TokensDiffer, ContentMarked, TokenHeld, Holding, Unmarked
<1>0. \A r \in Runs : r # None
  BY Distinct
<1>1. ASSUME NEW r \in Runs, Quiet(r) PROVE StagesMarked'
  BY <1>1, QuietDoes DEF files, Alone, Same
<1>2. ASSUME NEW r \in Runs, MakeStage(r) PROVE StagesMarked'
  BY <1>2, MakeStageDoes DEF Alone
<1>3. ASSUME NEW r \in Runs, MarkStage(r) PROVE StagesMarked'
  <2>1. TokensDiffer'
    BY <1>0, <1>3, MarkStageDoes DEF Alone, Same, Others
  <2>2. ContentMarked'
    BY <1>0, <1>3, MarkStageDoes DEF Alone, Same, Others
  <2>3. TokenHeld'
    <3>1. Alone(r) /\ OthersStages(r)
      BY <1>3, MarkStageDoes DEF OthersStages, Same, Others
    <3>2. OwnStage(r)
      BY <1>0, <1>3, MarkStageDoes DEF OwnStage, Same, Others
    <3>3. QED
      BY <3>1, <3>2, OthersKeepTheirs
  <2>4. QED
    BY <2>1, <2>2, <2>3
<1>4. ASSUME NEW r \in Runs, NEW i \in Parts, CopyPart(r, i) PROVE StagesMarked'
  <2>1. TokensDiffer'
    BY <1>0, <1>4, CopyPartDoes DEF Alone, Same, Others
  <2>2. ContentMarked'
    BY <1>0, <1>4, CopyPartDoes DEF Alone, Same, Others
  <2>3. TokenHeld'
    <3>1. Alone(r) /\ OthersStages(r)
      BY <1>4, CopyPartDoes DEF OthersStages, Same, Others
    <3>2. OwnStage(r)
      BY <1>0, <1>4, CopyPartDoes DEF OwnStage, Same, Others
    <3>3. QED
      BY <3>1, <3>2, OthersKeepTheirs
  <2>4. QED
    BY <2>1, <2>2, <2>3
<1>5. ASSUME NEW r \in Runs, GivesUp(r) PROVE StagesMarked'
  <2>1. TokensDiffer'
    BY <1>0, <1>5, GivesUpDoes DEF Alone, StageEmptied
  <2>2. ContentMarked'
    BY <1>0, <1>5, GivesUpDoes DEF Alone, StageEmptied
  <2>3. TokenHeld'
    <3>1. Alone(r) /\ OthersStages(r)
      BY <1>5, GivesUpDoes DEF OthersStages, StageEmptied
    <3>2. OwnStage(r)
      BY <1>0, <1>5, GivesUpDoes DEF OwnStage, StageEmptied
    <3>3. QED
      BY <3>1, <3>2, OthersKeepTheirs
  <2>4. QED
    BY <2>1, <2>2, <2>3
<1>6. ASSUME NEW r \in Runs, ExposeDone(r) PROVE StagesMarked'
  <2>1. TokensDiffer'
    BY <1>0, <1>6, ExposeDoes DEF Alone, Others
  <2>2. ContentMarked'
    BY <1>0, <1>6, ExposeDoes DEF Alone, Others
  <2>3. TokenHeld'
    <3>1. Alone(r) /\ OthersStages(r)
      BY <1>6, ExposeDoes DEF OthersStages, Others
    <3>2. OwnStage(r)
      BY <1>0, <1>6, ExposeDoes DEF OwnStage, Others
    <3>3. QED
      BY <3>1, <3>2, OthersKeepTheirs
  <2>4. QED
    BY <2>1, <2>2, <2>3
<1>7. ASSUME NEW r \in Runs, UnmarkDone(r) PROVE StagesMarked'
  <2>1. TokensDiffer'
    BY <1>0, <1>7, UnmarkDoes DEF Alone, Same, Others
  <2>2. ContentMarked'
    BY <1>0, <1>7, UnmarkDoes DEF Alone, Same, Others
  <2>3. TokenHeld'
    <3>1. Alone(r) /\ OthersStages(r)
      BY <1>7, UnmarkDoes DEF OthersStages, Same, Others
    <3>2. OwnStage(r)
      BY <1>0, <1>7, UnmarkDoes DEF OwnStage, Same, Others
    <3>3. QED
      BY <3>1, <3>2, OthersKeepTheirs
  <2>4. QED
    BY <2>1, <2>2, <2>3
<1>8. ASSUME NEW r \in Runs, RemoveStage(r) PROVE StagesMarked'
  BY <1>8, RemoveStageDoes DEF Alone
<1>9. ASSUME NEW n \in Names, NEW m \in Names, Rename(appAt, n, m) PROVE StagesMarked'
  BY <1>9, RenameDoes
<1>10. ASSUME NEW f \in Foreign, NEW n \in Names, Plant(f, appAt, n) PROVE StagesMarked'
  BY <1>10, PlantDoes
<1>11. ASSUME SwapApp \/ StartContainer PROVE StagesMarked'
  BY <1>11, AroundDoes
<1>12. ASSUME NEW i \in Parts, Write(i) PROVE StagesMarked'
  BY <1>12, WriteDoes DEF files
<1>13. CASE UNCHANGED vars
  BY <1>13 DEF vars, files
<1>14. QED
  BY <1>1, <1>2, <1>3, <1>4, <1>5, <1>6, <1>7, <1>8, <1>9, <1>10, <1>11, <1>12, <1>13,
     StepsOfARun DEF Next

(* Where nothing of a run's appears, what is known of it stays known.       *)
NothingAppears(q) ==
    /\ (Placed(q)' => Placed(q)) /\ (Staged(q)' => Staged(q))
    /\ (TokenOut(q)' => TokenOut(q)) /\ (StagePlaced(q)' => StagePlaced(q))

LEMMA WhereaboutsStay ==
    ASSUME NEW q \in Runs, WhereOf(q), op'[q].pc = op[q].pc, NothingAppears(q),
           hist.cut \subseteq hist'.cut, hist.warned \subseteq hist'.warned
    PROVE  WhereOf(q)'
BY DEF WhereOf, NothingAppears

(* What a change of the directories brings to light.                        *)
LEMMA NamesThatGo ==
    ASSUME CopyType, OnlyStagesGo, NEW q \in Runs
    PROVE  (Placed(q)' <=> Placed(q)) /\ (StagePlaced(q)' => StagePlaced(q))
BY Distinct DEF OnlyStagesGo, Placed, StagePlaced

LEMMA NamesThatStay ==
    ASSUME UNCHANGED ent, NEW q \in Runs
    PROVE  (Placed(q)' <=> Placed(q)) /\ (StagePlaced(q)' <=> StagePlaced(q))
BY DEF Placed, StagePlaced

LEMMA NodesThatStay ==
    ASSUME UNCHANGED node, NEW q \in Runs
    PROVE  (Staged(q)' <=> Staged(q)) /\ (TokenOut(q)' <=> TokenOut(q))
BY DEF Staged, TokenOut

LEMMA EmptiedStage ==
    ASSUME CopyType, StagesMarked, NEW r \in Runs, NEW st \in Stages, node[st].token = r,
           StageEmptied(r, st)
    PROVE  /\ \A q \in Runs : NothingAppears(q) /\ (Placed(q)' <=> Placed(q))
           /\ ~Staged(r)' /\ \A q \in Runs \ {r} : copy'[q] = copy[q]
           /\ copy'[r] = copy[r] \/ Staged(r)
<1>1. \A q \in Runs : (Placed(q)' <=> Placed(q)) /\ (StagePlaced(q)' => StagePlaced(q))
  BY NamesThatGo DEF StageEmptied
<1>2. \A q \in Runs : q # None
  BY Distinct
<1>3. \A s \in Stages : s # st => node'[s] = node[s]
  BY DEF StageEmptied
<1>4. \A q \in Runs : (Staged(q)' => Staged(q)) /\ (TokenOut(q)' => TokenOut(q))
  BY <1>2, <1>3 DEF Staged, TokenOut, StageEmptied
<1>5. \A s \in Stages : node[s].data = r => s = st
  BY <1>2 DEF StagesMarked, ContentMarked, TokensDiffer
<1>6. ~Staged(r)'
  BY <1>2, <1>3, <1>5 DEF Staged, StageEmptied
<1>7. node[st].data = None \/ node[st].data = r
  BY DEF StagesMarked, ContentMarked
<1>8. (\A q \in Runs \ {r} : copy'[q] = copy[q]) /\ (copy'[r] = copy[r] \/ Staged(r))
  BY <1>2, <1>7 DEF StageEmptied, Staged
<1>9. QED
  BY <1>1, <1>4, <1>6, <1>8 DEF NothingAppears

LEMMA WhereaboutsInductive ==
    ASSUME CopyType, StagesMarked, Whereabouts, [Next]_vars
    PROVE  Whereabouts'
<1>0. ASSUME NEW q \in Runs PROVE WhereOf(q) /\ q # None
  BY Distinct DEF Whereabouts
<1>1. ASSUME NEW r \in Runs, Quiet(r) PROVE Whereabouts'
  <2>1. \A q \in Runs : NothingAppears(q)
    BY <1>1, QuietDoes, NamesThatStay, NodesThatStay DEF NothingAppears, files
  <2>2. hist.cut \subseteq hist'.cut /\ hist.warned \subseteq hist'.warned /\ Alone(r)
    BY <1>1, QuietDoes DEF HistGrows
  <2>3. ASSUME NEW q \in Runs \ {r} PROVE WhereOf(q)'
    BY <1>0, <2>1, <2>2, <2>3, WhereaboutsStay DEF Alone
  <2>4. WhereOf(r)'
    BY <1>0, <1>1, <2>1, <2>2, QuietDoes DEF WhereOf, NothingAppears, Early, Unmarked
  <2>5. QED
    BY <2>3, <2>4 DEF Whereabouts
<1>2. ASSUME NEW r \in Runs, MakeStage(r) PROVE Whereabouts'
  <2>1. \A q \in Runs : (Placed(q)' => Placed(q)) /\ (q # r => (StagePlaced(q)' => StagePlaced(q)))
    <3>1. ASSUME NEW d \in Apps, ent' = [ent EXCEPT ![d][r] = Stage(r)]
          PROVE  \A q \in Runs :
                   (Placed(q)' => Placed(q)) /\ (q # r => (StagePlaced(q)' => StagePlaced(q)))
      <4>1. Gives(d, r, Stage(r)) /\ r \in Names /\ Stage(r) \in Objects \cup {Nothing}
        BY <3>1, Distinct DEF Gives
      <4>2. /\ ent'[d][r] = Stage(r)
            /\ \A e \in Apps, m \in Names : e # d \/ m # r => ent'[e][m] = ent[e][m]
        BY <4>1, EntSet
      <4>3. QED
        BY <4>2, Distinct DEF Placed, StagePlaced
    <3>2. CASE UNCHANGED ent
      BY <3>2, NamesThatStay
    <3>3. QED
      BY <1>2, <3>1, <3>2, MakeStageDoes
  <2>2. \A q \in Runs : (Staged(q)' <=> Staged(q)) /\ (TokenOut(q)' <=> TokenOut(q))
    BY <1>2, MakeStageDoes, NodesThatStay
  <2>3. hist.cut \subseteq hist'.cut /\ hist.warned \subseteq hist'.warned /\ Alone(r)
    BY <1>2, MakeStageDoes DEF HistGrows
  <2>4. ASSUME NEW q \in Runs \ {r} PROVE WhereOf(q)'
    BY <1>0, <2>1, <2>2, <2>3, <2>4, WhereaboutsStay DEF Alone, NothingAppears
  <2>5. WhereOf(r)'
    BY <1>0, <1>2, <2>1, <2>2, <2>3, MakeStageDoes DEF WhereOf, Early, Unmarked
  <2>6. QED
    BY <2>4, <2>5 DEF Whereabouts
<1>3. ASSUME NEW r \in Runs, MarkStage(r) PROVE Whereabouts'
  <2>1. \A q \in Runs : (Placed(q)' => Placed(q)) /\ (StagePlaced(q)' => StagePlaced(q))
    BY <1>3, MarkStageDoes, NamesThatGo, NamesThatStay
  <2>2. \A q \in Runs : (Staged(q)' => Staged(q)) /\ (q # r => (TokenOut(q)' => TokenOut(q)))
    BY <1>0, <1>3, MarkStageDoes DEF Staged, TokenOut, Others
  <2>3. hist.cut \subseteq hist'.cut /\ hist.warned \subseteq hist'.warned /\ Alone(r)
    BY <1>3, MarkStageDoes DEF HistGrows
  <2>4. ASSUME NEW q \in Runs \ {r} PROVE WhereOf(q)'
    BY <1>0, <2>1, <2>2, <2>3, <2>4, WhereaboutsStay DEF Alone, NothingAppears
  <2>5. WhereOf(r)'
    BY <1>0, <1>3, <2>1, <2>2, <2>3, MarkStageDoes DEF WhereOf, Early, Unmarked
  <2>6. QED
    BY <2>4, <2>5 DEF Whereabouts
<1>4. ASSUME NEW r \in Runs, NEW i \in Parts, CopyPart(r, i) PROVE Whereabouts'
  <2>1. \A q \in Runs : (Placed(q)' <=> Placed(q)) /\ (StagePlaced(q)' <=> StagePlaced(q))
    BY <1>4, CopyPartDoes, NamesThatStay
  <2>2. \A q \in Runs : (q # r => (Staged(q)' => Staged(q))) /\ (TokenOut(q)' => TokenOut(q))
    BY <1>4, CopyPartDoes DEF Staged, TokenOut, Others
  <2>3. UNCHANGED hist /\ Alone(r)
    BY <1>4, CopyPartDoes
  <2>4. ASSUME NEW q \in Runs \ {r} PROVE WhereOf(q)'
    BY <1>0, <2>1, <2>2, <2>3, <2>4, WhereaboutsStay DEF Alone, NothingAppears
  <2>5. WhereOf(r)'
    BY <1>0, <1>4, <2>1, <2>2, <2>3, CopyPartDoes DEF WhereOf, Early, Unmarked
  <2>6. QED
    BY <2>4, <2>5 DEF Whereabouts
<1>5. ASSUME NEW r \in Runs, GivesUp(r) PROVE Whereabouts'
  <2>1. PICK st \in Stages : node[st].token = r /\ StageEmptied(r, st)
    BY <1>5, GivesUpDoes
  <2>2. (\A q \in Runs : NothingAppears(q)) /\ ~Staged(r)' /\ TokenOut(r)
    BY <2>1, EmptiedStage DEF TokenOut
  <2>3. hist.cut \subseteq hist'.cut /\ hist.warned \subseteq hist'.warned /\ Alone(r)
    BY <1>5, GivesUpDoes DEF HistGrows
  <2>4. ASSUME NEW q \in Runs \ {r} PROVE WhereOf(q)'
    BY <1>0, <2>2, <2>3, <2>4, WhereaboutsStay DEF Alone
  <2>5. WhereOf(r)'
    BY <1>0, <1>5, <2>2, <2>3, GivesUpDoes DEF WhereOf, NothingAppears, Early, Unmarked
  <2>6. QED
    BY <2>4, <2>5 DEF Whereabouts
<1>6. ASSUME NEW r \in Runs, ExposeDone(r) PROVE Whereabouts'
  <2>1. \A q \in Runs \ {r} : (Placed(q)' => Placed(q)) /\ (StagePlaced(q)' => StagePlaced(q))
    BY <1>6, ExposeDoes, Distinct DEF Placed, StagePlaced
  <2>2. \A q \in Runs : (Staged(q)' => Staged(q)) /\ (TokenOut(q)' => TokenOut(q))
    BY <1>0, <1>6, ExposeDoes DEF Staged, TokenOut, Others
  <2>3. ~Staged(r)'
    BY <1>0, <1>6, ExposeDoes DEF Staged, Others, StagesMarked, ContentMarked, TokensDiffer
  <2>4. UNCHANGED hist /\ Alone(r)
    BY <1>6, ExposeDoes
  <2>5. ASSUME NEW q \in Runs \ {r} PROVE WhereOf(q)'
    BY <1>0, <2>1, <2>2, <2>4, <2>5, WhereaboutsStay DEF Alone, NothingAppears
  <2>6. WhereOf(r)'
    BY <1>6, <2>3, ExposeDoes DEF WhereOf, Early, Unmarked
  <2>7. QED
    BY <2>5, <2>6 DEF Whereabouts
<1>7. ASSUME NEW r \in Runs, UnmarkDone(r) PROVE Whereabouts'
  <2>1. \A q \in Runs : (Placed(q)' <=> Placed(q)) /\ (StagePlaced(q)' <=> StagePlaced(q))
    BY <1>7, UnmarkDoes, NamesThatStay
  <2>2. \A q \in Runs : (Staged(q)' => Staged(q)) /\ (TokenOut(q)' => TokenOut(q))
    BY <1>0, <1>7, UnmarkDoes DEF Staged, TokenOut, Others
  <2>3. ~TokenOut(r)'
    BY <1>0, <1>7, UnmarkDoes
    DEF TokenOut, Others, StagesMarked, TokensDiffer, TokenHeld, Holding
  <2>4. UNCHANGED hist /\ Alone(r)
    BY <1>7, UnmarkDoes
  <2>5. ASSUME NEW q \in Runs \ {r} PROVE WhereOf(q)'
    BY <1>0, <2>1, <2>2, <2>4, <2>5, WhereaboutsStay DEF Alone, NothingAppears
  <2>6. WhereOf(r)'
    BY <1>0, <1>7, <2>1, <2>2, <2>3, <2>4, UnmarkDoes DEF WhereOf, Early, Unmarked
  <2>7. QED
    BY <2>5, <2>6 DEF Whereabouts
<1>8. ASSUME NEW r \in Runs, RemoveStage(r) PROVE Whereabouts'
  <2>1. \A q \in Runs : NothingAppears(q)
    BY <1>8, RemoveStageDoes, NamesThatGo, NodesThatStay DEF NothingAppears
  <2>2. UNCHANGED hist /\ Alone(r)
    BY <1>8, RemoveStageDoes
  <2>3. ASSUME NEW q \in Runs \ {r} PROVE WhereOf(q)'
    BY <1>0, <2>1, <2>2, <2>3, WhereaboutsStay DEF Alone
  <2>4. WhereOf(r)'
    BY <1>0, <1>8, <2>1, <2>2, RemoveStageDoes DEF WhereOf, NothingAppears, Early, Unmarked
  <2>5. QED
    BY <2>3, <2>4 DEF Whereabouts
<1>9. ASSUME NEW n \in Names, NEW m \in Names, Rename(appAt, n, m) PROVE Whereabouts'
  <2>1. \A q \in Runs : (Placed(q)' => Placed(q)) /\ (StagePlaced(q)' => StagePlaced(q))
    <3>1. PICK d \in Apps :
            /\ ent'[d][n] = Nothing /\ ent'[d][m] = ent[d][n]
            /\ \A e \in Apps, k \in Names : e # d \/ (k # n /\ k # m) => ent'[e][k] = ent[e][k]
      BY <1>9, RenameDoes
    <3>2. \A e \in Apps, k \in Names :
            ent'[e][k] = Nothing \/ \E c \in Apps, l \in Names : ent'[e][k] = ent[c][l]
      BY <3>1
    <3>3. QED
      BY <3>2, Distinct DEF Placed, StagePlaced
  <2>3. UNCHANGED <<node, op, hist>>
    BY <1>9, RenameDoes
  <2>2. \A q \in Runs : NothingAppears(q)
    BY <2>1, <2>3, NodesThatStay DEF NothingAppears
  <2>4. QED
    BY <1>0, <2>2, <2>3, WhereaboutsStay DEF Whereabouts
<1>10. ASSUME NEW f \in Foreign, NEW n \in Names, Plant(f, appAt, n) PROVE Whereabouts'
  <2>1. \A q \in Runs : (Placed(q)' => Placed(q)) /\ (StagePlaced(q)' => StagePlaced(q))
    BY <1>10, PlantDoes, Distinct DEF Placed, StagePlaced
  <2>2. \A q \in Runs : NothingAppears(q)
    BY <1>10, <2>1, PlantDoes, NodesThatStay DEF NothingAppears
  <2>3. UNCHANGED <<op, hist>>
    BY <1>10, PlantDoes
  <2>4. QED
    BY <1>0, <2>2, <2>3, WhereaboutsStay DEF Whereabouts
<1>11. ASSUME UNCHANGED <<ent, node, op>>, hist.cut \subseteq hist'.cut,
              hist.warned \subseteq hist'.warned
       PROVE  Whereabouts'
  <2>1. \A q \in Runs : NothingAppears(q)
    BY <1>11, NamesThatStay, NodesThatStay DEF NothingAppears
  <2>2. QED
    BY <1>0, <1>11, <2>1, WhereaboutsStay DEF Whereabouts
<1>12. ASSUME SwapApp \/ StartContainer PROVE Whereabouts'
  BY <1>11, <1>12, AroundDoes
<1>13. ASSUME NEW i \in Parts, Write(i) PROVE Whereabouts'
  BY <1>11, <1>13, WriteDoes DEF files
<1>14. CASE UNCHANGED vars
  BY <1>11, <1>14 DEF vars, files
<1>15. QED
  BY <1>1, <1>2, <1>3, <1>4, <1>5, <1>6, <1>7, <1>8, <1>9, <1>10, <1>12, <1>13, <1>14,
     StepsOfARun DEF Next

(* What is known of a copy stays known while only the volume moves on.      *)
VolumeMovesOn ==
    /\ src' \in Readings /\ src'[1] >= src[1] /\ src'[2] >= src[2]
    /\ hist.snaps \subseteq hist'.snaps /\ src' \in hist'.snaps

LEMMA SrcStays ==
    ASSUME CopyType, CopiesAreMoments, UNCHANGED src, hist'.snaps = hist.snaps
    PROVE  VolumeMovesOn
BY DEF VolumeMovesOn, CopyType, CopiesAreMoments, Readings, Parts

LEMMA MomentStays ==
    ASSUME CopyType, NEW q \in Runs, MomentOf(q), VolumeMovesOn, op'[q] = op[q],
           copy'[q] = copy[q], Placed(q)' => Placed(q)
    PROVE  MomentOf(q)'
<1>1. /\ op[q].base[1] \in Nat /\ src[1] \in Nat /\ src'[1] \in Nat
  BY DEF CopyType, CopyRecords, Readings, Parts, VolumeMovesOn
<1>2. QED
  BY <1>1 DEF MomentOf, VolumeMovesOn, Early, Unmarked

LEMMA CopiesAreMomentsInductive ==
    ASSUME CopyType, StagesMarked, Whereabouts, CopiesAreMoments, [Next]_vars
    PROVE  CopiesAreMoments'
<1>0. /\ src[1] > 0 /\ src[2] > 0 /\ src[1] \in Nat /\ src[2] \in Nat /\ src \in hist.snaps
      /\ \A q \in Runs : /\ MomentOf(q) /\ WhereOf(q)
                        /\ op[q].base \in Readings /\ copy[q] \in Readings
                        /\ op[q].base[1] \in Nat /\ op[q].base[2] \in Nat
                        /\ copy[q][1] \in Nat /\ copy[q][2] \in Nat
  BY DEF CopiesAreMoments, Whereabouts, CopyType, CopyRecords, Readings, Parts
<1>1. ASSUME VolumeMovesOn, \A q \in Runs : MomentOf(q)' PROVE CopiesAreMoments'
  BY <1>0, <1>1 DEF CopiesAreMoments, VolumeMovesOn, Readings, Parts
<1>2. ASSUME NEW r \in Runs, Quiet(r) PROVE CopiesAreMoments'
  <2>1. VolumeMovesOn /\ UNCHANGED <<src, copy, ent>> /\ hist'.snaps = hist.snaps /\ Alone(r)
    BY <1>2, QuietDoes, SrcStays DEF files, HistGrows
  <2>2. \A q \in Runs : Placed(q)' <=> Placed(q)
    BY <2>1, NamesThatStay
  <2>3. ASSUME NEW q \in Runs \ {r} PROVE MomentOf(q)'
    BY <1>0, <2>1, <2>2, <2>3, MomentStays DEF Alone
  <2>4. MomentOf(r)'
    <3>1. CASE op[r].pc = "manifest" /\ op'[r].pc = "cp"
      <4>1. op'[r].base[1] = op[r].base[1] /\ op'[r].base[2] = src[2] /\ op'[r].base \in Readings
        BY <1>2, <2>1, <3>1, QuietDoes DEF Alone, CopyRecords
      <4>2. CASE op[r].base[1] = src[1]
        <5>1. op'[r].base = src
          <6>1. src \in [Parts -> Nat] /\ op'[r].base \in [Parts -> Nat]
            BY <4>1 DEF Readings, CopyType
          <6>2. \A i \in Parts : op'[r].base[i] = src[i]
            BY <4>1, <4>2 DEF Parts
          <6>3. QED
            BY <6>1, <6>2
        <5>2. QED
          BY <1>0, <2>1, <2>2, <3>1, <5>1 DEF MomentOf, WhereOf, Early, Unmarked
      <4>3. CASE op[r].base[1] # src[1]
        <5>1. copy[r][1] = 0 /\ op[r].base[1] < src[1]
          BY <1>0, <3>1, <4>3 DEF MomentOf, Early, Unmarked
        <5>2. QED
          BY <1>0, <2>1, <2>2, <3>1, <4>1, <5>1 DEF MomentOf, WhereOf, Early, Unmarked
      <4>4. QED
        BY <4>2, <4>3
    <3>2. CASE op[r].pc = "verify" /\ op'[r].pc = "recheck"
      <4>1. copy[r] = op[r].base
        BY <1>2, <3>2, QuietDoes DEF Matches
      <4>2. copy[r] \in hist.snaps
        BY <1>0, <3>2, <4>1 DEF MomentOf
      <4>3. QED
        BY <1>0, <2>1, <2>2, <3>2, <4>2 DEF MomentOf, Early, Unmarked
    <3>3. CASE op[r].pc = "manifest" /\ op'[r].pc = "manifest"
      BY <1>0, <1>2, <2>1, <2>2, <3>3, QuietDoes DEF MomentOf, Early, Unmarked, WhereOf
    <3>4. CASE op'[r].pc \in {"mkdir", "mark"}
      BY <1>0, <1>2, <2>1, <2>2, <3>4, QuietDoes DEF MomentOf, Early, Unmarked, WhereOf
    <3>5. CASE op'[r].pc \in {"copied", "failed", "unexposed", "kept"}
      BY <1>0, <1>2, <2>1, <2>2, <3>5, QuietDoes DEF MomentOf, Early, Unmarked
    <3>6. QED
      BY <1>2, <3>1, <3>2, <3>3, <3>4, <3>5, QuietDoes
  <2>5. QED
    BY <1>1, <2>1, <2>3, <2>4
<1>3. ASSUME NEW r \in Runs, MakeStage(r) \/ MarkStage(r) \/ UnmarkDone(r) \/ RemoveStage(r)
      PROVE  CopiesAreMoments'
  <2>1. UNCHANGED <<src, copy>> /\ hist'.snaps = hist.snaps /\ Alone(r)
    BY <1>3, MakeStageDoes, MarkStageDoes, UnmarkDoes, RemoveStageDoes DEF others, HistGrows
  <2>2. \A q \in Runs : Placed(q)' => Placed(q)
    <3>1. ASSUME NEW d \in Apps, ent' = [ent EXCEPT ![d][r] = Stage(r)]
          PROVE  \A q \in Runs : Placed(q)' => Placed(q)
      <4>1. Gives(d, r, Stage(r)) /\ r \in Names /\ Stage(r) \in Objects \cup {Nothing}
        BY <3>1, Distinct DEF Gives
      <4>2. /\ ent'[d][r] = Stage(r)
            /\ \A e \in Apps, m \in Names : e # d \/ m # r => ent'[e][m] = ent[e][m]
        BY <4>1, EntSet
      <4>3. QED
        BY <4>2, Distinct DEF Placed
    <3>2. UNCHANGED ent \/ OnlyStagesGo \/ \E d \in Apps : ent' = [ent EXCEPT ![d][r] = Stage(r)]
      BY <1>3, MakeStageDoes, MarkStageDoes, UnmarkDoes, RemoveStageDoes
    <3>3. QED
      BY <3>1, <3>2, NamesThatGo, NamesThatStay
  <2>3. VolumeMovesOn
    BY <2>1, SrcStays
  <2>4. ASSUME NEW q \in Runs \ {r} PROVE MomentOf(q)'
    BY <1>0, <2>1, <2>2, <2>3, <2>4, MomentStays DEF Alone
  <2>5. MomentOf(r)'
    <3>1. CASE op[r].pc \in {"mkdir", "mark"}
      BY <1>0, <1>3, <2>1, <2>2, <3>1, MakeStageDoes, MarkStageDoes, UnmarkDoes, RemoveStageDoes
      DEF MomentOf, Early, Unmarked, Same, WhereOf
    <3>2. CASE op[r].pc \in {"moved", "unmarked"}
      BY <1>0, <1>3, <2>1, <2>2, <3>2, MakeStageDoes, MarkStageDoes, UnmarkDoes, RemoveStageDoes
      DEF MomentOf, Early, Unmarked
    <3>3. QED
      BY <1>3, <3>1, <3>2, MakeStageDoes, MarkStageDoes, UnmarkDoes, RemoveStageDoes
  <2>6. QED
    BY <1>1, <2>3, <2>4, <2>5
<1>4. ASSUME NEW r \in Runs, NEW i \in Parts, CopyPart(r, i) PROVE CopiesAreMoments'
  <2>1. UNCHANGED <<src, hist>> /\ Alone(r) /\ \A q \in Runs \ {r} : copy'[q] = copy[q]
    BY <1>4, CopyPartDoes DEF others
  <2>2. \A q \in Runs : Placed(q)' => Placed(q)
    BY <1>4, CopyPartDoes, NamesThatStay
  <2>3. VolumeMovesOn
    BY <2>1, SrcStays
  <2>4. ASSUME NEW q \in Runs \ {r} PROVE MomentOf(q)'
    BY <1>0, <2>1, <2>2, <2>3, <2>4, MomentStays DEF Alone
  <2>5. MomentOf(r)'
    <3>1. ~Placed(r) /\ ~Placed(r)'
      BY <1>0, <1>4, <2>2, CopyPartDoes DEF WhereOf
    <3>2. \/ op[r].base \in hist.snaps \/ copy'[r][1] > op[r].base[1]
      BY <1>0, <1>4, CopyPartDoes DEF MomentOf
    <3>3. QED
      BY <1>4, <2>1, <3>1, <3>2, CopyPartDoes DEF MomentOf, Early, Unmarked, Same
  <2>6. QED
    BY <1>1, <2>3, <2>4, <2>5
<1>5. ASSUME NEW r \in Runs, GivesUp(r) PROVE CopiesAreMoments'
  <2>1. UNCHANGED src /\ hist'.snaps = hist.snaps /\ Alone(r)
    BY <1>5, GivesUpDoes DEF others, HistGrows
  <2>2. PICK st \in Stages : node[st].token = r /\ StageEmptied(r, st)
    BY <1>5, GivesUpDoes
  <2>3. /\ \A q \in Runs : Placed(q)' <=> Placed(q)
        /\ \A q \in Runs \ {r} : copy'[q] = copy[q]
        /\ copy'[r] = copy[r] \/ Staged(r)
    BY <2>2, EmptiedStage
  <2>4. VolumeMovesOn
    BY <2>1, SrcStays
  <2>5. ASSUME NEW q \in Runs \ {r} PROVE MomentOf(q)'
    BY <1>0, <2>1, <2>3, <2>4, <2>5, MomentStays DEF Alone
  <2>6. MomentOf(r)'
    BY <1>0, <1>5, <2>1, <2>3, GivesUpDoes DEF MomentOf, WhereOf, Early, Unmarked
  <2>7. QED
    BY <1>1, <2>4, <2>5, <2>6
<1>6. ASSUME NEW r \in Runs, ExposeDone(r) PROVE CopiesAreMoments'
  <2>1. UNCHANGED <<src, copy, hist>> /\ Alone(r)
    BY <1>6, ExposeDoes DEF others
  <2>2. \A q \in Runs \ {r} : Placed(q)' => Placed(q)
    BY <1>6, ExposeDoes, Distinct DEF Placed
  <2>3. VolumeMovesOn
    BY <2>1, SrcStays
  <2>4. ASSUME NEW q \in Runs \ {r} PROVE MomentOf(q)'
    BY <1>0, <2>1, <2>2, <2>3, <2>4, MomentStays DEF Alone
  <2>5. MomentOf(r)'
    BY <1>0, <1>6, <2>1, ExposeDoes DEF MomentOf, Early, Unmarked
  <2>6. QED
    BY <1>1, <2>3, <2>4, <2>5
<1>7. ASSUME VolumeMovesOn, UNCHANGED <<op, copy>>, \A q \in Runs : Placed(q)' => Placed(q)
      PROVE  CopiesAreMoments'
  BY <1>0, <1>1, <1>7, MomentStays
<1>8. ASSUME NEW n \in Names, NEW m \in Names, Rename(appAt, n, m) PROVE CopiesAreMoments'
  <2>1. \A q \in Runs : Placed(q)' => Placed(q)
    <3>1. PICK d \in Apps :
            /\ ent'[d][n] = Nothing /\ ent'[d][m] = ent[d][n]
            /\ \A e \in Apps, k \in Names : e # d \/ (k # n /\ k # m) => ent'[e][k] = ent[e][k]
      BY <1>8, RenameDoes
    <3>2. \A e \in Apps, k \in Names :
            ent'[e][k] = Nothing \/ \E c \in Apps, l \in Names : ent'[e][k] = ent[c][l]
      BY <3>1
    <3>3. QED
      BY <3>2, Distinct DEF Placed
  <2>2. UNCHANGED <<op, copy, src, hist>>
    BY <1>8, RenameDoes
  <2>3. QED
    BY <1>7, <2>1, <2>2, SrcStays
<1>9. ASSUME NEW f \in Foreign, NEW n \in Names, Plant(f, appAt, n) PROVE CopiesAreMoments'
  <2>1. \A q \in Runs : Placed(q)' => Placed(q)
    BY <1>9, PlantDoes, Distinct DEF Placed
  <2>2. UNCHANGED <<op, copy, src, hist>>
    BY <1>9, PlantDoes
  <2>3. QED
    BY <1>7, <2>1, <2>2, SrcStays
<1>10. ASSUME SwapApp \/ StartContainer PROVE CopiesAreMoments'
  BY <1>7, <1>10, AroundDoes, SrcStays, NamesThatStay
<1>11. ASSUME NEW i \in Parts, Write(i) PROVE CopiesAreMoments'
  BY <1>7, <1>11, WriteDoes, NamesThatStay DEF VolumeMovesOn, files
<1>12. CASE UNCHANGED vars
  BY <1>7, <1>12, SrcStays, NamesThatStay DEF vars, files, others
<1>13. QED
  BY <1>2, <1>3, <1>4, <1>5, <1>6, <1>8, <1>9, <1>10, <1>11, <1>12, StepsOfARun DEF Next

LEMMA CopyInvHolds == MCSpec => []CopyInv
<1>1. MCInit => CopyInv
  <2> SUFFICES ASSUME Init PROVE CopyInv
    BY DEF MCInit
  <2> USE Distinct, ConstantsAssumption
  <2>1. /\ EmptyDir \in Marks /\ EmptyDir.token = None /\ EmptyDir.data = None
        /\ Theirs \in Marks /\ Unread \in Readings /\ Unread[1] = 0 /\ Unread[2] = 0
    BY DEF EmptyDir, Theirs, Marks, Unread, Readings, Parts
  <2>2. Idle \in CopyRecords /\ Idle.pc = "idle" /\ Idle.base = Unread
    BY <2>1 DEF Idle, CopyRecords, CopyPcs, Early, Unmarked
  <2>3. /\ appAt \in Apps /\ ent \in [Apps -> [Names -> Objects \cup {Nothing}]]
        /\ \A d \in Apps, n \in Names : ent[d][n] = Nothing
    BY DEF Init, Apps
  <2>4. /\ node \in [Stages \cup Foreign -> Marks]
        /\ \A s \in Stages : node[s].token = None /\ node[s].data = None
    BY <2>1 DEF Init
  <2>5. /\ op \in [Runs -> CopyRecords] /\ copy \in [Runs -> Readings]
        /\ \A r \in Runs : op[r] = Idle /\ copy[r] = Unread
    BY <2>1, <2>2 DEF Init
  <2>6. src \in Readings /\ src[1] = 1 /\ src[2] = 1 /\ up \in BOOLEAN /\ budget \in 0 .. EnvBudget
    <3>1. /\ src = [i \in Parts |-> 1]
          /\ up \in BOOLEAN
          /\ budget = EnvBudget
      BY DEF Init
    <3>2. src \in Readings /\ src[1] = 1 /\ src[2] = 1
      <4>1. 1 \in Parts /\ 2 \in Parts
        BY DEF Parts
      <4>2. QED
        BY <3>1, <4>1 DEF Readings
    <3>3. EnvBudget \in 0 .. EnvBudget
      BY ConstantsAssumption
    <3>4. QED
      BY <3>1, <3>2, <3>3
  <2>7. /\ hist \in [snaps : SUBSET Readings, cut : SUBSET Runs, warned : SUBSET Runs]
        /\ src \in hist.snaps
    BY <2>6 DEF Init
  <2>8. CopyType
    BY <2>2, <2>3, <2>4, <2>5, <2>6, <2>7 DEF CopyType, Holding
  <2>9. OnePlace /\ StagesMarked
    BY <2>2, <2>3, <2>4, <2>5
    DEF OnePlace, StagesMarked, TokensDiffer, ContentMarked, TokenHeld, Holding
  <2>10. \A r \in Runs : ~Placed(r) /\ ~StagePlaced(r) /\ ~Staged(r)
    BY <2>3, <2>4 DEF Placed, StagePlaced, Staged
  <2>11. Whereabouts
    BY <2>2, <2>5, <2>10 DEF Whereabouts, WhereOf
  <2>12. CopiesAreMoments
    BY <2>1, <2>2, <2>5, <2>6, <2>7, <2>10 DEF CopiesAreMoments, MomentOf
  <2>13. QED
    BY <2>8, <2>9, <2>11, <2>12 DEF CopyInv
<1>2. CopyInv /\ [MCNext]_mcvars => CopyInv'
  <2> SUFFICES ASSUME CopyInv, [MCNext]_mcvars PROVE CopyInv'
    OBVIOUS
  <2>1. [Next]_vars
    BY DEF MCNext, mcvars
  <2>2. QED
    BY <2>1, CopyTypeInductive, OnePlaceInductive, StagesMarkedInductive, WhereaboutsInductive,
       CopiesAreMomentsInductive DEF CopyInv
<1>3. QED
  BY <1>1, <1>2, PTL DEF MCSpec

(* A copy that is where the template mounts it is what the whole volume was *)
(* at one moment, and one reported gone is nowhere: for every set of runs   *)
(* and of other people's directories, whatever these rename, plant, start   *)
(* or write, and whenever a run is cut short.                               *)
THEOREM CopiesAreWholeOrGone == MCSpec => []WholeOrGone
<1>1. CopyInv => WholeOrGone
  <2> SUFFICES ASSUME CopyInv PROVE WholeOrGone
    OBVIOUS
  <2> USE DEF CopyInv
  <2>1. ASSUME NEW o \in Objects PROVE Cardinality(Places(o)) <= 1
    <3>1. \A p, q \in Places(o) : p = q
      BY <2>1, Distinct DEF OnePlace, Places
    <3>2. CASE Places(o) = {}
      BY <3>2, FS_EmptySet
    <3>3. CASE Places(o) # {}
      <4>1. PICK p : p \in Places(o)
        BY <3>3
      <4>2. Places(o) = {p}
        BY <3>1, <4>1
      <4>3. Cardinality({p}) = 1
        BY FS_Singleton
      <4>4. QED
        BY <4>2, <4>3
    <3>4. QED
      BY <3>2, <3>3
  <2>2. TypeOK
    <3>1. /\ appAt \in Apps /\ ent \in [Apps -> [Names -> Objects \cup {Nothing}]]
          /\ budget \in 0 .. EnvBudget /\ up \in BOOLEAN
      BY DEF CopyType
    <3>2. hist.cut \cup hist.warned \subseteq Runs
      BY DEF CopyType
    <3>3. QED
      BY <2>1, <3>1, <3>2 DEF TypeOK
  <2>3. ASSUME NEW r \in Runs PROVE (Places(Data(r)) # {}) <=> Placed(r)
    <3>1. ASSUME NEW d \in Apps, NEW n \in Names, ent[d][n] = Data(r) PROVE <<d, n>> \in Places(Data(r))
      BY <3>1 DEF Places
    <3>2. ASSUME NEW dn \in Places(Data(r)) PROVE Placed(r)
      <4>1. /\ dn \in Apps \X Names /\ ent[dn[1]][dn[2]] = Data(r)
        BY DEF Places
      <4>2. dn[1] \in Apps /\ dn[2] \in Names
        BY <4>1
      <4>3. QED
        BY <4>1, <4>2 DEF Placed
    <3>3. QED
      BY <3>1, <3>2 DEF Placed
  <2>4. ExposedIsSnapshot
    BY <2>3 DEF ExposedIsSnapshot, CopiesAreMoments, MomentOf
  <2>5. ReportedGone
    <3> SUFFICES ASSUME NEW r \in Runs, r \notin hist.cut \cup hist.warned,
                        op[r].pc \in {"failed", "removed"}
                 PROVE  Gone(r)
      BY DEF ReportedGone
    <3>1. ~Placed(r) /\ ~Staged(r)
      BY DEF Whereabouts, WhereOf
    <3>2. QED
      BY <2>3, <3>1 DEF Gone, Staged
  <2>6. QED
    BY <2>2, <2>4, <2>5 DEF WholeOrGone
<1>2. QED
  BY <1>1, CopyInvHolds, PTL

(* What is not a run's: the directories of others, and the other copies.    *)
NotOf(r) == Foreign \cup {Data(q) : q \in Runs \ {r}}
SparesNames(r) == \A o \in NotOf(r) : \A d \in Apps, n \in Names : ent'[d][n] = o <=> ent[d][n] = o
SparesNodes(r) ==
    /\ \A o \in Foreign : node'[o] = node[o]
    /\ \A s \in Stages : \A q \in Runs \ {r} : node'[s].data = q <=> node[s].data = q

LEMMA NotOfARun ==
    ASSUME NEW r \in Runs
    PROVE  /\ \A o \in NotOf(r) : o \notin Stages /\ o # Nothing /\ o # Data(r) /\ o # Stage(r)
           /\ \A o \in Foreign : o \notin Stages
           /\ \A q \in Runs : q # None
BY Distinct DEF NotOf

LEMMA NamesAreSpared ==
    ASSUME CopyInv, NEW r \in Runs, RunStep(r) \/ Kill(r)
    PROVE  SparesNames(r)
<1> USE DEF CopyInv, SparesNames
<1>1. ASSUME UNCHANGED ent \/ OnlyStagesGo PROVE SparesNames(r)
  BY <1>1, NotOfARun DEF OnlyStagesGo
<1>2. ASSUME NEW a \in Apps, NEW n \in Names, NEW x, ent[a][n] = Nothing, ent'[a][n] = x,
             \A e \in Apps, m \in Names : e # a \/ m # n => ent'[e][m] = ent[e][m],
             x = Stage(r) \/ x = Data(r)
      PROVE  SparesNames(r)
  BY <1>2, NotOfARun
<1>3. CASE Quiet(r)
  BY <1>1, <1>3, QuietDoes DEF files
<1>4. CASE MakeStage(r)
  <2>1. CASE UNCHANGED ent
    BY <1>1, <2>1
  <2>2. ASSUME NEW a \in Apps, ent[a][r] = Nothing, ent' = [ent EXCEPT ![a][r] = Stage(r)]
        PROVE  SparesNames(r)
    <3>1. Gives(a, r, Stage(r)) /\ r \in Names /\ Stage(r) \in Objects \cup {Nothing}
      BY <2>2, Distinct DEF Gives
    <3>2. /\ ent'[a][r] = Stage(r)
          /\ \A e \in Apps, m \in Names : e # a \/ m # r => ent'[e][m] = ent[e][m]
      BY <3>1, EntSet
    <3>3. QED
      BY <2>2, <3>2, NotOfARun
  <2>3. QED
    BY <1>4, <2>1, <2>2, MakeStageDoes
<1>5. CASE MarkStage(r)
  BY <1>1, <1>5, MarkStageDoes
<1>6. CASE \E i \in Parts : CopyPart(r, i)
  BY <1>1, <1>6, CopyPartDoes
<1>7. CASE GivesUp(r)
  BY <1>1, <1>7, GivesUpDoes DEF StageEmptied
<1>8. CASE ExposeDone(r)
  BY <1>8, ExposeDoes, NotOfARun
<1>9. CASE UnmarkDone(r)
  BY <1>1, <1>9, UnmarkDoes
<1>10. CASE RemoveStage(r)
  BY <1>1, <1>10, RemoveStageDoes
<1>11. QED
  BY <1>3, <1>4, <1>5, <1>6, <1>7, <1>8, <1>9, <1>10, StepsOfARun

LEMMA NodesAreSpared ==
    ASSUME CopyInv, NEW r \in Runs, RunStep(r) \/ Kill(r)
    PROVE  SparesNodes(r)
<1> USE DEF CopyInv
<1>1. ASSUME UNCHANGED node PROVE SparesNodes(r)
  BY <1>1 DEF SparesNodes
<1>2. ASSUME NEW st \in Stages, Others(st), node[st].data \in {None, r}, node'[st].data \in {None, r}
      PROVE  SparesNodes(r)
  BY <1>2, NotOfARun DEF SparesNodes, Others
<1>3. ASSUME NEW st \in Stages, Others(st), node'[st].data = node[st].data PROVE SparesNodes(r)
  BY <1>3, NotOfARun DEF SparesNodes, Others
<1>4. CASE Quiet(r)
  BY <1>1, <1>4, QuietDoes DEF files
<1>5. CASE MakeStage(r)
  BY <1>1, <1>5, MakeStageDoes
<1>6. CASE MarkStage(r)
  BY <1>1, <1>3, <1>6, MarkStageDoes
<1>7. CASE \E i \in Parts : CopyPart(r, i)
  <2>1. PICK i \in Parts : CopyPart(r, i)
    BY <1>7
  <2>2. node[op[r].st].data \in {None, r} /\ op[r].st \in Stages
    BY <2>1, CopyPartDoes DEF StagesMarked, ContentMarked, TokenHeld, Holding
  <2>3. node'[op[r].st].data = r /\ Others(op[r].st)
    BY <2>1, CopyPartDoes
  <2>4. QED
    BY <1>2, <2>2, <2>3
<1>8. CASE GivesUp(r)
  <2>1. PICK st \in Stages : node[st].token = r /\ StageEmptied(r, st)
    BY <1>8, GivesUpDoes
  <2>2. node[st].data \in {None, r}
    BY <2>1 DEF StagesMarked, ContentMarked
  <2>3. node'[st].data = None /\ Others(st)
    BY <2>1 DEF StageEmptied, Others
  <2>4. QED
    BY <1>2, <2>2, <2>3
<1>9. CASE ExposeDone(r)
  BY <1>2, <1>9, ExposeDoes
<1>10. CASE UnmarkDone(r)
  BY <1>3, <1>10, UnmarkDoes
<1>11. CASE RemoveStage(r)
  BY <1>1, <1>11, RemoveStageDoes
<1>12. QED
  BY <1>4, <1>5, <1>6, <1>7, <1>8, <1>9, <1>10, <1>11, StepsOfARun

(* No step of a run touches what somebody else put into the directories,    *)
(* nor another run's copy: its stage bears its token, and a run empties     *)
(* only what bears its own.                                                 *)
THEOREM OthersAreSpared == MCSpec => SparesOthers
<1>1. CopyInv /\ [MCNext]_mcvars =>
        [\A r \in Runs : op'[r].pc # op[r].pc =>
           \A o \in Foreign \cup {Data(q) : q \in Runs \ {r}} : Kept(o)' = Kept(o)]_vars
  <2> SUFFICES ASSUME CopyInv, [Next]_vars, NEW r \in Runs, op'[r].pc # op[r].pc,
                      NEW o \in Foreign \cup {Data(q) : q \in Runs \ {r}}
               PROVE  Kept(o)' = Kept(o)
    BY DEF MCNext, mcvars
  <2> USE DEF CopyInv
  <2>1. RunStep(r) \/ Kill(r)
    <3>1. ASSUME NEW q \in Runs, RunStep(q) \/ Kill(q) PROVE q = r
      <4>1. Alone(q)
        BY <3>1, StepsOfARun, QuietDoes, MakeStageDoes, MarkStageDoes, CopyPartDoes, GivesUpDoes,
           ExposeDoes, UnmarkDoes, RemoveStageDoes
      <4>2. QED
        BY <4>1 DEF Alone
    <3>2. ASSUME NEW n \in Names, NEW m \in Names, Rename(appAt, n, m) PROVE FALSE
      BY <3>2, RenameDoes
    <3>3. ASSUME NEW f \in Foreign, NEW n \in Names, Plant(f, appAt, n) PROVE FALSE
      BY <3>3, PlantDoes
    <3>4. ASSUME SwapApp \/ StartContainer PROVE FALSE
      BY <3>4, AroundDoes
    <3>5. ASSUME NEW i \in Parts, Write(i) PROVE FALSE
      BY <3>5, WriteDoes
    <3>6. Next
      BY DEF vars
    <3>7. QED
      BY <3>1, <3>2, <3>3, <3>4, <3>5, <3>6 DEF Next
  <2>2. SparesNames(r) /\ SparesNodes(r) /\ o \in NotOf(r)
    BY <2>1, NamesAreSpared, NodesAreSpared DEF NotOf
  <2>3. Places(o)' = Places(o)
    BY <2>2 DEF Places, SparesNames
  <2>4. CASE o \in Foreign
    BY <2>2, <2>3, <2>4 DEF Kept, SparesNodes
  <2>5. CASE o \notin Foreign
    <3>1. PICK q \in Runs \ {r} : o = Data(q)
      BY <2>5
    <3>2. o[2] = q
      BY <3>1 DEF Data
    <3>3. {s \in Stages : node'[s].data = q} = {s \in Stages : node[s].data = q}
      BY <2>2 DEF SparesNodes
    <3>4. Kept(o) = <<Places(o), {s \in Stages : node[s].data = q}>>
          /\ Kept(o)' = <<Places(o)', {s \in Stages : node'[s].data = q}>>
      BY <2>5, <3>2 DEF Kept
    <3>5. QED
      BY <2>3, <3>3, <3>4
  <2>6. QED
    BY <2>4, <2>5
<1>2. QED
  BY <1>1, CopyInvHolds, PTL DEF MCSpec, SparesOthers

=============================================================================

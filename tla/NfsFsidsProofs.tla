--------------------------- MODULE NfsFsidsProofs ---------------------------
(***************************************************************************)
(* Theorems about NfsFsids for every set of shares, every hash, any number *)
(* of calls, restarts and rotations.                                       *)
(***************************************************************************)
EXTENDS NfsFsids, TLAPS

(* A secret that is there gives a key, and its hashes are offsets.          *)
LEMMA KeyType ==
    ASSUME TypeOK, NEW c \in Calls, call[c].key # Absent, NEW s \in Shares
    PROVE  /\ KeyOf(c) \in Keys
           /\ call[c].key = {KeyOf(c)}
           /\ Hashed(c, s) \in 0 .. Span - 1
<1>1. call[c].key \in Secrets
  BY DEF TypeOK, Progress, Records
<1>2. PICK k \in Keys : call[c].key = {k}
  BY <1>1 DEF Secrets
<1>3. KeyOf(c) = k
  BY <1>2 DEF KeyOf
<1>4. QED
  BY <1>2, <1>3, ConstantsAssumption DEF Hashed

(* The probe stays among the fsids of the plan.                             *)
LEMMA StepType ==
    ASSUME TypeOK, NEW c \in Calls, call[c].key # Absent, NEW s \in Shares,
           NEW n \in 0 .. Span - 1
    PROVE  Step(c, s, n) \in Fsids
<1>1. Hashed(c, s) \in Nat /\ Span \in Nat \ {0} /\ n \in Nat
  BY KeyType, ConstantsAssumption
<1>2. (Hashed(c, s) + n) % Span \in 0 .. Span - 1
  BY <1>1
<1>3. QED
  BY <1>2, ConstantsAssumption DEF Step, Fsids, FSID_BASE

(* No share is planned before the exports were read.                        *)
LEMMA UnplannedType == Unplanned \in [Shares -> Numbers]
BY DEF Unplanned, Numbers

(* What a step of a call may do to its record.                              *)
LEMMA ProgressType ==
    ASSUME NEW r \in Progress, NEW p \in Pcs, NEW k \in Secrets, NEW e \in Nat
    PROVE  /\ (p \in KeyPcs => r.key # Absent) =>
                /\ [r EXCEPT !.pc = p] \in Progress
                /\ [r EXCEPT !.pc = p, !.epoch = e] \in Progress
           /\ (p \in KeyPcs => k # Absent) =>
                /\ [r EXCEPT !.pc = p, !.key = k] \in Progress
                /\ [r EXCEPT !.pc = p, !.key = k, !.epoch = e] \in Progress
           /\ [r EXCEPT !.tries = 1] \in Progress
<1>1. r \in Records /\ (r.pc \in KeyPcs => r.key # Absent)
  BY DEF Progress
<1>2. [r EXCEPT !.pc = p] \in Records /\ [r EXCEPT !.pc = p].pc = p
        /\ [r EXCEPT !.pc = p].key = r.key
  BY <1>1 DEF Records
<1>3. [r EXCEPT !.pc = p, !.epoch = e] \in Records
        /\ [r EXCEPT !.pc = p, !.epoch = e].pc = p
        /\ [r EXCEPT !.pc = p, !.epoch = e].key = r.key
  BY <1>1 DEF Records
<1>4. [r EXCEPT !.pc = p, !.key = k] \in Records /\ [r EXCEPT !.pc = p, !.key = k].pc = p
        /\ [r EXCEPT !.pc = p, !.key = k].key = k
  BY <1>1 DEF Records
<1>5. [r EXCEPT !.pc = p, !.key = k, !.epoch = e] \in Records
        /\ [r EXCEPT !.pc = p, !.key = k, !.epoch = e].pc = p
        /\ [r EXCEPT !.pc = p, !.key = k, !.epoch = e].key = k
  BY <1>1 DEF Records
<1>6. [r EXCEPT !.tries = 1] \in Records /\ [r EXCEPT !.tries = 1].pc = r.pc
        /\ [r EXCEPT !.tries = 1].key = r.key
  BY <1>1 DEF Records
<1>7. QED
  BY <1>1, <1>2, <1>3, <1>4, <1>5, <1>6 DEF Progress

(* What a call knows once it has read the exports.                          *)
LEMMA PlanType ==
    ASSUME NEW r \in Progress, r.key # Absent, NEW f \in [Shares -> Numbers],
           NEW u \in SUBSET (Numbers \cup Others), NEW p \in SUBSET Shares,
           NEW o \in [Shares -> Numbers]
    PROVE  [r EXCEPT !.pc = "place", !.current = f, !.used = u, !.placed = p, !.out = o]
             \in Progress
BY DEF Progress, Records, Pcs

(* A call that fails keeps the types.                                       *)
LEMMA FailType ==
    ASSUME TypeOK, NEW c \in Calls, Fail(c)
    PROVE  call' \in [Calls -> Progress] /\ lock' \subseteq Calls
<1>1. [call[c] EXCEPT !.pc = "failed"] \in Progress
  BY ProgressType DEF TypeOK, Pcs, KeyPcs, Secrets
<1>2. QED
  BY <1>1 DEF Fail, Release, TypeOK

(* So does one that takes over a secret.                                    *)
LEMMA RememberType ==
    ASSUME TypeOK, NEW c \in Calls, Found, Remember(c, store)
    PROVE  call' \in [Calls -> Progress] /\ lock' \subseteq Calls /\ cache' \in Secrets
<1>1. [call[c] EXCEPT !.pc = "read", !.key = store] \in Progress
  BY ProgressType DEF TypeOK, Pcs, Found
<1>2. QED
  BY <1>1 DEF Remember, Release, TypeOK

(* Initial states are of their types.                                       *)
LEMMA InitType == Init => TypeOK
<1> SUFFICES ASSUME Init PROVE TypeOK
  OBVIOUS
<1>1. NoCall \in Progress
  BY UnplannedType DEF NoCall, Progress, Records, Secrets, Absent, Pcs, KeyPcs
<1>2. call \in [Calls -> Progress]
  BY <1>1 DEF Init
<1>3. fsid \in [Shares -> Numbers]
  BY DEF Init, Numbers
<1>4. hist \in Histories
  <2>1. store \subseteq Keys
    BY DEF Init, Absent
  <2>2. QED
    BY <1>3, <2>1 DEF Init, Histories
<1>5. QED
  BY <1>2, <1>3, <1>4, ConstantsAssumption DEF Init, TypeOK, Secrets

(* Every step keeps every variable in its type.                             *)
LEMMA TypeInductive == TypeOK /\ [Next]_vars => TypeOK'
<1> SUFFICES ASSUME TypeOK, [Next]_vars PROVE TypeOK'
  OBVIOUS
<1>0. /\ call \in [Calls -> Progress]
      /\ \A c \in Calls : call[c] \in Progress /\ call[c] \in Records
      /\ Absent \in Secrets /\ 0 \in Nat
  BY DEF TypeOK, Progress, Secrets
<1>1. CASE UNCHANGED vars
  BY <1>1 DEF vars, exports, secret, TypeOK
<1>2. ASSUME NEW c \in Calls, Enter(c) PROVE TypeOK'
  <2>1. CASE cache # Absent
    <3> DEFINE r == [call[c] EXCEPT !.pc = "read", !.key = cache, !.epoch = epoch]
    <3>1. r \in Progress
      BY <1>0, <2>1, ProgressType DEF TypeOK, Pcs, KeyPcs
    <3>2. call' \in [Calls -> Progress]
      BY <1>2, <2>1, <3>1, <1>0 DEF Enter
    <3>3. QED
      BY <1>2, <2>1, <3>2 DEF Enter, TypeOK, exports
  <2>2. CASE cache = Absent
    <3> DEFINE r == [call[c] EXCEPT !.pc = "stored", !.epoch = epoch]
    <3>1. r \in Progress
      BY <1>0, ProgressType DEF TypeOK, Pcs, KeyPcs
    <3>2. call' \in [Calls -> Progress]
      BY <1>2, <2>2, <3>1, <1>0 DEF Enter
    <3>3. QED
      BY <1>2, <2>2, <3>2 DEF Enter, TypeOK, exports
  <2>3. QED
    BY <2>1, <2>2
<1>3. ASSUME NEW c \in Calls, ReadStored(c) PROVE TypeOK'
  <2>1. CASE Fail(c) /\ UNCHANGED cache
    BY <1>3, <2>1, FailType DEF ReadStored, TypeOK, exports
  <2>2. CASE Found /\ Remember(c, store)
    BY <1>3, <2>2, RememberType DEF ReadStored, TypeOK, exports
  <2>3. CASE call' = [call EXCEPT ![c].pc = "generate"] /\ UNCHANGED <<cache, lock>>
    <3> DEFINE r == [call[c] EXCEPT !.pc = "generate"]
    <3>1. r \in Progress
      BY <1>0, ProgressType DEF Pcs, KeyPcs
    <3>2. call' \in [Calls -> Progress]
      BY <2>3, <3>1, <1>0
    <3>3. QED
      BY <1>3, <2>3, <3>2 DEF ReadStored, TypeOK, exports
  <2>4. QED
    BY <1>3, <2>1, <2>2, <2>3 DEF ReadStored
<1>4. ASSUME NEW c \in Calls, Generate(c) PROVE TypeOK'
  <2>1. CASE Fail(c) /\ UNCHANGED hist
    BY <1>4, <2>1, FailType DEF Generate, TypeOK, exports
  <2>2. ASSUME NEW k \in Keys \ hist.drawn,
               call' = [call EXCEPT ![c].pc = "set", ![c].key = {k}],
               hist' = [hist EXCEPT !.drawn = @ \cup {k}],
               UNCHANGED lock
        PROVE  TypeOK'
    <3> DEFINE r == [call[c] EXCEPT !.pc = "set", !.key = {k}]
    <3>1. {k} \in Secrets /\ {k} # Absent
      BY DEF Secrets, Absent
    <3>2. r \in Progress
      BY <1>0, <3>1, ProgressType DEF Pcs, KeyPcs
    <3>3. call' \in [Calls -> Progress]
      BY <2>2, <3>2, <1>0
    <3>4. hist' \in Histories
      BY <2>2 DEF TypeOK, Histories
    <3>5. QED
      BY <1>4, <2>2, <3>3, <3>4 DEF Generate, TypeOK, exports
  <2>3. QED
    BY <1>4, <2>1, <2>2 DEF Generate
<1>5. ASSUME NEW c \in Calls, SetSecret(c) PROVE TypeOK'
  <2>1. store' \in Secrets
    BY <1>0, <1>5 DEF SetSecret, TypeOK, Records
  <2>2. CASE Fail(c)
    BY <1>5, <2>1, <2>2, FailType DEF SetSecret, TypeOK, exports
  <2>3. CASE call' = [call EXCEPT ![c].pc = "reread", ![c].key = Absent] /\ UNCHANGED lock
    <3> DEFINE r == [call[c] EXCEPT !.pc = "reread", !.key = Absent]
    <3>1. r \in Progress
      BY <1>0, ProgressType DEF Pcs, KeyPcs
    <3>2. call' \in [Calls -> Progress]
      BY <2>3, <3>1, <1>0
    <3>3. QED
      BY <1>5, <2>1, <2>3, <3>2 DEF SetSecret, TypeOK, exports
  <2>4. QED
    BY <1>5, <2>2, <2>3 DEF SetSecret
<1>6. ASSUME NEW c \in Calls, Reread(c) PROVE TypeOK'
  <2>1. CASE Fail(c) /\ UNCHANGED cache
    BY <1>6, <2>1, FailType DEF Reread, TypeOK, exports
  <2>2. CASE Found /\ Remember(c, store)
    BY <1>6, <2>2, RememberType DEF Reread, TypeOK, exports
  <2>3. CASE call' = [call EXCEPT ![c].tries = 1] /\ UNCHANGED <<cache, lock>>
    <3> DEFINE r == [call[c] EXCEPT !.tries = 1]
    <3>1. r \in Progress
      BY <1>0, ProgressType DEF Pcs
    <3>2. call' \in [Calls -> Progress]
      BY <2>3, <3>1, <1>0
    <3>3. QED
      BY <1>6, <2>3, <3>2 DEF Reread, TypeOK, exports
  <2>4. QED
    BY <1>6, <2>1, <2>2, <2>3 DEF Reread
<1>7. ASSUME NEW c \in Calls, ReadExports(c) PROVE TypeOK'
  <2>1. hist' \in Histories
    BY <1>7 DEF ReadExports, TypeOK, Histories
  <2>2. call' \in [Calls -> Progress]
    <3>1. CASE call' = [call EXCEPT ![c].pc = "failed"]
      <4> DEFINE r == [call[c] EXCEPT !.pc = "failed"]
      <4>1. r \in Progress
        BY <1>0, ProgressType DEF Pcs, KeyPcs
      <4>2. QED
        BY <3>1, <4>1, <1>0
    <3>2. CASE call' # [call EXCEPT ![c].pc = "failed"]
      <4> DEFINE fixed == Fixed(c, fsid)
                 out == [s \in Shares |-> IF s \in fixed THEN fsid[s] ELSE NoFsid]
                 r == [call[c] EXCEPT !.pc = "place", !.current = fsid,
                         !.used = Reserved(fsid, fixed), !.placed = fixed, !.out = out]
      <4>1. call' = [call EXCEPT ![c] = r]
        BY <1>7, <3>2 DEF ReadExports
      <4>2. fixed \subseteq Shares
        BY DEF Fixed
      <4>3. Reserved(fsid, fixed) \subseteq Numbers \cup Others
        BY <4>2 DEF Reserved, TypeOK
      <4>4. out \in [Shares -> Numbers]
        BY DEF Numbers, TypeOK
      <4>5. r \in Progress
        <5>1. call[c].key # Absent
          BY <1>0, <1>7 DEF ReadExports, Progress, KeyPcs
        <5>2. fsid \in [Shares -> Numbers]
          BY DEF TypeOK
        <5> HIDE DEF fixed, out
        <5>3. QED
          BY <1>0, <4>2, <4>3, <4>4, <5>1, <5>2, PlanType
      <4>6. QED
        BY <4>1, <4>5, <1>0
    <3>3. QED
      BY <3>1, <3>2
  <2>3. QED
    BY <1>7, <2>1, <2>2 DEF ReadExports, exports, secret, TypeOK
<1>8. ASSUME NEW c \in Calls, Place(c) PROVE TypeOK'
  <2>1. PICK s \in Shares, n \in 0 .. Span - 1 :
          call' = [call EXCEPT ![c].used = @ \cup {Step(c, s, n)},
                               ![c].placed = @ \cup {s}, ![c].out[s] = Step(c, s, n)]
    BY <1>8 DEF Place
  <2>2. Step(c, s, n) \in Numbers
    BY <1>0, <1>8, StepType DEF Place, Numbers, Progress, KeyPcs
  <2> DEFINE x == Step(c, s, n)
             r == [call[c] EXCEPT !.used = @ \cup {x}, !.placed = @ \cup {s}, !.out[s] = x]
  <2>3. r \in Progress
    <3> HIDE DEF x
    <3>1. [call[c].out EXCEPT ![s] = x] \in [Shares -> Numbers]
      BY <1>0, <2>2 DEF x, Records
    <3>2. call[c].used \cup {x} \in SUBSET (Numbers \cup Others)
      BY <1>0, <2>2 DEF x, Records
    <3>3. QED
      BY <1>0, <3>1, <3>2 DEF Progress, Records
  <2>4. call' \in [Calls -> Progress]
    BY <2>1, <2>3, <1>0
  <2>5. QED
    BY <1>8, <2>4 DEF Place, exports, secret, TypeOK
<1>9. ASSUME NEW c \in Calls, Report(c) PROVE TypeOK'
  <2> DEFINE r == [call[c] EXCEPT !.pc = "done"]
  <2>1. r \in Progress
    <3>1. call[c].key # Absent
      BY <1>0, <1>9 DEF Report, Progress, KeyPcs
    <3>2. QED
      BY <1>0, <3>1, ProgressType DEF Pcs
  <2>2. call' \in [Calls -> Progress]
    BY <1>9, <2>1, <1>0 DEF Report
  <2>3. QED
    BY <1>9, <2>2 DEF Report, exports, secret, TypeOK
<1>10. ASSUME NEW c \in Calls, NEW s \in Shares, Apply(c, s) PROVE TypeOK'
  <2>1. call[c].out[s] \in Numbers
    BY <1>0 DEF Records
  <2>2. hist' \in Histories
    <3>1. call[c].key \in Secrets
      BY <1>0 DEF Records
    <3>2. QED
      BY <1>10, <3>1 DEF Apply, TypeOK, Histories
  <2>3. QED
    BY <1>10, <2>1, <2>2 DEF Apply, secret, TypeOK
<1>11. CASE Restart
  <2>1. \A c \in Calls : [call[c] EXCEPT !.pc = "failed"] \in Progress
    BY <1>0, ProgressType DEF Pcs, KeyPcs
  <2>2. call' \in [Calls -> Progress]
    BY <1>0, <1>11, <2>1 DEF Restart
  <2>3. QED
    BY <1>11, <2>2 DEF Restart, Acts, exports, Secrets, TypeOK
<1>12. CASE Rotate
  <2>1. store' \in Secrets /\ store' \subseteq Keys
    BY <1>12 DEF Rotate, Secrets, Absent
  <2>2. hist' \in Histories
    BY <1>12, <2>1 DEF Rotate, TypeOK, Histories
  <2>3. QED
    BY <1>12, <2>1, <2>2 DEF Rotate, Acts, exports, TypeOK
<1>13. QED
  BY <1>1, <1>2, <1>3, <1>4, <1>5, <1>6, <1>7, <1>8, <1>9, <1>10, <1>11, <1>12
     DEF Next, Secret

(* Every reachable state is of its types.                                   *)
THEOREM TypeCorrect == Spec => []TypeOK
BY InitType, TypeInductive, PTL DEF Spec

-----------------------------------------------------------------------------
(* A plan is as good as it was while its call's record stays the same.      *)
LEMMA PlanKept ==
    ASSUME NEW c \in Calls, PlannedSoFar(c), call'[c] = call[c],
           hist'.others[c] = hist.others[c]
    PROVE  PlannedSoFar(c)'
BY DEF PlannedSoFar, Fixed, HashedFsid, Hashed, KeyOf

(* While a call looks for the secret it has no plan, and others' stay.      *)
LEMMA SecretPlansNothing ==
    ASSUME TypeOK, NEW c \in Calls, Secret(c), NEW d \in Calls
    PROVE  /\ hist'.others[d] = hist.others[d]
           /\ call'[d] = call[d] \/ call'[d].pc \notin {"place", "done"}
<1> USE DEF Fail, Release, Remember
<1>0. call \in [Calls -> Progress] /\ hist \in Histories
  BY DEF TypeOK
<1>1. \A e \in Calls : call[e] \in Records
  BY <1>0 DEF Progress
<1>2. CASE Enter(c)
  BY <1>0, <1>1, <1>2 DEF Enter, Records
<1>3. CASE ReadStored(c)
  BY <1>0, <1>1, <1>3 DEF ReadStored, Records
<1>4. CASE Generate(c)
  <2>1. hist'.others[d] = hist.others[d]
    BY <1>0, <1>4 DEF Generate, Histories
  <2>2. call'[d] = call[d] \/ call'[d].pc \notin {"place", "done"}
    BY <1>0, <1>1, <1>4 DEF Generate, Records
  <2>3. QED
    BY <2>1, <2>2
<1>5. CASE SetSecret(c)
  BY <1>0, <1>1, <1>5 DEF SetSecret, Records
<1>6. CASE Reread(c)
  BY <1>0, <1>1, <1>6 DEF Reread, Records
<1>7. QED
  BY <1>2, <1>3, <1>4, <1>5, <1>6 DEF Secret

(* What a plan has given out stays used, and no step gives it out again.    *)
LEMMA PlanInductive == PlanInv /\ [Next]_vars => PlanInv'
<1> SUFFICES ASSUME PlanInv, [Next]_vars, NEW d \in Calls PROVE PlannedSoFar(d)'
  BY TypeInductive DEF PlanInv
<1>0. /\ TypeOK /\ PlannedSoFar(d)
      /\ call \in [Calls -> Progress] /\ hist \in Histories
      /\ \A c \in Calls : call[c] \in Records
  BY DEF PlanInv, TypeOK, Progress
<1>1. CASE UNCHANGED vars
  BY <1>0, <1>1, PlanKept DEF vars
<1>2. ASSUME NEW c \in Calls, Secret(c) PROVE PlannedSoFar(d)'
  <2>1. CASE call'[d] = call[d]
    BY <1>0, <1>2, <2>1, SecretPlansNothing, PlanKept
  <2>2. CASE call'[d].pc \notin {"place", "done"}
    BY <2>2 DEF PlannedSoFar
  <2>3. QED
    BY <1>0, <1>2, <2>1, <2>2, SecretPlansNothing
<1>3. ASSUME NEW c \in Calls, ReadExports(c) PROVE PlannedSoFar(d)'
  <2>1. hist'.others = [hist.others EXCEPT ![c] = others]
    BY <1>0, <1>3 DEF ReadExports, Histories
  <2>2. CASE d # c
    <3>1. call'[d] = call[d] /\ hist'.others[d] = hist.others[d]
      BY <1>0, <1>3, <2>1, <2>2 DEF ReadExports, Histories
    <3>2. QED
      BY <1>0, <3>1, PlanKept
  <2>3. CASE d = c /\ call'[d].pc \notin {"place", "done"}
    BY <2>3 DEF PlannedSoFar
  <2>4. CASE d = c /\ call'[d].pc \in {"place", "done"}
    <3> DEFINE fixed == Fixed(c, fsid)
               out == [s \in Shares |-> IF s \in fixed THEN fsid[s] ELSE NoFsid]
               used == others \cup {fsid[s] : s \in fixed}
    <3>0. /\ call' # [call EXCEPT ![c].pc = "failed"]
          /\ call' = [call EXCEPT ![c].pc = "place", ![c].current = fsid,
                        ![c].used = used, ![c].placed = fixed, ![c].out = out]
      <4>1. call' # [call EXCEPT ![c].pc = "failed"]
        BY <1>0, <2>4 DEF Records
      <4>2. QED
        BY <1>3, <4>1 DEF ReadExports, Reserved
    <3>1. /\ call'[c].pc = "place" /\ call'[c].current = fsid /\ call'[c].key = call[c].key
          /\ call'[c].used = used /\ call'[c].placed = fixed /\ call'[c].out = out
      <4> HIDE DEF fixed, out, used
      <4>1. QED
        BY <1>0, <3>0 DEF Records
    <3>2. Fixed(c, call[c].current)' = fixed
      BY <3>1 DEF Fixed, HashedFsid, Hashed, KeyOf
    <3>3. fixed \subseteq Shares
      BY DEF Fixed
    <3>4. hist'.others[c] = others
      BY <1>0, <2>1 DEF Histories
    <3> HIDE DEF fixed
    <3>5. {call'[c].out[s] : s \in call'[c].placed} \subseteq call'[c].used
      BY <3>1, <3>3
    <3>6. QED
      BY <2>4, <3>1, <3>2, <3>4, <3>5 DEF PlannedSoFar
  <2>5. QED
    BY <2>2, <2>3, <2>4
<1>4. ASSUME NEW c \in Calls, Place(c) PROVE PlannedSoFar(d)'
  <2>1. PICK s \in Shares, n \in 0 .. Span - 1 :
          /\ IsNext(c, s) /\ Step(c, s, n) \notin call[c].used
          /\ call' = [call EXCEPT ![c].used = @ \cup {Step(c, s, n)},
                                  ![c].placed = @ \cup {s}, ![c].out[s] = Step(c, s, n)]
    BY <1>4 DEF Place
  <2> DEFINE x == Step(c, s, n)
  <2>2. hist' = hist
    BY <1>4 DEF Place
  <2>3. CASE d # c
    BY <1>0, <2>1, <2>2, <2>3, PlanKept
  <2>4. CASE d = c
    <3> HIDE DEF x
    <3>1. /\ call'[c].pc = call[c].pc /\ call'[c].key = call[c].key
          /\ call'[c].current = call[c].current
          /\ call'[c].used = call[c].used \cup {x}
          /\ call'[c].placed = call[c].placed \cup {s}
          /\ call'[c].out = [call[c].out EXCEPT ![s] = x]
      BY <1>0, <2>1 DEF x, Records
    <3>2. call[c].pc = "place" /\ x \notin call[c].used /\ s \notin call[c].placed
      BY <1>4, <2>1 DEF Place, IsNext, x
    <3>3. Fixed(c, call[c].current)' = Fixed(c, call[c].current)
      BY <3>1 DEF Fixed, HashedFsid, Hashed, KeyOf
    <3>4. /\ call'[c].out[s] = x
          /\ \A t \in call[c].placed : call'[c].out[t] = call[c].out[t]
      BY <1>0, <3>1, <3>2 DEF Records
    <3>5. /\ Fixed(c, call[c].current) \subseteq call[c].placed
          /\ hist.others[c] \subseteq call[c].used
          /\ \A t \in call[c].placed : call[c].out[t] \in call[c].used
          /\ \A t \in call[c].placed \ Fixed(c, call[c].current) :
               /\ call[c].out[t] \notin hist.others[c]
               /\ \A u \in call[c].placed \ {t} : call[c].out[t] # call[c].out[u]
      BY <1>0, <2>4, <3>2 DEF PlannedSoFar
    <3>6. /\ hist.others[c] \subseteq call'[c].used
          /\ \A t \in call'[c].placed : call'[c].out[t] \in call'[c].used
      BY <3>1, <3>4, <3>5
    <3>7. ASSUME NEW t \in call'[c].placed \ Fixed(c, call[c].current)
          PROVE  /\ call'[c].out[t] \notin hist.others[c]
                 /\ \A u \in call'[c].placed \ {t} : call'[c].out[t] # call'[c].out[u]
      BY <3>1, <3>2, <3>4, <3>5
    <3>8. QED
      BY <2>2, <2>4, <3>1, <3>2, <3>3, <3>5, <3>6, <3>7 DEF PlannedSoFar
  <2>5. QED
    BY <2>3, <2>4
<1>5. ASSUME NEW c \in Calls, Report(c) PROVE PlannedSoFar(d)'
  <2>1. CASE d # c
    BY <1>0, <1>5, <2>1, PlanKept DEF Report
  <2>2. CASE d = c
    <3>1. /\ call[c].pc = "place" /\ call[c].placed = Shares /\ hist' = hist
          /\ call'[c] = [call[c] EXCEPT !.pc = "done"]
      BY <1>0, <1>5 DEF Report
    <3>2. /\ call'[c].key = call[c].key /\ call'[c].current = call[c].current
          /\ call'[c].used = call[c].used /\ call'[c].placed = call[c].placed
          /\ call'[c].out = call[c].out
      BY <1>0, <3>1 DEF Records
    <3>3. Fixed(c, call[c].current)' = Fixed(c, call[c].current)
      BY <3>2 DEF Fixed, HashedFsid, Hashed, KeyOf
    <3>4. call'[c].pc = "done"
      BY <1>0, <3>1 DEF Records
    <3>5. /\ Fixed(c, call[c].current) \subseteq call[c].placed
          /\ hist.others[c] \cup {call[c].out[s] : s \in call[c].placed} \subseteq call[c].used
          /\ \A s \in call[c].placed \ Fixed(c, call[c].current) :
               /\ call[c].out[s] \notin hist.others[c]
               /\ \A t \in call[c].placed \ {s} : call[c].out[s] # call[c].out[t]
      BY <1>0, <2>2, <3>1 DEF PlannedSoFar
    <3> DEFINE fixed == Fixed(c, call[c].current)
    <3> HIDE DEF fixed
    <3>6. Fixed(c, call[c].current)' = fixed
      BY <3>3 DEF fixed
    <3>7. QED
      BY <2>2, <3>1, <3>2, <3>4, <3>5, <3>6 DEF PlannedSoFar, fixed
  <2>3. QED
    BY <2>1, <2>2
<1>6. ASSUME NEW c \in Calls, NEW s \in Shares, Apply(c, s) PROVE PlannedSoFar(d)'
  BY <1>0, <1>6, PlanKept DEF Apply
<1>7. CASE Restart
  <2>1. hist' = hist /\ (call'[d] = call[d] \/ call'[d] = [call[d] EXCEPT !.pc = "failed"])
    BY <1>7 DEF Restart
  <2>2. CASE call'[d] = call[d]
    BY <1>0, <2>1, <2>2, PlanKept
  <2>3. CASE call'[d] = [call[d] EXCEPT !.pc = "failed"]
    <3>1. call'[d].pc = "failed"
      BY <1>0, <2>3 DEF Records
    <3>2. QED
      BY <3>1 DEF PlannedSoFar
  <2>4. QED
    BY <2>1, <2>2, <2>3
<1>8. CASE Rotate
  <2>1. call' = call /\ hist'.others = hist.others
    BY <1>0, <1>8 DEF Rotate, Histories
  <2>2. QED
    BY <1>0, <2>1, PlanKept
<1>9. QED
  BY <1>1, <1>2, <1>3, <1>4, <1>5, <1>6, <1>7, <1>8 DEF Next

(* A plan gives no fsid twice, nor one another export has, but to shares    *)
(* that had it already.                                                     *)
THEOREM PlansAreUnique == Spec => []PlanUnique
<1>1. Init => PlanInv
  BY InitType DEF Init, PlanInv, PlannedSoFar, NoCall
<1>2. ASSUME PlanInv PROVE PlanUnique
  <2> SUFFICES ASSUME NEW c \in Calls, call[c].pc = "done", NEW s \in Shares,
                      call[c].current[s] # HashedFsid(c, s)
               PROVE  /\ call[c].out[s] \notin hist.others[c]
                      /\ \A t \in Shares \ {s} : call[c].out[s] # call[c].out[t]
    BY DEF PlanUnique
  <2>1. s \notin Fixed(c, call[c].current)
    BY DEF Fixed
  <2>2. QED
    BY <1>2, <2>1 DEF PlanInv, PlannedSoFar
<1>3. QED
  BY <1>1, <1>2, PlanInductive, PTL DEF Spec

-----------------------------------------------------------------------------
(* A plan stays the plan while it is applied.  Home are the shares that     *)
(* were at the fsid of their hash before anybody applied a plan; every plan *)
(* of that key leaves them there, and gives each other share the fsid that  *)
(* these, the other exports and the shares before it in name order leave.   *)
Plans(c) == call[c].pc \in {"place", "done"}
Lone(c) == Plans(c) /\ Only(call[c].key)
Alike(c, d) == Plans(c) /\ Plans(d) /\ call[c].key = call[d].key
Home(c) == {s \in Shares : hist.first[s] = HashedFsid(c, s)}
PlannedBy(key, s, f) ==
    \E e \in Calls : call[e].pc = "done" /\ call[e].key = key /\ call[e].out[s] = f

(* A share has the fsid it began with or one of a plan that was applied;    *)
(* a call whose key alone was applied read nothing else.                    *)
FsidsOrigin ==
    \A s \in Shares : fsid[s] = hist.first[s] \/ \E k \in hist.applied : PlannedBy(k, s, fsid[s])
Origin(c) ==
    \A s \in Shares : \/ call[c].current[s] = hist.first[s]
                      \/ PlannedBy(call[c].key, s, call[c].current[s])

(* What is used is what others have and what was given out, the shares that *)
(* do not move keep what they have, and the others come in name order.      *)
Exact(c) ==
    /\ hist.others[c] = others
    /\ call[c].used = others \cup {call[c].out[s] : s \in call[c].placed}
    /\ \A s \in Fixed(c, call[c].current) :
         s \in call[c].placed /\ call[c].out[s] = call[c].current[s]
    /\ \A s \in call[c].placed \ Fixed(c, call[c].current) :
         \A t \in Shares \ call[c].placed : Name[s] < Name[t]

HomeStays(c) == Home(c) \subseteq Fixed(c, call[c].current)
Distinct(c) ==
    \A s \in call[c].placed \ Home(c) :
        /\ call[c].out[s] \notin others
        /\ \A t \in call[c].placed \ {s} : call[c].out[s] # call[c].out[t]

(* The fsids a share steps past are all of shares at home or before it.     *)
Before(c, s) == {t \in call[c].placed : t \in Home(c) \/ Name[t] < Name[s]}
Passed(c, s) == others \cup {call[c].out[t] : t \in Before(c, s)}
Nearest(c) ==
    \A s \in call[c].placed : \E n \in 0 .. Span - 1 :
        call[c].out[s] = Step(c, s, n) /\ \A m \in 0 .. n - 1 : Step(c, s, m) \in Passed(c, s)

Sound(c) == Origin(c) /\ HomeStays(c) /\ Distinct(c) /\ Nearest(c)
AllSound == \A c \in Calls : (Plans(c) => Exact(c)) /\ (Lone(c) => Sound(c))
Agreed ==
    \A c, d \in Calls : Alike(c, d) /\ Lone(c) =>
        \A s \in call[c].placed \cap call[d].placed : call[c].out[s] = call[d].out[s]

StableInv == PlanInv /\ FsidsOrigin /\ AllSound /\ Agreed

(* Calls with the same key hash alike.                                      *)
LEMMA HashAlike ==
    ASSUME NEW c \in Calls, NEW d \in Calls, call[c].key = call[d].key
    PROVE  /\ KeyOf(c) = KeyOf(d)
           /\ \A s : HashedFsid(c, s) = HashedFsid(d, s)
           /\ \A s, n : Step(c, s, n) = Step(d, s, n)
           /\ Home(c) = Home(d)
<1>1. KeyOf(c) = KeyOf(d)
  BY DEF KeyOf
<1>2. \A s : Hashed(c, s) = Hashed(d, s)
  BY <1>1 DEF Hashed
<1>3. QED
  BY <1>1, <1>2 DEF HashedFsid, Step, Home

(* A finished plan has every share, and a share at home is at its hash.     *)
LEMMA DoneHasAll ==
    ASSUME StableInv, NEW e \in Calls, call[e].pc = "done"
    PROVE  Plans(e) /\ call[e].placed = Shares
BY DEF StableInv, PlanInv, PlannedSoFar, Plans

LEMMA HomeOut ==
    ASSUME StableInv, NEW c \in Calls, Lone(c), NEW s \in Home(c)
    PROVE  s \in call[c].placed /\ call[c].out[s] = HashedFsid(c, s)
<1>1. Exact(c) /\ HomeStays(c)
  BY DEF StableInv, AllSound, Sound, Lone
<1>2. QED
  BY <1>1 DEF Exact, HomeStays, Fixed

(* The hash is the first step.                                              *)
LEMMA StepNone ==
    ASSUME TypeOK, NEW c \in Calls, call[c].key # Absent, NEW s \in Shares
    PROVE  0 \in 0 .. Span - 1 /\ Step(c, s, 0) = HashedFsid(c, s)
<1>1. Hashed(c, s) \in 0 .. Span - 1 /\ Span \in Nat
  BY KeyType, ConstantsAssumption
<1>2. Hashed(c, s) \in Nat /\ Span \in Nat \ {0} /\ Hashed(c, s) < Span
  BY <1>1
<1>3. (Hashed(c, s) + 0) % Span = Hashed(c, s)
  BY <1>2
<1>4. QED
  BY <1>2, <1>3 DEF Step, HashedFsid

(* Where only plans of one key were applied, a share that is at its hash is *)
(* where every finished plan of that key puts it.                           *)
LEMMA FixedIsPlanned ==
    ASSUME StableInv, NEW c \in Calls, Only(call[c].key),
           NEW e \in Calls, call[e].pc = "done", call[e].key = call[c].key,
           NEW t \in Shares, NEW f, f = HashedFsid(c, t),
           f = hist.first[t] \/ PlannedBy(call[c].key, t, f)
    PROVE  call[e].out[t] = f
<1>1. Plans(e) /\ Lone(e) /\ call[e].placed = Shares
  BY DoneHasAll DEF Lone
<1>2. CASE f = hist.first[t]
  <2>1. t \in Home(e)
    BY <1>2, HashAlike DEF Home
  <2>2. QED
    BY <1>1, <2>1, HomeOut, HashAlike
<1>3. CASE PlannedBy(call[c].key, t, f)
  <2>1. PICK d \in Calls : call[d].pc = "done" /\ call[d].key = call[c].key /\ call[d].out[t] = f
    BY <1>3 DEF PlannedBy
  <2>2. Plans(d) /\ call[d].placed = Shares
    BY <2>1, DoneHasAll
  <2>3. Alike(e, d)
    BY <1>1, <2>1, <2>2 DEF Alike
  <2>4. QED
    BY <1>1, <2>1, <2>2, <2>3 DEF StableInv, Agreed
<1>4. QED
  BY <1>2, <1>3

(* Without a finished plan of its key a call read the first fsids.          *)
LEMMA FixedIsHome ==
    ASSUME StableInv, NEW c \in Calls, Lone(c),
           \A e \in Calls : ~(call[e].pc = "done" /\ call[e].key = call[c].key)
    PROVE  Fixed(c, call[c].current) = Home(c)
<1>1. Origin(c)
  BY DEF StableInv, AllSound, Sound
<1>2. \A s \in Shares : call[c].current[s] = hist.first[s]
  BY <1>1 DEF Origin, PlannedBy
<1>3. QED
  BY <1>2 DEF Fixed, Home

(* The next share of a plan gets what another plan of its key gives it,     *)
(* when that one has all the shares this one has: neither finds the other's *)
(* fsid used.                                                               *)
LEMMA NextAsIn ==
    ASSUME StableInv, NEW c \in Calls, NEW e \in Calls, Alike(c, e), Lone(c),
           NEW s \in call[e].placed, IsNext(c, s),
           call[c].placed \subseteq call[e].placed,
           NEW n \in 0 .. Span - 1, Step(c, s, n) \notin call[c].used,
           \A m \in 0 .. n - 1 : Step(c, s, m) \in call[c].used
    PROVE  /\ call[e].out[s] = Step(c, s, n)
           /\ \A m \in 0 .. n - 1 : Step(c, s, m) \in Passed(c, s)
<1>1. /\ Lone(e) /\ Exact(c) /\ Distinct(e) /\ Nearest(e) /\ HomeStays(c)
  BY DEF StableInv, AllSound, Sound, Lone, Alike
<1>2. \A t \in call[c].placed : call[c].out[t] = call[e].out[t]
  BY DEF StableInv, Agreed
<1>3. Home(c) = Home(e) /\ \A m : Step(c, s, m) = Step(e, s, m)
  BY HashAlike DEF Alike
<1>4. s \in Shares /\ s \notin call[c].placed /\ s \notin Home(e)
  BY <1>1, <1>3 DEF IsNext, HomeStays, Exact
<1>5. Before(e, s) \subseteq call[c].placed
  <2> SUFFICES ASSUME NEW t \in Before(e, s), t \notin call[c].placed PROVE FALSE
    OBVIOUS
  <2>1. t \in Shares
    BY DEF Before, StableInv, PlanInv, TypeOK, Progress, Records
  <2>2. CASE t \in Home(e)
    BY <1>1, <1>3, <2>2 DEF HomeStays, Exact
  <2>3. CASE Name[t] < Name[s]
    <3>1. Name[s] <= Name[t]
      BY <2>1 DEF IsNext
    <3>2. QED
      BY <1>4, <2>1, <2>3, <3>1, ConstantsAssumption
  <2>4. QED
    BY <2>2, <2>3 DEF Before
<1>6. Passed(e, s) \subseteq Passed(c, s)
  BY <1>2, <1>3, <1>5 DEF Passed, Before
<1>7. Passed(c, s) \subseteq call[c].used
  BY <1>1 DEF Passed, Before, Exact
<1>8. call[e].out[s] \notin call[c].used
  BY <1>1, <1>2, <1>4 DEF Distinct, Exact
<1>9. PICK k \in 0 .. Span - 1 :
        /\ call[e].out[s] = Step(e, s, k)
        /\ \A m \in 0 .. k - 1 : Step(e, s, m) \in Passed(e, s)
  BY <1>1 DEF Nearest
<1>10. /\ call[e].out[s] = Step(c, s, k)
       /\ \A m \in 0 .. k - 1 : Step(c, s, m) \in Passed(c, s)
  BY <1>3, <1>6, <1>9
<1>11. ~(k < n)
  <2>1. k < n => k \in 0 .. n - 1
    BY ConstantsAssumption
  <2>2. QED
    BY <1>8, <1>10, <2>1
<1>12. ~(n < k)
  <2>1. n < k => n \in 0 .. k - 1
    BY ConstantsAssumption
  <2>2. QED
    BY <1>7, <1>10, <2>1
<1>13. k = n
  BY <1>11, <1>12, ConstantsAssumption
<1>14. QED
  BY <1>10, <1>13

(* The next share of any plan, when another plan of its key has it already: *)
(* a finished one if there is one, else both began with the same shares.    *)
LEMMA NextAsInAny ==
    ASSUME StableInv, NEW c \in Calls, NEW d \in Calls, Alike(c, d), Lone(c),
           NEW s \in call[d].placed, IsNext(c, s),
           NEW n \in 0 .. Span - 1, Step(c, s, n) \notin call[c].used,
           \A m \in 0 .. n - 1 : Step(c, s, m) \in call[c].used
    PROVE  call[d].out[s] = Step(c, s, n)
<1>0. /\ s \in Shares /\ s \notin call[c].placed /\ call[c].placed \subseteq Shares
      /\ \A t \in Shares \ call[c].placed : Name[s] <= Name[t]
  BY DEF IsNext, StableInv, PlanInv, TypeOK, Progress, Records
<1>1. CASE \E e \in Calls : call[e].pc = "done" /\ call[e].key = call[c].key
  <2>1. PICK e \in Calls : call[e].pc = "done" /\ call[e].key = call[c].key
    BY <1>1
  <2>2. Plans(e) /\ call[e].placed = Shares
    BY <2>1, DoneHasAll
  <2>3. Alike(c, e) /\ Alike(e, d) /\ Lone(e)
    BY <2>1, <2>2 DEF Alike, Lone
  <2>4. call[e].out[s] = Step(c, s, n)
    BY <1>0, <2>2, <2>3, NextAsIn
  <2>5. call[e].out[s] = call[d].out[s]
    BY <1>0, <2>2, <2>3 DEF StableInv, Agreed
  <2>6. QED
    BY <2>4, <2>5
<1>2. CASE ~\E e \in Calls : call[e].pc = "done" /\ call[e].key = call[c].key
  <2>1. Lone(d) /\ Home(c) = Home(d)
    BY HashAlike DEF Alike, Lone
  <2>2. Fixed(c, call[c].current) = Home(c) /\ Fixed(d, call[d].current) = Home(c)
    <3>1. Fixed(c, call[c].current) = Home(c)
      BY <1>2, FixedIsHome
    <3>2. \A e \in Calls : ~(call[e].pc = "done" /\ call[e].key = call[d].key)
      BY <1>2 DEF Alike
    <3>3. Fixed(d, call[d].current) = Home(d)
      BY <2>1, <3>2, FixedIsHome
    <3>4. QED
      BY <2>1, <3>1, <3>3
  <2>3. Exact(c) /\ Exact(d)
    BY DEF StableInv, AllSound, Alike
  <2>4. s \notin Home(c)
    BY <1>0, <2>2, <2>3 DEF Exact
  <2>5. ASSUME NEW t \in call[c].placed, t \notin call[d].placed PROVE FALSE
    <3>1. t \in Shares /\ t \notin Home(c)
      BY <1>0, <2>2, <2>3, <2>5 DEF Exact
    <3>2. Name[t] < Name[s]
      BY <1>0, <2>2, <2>3, <3>1 DEF Exact
    <3>3. Name[s] < Name[t]
      BY <2>2, <2>3, <2>4, <2>5, <3>1 DEF Exact
    <3>4. QED
      BY <1>0, <3>1, <3>2, <3>3, ConstantsAssumption
  <2>6. QED
    BY <2>5, NextAsIn
<1>3. QED
  BY <1>1, <1>2

(* And what it steps past are fsids of shares at home or before it.         *)
LEMMA NextIsNearest ==
    ASSUME StableInv, NEW c \in Calls, Lone(c), NEW s \in Shares, IsNext(c, s),
           NEW n \in 0 .. Span - 1, Step(c, s, n) \notin call[c].used,
           \A m \in 0 .. n - 1 : Step(c, s, m) \in call[c].used
    PROVE  \A m \in 0 .. n - 1 : Step(c, s, m) \in Passed(c, s)
<1>0. s \notin call[c].placed /\ call[c].placed \subseteq Shares
  BY DEF IsNext, StableInv, PlanInv, TypeOK, Progress, Records
<1>1. CASE \E e \in Calls : call[e].pc = "done" /\ call[e].key = call[c].key
  <2>1. PICK e \in Calls : call[e].pc = "done" /\ call[e].key = call[c].key
    BY <1>1
  <2>2. Plans(e) /\ call[e].placed = Shares
    BY <2>1, DoneHasAll
  <2>3. Alike(c, e)
    BY <2>1, <2>2 DEF Alike, Lone
  <2>4. QED
    BY <1>0, <2>2, <2>3, NextAsIn
<1>2. CASE ~\E e \in Calls : call[e].pc = "done" /\ call[e].key = call[c].key
  <2>1. Exact(c) /\ Fixed(c, call[c].current) = Home(c)
    BY <1>2, FixedIsHome DEF StableInv, AllSound, Lone
  <2>2. \A t \in call[c].placed : t \in Before(c, s)
    BY <1>0, <2>1 DEF Exact, Before
  <2>3. call[c].used \subseteq Passed(c, s)
    BY <2>1, <2>2 DEF Exact, Passed
  <2>4. QED
    BY <2>3
<1>3. QED
  BY <1>1, <1>2

(* What every step leaves alone: the first fsids, the other exports, what   *)
(* was applied and what is finished.                                        *)
Frame ==
    /\ hist'.first = hist.first /\ others' = others /\ hist.applied \subseteq hist'.applied
    /\ \A e \in Calls : call[e].pc = "done" => call'[e] = call[e]
Settled(d) == call'[d] = call[d] /\ hist'.others[d] = hist.others[d]
Quiet == fsid' = fsid /\ hist'.applied = hist.applied

LEMMA SecretFrame ==
    ASSUME TypeOK, NEW c \in Calls, Secret(c)
    PROVE  Frame /\ Quiet /\ \A d \in Calls : Plans(d)' => Settled(d)
<1>0. call \in [Calls -> Progress] /\ hist \in Histories /\ \A e \in Calls : call[e] \in Records
  BY DEF TypeOK, Progress
<1>1. hist'.first = hist.first /\ hist'.applied = hist.applied
  <2>1. CASE Generate(c)
    BY <1>0, <2>1 DEF Generate, Histories
  <2>2. CASE Enter(c) \/ ReadStored(c) \/ SetSecret(c) \/ Reread(c)
    BY <2>2 DEF Enter, ReadStored, SetSecret, Reread
  <2>3. QED
    BY <2>1, <2>2 DEF Secret
<1>2. UNCHANGED <<fsid, others>>
  BY DEF Secret, Enter, ReadStored, Generate, SetSecret, Reread, exports
<1>3. \A e \in Calls : call[e].pc = "done" => call'[e] = call[e]
  BY <1>0 DEF Secret, Enter, ReadStored, Generate, SetSecret, Reread, Fail, Remember
<1>4. QED
  BY <1>1, <1>2, <1>3, SecretPlansNothing DEF Frame, Quiet, Settled, Plans

LEMMA ReadExportsDoes ==
    ASSUME TypeOK, NEW c \in Calls, ReadExports(c)
    PROVE  /\ Frame /\ Quiet /\ call[c].pc = "read"
           /\ \A d \in Calls \ {c} : Settled(d)
           /\ Plans(c)' =>
                /\ call'[c].pc = "place" /\ call'[c].key = call[c].key
                /\ call'[c].current = fsid /\ call'[c].placed = Fixed(c, fsid)
                /\ call'[c].used = others \cup {fsid[s] : s \in Fixed(c, fsid)}
                /\ \A s \in Fixed(c, fsid) : call'[c].out[s] = fsid[s]
                /\ hist'.others[c] = others
<1>0. call \in [Calls -> Progress] /\ hist \in Histories /\ \A e \in Calls : call[e] \in Records
  BY DEF TypeOK, Progress
<1>1. hist'.others = [hist.others EXCEPT ![c] = others] /\ call[c].pc = "read"
      /\ hist'.first = hist.first /\ hist'.applied = hist.applied
  BY <1>0 DEF ReadExports, Histories
<1>2. UNCHANGED <<fsid, others>>
  BY DEF ReadExports, exports
<1>3. \A d \in Calls \ {c} : call'[d] = call[d]
  BY <1>0 DEF ReadExports
<1>4. hist'.others[c] = others /\ \A d \in Calls \ {c} : hist'.others[d] = hist.others[d]
  BY <1>0, <1>1 DEF Histories
<1>5. ASSUME Plans(c)'
      PROVE  /\ call'[c].pc = "place" /\ call'[c].key = call[c].key
             /\ call'[c].current = fsid /\ call'[c].placed = Fixed(c, fsid)
             /\ call'[c].used = others \cup {fsid[s] : s \in Fixed(c, fsid)}
             /\ \A s \in Fixed(c, fsid) : call'[c].out[s] = fsid[s]
  <2> DEFINE fixed == Fixed(c, fsid)
             out == [s \in Shares |-> IF s \in fixed THEN fsid[s] ELSE NoFsid]
             used == others \cup {fsid[s] : s \in fixed}
  <2>0. /\ call' # [call EXCEPT ![c].pc = "failed"]
        /\ call' = [call EXCEPT ![c].pc = "place", ![c].current = fsid,
                      ![c].used = used, ![c].placed = fixed, ![c].out = out]
    <3>1. call' # [call EXCEPT ![c].pc = "failed"]
      BY <1>0, <1>5 DEF Records, Plans
    <3>2. QED
      BY <3>1 DEF ReadExports, Reserved
  <2>1. /\ call'[c].pc = "place" /\ call'[c].current = fsid /\ call'[c].key = call[c].key
        /\ call'[c].used = used /\ call'[c].placed = fixed /\ call'[c].out = out
    <3> HIDE DEF fixed, out, used
    <3>1. QED
      BY <1>0, <2>0 DEF Records
  <2>2. fixed \subseteq Shares
    BY DEF Fixed
  <2> HIDE DEF fixed
  <2>3. \A s \in fixed : out[s] = fsid[s]
    BY <2>2
  <2>4. QED
    BY <2>1, <2>3 DEF fixed
<1>6. QED
  BY <1>0, <1>1, <1>2, <1>3, <1>4, <1>5 DEF Frame, Quiet, Settled

LEMMA PlaceDoes ==
    ASSUME TypeOK, NEW c \in Calls, Place(c)
    PROVE  /\ Frame /\ Quiet /\ hist' = hist /\ call[c].pc = "place" /\ call'[c].pc = "place"
           /\ \A d \in Calls \ {c} : Settled(d)
           /\ call'[c].key = call[c].key /\ call'[c].current = call[c].current
           /\ \E s \in Shares : \E n \in 0 .. Span - 1 :
                /\ IsNext(c, s) /\ Step(c, s, n) \notin call[c].used
                /\ \A m \in 0 .. n - 1 : Step(c, s, m) \in call[c].used
                /\ call'[c].used = call[c].used \cup {Step(c, s, n)}
                /\ call'[c].placed = call[c].placed \cup {s}
                /\ call'[c].out[s] = Step(c, s, n)
                /\ \A t \in call[c].placed : call'[c].out[t] = call[c].out[t]
<1>0. call \in [Calls -> Progress] /\ \A e \in Calls : call[e] \in Records
  BY DEF TypeOK, Progress
<1>1. PICK s \in Shares, n \in 0 .. Span - 1 :
        /\ IsNext(c, s) /\ Step(c, s, n) \notin call[c].used
        /\ \A m \in 0 .. n - 1 : Step(c, s, m) \in call[c].used
        /\ call' = [call EXCEPT ![c].used = @ \cup {Step(c, s, n)},
                                ![c].placed = @ \cup {s}, ![c].out[s] = Step(c, s, n)]
  BY DEF Place
<1>2. hist' = hist /\ call[c].pc = "place" /\ UNCHANGED <<fsid, others>>
  BY DEF Place, exports
<1> DEFINE x == Step(c, s, n)
<1>3. x \notin call[c].used /\ s \notin call[c].placed
  BY <1>1 DEF IsNext
<1>4. call' = [call EXCEPT ![c].used = @ \cup {x}, ![c].placed = @ \cup {s}, ![c].out[s] = x]
  BY <1>1
<1> HIDE DEF x
<1>5. /\ call'[c].pc = call[c].pc /\ call'[c].key = call[c].key
      /\ call'[c].current = call[c].current
      /\ call'[c].used = call[c].used \cup {x}
      /\ call'[c].placed = call[c].placed \cup {s}
      /\ call'[c].out = [call[c].out EXCEPT ![s] = x]
      /\ \A d \in Calls \ {c} : call'[d] = call[d]
  BY <1>0, <1>4 DEF Records
<1>6. call'[c].out[s] = x /\ \A t \in call[c].placed : call'[c].out[t] = call[c].out[t]
  BY <1>0, <1>3, <1>5 DEF Records
<1>7. Frame /\ Quiet /\ \A d \in Calls \ {c} : Settled(d)
  BY <1>2, <1>5 DEF Frame, Quiet, Settled
<1>8. QED
  BY <1>1, <1>2, <1>5, <1>6, <1>7 DEF x

LEMMA ReportDoes ==
    ASSUME TypeOK, NEW c \in Calls, Report(c)
    PROVE  /\ Frame /\ Quiet /\ hist' = hist /\ call[c].pc = "place" /\ call'[c].pc = "done"
           /\ \A d \in Calls \ {c} : Settled(d)
           /\ call'[c].key = call[c].key /\ call'[c].current = call[c].current
           /\ call'[c].used = call[c].used /\ call'[c].placed = call[c].placed
           /\ call'[c].out = call[c].out /\ call[c].placed = Shares
<1>0. call \in [Calls -> Progress] /\ \A e \in Calls : call[e] \in Records
  BY DEF TypeOK, Progress
<1>1. /\ call' = [call EXCEPT ![c].pc = "done"] /\ call[c].pc = "place" /\ hist' = hist
      /\ UNCHANGED <<fsid, others>> /\ call[c].placed = Shares
  BY DEF Report, exports
<1>2. /\ call'[c].pc = "done" /\ call'[c].key = call[c].key /\ call'[c].current = call[c].current
      /\ call'[c].used = call[c].used /\ call'[c].placed = call[c].placed
      /\ call'[c].out = call[c].out /\ \A d \in Calls \ {c} : call'[d] = call[d]
  BY <1>0, <1>1 DEF Records
<1>3. QED
  BY <1>1, <1>2 DEF Frame, Quiet, Settled

LEMMA ApplyDoes ==
    ASSUME TypeOK, NEW c \in Calls, NEW s \in Shares, Apply(c, s)
    PROVE  /\ Frame /\ call' = call /\ hist'.others = hist.others /\ call[c].pc = "done"
           /\ hist'.applied = hist.applied \cup {call[c].key}
           /\ fsid'[s] = call[c].out[s] /\ \A t \in Shares \ {s} : fsid'[t] = fsid[t]
BY DEF Apply, Frame, TypeOK, Histories

LEMMA OthersDo ==
    ASSUME TypeOK, Restart \/ Rotate \/ UNCHANGED vars
    PROVE  Frame /\ Quiet /\ \A d \in Calls : Plans(d)' => Settled(d)
<1>0. call \in [Calls -> Progress] /\ hist \in Histories /\ \A e \in Calls : call[e] \in Records
  BY DEF TypeOK, Progress
<1>1. CASE Restart
  BY <1>0, <1>1 DEF Restart, Frame, Quiet, Settled, Plans, exports, Records
<1>2. CASE Rotate
  BY <1>0, <1>2 DEF Rotate, Frame, Quiet, Settled, exports, Histories
<1>3. CASE UNCHANGED vars
  BY <1>3 DEF vars, exports, Frame, Quiet, Settled
<1>4. QED
  BY <1>1, <1>2, <1>3

(* What a call knew of a plan it still knows, while its record stays.       *)
LEMMA PlannedStays ==
    ASSUME Frame, NEW key, NEW s, NEW f, PlannedBy(key, s, f)
    PROVE  \E e \in Calls : call'[e].pc = "done" /\ call'[e].key = key /\ call'[e].out[s] = f
BY DEF Frame, PlannedBy

LEMMA SameHashes ==
    ASSUME Frame, NEW c \in Calls, call'[c].key = call[c].key
    PROVE  /\ \A s : HashedFsid(c, s)' = HashedFsid(c, s)
           /\ \A s, n : Step(c, s, n)' = Step(c, s, n)
           /\ Home(c)' = Home(c)
           /\ Only(call[c].key)' => Only(call[c].key)
           /\ Origin(c) /\ call'[c].current = call[c].current => Origin(c)'
           /\ call'[c].current = call[c].current =>
                Fixed(c, call[c].current)' = Fixed(c, call[c].current)
<1>1. KeyOf(c)' = KeyOf(c)
  BY DEF KeyOf
<1>2. \A s : Hashed(c, s)' = Hashed(c, s)
  BY <1>1 DEF Hashed
<1>3. /\ \A s : HashedFsid(c, s)' = HashedFsid(c, s)
      /\ \A s, n : Step(c, s, n)' = Step(c, s, n)
  BY <1>2 DEF HashedFsid, Step
<1>4. Home(c)' = Home(c)
  BY <1>3 DEF Frame, Home
<1>5. Only(call[c].key)' => Only(call[c].key)
  BY DEF Only, Frame
<1>6. ASSUME Origin(c), call'[c].current = call[c].current PROVE Origin(c)'
  <2> SUFFICES ASSUME NEW s \in Shares
               PROVE  \/ call'[c].current[s] = hist'.first[s]
                      \/ \E e \in Calls : /\ call'[e].pc = "done" /\ call'[e].key = call'[c].key
                                          /\ call'[e].out[s] = call'[c].current[s]
    BY DEF Origin, PlannedBy
  <2>1. CASE call[c].current[s] = hist.first[s]
    BY <1>6, <2>1 DEF Frame
  <2>2. CASE PlannedBy(call[c].key, s, call[c].current[s])
    BY <1>6, <2>2, PlannedStays
  <2>3. QED
    BY <1>6, <2>1, <2>2 DEF Origin
<1>7. call'[c].current = call[c].current =>
                Fixed(c, call[c].current)' = Fixed(c, call[c].current)
  BY <1>3 DEF Fixed
<1>8. QED
  BY <1>3, <1>4, <1>5, <1>6, <1>7

(* A call whose record stays is as sound as it was.                         *)
LEMMA SettledStays ==
    ASSUME StableInv, Frame, NEW d \in Calls, Settled(d), Plans(d)
    PROVE  Exact(d)' /\ (Lone(d)' => Sound(d)')
<1>1. Exact(d) /\ (Lone(d) => Sound(d))
  BY DEF StableInv, AllSound
<1>2. /\ \A s : HashedFsid(d, s)' = HashedFsid(d, s)
      /\ \A s, n : Step(d, s, n)' = Step(d, s, n)
      /\ Home(d)' = Home(d)
      /\ Fixed(d, call[d].current)' = Fixed(d, call[d].current)
      /\ Lone(d)' => Lone(d) /\ (Origin(d) => Origin(d)')
  BY SameHashes DEF Settled, Lone, Plans
<1>3. Exact(d)'
  BY <1>1, <1>2 DEF Exact, Settled, Frame
<1>4. ASSUME Lone(d)' PROVE Sound(d)'
  <2>1. Sound(d) /\ Origin(d)'
    BY <1>1, <1>2, <1>4 DEF Sound
  <2>2. HomeStays(d)' /\ Distinct(d)'
    BY <1>2, <2>1 DEF Sound, HomeStays, Distinct, Settled, Frame
  <2>3. \A s : Passed(d, s)' = Passed(d, s)
    BY <1>2 DEF Passed, Before, Settled, Frame
  <2>4. Nearest(d)'
    BY <1>2, <2>1, <2>3 DEF Sound, Nearest, Settled
  <2>5. QED
    BY <2>1, <2>2, <2>4 DEF Sound
<1>5. QED
  BY <1>3, <1>4

LEMMA FsidsOriginInductive ==
    ASSUME StableInv, Frame, Quiet \/ \E c \in Calls : \E s \in Shares : Apply(c, s)
    PROVE  FsidsOrigin'
<1> SUFFICES ASSUME NEW t \in Shares, fsid'[t] # hist'.first[t]
             PROVE  \E k \in hist'.applied : \E e \in Calls :
                      call'[e].pc = "done" /\ call'[e].key = k /\ call'[e].out[t] = fsid'[t]
  BY DEF FsidsOrigin, PlannedBy
<1>1. CASE fsid'[t] = fsid[t]
  <2>1. PICK k \in hist.applied : PlannedBy(k, t, fsid[t])
    BY <1>1 DEF StableInv, FsidsOrigin, Frame
  <2>2. QED
    BY <1>1, <2>1, PlannedStays DEF Frame
<1>2. CASE fsid'[t] # fsid[t]
  <2>1. PICK c \in Calls, s \in Shares : Apply(c, s)
    BY <1>2 DEF Quiet
  <2>2. /\ t = s /\ fsid'[t] = call[c].out[t] /\ call[c].pc = "done" /\ call' = call
        /\ call[c].key \in hist'.applied
    BY <1>2, <2>1, ApplyDoes DEF StableInv, PlanInv
  <2>3. QED
    BY <2>2
<1>3. QED
  BY <1>1, <1>2

(* A call that reads the exports starts where every other plan of its key   *)
(* starts or ends.                                                          *)
LEMMA ReadIsSound ==
    ASSUME StableInv, NEW c \in Calls, ReadExports(c), Plans(c)'
    PROVE  /\ Exact(c)' /\ (Lone(c)' => Sound(c)')
           /\ \A d \in Calls \ {c} : Alike(c, d)' /\ Lone(c)' =>
                \A s \in call'[c].placed \cap call'[d].placed : call'[c].out[s] = call'[d].out[s]
<1>0. TypeOK /\ PlannedSoFar(c)'
  BY PlanInductive DEF StableInv, PlanInv, Next
<1>1. /\ Frame /\ Quiet /\ call[c].pc = "read"
      /\ \A d \in Calls \ {c} : Settled(d)
      /\ call'[c].pc = "place" /\ call'[c].key = call[c].key
      /\ call'[c].current = fsid /\ call'[c].placed = Fixed(c, fsid)
      /\ call'[c].used = others \cup {fsid[s] : s \in Fixed(c, fsid)}
      /\ \A s \in Fixed(c, fsid) : call'[c].out[s] = fsid[s]
      /\ hist'.others[c] = others
  BY <1>0, ReadExportsDoes
<1>2. /\ \A s : HashedFsid(c, s)' = HashedFsid(c, s)
      /\ \A s, n : Step(c, s, n)' = Step(c, s, n)
      /\ Home(c)' = Home(c)
      /\ Only(call[c].key)' => Only(call[c].key)
  BY <1>1, SameHashes
<1>3. Fixed(c, call[c].current)' = Fixed(c, fsid) /\ call[c].key # Absent
  BY <1>0, <1>1, <1>2 DEF Fixed, TypeOK, Progress, KeyPcs
<1>4. Exact(c)'
  <2>1. call'[c].used = others \cup {call'[c].out[s] : s \in call'[c].placed}
    BY <1>1
  <2>2. QED
    BY <1>1, <1>3, <2>1 DEF Exact, Frame
<1>5. ASSUME Only(call[c].key), NEW s \in Shares
      PROVE  fsid[s] = hist.first[s] \/ PlannedBy(call[c].key, s, fsid[s])
  BY <1>5 DEF StableInv, FsidsOrigin, Only
<1>6. ASSUME Only(call[c].key), NEW e \in Calls, call[e].pc = "done", call[e].key = call[c].key,
             NEW t \in Fixed(c, fsid)
      PROVE  call[e].out[t] = fsid[t]
  <2>1. t \in Shares /\ fsid[t] = HashedFsid(c, t)
    BY DEF Fixed
  <2>2. QED
    BY <1>5, <1>6, <2>1, FixedIsPlanned
<1>7. ASSUME Lone(c)' PROVE Sound(c)'
  <2>0. Only(call[c].key)
    BY <1>1, <1>2, <1>7 DEF Lone, Only
  <2>1. Origin(c)'
    <3> SUFFICES ASSUME NEW s \in Shares, fsid[s] # hist.first[s]
                 PROVE  \E e \in Calls : /\ call'[e].pc = "done" /\ call'[e].key = call[c].key
                                         /\ call'[e].out[s] = fsid[s]
      BY <1>1 DEF Origin, PlannedBy, Frame
    <3>1. QED
      BY <1>1, <1>5, <2>0, PlannedStays
  <2>2. Home(c) \subseteq Fixed(c, fsid)
    <3> SUFFICES ASSUME NEW s \in Home(c) PROVE fsid[s] = HashedFsid(c, s)
      BY DEF Fixed, Home
    <3>0. s \in Shares /\ hist.first[s] = HashedFsid(c, s)
      BY DEF Home
    <3>1. CASE PlannedBy(call[c].key, s, fsid[s])
      <4>1. PICK e \in Calls : call[e].pc = "done" /\ call[e].key = call[c].key /\ call[e].out[s] = fsid[s]
        BY <3>1 DEF PlannedBy
      <4>2. Lone(e) /\ s \in Home(e)
        BY <2>0, <4>1, DoneHasAll, HashAlike DEF Lone
      <4>3. QED
        BY <4>1, <4>2, HomeOut, HashAlike
    <3>2. QED
      BY <1>5, <2>0, <3>0, <3>1
  <2>3. HomeStays(c)'
    BY <1>2, <1>3, <2>2 DEF HomeStays
  <2>4. Distinct(c)'
    <3> SUFFICES ASSUME NEW s \in Fixed(c, fsid) \ Home(c)
                 PROVE  /\ fsid[s] \notin others
                        /\ \A t \in Fixed(c, fsid) \ {s} : fsid[s] # fsid[t]
      BY <1>1, <1>2 DEF Distinct, Frame
    <3>1. s \in Shares /\ fsid[s] = HashedFsid(c, s) /\ fsid[s] # hist.first[s]
      BY DEF Fixed, Home
    <3>2. PICK e \in Calls : call[e].pc = "done" /\ call[e].key = call[c].key
      BY <1>5, <2>0, <3>1 DEF PlannedBy
    <3>3. Lone(e) /\ call[e].placed = Shares /\ s \notin Home(e)
      BY <2>0, <3>2, DoneHasAll, HashAlike DEF Lone
    <3>4. Distinct(e)
      BY <3>3 DEF StableInv, AllSound, Sound
    <3>5. \A t \in Fixed(c, fsid) : t \in Shares /\ call[e].out[t] = fsid[t]
      BY <1>6, <2>0, <3>2 DEF Fixed
    <3>6. QED
      BY <3>1, <3>3, <3>4, <3>5 DEF Distinct
  <2>5. Nearest(c)'
    <3> SUFFICES ASSUME NEW s \in Fixed(c, fsid)
                 PROVE  \E n \in 0 .. Span - 1 :
                          /\ call'[c].out[s] = Step(c, s, n)
                          /\ \A m \in 0 .. n - 1 : Step(c, s, m)' \in Passed(c, s)'
      BY <1>1, <1>2 DEF Nearest
    <3>1. s \in Shares /\ fsid[s] = HashedFsid(c, s)
      BY DEF Fixed
    <3>2. 0 \in 0 .. Span - 1 /\ Step(c, s, 0) = fsid[s]
      BY <1>0, <1>3, <3>1, StepNone
    <3>3. 0 .. 0 - 1 = {}
      OBVIOUS
    <3>4. QED
      BY <1>1, <3>2, <3>3
  <2>6. QED
    BY <2>1, <2>3, <2>4, <2>5 DEF Sound
<1>8. ASSUME NEW d \in Calls \ {c}, Alike(c, d)', Lone(c)', NEW s \in Fixed(c, fsid) \cap call[d].placed
      PROVE  fsid[s] = call[d].out[s]
  <2>0. /\ Only(call[c].key) /\ call'[d] = call[d] /\ Plans(d) /\ call[d].key = call[c].key
        /\ Lone(d) /\ s \in Shares /\ fsid[s] = HashedFsid(c, s)
    BY <1>1, <1>2, <1>8 DEF Lone, Only, Alike, Settled, Plans, Fixed
  <2>1. CASE fsid[s] = hist.first[s]
    <3>1. s \in Home(d)
      BY <2>0, <2>1, HashAlike DEF Home
    <3>2. QED
      BY <2>0, <3>1, HomeOut, HashAlike
  <2>2. CASE PlannedBy(call[c].key, s, fsid[s])
    <3>1. PICK e \in Calls : call[e].pc = "done" /\ call[e].key = call[c].key /\ call[e].out[s] = fsid[s]
      BY <2>2 DEF PlannedBy
    <3>2. Alike(d, e) /\ call[e].placed = Shares
      BY <2>0, <3>1, DoneHasAll DEF Alike
    <3>3. QED
      BY <2>0, <3>1, <3>2 DEF StableInv, Agreed
  <2>3. QED
    BY <1>5, <2>0, <2>1, <2>2
<1>9. ASSUME NEW d \in Calls \ {c}, Alike(c, d)', Lone(c)',
             NEW s \in call'[c].placed \cap call'[d].placed
      PROVE  call'[c].out[s] = call'[d].out[s]
  <2>1. call'[d] = call[d] /\ s \in Fixed(c, fsid) \cap call[d].placed
    BY <1>1 DEF Settled
  <2>2. QED
    BY <1>1, <1>8, <1>9, <2>1
<1>10. QED
  BY <1>4, <1>7, <1>9

(* A share is placed where every other plan of the key puts it.             *)
LEMMA PlaceIsSound ==
    ASSUME StableInv, NEW c \in Calls, Place(c)
    PROVE  /\ Exact(c)' /\ (Lone(c)' => Sound(c)')
           /\ \A d \in Calls \ {c} : Alike(c, d)' /\ Lone(c)' =>
                \A u \in call'[c].placed \cap call'[d].placed : call'[c].out[u] = call'[d].out[u]
<1>0. TypeOK
  BY DEF StableInv, PlanInv
<1>1. /\ Frame /\ hist' = hist /\ call[c].pc = "place" /\ call'[c].pc = "place"
      /\ \A d \in Calls \ {c} : Settled(d)
      /\ call'[c].key = call[c].key /\ call'[c].current = call[c].current
  BY <1>0, PlaceDoes
<1>2. PICK s \in Shares, n \in 0 .. Span - 1 :
        /\ IsNext(c, s) /\ Step(c, s, n) \notin call[c].used
        /\ \A m \in 0 .. n - 1 : Step(c, s, m) \in call[c].used
        /\ call'[c].used = call[c].used \cup {Step(c, s, n)}
        /\ call'[c].placed = call[c].placed \cup {s}
        /\ call'[c].out[s] = Step(c, s, n)
        /\ \A t \in call[c].placed : call'[c].out[t] = call[c].out[t]
  BY <1>0, PlaceDoes
<1>3. /\ \A t, m : Step(c, t, m)' = Step(c, t, m)
      /\ Home(c)' = Home(c) /\ (Only(call[c].key)' => Only(call[c].key))
      /\ (Origin(c) => Origin(c)')
      /\ Fixed(c, call[c].current)' = Fixed(c, call[c].current)
  BY <1>1, SameHashes
<1>4. Plans(c) /\ Exact(c) /\ s \notin call[c].placed /\ call[c].placed \subseteq Shares
  BY <1>0, <1>1, <1>2 DEF Plans, StableInv, AllSound, IsNext, TypeOK, Progress, Records
<1>5. \A t \in Shares \ call'[c].placed : Name[s] < Name[t]
  <2> SUFFICES ASSUME NEW t \in Shares, t \notin call[c].placed, t # s PROVE Name[s] < Name[t]
    BY <1>2
  <2>1. Name[s] <= Name[t] /\ Name[s] # Name[t] /\ Name[s] \in Nat /\ Name[t] \in Nat
    BY <1>2, ConstantsAssumption DEF IsNext
  <2>2. QED
    BY <2>1
<1>6. \A t \in call[c].placed : call[c].out[t] \in call[c].used
  BY <1>4 DEF Exact
<1>7. Exact(c)'
  <2>1. call'[c].used = others \cup {call'[c].out[t] : t \in call'[c].placed}
    BY <1>2, <1>4 DEF Exact
  <2>2. \A t \in Fixed(c, call[c].current) :
          t \in call'[c].placed /\ call'[c].out[t] = call[c].current[t]
    BY <1>2, <1>4 DEF Exact
  <2>3. \A t \in call'[c].placed \ Fixed(c, call[c].current) :
          \A u \in Shares \ call'[c].placed : Name[t] < Name[u]
    BY <1>2, <1>4, <1>5 DEF Exact
  <2>4. hist'.others[c] = others' /\ others' = others
    BY <1>1, <1>4 DEF Exact, Frame
  <2>5. QED
    BY <1>1, <1>3, <2>1, <2>2, <2>3, <2>4 DEF Exact
<1>8. ASSUME Lone(c)' PROVE Sound(c)'
  <2>1. Lone(c) /\ Sound(c)
    BY <1>1, <1>3, <1>4, <1>8 DEF Lone, Only, StableInv, AllSound
  <2>2. Origin(c)' /\ HomeStays(c)'
    BY <1>1, <1>3, <2>1 DEF Sound, HomeStays
  <2>3. Distinct(c)'
    <3> SUFFICES ASSUME NEW u \in call'[c].placed, u \notin Home(c)
                 PROVE  /\ call'[c].out[u] \notin others
                        /\ \A t \in call'[c].placed \ {u} : call'[c].out[u] # call'[c].out[t]
      BY <1>1, <1>3 DEF Distinct, Frame
    <3>1. CASE u = s
      BY <1>2, <1>4, <1>6, <3>1 DEF Exact
    <3>2. CASE u # s
      <4>1. u \in call[c].placed /\ Distinct(c)
        BY <1>2, <2>1, <3>2 DEF Sound
      <4>2. call'[c].out[u] \notin others
        BY <1>2, <4>1 DEF Distinct
      <4>3. ASSUME NEW t \in call'[c].placed \ {u} PROVE call'[c].out[u] # call'[c].out[t]
        <5>1. CASE t = s
          BY <1>2, <1>6, <4>1, <5>1
        <5>2. CASE t # s
          BY <1>2, <4>1, <4>3, <5>2 DEF Distinct
        <5>3. QED
          BY <5>1, <5>2
      <4>4. QED
        BY <4>2, <4>3
    <3>3. QED
      BY <3>1, <3>2
  <2>4. \A u : Passed(c, u) \subseteq Passed(c, u)'
    <3> SUFFICES ASSUME NEW u, NEW t \in Before(c, u)
                 PROVE  t \in Before(c, u)' /\ call'[c].out[t] = call[c].out[t]
      BY <1>1 DEF Passed, Frame
    <3>1. QED
      BY <1>2, <1>3 DEF Before
  <2>5. \A m \in 0 .. n - 1 : Step(c, s, m) \in Passed(c, s)
    BY <1>2, <2>1, NextIsNearest
  <2>6. Nearest(c)'
    <3> SUFFICES ASSUME NEW u \in call'[c].placed
                 PROVE  \E k \in 0 .. Span - 1 :
                          /\ call'[c].out[u] = Step(c, u, k)
                          /\ \A m \in 0 .. k - 1 : Step(c, u, m) \in Passed(c, u)'
      BY <1>3 DEF Nearest
    <3>1. CASE u = s
      BY <1>2, <2>4, <2>5, <3>1
    <3>2. CASE u # s
      <4>1. u \in call[c].placed /\ call'[c].out[u] = call[c].out[u]
        BY <1>2, <3>2
      <4>2. PICK k \in 0 .. Span - 1 :
              call[c].out[u] = Step(c, u, k) /\ \A m \in 0 .. k - 1 : Step(c, u, m) \in Passed(c, u)
        BY <2>1, <4>1 DEF Sound, Nearest
      <4>3. QED
        BY <2>4, <4>1, <4>2
    <3>3. QED
      BY <3>1, <3>2
  <2>7. QED
    BY <2>2, <2>3, <2>6 DEF Sound
<1>9. ASSUME NEW d \in Calls \ {c}, Alike(c, d)', Lone(c)',
             NEW u \in call'[c].placed \cap call'[d].placed
      PROVE  call'[c].out[u] = call'[d].out[u]
  <2>1. call'[d] = call[d] /\ Alike(c, d) /\ Lone(c)
    BY <1>1, <1>3, <1>4, <1>9 DEF Settled, Alike, Lone, Only, Plans
  <2>2. CASE u = s
    <3>1. s \in call[d].placed
      BY <1>9, <2>1, <2>2
    <3>2. call[d].out[s] = Step(c, s, n)
      BY <1>2, <2>1, <3>1, NextAsInAny
    <3>3. QED
      BY <1>2, <2>1, <2>2, <3>2
  <2>3. CASE u # s
    <3>1. u \in call[c].placed \cap call[d].placed /\ call'[c].out[u] = call[c].out[u]
      BY <1>2, <1>9, <2>1, <2>3
    <3>2. QED
      BY <2>1, <3>1 DEF StableInv, Agreed
  <2>4. QED
    BY <2>2, <2>3
<1>10. QED
  BY <1>7, <1>8, <1>9

(* A finished plan is the one that was made.                                *)
LEMMA ReportIsSound ==
    ASSUME StableInv, NEW c \in Calls, Report(c)
    PROVE  /\ Exact(c)' /\ (Lone(c)' => Sound(c)')
           /\ \A d \in Calls \ {c} : Alike(c, d)' /\ Lone(c)' =>
                \A u \in call'[c].placed \cap call'[d].placed : call'[c].out[u] = call'[d].out[u]
<1>1. /\ Frame /\ hist' = hist /\ call[c].pc = "place"
      /\ \A d \in Calls \ {c} : Settled(d)
      /\ call'[c].key = call[c].key /\ call'[c].current = call[c].current
      /\ call'[c].used = call[c].used /\ call'[c].placed = call[c].placed
      /\ call'[c].out = call[c].out
  BY ReportDoes DEF StableInv, PlanInv
<1>2. /\ \A t, m : Step(c, t, m)' = Step(c, t, m)
      /\ Home(c)' = Home(c) /\ (Only(call[c].key)' => Only(call[c].key))
      /\ (Origin(c) => Origin(c)')
      /\ Fixed(c, call[c].current)' = Fixed(c, call[c].current)
  BY <1>1, SameHashes
<1>3. Plans(c) /\ Exact(c)
  BY <1>1 DEF Plans, StableInv, AllSound
<1>4. Exact(c)'
  BY <1>1, <1>2, <1>3 DEF Exact, Frame
<1>5. ASSUME Lone(c)' PROVE Sound(c)'
  <2>1. Sound(c)
    BY <1>1, <1>2, <1>3, <1>5 DEF Lone, Only, StableInv, AllSound
  <2>2. \A u : Passed(c, u)' = Passed(c, u)
    BY <1>1, <1>2 DEF Passed, Before, Frame
  <2>3. Nearest(c)'
    BY <1>1, <1>2, <2>1, <2>2 DEF Sound, Nearest
  <2>4. QED
    BY <1>1, <1>2, <2>1, <2>3 DEF Sound, HomeStays, Distinct, Frame
<1>6. ASSUME NEW d \in Calls \ {c}, Alike(c, d)', Lone(c)',
             NEW u \in call'[c].placed \cap call'[d].placed
      PROVE  call'[c].out[u] = call'[d].out[u]
  <2>1. call'[d] = call[d] /\ Alike(c, d) /\ Lone(c)
    BY <1>1, <1>2, <1>3, <1>6 DEF Settled, Alike, Lone, Only, Plans
  <2>2. QED
    BY <1>1, <1>6, <2>1 DEF StableInv, Agreed
<1>7. QED
  BY <1>4, <1>5, <1>6

(* Calls whose records stay agree as they did.                              *)
LEMMA SettledAgree ==
    ASSUME StableInv, Frame, NEW c \in Calls, NEW d \in Calls, Settled(c), Settled(d),
           Alike(c, d)', Lone(c)', NEW s \in call'[c].placed \cap call'[d].placed
    PROVE  call'[c].out[s] = call'[d].out[s]
<1>1. Alike(c, d) /\ Lone(c)
  BY DEF Settled, Alike, Lone, Plans, Only, Frame
<1>2. QED
  BY <1>1 DEF Settled, StableInv, Agreed

LEMMA NobodyMoves ==
    ASSUME StableInv, Frame, \A d \in Calls : Plans(d)' => Settled(d)
    PROVE  AllSound' /\ Agreed'
<1>1. \A c \in Calls : Plans(c)' => Plans(c)
  BY DEF Settled, Plans
<1>2. AllSound'
  BY <1>1, SettledStays DEF AllSound, Lone
<1>3. Agreed'
  BY SettledAgree DEF Agreed, Alike
<1>4. QED
  BY <1>2, <1>3

(* One call moves in a step: it fits all the others, and those are as they  *)
(* were.                                                                    *)
LEMMA OneMoves ==
    ASSUME StableInv, Frame, NEW m \in Calls,
           \A d \in Calls \ {m} : Plans(d)' => Settled(d),
           Plans(m)' =>
              /\ Exact(m)' /\ (Lone(m)' => Sound(m)')
              /\ \A d \in Calls \ {m} : Alike(m, d)' /\ Lone(m)' =>
                   \A s \in call'[m].placed \cap call'[d].placed :
                      call'[m].out[s] = call'[d].out[s]
    PROVE  AllSound' /\ Agreed'
<1>1. ASSUME NEW c \in Calls, Plans(c)' PROVE Exact(c)' /\ (Lone(c)' => Sound(c)')
  <2>1. CASE c = m
    BY <1>1, <2>1
  <2>2. CASE c # m
    <3>1. Settled(c) /\ Plans(c)
      BY <1>1, <2>2 DEF Settled, Plans
    <3>2. QED
      BY <3>1, SettledStays
  <2>3. QED
    BY <2>1, <2>2
<1>2. ASSUME NEW c \in Calls, NEW d \in Calls, Alike(c, d)', Lone(c)',
             NEW s \in call'[c].placed \cap call'[d].placed
      PROVE  call'[c].out[s] = call'[d].out[s]
  <2>0. Plans(c)' /\ Plans(d)' /\ Alike(d, c)' /\ Lone(d)'
    BY <1>2 DEF Alike, Lone
  <2>1. CASE c = d
    BY <2>1
  <2>2. CASE c # d /\ c = m
    BY <1>2, <2>0, <2>2
  <2>3. CASE c # d /\ d = m
    BY <1>2, <2>0, <2>3
  <2>4. CASE c # m /\ d # m
    BY <1>2, <2>0, <2>4, SettledAgree
  <2>5. QED
    BY <2>1, <2>2, <2>3, <2>4
<1>3. AllSound'
  BY <1>1 DEF AllSound, Lone
<1>4. Agreed'
  BY <1>2 DEF Agreed
<1>5. QED
  BY <1>3, <1>4

LEMMA StableInductive == StableInv /\ [Next]_vars => StableInv'
<1> SUFFICES ASSUME StableInv, [Next]_vars PROVE StableInv'
  OBVIOUS
<1>0. TypeOK /\ PlanInv'
  BY PlanInductive DEF StableInv, PlanInv
<1>1. Frame /\ (Quiet \/ \E c \in Calls : \E s \in Shares : Apply(c, s))
      /\ AllSound' /\ Agreed'
  <2>1. ASSUME NEW c \in Calls, Secret(c) PROVE Frame /\ Quiet /\ AllSound' /\ Agreed'
    <3>1. Frame /\ Quiet /\ \A d \in Calls : Plans(d)' => Settled(d)
      BY <1>0, <2>1, SecretFrame
    <3>2. QED
      BY <3>1, NobodyMoves
  <2>2. ASSUME NEW c \in Calls, ReadExports(c) PROVE Frame /\ Quiet /\ AllSound' /\ Agreed'
    <3>1. Frame /\ Quiet /\ \A d \in Calls \ {c} : Plans(d)' => Settled(d)
      BY <1>0, <2>2, ReadExportsDoes
    <3>2. Plans(c)' =>
            /\ Exact(c)' /\ (Lone(c)' => Sound(c)')
            /\ \A d \in Calls \ {c} : Alike(c, d)' /\ Lone(c)' =>
                 \A s \in call'[c].placed \cap call'[d].placed : call'[c].out[s] = call'[d].out[s]
      BY <2>2, ReadIsSound
    <3>3. QED
      BY <3>1, <3>2, OneMoves
  <2>3. ASSUME NEW c \in Calls, Place(c) PROVE Frame /\ Quiet /\ AllSound' /\ Agreed'
    <3>1. Frame /\ Quiet /\ \A d \in Calls \ {c} : Plans(d)' => Settled(d)
      BY <1>0, <2>3, PlaceDoes
    <3>2. QED
      BY <2>3, <3>1, PlaceIsSound, OneMoves
  <2>4. ASSUME NEW c \in Calls, Report(c) PROVE Frame /\ Quiet /\ AllSound' /\ Agreed'
    <3>1. Frame /\ Quiet /\ \A d \in Calls \ {c} : Plans(d)' => Settled(d)
      BY <1>0, <2>4, ReportDoes
    <3>2. QED
      BY <2>4, <3>1, ReportIsSound, OneMoves
  <2>5. ASSUME NEW c \in Calls, NEW s \in Shares, Apply(c, s) PROVE Frame /\ AllSound' /\ Agreed'
    <3>1. Frame /\ \A d \in Calls : Plans(d)' => Settled(d)
      BY <1>0, <2>5, ApplyDoes DEF Settled
    <3>2. QED
      BY <3>1, NobodyMoves
  <2>6. ASSUME Restart \/ Rotate \/ UNCHANGED vars PROVE Frame /\ Quiet /\ AllSound' /\ Agreed'
    <3>1. Frame /\ Quiet /\ \A d \in Calls : Plans(d)' => Settled(d)
      BY <1>0, <2>6, OthersDo
    <3>2. QED
      BY <3>1, NobodyMoves
  <2>7. QED
    BY <2>1, <2>2, <2>3, <2>4, <2>5, <2>6 DEF Next
<1>2. FsidsOrigin'
  BY <1>1, FsidsOriginInductive
<1>3. QED
  BY <1>0, <1>1, <1>2 DEF StableInv

(* The plans that two calls with the same key report are the same one, also *)
(* when one of them read the exports while the other's was being applied;   *)
(* only who applies a plan made with another key may change what is planned.*)
THEOREM AppliedPlansStay == Spec => []PlanStable
<1>1. Init => StableInv
  <2> SUFFICES ASSUME Init PROVE StableInv
    OBVIOUS
  <2>1. \A c \in Calls : call[c].pc = "idle"
    BY DEF Init, NoCall
  <2>2. PlanInv
    BY <2>1, InitType DEF PlanInv, PlannedSoFar
  <2>3. FsidsOrigin
    BY DEF Init, FsidsOrigin
  <2>4. QED
    BY <2>1, <2>2, <2>3 DEF StableInv, AllSound, Agreed, Alike, Lone, Plans
<1>2. ASSUME StableInv PROVE PlanStable
  <2> SUFFICES ASSUME NEW c \in Calls, NEW d \in Calls,
                      call[c].pc = "done", call[d].pc = "done",
                      call[c].key = call[d].key, Only(call[c].key)
               PROVE  call[c].out = call[d].out
    BY DEF PlanStable
  <2>1. /\ Plans(c) /\ Plans(d) /\ call[c].placed = Shares /\ call[d].placed = Shares
        /\ Alike(c, d) /\ Lone(c)
    BY <1>2, DoneHasAll DEF Alike, Lone
  <2>2. \A s \in Shares : call[c].out[s] = call[d].out[s]
    BY <1>2, <2>1 DEF StableInv, Agreed
  <2>3. call[c].out \in [Shares -> Numbers] /\ call[d].out \in [Shares -> Numbers]
    BY <1>2 DEF StableInv, PlanInv, TypeOK, Progress, Records
  <2>4. QED
    BY <2>2, <2>3
<1>3. QED
  BY <1>1, <1>2, StableInductive, PTL DEF Spec

-----------------------------------------------------------------------------
(* A step that touches neither the secret nor what calls know of it.        *)
LEMMA KeyKept ==
    ASSUME KeyInv, UNCHANGED <<store, cache, lock, epoch>>, TypeOK',
           hist'.rotated = hist.rotated,
           \A c \in Calls : /\ call'[c].key = call[c].key /\ call'[c].epoch = call[c].epoch
                            /\ HasKey(c)' => HasKey(c)
                            /\ Seeking(c)' => call'[c].pc = call[c].pc
    PROVE  KeyInv'
BY DEF KeyInv, KeyStable, OneSeeks, EpochsPast, KeyIsCached, KeyIsStored, StillUnset,
       HasKey, Seeking

(* The same of a call that fails and gives the mutex back, whatever of its  *)
(* own secret the store has by then.                                        *)
LEMMA KeyFailed ==
    ASSUME KeyInv, NEW c \in Calls, Seeking(c), Fail(c), UNCHANGED <<cache, epoch>>, TypeOK',
           hist'.rotated = hist.rotated,
           store' # store => call[c].pc = "set"
    PROVE  KeyInv'
<1>1. /\ call \in [Calls -> Progress] /\ \A d \in Calls : call[d] \in Records
      /\ \A d \in Calls : HasKey(d) => call[d].key # Absent
  BY DEF KeyInv, TypeOK, Progress, HasKey, KeyPcs
<1>2. /\ call'[c].pc = "failed" /\ call'[c].key = call[c].key
      /\ call'[c].epoch = call[c].epoch
      /\ \A d \in Calls \ {c} : call'[d] = call[d]
  BY <1>1 DEF Fail, Records
<1>3. lock = {c} /\ cache = Absent /\ \A d \in Calls \ {c} : ~Seeking(d)
  BY DEF KeyInv, OneSeeks
<1>4. /\ ~HasKey(c)' /\ ~Seeking(c)'
      /\ \A d \in Calls \ {c} : (HasKey(d)' <=> HasKey(d)) /\ (Seeking(d)' <=> Seeking(d))
  BY <1>2 DEF HasKey, Seeking
<1>5. KeyStable' /\ OneSeeks' /\ EpochsPast' /\ KeyIsCached'
  BY <1>2, <1>3, <1>4 DEF KeyInv, KeyStable, OneSeeks, EpochsPast, KeyIsCached
<1>6. KeyIsStored'
  <2>1. CASE store' = store
    BY <1>2, <1>4, <2>1 DEF KeyInv, KeyIsStored
  <2>2. CASE store' # store /\ ~hist.rotated
    <3>1. store = Absent
      BY <2>2 DEF KeyInv, StillUnset
    <3>2. \A d \in Calls : ~HasKey(d)
      BY <1>1, <2>2, <3>1 DEF KeyInv, KeyIsStored
    <3>3. QED
      BY <1>3, <1>4, <3>2 DEF KeyIsStored
  <2>3. QED
    BY <2>1, <2>2 DEF KeyIsStored
<1>7. StillUnset'
  BY <1>3, <1>4 DEF StillUnset, Seeking
<1>8. QED
  BY <1>5, <1>6, <1>7 DEF KeyInv

(* And of one that takes over what is stored.                               *)
LEMMA KeyRemembered ==
    ASSUME KeyInv, NEW c \in Calls, Seeking(c), Found, Remember(c, store),
           UNCHANGED <<store, epoch, hist>>, TypeOK'
    PROVE  KeyInv'
<1>1. /\ call \in [Calls -> Progress] /\ \A d \in Calls : call[d] \in Records
      /\ \A d \in Calls : HasKey(d) => call[d].key # Absent
  BY DEF KeyInv, TypeOK, Progress, HasKey, KeyPcs
<1>2. /\ call'[c].pc = "read" /\ call'[c].key = store
      /\ call'[c].epoch = call[c].epoch
      /\ \A d \in Calls \ {c} : call'[d] = call[d]
      /\ cache' = store
  BY <1>1 DEF Remember, Records
<1>3. /\ lock = {c} /\ cache = Absent /\ call[c].epoch = epoch
      /\ \A d \in Calls \ {c} : ~Seeking(d)
  BY DEF KeyInv, OneSeeks
<1>4. /\ HasKey(c)' /\ ~Seeking(c)'
      /\ \A d \in Calls \ {c} : (HasKey(d)' <=> HasKey(d)) /\ (Seeking(d)' <=> Seeking(d))
  BY <1>2 DEF HasKey, Seeking
<1>5. \A d \in Calls : HasKey(d) => call[d].epoch # epoch
  BY <1>1, <1>3 DEF KeyInv, KeyIsCached
<1>6. \A d \in Calls : ~hist.rotated /\ HasKey(d) => call[d].key = store
  BY DEF KeyInv, KeyIsStored
<1>7. KeyStable'
  BY <1>2, <1>3, <1>4, <1>5, <1>6 DEF KeyInv, KeyStable
<1>8. OneSeeks' /\ EpochsPast' /\ KeyIsCached'
  BY <1>2, <1>3, <1>4, <1>5 DEF KeyInv, OneSeeks, EpochsPast, KeyIsCached
<1>9. KeyIsStored' /\ StillUnset'
  BY <1>2, <1>3, <1>4, <1>6 DEF KeyIsStored, StillUnset, Seeking
<1>10. QED
  BY <1>7, <1>8, <1>9 DEF KeyInv

(* No step makes two calls disagree on the secret.                          *)
LEMMA KeyInductive == KeyInv /\ [Next]_vars => KeyInv'
<1> SUFFICES ASSUME KeyInv, [Next]_vars PROVE KeyInv'
  OBVIOUS
<1>0. /\ TypeOK /\ TypeOK'
      /\ call \in [Calls -> Progress] /\ \A c \in Calls : call[c] \in Records
      /\ hist \in Histories
  BY TypeInductive DEF KeyInv, TypeOK, Progress
<1>1. CASE UNCHANGED vars
  BY <1>0, <1>1, KeyKept DEF vars, secret, HasKey, Seeking
<1>2. ASSUME NEW c \in Calls, Enter(c) PROVE KeyInv'
  <2>1. /\ UNCHANGED <<store, cache, epoch, hist>> /\ lock = {}
        /\ call[c].pc = "idle" /\ \A d \in Calls \ {c} : call'[d] = call[d]
        /\ call'[c].epoch = epoch
    BY <1>0, <1>2 DEF Enter, MutexFree, Records
  <2>2. \A d \in Calls : ~Seeking(d)
    BY <2>1 DEF KeyInv, OneSeeks
  <2>3. \A d \in Calls \ {c} : (HasKey(d)' <=> HasKey(d)) /\ ~Seeking(d)'
    BY <2>1, <2>2 DEF HasKey, Seeking
  <2>4. CASE cache # Absent
    <3>1. call'[c].pc = "read" /\ call'[c].key = cache /\ UNCHANGED lock
      BY <1>0, <1>2, <2>4 DEF Enter, Records
    <3>2. HasKey(c)' /\ ~Seeking(c)'
      BY <3>1 DEF HasKey, Seeking
    <3>3. KeyStable'
      BY <2>1, <2>3, <2>4, <3>1, <3>2 DEF KeyInv, KeyStable, KeyIsCached, KeyIsStored
    <3>4. OneSeeks' /\ StillUnset'
      BY <2>3, <3>2 DEF OneSeeks, StillUnset, Seeking
    <3>5. EpochsPast' /\ KeyIsCached' /\ KeyIsStored'
      BY <1>0, <2>1, <2>3, <2>4, <3>1, <3>2
         DEF KeyInv, EpochsPast, KeyIsCached, KeyIsStored, TypeOK
    <3>6. QED
      BY <1>0, <3>3, <3>4, <3>5 DEF KeyInv
  <2>5. CASE cache = Absent
    <3>1. call'[c].pc = "stored" /\ lock' = {c}
      BY <1>0, <1>2, <2>1, <2>5 DEF Enter, Records
    <3>2. ~HasKey(c)'
      BY <3>1 DEF HasKey
    <3>3. KeyStable' /\ KeyIsCached' /\ KeyIsStored'
      BY <2>1, <2>3, <3>2 DEF KeyInv, KeyStable, KeyIsCached, KeyIsStored
    <3>4. OneSeeks' /\ StillUnset' /\ EpochsPast'
      BY <1>0, <2>1, <2>3, <2>5, <3>1
         DEF KeyInv, OneSeeks, StillUnset, EpochsPast, Seeking, TypeOK
    <3>5. QED
      BY <1>0, <3>3, <3>4 DEF KeyInv
  <2>6. QED
    BY <2>4, <2>5
<1>3. ASSUME NEW c \in Calls, ReadStored(c) PROVE KeyInv'
  <2>1. Seeking(c) /\ UNCHANGED <<store, epoch, hist>>
    BY <1>3 DEF ReadStored, Seeking
  <2>2. CASE Fail(c) /\ UNCHANGED cache
    BY <1>0, <2>1, <2>2, KeyFailed
  <2>3. CASE Found /\ Remember(c, store)
    BY <1>0, <2>1, <2>3, KeyRemembered
  <2>4. CASE /\ store = Absent /\ call' = [call EXCEPT ![c].pc = "generate"]
             /\ UNCHANGED <<cache, lock>>
    <3>1. /\ call'[c].pc = "generate" /\ call'[c].epoch = call[c].epoch
          /\ \A d \in Calls \ {c} : call'[d] = call[d]
      BY <1>0, <2>4 DEF Records
    <3>2. ~HasKey(c)' /\ \A d \in Calls \ {c} : HasKey(d)' <=> HasKey(d)
      BY <3>1 DEF HasKey
    <3>3. Seeking(c)' /\ \A d \in Calls \ {c} : Seeking(d)' <=> Seeking(d)
      BY <3>1 DEF Seeking
    <3>4. KeyStable' /\ KeyIsCached' /\ KeyIsStored' /\ EpochsPast'
      BY <2>1, <2>4, <3>1, <3>2 DEF KeyInv, KeyStable, KeyIsCached, KeyIsStored, EpochsPast
    <3>5. OneSeeks' /\ StillUnset'
      BY <2>1, <2>4, <3>1, <3>3 DEF KeyInv, OneSeeks, StillUnset
    <3>6. QED
      BY <1>0, <3>4, <3>5 DEF KeyInv
  <2>5. QED
    BY <1>3, <2>2, <2>3, <2>4 DEF ReadStored
<1>4. ASSUME NEW c \in Calls, Generate(c) PROVE KeyInv'
  <2>1. Seeking(c) /\ UNCHANGED <<store, cache, epoch>>
    BY <1>4 DEF Generate, Seeking
  <2>2. CASE Fail(c) /\ UNCHANGED hist
    BY <1>0, <2>1, <2>2, KeyFailed
  <2>3. ASSUME NEW k \in Keys \ hist.drawn,
               call' = [call EXCEPT ![c].pc = "set", ![c].key = {k}],
               hist' = [hist EXCEPT !.drawn = @ \cup {k}],
               UNCHANGED lock
        PROVE  KeyInv'
    <3>1. /\ call'[c].pc = "set" /\ call'[c].epoch = call[c].epoch
          /\ \A d \in Calls \ {c} : call'[d] = call[d]
          /\ call[c].pc = "generate"
      BY <1>0, <1>4, <2>3 DEF Records, Generate
    <3>2. hist'.rotated = hist.rotated
      BY <1>0, <2>3 DEF Histories
    <3>3. ~HasKey(c)' /\ \A d \in Calls \ {c} : HasKey(d)' <=> HasKey(d)
      BY <3>1 DEF HasKey
    <3>4. Seeking(c)' /\ \A d \in Calls \ {c} : Seeking(d)' <=> Seeking(d)
      BY <3>1 DEF Seeking
    <3>5. KeyStable' /\ KeyIsCached' /\ KeyIsStored' /\ EpochsPast'
      BY <2>1, <3>1, <3>2, <3>3 DEF KeyInv, KeyStable, KeyIsCached, KeyIsStored, EpochsPast
    <3>6. OneSeeks' /\ StillUnset'
      BY <2>1, <2>3, <3>1, <3>2, <3>4 DEF KeyInv, OneSeeks, StillUnset
    <3>7. QED
      BY <1>0, <3>5, <3>6 DEF KeyInv
  <2>4. QED
    BY <1>4, <2>2, <2>3 DEF Generate
<1>5. ASSUME NEW c \in Calls, SetSecret(c) PROVE KeyInv'
  <2>1. Seeking(c) /\ call[c].pc = "set" /\ UNCHANGED <<cache, epoch, hist>>
    BY <1>5 DEF SetSecret, Seeking
  <2>2. CASE Fail(c)
    BY <1>0, <2>1, <2>2, KeyFailed
  <2>3. CASE /\ store' = call[c].key /\ UNCHANGED lock
             /\ call' = [call EXCEPT ![c].pc = "reread", ![c].key = Absent]
    <3>1. /\ call'[c].pc = "reread" /\ call'[c].epoch = call[c].epoch
          /\ \A d \in Calls \ {c} : call'[d] = call[d]
      BY <1>0, <2>3 DEF Records
    <3>2. ~HasKey(c)' /\ \A d \in Calls \ {c} : HasKey(d)' <=> HasKey(d)
      BY <3>1 DEF HasKey
    <3>3. Seeking(c)' /\ \A d \in Calls \ {c} : Seeking(d)' <=> Seeking(d)
      BY <3>1 DEF Seeking
    <3>4. \A d \in Calls \ {c} : ~Seeking(d)
      BY <2>1 DEF KeyInv, OneSeeks
    <3>5. ~hist.rotated => \A d \in Calls : ~HasKey(d)
      BY <1>0, <2>1 DEF KeyInv, StillUnset, KeyIsStored, HasKey, KeyPcs, Progress
    <3>6. KeyStable' /\ KeyIsCached' /\ EpochsPast'
      BY <2>1, <3>1, <3>2 DEF KeyInv, KeyStable, KeyIsCached, EpochsPast
    <3>7. cache' = Absent /\ OneSeeks'
      BY <2>1, <2>3, <3>1, <3>3 DEF KeyInv, OneSeeks
    <3>8. KeyIsStored' /\ StillUnset'
      BY <2>1, <3>1, <3>2, <3>3, <3>4, <3>5, <3>7 DEF KeyIsStored, StillUnset, Seeking
    <3>9. QED
      BY <1>0, <3>6, <3>7, <3>8 DEF KeyInv
  <2>4. QED
    BY <1>5, <2>2, <2>3 DEF SetSecret
<1>6. ASSUME NEW c \in Calls, Reread(c) PROVE KeyInv'
  <2>1. Seeking(c) /\ UNCHANGED <<store, epoch, hist>>
    BY <1>6 DEF Reread, Seeking
  <2>2. CASE Fail(c) /\ UNCHANGED cache
    BY <1>0, <2>1, <2>2, KeyFailed
  <2>3. CASE Found /\ Remember(c, store)
    BY <1>0, <2>1, <2>3, KeyRemembered
  <2>4. CASE call' = [call EXCEPT ![c].tries = 1] /\ UNCHANGED <<cache, lock>>
    <3>1. \A d \in Calls : /\ call'[d].pc = call[d].pc /\ call'[d].key = call[d].key
                           /\ call'[d].epoch = call[d].epoch
      BY <1>0, <2>4 DEF Records
    <3>2. QED
      BY <1>0, <2>1, <2>4, <3>1, KeyKept DEF HasKey, Seeking
  <2>5. QED
    BY <1>6, <2>2, <2>3, <2>4 DEF Reread
<1>7. ASSUME NEW c \in Calls, ReadExports(c) PROVE KeyInv'
  <2>1. \A d \in Calls : /\ call'[d].key = call[d].key /\ call'[d].epoch = call[d].epoch
                         /\ d # c => call'[d] = call[d]
    BY <1>0, <1>7 DEF ReadExports, Records
  <2>2. call[c].pc = "read" /\ call'[c].pc \in {"failed", "place"}
    BY <1>0, <1>7 DEF ReadExports, Records
  <2>3. hist'.rotated = hist.rotated /\ UNCHANGED <<store, cache, lock, epoch>>
    BY <1>0, <1>7 DEF ReadExports, Histories, secret
  <2>4. QED
    BY <1>0, <2>1, <2>2, <2>3, KeyKept DEF HasKey, Seeking
<1>8. ASSUME NEW c \in Calls, Place(c) PROVE KeyInv'
  <2>1. \A d \in Calls : /\ call'[d].pc = call[d].pc /\ call'[d].key = call[d].key
                         /\ call'[d].epoch = call[d].epoch
    BY <1>0, <1>8 DEF Place, Records
  <2>2. UNCHANGED <<store, cache, lock, epoch, hist>>
    BY <1>8 DEF Place, secret
  <2>3. QED
    BY <1>0, <2>1, <2>2, KeyKept DEF HasKey, Seeking
<1>9. ASSUME NEW c \in Calls, Report(c) PROVE KeyInv'
  <2>1. /\ \A d \in Calls : /\ call'[d].key = call[d].key /\ call'[d].epoch = call[d].epoch
                            /\ d # c => call'[d] = call[d]
        /\ call[c].pc = "place" /\ call'[c].pc = "done"
    BY <1>0, <1>9 DEF Report, Records
  <2>2. UNCHANGED <<store, cache, lock, epoch, hist>>
    BY <1>9 DEF Report, secret
  <2>3. QED
    BY <1>0, <2>1, <2>2, KeyKept DEF HasKey, Seeking
<1>10. ASSUME NEW c \in Calls, NEW s \in Shares, Apply(c, s) PROVE KeyInv'
  BY <1>0, <1>10, KeyKept DEF Apply, secret, HasKey, Seeking
<1>11. CASE Restart
  <2>1. /\ cache' = Absent /\ lock' = {} /\ epoch' = epoch + 1 /\ UNCHANGED <<store, hist>>
        /\ epoch \in Nat
    BY <1>0, <1>11 DEF Restart, TypeOK
  <2>2. \A d \in Calls : \/ call'[d] = call[d] /\ call[d].pc \in {"idle", "failed", "done"}
                         \/ /\ call'[d].pc = "failed"
                            /\ call'[d].epoch = call[d].epoch
    BY <1>0, <1>11 DEF Restart, Records
  <2>3. \A d \in Calls : /\ ~Seeking(d)' /\ call'[d].epoch = call[d].epoch
                         /\ call[d].epoch <= epoch /\ call[d].epoch \in Nat
                         /\ HasKey(d)' => HasKey(d) /\ call'[d] = call[d]
    BY <1>0, <2>2 DEF Seeking, HasKey, KeyInv, EpochsPast, Records
  <2>4. KeyStable' /\ KeyIsStored'
    BY <2>1, <2>3 DEF KeyInv, KeyStable, KeyIsStored
  <2>5. OneSeeks' /\ StillUnset'
    BY <2>3 DEF OneSeeks, StillUnset, Seeking
  <2>6. EpochsPast' /\ KeyIsCached'
    BY <2>1, <2>3 DEF EpochsPast, KeyIsCached
  <2>7. QED
    BY <1>0, <2>4, <2>5, <2>6 DEF KeyInv
<1>12. CASE Rotate
  <2>1. UNCHANGED <<cache, lock, call, epoch>> /\ hist'.rotated = TRUE
    BY <1>0, <1>12 DEF Rotate, Histories
  <2>2. KeyStable' /\ OneSeeks' /\ EpochsPast' /\ KeyIsCached'
    BY <2>1 DEF KeyInv, KeyStable, OneSeeks, EpochsPast, KeyIsCached, HasKey, Seeking
  <2>3. QED
    BY <1>0, <2>1, <2>2 DEF KeyInv, KeyIsStored, StillUnset
<1>13. QED
  BY <1>1, <1>2, <1>3, <1>4, <1>5, <1>6, <1>7, <1>8, <1>9, <1>10, <1>11, <1>12
     DEF Next, Secret

(* At first no call knows a secret and none looks for one.                  *)
LEMMA KeyInit == Init => KeyInv
<1> SUFFICES ASSUME Init PROVE KeyInv
  OBVIOUS
<1>1. TypeOK
  BY InitType
<1>2. /\ cache = Absent /\ epoch = 0
      /\ \A c \in Calls : call[c].pc = "idle" /\ call[c].epoch = 0
  BY DEF Init, NoCall
<1>3. \A c \in Calls : ~HasKey(c) /\ ~Seeking(c)
  BY <1>2 DEF HasKey, Seeking
<1>4. KeyStable /\ OneSeeks /\ KeyIsCached /\ KeyIsStored
  BY <1>2, <1>3 DEF KeyStable, OneSeeks, KeyIsCached, KeyIsStored
<1>5. EpochsPast /\ StillUnset
  BY <1>2 DEF EpochsPast, StillUnset
<1>6. QED
  BY <1>1, <1>4, <1>5 DEF KeyInv

(* Calls agree on one secret.                                               *)
THEOREM KeysAreStable == Spec => []KeyStable
<1>1. KeyInv => KeyStable
  BY DEF KeyInv
<1>2. QED
  BY <1>1, KeyInit, KeyInductive, PTL DEF Spec

-----------------------------------------------------------------------------
(* NfsFsids implements InstallSecret.                                       *)

(* What a step of one call changes of what calls were given.                *)
LEMMA GivenChanges ==
    ASSUME NEW c \in Calls, \A d \in Calls \ {c} : call'[d] = call[d],
           NEW k, k = IF HasKey(c)' THEN call'[c].key ELSE Absent
    PROVE  Given' = [Given EXCEPT ![c] = k]
<1> DEFINE Of(d) == IF HasKey(d) THEN call[d].key ELSE Absent
<1>1. \A d \in Calls \ {c} : Of(d)' = Of(d)
  BY DEF HasKey
<1>2. Of(c)' = k
  OBVIOUS
<1>3. Given = [d \in Calls |-> Of(d)] /\ Given' = [d \in Calls |-> Of(d)']
  BY DEF Given
<1> HIDE DEF Of
<1>4. QED
  BY <1>1, <1>2, <1>3

LEMMA GivenStays ==
    ASSUME \A d \in Calls : (HasKey(d)' <=> HasKey(d)) /\ (HasKey(d) => call'[d].key = call[d].key)
    PROVE  Given' = Given
BY DEF Given

(* A call that looks for the secret was given none, and the process has     *)
(* none; as it remembers the stored one, all agree on it.                   *)
LEMMA RememberAgrees ==
    ASSUME KeyInv, NEW c \in Calls, Seeking(c), Found, Remember(c, store),
           UNCHANGED <<store, hist>>
    PROVE  Promise!Agree(c)
<1>1. call \in [Calls -> Progress] /\ \A d \in Calls : call[d] \in Records
  BY DEF KeyInv, TypeOK, Progress
<1>2. /\ call'[c].pc = "read" /\ call'[c].key = store /\ cache' = store
      /\ \A d \in Calls \ {c} : call'[d] = call[d]
  BY <1>1 DEF Remember, Records
<1>3. cache = Absent
  BY DEF KeyInv, OneSeeks
<1>4. ~HasKey(c) /\ HasKey(c)'
  BY <1>2 DEF HasKey, Seeking
<1>5. Given' = [Given EXCEPT ![c] = store]
  BY <1>2, <1>4, GivenChanges
<1>6. Given[c] = Absent
  BY <1>4 DEF Given
<1>7. QED
  BY <1>2, <1>3, <1>5, <1>6 DEF Promise!Agree, Promise!None, Found, Absent

(* A call that fails while it looks for the secret was given nothing.       *)
LEMMA FailGivesNothing ==
    ASSUME TypeOK, NEW c \in Calls, Seeking(c), Fail(c)
    PROVE  Given' = Given
<1>1. call \in [Calls -> Progress] /\ \A d \in Calls : call[d] \in Records
  BY DEF TypeOK, Progress
<1>2. call'[c].pc = "failed" /\ \A d \in Calls \ {c} : call'[d] = call[d]
  BY <1>1 DEF Fail, Records
<1>3. ~HasKey(c) /\ ~HasKey(c)' /\ \A d \in Calls \ {c} : HasKey(d)' <=> HasKey(d)
  BY <1>2 DEF HasKey, Seeking
<1>4. QED
  BY <1>2, <1>3, GivenStays

(* A secret is drawn for a process that has none, and stored where there is *)
(* none unless somebody else writes secrets too.                            *)
LEMMA SetMints ==
    ASSUME KeyInv, NEW c \in Calls, SetSecret(c), store' # store, Given' = Given
    PROVE  \E k \in Keys : Promise!Mint(k)
<1>1. call[c].pc = "set" /\ call[c] \in Progress
  BY DEF SetSecret, KeyInv, TypeOK
<1>2. PICK k \in Keys : call[c].key = {k}
  BY <1>1 DEF Progress, Records, Secrets, KeyPcs
<1>3. store' = {k} /\ UNCHANGED <<cache, hist>>
  BY <1>2 DEF SetSecret
<1>4. cache = Absent /\ (store = Absent \/ hist.rotated)
  BY <1>1 DEF KeyInv, OneSeeks, StillUnset, Seeking
<1>5. QED
  BY <1>3, <1>4 DEF Promise!Mint, Promise!None, Absent

(* Every step of the plugin and of its surroundings is one of the promise,  *)
(* or none.                                                                 *)
LEMMA StepKeepsPromise == KeyInv /\ [Next]_vars => [Promise!Next]_(Promise!vars)
<1> SUFFICES ASSUME KeyInv, [Next]_vars, ~UNCHANGED Promise!vars PROVE Promise!Next
  OBVIOUS
<1>0. /\ TypeOK /\ call \in [Calls -> Progress] /\ \A c \in Calls : call[c] \in Records
      /\ hist \in Histories
  BY DEF KeyInv, TypeOK, Progress
<1>a. ~(UNCHANGED <<store, cache, Given>> /\ hist'.rotated = hist.rotated)
  BY DEF Promise!vars
<1>1. CASE UNCHANGED vars
  <2>1. Given' = Given
    BY <1>1, GivenStays DEF vars, HasKey
  <2>2. QED
    BY <1>1, <1>a, <2>1 DEF vars, secret
<1>2. ASSUME NEW c \in Calls, Enter(c) PROVE Promise!Next
  <2>1. /\ call[c].pc = "idle" /\ UNCHANGED <<store, cache, hist>>
        /\ \A d \in Calls \ {c} : call'[d] = call[d]
    BY <1>0, <1>2 DEF Enter
  <2>2. Given[c] = Absent
    BY <2>1 DEF Given, HasKey
  <2>3. CASE cache # Absent
    <3>1. call'[c].pc = "read" /\ call'[c].key = cache
      BY <1>0, <1>2, <2>3 DEF Enter, Records
    <3>2. Given' = [Given EXCEPT ![c] = cache]
      BY <2>1, <3>1, GivenChanges DEF HasKey
    <3>3. Promise!Give(c)
      BY <2>1, <2>2, <2>3, <3>2 DEF Promise!Give, Promise!None, Absent
    <3>4. QED
      BY <3>3 DEF Promise!Next
  <2>4. CASE cache = Absent
    <3>1. call'[c].pc = "stored"
      BY <1>0, <1>2, <2>4 DEF Enter, Records
    <3>2. Given' = Given
      BY <2>1, <3>1, GivenStays DEF HasKey
    <3>3. QED
      BY <1>a, <2>1, <3>2
  <2>5. QED
    BY <2>3, <2>4
<1>3. ASSUME NEW c \in Calls, ReadStored(c) PROVE Promise!Next
  <2>1. Seeking(c) /\ UNCHANGED <<store, hist>>
    BY <1>3 DEF ReadStored, Seeking
  <2>2. CASE Fail(c) /\ UNCHANGED cache
    BY <1>0, <1>a, <2>1, <2>2, FailGivesNothing
  <2>3. CASE Found /\ Remember(c, store)
    BY <2>1, <2>3, RememberAgrees DEF Promise!Next
  <2>4. CASE call' = [call EXCEPT ![c].pc = "generate"] /\ UNCHANGED <<cache, lock>>
    <3>1. /\ call[c].pc = "stored" /\ call'[c].pc = "generate"
          /\ \A d \in Calls \ {c} : call'[d] = call[d]
      BY <1>0, <1>3, <2>4 DEF ReadStored, Records
    <3>2. Given' = Given
      BY <3>1, GivenStays DEF HasKey
    <3>3. QED
      BY <1>a, <2>1, <2>4, <3>2
  <2>5. QED
    BY <1>3, <2>2, <2>3, <2>4 DEF ReadStored
<1>4. ASSUME NEW c \in Calls, Generate(c) PROVE Promise!Next
  <2>1. Seeking(c) /\ UNCHANGED <<store, cache>> /\ call[c].pc = "generate"
    BY <1>4 DEF Generate, Seeking
  <2>2. CASE Fail(c) /\ UNCHANGED hist
    BY <1>0, <1>a, <2>1, <2>2, FailGivesNothing
  <2>3. ASSUME NEW k \in Keys \ hist.drawn,
               call' = [call EXCEPT ![c].pc = "set", ![c].key = {k}],
               hist' = [hist EXCEPT !.drawn = @ \cup {k}]
        PROVE  Promise!Next
    <3>1. call'[c].pc = "set" /\ \A d \in Calls \ {c} : call'[d] = call[d]
      BY <1>0, <2>3 DEF Records
    <3>2. Given' = Given
      BY <2>1, <3>1, GivenStays DEF HasKey
    <3>3. hist'.rotated = hist.rotated
      BY <1>0, <2>3 DEF Histories
    <3>4. QED
      BY <1>a, <2>1, <3>2, <3>3
  <2>4. QED
    BY <1>4, <2>2, <2>3 DEF Generate
<1>5. ASSUME NEW c \in Calls, SetSecret(c) PROVE Promise!Next
  <2>1. Seeking(c) /\ UNCHANGED <<cache, hist>> /\ call[c].pc = "set"
    BY <1>5 DEF SetSecret, Seeking
  <2>2. Given' = Given
    <3>1. CASE Fail(c)
      BY <1>0, <2>1, <3>1, FailGivesNothing
    <3>2. CASE call' = [call EXCEPT ![c].pc = "reread", ![c].key = Absent]
      <4>1. call'[c].pc = "reread" /\ \A d \in Calls \ {c} : call'[d] = call[d]
        BY <1>0, <3>2 DEF Records
      <4>2. QED
        BY <2>1, <4>1, GivenStays DEF HasKey
    <3>3. QED
      BY <1>5, <3>1, <3>2 DEF SetSecret
  <2>3. CASE store' = store
    BY <1>a, <2>1, <2>2, <2>3
  <2>4. CASE store' # store
    BY <1>5, <2>2, <2>4, SetMints DEF Promise!Next
  <2>5. QED
    BY <2>3, <2>4
<1>6. ASSUME NEW c \in Calls, Reread(c) PROVE Promise!Next
  <2>1. Seeking(c) /\ UNCHANGED <<store, hist>>
    BY <1>6 DEF Reread, Seeking
  <2>2. CASE Fail(c) /\ UNCHANGED cache
    BY <1>0, <1>a, <2>1, <2>2, FailGivesNothing
  <2>3. CASE Found /\ Remember(c, store)
    BY <2>1, <2>3, RememberAgrees DEF Promise!Next
  <2>4. CASE call' = [call EXCEPT ![c].tries = 1] /\ UNCHANGED <<cache, lock>>
    <3>1. \A d \in Calls : call'[d].pc = call[d].pc /\ call'[d].key = call[d].key
      BY <1>0, <2>4 DEF Records
    <3>2. Given' = Given
      BY <3>1, GivenStays DEF HasKey
    <3>3. QED
      BY <1>a, <2>1, <2>4, <3>2
  <2>5. QED
    BY <1>6, <2>2, <2>3, <2>4 DEF Reread
<1>7. ASSUME NEW c \in Calls, ReadExports(c) PROVE Promise!Next
  <2>1. /\ call[c].pc = "read" /\ call'[c].pc \in {"failed", "place"}
        /\ call'[c].key = call[c].key
        /\ \A d \in Calls \ {c} : call'[d] = call[d]
    BY <1>0, <1>7 DEF ReadExports, Records
  <2>2. UNCHANGED <<store, cache>> /\ hist'.rotated = hist.rotated
    BY <1>0, <1>7 DEF ReadExports, Histories, secret
  <2>3. CASE call'[c].pc = "failed"
    <3>1. Given' = [Given EXCEPT ![c] = Absent]
      BY <2>1, <2>3, GivenChanges DEF HasKey
    <3>2. Promise!Drop(c)
      BY <2>2, <3>1 DEF Promise!Drop, Promise!None, Absent
    <3>3. QED
      BY <3>2 DEF Promise!Next
  <2>4. CASE call'[c].pc = "place"
    <3>1. Given' = Given
      BY <2>1, <2>4, GivenStays DEF HasKey
    <3>2. QED
      BY <1>a, <2>2, <3>1
  <2>5. QED
    BY <2>1, <2>3, <2>4
<1>8. ASSUME NEW c \in Calls, Place(c) PROVE Promise!Next
  <2>1. \A d \in Calls : call'[d].pc = call[d].pc /\ call'[d].key = call[d].key
    BY <1>0, <1>8 DEF Place, Records
  <2>2. Given' = Given /\ UNCHANGED <<store, cache, hist>>
    BY <1>8, <2>1, GivenStays DEF HasKey, Place, secret
  <2>3. QED
    BY <1>a, <2>2
<1>9. ASSUME NEW c \in Calls, Report(c) PROVE Promise!Next
  <2>1. /\ call[c].pc = "place" /\ call'[c].pc = "done" /\ call'[c].key = call[c].key
        /\ \A d \in Calls \ {c} : call'[d] = call[d]
    BY <1>0, <1>9 DEF Report, Records
  <2>2. Given' = Given /\ UNCHANGED <<store, cache, hist>>
    BY <1>9, <2>1, GivenStays DEF HasKey, Report, secret
  <2>3. QED
    BY <1>a, <2>2
<1>10. ASSUME NEW c \in Calls, NEW s \in Shares, Apply(c, s) PROVE Promise!Next
  <2>1. Given' = Given /\ UNCHANGED <<store, cache>>
    BY <1>10, GivenStays DEF HasKey, Apply, secret
  <2>2. hist'.rotated = hist.rotated
    BY <1>0, <1>10 DEF Apply, Histories
  <2>3. QED
    BY <1>a, <2>1, <2>2
<1>11. CASE Restart
  <2>1. cache' = Absent /\ UNCHANGED <<store, hist>>
    BY <1>11 DEF Restart
  <2>2. \A d \in Calls : HasKey(d)' => HasKey(d) /\ call'[d] = call[d]
    BY <1>0, <1>11 DEF Restart, HasKey, Records
  <2> DEFINE kept == {d \in Calls : HasKey(d)'}
  <2>3. Given' = [d \in Calls |-> IF d \in kept THEN Given[d] ELSE Absent]
    BY <2>2 DEF Given
  <2>4. kept \in SUBSET Calls
    OBVIOUS
  <2> HIDE DEF kept
  <2>5. Promise!Restart
    BY <2>1, <2>3, <2>4 DEF Promise!Restart, Promise!None, Absent
  <2>6. QED
    BY <2>5 DEF Promise!Next
<1>12. CASE Rotate
  <2>1. UNCHANGED <<cache, call>> /\ hist'.rotated = TRUE
    BY <1>0, <1>12 DEF Rotate, Histories
  <2>2. store' \in Promise!Secrets
    BY <1>12 DEF Rotate, Promise!Secrets, Promise!None, Absent
  <2>3. Given' = Given
    BY <2>1, GivenStays DEF HasKey
  <2>4. Promise!Rotate
    BY <2>1, <2>2, <2>3 DEF Promise!Rotate
  <2>5. QED
    BY <2>4 DEF Promise!Next
<1>13. QED
  BY <1>1, <1>2, <1>3, <1>4, <1>5, <1>6, <1>7, <1>8, <1>9, <1>10, <1>11, <1>12
     DEF Next, Secret

(* Mutex, cache, re-reading and failures of the store together do what      *)
(* InstallSecret promises, for any number of calls, keys and restarts.      *)
THEOREM SecretKeepsPromise == Spec => KeepsPromise
<1>1. Init => Promise!Init
  <2> SUFFICES ASSUME Init PROVE Promise!Init
    OBVIOUS
  <2>1. Given = [c \in Calls |-> Absent]
    BY DEF Init, NoCall, Given, HasKey
  <2>2. QED
    BY <2>1 DEF Init, Promise!Init, Promise!Secrets, Promise!None, Absent
<1>2. QED
  BY <1>1, KeyInit, KeyInductive, StepKeepsPromise, PTL DEF Spec, KeepsPromise, Promise!Spec

=============================================================================

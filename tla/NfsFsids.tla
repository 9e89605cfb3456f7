------------------------------ MODULE NfsFsids ------------------------------
(***************************************************************************)
(* unraid.nfs.fsids: calls that run side by side in the plugin's process   *)
(* report, for every exported user share, the fsid a per-server hash plan  *)
(* would give it.                                                          *)
(*                                                                         *)
(* The hash depends on the server's key, made from an install secret that  *)
(* the first call generates and keeps in orca's secret store, and that the *)
(* process caches under a mutex.  The plan leaves a share that already has *)
(* the fsid of its hash alone and lets the others step from theirs to a    *)
(* free one, in name order.  Somebody may give the shares their planned    *)
(* fsids one by one, and plan again.                                       *)
(***************************************************************************)
EXTENDS Naturals

CONSTANTS
    Shares,     \* exported user shares
    Name,       \* their place in name order
    Keys,       \* server keys, one per install secret
    Hash,       \* fnv1a(key, share) % FSID_SPAN
    Span,       \* FSID_SPAN
    Initial,    \* the fsids shares have before any plan; NoFsid is none
    Others,     \* fsids that exports other than user shares may have
    Calls,      \* calls of the tool; each runs once
    EnvBudget   \* bound: restarts of the plugin and rotations of the secret

FSID_BASE == 1000
NoFsid == 0
Fsids == FSID_BASE .. FSID_BASE + Span - 1

ASSUME ConstantsAssumption ==
    /\ Span \in Nat
    /\ Name \in [Shares -> Nat]
    /\ \A s, t \in Shares : Name[s] = Name[t] => s = t
    /\ Hash \in [Keys -> [Shares -> 0 .. Span - 1]]
    /\ Initial \subseteq Nat /\ Others \subseteq Nat
    /\ EnvBudget \in Nat

VARIABLES
    fsid,     \* the shares' fsids in /etc/exports
    others,   \* and those of the other exports
    store,    \* the install secret in orca's store, if there is one
    cache,    \* and in the process
    lock,     \* the call holding the cache's mutex, if any
    call,     \* what each call knows
    epoch,    \* how often the plugin was restarted
    budget,   \* what the environment may still do
    hist      \* observations of the past that no step reads

secret == <<store, cache, lock>>
exports == <<fsid, others>>
vars == <<exports, secret, call, epoch, budget, hist>>

Absent == {}
Unplanned == [s \in Shares |-> NoFsid]
NoCall == [pc |-> "idle", key |-> Absent, tries |-> 0, epoch |-> 0,
           current |-> Unplanned, used |-> {}, placed |-> {}, out |-> Unplanned]

-----------------------------------------------------------------------------
(* install_secret_in. *)

Release(c) == lock' = lock \ {c}
Fail(c) == call' = [call EXCEPT ![c].pc = "failed"] /\ Release(c)

MutexFreeIgnored == TRUE
MutexFree == lock = {}

(* The mutex is taken; a cached secret is returned at once. *)
Enter(c) ==
    /\ call[c].pc = "idle" /\ MutexFree
    /\ IF cache # Absent
       THEN /\ call' = [call EXCEPT ![c].pc = "read", ![c].key = cache, ![c].epoch = epoch]
            /\ UNCHANGED lock
       ELSE /\ call' = [call EXCEPT ![c].pc = "stored", ![c].epoch = epoch]
            /\ lock' = lock \cup {c}
    /\ UNCHANGED <<exports, store, cache, epoch, budget, hist>>

Remember(c, value) ==
    /\ cache' = value
    /\ call' = [call EXCEPT ![c].pc = "read", ![c].key = value]
    /\ Release(c)

(* An empty secret counts as none. *)
FoundAny == TRUE
Found == store # Absent

ReadStored(c) ==
    /\ call[c].pc = "stored"
    /\ \/ Fail(c) /\ UNCHANGED cache
       \/ Found /\ Remember(c, store)
       \/ /\ store = Absent
          /\ call' = [call EXCEPT ![c].pc = "generate"]
          /\ UNCHANGED <<cache, lock>>
    /\ UNCHANGED <<exports, store, epoch, budget, hist>>

(* /dev/urandom gives a secret nobody had before, or cannot be read. *)
Generate(c) ==
    /\ call[c].pc = "generate"
    /\ \/ Fail(c) /\ UNCHANGED hist
       \/ \E k \in Keys \ hist.drawn :
            /\ call' = [call EXCEPT ![c].pc = "set", ![c].key = {k}]
            /\ hist' = [hist EXCEPT !.drawn = @ \cup {k}]
            /\ UNCHANGED lock
    /\ UNCHANGED <<exports, store, cache, epoch, budget>>

(* A failure of the store may hide that the secret was set. *)
SetSecret(c) ==
    /\ call[c].pc = "set"
    /\ \/ Fail(c) /\ store' \in {store, call[c].key}
       \/ /\ store' = call[c].key
          /\ call' = [call EXCEPT ![c].pc = "reread", ![c].key = Absent]
          /\ UNCHANGED lock
    /\ UNCHANGED <<exports, cache, epoch, budget, hist>>

(* What is stored counts, not what was sent; a store that does not have it  *)
(* yet is asked once more.                                                  *)
Reread(c) ==
    /\ call[c].pc = "reread"
    /\ \/ Fail(c) /\ UNCHANGED cache
       \/ Found /\ Remember(c, store)
       \/ /\ call[c].tries = 0
          /\ call' = [call EXCEPT ![c].tries = 1]
          /\ UNCHANGED <<cache, lock>>
    /\ UNCHANGED <<exports, store, epoch, budget, hist>>

-----------------------------------------------------------------------------
(* report_in and plan_fsids. *)

KeyOf(c) == CHOOSE k \in call[c].key : TRUE
Hashed(c, s) == Hash[KeyOf(c)][s]
HashedFsid(c, s) == FSID_BASE + Hashed(c, s)
Fixed(c, current) == {s \in Shares : current[s] = HashedFsid(c, s)}

(* What a plan starts from: the fsids of other exports and of shares that   *)
(* are where they belong.  Those of the shares that move are free.          *)
ReservedOthersOnly(current, fixed) == others
Reserved(current, fixed) == others \cup {current[s] : s \in fixed}

ReadExports(c) ==
    /\ call[c].pc = "read"
    /\ \/ call' = [call EXCEPT ![c].pc = "failed"]
       \/ LET fixed == Fixed(c, fsid)
          IN call' = [call EXCEPT ![c].pc = "place", ![c].current = fsid,
                        ![c].used = Reserved(fsid, fixed), ![c].placed = fixed,
                        ![c].out = [s \in Shares |-> IF s \in fixed THEN fsid[s] ELSE NoFsid]]
    /\ hist' = [hist EXCEPT !.others[c] = others]
    /\ UNCHANGED <<exports, secret, epoch, budget>>

(* The next share in name order goes to the first free fsid from its hash   *)
(* on, wrapping at the end; without one the code would search for ever.     *)
IsNextAny(c, s) == s \in Shares \ call[c].placed
IsNext(c, s) == /\ s \in Shares \ call[c].placed
                /\ \A t \in Shares \ call[c].placed : Name[s] <= Name[t]
Step(c, s, n) == FSID_BASE + ((Hashed(c, s) + n) % Span)

Place(c) ==
    /\ call[c].pc = "place"
    /\ \E s \in Shares, n \in 0 .. Span - 1 :
         /\ IsNext(c, s)
         /\ Step(c, s, n) \notin call[c].used
         /\ \A m \in 0 .. n - 1 : Step(c, s, m) \in call[c].used
         /\ call' = [call EXCEPT ![c].used = @ \cup {Step(c, s, n)},
                                 ![c].placed = @ \cup {s}, ![c].out[s] = Step(c, s, n)]
    /\ UNCHANGED <<exports, secret, epoch, budget, hist>>

Report(c) ==
    /\ call[c].pc = "place" /\ call[c].placed = Shares
    /\ call' = [call EXCEPT ![c].pc = "done"]
    /\ UNCHANGED <<exports, secret, epoch, budget, hist>>

-----------------------------------------------------------------------------
(* Everybody else. *)

Acts == budget > 0 /\ budget' = budget - 1

(* Somebody gives a share the fsid it was planned. *)
Apply(c, s) ==
    /\ call[c].pc = "done"
    /\ fsid' = [fsid EXCEPT ![s] = call[c].out[s]]
    /\ hist' = [hist EXCEPT !.applied = @ \cup {call[c].key}]
    /\ UNCHANGED <<others, secret, call, epoch, budget>>

(* The plugin restarts: its calls die, its cache is empty. *)
Restart ==
    /\ Acts
    /\ cache' = Absent /\ lock' = {} /\ epoch' = epoch + 1
    /\ call' = [c \in Calls |-> IF call[c].pc \in {"idle", "failed", "done"} THEN call[c]
                                ELSE [call[c] EXCEPT !.pc = "failed"]]
    /\ UNCHANGED <<exports, store, hist>>

(* Somebody replaces or deletes the secret. *)
Rotate ==
    /\ Acts
    /\ store' \in {Absent} \cup {{k} : k \in Keys \ hist.drawn}
    /\ hist' = [hist EXCEPT !.rotated = TRUE, !.drawn = @ \cup store']
    /\ UNCHANGED <<exports, cache, lock, call, epoch>>

-----------------------------------------------------------------------------
Init ==
    /\ fsid \in [Shares -> Initial] /\ others \in SUBSET Others
    /\ store \in {Absent} \cup {{k} : k \in Keys}
    /\ cache = Absent /\ lock = {} /\ epoch = 0
    /\ call = [c \in Calls |-> NoCall]
    /\ budget = EnvBudget
    /\ hist = [drawn |-> store, rotated |-> FALSE, others |-> [c \in Calls |-> {}],
               first |-> fsid, applied |-> {}]

Secret(c) == Enter(c) \/ ReadStored(c) \/ Generate(c) \/ SetSecret(c) \/ Reread(c)

Next ==
    \/ \E c \in Calls : \/ Secret(c) \/ ReadExports(c) \/ Place(c) \/ Report(c)
                        \/ \E s \in Shares : Apply(c, s)
    \/ Restart \/ Rotate

Spec == Init /\ [][Next]_vars

-----------------------------------------------------------------------------
Secrets == {Absent} \cup {{k} : k \in Keys}
Numbers == {NoFsid} \cup Initial \cup Fsids
Pcs == {"idle", "stored", "generate", "set", "reread", "read", "place", "done", "failed"}
Records == [pc : Pcs, key : Secrets, tries : {0, 1}, epoch : Nat,
            current : [Shares -> Numbers], used : SUBSET (Numbers \cup Others),
            placed : SUBSET Shares, out : [Shares -> Numbers]]
Histories == [drawn : SUBSET Keys, rotated : BOOLEAN, others : [Calls -> SUBSET Others],
              first : [Shares -> Numbers], applied : SUBSET Secrets]

KeyPcs == {"set", "read", "place", "done"}
Progress == {r \in Records : r.pc \in KeyPcs => r.key # Absent}

TypeOK ==
    /\ fsid \in [Shares -> Numbers] /\ others \subseteq Others
    /\ store \in Secrets /\ cache \in Secrets /\ lock \subseteq Calls
    /\ call \in [Calls -> Progress]
    /\ epoch \in Nat /\ budget \in Nat
    /\ hist \in Histories

(* A plan gives no fsid to two shares, nor one another export has, except   *)
(* to shares that had it before the plan as the one of their hash           *)
(* (plan_fsids: "Shares already at their hash value keep it").              *)
PlanUnique ==
    \A c \in Calls : call[c].pc = "done" =>
        \A s \in Shares : call[c].current[s] # HashedFsid(c, s) =>
            /\ call[c].out[s] \notin hist.others[c]
            /\ \A t \in Shares \ {s} : call[c].out[s] # call[c].out[t]

(* A plan stays the plan while it is applied, share by share in any order   *)
(* and looked at again in between (plan_is_stable_once_applied), as long as *)
(* nobody applies one made with another key: to apply it takes one pass.    *)
Only(key) == hist.applied \subseteq {key}
PlanStable ==
    \A c, d \in Calls :
        /\ call[c].pc = "done" /\ call[d].pc = "done"
        /\ call[c].key = call[d].key /\ Only(call[c].key)
        => call[c].out = call[d].out

(* Calls agree on one secret: those of one run of the plugin always, and    *)
(* those of all runs if nobody rotated it, whatever failed while it was     *)
(* generated (install_secret_in: "concurrent first calls agree on one       *)
(* secret", "fsids stay stable").                                           *)
HasKey(c) == call[c].pc \in {"read", "place", "done"}
KeyStable ==
    \A c, d \in Calls :
        HasKey(c) /\ HasKey(d) /\ (call[c].epoch = call[d].epoch \/ ~hist.rotated)
        => call[c].key = call[d].key

(* Why PlanUnique holds: what a plan has given out so far is used, and a    *)
(* share that moves gets what is not.                                       *)
PlannedSoFar(c) ==
    call[c].pc \in {"place", "done"} =>
        LET fixed == Fixed(c, call[c].current)
            out == call[c].out
        IN /\ fixed \subseteq call[c].placed
           /\ hist.others[c] \cup {out[s] : s \in call[c].placed} \subseteq call[c].used
           /\ \A s \in call[c].placed \ fixed :
                /\ out[s] \notin hist.others[c]
                /\ \A t \in call[c].placed \ {s} : out[s] # out[t]
           /\ call[c].pc = "done" => call[c].placed = Shares

PlanInv == TypeOK /\ \A c \in Calls : PlannedSoFar(c)

(* Why KeyStable holds: one call at a time looks for a secret, and only     *)
(* while the process has none; who has a key has the cached one of its run  *)
(* of the plugin, and the stored one until somebody rotates it.             *)
Seeking(c) == call[c].pc \in {"stored", "generate", "set", "reread"}
OneSeeks == \A c \in Calls : Seeking(c) => /\ lock = {c} /\ cache = Absent
                                           /\ call[c].epoch = epoch
EpochsPast == \A c \in Calls : call[c].epoch <= epoch
KeyIsCached == \A c \in Calls : HasKey(c) /\ call[c].epoch = epoch => call[c].key = cache
KeyIsStored ==
    ~hist.rotated => /\ cache # Absent => cache = store
                     /\ \A c \in Calls : HasKey(c) => call[c].key = store
StillUnset ==
    ~hist.rotated => \A c \in Calls : call[c].pc \in {"generate", "set"} => store = Absent

KeyInv == /\ TypeOK /\ KeyStable /\ OneSeeks /\ EpochsPast /\ KeyIsCached
          /\ KeyIsStored /\ StillUnset

(* The calls get what install_secret promises (InstallSecret): whatever the *)
(* mutex, the cache, the re-reading and the failures of the store do, the   *)
(* process agrees on one secret, made only where there was none, and gives  *)
(* every call that one until it restarts.                                   *)
Given == [c \in Calls |-> IF HasKey(c) THEN call[c].key ELSE Absent]
Promise == INSTANCE InstallSecret
           WITH stored <- store, agreed <- cache, given <- Given, rotated <- hist.rotated
KeepsPromise == Promise!Spec

=============================================================================

----------------------------- MODULE ShareWrites -----------------------------
(***************************************************************************)
(* The three verbs that write a user share's settings, side by side with   *)
(* each other and with the web UI:                                         *)
(*   "cache"  unraid.share.cache.set: one request to emhttp that carries   *)
(*            every field of the Share page, checked against the share cfg *)
(*   "nfs"    export upsert and remove: one or two requests to emhttp,     *)
(*            checked against emhttp's own state and the live exports      *)
(*   "smb"    unraid.smb.share.set: the share cfg and the live smb conf    *)
(*            edited as files, with an undo                                *)
(*                                                                         *)
(* emhttpd keeps the settings in memory (shares.ini, sec.ini, sec_nfs.ini  *)
(* and /etc/exports show them) and persists them per share in a cfg.  The  *)
(* first two verbs take a lock of their process; the third takes none.     *)
(***************************************************************************)
EXTENDS Naturals, Sequences

CONSTANTS
    Shares,     \* user shares
    Calls,      \* the verbs' calls; each runs once
    Kinds,      \* the verbs they may be of
    Values,     \* values of the fields of the Share page
    Modes,      \* SMB security modes
    Lists,      \* NFS host lists
    Initial,    \* the settings every share starts from, exported or not
    Faults,     \* what may go wrong with a request or a file write
    UiFields,   \* fields the users of the web UI may save
    Restarts,   \* may emhttpd restart, may a process die
    EnvBudget   \* bound: saves of the web UI, restarts and deaths

PageFields == {"cache", "pool"}
Settings == [cache : Values, pool : Values, sec : Modes, hosts : Lists, export : BOOLEAN]
Fields == {"cache", "pool", "sec", "hosts", "export"}

ASSUME ConstantsAssumption ==
    /\ Kinds \subseteq {"cache", "nfs", "smb"}
    /\ Initial \in Settings
    /\ Faults \subseteq {"fail", "lost", "late", "undo"}
    /\ UiFields \subseteq Fields
    /\ Restarts \in BOOLEAN
    /\ EnvBudget \in Nat

VARIABLES
    mem,     \* emhttpd's settings of the shares, in effect
    cfg,     \* the settings persisted in the share cfgs
    conf,    \* the mode each share's section of smb-shares.conf gives
    smbd,    \* the modes smbd has loaded
    token,   \* emhttpd's csrf token; a request with another has no effect
    direct,  \* does the plugin run as root, in one process, or through sudo
    call,    \* what each call asked for, read and has left to send
    wire,    \* requests whose sender gave up while emhttpd was busy
    budget,  \* what everybody else may still do
    hist     \* observations of the past that no step reads

files == <<cfg, conf>>
emhttp == <<mem, token>>
vars == <<mem, cfg, conf, smbd, token, direct, call, wire, budget, hist>>

Overlay(settings, form) ==
    [f \in DOMAIN settings |-> IF f \in DOMAIN form THEN form[f] ELSE settings[f]]

Ended == {"done", "failed", "crashed"}
Running(c) == call[c].pc \notin {"idle"} \cup Ended
ShareOf(c) == call[c].share

-----------------------------------------------------------------------------
(* emhttpd.  Whether a save starts from what it has in memory or from the   *)
(* cfgs is open: share_cache.rs and smb_share_write.rs say either.          *)

Saves(s, form) ==
    \E loaded \in {mem, cfg} :
        /\ mem' = [loaded EXCEPT ![s] = Overlay(@, form)]
        /\ cfg' = [cfg EXCEPT ![s] = Overlay(loaded[s], form)]
        /\ conf' = [t \in Shares |-> mem'[t].sec]
        /\ smbd' = conf'

Receives(s, form, csrf) ==
    IF csrf = token THEN Saves(s, form) ELSE UNCHANGED <<mem, cfg, conf, smbd>>

(* What others outside its lock changed of a call's share while it ran.     *)
Changed(s) == {f \in Fields : mem'[s][f] # mem[s][f] \/ cfg'[s][f] # cfg[s][f]}
Moved(spared) ==
    [c \in Calls |-> IF c \in spared \/ ~Running(c) THEN hist.moved[c]
                     ELSE hist.moved[c] \cup Changed(ShareOf(c))
                            \cup IF conf' # conf THEN {"conf"} ELSE {}]

-----------------------------------------------------------------------------
(* The calls. *)

Wants(kind) ==
    CASE kind = "cache" -> [{"cache"} -> Values] \cup [{"pool"} -> Values]
      [] kind = "nfs" -> [hosts : Lists, export : {TRUE}] \cup [export : {FALSE}]
      [] kind = "smb" -> [sec : Modes]

(* emhttp_write_lock is a mutex of the process: the privileged verbs run in *)
(* the daemon only if it is root, else in a process of their own; smb takes *)
(* no lock.                                                                 *)
ShareLock(k, l) == {k, l} \subseteq {"cache", "nfs"} /\ (direct \/ {k, l} = {"nfs"})
LockFreeIgnored(c, kind) == TRUE
LockFree(c, kind) == \A d \in Calls \ {c} : Running(d) => ~ShareLock(kind, call[d].kind)
Locked(c) == {d \in Calls : ShareLock(call[c].kind, call[d].kind)} \cup {c}

NoCall == [pc |-> "idle", kind |-> "none", share |-> "none", want |-> [export |-> FALSE],
           seen |-> Initial, before |-> Initial, conf |-> [s \in Shares |-> Initial.sec],
           csrf |-> 0, left |-> <<>>]

At(c, pc) == call' = [call EXCEPT ![c].pc = pc]
End(c, pc) == call' = [call EXCEPT ![c] = [NoCall EXCEPT
                 !.pc = pc, !.kind = call[c].kind, !.share = ShareOf(c), !.want = call[c].want]]

Begin(c) ==
    /\ call[c].pc = "idle"
    /\ \E kind \in Kinds, s \in Shares : \E want \in Wants(kind) :
         /\ LockFree(c, kind)
         /\ call' = [call EXCEPT ![c] = [NoCall EXCEPT
                       !.pc = "read", !.kind = kind, !.share = s, !.want = want]]
         /\ hist' = [hist EXCEPT
                       !.cfg[c] = cfg[s], !.conf[c] = conf,
                       !.asked[s] = @ \cup IF "hosts" \in DOMAIN want THEN {want.hosts} ELSE {}]
    /\ UNCHANGED <<emhttp, files, smbd, direct, wire, budget>>

(* The first reading: the share as emhttp has it, or as its cfg has it.     *)
ReadShare(c) ==
    /\ call[c].pc = "read"
    /\ call' = [call EXCEPT ![c].pc = "readRest",
                    ![c].seen = IF call[c].kind = "smb" THEN cfg[ShareOf(c)] ELSE mem[ShareOf(c)]]
    /\ UNCHANGED <<emhttp, files, smbd, direct, wire, budget, hist>>

(* What is sent: the whole Share page with the wanted fields replaced; the  *)
(* host list before the export, a removal in one request.                   *)
FormsSwapped(c) ==
    LET want == call[c].want IN
    IF call[c].kind = "cache" THEN <<Overlay([f \in PageFields |-> call[c].seen[f]], want)>>
    ELSE IF want.export THEN <<[export |-> TRUE], [hosts |-> want.hosts]>> ELSE <<want>>
Forms(c) ==
    LET want == call[c].want IN
    IF call[c].kind = "cache" THEN <<Overlay([f \in PageFields |-> call[c].seen[f]], want)>>
    ELSE IF want.export THEN <<[hosts |-> want.hosts], [export |-> TRUE]>> ELSE <<want>>

(* The second: the token and what the result is compared with.              *)
ReadRest(c) ==
    /\ call[c].pc = "readRest"
    /\ LET s == ShareOf(c) IN
       call' = [call EXCEPT ![c] =
         CASE @.kind = "cache" -> [@ EXCEPT !.pc = "send", !.csrf = token,
                                            !.before = cfg[s], !.left = Forms(c)]
           [] @.kind = "nfs" -> [@ EXCEPT !.pc = "send", !.csrf = token, !.left = Forms(c),
                                          !.before = [call[c].before EXCEPT !.cache = call[c].seen.cache,
                                              !.pool = call[c].seen.pool, !.sec = mem[s].sec]]
           [] @.kind = "smb" -> [@ EXCEPT !.pc = "cfg", !.conf = conf]]
    /\ UNCHANGED <<emhttp, files, smbd, direct, wire, budget, hist>>

AfterSendLoops(left) == "send"
AfterSend(left) == IF left = <<>> THEN "verify" ELSE "send"

(* One request and its answer: accepted, or an error after which nothing    *)
(* more is sent ("fail" never arrived, "lost" took effect, "late" still may)*)
Send(c) ==
    /\ call[c].pc = "send"
    /\ LET s == ShareOf(c)
           form == Head(call[c].left)
           rest == Tail(call[c].left)
       IN \E r \in {"ok"} \cup (Faults \cap {"fail", "lost", "late"}) :
            /\ IF r \in {"ok", "lost"} THEN Receives(s, form, call[c].csrf)
               ELSE UNCHANGED <<mem, cfg, conf, smbd>>
            /\ IF r = "ok"
               THEN call' = [call EXCEPT ![c].left = rest, ![c].pc = AfterSend(rest)]
               ELSE End(c, "failed")
            /\ wire' = IF r = "late"
                       THEN wire \cup {[share |-> s, form |-> form, csrf |-> call[c].csrf]}
                       ELSE wire
            /\ hist' = [hist EXCEPT !.moved = Moved(Locked(c))]
    /\ UNCHANGED <<token, direct, budget>>

(* check_read_back: the cfg has the wanted fields and no other moved since  *)
(* the snapshot.                                                            *)
ReadBackWantedOnly(c) ==
    \A f \in DOMAIN call[c].want : cfg[ShareOf(c)][f] = call[c].want[f]
ReadBack(c) ==
    \A f \in Fields :
        cfg[ShareOf(c)][f] = IF f \in DOMAIN call[c].want THEN call[c].want[f]
                             ELSE call[c].before[f]

(* check_sec and check_live, then check_settings on shares.ini and sec.ini. *)
NfsProblemsIgnored(c) == FALSE
NfsProblems(c) ==
    \/ \E f \in DOMAIN call[c].want : mem[ShareOf(c)][f] # call[c].want[f]
    \/ \E f \in PageFields \cup {"sec"} : mem[ShareOf(c)][f] # call[c].before[f]

Verify(c) ==
    /\ call[c].pc = "verify"
    /\ LET ok == IF call[c].kind = "cache" THEN ReadBack(c) ELSE ~NfsProblems(c)
       IN End(c, IF ok THEN "done" ELSE "failed")
    /\ UNCHANGED <<emhttp, files, smbd, direct, wire, budget, hist>>

-----------------------------------------------------------------------------
(* smb's file edits: the cfg, the conf, the reload, and their undo.         *)

FileWrite == {"ok"} \cup (Faults \cap {"fail"})

(* A cfg somebody saved since it was read is written back as it was.        *)
Raced(c, expected) == IF cfg[ShareOf(c)] = expected THEN hist.raced
                      ELSE hist.raced \cup {ShareOf(c)}

WriteCfg(c) ==
    /\ call[c].pc = "cfg"
    /\ \E r \in FileWrite :
         IF r = "ok"
         THEN /\ cfg' = [cfg EXCEPT ![ShareOf(c)] = Overlay(call[c].seen, call[c].want)]
              /\ At(c, "conf")
              /\ UNCHANGED <<mem, conf>>
              /\ hist' = [hist EXCEPT !.raced = Raced(c, call[c].seen), !.moved = Moved({c})]
         ELSE End(c, "failed") /\ UNCHANGED <<mem, files, hist>>
    /\ UNCHANGED <<token, smbd, direct, wire, budget>>

WriteConf(c) ==
    /\ call[c].pc = "conf"
    /\ \E r \in FileWrite :
         IF r = "ok"
         THEN /\ conf' = [call[c].conf EXCEPT ![ShareOf(c)] = call[c].want.sec]
              /\ At(c, "reload")
              /\ UNCHANGED <<mem, cfg>>
              /\ hist' = [hist EXCEPT !.moved = Moved({c})]
         ELSE At(c, "undoCfgOnly") /\ UNCHANGED <<mem, files, hist>>
    /\ UNCHANGED <<token, smbd, direct, wire, budget>>

AfterReloadFailsKeepsConf == "undoCfgOnly"
AfterReloadFails == "undoCfg"

Reload(c) ==
    /\ call[c].pc = "reload"
    /\ \E r \in {"ok"} \cup (Faults \cap {"fail", "lost"}) :
         /\ smbd' = IF r = "fail" THEN smbd ELSE conf
         /\ IF r = "ok" THEN End(c, "done") ELSE At(c, AfterReloadFails)
    /\ UNCHANGED <<emhttp, files, direct, wire, budget, hist>>

UndoWrite == {"ok"} \cup (Faults \cap {"undo"})

UndoCfg(c) ==
    /\ call[c].pc \in {"undoCfg", "undoCfgOnly"}
    /\ \E r \in UndoWrite :
         /\ cfg' = IF r = "ok" THEN [cfg EXCEPT ![ShareOf(c)] = call[c].seen] ELSE cfg
         /\ UNCHANGED <<mem, conf>>
         /\ hist' = [hist EXCEPT
                       !.raced = Raced(c, Overlay(call[c].seen, call[c].want)),
                       !.undone = IF r = "ok" THEN @ ELSE @ \ {c}, !.moved = Moved({c})]
    /\ IF call[c].pc = "undoCfg" THEN At(c, "undoConf") ELSE End(c, "failed")
    /\ UNCHANGED <<token, smbd, direct, wire, budget>>

UndoConf(c) ==
    /\ call[c].pc = "undoConf"
    /\ \E r \in UndoWrite :
         /\ conf' = IF r = "ok" THEN call[c].conf ELSE conf
         /\ UNCHANGED <<mem, cfg>>
         /\ hist' = [hist EXCEPT !.undone = IF r = "ok" THEN @ ELSE @ \ {c}, !.moved = Moved({c})]
    /\ End(c, "failed")
    /\ UNCHANGED <<token, smbd, direct, wire, budget>>

-----------------------------------------------------------------------------
(* Everybody else. *)

Acts == budget > 0 /\ budget' = budget - 1

Lands(m) ==
    /\ wire' = wire \ {m}
    /\ Receives(m.share, m.form, m.csrf)
    /\ hist' = [hist EXCEPT !.moved = Moved({})]
    /\ UNCHANGED <<token, direct, call, budget>>

(* Somebody saves one field in the web UI; an export is of the list shown.  *)
UiSave ==
    /\ Acts
    /\ \E s \in Shares, f \in UiFields : \E v \in {x[f] : x \in Settings} :
         /\ Saves(s, [g \in {f} |-> v])
         /\ hist' = [hist EXCEPT !.moved = Moved({}),
                       !.asked[s] = @ \cup IF f = "hosts" THEN {v}
                                           ELSE IF f = "export" THEN {mem[s].hosts} ELSE {}]
    /\ UNCHANGED <<token, direct, call, wire>>

(* emhttpd restarts: a new token, the cfgs loaded, no request survives.     *)
Restart ==
    /\ Restarts /\ Acts
    /\ token' = token + 1
    /\ mem' = cfg /\ conf' = [s \in Shares |-> cfg[s].sec] /\ smbd' = conf'
    /\ wire' = {}
    /\ UNCHANGED <<cfg, direct, call>>
    /\ hist' = [hist EXCEPT !.moved = Moved({})]

(* A process dies with the calls it runs, which give up their lock.         *)
Crash(c) ==
    /\ Restarts /\ Acts /\ Running(c)
    /\ LET died == {d \in Calls : Running(d) /\
                      (d = c \/ direct \/ (call[c].kind = "nfs" /\ call[d].kind = "nfs"))}
       IN call' = [d \in Calls |-> IF d \in died
                      THEN [NoCall EXCEPT !.pc = "crashed", !.kind = call[d].kind,
                                          !.share = ShareOf(d), !.want = call[d].want]
                      ELSE call[d]]
    /\ UNCHANGED <<emhttp, files, smbd, direct, wire, hist>>

-----------------------------------------------------------------------------
Init ==
    /\ \E exported \in BOOLEAN :
         /\ mem = [s \in Shares |-> [Initial EXCEPT !.export = exported]]
         /\ cfg = mem
         /\ hist = [moved |-> [c \in Calls |-> {}], raced |-> {}, undone |-> Calls,
                    asked |-> [s \in Shares |-> IF exported THEN {Initial.hosts} ELSE {}],
                    cfg |-> [c \in Calls |-> Initial],
                    conf |-> [c \in Calls |-> [s \in Shares |-> Initial.sec]]]
    /\ conf = [s \in Shares |-> Initial.sec] /\ smbd = conf
    /\ token = 0
    /\ direct \in BOOLEAN
    /\ call = [c \in Calls |-> NoCall]
    /\ wire = {}
    /\ budget = EnvBudget

Verb(c) ==
    \/ Begin(c) \/ ReadShare(c) \/ ReadRest(c) \/ Send(c) \/ Verify(c)
    \/ WriteCfg(c) \/ WriteConf(c) \/ Reload(c) \/ UndoCfg(c) \/ UndoConf(c)

Next ==
    \/ \E c \in Calls : Verb(c) \/ Crash(c)
    \/ \E m \in wire : Lands(m)
    \/ UiSave \/ Restart

Spec == Init /\ [][Next]_vars

-----------------------------------------------------------------------------
TypeOK ==
    /\ mem \in [Shares -> Settings] /\ cfg \in [Shares -> Settings]
    /\ conf \in [Shares -> Modes] /\ smbd \in [Shares -> Modes]
    /\ token \in 0 .. EnvBudget /\ direct \in BOOLEAN /\ budget \in 0 .. EnvBudget
    /\ \A c \in Calls :
         /\ call[c].pc \in {"idle", "read", "readRest", "send", "verify", "cfg", "conf",
                            "reload", "undoCfg", "undoCfgOnly", "undoConf"} \cup Ended
         /\ call[c].pc # "idle" => /\ call[c].kind \in Kinds /\ ShareOf(c) \in Shares
                                   /\ call[c].want \in Wants(call[c].kind)
         /\ call[c].seen \in Settings /\ call[c].before \in Settings
         /\ call[c].conf \in [Shares -> Modes] /\ call[c].csrf \in 0 .. token
         /\ call[c].pc = "send" <=> call[c].left # <<>>
    /\ \A m \in wire : m.share \in Shares /\ DOMAIN m.form \subseteq Fields /\ m.csrf <= token

Reports(c, outcome) == call[c].pc # outcome /\ call'[c].pc = outcome
InEffect(c) ==
    LET s == ShareOf(c)
        want == call[c].want
    IN IF call[c].kind = "smb" THEN {cfg[s].sec, conf[s], smbd'[s]} = {want.sec}
       ELSE \A f \in DOMAIN want : mem[s][f] = want[f] /\ cfg[s][f] = want[f]

(* A call that reports success has its whole request in effect and          *)
(* persisted, whatever emhttpd did with a stale token, unless somebody      *)
(* outside its lock changed the share meanwhile (apply_nfs_in and           *)
(* share_cache.rs apply_in verify what they sent).                          *)
DoneIsInEffect ==
    [][\A c \in Calls : Reports(c, "done") /\ hist.moved[c] = {} => InEffect(c)]_vars

(* A cache set that reports success left every other persisted setting of   *)
(* the share as it was when it began, including those another verb wrote to *)
(* the cfg behind emhttp's back (share_cache.rs: "and nothing else did").   *)
(* The Share page it carries reverts only a field that changed under it     *)
(* outside its lock: two sets in one process never lose each other's        *)
(* (emhttp_write_lock).                                                     *)
KeptOthers(c) ==
    Reports(c, "done") /\ call[c].kind = "cache" /\ hist.moved[c] = {}
    => \A f \in Fields \ DOMAIN call[c].want : cfg[ShareOf(c)][f] = hist.cfg[c][f]
RevertsOnlyRaced(c) ==
    call[c].left # <<>> /\ call'[c].left # call[c].left =>
        \A s \in Shares : \A f \in PageFields \ DOMAIN call[c].want :
            mem'[s][f] # mem[s][f] => f \in hist.moved[c] \/ s \in hist.raced
CacheSparesOthers == [][\A c \in Calls : KeptOthers(c) /\ RevertsOnlyRaced(c)]_vars

(* Whatever fails between or during its two requests, an export never       *)
(* serves the share to the host list left from an earlier one: only to a    *)
(* list somebody asked for since (nfs_form sends the list first, and        *)
(* apply_nfs_in stops at the first error), unless an smb set wrote back a   *)
(* cfg it had read before.                                                  *)
ServesOnlyAsked ==
    /\ TypeOK
    /\ \A s \in Shares \ hist.raced : mem[s].export => mem[s].hosts \in hist.asked[s]

(* An smb set that fails leaves both places of the share as they were when  *)
(* it began, unless the undo itself failed or somebody changed them         *)
(* meanwhile (smb_share_write.rs: "both files are put back as they were").  *)
SmbUndoes ==
    [][\A c \in Calls :
         Reports(c, "failed") /\ call[c].kind = "smb" /\ hist.moved[c] = {} /\ c \in hist'.undone
         => cfg'[ShareOf(c)] = hist.cfg[c] /\ conf' = hist.conf[c]]_vars

=============================================================================

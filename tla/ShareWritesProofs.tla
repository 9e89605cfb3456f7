------------------------- MODULE ShareWritesProofs -------------------------
(* What the three verbs that write a share's settings promise, for every    *)
(* number of shares and of calls, every set of values, every mixture of     *)
(* faults and any budget of the web UI, of restarts and of deaths.  One     *)
(* inductive invariant, WriteInv, carries the five results at the end.      *)
EXTENDS ShareWrites, TLAPS

(* What a field may hold. *)
Holds(f, v) ==
    /\ f \in {"cache", "pool"} => v \in Values
    /\ f = "sec" => v \in Modes
    /\ f = "hosts" => v \in Lists
    /\ f = "export" => v \in BOOLEAN

Fits(form) == DOMAIN form \subseteq Fields /\ \A f \in DOMAIN form : Holds(f, form[f])

LEMMA SettingsAre ==
    ASSUME NEW x
    PROVE  x \in Settings <=> /\ x = [f \in Fields |-> x[f]]
                              /\ \A f \in Fields : Holds(f, x[f])
<1>1. ASSUME x \in Settings PROVE DOMAIN x = Fields /\ \A f \in Fields : Holds(f, x[f])
  BY <1>1 DEF Settings, Fields, Holds
<1>1a. ASSUME x \in Settings PROVE x = [f \in Fields |-> x[f]]
  <2>1. x = [cache |-> x.cache, pool |-> x.pool, sec |-> x.sec, hosts |-> x.hosts, export |-> x.export]
    BY <1>1a DEF Settings
  <2>2. DOMAIN x = Fields /\ x = [f \in DOMAIN x |-> x[f]]
    BY <2>1 DEF Fields
  <2>3. QED
    BY <2>2
<1>2. ASSUME x = [f \in Fields |-> x[f]], \A f \in Fields : Holds(f, x[f])
      PROVE  x \in Settings
  <2>1. /\ x["cache"] \in Values /\ x["pool"] \in Values /\ x["sec"] \in Modes
        /\ x["hosts"] \in Lists /\ x["export"] \in BOOLEAN
    BY <1>2 DEF Fields, Holds
  <2>2. x = [cache |-> x["cache"], pool |-> x["pool"], sec |-> x["sec"], hosts |-> x["hosts"], export |-> x["export"]]
    BY <1>2 DEF Fields
  <2>3. QED
    BY <2>1, <2>2 DEF Settings
<1>3. QED
  BY <1>1, <1>1a, <1>2

LEMMA OverlayIs ==
    ASSUME NEW x \in Settings, NEW form, Fits(form)
    PROVE  /\ Overlay(x, form) \in Settings
           /\ \A f \in Fields : Overlay(x, form)[f] = IF f \in DOMAIN form THEN form[f] ELSE x[f]
<1>1. DOMAIN x = Fields
  BY SettingsAre
<1>2. \A f \in Fields : Overlay(x, form)[f] = IF f \in DOMAIN form THEN form[f] ELSE x[f]
  BY <1>1 DEF Overlay
<1>3. Overlay(x, form) = [f \in Fields |-> Overlay(x, form)[f]]
  BY <1>1 DEF Overlay
<1>4. \A f \in Fields : Holds(f, Overlay(x, form)[f])
  BY <1>2, SettingsAre DEF Fits
<1>5. QED
  BY <1>2, <1>3, <1>4, SettingsAre

-----------------------------------------------------------------------------
PageForms == [PageFields -> Values]
Requests == PageForms \cup [hosts : Lists] \cup [export : BOOLEAN]
Wanted == UNION {Wants(k) : k \in {"cache", "nfs", "smb"}}
SmbOnly == {"cfg", "conf", "reload", "undoCfg", "undoCfgOnly", "undoConf"}
Pcs == {"idle", "read", "readRest", "send", "verify"} \cup SmbOnly \cup Ended
CallRecords ==
    [pc : Pcs, kind : Kinds \cup {"none"}, share : Shares \cup {"none"}, want : Wanted,
     seen : Settings, before : Settings, conf : [Shares -> Modes], csrf : Nat,
     left : Seq(Requests)]
Messages == [share : Shares, form : Requests, csrf : Nat]
Histories ==
    [moved : [Calls -> SUBSET (Fields \cup {"conf"})], raced : SUBSET Shares,
     undone : SUBSET Calls, asked : [Shares -> SUBSET Lists], cfg : [Calls -> Settings],
     conf : [Calls -> [Shares -> Modes]]]

Types ==
    /\ mem \in [Shares -> Settings] /\ cfg \in [Shares -> Settings]
    /\ conf \in [Shares -> Modes] /\ smbd \in [Shares -> Modes]
    /\ direct \in BOOLEAN /\ call \in [Calls -> CallRecords]
    /\ wire \subseteq Messages /\ hist \in Histories

Tokens ==
    /\ token \in Nat /\ budget \in Nat /\ token + budget <= EnvBudget
    /\ \A c \in Calls : call[c].csrf <= token
    /\ \A m \in wire : m.csrf <= token

(* What a call has left to send. *)
LeftOf(c) ==
    IF call[c].kind = "cache"
    THEN call[c].left = <<Overlay([f \in PageFields |-> call[c].seen[f]], call[c].want)>>
    ELSE IF call[c].want.export
         THEN \/ call[c].left = <<[hosts |-> call[c].want.hosts], [export |-> TRUE]>>
              \/ call[c].left = <<[export |-> TRUE]>>
         ELSE call[c].left = <<[export |-> FALSE]>>

Shaped(c) ==
    /\ call[c].pc # "idle" => /\ call[c].kind \in Kinds /\ ShareOf(c) \in Shares
                              /\ call[c].want \in Wants(call[c].kind)
    /\ call[c].pc \in {"send", "verify"} => call[c].kind \in {"cache", "nfs"}
    /\ call[c].pc \in SmbOnly => call[c].kind = "smb"
    /\ IF call[c].pc = "send" THEN LeftOf(c) ELSE call[c].left = <<>>
AllShaped == \A c \in Calls : Shaped(c)

(* emhttp_write_lock: two running calls never share a lock.                 *)
OneAtATime ==
    \A c, d \in Calls : c # d /\ Running(c) /\ Running(d) => ~ShareLock(call[c].kind, call[d].kind)

(* emhttpd's memory and the cfg differ in the mode alone, which smb writes  *)
(* behind its back, unless an smb set wrote back a cfg saved meanwhile.     *)
Agree == \A s \in Shares \ hist.raced : \A f \in Fields \ {"sec"} : mem[s][f] = cfg[s][f]

(* The list of a share that is served was asked for, the list a call or a   *)
(* delayed request carries was, and whoever holds a bare export that        *)
(* emhttpd would still accept, a call or the wire, has had its list stored. *)
HostsAsked(s) == mem[s].hosts \in hist.asked[s]
FormAsked(s, form) == "hosts" \in DOMAIN form => form["hosts"] \in hist.asked[s]
ToExport == [export |-> TRUE]
Serves == \A s \in Shares \ hist.raced : mem[s].export => HostsAsked(s)
CallAsked(c) == Running(c) => FormAsked(ShareOf(c), call[c].want)
Armed(c) ==
    /\ call[c].left = <<ToExport>> /\ call[c].csrf = token /\ ShareOf(c) \notin hist.raced
    => HostsAsked(ShareOf(c))
MessageAsked(m) ==
    /\ FormAsked(m.share, m.form)
    /\ /\ m.form = ToExport /\ m.csrf = token /\ m.share \notin hist.raced
       => HostsAsked(m.share)
CallsAsked == \A c \in Calls : CallAsked(c) /\ Armed(c)
WireAsked == \A m \in wire : MessageAsked(m)
AskedFor == Serves /\ CallsAsked /\ WireAsked

(* The page a set has read is still the share's, but for the fields that    *)
(* moved outside its lock.                                                  *)
PageSeen(c) ==
    call[c].kind = "cache" /\ call[c].pc \in {"readRest", "send"} =>
        \A f \in PageFields \ hist.moved[c] : mem[ShareOf(c)][f] = call[c].seen[f]
PagesSeen == \A c \in Calls : PageSeen(c)

(* A call whose share nobody outside its lock has touched knows where the   *)
(* share stands: what its cfg and section were, or what it made them.       *)
Known(c) ==
    LET s == ShareOf(c)
        new == Overlay(call[c].seen, call[c].want)
    IN /\ call[c].pc \in {"read", "readRest"} => cfg[s] = hist.cfg[c] /\ conf = hist.conf[c]
       /\ call[c].pc = "send" => call[c].csrf = token \/ mem[s] = cfg[s]
       /\ call[c].pc = "verify" => mem[s] = cfg[s]
       /\ call[c].pc \in {"send", "verify"} /\ call[c].kind = "cache" => call[c].before = hist.cfg[c]
       /\ call[c].pc \in {"readRest"} \cup SmbOnly /\ call[c].kind = "smb" => call[c].seen = hist.cfg[c]
       /\ call[c].pc \in SmbOnly => call[c].conf = hist.conf[c]
       /\ call[c].pc = "cfg" => cfg[s] = hist.cfg[c]
       /\ call[c].pc \in {"cfg", "conf", "undoCfgOnly"} => conf = hist.conf[c]
       /\ call[c].pc \in {"conf", "reload", "undoCfg", "undoCfgOnly"} => cfg[s] = new
       /\ call[c].pc \in {"reload", "undoCfg"} => conf[s] = call[c].want.sec
       /\ call[c].pc = "undoConf" /\ c \in hist.undone => cfg[s] = hist.cfg[c]
Knows(c) == hist.moved[c] = {} => Known(c)
AllKnown == \A c \in Calls : Knows(c)

(* The inductive invariant. *)
WriteInv == Types /\ Tokens /\ AllShaped /\ OneAtATime /\ Agree /\ AskedFor /\ PagesSeen /\ AllKnown

-----------------------------------------------------------------------------
LEMMA WantsAre ==
    ASSUME NEW k \in {"cache", "nfs", "smb"}, NEW w \in Wants(k)
    PROVE  /\ Fits(w) /\ w \in Wanted
           /\ k = "cache" => DOMAIN w \subseteq PageFields
           /\ k = "nfs" /\ w["export"] => DOMAIN w = {"hosts", "export"} /\ w["hosts"] \in Lists
                                          /\ w["export"] = TRUE
           /\ k = "nfs" => w["export"] \in BOOLEAN
           /\ k = "nfs" /\ ~w["export"] => DOMAIN w = {"export"} /\ w["export"] = FALSE
           /\ k = "smb" => DOMAIN w = {"sec"} /\ w["sec"] \in Modes
<1>1. w \in Wanted
  BY DEF Wanted
<1>2. CASE k = "cache"
  <2>1. w \in [{"cache"} -> Values] \/ w \in [{"pool"} -> Values]
    BY <1>2 DEF Wants
  <2>2. QED
    BY <1>1, <1>2, <2>1 DEF Fits, Holds, Fields, PageFields
<1>3. CASE k = "nfs"
  <2>1. w \in [hosts : Lists, export : {TRUE}] \/ w \in [export : {FALSE}]
    BY <1>3 DEF Wants
  <2>2. QED
    BY <1>1, <1>3, <2>1 DEF Fits, Holds, Fields
<1>4. CASE k = "smb"
  <2>1. w \in [sec : Modes]
    BY <1>4 DEF Wants
  <2>2. QED
    BY <1>1, <1>4, <2>1 DEF Fits, Holds, Fields
<1>5. QED
  BY <1>2, <1>3, <1>4

LEMMA RequestsAre ==
    ASSUME NEW form \in Requests
    PROVE  /\ Fits(form)
           /\ DOMAIN form \in {PageFields, {"hosts"}, {"export"}}
           /\ DOMAIN form = {"hosts"} => form = [hosts |-> form["hosts"]]
           /\ DOMAIN form = {"export"} => form = [export |-> form["export"]] /\ form["export"] \in BOOLEAN
<1>1. CASE form \in PageForms
  BY <1>1 DEF PageForms, PageFields, Fits, Holds, Fields
<1>2. CASE form \in [hosts : Lists]
  BY <1>2 DEF Fits, Holds, Fields, PageFields
<1>3. CASE form \in [export : BOOLEAN]
  BY <1>3 DEF Fits, Holds, Fields, PageFields
<1>4. QED
  BY <1>1, <1>2, <1>3 DEF Requests

LEMMA NoCallIs == NoCall \in CallRecords /\ NoCall.pc = "idle" /\ NoCall.left = <<>> /\ NoCall.csrf = 0
<1>1. Initial \in Settings /\ Initial.sec \in Modes
  BY ConstantsAssumption DEF Settings
<1>2. [s \in Shares |-> Initial.sec] \in [Shares -> Modes] /\ <<>> \in Seq(Requests)
  BY <1>1
<1>3. [export |-> FALSE] \in Wanted
  <2>1. [export |-> FALSE] \in Wants("nfs")
    BY DEF Wants
  <2>2. QED
    BY <2>1 DEF Wanted
<1>4. QED
  BY <1>1, <1>2, <1>3 DEF NoCall, CallRecords, Pcs

(* A record of a call that has just begun, or has ended. *)
Blank(pc, kind, share, want) ==
    [NoCall EXCEPT !.pc = pc, !.kind = kind, !.share = share, !.want = want]

LEMMA BlankIs ==
    ASSUME NEW pc \in Pcs, NEW kind \in Kinds \cup {"none"}, NEW share \in Shares \cup {"none"},
           NEW want \in Wanted
    PROVE  /\ Blank(pc, kind, share, want) \in CallRecords
           /\ Blank(pc, kind, share, want).pc = pc
           /\ Blank(pc, kind, share, want).kind = kind
           /\ Blank(pc, kind, share, want).share = share
           /\ Blank(pc, kind, share, want).want = want
           /\ Blank(pc, kind, share, want).left = <<>>
           /\ Blank(pc, kind, share, want).csrf = 0
BY NoCallIs DEF Blank, CallRecords

(* A save changes the fields of its form, on what either place held.        *)
Saved(s, form) ==
    /\ mem' \in [Shares -> Settings] /\ cfg' \in [Shares -> Settings]
    /\ conf' \in [Shares -> Modes] /\ smbd' \in [Shares -> Modes]
    /\ mem'[s] = cfg'[s]
    /\ \A f \in DOMAIN form : mem'[s][f] = form[f]
    /\ \A t \in Shares, f \in Fields : t # s \/ f \notin DOMAIN form =>
            mem'[t][f] = mem[t][f] \/ mem'[t][f] = cfg[t][f]
    /\ \A t \in Shares : t # s => cfg'[t] = cfg[t]

LEMMA SavesDo ==
    ASSUME Types, NEW s \in Shares, NEW form, Fits(form), Saves(s, form)
    PROVE  Saved(s, form)
<1>1. PICK loaded \in {mem, cfg} :
        /\ mem' = [loaded EXCEPT ![s] = Overlay(loaded[s], form)]
        /\ cfg' = [cfg EXCEPT ![s] = Overlay(loaded[s], form)]
        /\ conf' = [t \in Shares |-> mem'[t].sec]
        /\ smbd' = conf'
  BY DEF Saves
<1>2. loaded \in [Shares -> Settings] /\ cfg \in [Shares -> Settings] /\ loaded[s] \in Settings
  BY DEF Types
<1>3. Overlay(loaded[s], form) \in Settings
  BY <1>2, OverlayIs
<1>4. \A f \in Fields : Overlay(loaded[s], form)[f] = IF f \in DOMAIN form THEN form[f] ELSE loaded[s][f]
  BY <1>2, OverlayIs
<1>5. mem' \in [Shares -> Settings] /\ cfg' \in [Shares -> Settings]
  BY <1>1, <1>2, <1>3
<1>6. conf' \in [Shares -> Modes] /\ smbd' \in [Shares -> Modes]
  <2>1. \A x \in Settings : x.sec \in Modes
    BY DEF Settings
  <2>2. QED
    BY <1>1, <1>5, <2>1
<1>7. /\ mem'[s] = Overlay(loaded[s], form) /\ cfg'[s] = Overlay(loaded[s], form)
      /\ \A t \in Shares : t # s => mem'[t] = loaded[t] /\ cfg'[t] = cfg[t]
  BY <1>1, <1>2
<1>8. \A f \in DOMAIN form : mem'[s][f] = form[f]
  BY <1>4, <1>7 DEF Fits
<1>9. ASSUME NEW t \in Shares, NEW f \in Fields, t # s \/ f \notin DOMAIN form
      PROVE  mem'[t][f] = mem[t][f] \/ mem'[t][f] = cfg[t][f]
  <2>1. mem'[t][f] = loaded[t][f]
    BY <1>4, <1>7, <1>9
  <2>2. QED
    BY <2>1
<1>10. QED
  BY <1>5, <1>6, <1>7, <1>8, <1>9 DEF Saved

-----------------------------------------------------------------------------
(* What a step of a call does to the calls and to the histories.            *)
OnlyCall(c) == call' \in [Calls -> CallRecords] /\ \A d \in Calls \ {c} : call'[d] = call[d]
Names(c) ==
    call'[c].kind = call[c].kind /\ call'[c].share = call[c].share /\ call'[c].want = call[c].want
Readings(c) ==
    call'[c].seen = call[c].seen /\ call'[c].before = call[c].before /\ call'[c].conf = call[c].conf
Passes(c, pc) ==
    /\ OnlyCall(c) /\ Names(c) /\ Readings(c)
    /\ call'[c].pc = pc /\ call'[c].csrf = call[c].csrf /\ call'[c].left = call[c].left
Stops(c, pc) ==
    OnlyCall(c) /\ Names(c) /\ call'[c].pc = pc /\ call'[c].left = <<>> /\ call'[c].csrf = 0

LEMMA CallsSet ==
    ASSUME Types, NEW c \in Calls, NEW x \in CallRecords, call' = [call EXCEPT ![c] = x]
    PROVE  OnlyCall(c) /\ call'[c] = x
BY DEF Types, OnlyCall

LEMMA AtDoes ==
    ASSUME Types, NEW c \in Calls, NEW pc \in Pcs, At(c, pc)
    PROVE  Passes(c, pc)
<1>1. call[c] \in CallRecords
  BY DEF Types
<1>2. [call[c] EXCEPT !.pc = pc] \in CallRecords
  BY <1>1 DEF CallRecords
<1>3. call' = [call EXCEPT ![c] = [call[c] EXCEPT !.pc = pc]]
  BY DEF At
<1>4. OnlyCall(c) /\ call'[c] = [call[c] EXCEPT !.pc = pc]
  BY <1>2, <1>3, CallsSet
<1>5. QED
  BY <1>1, <1>4 DEF Passes, Names, Readings, CallRecords

LEMMA EndDoes ==
    ASSUME Types, NEW c \in Calls, NEW pc \in Pcs, End(c, pc)
    PROVE  Stops(c, pc)
<1>1. call[c] \in CallRecords
  BY DEF Types
<1>2. /\ call[c].kind \in Kinds \cup {"none"} /\ call[c].share \in Shares \cup {"none"}
      /\ call[c].want \in Wanted
  BY <1>1 DEF CallRecords
<1>3. call' = [call EXCEPT ![c] = Blank(pc, call[c].kind, call[c].share, call[c].want)]
  BY DEF End, Blank, ShareOf
<1>4. /\ OnlyCall(c)
      /\ call'[c] = Blank(pc, call[c].kind, call[c].share, call[c].want)
  BY <1>2, <1>3, BlankIs, CallsSet
<1>5. QED
  BY <1>2, <1>4, BlankIs DEF Stops, Names

MovedOnly(spared) ==
    /\ hist' \in Histories /\ hist'.moved = Moved(spared)
    /\ hist'.raced = hist.raced /\ hist'.undone = hist.undone /\ hist'.asked = hist.asked
    /\ hist'.cfg = hist.cfg /\ hist'.conf = hist.conf

LEMMA MovedIs ==
    ASSUME Types, NEW spared
    PROVE  /\ Moved(spared) \in [Calls -> SUBSET (Fields \cup {"conf"})]
           /\ \A c \in Calls : hist.moved[c] \subseteq Moved(spared)[c]
           /\ \A c \in Calls \ spared : Running(c) =>
                /\ \A f \in Fields \ Moved(spared)[c] :
                        mem'[ShareOf(c)][f] = mem[ShareOf(c)][f] /\ cfg'[ShareOf(c)][f] = cfg[ShareOf(c)][f]
                /\ "conf" \notin Moved(spared)[c] => conf' = conf
<1>1. hist.moved \in [Calls -> SUBSET (Fields \cup {"conf"})]
  BY DEF Types, Histories
<1>2. \A s : Changed(s) \subseteq Fields /\ \A f \in Fields \ Changed(s) :
                mem'[s][f] = mem[s][f] /\ cfg'[s][f] = cfg[s][f]
  BY DEF Changed
<1> HIDE DEF Changed
<1>3. QED
  BY <1>1, <1>2 DEF Moved

LEMMA HistMoved ==
    ASSUME Types, NEW spared, hist' = [hist EXCEPT !.moved = Moved(spared)]
    PROVE  MovedOnly(spared)
<1>1. hist \in Histories
  BY DEF Types
<1>2. Moved(spared) \in [Calls -> SUBSET (Fields \cup {"conf"})]
  BY MovedIs
<1> HIDE DEF Moved
<1>3. QED
  BY <1>1, <1>2 DEF MovedOnly, Histories

-----------------------------------------------------------------------------
(* What each action does. *)
settings == <<mem, cfg, conf, smbd>>

LEMMA RunningIs ==
    ASSUME Types, AllShaped, NEW c \in Calls, call[c].pc # "idle"
    PROVE  /\ call[c] \in CallRecords /\ call[c].kind \in {"cache", "nfs", "smb"}
           /\ call[c].kind \in Kinds /\ ShareOf(c) \in Shares /\ call[c].share = ShareOf(c)
           /\ call[c].want \in Wants(call[c].kind)
BY ConstantsAssumption DEF Types, AllShaped, Shaped, ShareOf

LEMMA BeginDoes ==
    ASSUME Types, NEW c \in Calls, Begin(c)
    PROVE  /\ OnlyCall(c) /\ call[c].pc = "idle" /\ call'[c].pc = "read"
           /\ call'[c].kind \in Kinds /\ call'[c].share \in Shares
           /\ call'[c].want \in Wants(call'[c].kind) /\ LockFree(c, call'[c].kind)
           /\ call'[c].left = <<>> /\ call'[c].csrf = 0
           /\ hist' \in Histories
           /\ hist'.moved = hist.moved /\ hist'.raced = hist.raced /\ hist'.undone = hist.undone
           /\ hist'.cfg[c] = cfg[call'[c].share] /\ hist'.conf[c] = conf
           /\ \A d \in Calls \ {c} : hist'.cfg[d] = hist.cfg[d] /\ hist'.conf[d] = hist.conf[d]
           /\ \A s \in Shares : hist.asked[s] \subseteq hist'.asked[s]
           /\ "hosts" \in DOMAIN call'[c].want => call'[c].want["hosts"] \in hist'.asked[call'[c].share]
           /\ UNCHANGED <<settings, token, direct, wire, budget>>
<1>1. PICK kind \in Kinds, s \in Shares : \E want \in Wants(kind) :
        /\ LockFree(c, kind)
        /\ call' = [call EXCEPT ![c] = Blank("read", kind, s, want)]
        /\ hist' = [hist EXCEPT
                      !.cfg[c] = cfg[s], !.conf[c] = conf,
                      !.asked[s] = @ \cup IF "hosts" \in DOMAIN want THEN {want.hosts} ELSE {}]
  BY DEF Begin, Blank
<1>2. PICK want \in Wants(kind) :
        /\ LockFree(c, kind)
        /\ call' = [call EXCEPT ![c] = Blank("read", kind, s, want)]
        /\ hist' = [hist EXCEPT
                      !.cfg[c] = cfg[s], !.conf[c] = conf,
                      !.asked[s] = @ \cup IF "hosts" \in DOMAIN want THEN {want.hosts} ELSE {}]
  BY <1>1
<1>3. kind \in {"cache", "nfs", "smb"}
  BY ConstantsAssumption
<1>4. want \in Wanted
  BY <1>3, WantsAre
<1>5. Blank("read", kind, s, want) \in CallRecords
  BY <1>4, BlankIs DEF Pcs
<1>6. OnlyCall(c) /\ call'[c] = Blank("read", kind, s, want)
  BY <1>2, <1>5, CallsSet
<1>7. /\ call'[c].pc = "read" /\ call'[c].kind = kind /\ call'[c].share = s
      /\ call'[c].want = want /\ call'[c].left = <<>> /\ call'[c].csrf = 0
  BY <1>4, <1>6, BlankIs DEF Pcs
<1> DEFINE added == IF "hosts" \in DOMAIN want THEN {want.hosts} ELSE {}
<1>8. added \subseteq Lists /\ ("hosts" \in DOMAIN want => want["hosts"] \in added)
  BY <1>3, WantsAre DEF Fits, Holds
<1>9. hist' = [hist EXCEPT !.cfg[c] = cfg[s], !.conf[c] = conf, !.asked[s] = @ \cup added]
  BY <1>2
<1> HIDE DEF added
<1>10. hist \in Histories /\ cfg[s] \in Settings /\ conf \in [Shares -> Modes]
  BY DEF Types
<1>11. /\ hist' \in Histories
       /\ hist'.moved = hist.moved /\ hist'.raced = hist.raced /\ hist'.undone = hist.undone
       /\ hist'.cfg = [hist.cfg EXCEPT ![c] = cfg[s]] /\ hist'.conf = [hist.conf EXCEPT ![c] = conf]
       /\ hist'.asked = [hist.asked EXCEPT ![s] = hist.asked[s] \cup added]
  BY <1>8, <1>9, <1>10 DEF Histories
<1>12. /\ hist'.cfg[c] = cfg[s] /\ hist'.conf[c] = conf
       /\ \A d \in Calls \ {c} : hist'.cfg[d] = hist.cfg[d] /\ hist'.conf[d] = hist.conf[d]
  BY <1>10, <1>11 DEF Histories
<1>13. /\ \A x \in Shares : hist.asked[x] \subseteq hist'.asked[x]
       /\ added \subseteq hist'.asked[s]
  BY <1>10, <1>11 DEF Histories
<1>14. call[c].pc = "idle" /\ UNCHANGED <<settings, token, direct, wire, budget>>
  BY DEF Begin, emhttp, files, settings
<1>15. QED
  BY <1>2, <1>6, <1>7, <1>8, <1>11, <1>12, <1>13, <1>14

LEMMA ReadShareDoes ==
    ASSUME Types, AllShaped, NEW c \in Calls, ReadShare(c)
    PROVE  /\ OnlyCall(c) /\ Names(c) /\ call[c].pc = "read" /\ call'[c].pc = "readRest"
           /\ call'[c].seen = IF call[c].kind = "smb" THEN cfg[ShareOf(c)] ELSE mem[ShareOf(c)]
           /\ call'[c].left = call[c].left /\ call'[c].csrf = call[c].csrf
           /\ UNCHANGED <<settings, token, direct, wire, budget, hist>>
<1> DEFINE x == IF call[c].kind = "smb" THEN cfg[ShareOf(c)] ELSE mem[ShareOf(c)]
<1>1. call[c].pc = "read" /\ UNCHANGED <<settings, token, direct, wire, budget, hist>>
  BY DEF ReadShare, emhttp, files, settings
<1>2. call[c] \in CallRecords /\ x \in Settings
  BY <1>1, RunningIs DEF Types
<1>3. call' = [call EXCEPT ![c].pc = "readRest", ![c].seen = x]
  BY DEF ReadShare
<1> HIDE DEF x
<1>4. call' = [call EXCEPT ![c] = [call[c] EXCEPT !.pc = "readRest", !.seen = x]]
  BY <1>3
<1>5. [call[c] EXCEPT !.pc = "readRest", !.seen = x] \in CallRecords
  BY <1>2 DEF CallRecords, Pcs
<1>6. OnlyCall(c) /\ call'[c] = [call[c] EXCEPT !.pc = "readRest", !.seen = x]
  BY <1>4, <1>5, CallsSet
<1>7. /\ Names(c) /\ call'[c].pc = "readRest" /\ call'[c].seen = x
      /\ call'[c].left = call[c].left /\ call'[c].csrf = call[c].csrf
  BY <1>2, <1>6 DEF Names, CallRecords
<1>8. QED
  BY <1>1, <1>6, <1>7 DEF x

(* The Share page a cache set sends.                                        *)
Page(c) == Overlay([f \in PageFields |-> call[c].seen[f]], call[c].want)

LEMMA PageIs ==
    ASSUME Types, AllShaped, NEW c \in Calls, call[c].pc # "idle", call[c].kind = "cache"
    PROVE  /\ Page(c) \in PageForms /\ DOMAIN Page(c) = PageFields
           /\ \A f \in PageFields : Page(c)[f] = IF f \in DOMAIN call[c].want THEN call[c].want[f]
                                                ELSE call[c].seen[f]
<1>1. call[c].want \in Wants("cache") /\ call[c].seen \in Settings
  BY RunningIs DEF CallRecords
<1>2. Fits(call[c].want) /\ DOMAIN call[c].want \subseteq PageFields
  BY <1>1, WantsAre
<1>3. \A f \in PageFields : call[c].seen[f] \in Values
  BY <1>1, SettingsAre DEF Holds, PageFields, Fields
<1>4. Page(c) = [f \in PageFields |-> IF f \in DOMAIN call[c].want THEN call[c].want[f]
                                     ELSE call[c].seen[f]]
  BY DEF Page, Overlay
<1>5. QED
  BY <1>2, <1>3, <1>4 DEF PageForms, Fits, Holds, PageFields

LEMMA FormsAre ==
    ASSUME Types, AllShaped, NEW c \in Calls, call[c].pc # "idle", call[c].kind \in {"cache", "nfs"}
    PROVE  /\ Forms(c) \in Seq(Requests) /\ Forms(c) # <<>>
           /\ call[c].kind = "cache" => Forms(c) = <<Page(c)>>
           /\ call[c].kind = "nfs" /\ call[c].want.export =>
                Forms(c) = <<[hosts |-> call[c].want.hosts], [export |-> TRUE]>>
           /\ call[c].kind = "nfs" /\ ~call[c].want.export => Forms(c) = <<[export |-> FALSE]>>
<1>1. CASE call[c].kind = "cache"
  <2>1. Page(c) \in Requests
    BY <1>1, PageIs DEF Requests
  <2>2. Forms(c) = <<Page(c)>>
    BY <1>1 DEF Forms, Page
  <2>3. QED
    BY <1>1, <2>1, <2>2
<1>2. CASE call[c].kind = "nfs"
  <2>1. call[c].want \in Wants("nfs")
    BY <1>2, RunningIs
  <2>2. CASE call[c].want.export
    <3>1. Forms(c) = <<[hosts |-> call[c].want.hosts], [export |-> TRUE]>>
      BY <1>2, <2>2 DEF Forms
    <3>2. call[c].want.hosts \in Lists
      BY <2>1, <2>2, WantsAre
    <3>3. [hosts |-> call[c].want.hosts] \in Requests /\ [export |-> TRUE] \in Requests
      BY <3>2 DEF Requests
    <3>4. QED
      BY <1>2, <2>2, <3>1, <3>3
  <2>3. CASE ~call[c].want.export
    <3>1. Forms(c) = <<call[c].want>>
      BY <1>2, <2>3 DEF Forms
    <3>2. call[c].want = [export |-> FALSE]
      <4>1. call[c].want \in [hosts : Lists, export : {TRUE}] \cup [export : {FALSE}]
        BY <2>1 DEF Wants
      <4>2. QED
        BY <2>3, <4>1
    <3>3. [export |-> FALSE] \in Requests
      BY DEF Requests
    <3>4. QED
      BY <1>2, <2>3, <3>1, <3>2, <3>3
  <2>4. QED
    BY <2>2, <2>3
<1>3. QED
  BY <1>1, <1>2

LEMMA ReadRestDoes ==
    ASSUME Types, Tokens, AllShaped, NEW c \in Calls, ReadRest(c)
    PROVE  /\ OnlyCall(c) /\ Names(c) /\ call[c].pc = "readRest" /\ call'[c].seen = call[c].seen
           /\ call[c].kind \in {"cache", "nfs"} =>
                call'[c].pc = "send" /\ call'[c].csrf = token /\ call'[c].left = Forms(c)
           /\ call[c].kind = "cache" => call'[c].before = cfg[ShareOf(c)]
           /\ call[c].kind = "smb" => /\ call'[c].pc = "cfg" /\ call'[c].conf = conf
                                      /\ call'[c].left = call[c].left /\ call'[c].csrf = call[c].csrf
           /\ UNCHANGED <<settings, token, direct, wire, budget, hist>>
<1>1. call[c].pc = "readRest" /\ UNCHANGED <<settings, token, direct, wire, budget, hist>>
  BY DEF ReadRest, emhttp, files, settings
<1>2. /\ call[c] \in CallRecords /\ ShareOf(c) \in Shares /\ call[c].kind \in {"cache", "nfs", "smb"}
  BY <1>1, RunningIs
<1>3. cfg[ShareOf(c)] \in Settings /\ mem[ShareOf(c)] \in Settings /\ conf \in [Shares -> Modes]
      /\ token \in Nat
  BY <1>2 DEF Types, Tokens
<1>4. CASE call[c].kind = "cache"
  <2> DEFINE x == [call[c] EXCEPT !.pc = "send", !.csrf = token, !.before = cfg[ShareOf(c)], !.left = Forms(c)]
  <2>1. call' = [call EXCEPT ![c] = x]
    BY <1>4 DEF ReadRest
  <2>2. Forms(c) \in Seq(Requests)
    BY <1>1, <1>4, FormsAre
  <2> HIDE DEF Forms
  <2>3. x \in CallRecords
    BY <1>2, <1>3, <2>2 DEF CallRecords, Pcs
  <2>4. OnlyCall(c) /\ call'[c] = x
    BY <2>1, <2>3, CallsSet
  <2>5. QED
    BY <1>1, <1>2, <1>4, <2>4 DEF Names, CallRecords
<1>5. CASE call[c].kind = "nfs"
  <2> DEFINE b == [call[c].before EXCEPT !.cache = call[c].seen.cache,
                       !.pool = call[c].seen.pool, !.sec = mem[ShareOf(c)].sec]
             x == [call[c] EXCEPT !.pc = "send", !.csrf = token, !.left = Forms(c), !.before = b]
  <2>1. call' = [call EXCEPT ![c] = x]
    BY <1>5 DEF ReadRest
  <2>2. b \in Settings
    <3>1. call[c].before \in Settings /\ call[c].seen \in Settings
      BY <1>2 DEF CallRecords
    <3>2. QED
      BY <1>3, <3>1 DEF Settings
  <2> HIDE DEF b
  <2>4. Forms(c) \in Seq(Requests)
    BY <1>1, <1>5, FormsAre
  <2>5. x \in CallRecords
    BY <1>2, <1>3, <2>2, <2>4 DEF CallRecords, Pcs
  <2>6. OnlyCall(c) /\ call'[c] = x
    BY <2>1, <2>5, CallsSet
  <2>7. QED
    BY <1>1, <1>2, <1>5, <2>6 DEF Names, CallRecords
<1>6. CASE call[c].kind = "smb"
  <2> DEFINE x == [call[c] EXCEPT !.pc = "cfg", !.conf = conf]
  <2>1. call' = [call EXCEPT ![c] = x]
    BY <1>6 DEF ReadRest
  <2>2. x \in CallRecords
    BY <1>2, <1>3 DEF CallRecords, Pcs, SmbOnly
  <2>3. OnlyCall(c) /\ call'[c] = x
    BY <2>1, <2>2, CallsSet
  <2>4. QED
    BY <1>1, <1>2, <1>6, <2>3 DEF Names, CallRecords
<1>7. QED
  BY <1>2, <1>4, <1>5, <1>6

(* One request: the first of what is left, and what becomes of the settings *)
(* when it arrives.                                                         *)
Arrives(s, form, csrf) ==
    IF csrf = token THEN Saved(s, form) ELSE UNCHANGED settings

LEMMA ReceivesDo ==
    ASSUME Types, NEW s \in Shares, NEW form, Fits(form), NEW csrf, Receives(s, form, csrf)
    PROVE  Arrives(s, form, csrf)
<1>1. CASE csrf = token
  BY <1>1, SavesDo DEF Receives, Arrives
<1>2. CASE csrf # token
  BY <1>2 DEF Receives, Arrives, settings
<1>3. QED
  BY <1>1, <1>2

LEMMA ArrivesTypes ==
    ASSUME Types, NEW s, NEW form, NEW csrf, Arrives(s, form, csrf)
    PROVE  /\ mem' \in [Shares -> Settings] /\ cfg' \in [Shares -> Settings]
           /\ conf' \in [Shares -> Modes] /\ smbd' \in [Shares -> Modes]
BY DEF Types, Arrives, Saved, settings

LEMMA OneForm ==
    ASSUME NEW S, NEW x \in S
    PROVE  /\ <<x>> \in Seq(S) /\ <<x>> # <<>> /\ Head(<<x>>) = x /\ Tail(<<x>>) = <<>>
OBVIOUS

LEMMA TwoForms ==
    ASSUME NEW S, NEW x \in S, NEW y \in S
    PROVE  /\ <<x, y>> \in Seq(S) /\ <<x, y>> # <<>>
           /\ Head(<<x, y>>) = x /\ Tail(<<x, y>>) = <<y>>
OBVIOUS

LEMMA LeftIs ==
    ASSUME Types, AllShaped, NEW c \in Calls, call[c].pc = "send"
    PROVE  /\ call[c].left \in Seq(Requests) /\ call[c].left # <<>>
           /\ Head(call[c].left) \in Requests /\ Tail(call[c].left) \in Seq(Requests)
           /\ \/ /\ call[c].kind = "cache"
                 /\ Head(call[c].left) = Page(c) /\ Tail(call[c].left) = <<>>
              \/ /\ call[c].kind = "nfs" /\ call[c].want.export
                 /\ Head(call[c].left) = [hosts |-> call[c].want.hosts]
                 /\ Tail(call[c].left) = <<[export |-> TRUE]>>
              \/ /\ call[c].kind = "nfs" /\ call[c].want.export
                 /\ call[c].left = <<[export |-> TRUE]>>
                 /\ Head(call[c].left) = [export |-> TRUE] /\ Tail(call[c].left) = <<>>
              \/ /\ call[c].kind = "nfs" /\ ~call[c].want.export
                 /\ Head(call[c].left) = [export |-> FALSE] /\ Tail(call[c].left) = <<>>
<1>1. call[c].left \in Seq(Requests)
  BY DEF Types, CallRecords
<1>2. LeftOf(c) /\ call[c].kind \in {"cache", "nfs"}
  BY DEF AllShaped, Shaped
<1>3. CASE call[c].kind = "cache"
  <2>1. call[c].left = <<Page(c)>>
    BY <1>2, <1>3 DEF LeftOf, Page
  <2>2. Page(c) \in Requests
    BY <1>3, PageIs DEF Requests
  <2>3. Head(call[c].left) = Page(c) /\ Tail(call[c].left) = <<>>
    BY <2>1, <2>2, OneForm
  <2>4. call[c].left # <<>> /\ <<>> \in Seq(Requests)
    BY <2>1, <2>2, OneForm
  <2>5. QED
    BY <1>1, <1>3, <2>2, <2>3, <2>4
<1>4. CASE call[c].kind = "nfs" /\ call[c].want.export /\
           call[c].left = <<[hosts |-> call[c].want.hosts], [export |-> TRUE]>>
  <2>1. call[c].want.hosts \in Lists
    <3>1. call[c].want \in Wants("nfs")
      BY <1>4, RunningIs
    <3>2. call[c].want.export
      BY <1>4
    <3>3. QED
      BY <3>1, <3>2, WantsAre
  <2>2. [hosts |-> call[c].want.hosts] \in Requests /\ [export |-> TRUE] \in Requests
    BY <2>1 DEF Requests
  <2> DEFINE h == [hosts |-> call[c].want.hosts]
             e == [export |-> TRUE]
  <2>3. call[c].left = <<h, e>> /\ h \in Requests /\ e \in Requests
    BY <1>4, <2>2
  <2> HIDE DEF h, e
  <2>4. /\ Head(call[c].left) = h /\ Tail(call[c].left) = <<e>>
        /\ call[c].left # <<>> /\ <<e>> \in Seq(Requests)
    BY <2>3
  <2>5. QED
    BY <1>1, <1>4, <2>3, <2>4 DEF h, e
<1>5. CASE call[c].kind = "nfs" /\ call[c].want.export /\ call[c].left = <<[export |-> TRUE]>>
  BY <1>1, <1>5
<1>6. CASE call[c].kind = "nfs" /\ ~call[c].want.export
  <2>1. call[c].left = <<[export |-> FALSE]>>
    BY <1>2, <1>6 DEF LeftOf
  <2>2. QED
    BY <1>1, <1>6, <2>1
<1>7. QED
  BY <1>2, <1>3, <1>4, <1>5, <1>6 DEF LeftOf

LEMMA SendDoes ==
    ASSUME Types, Tokens, AllShaped, NEW c \in Calls, Send(c)
    PROVE  /\ call[c].pc = "send" /\ UNCHANGED <<token, direct, budget>>
           /\ MovedOnly(Locked(c))
           /\ \/ /\ OnlyCall(c) /\ Names(c) /\ Readings(c) /\ call'[c].csrf = call[c].csrf
                 /\ call'[c].left = Tail(call[c].left)
                 /\ call'[c].pc = IF Tail(call[c].left) = <<>> THEN "verify" ELSE "send"
                 /\ Arrives(ShareOf(c), Head(call[c].left), call[c].csrf)
                 /\ UNCHANGED wire
              \/ /\ Stops(c, "failed")
                 /\ Arrives(ShareOf(c), Head(call[c].left), call[c].csrf) \/ UNCHANGED settings
                 /\ \/ UNCHANGED wire
                    \/ wire' = wire \cup {[share |-> ShareOf(c), form |-> Head(call[c].left),
                                           csrf |-> call[c].csrf]}
<1> DEFINE s == ShareOf(c)
           form == Head(call[c].left)
           rest == Tail(call[c].left)
<1>1. PICK r \in {"ok"} \cup (Faults \cap {"fail", "lost", "late"}) :
        /\ IF r \in {"ok", "lost"} THEN Receives(s, form, call[c].csrf)
           ELSE UNCHANGED <<mem, cfg, conf, smbd>>
        /\ IF r = "ok"
           THEN call' = [call EXCEPT ![c].left = rest, ![c].pc = AfterSend(rest)]
           ELSE End(c, "failed")
        /\ wire' = IF r = "late"
                   THEN wire \cup {[share |-> s, form |-> form, csrf |-> call[c].csrf]}
                   ELSE wire
        /\ hist' = [hist EXCEPT !.moved = Moved(Locked(c))]
  BY DEF Send
<1>2. call[c].pc = "send" /\ UNCHANGED <<token, direct, budget>>
  BY DEF Send
<1>3. call[c] \in CallRecords /\ s \in Shares
  BY <1>2, RunningIs
<1>4. form \in Requests /\ rest \in Seq(Requests)
  BY <1>2, LeftIs
<1>5. Fits(form)
  BY <1>4, RequestsAre
<1>6. MovedOnly(Locked(c))
  BY <1>1, HistMoved
<1>7. r \in {"ok", "lost"} => Arrives(s, form, call[c].csrf)
  BY <1>1, <1>3, <1>5, ReceivesDo
<1>8. CASE r = "ok"
  <2> HIDE DEF rest
  <2> DEFINE x == [call[c] EXCEPT !.left = rest, !.pc = AfterSend(rest)]
  <2>1. call' = [call EXCEPT ![c] = x]
    BY <1>1, <1>8
  <2>2. AfterSend(rest) = (IF rest = <<>> THEN "verify" ELSE "send")
    BY DEF AfterSend
  <2>3. AfterSend(rest) \in Pcs
    BY <2>2 DEF Pcs
  <2>4. x \in CallRecords
    BY <1>3, <1>4, <2>3 DEF CallRecords
  <2>5. OnlyCall(c) /\ call'[c] = x
    BY <2>1, <2>4, CallsSet
  <2>6. /\ Names(c) /\ Readings(c) /\ call'[c].csrf = call[c].csrf
        /\ call'[c].left = rest /\ call'[c].pc = AfterSend(rest)
    BY <1>3, <2>5 DEF Names, Readings, CallRecords
  <2>7. UNCHANGED wire
    BY <1>1, <1>8
  <2>8. QED
    BY <1>2, <1>6, <1>7, <1>8, <2>2, <2>5, <2>6, <2>7 DEF rest
<1>9. CASE r # "ok"
  <2>1. Stops(c, "failed")
    BY <1>1, <1>9, EndDoes DEF Pcs, Ended
  <2>2. Arrives(s, form, call[c].csrf) \/ UNCHANGED settings
    BY <1>1, <1>7, <1>9 DEF settings
  <2>3. QED
    BY <1>1, <1>2, <1>6, <2>1, <2>2
<1>10. QED
  BY <1>8, <1>9

LEMMA VerifyDoes ==
    ASSUME Types, AllShaped, NEW c \in Calls, Verify(c)
    PROVE  /\ call[c].pc = "verify" /\ UNCHANGED <<settings, token, direct, wire, budget, hist>>
           /\ \/ Stops(c, "failed")
              \/ /\ Stops(c, "done")
                 /\ IF call[c].kind = "cache" THEN ReadBack(c) ELSE ~NfsProblems(c)
<1> HIDE DEF ReadBack, NfsProblems
<1>1. call[c].pc = "verify" /\ UNCHANGED <<settings, token, direct, wire, budget, hist>>
  BY DEF Verify, emhttp, files, settings
<1> DEFINE ok == IF call[c].kind = "cache" THEN ReadBack(c) ELSE ~NfsProblems(c)
<1>2. End(c, IF ok THEN "done" ELSE "failed")
  BY DEF Verify
<1>3. "done" \in Pcs /\ "failed" \in Pcs
  BY DEF Pcs, Ended
<1> HIDE DEF ok
<1>4. CASE ok
  <2>1. Stops(c, "done")
    BY <1>2, <1>3, <1>4, EndDoes
  <2>2. QED
    BY <1>1, <1>4, <2>1 DEF ok
<1>5. CASE ~ok
  <2>1. Stops(c, "failed")
    BY <1>2, <1>3, <1>5, EndDoes
  <2>2. QED
    BY <1>1, <2>1
<1>6. QED
  BY <1>4, <1>5

(* The smb set's new share cfg.                                             *)
New(c) == Overlay(call[c].seen, call[c].want)

LEMMA NewIs ==
    ASSUME Types, AllShaped, NEW c \in Calls, call[c].pc # "idle", call[c].kind = "smb"
    PROVE  /\ New(c) \in Settings /\ New(c).sec = call[c].want.sec /\ call[c].want.sec \in Modes
           /\ \A f \in Fields \ {"sec"} : New(c)[f] = call[c].seen[f]
<1>1. call[c].want \in Wants("smb") /\ call[c].seen \in Settings
  BY RunningIs DEF CallRecords
<1>2. Fits(call[c].want) /\ DOMAIN call[c].want = {"sec"} /\ call[c].want.sec \in Modes
  BY <1>1, WantsAre
<1>3. /\ New(c) \in Settings
      /\ \A f \in Fields : New(c)[f] = IF f \in DOMAIN call[c].want THEN call[c].want[f]
                                      ELSE call[c].seen[f]
  BY <1>1, <1>2, OverlayIs DEF New
<1>4. QED
  BY <1>2, <1>3 DEF Fields

(* A cfg written by an smb set, and what is recorded of it.                 *)
Rewrites(c, expected, new) ==
    /\ cfg' = [cfg EXCEPT ![ShareOf(c)] = new]
    /\ cfg[ShareOf(c)] # expected => ShareOf(c) \in hist'.raced
    /\ hist.raced \subseteq hist'.raced

HistWrite(c) ==
    /\ hist' \in Histories /\ hist'.moved = Moved({c}) /\ hist.raced \subseteq hist'.raced
    /\ hist'.undone \subseteq hist.undone /\ hist'.undone \cup {c} = hist.undone \cup {c}
    /\ hist'.asked = hist.asked /\ hist'.cfg = hist.cfg /\ hist'.conf = hist.conf

LEMMA HistWritten ==
    ASSUME Types, NEW c \in Calls, NEW raced \in SUBSET Shares, NEW undone \in SUBSET Calls,
           hist' = [hist EXCEPT !.raced = raced, !.undone = undone, !.moved = Moved({c})],
           hist.raced \subseteq raced, undone \subseteq hist.undone,
           undone \cup {c} = hist.undone \cup {c}
    PROVE  HistWrite(c) /\ hist'.raced = raced /\ hist'.undone = undone
<1>1. hist \in Histories
  BY DEF Types
<1>2. Moved({c}) \in [Calls -> SUBSET (Fields \cup {"conf"})]
  BY MovedIs
<1> HIDE DEF Moved
<1>3. QED
  BY <1>1, <1>2 DEF HistWrite, Histories

LEMMA WriteCfgDoes ==
    ASSUME Types, AllShaped, NEW c \in Calls, WriteCfg(c)
    PROVE  /\ call[c].pc = "cfg" /\ UNCHANGED <<mem, conf, smbd, token, direct, wire, budget>>
           /\ \/ /\ Passes(c, "conf") /\ HistWrite(c) /\ hist'.undone = hist.undone
                 /\ Rewrites(c, call[c].seen, New(c))
              \/ Stops(c, "failed") /\ UNCHANGED <<cfg, hist>>
<1>1. call[c].pc = "cfg" /\ UNCHANGED <<mem, conf, smbd, token, direct, wire, budget>>
  BY DEF WriteCfg, files
<1>2. ShareOf(c) \in Shares /\ hist.raced \in SUBSET Shares /\ hist.undone \in SUBSET Calls
  BY <1>1, RunningIs DEF Types, Histories
<1>3. "conf" \in Pcs /\ "failed" \in Pcs
  BY DEF Pcs, SmbOnly, Ended
<1>4. CASE /\ cfg' = [cfg EXCEPT ![ShareOf(c)] = Overlay(call[c].seen, call[c].want)]
           /\ At(c, "conf")
           /\ hist' = [hist EXCEPT !.raced = Raced(c, call[c].seen), !.moved = Moved({c})]
  <2>1. Passes(c, "conf")
    BY <1>3, <1>4, AtDoes
  <2>2. /\ Raced(c, call[c].seen) \in SUBSET Shares /\ hist.raced \subseteq Raced(c, call[c].seen)
        /\ cfg[ShareOf(c)] # call[c].seen => ShareOf(c) \in Raced(c, call[c].seen)
    BY <1>2 DEF Raced
  <2> HIDE DEF Raced, Moved
  <2>3. hist' = [hist EXCEPT !.raced = Raced(c, call[c].seen), !.undone = hist.undone, !.moved = Moved({c})]
    <3>1. hist \in Histories
      BY DEF Types
    <3>2. QED
      BY <1>4, <3>1 DEF Histories
  <2>4. HistWrite(c) /\ hist'.raced = Raced(c, call[c].seen) /\ hist'.undone = hist.undone
    BY <1>2, <2>2, <2>3, HistWritten
  <2>5. Rewrites(c, call[c].seen, New(c))
    BY <1>4, <2>2, <2>4 DEF Rewrites, New
  <2>6. QED
    BY <1>1, <2>1, <2>4, <2>5
<1>5. CASE End(c, "failed") /\ UNCHANGED <<mem, files, hist>>
  BY <1>1, <1>3, <1>5, EndDoes DEF files
<1>6. QED
  BY <1>4, <1>5 DEF WriteCfg

LEMMA WriteConfDoes ==
    ASSUME Types, AllShaped, NEW c \in Calls, WriteConf(c)
    PROVE  /\ call[c].pc = "conf" /\ UNCHANGED <<mem, cfg, smbd, token, direct, wire, budget>>
           /\ \/ /\ Passes(c, "reload") /\ MovedOnly({c})
                 /\ conf' = [call[c].conf EXCEPT ![ShareOf(c)] = call[c].want.sec]
              \/ Passes(c, "undoCfgOnly") /\ UNCHANGED <<conf, hist>>
<1>1. call[c].pc = "conf" /\ UNCHANGED <<mem, cfg, smbd, token, direct, wire, budget>>
  BY DEF WriteConf, files
<1>2. "reload" \in Pcs /\ "undoCfgOnly" \in Pcs
  BY DEF Pcs, SmbOnly
<1>3. CASE /\ conf' = [call[c].conf EXCEPT ![ShareOf(c)] = call[c].want.sec]
           /\ At(c, "reload")
           /\ hist' = [hist EXCEPT !.moved = Moved({c})]
  BY <1>1, <1>2, <1>3, AtDoes, HistMoved
<1>4. CASE At(c, "undoCfgOnly") /\ UNCHANGED <<mem, files, hist>>
  BY <1>1, <1>2, <1>4, AtDoes DEF files
<1>5. QED
  BY <1>3, <1>4 DEF WriteConf

LEMMA ReloadDoes ==
    ASSUME Types, AllShaped, NEW c \in Calls, Reload(c)
    PROVE  /\ call[c].pc = "reload" /\ UNCHANGED <<mem, cfg, conf, token, direct, wire, budget, hist>>
           /\ smbd' = smbd \/ smbd' = conf
           /\ (Stops(c, "done") /\ smbd' = conf) \/ Passes(c, "undoCfg")
<1>1. call[c].pc = "reload" /\ UNCHANGED <<mem, cfg, conf, token, direct, wire, budget, hist>>
  BY DEF Reload, files, emhttp
<1>2. "done" \in Pcs /\ "undoCfg" \in Pcs
  BY DEF Pcs, SmbOnly, Ended
<1>3. PICK r \in {"ok"} \cup (Faults \cap {"fail", "lost"}) :
         /\ smbd' = IF r = "fail" THEN smbd ELSE conf
         /\ IF r = "ok" THEN End(c, "done") ELSE At(c, "undoCfg")
  BY DEF Reload, AfterReloadFails
<1>4. QED
  BY <1>1, <1>2, <1>3, EndDoes, AtDoes

LEMMA UndoCfgDoes ==
    ASSUME Types, AllShaped, NEW c \in Calls, UndoCfg(c)
    PROVE  /\ call[c].pc \in {"undoCfg", "undoCfgOnly"}
           /\ UNCHANGED <<mem, conf, smbd, token, direct, wire, budget>>
           /\ HistWrite(c)
           /\ \/ Rewrites(c, New(c), call[c].seen)
              \/ UNCHANGED cfg /\ c \notin hist'.undone
           /\ IF call[c].pc = "undoCfg" THEN Passes(c, "undoConf") ELSE Stops(c, "failed")
<1>1. /\ call[c].pc \in {"undoCfg", "undoCfgOnly"}
      /\ UNCHANGED <<mem, conf, smbd, token, direct, wire, budget>>
  BY DEF UndoCfg
<1>2. ShareOf(c) \in Shares /\ hist.raced \in SUBSET Shares /\ hist.undone \in SUBSET Calls
  BY <1>1, RunningIs DEF Types, Histories
<1>3. "undoConf" \in Pcs /\ "failed" \in Pcs
  BY DEF Pcs, SmbOnly, Ended
<1>4. IF call[c].pc = "undoCfg" THEN Passes(c, "undoConf") ELSE Stops(c, "failed")
  BY <1>3, AtDoes, EndDoes DEF UndoCfg
<1>5. PICK r \in UndoWrite :
         /\ cfg' = IF r = "ok" THEN [cfg EXCEPT ![ShareOf(c)] = call[c].seen] ELSE cfg
         /\ hist' = [hist EXCEPT
                       !.raced = Raced(c, Overlay(call[c].seen, call[c].want)),
                       !.undone = IF r = "ok" THEN @ ELSE @ \ {c}, !.moved = Moved({c})]
  BY DEF UndoCfg
<1> DEFINE raced == Raced(c, New(c))
           undone == IF r = "ok" THEN hist.undone ELSE hist.undone \ {c}
<1>6. hist' = [hist EXCEPT !.raced = raced, !.undone = undone, !.moved = Moved({c})]
  BY <1>5 DEF New
<1>7. /\ raced \in SUBSET Shares /\ hist.raced \subseteq raced
      /\ cfg[ShareOf(c)] # New(c) => ShareOf(c) \in raced
  BY <1>2 DEF Raced
<1>8. /\ undone \in SUBSET Calls /\ undone \subseteq hist.undone
      /\ undone \cup {c} = hist.undone \cup {c} /\ (r # "ok" => c \notin undone)
  BY <1>2
<1> HIDE DEF raced, undone
<1>9. HistWrite(c) /\ hist'.raced = raced /\ hist'.undone = undone
  BY <1>6, <1>7, <1>8, HistWritten
<1>10. Rewrites(c, New(c), call[c].seen) \/ (UNCHANGED cfg /\ c \notin hist'.undone)
  BY <1>5, <1>7, <1>8, <1>9 DEF Rewrites
<1>11. QED
  BY <1>1, <1>4, <1>9, <1>10

LEMMA UndoConfDoes ==
    ASSUME Types, AllShaped, NEW c \in Calls, UndoConf(c)
    PROVE  /\ call[c].pc = "undoConf" /\ Stops(c, "failed")
           /\ UNCHANGED <<mem, cfg, smbd, token, direct, wire, budget>>
           /\ HistWrite(c) /\ hist'.raced = hist.raced
           /\ conf' = call[c].conf \/ (UNCHANGED conf /\ c \notin hist'.undone)
<1>1. /\ call[c].pc = "undoConf" /\ End(c, "failed")
      /\ UNCHANGED <<mem, cfg, smbd, token, direct, wire, budget>>
  BY DEF UndoConf
<1>2. hist.raced \in SUBSET Shares /\ hist.undone \in SUBSET Calls /\ hist \in Histories
  BY DEF Types, Histories
<1>3. Stops(c, "failed")
  BY <1>1, EndDoes DEF Pcs, Ended
<1>4. PICK r \in UndoWrite :
         /\ conf' = IF r = "ok" THEN call[c].conf ELSE conf
         /\ hist' = [hist EXCEPT !.undone = IF r = "ok" THEN @ ELSE @ \ {c}, !.moved = Moved({c})]
  BY DEF UndoConf
<1> DEFINE undone == IF r = "ok" THEN hist.undone ELSE hist.undone \ {c}
<1>5. /\ undone \in SUBSET Calls /\ undone \subseteq hist.undone
      /\ undone \cup {c} = hist.undone \cup {c} /\ (r # "ok" => c \notin undone)
  BY <1>2
<1>6. hist' = [hist EXCEPT !.undone = undone, !.moved = Moved({c})]
  BY <1>4
<1> HIDE DEF undone, Moved
<1>7. hist' = [hist EXCEPT !.raced = hist.raced, !.undone = undone, !.moved = Moved({c})]
  BY <1>2, <1>6 DEF Histories
<1>8. HistWrite(c) /\ hist'.raced = hist.raced /\ hist'.undone = undone
  BY <1>2, <1>5, <1>7, HistWritten
<1>9. QED
  BY <1>1, <1>3, <1>4, <1>5, <1>8

LEMMA LandsDoes ==
    ASSUME Types, NEW m \in wire, Lands(m)
    PROVE  /\ m \in Messages /\ wire' = wire \ {m} /\ UNCHANGED <<token, direct, call, budget>>
           /\ Arrives(m.share, m.form, m.csrf) /\ MovedOnly({})
<1>1. m \in Messages /\ m.share \in Shares /\ m.form \in Requests
  BY DEF Types, Messages
<1>2. Arrives(m.share, m.form, m.csrf)
  BY <1>1, RequestsAre, ReceivesDo DEF Lands
<1>3. MovedOnly({})
  BY HistMoved DEF Lands
<1>4. QED
  BY <1>1, <1>2, <1>3 DEF Lands

LEMMA UiSaveDoes ==
    ASSUME Types, UiSave
    PROVE  /\ budget > 0 /\ budget' = budget - 1 /\ UNCHANGED <<token, direct, call, wire>>
           /\ hist' \in Histories /\ hist'.moved = Moved({})
           /\ hist'.raced = hist.raced /\ hist'.undone = hist.undone
           /\ hist'.cfg = hist.cfg /\ hist'.conf = hist.conf
           /\ \A s \in Shares : hist.asked[s] \subseteq hist'.asked[s]
           /\ \E s \in Shares : \E form :
                /\ Fits(form) /\ Saved(s, form)
                /\ "hosts" \in DOMAIN form => form["hosts"] \in hist'.asked[s]
                /\ "export" \in DOMAIN form => mem[s].hosts \in hist'.asked[s]
<1>1. PICK s \in Shares, f \in UiFields : \E v \in {x[f] : x \in Settings} :
         /\ Saves(s, [g \in {f} |-> v])
         /\ hist' = [hist EXCEPT !.moved = Moved({}),
                       !.asked[s] = @ \cup IF f = "hosts" THEN {v}
                                           ELSE IF f = "export" THEN {mem[s].hosts} ELSE {}]
  BY DEF UiSave
<1>2. PICK x \in Settings :
         /\ Saves(s, [g \in {f} |-> x[f]])
         /\ hist' = [hist EXCEPT !.moved = Moved({}),
                       !.asked[s] = @ \cup IF f = "hosts" THEN {x[f]}
                                           ELSE IF f = "export" THEN {mem[s].hosts} ELSE {}]
  BY <1>1
<1>3. f \in Fields /\ Holds(f, x[f])
  <2>1. f \in Fields
    BY ConstantsAssumption
  <2>2. QED
    BY <2>1, SettingsAre
<1> DEFINE form == [g \in {f} |-> x[f]]
           added == IF f = "hosts" THEN {x[f]} ELSE IF f = "export" THEN {mem[s].hosts} ELSE {}
<1>4. Fits(form) /\ DOMAIN form = {f} /\ form[f] = x[f]
  BY <1>3 DEF Fits
<1>5. hist' = [hist EXCEPT !.moved = Moved({}), !.asked[s] = @ \cup added]
  BY <1>2
<1>6. added \subseteq Lists
  <2>1. mem[s].hosts \in Lists
    BY DEF Types, Settings
  <2>2. f = "hosts" => x[f] \in Lists
    BY <1>3 DEF Holds
  <2>3. QED
    BY <2>1, <2>2
<1>7. (f = "hosts" => x[f] \in added) /\ (f = "export" => mem[s].hosts \in added)
  OBVIOUS
<1>8. Saves(s, form)
  BY <1>2
<1> HIDE DEF form, added, Moved
<1>9. Saved(s, form)
  BY <1>4, <1>8, SavesDo
<1>10. hist \in Histories /\ Moved({}) \in [Calls -> SUBSET (Fields \cup {"conf"})]
  BY MovedIs DEF Types
<1>11. /\ hist' \in Histories /\ hist'.moved = Moved({})
       /\ hist'.raced = hist.raced /\ hist'.undone = hist.undone
       /\ hist'.cfg = hist.cfg /\ hist'.conf = hist.conf
       /\ hist'.asked = [hist.asked EXCEPT ![s] = hist.asked[s] \cup added]
  BY <1>5, <1>6, <1>10 DEF Histories
<1>12. (\A t \in Shares : hist.asked[t] \subseteq hist'.asked[t]) /\ added \subseteq hist'.asked[s]
  BY <1>10, <1>11 DEF Histories
<1>13. /\ "hosts" \in DOMAIN form => form["hosts"] \in hist'.asked[s]
       /\ "export" \in DOMAIN form => mem[s].hosts \in hist'.asked[s]
  BY <1>4, <1>7, <1>12
<1>14. budget > 0 /\ budget' = budget - 1 /\ UNCHANGED <<token, direct, call, wire>>
  BY DEF UiSave, Acts
<1>15. \E t \in Shares : \E g :
         /\ Fits(g) /\ Saved(t, g)
         /\ "hosts" \in DOMAIN g => g["hosts"] \in hist'.asked[t]
         /\ "export" \in DOMAIN g => mem[t].hosts \in hist'.asked[t]
  BY <1>4, <1>9, <1>13
<1>16. QED
  BY <1>11, <1>12, <1>14, <1>15

LEMMA RestartDoes ==
    ASSUME Types, Restart
    PROVE  /\ budget > 0 /\ budget' = budget - 1 /\ token' = token + 1
           /\ mem' = cfg /\ cfg' = cfg /\ wire' = {}
           /\ conf' \in [Shares -> Modes] /\ smbd' \in [Shares -> Modes]
           /\ UNCHANGED <<direct, call>> /\ MovedOnly({})
<1>1. MovedOnly({})
  BY HistMoved DEF Restart
<1>2. \A s \in Shares : cfg[s].sec \in Modes
  BY DEF Types, Settings
<1>3. QED
  BY <1>1, <1>2 DEF Restart, Acts

Dies(d) ==
    Running(d) /\ Names(d) /\ call'[d].pc = "crashed" /\ call'[d].left = <<>> /\ call'[d].csrf = 0

LEMMA CrashDoes ==
    ASSUME Types, NEW c \in Calls, Crash(c)
    PROVE  /\ budget > 0 /\ budget' = budget - 1 /\ UNCHANGED <<settings, token, direct, wire, hist>>
           /\ call' \in [Calls -> CallRecords]
           /\ \A d \in Calls : call'[d] = call[d] \/ Dies(d)
<1>1. budget > 0 /\ budget' = budget - 1 /\ UNCHANGED <<settings, token, direct, wire, hist>>
  BY DEF Crash, Acts, emhttp, files, settings
<1> DEFINE died == {d \in Calls : Running(d) /\
                      (d = c \/ direct \/ (call[c].kind = "nfs" /\ call[d].kind = "nfs"))}
           dead(d) == Blank("crashed", call[d].kind, call[d].share, call[d].want)
<1>2. call' = [d \in Calls |-> IF d \in died THEN dead(d) ELSE call[d]]
  BY DEF Crash, Blank, ShareOf
<1>3. ASSUME NEW d \in Calls
      PROVE  /\ call[d] \in CallRecords
             /\ dead(d) \in CallRecords /\ dead(d).pc = "crashed" /\ dead(d).left = <<>>
             /\ dead(d).csrf = 0 /\ dead(d).kind = call[d].kind /\ dead(d).share = call[d].share
             /\ dead(d).want = call[d].want
  <2>1. call[d] \in CallRecords
    BY DEF Types
  <2>2. /\ call[d].kind \in Kinds \cup {"none"} /\ call[d].share \in Shares \cup {"none"}
        /\ call[d].want \in Wanted
    BY <2>1 DEF CallRecords
  <2>3. "crashed" \in Pcs
    BY DEF Pcs, Ended
  <2> DEFINE kind == call[d].kind
             share == call[d].share
             want == call[d].want
  <2>4. dead(d) = Blank("crashed", kind, share, want)
    OBVIOUS
  <2>5. kind \in Kinds \cup {"none"} /\ share \in Shares \cup {"none"} /\ want \in Wanted
    BY <2>2
  <2>6. kind = call[d].kind /\ share = call[d].share /\ want = call[d].want
    OBVIOUS
  <2> HIDE DEF died, dead, kind, share, want
  <2>7. LET b == Blank("crashed", kind, share, want)
        IN  /\ b \in CallRecords /\ b.pc = "crashed" /\ b.left = <<>> /\ b.csrf = 0
            /\ b.kind = kind /\ b.share = share /\ b.want = want
    BY <2>3, <2>5, BlankIs
  <2>8. QED
    BY <2>1, <2>4, <2>6, <2>7
<1>4. \A d \in died : d \in Calls /\ Running(d)
  OBVIOUS
<1> HIDE DEF died, dead
<1>5. call' \in [Calls -> CallRecords]
  BY <1>2, <1>3
<1>6. ASSUME NEW d \in Calls PROVE call'[d] = call[d] \/ Dies(d)
  BY <1>2, <1>3, <1>4 DEF Dies, Names
<1>7. QED
  BY <1>1, <1>5, <1>6

-----------------------------------------------------------------------------
(* The invariant's parts, step by step. *)
LEMMA TypesInductive ==
    ASSUME Types, Tokens, AllShaped, [Next]_vars
    PROVE  Types'
<1>1. ASSUME NEW c \in Calls, Begin(c) PROVE Types'
  BY <1>1, BeginDoes DEF Types, OnlyCall, settings
<1>2. ASSUME NEW c \in Calls, ReadShare(c) PROVE Types'
  BY <1>2, ReadShareDoes DEF Types, OnlyCall, settings
<1>3. ASSUME NEW c \in Calls, ReadRest(c) PROVE Types'
  BY <1>3, ReadRestDoes DEF Types, OnlyCall, settings
<1>4. ASSUME NEW c \in Calls, Send(c) PROVE Types'
  <2>1. /\ mem' \in [Shares -> Settings] /\ cfg' \in [Shares -> Settings]
        /\ conf' \in [Shares -> Modes] /\ smbd' \in [Shares -> Modes]
    <3>1. UNCHANGED settings \/ Arrives(ShareOf(c), Head(call[c].left), call[c].csrf)
      BY <1>4, SendDoes
    <3>2. CASE UNCHANGED settings
      BY <3>2 DEF Types, settings
    <3>3. QED
      BY <3>1, <3>2, ArrivesTypes
  <2>2. call' \in [Calls -> CallRecords] /\ hist' \in Histories /\ UNCHANGED direct
    BY <1>4, SendDoes DEF OnlyCall, Stops, MovedOnly
  <2>3. wire' \subseteq Messages
    <3>1. call[c].pc = "send"
      BY <1>4, SendDoes
    <3>2. ShareOf(c) \in Shares /\ Head(call[c].left) \in Requests /\ call[c].csrf \in Nat
      BY <3>1, RunningIs, LeftIs DEF CallRecords
    <3>3. [share |-> ShareOf(c), form |-> Head(call[c].left), csrf |-> call[c].csrf] \in Messages
      BY <3>2 DEF Messages
    <3>4. \/ UNCHANGED wire
          \/ wire' = wire \cup {[share |-> ShareOf(c), form |-> Head(call[c].left),
                                 csrf |-> call[c].csrf]}
      BY <1>4, SendDoes
    <3>5. QED
      BY <3>3, <3>4 DEF Types
  <2>4. QED
    BY <2>1, <2>2, <2>3 DEF Types
<1>5. ASSUME NEW c \in Calls, Verify(c) PROVE Types'
  BY <1>5, VerifyDoes DEF Types, OnlyCall, Stops, settings
<1>6. ASSUME NEW c \in Calls, call[c].pc # "idle", NEW x \in Settings
      PROVE  [cfg EXCEPT ![ShareOf(c)] = x] \in [Shares -> Settings]
  BY <1>6 DEF Types
<1>7. ASSUME NEW c \in Calls, WriteCfg(c) \/ UndoCfg(c) PROVE Types'
  <2>1. call[c].pc \in SmbOnly
    BY <1>7, WriteCfgDoes, UndoCfgDoes DEF SmbOnly
  <2>2. call[c].pc # "idle" /\ call[c].kind = "smb"
    BY <2>1 DEF AllShaped, Shaped, SmbOnly
  <2>3. New(c) \in Settings /\ call[c].seen \in Settings
    BY <2>2, NewIs, RunningIs DEF CallRecords
  <2>4. cfg' \in [Shares -> Settings]
    <3>1. UNCHANGED cfg \/ Rewrites(c, call[c].seen, New(c)) \/ Rewrites(c, New(c), call[c].seen)
      BY <1>7, WriteCfgDoes, UndoCfgDoes
    <3>2. QED
      BY <1>6, <2>2, <2>3, <3>1 DEF Rewrites, Types
  <2>5. call' \in [Calls -> CallRecords]
    BY <1>7, WriteCfgDoes, UndoCfgDoes DEF Passes, Stops, OnlyCall
  <2>6. hist' \in Histories
    <3>1. HistWrite(c) \/ UNCHANGED hist
      BY <1>7, WriteCfgDoes, UndoCfgDoes
    <3>2. QED
      BY <3>1 DEF HistWrite, Types
  <2>7. UNCHANGED <<mem, conf, smbd, direct, wire>>
    BY <1>7, WriteCfgDoes, UndoCfgDoes
  <2>8. QED
    BY <2>4, <2>5, <2>6, <2>7 DEF Types
<1>8. ASSUME NEW c \in Calls, WriteConf(c) \/ UndoConf(c) PROVE Types'
  <2>1. call[c].pc \in SmbOnly
    BY <1>8, WriteConfDoes, UndoConfDoes DEF SmbOnly
  <2>2. call[c].pc # "idle" /\ call[c].kind = "smb"
    BY <2>1 DEF AllShaped, Shaped, SmbOnly
  <2>3. call[c].conf \in [Shares -> Modes] /\ call[c].want.sec \in Modes /\ ShareOf(c) \in Shares
    BY <2>2, NewIs, RunningIs DEF CallRecords
  <2>4. conf' \in [Shares -> Modes]
    <3>1. \/ UNCHANGED conf \/ conf' = call[c].conf
          \/ conf' = [call[c].conf EXCEPT ![ShareOf(c)] = call[c].want.sec]
      BY <1>8, WriteConfDoes, UndoConfDoes
    <3>2. QED
      BY <2>3, <3>1 DEF Types
  <2>5. call' \in [Calls -> CallRecords]
    BY <1>8, WriteConfDoes, UndoConfDoes DEF Passes, Stops, OnlyCall
  <2>6. hist' \in Histories
    <3>1. HistWrite(c) \/ MovedOnly({c}) \/ UNCHANGED hist
      BY <1>8, WriteConfDoes, UndoConfDoes
    <3>2. QED
      BY <3>1 DEF HistWrite, MovedOnly, Types
  <2>7. UNCHANGED <<mem, cfg, smbd, direct, wire>>
    BY <1>8, WriteConfDoes, UndoConfDoes
  <2>8. QED
    BY <2>4, <2>5, <2>6, <2>7 DEF Types
<1>9. ASSUME NEW c \in Calls, Reload(c) PROVE Types'
  BY <1>9, ReloadDoes DEF Types, OnlyCall, Stops, Passes
<1>10. ASSUME NEW c \in Calls, Crash(c) PROVE Types'
  BY <1>10, CrashDoes DEF Types, settings
<1>11. ASSUME NEW m \in wire, Lands(m) PROVE Types'
  <2>1. /\ mem' \in [Shares -> Settings] /\ cfg' \in [Shares -> Settings]
        /\ conf' \in [Shares -> Modes] /\ smbd' \in [Shares -> Modes]
    BY <1>11, LandsDoes, ArrivesTypes
  <2>2. QED
    BY <1>11, <2>1, LandsDoes DEF Types, MovedOnly
<1>12. CASE UiSave
  <2>1. /\ mem' \in [Shares -> Settings] /\ cfg' \in [Shares -> Settings]
        /\ conf' \in [Shares -> Modes] /\ smbd' \in [Shares -> Modes]
    BY <1>12, UiSaveDoes DEF Saved
  <2>2. QED
    BY <1>12, <2>1, UiSaveDoes DEF Types
<1>13. CASE Restart
  BY <1>13, RestartDoes DEF Types, MovedOnly
<1>14. CASE UNCHANGED vars
  BY <1>14 DEF Types, vars
<1>15. QED
  BY <1>1, <1>2, <1>3, <1>4, <1>5, <1>7, <1>8, <1>9, <1>10, <1>11, <1>12, <1>13, <1>14
  DEF Next, Verb

LEMMA TokensInductive ==
    ASSUME Types, Tokens, AllShaped, [Next]_vars
    PROVE  Tokens'
<1>1. \A c \in Calls : call[c].csrf \in Nat
  BY DEF Types, CallRecords
<1>2. \A m \in wire : m.csrf \in Nat
  BY DEF Types, Messages
<1>3. ASSUME UNCHANGED <<token, budget>>, wire' \subseteq wire,
             \A c \in Calls : call'[c].csrf = call[c].csrf \/ call'[c].csrf = 0 \/ call'[c].csrf = token
      PROVE  Tokens'
  BY <1>1, <1>3 DEF Tokens
<1>4. ASSUME NEW c \in Calls,
             Begin(c) \/ ReadShare(c) \/ ReadRest(c) \/ Verify(c) \/ WriteCfg(c) \/ WriteConf(c)
               \/ Reload(c) \/ UndoCfg(c) \/ UndoConf(c)
      PROVE  Tokens'
  <2>1. UNCHANGED <<token, budget, wire>>
    BY <1>4, BeginDoes, ReadShareDoes, ReadRestDoes, VerifyDoes, WriteCfgDoes, WriteConfDoes,
       ReloadDoes, UndoCfgDoes, UndoConfDoes
  <2>2. OnlyCall(c)
    BY <1>4, BeginDoes, ReadShareDoes, ReadRestDoes, VerifyDoes, WriteCfgDoes, WriteConfDoes,
       ReloadDoes, UndoCfgDoes, UndoConfDoes DEF Passes, Stops
  <2>3. call'[c].csrf = call[c].csrf \/ call'[c].csrf = 0 \/ call'[c].csrf = token
    <3>1. CASE Begin(c)
      BY <3>1, BeginDoes
    <3>2. CASE ReadShare(c)
      BY <3>2, ReadShareDoes
    <3>3. CASE ReadRest(c)
      <4>1. call[c].kind \in {"cache", "nfs", "smb"}
        BY <3>3, ReadRestDoes, RunningIs
      <4>2. QED
        BY <3>3, <4>1, ReadRestDoes
    <3>4. CASE Verify(c)
      BY <3>4, VerifyDoes DEF Stops
    <3>5. CASE WriteCfg(c) \/ WriteConf(c) \/ Reload(c) \/ UndoCfg(c) \/ UndoConf(c)
      BY <3>5, WriteCfgDoes, WriteConfDoes, ReloadDoes, UndoCfgDoes, UndoConfDoes DEF Passes, Stops
    <3>6. QED
      BY <1>4, <3>1, <3>2, <3>3, <3>4, <3>5
  <2>4. QED
    BY <1>3, <2>1, <2>2, <2>3 DEF OnlyCall
<1>5. ASSUME NEW c \in Calls, Send(c) PROVE Tokens'
  <2>1. UNCHANGED <<token, budget>>
    BY <1>5, SendDoes
  <2>2. /\ \A d \in Calls \ {c} : call'[d] = call[d]
        /\ call'[c].csrf = call[c].csrf \/ call'[c].csrf = 0
    BY <1>5, SendDoes DEF OnlyCall, Stops
  <2>3. \/ UNCHANGED wire
        \/ wire' = wire \cup {[share |-> ShareOf(c), form |-> Head(call[c].left),
                               csrf |-> call[c].csrf]}
    BY <1>5, SendDoes
  <2>4. \A m \in wire' : m.csrf <= token
    BY <1>1, <2>3 DEF Tokens
  <2>5. QED
    BY <1>1, <2>1, <2>2, <2>4 DEF Tokens
<1>6. ASSUME NEW c \in Calls, Crash(c) PROVE Tokens'
  <2>1. /\ budget > 0 /\ budget' = budget - 1 /\ UNCHANGED <<token, wire>>
        /\ \A d \in Calls : call'[d].csrf = call[d].csrf \/ call'[d].csrf = 0
    BY <1>6, CrashDoes DEF Dies
  <2>2. QED
    BY <1>1, <2>1, ConstantsAssumption DEF Tokens
<1>7. ASSUME NEW m \in wire, Lands(m) PROVE Tokens'
  BY <1>3, <1>7, LandsDoes
<1>8. CASE UiSave
  BY <1>1, <1>2, <1>8, UiSaveDoes, ConstantsAssumption DEF Tokens
<1>9. CASE Restart
  BY <1>1, <1>2, <1>9, RestartDoes, ConstantsAssumption DEF Tokens
<1>10. CASE UNCHANGED vars
  BY <1>3, <1>10 DEF vars
<1>11. QED
  BY <1>4, <1>5, <1>6, <1>7, <1>8, <1>9, <1>10 DEF Next, Verb

(* A call's shape is its own affair.                                        *)
LEMMA ShapeStays ==
    ASSUME NEW d \in Calls, Shaped(d), call'[d] = call[d]
    PROVE  Shaped(d)'
BY DEF Shaped, LeftOf, ShareOf

LEMMA ShapePasses ==
    ASSUME AllShaped, NEW c \in Calls, Names(c), call[c].pc \notin {"idle", "send"},
           call'[c].left = call[c].left \/ call'[c].left = <<>>,
           call'[c].pc \notin {"send"},
           call'[c].pc = "verify" => call[c].kind \in {"cache", "nfs"},
           call'[c].pc \in SmbOnly => call[c].kind = "smb"
    PROVE  Shaped(c)'
BY DEF AllShaped, Shaped, Names, ShareOf

LEMMA ShapeStops ==
    ASSUME AllShaped, NEW c \in Calls, call[c].pc # "idle", Names(c), call'[c].left = <<>>,
           call'[c].pc \in Ended
    PROVE  Shaped(c)'
BY DEF AllShaped, Shaped, Names, ShareOf, Ended, SmbOnly

LEMMA AllShapedInductive ==
    ASSUME Types, Tokens, AllShaped, [Next]_vars
    PROVE  AllShaped'
<1>1. ASSUME NEW c \in Calls, OnlyCall(c), Shaped(c)' PROVE AllShaped'
  BY <1>1, ShapeStays DEF AllShaped, OnlyCall
<1>2. ASSUME UNCHANGED call PROVE AllShaped'
  BY <1>2, ShapeStays DEF AllShaped
<1>3. ASSUME NEW c \in Calls, Begin(c) PROVE AllShaped'
  <2>1. Shaped(c)'
    BY <1>3, BeginDoes DEF Shaped, ShareOf, SmbOnly
  <2>2. QED
    BY <1>1, <1>3, <2>1, BeginDoes
<1>4. ASSUME NEW c \in Calls, ReadShare(c) PROVE AllShaped'
  <2>1. Shaped(c)'
    BY <1>4, ReadShareDoes, ShapePasses DEF SmbOnly
  <2>2. QED
    BY <1>1, <1>4, <2>1, ReadShareDoes
<1>5. ASSUME NEW c \in Calls, ReadRest(c) PROVE AllShaped'
  <2>1. /\ OnlyCall(c) /\ Names(c) /\ call[c].pc = "readRest" /\ call'[c].seen = call[c].seen
        /\ call[c].pc # "idle"
    BY <1>5, ReadRestDoes
  <2>2. call[c].kind \in {"cache", "nfs", "smb"}
    BY <2>1, RunningIs
  <2>3. CASE call[c].kind = "smb"
    <3>1. Shaped(c)'
      BY <1>5, <2>1, <2>3, ReadRestDoes, ShapePasses DEF SmbOnly
    <3>2. QED
      BY <1>1, <2>1, <3>1
  <2>4. CASE call[c].kind \in {"cache", "nfs"}
    <3>1. call'[c].pc = "send" /\ call'[c].left = Forms(c)
      BY <1>5, <2>4, ReadRestDoes
    <3>2. LeftOf(c)'
      <4>1. CASE call[c].kind = "cache"
        <5>1. call'[c].left = <<Page(c)>>
          BY <2>1, <3>1, <4>1, FormsAre
        <5>2. Page(c) = Overlay([f \in PageFields |-> call'[c].seen[f]], call'[c].want)
          BY <2>1 DEF Page, Names
        <5>3. QED
          BY <2>1, <4>1, <5>1, <5>2 DEF LeftOf, Names
      <4>2. CASE call[c].kind = "nfs" /\ call[c].want.export
        <5>1. call'[c].left = <<[hosts |-> call[c].want.hosts], [export |-> TRUE]>>
          BY <2>1, <3>1, <4>2, FormsAre
        <5>2. QED
          BY <2>1, <4>2, <5>1 DEF LeftOf, Names
      <4>3. CASE call[c].kind = "nfs" /\ ~call[c].want.export
        <5>1. call'[c].left = <<[export |-> FALSE]>>
          BY <2>1, <3>1, <4>3, FormsAre
        <5>2. QED
          BY <2>1, <4>3, <5>1 DEF LeftOf, Names
      <4>4. QED
        BY <2>4, <4>1, <4>2, <4>3
    <3>3. Shaped(c)'
      <4>1. /\ call[c].kind \in Kinds /\ ShareOf(c) \in Shares
            /\ call[c].want \in Wants(call[c].kind)
        BY <2>1, RunningIs
      <4>2. QED
        BY <2>1, <2>4, <3>1, <3>2, <4>1 DEF Shaped, Names, ShareOf, SmbOnly
    <3>4. QED
      BY <1>1, <2>1, <3>3
  <2>5. QED
    BY <2>2, <2>3, <2>4
<1>6. ASSUME NEW c \in Calls, Send(c) PROVE AllShaped'
  <2>1. call[c].pc = "send" /\ call[c].pc # "idle"
    BY <1>6, SendDoes
  <2>2. CASE Stops(c, "failed")
    <3>1. Shaped(c)'
      BY <2>1, <2>2, ShapeStops DEF Stops, Ended
    <3>2. QED
      BY <1>1, <2>2, <3>1 DEF Stops
  <2>3. CASE /\ OnlyCall(c) /\ Names(c) /\ call'[c].left = Tail(call[c].left)
             /\ call'[c].pc = IF Tail(call[c].left) = <<>> THEN "verify" ELSE "send"
    <3>1. call[c].kind \in {"cache", "nfs"} /\ call[c].kind \in Kinds /\ ShareOf(c) \in Shares
          /\ call[c].want \in Wants(call[c].kind)
      BY <2>1, RunningIs DEF AllShaped, Shaped
    <3>2. CASE Tail(call[c].left) = <<>>
      BY <1>1, <2>3, <3>1, <3>2 DEF Shaped, Names, ShareOf, SmbOnly
    <3>3. CASE Tail(call[c].left) # <<>>
      <4>1. /\ call[c].kind = "nfs" /\ call[c].want.export
            /\ Tail(call[c].left) = <<[export |-> TRUE]>>
        BY <2>1, <3>3, LeftIs
      <4>2. LeftOf(c)'
        BY <2>3, <4>1 DEF LeftOf, Names
      <4>3. call'[c].pc = "send"
        BY <2>3, <3>3
      <4>4. Shaped(c)'
        BY <2>3, <3>1, <4>2, <4>3 DEF Shaped, Names, ShareOf, SmbOnly
      <4>5. QED
        BY <1>1, <2>3, <4>4
    <3>4. QED
      BY <3>2, <3>3
  <2>4. QED
    BY <1>6, <2>2, <2>3, SendDoes
<1>7. ASSUME NEW c \in Calls, Verify(c) PROVE AllShaped'
  <2>1. call[c].pc # "idle" /\ (Stops(c, "failed") \/ Stops(c, "done"))
    BY <1>7, VerifyDoes
  <2>2. Shaped(c)'
    BY <2>1, ShapeStops DEF Stops, Ended
  <2>3. QED
    BY <1>1, <2>1, <2>2 DEF Stops
<1>8. ASSUME NEW c \in Calls,
             WriteCfg(c) \/ WriteConf(c) \/ Reload(c) \/ UndoCfg(c) \/ UndoConf(c)
      PROVE  AllShaped'
  <2>1. call[c].pc \in SmbOnly
    BY <1>8, WriteCfgDoes, WriteConfDoes, ReloadDoes, UndoCfgDoes, UndoConfDoes DEF SmbOnly
  <2>2. call[c].kind = "smb" /\ call[c].pc \notin {"idle", "send"}
    BY <2>1 DEF SmbOnly, AllShaped, Shaped
  <2>3. \/ \E pc \in Ended : Stops(c, pc)
        \/ \E pc \in SmbOnly : Passes(c, pc)
    BY <1>8, WriteCfgDoes, WriteConfDoes, ReloadDoes, UndoCfgDoes, UndoConfDoes DEF Ended, SmbOnly
  <2>4. ASSUME NEW pc \in Ended, Stops(c, pc) PROVE AllShaped'
    <3>1. Shaped(c)'
      BY <2>2, <2>4, ShapeStops DEF Stops
    <3>2. QED
      BY <1>1, <2>4, <3>1 DEF Stops
  <2>5. ASSUME NEW pc \in SmbOnly, Passes(c, pc) PROVE AllShaped'
    <3>1. pc # "send" /\ pc # "verify"
      BY DEF SmbOnly
    <3>2. Shaped(c)'
      BY <2>2, <2>5, <3>1, ShapePasses DEF Passes
    <3>3. QED
      BY <1>1, <2>5, <3>2 DEF Passes
  <2>6. QED
    BY <2>3, <2>4, <2>5
<1>9. ASSUME NEW c \in Calls, Crash(c) PROVE AllShaped'
  <2>1. ASSUME NEW d \in Calls PROVE Shaped(d)'
    <3>1. CASE call'[d] = call[d]
      BY <3>1, ShapeStays DEF AllShaped
    <3>2. CASE Dies(d)
      BY <3>2, ShapeStops DEF Dies, Running, Ended
    <3>3. QED
      BY <1>9, <3>1, <3>2, CrashDoes
  <2>2. QED
    BY <2>1 DEF AllShaped
<1>10. ASSUME NEW m \in wire, Lands(m) PROVE AllShaped'
  BY <1>2, <1>10, LandsDoes
<1>11. CASE UiSave \/ Restart \/ UNCHANGED vars
  BY <1>2, <1>11, UiSaveDoes, RestartDoes DEF vars
<1>12. QED
  BY <1>3, <1>4, <1>5, <1>6, <1>7, <1>8, <1>9, <1>10, <1>11 DEF Next, Verb

LEMMA ShareLockIsSymmetric ==
    ASSUME NEW k, NEW l, ShareLock(k, l)
    PROVE  ShareLock(l, k)
BY DEF ShareLock

LEMMA OneAtATimeInductive ==
    ASSUME Types, Tokens, AllShaped, OneAtATime, [Next]_vars
    PROVE  OneAtATime'
<1>1. ASSUME UNCHANGED direct,
             \A c \in Calls : Running(c)' => Running(c) /\ call'[c].kind = call[c].kind
      PROVE  OneAtATime'
  BY <1>1 DEF OneAtATime, ShareLock
<1>2. ASSUME NEW c \in Calls, OnlyCall(c), Names(c), Running(c)' => Running(c), UNCHANGED direct
      PROVE  OneAtATime'
  BY <1>1, <1>2 DEF OnlyCall, Names, Running
<1>3. ASSUME NEW c \in Calls, Begin(c) PROVE OneAtATime'
  <2>1. /\ OnlyCall(c) /\ UNCHANGED direct /\ LockFree(c, call'[c].kind)
    BY <1>3, BeginDoes
  <2>2. \A d \in Calls \ {c} : call'[d] = call[d] /\ (Running(d)' <=> Running(d))
    BY <2>1 DEF OnlyCall, Running
  <2>3. ASSUME NEW d \in Calls, NEW e \in Calls, d # e, Running(d)', Running(e)'
        PROVE  ~ShareLock(call'[d].kind, call'[e].kind)
    <3>1. CASE d = c
      BY <2>1, <2>2, <2>3, <3>1 DEF LockFree
    <3>2. CASE e = c
      BY <2>1, <2>2, <2>3, <3>2, ShareLockIsSymmetric DEF LockFree
    <3>3. CASE d # c /\ e # c
      BY <2>2, <2>3, <3>3 DEF OneAtATime
    <3>4. QED
      BY <3>1, <3>2, <3>3
  <2>4. QED
    BY <2>1, <2>3 DEF OneAtATime, ShareLock
<1>4. ASSUME NEW c \in Calls, ReadShare(c) \/ ReadRest(c) \/ Verify(c) PROVE OneAtATime'
  BY <1>2, <1>4, ReadShareDoes, ReadRestDoes, VerifyDoes DEF Running, Stops, Ended
<1>5. ASSUME NEW c \in Calls, Send(c) PROVE OneAtATime'
  BY <1>2, <1>5, SendDoes DEF Running, Stops, Ended
<1>6. ASSUME NEW c \in Calls, WriteCfg(c) \/ WriteConf(c) \/ Reload(c) \/ UndoCfg(c) \/ UndoConf(c)
      PROVE  OneAtATime'
  <2>1. call[c].pc \in SmbOnly
    BY <1>6, WriteCfgDoes, WriteConfDoes, ReloadDoes, UndoCfgDoes, UndoConfDoes DEF SmbOnly
  <2>2. Running(c) /\ UNCHANGED direct
    BY <1>6, <2>1, WriteCfgDoes, WriteConfDoes, ReloadDoes, UndoCfgDoes, UndoConfDoes
    DEF SmbOnly, Running, Ended
  <2>3. OnlyCall(c) /\ Names(c)
    BY <1>6, WriteCfgDoes, WriteConfDoes, ReloadDoes, UndoCfgDoes, UndoConfDoes DEF Passes, Stops
  <2>4. QED
    BY <1>2, <2>2, <2>3
<1>7. ASSUME NEW c \in Calls, Crash(c) PROVE OneAtATime'
  BY <1>1, <1>7, CrashDoes DEF Dies, Running, Ended
<1>8. ASSUME NEW m \in wire, Lands(m) PROVE OneAtATime'
  BY <1>1, <1>8, LandsDoes DEF Running
<1>9. CASE UiSave \/ Restart \/ UNCHANGED vars
  BY <1>1, <1>9, UiSaveDoes, RestartDoes DEF Running, vars
<1>10. QED
  BY <1>3, <1>4, <1>5, <1>6, <1>7, <1>8, <1>9 DEF Next, Verb

(* The settings of a share no set wrote back stale: as they were, or with   *)
(* a form's fields in both places.                                          *)
Others == Fields \ {"sec"}
Kept ==
    \A t \in Shares \ hist'.raced, f \in Others : mem'[t][f] = mem[t][f] /\ cfg'[t][f] = cfg[t][f]
Received(s, form) ==
    \A t \in Shares \ hist'.raced, f \in Others :
        IF t = s /\ f \in DOMAIN form THEN mem'[t][f] = form[f] /\ cfg'[t][f] = form[f]
        ELSE mem'[t][f] = mem[t][f] /\ cfg'[t][f] = cfg[t][f]

LEMMA SavedIsReceived ==
    ASSUME Types, Agree, NEW s \in Shares, NEW form, Fits(form), Saved(s, form),
           hist.raced \subseteq hist'.raced
    PROVE  Received(s, form)
<1> SUFFICES ASSUME NEW t \in Shares \ hist'.raced, NEW f \in Others
             PROVE  IF t = s /\ f \in DOMAIN form THEN mem'[t][f] = form[f] /\ cfg'[t][f] = form[f]
                    ELSE mem'[t][f] = mem[t][f] /\ cfg'[t][f] = cfg[t][f]
  BY DEF Received
<1>1. mem[t][f] = cfg[t][f]
  BY DEF Agree, Others
<1>2. QED
  BY <1>1 DEF Saved, Others

LEMMA ArrivesIsReceived ==
    ASSUME Types, Agree, NEW s \in Shares, NEW form, Fits(form), NEW csrf,
           Arrives(s, form, csrf), hist.raced \subseteq hist'.raced
    PROVE  IF csrf = token THEN Received(s, form) ELSE Kept
<1>1. CASE csrf = token
  BY <1>1, SavedIsReceived DEF Arrives
<1>2. CASE csrf # token
  BY <1>2 DEF Arrives, Kept, settings
<1>3. QED
  BY <1>1, <1>2

LEMMA RewriteKeeps ==
    ASSUME Types, AllShaped, NEW c \in Calls, call[c].pc \in SmbOnly, UNCHANGED mem,
           Rewrites(c, call[c].seen, New(c)) \/ Rewrites(c, New(c), call[c].seen)
    PROVE  Kept
<1>1. call[c].kind = "smb" /\ call[c].pc # "idle"
  BY DEF AllShaped, Shaped, SmbOnly
<1>2. \A f \in Others : New(c)[f] = call[c].seen[f]
  BY <1>1, NewIs DEF Others
<1>3. ShareOf(c) \in Shares /\ cfg \in [Shares -> Settings]
  BY <1>1, RunningIs DEF Types
<1>4. QED
  BY <1>2, <1>3 DEF Rewrites, Kept

LEMMA RestartKeeps ==
    ASSUME Types, Agree, Restart
    PROVE  Kept
BY RestartDoes DEF Agree, Kept, MovedOnly, Others

LEMMA AgreeStays ==
    ASSUME Agree, hist.raced \subseteq hist'.raced, Kept \/ \E s, form : Received(s, form)
    PROVE  Agree'
BY DEF Agree, Kept, Received, Others

(* The lists asked for stay asked for, and nothing else is exported.        *)
Grows ==
    /\ hist.raced \subseteq hist'.raced
    /\ \A s \in Shares : hist.asked[s] \subseteq hist'.asked[s]
HostsStep ==
    \A t \in Shares \ hist'.raced :
        /\ HostsAsked(t) => mem'[t].hosts \in hist'.asked[t]
        /\ mem'[t].export => mem'[t].hosts \in hist'.asked[t]

LEMMA KeptHosts ==
    ASSUME Serves, Grows, Kept
    PROVE  HostsStep
<1>1. "hosts" \in Others /\ "export" \in Others
  BY DEF Others, Fields
<1>2. QED
  BY <1>1 DEF Serves, Grows, Kept, HostsStep, HostsAsked

LEMMA ReceivedHosts ==
    ASSUME Serves, Grows, NEW s \in Shares, NEW form, Received(s, form),
           "hosts" \in DOMAIN form => form["hosts"] \in hist'.asked[s],
           /\ "export" \in DOMAIN form /\ "hosts" \notin DOMAIN form
           /\ s \notin hist'.raced /\ form["export"]
           => mem[s].hosts \in hist'.asked[s]
    PROVE  /\ HostsStep
           /\ "hosts" \in DOMAIN form /\ s \notin hist'.raced => mem'[s].hosts \in hist'.asked[s]
<1>1. "hosts" \in Others /\ "export" \in Others
  BY DEF Others, Fields
<1>2. ASSUME NEW t \in Shares \ hist'.raced
      PROVE  /\ HostsAsked(t) => mem'[t].hosts \in hist'.asked[t]
             /\ mem'[t].export => mem'[t].hosts \in hist'.asked[t]
             /\ "hosts" \in DOMAIN form /\ t = s => mem'[t].hosts \in hist'.asked[t]
  <2>1. CASE t # s
    BY <1>1, <2>1 DEF Serves, Grows, Received, HostsAsked
  <2>2. CASE t = s /\ "hosts" \in DOMAIN form
    BY <1>1, <2>2 DEF Received
  <2>3. CASE t = s /\ "hosts" \notin DOMAIN form
    <3>1. mem'[t].hosts = mem[t].hosts
      BY <1>1, <2>3 DEF Received
    <3>2. CASE "export" \in DOMAIN form
      <4>1. mem'[t].export = form["export"]
        BY <1>1, <2>3, <3>2 DEF Received
      <4>2. QED
        BY <2>3, <3>1, <3>2, <4>1 DEF Grows, HostsAsked
    <3>3. CASE "export" \notin DOMAIN form
      <4>1. mem'[t].export = mem[t].export
        BY <1>1, <2>3, <3>3 DEF Received
      <4>2. QED
        BY <2>3, <3>1, <4>1 DEF Grows, HostsAsked, Serves
    <3>4. QED
      BY <3>2, <3>3
  <2>4. QED
    BY <2>1, <2>2, <2>3
<1>3. QED
  BY <1>2 DEF HostsStep

LEMMA CallAskedStays ==
    ASSUME Grows, NEW d \in Calls, CallAsked(d), Running(d)' => Running(d), Names(d), ShareOf(d) \in Shares \/ ~Running(d)
    PROVE  CallAsked(d)'
BY DEF Grows, CallAsked, FormAsked, Names, ShareOf

LEMMA ArmedStays ==
    ASSUME Grows, HostsStep, NEW d \in Calls, Armed(d), UNCHANGED token,
           ShareOf(d) \in Shares \/ call[d].left = <<>>,
           call'[d].left = <<>> \/ /\ call'[d].left = call[d].left /\ call'[d].csrf = call[d].csrf
                                   /\ call'[d].share = call[d].share
    PROVE  Armed(d)'
<1>1. <<ToExport>> # <<>>
  OBVIOUS
<1>2. QED
  BY <1>1 DEF Grows, HostsStep, Armed, HostsAsked, ShareOf

LEMMA MessageAskedStays ==
    ASSUME Grows, HostsStep, NEW m, m.share \in Shares, MessageAsked(m), UNCHANGED token
    PROVE  MessageAsked(m)'
BY DEF Grows, HostsStep, MessageAsked, FormAsked, HostsAsked

LEMMA ServesStep ==
    ASSUME HostsStep
    PROVE  Serves'
BY DEF HostsStep, Serves, HostsAsked

LEMMA ShareOrNothing ==
    ASSUME Types, AllShaped, NEW d \in Calls
    PROVE  (ShareOf(d) \in Shares \/ call[d].left = <<>>) /\ (ShareOf(d) \in Shares \/ ~Running(d))
<1>1. CASE call[d].pc = "idle"
  BY <1>1 DEF AllShaped, Shaped, Running
<1>2. CASE call[d].pc # "idle"
  BY <1>2, RunningIs
<1>3. QED
  BY <1>1, <1>2

SameLeft(d) ==
    \/ call'[d].left = <<>>
    \/ call'[d].left = call[d].left /\ call'[d].csrf = call[d].csrf /\ call'[d].share = call[d].share

GoesOn(d) == (Running(d)' => Running(d)) /\ Names(d) /\ SameLeft(d)

LEMMA PlainStep ==
    ASSUME Types, AllShaped, AskedFor, Grows, HostsStep, UNCHANGED token,
           \A m \in wire' : m \in wire \/ (m.share \in Shares /\ MessageAsked(m)),
           \A d \in Calls : GoesOn(d) \/ (CallAsked(d)' /\ Armed(d)')
    PROVE  AskedFor'
<1>1. ASSUME NEW d \in Calls PROVE CallAsked(d)' /\ Armed(d)'
  <2>1. CASE GoesOn(d)
    <3>1. CallAsked(d) /\ Armed(d)
      BY DEF AskedFor, CallsAsked
    <3>2. QED
      BY <2>1, <3>1, ShareOrNothing, CallAskedStays, ArmedStays DEF GoesOn, SameLeft
  <2>2. QED
    BY <2>1
<1>2. ASSUME NEW m \in wire' PROVE MessageAsked(m)'
  <2>1. m.share \in Shares /\ MessageAsked(m)
    BY <1>2 DEF Types, Messages, AskedFor, WireAsked
  <2>2. QED
    BY <2>1, MessageAskedStays
<1>3. QED
  BY <1>1, <1>2, ServesStep DEF AskedFor, CallsAsked, WireAsked

LEMMA AllButOne ==
    ASSUME NEW c \in Calls, OnlyCall(c), NEW d \in Calls \ {c}
    PROVE  GoesOn(d)
BY DEF OnlyCall, GoesOn, Running, Names, SameLeft

LEMMA WritesOfSmb ==
    ASSUME Types, Tokens, AllShaped, NEW c \in Calls,
           WriteCfg(c) \/ WriteConf(c) \/ Reload(c) \/ UndoCfg(c) \/ UndoConf(c)
    PROVE  /\ call[c].pc \in SmbOnly /\ call[c].kind = "smb" /\ Running(c)
           /\ UNCHANGED <<token, direct, wire, budget, mem>> /\ Kept
           /\ Grows /\ hist'.asked = hist.asked
           /\ hist'.cfg = hist.cfg /\ hist'.conf = hist.conf
           /\ \/ \E pc \in Ended : Stops(c, pc)
              \/ \E pc \in SmbOnly : Passes(c, pc)
<1>1. /\ call[c].pc \in SmbOnly /\ UNCHANGED <<token, direct, wire, budget, mem>>
      /\ \/ \E pc \in Ended : Stops(c, pc)
         \/ \E pc \in SmbOnly : Passes(c, pc)
  BY WriteCfgDoes, WriteConfDoes, ReloadDoes, UndoCfgDoes, UndoConfDoes DEF SmbOnly, Ended
<1>2. call[c].kind = "smb" /\ Running(c)
  BY <1>1 DEF AllShaped, Shaped, SmbOnly, Running, Ended
<1>3. HistWrite(c) \/ MovedOnly({c}) \/ UNCHANGED hist
  BY WriteCfgDoes, WriteConfDoes, ReloadDoes, UndoCfgDoes, UndoConfDoes
<1>4. Grows /\ hist'.asked = hist.asked /\ hist'.cfg = hist.cfg /\ hist'.conf = hist.conf
  BY <1>3 DEF HistWrite, MovedOnly, Grows
<1>5. UNCHANGED cfg \/ Rewrites(c, call[c].seen, New(c)) \/ Rewrites(c, New(c), call[c].seen)
  BY WriteCfgDoes, WriteConfDoes, ReloadDoes, UndoCfgDoes, UndoConfDoes
<1>6. Kept
  <2>1. CASE UNCHANGED cfg
    BY <1>1, <2>1 DEF Kept
  <2>2. CASE Rewrites(c, call[c].seen, New(c)) \/ Rewrites(c, New(c), call[c].seen)
    BY <1>1, <2>2, RewriteKeeps
  <2>3. QED
    BY <1>5, <2>1, <2>2
<1>7. QED
  BY <1>1, <1>2, <1>4, <1>6

(* A page and an export are told apart.                                     *)
LEMMA FormsDiffer ==
    /\ \A p : DOMAIN p = PageFields => <<p>> # <<ToExport>> /\ p # ToExport
    /\ \A h : <<[hosts |-> h], ToExport>> # <<ToExport>> /\ [hosts |-> h] # ToExport
    /\ <<[export |-> FALSE]>> # <<ToExport>> /\ [export |-> FALSE] # ToExport
<1>1. DOMAIN ToExport = {"export"} /\ ToExport["export"] = TRUE
  BY DEF ToExport
<1>2. ASSUME NEW p, DOMAIN p = PageFields PROVE p # ToExport
  BY <1>1, <1>2 DEF PageFields
<1>3. ASSUME NEW h PROVE [hosts |-> h] # ToExport
  BY <1>1
<1>4. [export |-> FALSE] # ToExport
  BY <1>1
<1> HIDE DEF ToExport
<1>5. QED
  BY <1>2, <1>3, <1>4

LEMMA AskedByReadRest ==
    ASSUME Types, Tokens, AllShaped, AskedFor, NEW c \in Calls, ReadRest(c)
    PROVE  GoesOn(c) \/ (CallAsked(c)' /\ Armed(c)')
<1>1. /\ OnlyCall(c) /\ Names(c) /\ call[c].pc = "readRest" /\ UNCHANGED <<token, hist>>
      /\ call[c].pc # "idle"
  BY ReadRestDoes
<1>2. Running(c) /\ call[c].kind \in {"cache", "nfs", "smb"}
  BY <1>1, RunningIs DEF Running, Ended
<1>3. CASE call[c].kind = "smb"
  <2>1. call'[c].left = call[c].left /\ call'[c].csrf = call[c].csrf
    BY <1>3, ReadRestDoes
  <2>2. GoesOn(c)
    BY <1>1, <1>2, <2>1 DEF GoesOn, SameLeft, Names
  <2>3. QED
    BY <2>2
<1>4. CASE call[c].kind \in {"cache", "nfs"}
  <2>1. CallAsked(c)'
    BY <1>1, <1>2 DEF AskedFor, CallsAsked, CallAsked, FormAsked, Names, ShareOf
  <2>2. call'[c].left = Forms(c)
    BY <1>4, ReadRestDoes
  <2>3. Forms(c) # <<ToExport>>
    <3>1. CASE call[c].kind = "cache"
      BY <1>1, <3>1, FormsAre, PageIs, FormsDiffer
    <3>2. CASE call[c].kind = "nfs" /\ call[c].want.export
      BY <1>1, <3>2, FormsAre, FormsDiffer DEF ToExport
    <3>3. CASE call[c].kind = "nfs" /\ ~call[c].want.export
      BY <1>1, <3>3, FormsAre, FormsDiffer
    <3>4. QED
      BY <1>4, <3>1, <3>2, <3>3
  <2>4. QED
    BY <2>1, <2>2, <2>3 DEF Armed
<1>5. QED
  BY <1>2, <1>3, <1>4

(* What a request in flight may ask for, and how its arrival keeps it.      *)
LEMMA ArrivesHosts ==
    ASSUME Types, Agree, Serves, Grows, NEW m, m.share \in Shares, m.form \in Requests,
           MessageAsked(m), hist'.raced = hist.raced, Arrives(m.share, m.form, m.csrf)
    PROVE  /\ HostsStep /\ (Kept \/ \E s, form : Received(s, form))
           /\ "hosts" \in DOMAIN m.form /\ m.csrf = token /\ m.share \notin hist'.raced =>
                mem'[m.share].hosts \in hist'.asked[m.share]
<1>1. IF m.csrf = token THEN Received(m.share, m.form) ELSE Kept
  BY RequestsAre, ArrivesIsReceived
<1>2. CASE m.csrf = token
  <2>1. "hosts" \in DOMAIN m.form => m.form["hosts"] \in hist'.asked[m.share]
    BY DEF MessageAsked, FormAsked, Grows
  <2>2. ASSUME "export" \in DOMAIN m.form, m.share \notin hist'.raced, m.form["export"]
        PROVE  mem[m.share].hosts \in hist'.asked[m.share]
    <3>1. m.form = [export |-> m.form["export"]] /\ m.form["export"] \in BOOLEAN
      <4>1. DOMAIN m.form = {"export"}
        BY <2>2, RequestsAre DEF PageFields
      <4>2. QED
        BY <4>1, RequestsAre
    <3>2. m.form["export"] = TRUE
      BY <2>2, <3>1
    <3>3. m.form = ToExport
      BY <3>1, <3>2 DEF ToExport
    <3>4. QED
      BY <1>2, <2>2, <3>3 DEF MessageAsked, HostsAsked, Grows
  <2>3. QED
    BY <1>1, <1>2, <2>1, <2>2, ReceivedHosts
<1>3. CASE m.csrf # token
  BY <1>1, <1>3, KeptHosts
<1>4. QED
  BY <1>2, <1>3

(* The next request is asked for as the call is.                            *)
Request(c) == [share |-> ShareOf(c), form |-> Head(call[c].left), csrf |-> call[c].csrf]

LEMMA RequestIsAsked ==
    ASSUME Types, AllShaped, AskedFor, NEW c \in Calls, call[c].pc = "send"
    PROVE  /\ Request(c).share = ShareOf(c) /\ Request(c).form = Head(call[c].left)
           /\ Request(c).csrf = call[c].csrf
           /\ Request(c).share \in Shares /\ Request(c).form \in Requests /\ MessageAsked(Request(c))
<1>1. /\ Request(c).share = ShareOf(c) /\ Request(c).form = Head(call[c].left)
      /\ Request(c).csrf = call[c].csrf
  BY DEF Request
<1>2. /\ ShareOf(c) \in Shares /\ Head(call[c].left) \in Requests /\ Running(c)
  BY RunningIs, LeftIs DEF Running, Ended
<1>3. CallAsked(c) /\ Armed(c)
  BY DEF AskedFor, CallsAsked
<1>4. FormAsked(ShareOf(c), Head(call[c].left))
  <2>1. CASE "hosts" \in DOMAIN Head(call[c].left)
    <3>1. /\ call[c].want.export /\ call[c].kind = "nfs"
          /\ Head(call[c].left) = [hosts |-> call[c].want.hosts]
      <4>1. Head(call[c].left) # ToExport /\ Head(call[c].left) # [export |-> FALSE]
        BY <2>1 DEF ToExport
      <4>2. call[c].kind = "cache" => DOMAIN Head(call[c].left) = PageFields
        BY LeftIs, PageIs
      <4>3. call[c].kind # "cache"
        BY <2>1, <4>2 DEF PageFields
      <4>4. QED
        BY <4>1, <4>3, LeftIs DEF ToExport
    <3>2. call[c].want \in Wants("nfs")
      BY <3>1, RunningIs
    <3>3. "hosts" \in DOMAIN call[c].want
      BY <3>1, <3>2, WantsAre
    <3>4. call[c].want.hosts \in hist.asked[ShareOf(c)]
      BY <1>2, <1>3, <3>3 DEF CallAsked, FormAsked
    <3>5. QED
      BY <3>1, <3>4 DEF FormAsked
  <2>2. QED
    BY <2>1 DEF FormAsked
<1>5. ASSUME Head(call[c].left) = ToExport, call[c].csrf = token, ShareOf(c) \notin hist.raced
      PROVE  HostsAsked(ShareOf(c))
  <2>1. call[c].kind # "cache"
    <3>1. call[c].kind = "cache" => Head(call[c].left) = Page(c) /\ DOMAIN Page(c) = PageFields
      BY LeftIs, PageIs
    <3>2. QED
      BY <1>5, <3>1, FormsDiffer
  <2>2. Head(call[c].left) # [hosts |-> call[c].want.hosts] /\ Head(call[c].left) # [export |-> FALSE]
    BY <1>5, FormsDiffer
  <2>3. call[c].left = <<ToExport>>
    BY <2>1, <2>2, LeftIs DEF ToExport
  <2>4. QED
    BY <1>3, <1>5, <2>3 DEF Armed
<1>6. QED
  BY <1>1, <1>2, <1>4, <1>5 DEF MessageAsked

LEMMA AskedBySend ==
    ASSUME Types, Tokens, AllShaped, Agree, AskedFor, NEW c \in Calls, Send(c)
    PROVE  Agree' /\ AskedFor'
<1>1. /\ call[c].pc = "send" /\ UNCHANGED token /\ MovedOnly(Locked(c)) /\ Serves
  BY SendDoes DEF AskedFor
<1>2. Grows /\ hist'.raced = hist.raced /\ hist'.asked = hist.asked
  BY <1>1 DEF MovedOnly, Grows
<1>3. /\ Request(c).share = ShareOf(c) /\ Request(c).form = Head(call[c].left)
      /\ Request(c).csrf = call[c].csrf
      /\ Request(c).share \in Shares /\ Request(c).form \in Requests /\ MessageAsked(Request(c))
  BY <1>1, RequestIsAsked
<1>4. /\ HostsStep /\ (Kept \/ \E s, form : Received(s, form))
      /\ Arrives(ShareOf(c), Head(call[c].left), call[c].csrf) =>
           ("hosts" \in DOMAIN Head(call[c].left) /\ call[c].csrf = token /\ ShareOf(c) \notin hist'.raced
            => mem'[ShareOf(c)].hosts \in hist'.asked[ShareOf(c)])
  <2>1. CASE Arrives(ShareOf(c), Head(call[c].left), call[c].csrf)
    <3>1. Arrives(Request(c).share, Request(c).form, Request(c).csrf)
      BY <1>3, <2>1
    <3>2. /\ HostsStep /\ (Kept \/ \E s, form : Received(s, form))
          /\ "hosts" \in DOMAIN Request(c).form /\ Request(c).csrf = token
             /\ Request(c).share \notin hist'.raced
             => mem'[Request(c).share].hosts \in hist'.asked[Request(c).share]
      BY <1>1, <1>2, <1>3, <3>1, ArrivesHosts
    <3>3. QED
      BY <1>3, <3>2
  <2>2. CASE UNCHANGED settings /\ ~Arrives(ShareOf(c), Head(call[c].left), call[c].csrf)
    <3>1. Kept
      BY <2>2 DEF Kept, settings
    <3>2. QED
      BY <1>1, <1>2, <2>2, <3>1, KeptHosts
  <2>3. QED
    BY <2>1, <2>2, SendDoes
<1>5. Agree'
  BY <1>2, <1>4, AgreeStays
<1>6. OnlyCall(c) /\ Names(c)
  BY SendDoes DEF Stops
<1>7. Running(c) /\ CallAsked(c)
  BY <1>1 DEF Running, Ended, AskedFor, CallsAsked
<1>8. CallAsked(c)'
  BY <1>2, <1>6, <1>7 DEF CallAsked, FormAsked, Names, ShareOf
<1>9. Armed(c)'
  <2>1. CASE call'[c].left = <<>>
    <3>1. <<ToExport>> # <<>>
      OBVIOUS
    <3>2. QED
      BY <2>1, <3>1 DEF Armed
  <2>2. CASE call'[c].left # <<>>
    <3>1. /\ call'[c].left = Tail(call[c].left) /\ call'[c].csrf = call[c].csrf
          /\ Arrives(ShareOf(c), Head(call[c].left), call[c].csrf)
      BY <2>2, SendDoes DEF Stops
    <3>2. Head(call[c].left) = [hosts |-> call[c].want.hosts]
      BY <1>1, <2>2, <3>1, LeftIs
    <3>3. "hosts" \in DOMAIN Head(call[c].left)
      BY <3>2
    <3>4. QED
      BY <1>1, <1>4, <1>6, <3>1, <3>3 DEF Armed, HostsAsked, Names, ShareOf
  <2>3. QED
    BY <2>1, <2>2
<1>10. ASSUME NEW d \in Calls PROVE GoesOn(d) \/ (CallAsked(d)' /\ Armed(d)')
  <2>1. CASE d = c
    BY <1>8, <1>9, <2>1
  <2>2. CASE d # c
    BY <1>6, <2>2, AllButOne
  <2>3. QED
    BY <2>1, <2>2
<1>11. ASSUME NEW m \in wire' PROVE m \in wire \/ (m.share \in Shares /\ MessageAsked(m))
  <2>1. m \in wire \/ m = Request(c)
    BY <1>11, SendDoes DEF Request
  <2>2. QED
    BY <1>3, <2>1
<1>12. HostsStep
  BY <1>4
<1>13. AskedFor'
  BY <1>1, <1>2, <1>10, <1>11, <1>12, PlainStep
<1>14. QED
  BY <1>5, <1>13

LEMMA AskedForInductive ==
    ASSUME Types, Tokens, AllShaped, Agree, AskedFor, [Next]_vars
    PROVE  Agree' /\ AskedFor'
<1> Serves
  BY DEF AskedFor
<1>1. ASSUME Grows, Kept, UNCHANGED token, wire' \subseteq wire,
             \A d \in Calls : GoesOn(d) \/ (CallAsked(d)' /\ Armed(d)')
      PROVE  Agree' /\ AskedFor'
  <2>1. HostsStep
    BY <1>1, KeptHosts
  <2>2. Agree'
    BY <1>1, AgreeStays DEF Grows
  <2>3. QED
    BY <1>1, <2>1, <2>2, PlainStep
<1>2. ASSUME UNCHANGED <<settings, hist>> PROVE Grows /\ Kept
  BY <1>2 DEF Grows, Kept, settings
<1>3. ASSUME NEW c \in Calls, OnlyCall(c), GoesOn(c) \/ (CallAsked(c)' /\ Armed(c)')
      PROVE  \A d \in Calls : GoesOn(d) \/ (CallAsked(d)' /\ Armed(d)')
  <2>1. ASSUME NEW d \in Calls PROVE GoesOn(d) \/ (CallAsked(d)' /\ Armed(d)')
    <3>1. CASE d = c
      BY <1>3, <3>1
    <3>2. CASE d # c
      BY <1>3, <3>2, AllButOne
    <3>3. QED
      BY <3>1, <3>2
  <2>2. QED
    BY <2>1
<1>4. ASSUME UNCHANGED call PROVE \A d \in Calls : GoesOn(d)
  BY <1>4 DEF GoesOn, Running, Names, SameLeft
<1>5. ASSUME NEW c \in Calls, Begin(c) PROVE Agree' /\ AskedFor'
  <2>1. /\ OnlyCall(c) /\ call'[c].left = <<>> /\ UNCHANGED <<settings, token, wire>>
        /\ hist'.raced = hist.raced /\ \A s \in Shares : hist.asked[s] \subseteq hist'.asked[s]
        /\ "hosts" \in DOMAIN call'[c].want => call'[c].want["hosts"] \in hist'.asked[call'[c].share]
    BY <1>5, BeginDoes
  <2>2. Grows /\ Kept
    BY <2>1 DEF Grows, Kept, settings
  <2>3. CallAsked(c)'
    BY <2>1 DEF CallAsked, FormAsked, ShareOf
  <2>4. Armed(c)'
    <3>1. <<ToExport>> # <<>>
      OBVIOUS
    <3>2. QED
      BY <2>1, <3>1 DEF Armed
  <2>5. QED
    BY <1>1, <1>3, <2>1, <2>2, <2>3, <2>4
<1>6. ASSUME NEW c \in Calls, ReadShare(c) \/ Verify(c) PROVE Agree' /\ AskedFor'
  <2>1. OnlyCall(c) /\ UNCHANGED <<settings, hist, token, wire>> /\ Running(c)
    BY <1>6, ReadShareDoes, VerifyDoes DEF Stops, Running, Ended
  <2>2. Names(c) /\ SameLeft(c)
    BY <1>6, ReadShareDoes, VerifyDoes DEF Stops, SameLeft, Names
  <2>3. GoesOn(c)
    BY <2>1, <2>2 DEF GoesOn
  <2>4. QED
    BY <1>1, <1>2, <1>3, <2>1, <2>3
<1>7. ASSUME NEW c \in Calls, ReadRest(c) PROVE Agree' /\ AskedFor'
  <2>1. OnlyCall(c) /\ UNCHANGED <<settings, hist, token, wire>>
    BY <1>7, ReadRestDoes
  <2>2. GoesOn(c) \/ (CallAsked(c)' /\ Armed(c)')
    BY <1>7, AskedByReadRest
  <2>3. QED
    BY <1>1, <1>2, <1>3, <2>1, <2>2
<1>8. ASSUME NEW c \in Calls, WriteCfg(c) \/ WriteConf(c) \/ Reload(c) \/ UndoCfg(c) \/ UndoConf(c)
      PROVE  Agree' /\ AskedFor'
  <2>1. Running(c) /\ UNCHANGED <<token, wire>> /\ Kept /\ Grows
    BY <1>8, WritesOfSmb
  <2>2. OnlyCall(c) /\ Names(c) /\ SameLeft(c)
    <3>1. \/ \E pc \in Ended : Stops(c, pc)
          \/ \E pc \in SmbOnly : Passes(c, pc)
      BY <1>8, WritesOfSmb
    <3>2. QED
      BY <3>1 DEF Stops, Passes, SameLeft, Names
  <2>3. GoesOn(c)
    BY <2>1, <2>2 DEF GoesOn
  <2>4. QED
    BY <1>1, <1>3, <2>1, <2>2, <2>3
<1>9. ASSUME NEW c \in Calls, Crash(c) PROVE Agree' /\ AskedFor'
  <2>1. UNCHANGED <<settings, hist, token, wire>>
    BY <1>9, CrashDoes
  <2>2. ASSUME NEW d \in Calls PROVE GoesOn(d)
    <3>1. CASE call'[d] = call[d]
      BY <3>1 DEF GoesOn, Running, Names, SameLeft
    <3>2. CASE Dies(d)
      BY <3>2 DEF GoesOn, Dies, SameLeft
    <3>3. QED
      BY <1>9, <3>1, <3>2, CrashDoes
  <2>3. QED
    BY <1>1, <1>2, <2>1, <2>2
<1>10. ASSUME NEW m \in wire, Lands(m) PROVE Agree' /\ AskedFor'
  <2>1. /\ m \in Messages /\ wire' = wire \ {m} /\ UNCHANGED <<token, call>>
        /\ Arrives(m.share, m.form, m.csrf) /\ MovedOnly({})
    BY <1>10, LandsDoes
  <2>2. Grows /\ hist'.raced = hist.raced
    BY <2>1 DEF MovedOnly, Grows
  <2>3. m.share \in Shares /\ m.form \in Requests /\ MessageAsked(m)
    BY <2>1 DEF Messages, AskedFor, WireAsked
  <2>4. HostsStep /\ (Kept \/ \E s, form : Received(s, form))
    BY <2>1, <2>2, <2>3, ArrivesHosts
  <2>5. Agree'
    BY <2>2, <2>4, AgreeStays
  <2>6. \A n \in wire' : n \in wire
    BY <2>1
  <2>7. \A d \in Calls : GoesOn(d)
    BY <1>4, <2>1
  <2>8. AskedFor'
    BY <2>1, <2>2, <2>4, <2>6, <2>7, PlainStep
  <2>9. QED
    BY <2>5, <2>8
<1>11. CASE UiSave
  <2>1. /\ UNCHANGED <<token, call, wire>> /\ hist'.raced = hist.raced
        /\ \A s \in Shares : hist.asked[s] \subseteq hist'.asked[s]
    BY <1>11, UiSaveDoes
  <2>2. PICK s \in Shares : \E form :
          /\ Fits(form) /\ Saved(s, form)
          /\ "hosts" \in DOMAIN form => form["hosts"] \in hist'.asked[s]
          /\ "export" \in DOMAIN form => mem[s].hosts \in hist'.asked[s]
    BY <1>11, UiSaveDoes
  <2>3. PICK form :
          /\ Fits(form) /\ Saved(s, form)
          /\ "hosts" \in DOMAIN form => form["hosts"] \in hist'.asked[s]
          /\ "export" \in DOMAIN form => mem[s].hosts \in hist'.asked[s]
    BY <2>2
  <2>4. Grows
    BY <2>1 DEF Grows
  <2>5. Received(s, form)
    BY <2>3, <2>4, SavedIsReceived DEF Grows
  <2>6. HostsStep
    BY <2>3, <2>4, <2>5, ReceivedHosts
  <2>7. Agree'
    BY <2>4, <2>5, AgreeStays DEF Grows
  <2>8. \A d \in Calls : GoesOn(d)
    BY <1>4, <2>1
  <2>9. AskedFor'
    BY <2>1, <2>4, <2>6, <2>8, PlainStep
  <2>10. QED
    BY <2>7, <2>9
<1>12. CASE Restart
  <2>1. /\ token' = token + 1 /\ wire' = {} /\ UNCHANGED call /\ MovedOnly({})
    BY <1>12, RestartDoes
  <2>2. Grows /\ Kept
    BY <1>12, <2>1, RestartKeeps DEF MovedOnly, Grows
  <2>3. HostsStep /\ Agree'
    BY <2>2, KeptHosts, AgreeStays DEF Grows
  <2>4. ASSUME NEW d \in Calls PROVE CallAsked(d)' /\ Armed(d)'
    <3>1. call[d].csrf <= token /\ call[d].csrf \in Nat /\ token \in Nat
      BY DEF Tokens, Types, CallRecords
    <3>2. call'[d].csrf # token'
      BY <2>1, <3>1
    <3>3. Armed(d)'
      BY <3>2 DEF Armed
    <3>4. GoesOn(d) /\ CallAsked(d)
      BY <1>4, <2>1 DEF AskedFor, CallsAsked
    <3>5. CallAsked(d)'
      BY <2>2, <3>4, ShareOrNothing, CallAskedStays DEF GoesOn
    <3>6. QED
      BY <3>3, <3>5
  <2>5. QED
    BY <2>1, <2>3, <2>4, ServesStep DEF AskedFor, CallsAsked, WireAsked
<1>13. CASE UNCHANGED vars
  <2>1. UNCHANGED <<settings, hist, token, wire, call>>
    BY <1>13 DEF vars, settings
  <2>2. QED
    BY <1>1, <1>2, <1>4, <2>1
<1>14. QED
  BY <1>5, <1>6, <1>7, <1>8, <1>9, <1>10, <1>11, <1>12, <1>13, AskedBySend DEF Next, Verb

-----------------------------------------------------------------------------
(* A call while others act: what it knows of its share is still so, or is   *)
(* among what moved.                                                        *)
Beside(d) ==
    /\ call'[d] = call[d]
    /\ hist'.cfg[d] = hist.cfg[d] /\ hist'.conf[d] = hist.conf[d]
    /\ d \in hist'.undone => d \in hist.undone
    /\ hist.moved[d] \subseteq hist'.moved[d]
    /\ Running(d) =>
         /\ \A f \in Fields \ hist'.moved[d] :
                mem'[ShareOf(d)][f] = mem[ShareOf(d)][f] /\ cfg'[ShareOf(d)][f] = cfg[ShareOf(d)][f]
         /\ "conf" \notin hist'.moved[d] => conf' = conf
    /\ UNCHANGED token \/ (mem' = cfg /\ cfg' = cfg)

LEMMA BesideMoved ==
    ASSUME Types, NEW d \in Calls, NEW spared, d \notin spared \/ ~Running(d), call'[d] = call[d],
           hist'.cfg[d] = hist.cfg[d], hist'.conf[d] = hist.conf[d],
           d \in hist'.undone => d \in hist.undone, hist'.moved = Moved(spared),
           UNCHANGED token \/ (mem' = cfg /\ cfg' = cfg)
    PROVE  Beside(d)
<1>1. /\ hist.moved[d] \subseteq Moved(spared)[d]
      /\ Running(d) =>
           /\ \A f \in Fields \ Moved(spared)[d] :
                  mem'[ShareOf(d)][f] = mem[ShareOf(d)][f] /\ cfg'[ShareOf(d)][f] = cfg[ShareOf(d)][f]
           /\ "conf" \notin Moved(spared)[d] => conf' = conf
  BY MovedIs
<1> HIDE DEF Moved
<1>2. QED
  BY <1>1 DEF Beside

LEMMA BesideQuiet ==
    ASSUME NEW d \in Calls, call'[d] = call[d], UNCHANGED <<settings, token>>,
           hist'.cfg[d] = hist.cfg[d], hist'.conf[d] = hist.conf[d],
           hist'.undone = hist.undone, hist'.moved = hist.moved
    PROVE  Beside(d)
BY DEF Beside, settings

LEMMA EveryCall ==
    ASSUME Types, Tokens, AllShaped, OneAtATime, [Next]_vars, NEW d \in Calls
    PROVE  Verb(d) \/ Beside(d) \/ (Dies(d) /\ UNCHANGED settings)
<1>1. ASSUME NEW c \in Calls, c # d, Begin(c) PROVE Beside(d)
  BY <1>1, BeginDoes, BesideQuiet DEF OnlyCall
<1>2. ASSUME NEW c \in Calls, c # d, ReadShare(c) \/ ReadRest(c) \/ Verify(c) PROVE Beside(d)
  <2>1. OnlyCall(c) /\ UNCHANGED <<settings, token, hist>>
    BY <1>2, ReadShareDoes, ReadRestDoes, VerifyDoes DEF Stops
  <2>2. QED
    BY <1>2, <2>1, BesideQuiet DEF OnlyCall
<1>3. ASSUME NEW c \in Calls, c # d, Send(c) PROVE Beside(d)
  <2>1. call[c].pc = "send" /\ UNCHANGED token /\ MovedOnly(Locked(c)) /\ OnlyCall(c)
    BY <1>3, SendDoes DEF Stops
  <2>2. Running(c)
    BY <2>1 DEF Running, Ended
  <2>3. d \notin Locked(c) \/ ~Running(d)
    BY <1>3, <2>2 DEF OneAtATime, Locked
  <2>4. QED
    BY <1>3, <2>1, <2>3, BesideMoved DEF MovedOnly, OnlyCall
<1>4. ASSUME NEW c \in Calls, c # d, WriteCfg(c) \/ WriteConf(c) \/ UndoCfg(c) \/ UndoConf(c)
      PROVE  Beside(d)
  <2>1. UNCHANGED token /\ OnlyCall(c) /\ hist'.cfg = hist.cfg /\ hist'.conf = hist.conf
    <3>1. (\E pc \in Ended : Stops(c, pc)) \/ (\E pc \in SmbOnly : Passes(c, pc))
      BY <1>4, WritesOfSmb
    <3>2. QED
      BY <1>4, <3>1, WritesOfSmb DEF Stops, Passes
  <2>2. \/ HistWrite(c) \/ MovedOnly({c})
        \/ UNCHANGED <<settings, hist>>
    BY <1>4, WriteCfgDoes, WriteConfDoes, UndoCfgDoes, UndoConfDoes DEF settings
  <2>3. CASE UNCHANGED <<settings, hist>>
    BY <1>4, <2>1, <2>3, BesideQuiet DEF OnlyCall
  <2>4. CASE HistWrite(c) \/ MovedOnly({c})
    <3>1. hist'.moved = Moved({c}) /\ (d \in hist'.undone => d \in hist.undone)
      BY <1>4, <2>4 DEF HistWrite, MovedOnly
    <3>2. QED
      BY <1>4, <2>1, <3>1, BesideMoved DEF OnlyCall
  <2>5. QED
    BY <2>2, <2>3, <2>4
<1>5. ASSUME NEW c \in Calls, c # d, Reload(c) PROVE Beside(d)
  <2>1. UNCHANGED <<mem, cfg, conf, token, hist>> /\ OnlyCall(c)
    BY <1>5, ReloadDoes DEF Stops, Passes
  <2>2. QED
    BY <1>5, <2>1 DEF Beside, OnlyCall
<1>6. ASSUME NEW c \in Calls, Crash(c) PROVE Beside(d) \/ (Dies(d) /\ UNCHANGED settings)
  <2>1. UNCHANGED <<settings, token, hist>> /\ (call'[d] = call[d] \/ Dies(d))
    BY <1>6, CrashDoes
  <2>2. QED
    BY <2>1, BesideQuiet
<1>7. ASSUME NEW m \in wire, Lands(m) PROVE Beside(d)
  BY <1>7, LandsDoes, BesideMoved DEF MovedOnly
<1>8. CASE UiSave
  BY <1>8, UiSaveDoes, BesideMoved
<1>9. CASE Restart
  BY <1>9, RestartDoes, BesideMoved DEF MovedOnly
<1>10. CASE UNCHANGED vars
  BY <1>10, BesideQuiet DEF vars, settings
<1>11. QED
  BY <1>1, <1>2, <1>3, <1>4, <1>5, <1>6, <1>7, <1>8, <1>9, <1>10 DEF Next, Verb

LEMMA PageSeenBeside ==
    ASSUME NEW d \in Calls, PageSeen(d), Beside(d)
    PROVE  PageSeen(d)'
<1>1. PageFields \subseteq Fields
  BY DEF PageFields, Fields
<1>2. QED
  BY <1>1 DEF PageSeen, Beside, Running, Ended, ShareOf

LEMMA SettingsEqual ==
    ASSUME NEW x \in Settings, NEW y \in Settings, \A f \in Fields : x[f] = y[f]
    PROVE  x = y
<1>1. x = [f \in Fields |-> x[f]] /\ y = [f \in Fields |-> y[f]]
  BY SettingsAre
<1>2. [f \in Fields |-> x[f]] = [f \in Fields |-> y[f]]
  OBVIOUS
<1>3. QED
  BY <1>1, <1>2

LEMMA KnownBeside ==
    ASSUME Types, Types', AllShaped, NEW d \in Calls, Knows(d), Beside(d)
    PROVE  Knows(d)'
<1> SUFFICES ASSUME hist'.moved[d] = {} PROVE Known(d)'
  BY DEF Knows
<1>1. call'[d] = call[d] /\ ShareOf(d)' = ShareOf(d)
  BY DEF Beside, ShareOf
<1>2. CASE ~Running(d)
  BY <1>1, <1>2 DEF Known, Running, Ended, SmbOnly
<1>3. CASE Running(d)
  <2>1. Known(d)
    BY DEF Beside, Knows
  <2>2. ShareOf(d) \in Shares
    BY <1>3, RunningIs DEF Running
  <2>3. mem'[ShareOf(d)] = mem[ShareOf(d)] /\ cfg'[ShareOf(d)] = cfg[ShareOf(d)] /\ conf' = conf
    <3>1. /\ mem'[ShareOf(d)] \in Settings /\ mem[ShareOf(d)] \in Settings
          /\ cfg'[ShareOf(d)] \in Settings /\ cfg[ShareOf(d)] \in Settings
      BY <2>2 DEF Types
    <3>2. QED
      BY <1>3, <3>1, SettingsEqual DEF Beside
  <2>4. /\ hist'.cfg[d] = hist.cfg[d] /\ hist'.conf[d] = hist.conf[d]
        /\ (d \in hist'.undone => d \in hist.undone)
        /\ UNCHANGED token \/ (mem' = cfg /\ cfg' = cfg)
    BY DEF Beside
  <2>5. call[d].pc = "send" => call[d].csrf = token' \/ mem'[ShareOf(d)] = cfg'[ShareOf(d)]
    BY <2>1, <2>3, <2>4 DEF Known
  <2>6. QED
    BY <1>1, <2>1, <2>3, <2>4, <2>5 DEF Known
<1>4. QED
  BY <1>2, <1>3

(* A call's own steps. *)
LEMMA OwnChangeUnnoticed ==
    ASSUME Types, NEW c \in Calls, NEW spared, c \in spared, hist'.moved = Moved(spared)
    PROVE  hist'.moved[c] = hist.moved[c]
BY DEF Moved

LEMMA LockedIsOwn == \A c \in Calls : c \in Locked(c)
BY DEF Locked

LEMMA PagesSeenInductive ==
    ASSUME Types, Tokens, AllShaped, OneAtATime, PagesSeen, [Next]_vars
    PROVE  PagesSeen'
<1> SUFFICES ASSUME NEW c \in Calls PROVE PageSeen(c)'
  BY DEF PagesSeen
<1> PageSeen(c)
  BY DEF PagesSeen
<1>1. CASE ReadShare(c)
  BY <1>1, ReadShareDoes DEF PageSeen, Names, ShareOf, settings, PageFields, Fields
<1>2. CASE ReadRest(c)
  BY <1>2, ReadRestDoes DEF PageSeen, Names, ShareOf, settings
<1>3. CASE Send(c)
  <2>1. call[c].pc = "send" /\ Names(c)
    BY <1>3, SendDoes DEF Stops
  <2>2. CASE call[c].kind = "cache"
    <3>1. Tail(call[c].left) = <<>>
      BY <2>1, <2>2, LeftIs
    <3>2. call'[c].pc \in {"verify", "failed"}
      BY <1>3, <3>1, SendDoes DEF Stops
    <3>3. QED
      BY <3>2 DEF PageSeen
  <2>3. CASE call[c].kind # "cache"
    BY <2>1, <2>3 DEF PageSeen, Names
  <2>4. QED
    BY <2>2, <2>3
<1>4. CASE Begin(c) \/ Verify(c)
  BY <1>4, BeginDoes, VerifyDoes DEF PageSeen, Stops
<1>5. CASE WriteCfg(c) \/ WriteConf(c) \/ Reload(c) \/ UndoCfg(c) \/ UndoConf(c)
  <2>1. call[c].kind = "smb" /\ Names(c)
    BY <1>5, WritesOfSmb DEF Stops, Passes
  <2>2. QED
    BY <2>1 DEF PageSeen, Names
<1>6. CASE Beside(c)
  BY <1>6, PageSeenBeside
<1>7. CASE Dies(c)
  BY <1>7 DEF PageSeen, Dies
<1>8. QED
  BY <1>1, <1>2, <1>3, <1>4, <1>5, <1>6, <1>7, EveryCall DEF Verb

LEMMA EndKnowsAll ==
    ASSUME NEW c \in Calls, call'[c].pc \in Ended
    PROVE  Known(c)'
BY DEF Known, Ended, SmbOnly

LEMMA AllKnownInductive ==
    ASSUME Types, Types', Tokens, AllShaped, OneAtATime, AllKnown, [Next]_vars
    PROVE  AllKnown'
<1> SUFFICES ASSUME NEW c \in Calls PROVE Knows(c)'
  BY DEF AllKnown
<1>1. Knows(c)
  BY DEF AllKnown
<1>2. CASE Begin(c)
  BY <1>2, BeginDoes DEF Knows, Known, ShareOf, settings, SmbOnly
<1>3. CASE ReadShare(c)
  <2>1. /\ call[c].pc = "read" /\ call'[c].pc = "readRest" /\ UNCHANGED <<settings, hist>>
        /\ Names(c) /\ (call[c].kind = "smb" => call'[c].seen = cfg[ShareOf(c)])
    BY <1>3, ReadShareDoes
  <2>2. ASSUME hist.moved[c] = {} PROVE Known(c)'
    <3>1. cfg[ShareOf(c)] = hist.cfg[c] /\ conf = hist.conf[c]
      BY <1>1, <2>1, <2>2 DEF Knows, Known
    <3>2. QED
      BY <2>1, <3>1 DEF Known, Names, ShareOf, settings, SmbOnly
  <2>3. QED
    BY <2>1, <2>2 DEF Knows
<1>4. CASE ReadRest(c)
  <2>1. /\ call[c].pc = "readRest" /\ UNCHANGED <<settings, hist, token>> /\ Names(c)
        /\ call'[c].seen = call[c].seen /\ call[c].kind \in {"cache", "nfs", "smb"}
    BY <1>4, ReadRestDoes, RunningIs
  <2>2. ASSUME hist.moved[c] = {} PROVE Known(c)'
    <3>1. cfg[ShareOf(c)] = hist.cfg[c] /\ conf = hist.conf[c]
      BY <1>1, <2>1, <2>2 DEF Knows, Known
    <3>2. call[c].kind = "smb" => call[c].seen = hist.cfg[c]
      BY <1>1, <2>1, <2>2 DEF Knows, Known
    <3>3. CASE call[c].kind = "smb"
      <4>1. call'[c].pc = "cfg" /\ call'[c].conf = conf
        BY <1>4, <3>3, ReadRestDoes
      <4>2. QED
        BY <2>1, <3>1, <3>2, <3>3, <4>1 DEF Known, Names, ShareOf, settings, SmbOnly
    <3>4. CASE call[c].kind \in {"cache", "nfs"}
      <4>1. /\ call'[c].pc = "send" /\ call'[c].csrf = token
            /\ call[c].kind = "cache" => call'[c].before = cfg[ShareOf(c)]
        BY <1>4, <3>4, ReadRestDoes
      <4>2. QED
        BY <2>1, <3>1, <3>4, <4>1 DEF Known, Names, ShareOf, settings, SmbOnly
    <3>5. QED
      BY <2>1, <3>3, <3>4
  <2>3. QED
    BY <2>1, <2>2 DEF Knows
<1>5. CASE Send(c)
  <2>1. call[c].pc = "send" /\ MovedOnly(Locked(c)) /\ UNCHANGED token
    BY <1>5, SendDoes
  <2>2. hist'.moved[c] = hist.moved[c] /\ hist'.cfg = hist.cfg /\ hist'.conf = hist.conf
    BY <2>1, OwnChangeUnnoticed, LockedIsOwn DEF MovedOnly
  <2>3. CASE Stops(c, "failed")
    <3>1. call'[c].pc \in Ended
      BY <2>3 DEF Stops, Ended
    <3>2. QED
      BY <3>1, EndKnowsAll DEF Knows
  <2>4. CASE /\ OnlyCall(c) /\ Names(c) /\ Readings(c) /\ call'[c].csrf = call[c].csrf
             /\ call'[c].pc = IF Tail(call[c].left) = <<>> THEN "verify" ELSE "send"
             /\ Arrives(ShareOf(c), Head(call[c].left), call[c].csrf)
    <3>1. ASSUME hist.moved[c] = {} PROVE Known(c)'
      <4>1. /\ call[c].csrf = token \/ mem[ShareOf(c)] = cfg[ShareOf(c)]
            /\ call[c].kind = "cache" => call[c].before = hist.cfg[c]
        BY <1>1, <2>1, <3>1 DEF Knows, Known
      <4>2. mem'[ShareOf(c)] = cfg'[ShareOf(c)]
        BY <2>4, <4>1 DEF Arrives, Saved, settings
      <4>3. call'[c].pc \in {"send", "verify"} /\ call[c].kind \in {"cache", "nfs"}
        BY <2>1, <2>4 DEF AllShaped, Shaped
      <4>4. QED
        BY <2>2, <2>4, <4>1, <4>2, <4>3 DEF Known, Names, Readings, ShareOf, SmbOnly
    <3>2. QED
      BY <2>2, <3>1 DEF Knows
  <2>5. QED
    BY <1>5, <2>3, <2>4, SendDoes
<1>6. CASE Verify(c)
  <2>1. call'[c].pc \in Ended
    BY <1>6, VerifyDoes DEF Stops, Ended
  <2>2. QED
    BY <2>1, EndKnowsAll DEF Knows
<1>7. CASE WriteCfg(c) \/ WriteConf(c) \/ Reload(c) \/ UndoCfg(c) \/ UndoConf(c)
  <2>1. /\ call[c].pc \in SmbOnly /\ call[c].kind = "smb" /\ call[c].pc # "idle"
        /\ hist'.cfg = hist.cfg /\ hist'.conf = hist.conf
    BY <1>7, WritesOfSmb DEF SmbOnly
  <2>2. hist'.moved[c] = hist.moved[c]
    <3>1. HistWrite(c) \/ MovedOnly({c}) \/ UNCHANGED hist
      BY <1>7, WriteCfgDoes, WriteConfDoes, ReloadDoes, UndoCfgDoes, UndoConfDoes
    <3>2. QED
      BY <3>1, OwnChangeUnnoticed DEF HistWrite, MovedOnly
  <2>3. ASSUME NEW pc \in Ended, Stops(c, pc) PROVE Knows(c)'
    BY <2>3, EndKnowsAll DEF Knows, Stops
  <2>4. ASSUME NEW pc \in SmbOnly, Passes(c, pc), hist.moved[c] = {} PROVE Known(c)'
    <3>1. Known(c)
      BY <1>1, <2>4 DEF Knows
    <3>2. call[c].seen = hist.cfg[c] /\ call[c].conf = hist.conf[c]
      BY <2>1, <3>1 DEF Known
    <3>3. /\ Names(c) /\ Readings(c) /\ call'[c].pc = pc /\ New(c)' = New(c) /\ ShareOf(c)' = ShareOf(c)
      BY <2>4 DEF Passes, New, Names, Readings, ShareOf
    <3>4. ShareOf(c) \in Shares /\ cfg \in [Shares -> Settings]
      BY <2>1, RunningIs DEF Types
    <3>5. CASE WriteCfg(c)
      <4>1. pc = "conf" /\ Rewrites(c, call[c].seen, New(c)) /\ UNCHANGED conf /\ call[c].pc = "cfg"
        BY <1>7, <2>4, <3>5, WriteCfgDoes DEF Passes, Stops, Ended, SmbOnly
      <4>2. cfg'[ShareOf(c)] = New(c)
        BY <3>4, <4>1 DEF Rewrites
      <4>3. conf = hist.conf[c]
        BY <3>1, <4>1 DEF Known
      <4>4. QED
        BY <2>1, <3>2, <3>3, <4>1, <4>2, <4>3 DEF Known, New, Names, Readings, SmbOnly
    <3>6. CASE WriteConf(c)
      <4>1. /\ call[c].pc = "conf" /\ UNCHANGED cfg
            /\ \/ pc = "reload" /\ conf' = [call[c].conf EXCEPT ![ShareOf(c)] = call[c].want.sec]
               \/ pc = "undoCfgOnly" /\ UNCHANGED conf
        BY <2>4, <3>6, WriteConfDoes DEF Passes
      <4>2. cfg[ShareOf(c)] = New(c) /\ conf = hist.conf[c]
        BY <3>1, <4>1 DEF Known, New
      <4>3. pc = "reload" => conf'[ShareOf(c)] = call[c].want.sec
        BY <2>1, <3>4, <4>1, RunningIs DEF CallRecords
      <4>4. QED
        BY <2>1, <3>2, <3>3, <4>1, <4>2, <4>3 DEF Known, New, Names, Readings, SmbOnly
    <3>7. CASE Reload(c)
      <4>1. call[c].pc = "reload" /\ UNCHANGED <<cfg, conf>> /\ pc = "undoCfg"
        BY <2>4, <3>7, ReloadDoes DEF Passes, Stops, Ended, SmbOnly
      <4>2. cfg[ShareOf(c)] = New(c) /\ conf[ShareOf(c)] = call[c].want.sec
        BY <3>1, <4>1 DEF Known, New
      <4>3. QED
        BY <2>1, <3>2, <3>3, <4>1, <4>2 DEF Known, New, Names, Readings, SmbOnly
    <3>8. CASE UndoCfg(c)
      <4>1. /\ pc = "undoConf"
            /\ Rewrites(c, New(c), call[c].seen) \/ (UNCHANGED cfg /\ c \notin hist'.undone)
        BY <2>4, <3>8, UndoCfgDoes DEF Passes, Stops, Ended, SmbOnly
      <4>2. c \in hist'.undone => cfg'[ShareOf(c)] = hist.cfg[c]
        BY <3>2, <3>4, <4>1 DEF Rewrites
      <4>3. QED
        BY <2>1, <3>2, <3>3, <4>1, <4>2 DEF Known, New, Names, Readings, SmbOnly
    <3>9. CASE UndoConf(c)
      BY <2>4, <3>9, UndoConfDoes DEF Passes, Stops, SmbOnly
    <3>10. QED
      BY <1>7, <3>5, <3>6, <3>7, <3>8, <3>9
  <2>5. QED
    BY <1>7, <2>2, <2>3, <2>4, WritesOfSmb DEF Knows
<1>8. CASE Beside(c)
  BY <1>1, <1>8, KnownBeside
<1>9. CASE Dies(c)
  BY <1>9, EndKnowsAll DEF Knows, Dies, Ended
<1>10. QED
  BY <1>2, <1>3, <1>4, <1>5, <1>6, <1>7, <1>8, <1>9, EveryCall DEF Verb

-----------------------------------------------------------------------------
LEMMA InitHolds == Init => WriteInv
<1> SUFFICES ASSUME Init PROVE WriteInv
  OBVIOUS
<1>1. PICK exported \in BOOLEAN :
         /\ mem = [s \in Shares |-> [Initial EXCEPT !.export = exported]]
         /\ cfg = mem
         /\ hist = [moved |-> [c \in Calls |-> {}], raced |-> {}, undone |-> Calls,
                    asked |-> [s \in Shares |-> IF exported THEN {Initial.hosts} ELSE {}],
                    cfg |-> [c \in Calls |-> Initial],
                    conf |-> [c \in Calls |-> [s \in Shares |-> Initial.sec]]]
  BY DEF Init
<1>2. /\ conf = [s \in Shares |-> Initial.sec] /\ smbd = conf /\ token = 0 /\ direct \in BOOLEAN
      /\ call = [c \in Calls |-> NoCall] /\ wire = {} /\ budget = EnvBudget /\ EnvBudget \in Nat
  BY ConstantsAssumption DEF Init
<1>3. Initial \in Settings /\ Initial.sec \in Modes /\ Initial.hosts \in Lists
  BY ConstantsAssumption DEF Settings
<1> DEFINE first == [Initial EXCEPT !.export = exported]
<1>4. first \in Settings /\ first.hosts = Initial.hosts /\ first.export = exported
  BY <1>3 DEF Settings
<1>5. NoCall \in CallRecords /\ NoCall.pc = "idle" /\ NoCall.left = <<>> /\ NoCall.csrf = 0
  BY NoCallIs
<1>6. Types
  <2>1. mem \in [Shares -> Settings] /\ cfg \in [Shares -> Settings]
    BY <1>1, <1>4
  <2>2. conf \in [Shares -> Modes] /\ smbd \in [Shares -> Modes]
    BY <1>2, <1>3
  <2>3. hist \in Histories
    BY <1>1, <1>3 DEF Histories
  <2>4. call \in [Calls -> CallRecords] /\ direct \in BOOLEAN /\ wire \subseteq Messages
    BY <1>2, <1>5
  <2>5. QED
    BY <2>1, <2>2, <2>3, <2>4 DEF Types
<1>7. Tokens
  BY <1>2, <1>5 DEF Tokens
<1>8. \A c \in Calls : call[c].pc = "idle" /\ call[c].left = <<>> /\ ~Running(c)
  BY <1>2, <1>5 DEF Running
<1>9. AllShaped /\ OneAtATime
  BY <1>8 DEF AllShaped, Shaped, OneAtATime, SmbOnly
<1>10. Agree
  BY <1>1 DEF Agree
<1>11. AskedFor
  <2>1. Serves
    <3>1. \A s \in Shares : /\ mem[s].export = exported /\ mem[s].hosts = Initial.hosts
                            /\ hist.asked[s] = IF exported THEN {Initial.hosts} ELSE {}
      BY <1>1, <1>4
    <3>2. QED
      BY <3>1 DEF Serves, HostsAsked
  <2>2. <<ToExport>> # <<>>
    OBVIOUS
  <2>3. QED
    BY <1>2, <1>8, <2>1, <2>2 DEF AskedFor, CallsAsked, CallAsked, Armed, WireAsked
<1>12. PagesSeen /\ AllKnown
  BY <1>8 DEF PagesSeen, PageSeen, AllKnown, Knows, Known, SmbOnly
<1>13. QED
  BY <1>6, <1>7, <1>9, <1>10, <1>11, <1>12 DEF WriteInv

LEMMA WriteInvHolds == Spec => []WriteInv
<1>1. WriteInv /\ [Next]_vars => WriteInv'
  BY TypesInductive, TokensInductive, AllShapedInductive, OneAtATimeInductive, AskedForInductive,
     PagesSeenInductive, AllKnownInductive DEF WriteInv
<1>2. QED
  BY InitHolds, <1>1, PTL DEF Spec

LEMMA TypesAreOK ==
    ASSUME WriteInv
    PROVE  TypeOK
<1> USE DEF WriteInv
<1>1. /\ mem \in [Shares -> Settings] /\ cfg \in [Shares -> Settings]
      /\ conf \in [Shares -> Modes] /\ smbd \in [Shares -> Modes] /\ direct \in BOOLEAN
  BY DEF Types
<1>2. token \in 0 .. EnvBudget /\ budget \in 0 .. EnvBudget
  BY ConstantsAssumption DEF Tokens
<1>3. ASSUME NEW c \in Calls
      PROVE  /\ call[c].pc \in {"idle", "read", "readRest", "send", "verify", "cfg", "conf",
                                "reload", "undoCfg", "undoCfgOnly", "undoConf"} \cup Ended
             /\ call[c].pc # "idle" => /\ call[c].kind \in Kinds /\ ShareOf(c) \in Shares
                                       /\ call[c].want \in Wants(call[c].kind)
             /\ call[c].seen \in Settings /\ call[c].before \in Settings
             /\ call[c].conf \in [Shares -> Modes] /\ call[c].csrf \in 0 .. token
             /\ call[c].pc = "send" <=> call[c].left # <<>>
  <2>1. call[c] \in CallRecords
    BY DEF Types
  <2>2. call[c].pc \in Pcs /\ call[c].seen \in Settings /\ call[c].before \in Settings
        /\ call[c].conf \in [Shares -> Modes] /\ call[c].csrf \in Nat
    BY <2>1 DEF CallRecords
  <2>3. call[c].csrf \in 0 .. token
    BY <2>2 DEF Tokens
  <2>4. call[c].pc \in {"idle", "read", "readRest", "send", "verify", "cfg", "conf",
                        "reload", "undoCfg", "undoCfgOnly", "undoConf"} \cup Ended
    BY <2>2 DEF Pcs, SmbOnly
  <2>5. call[c].pc = "send" <=> call[c].left # <<>>
    <3>1. call[c].pc = "send" => call[c].left # <<>>
      BY LeftIs
    <3>2. call[c].pc # "send" => call[c].left = <<>>
      BY DEF AllShaped, Shaped
    <3>3. QED
      BY <3>1, <3>2
  <2>6. QED
    BY <2>2, <2>3, <2>4, <2>5 DEF AllShaped, Shaped
<1>4. ASSUME NEW m \in wire
      PROVE  m.share \in Shares /\ DOMAIN m.form \subseteq Fields /\ m.csrf <= token
  <2>1. m.share \in Shares /\ m.form \in Requests
    BY DEF Types, Messages
  <2>2. DOMAIN m.form \subseteq Fields
    BY <2>1, RequestsAre DEF Fits
  <2>3. QED
    BY <2>1, <2>2 DEF Tokens
<1>5. QED
  BY <1>1, <1>2, <1>3, <1>4 DEF TypeOK

(* Whatever request fails, is lost or arrives late, an export never serves a *)
(* share to a host list nobody asked for since it was last exported, however *)
(* many shares, calls and restarts there are: apply_nfs_in sends the list    *)
(* first and stops at the first error.                                       *)
THEOREM ServesOnlyWhatWasAsked == Spec => []ServesOnlyAsked
<1>1. WriteInv => ServesOnlyAsked
  BY TypesAreOK DEF WriteInv, AskedFor, Serves, HostsAsked, ServesOnlyAsked
<1>2. QED
  BY <1>1, WriteInvHolds, PTL

(* Who can report: only a step of the call itself.                          *)
LEMMA ReportsOwn ==
    ASSUME WriteInv, [Next]_vars, NEW c \in Calls, NEW outcome \in {"done", "failed"},
           Reports(c, outcome)
    PROVE  Verb(c)
<1>1. ~Beside(c) /\ ~Dies(c)
  BY DEF Reports, Beside, Dies
<1>2. QED
  BY <1>1, EveryCall DEF WriteInv

(* An smb set that fails put both files back as they were, unless its undo   *)
(* failed or somebody changed them meanwhile.                                *)
THEOREM FailedSetsAreUndone == Spec => SmbUndoes
<1>1. ASSUME WriteInv, [Next]_vars, NEW c \in Calls,
             Reports(c, "failed"), call[c].kind = "smb", hist.moved[c] = {}, c \in hist'.undone
      PROVE  cfg'[ShareOf(c)] = hist.cfg[c] /\ conf' = hist.conf[c]
  <2> USE DEF WriteInv
  <2>1. Verb(c)
    BY <1>1, ReportsOwn
  <2>2. call'[c].pc = "failed" /\ Known(c)
    BY <1>1 DEF Reports, AllKnown, Knows
  <2>3. CASE WriteCfg(c)
    <3>1. call[c].pc = "cfg" /\ UNCHANGED <<cfg, conf>>
      BY <1>1, <2>2, <2>3, WriteCfgDoes DEF Passes
    <3>2. QED
      BY <2>2, <3>1 DEF Known
  <2>4. CASE UndoCfg(c)
    <3>1. /\ call[c].pc = "undoCfgOnly" /\ UNCHANGED conf
          /\ Rewrites(c, New(c), call[c].seen)
      BY <1>1, <2>2, <2>4, UndoCfgDoes DEF Passes
    <3>2. call[c].seen = hist.cfg[c] /\ conf = hist.conf[c]
      BY <1>1, <2>2, <3>1 DEF Known, SmbOnly
    <3>3. ShareOf(c) \in Shares /\ cfg \in [Shares -> Settings]
      BY <1>1, <3>1, RunningIs DEF Types
    <3>4. QED
      BY <3>1, <3>2, <3>3 DEF Rewrites
  <2>5. CASE UndoConf(c)
    <3>1. /\ call[c].pc = "undoConf" /\ UNCHANGED cfg /\ c \in hist.undone
          /\ conf' = call[c].conf
      BY <1>1, <2>5, UndoConfDoes DEF HistWrite
    <3>2. QED
      BY <1>1, <2>2, <3>1 DEF Known, SmbOnly
  <2>6. CASE Begin(c) \/ ReadShare(c) \/ ReadRest(c)
    <3>1. call'[c].pc \in {"read", "readRest", "send", "cfg"}
      BY <1>1, <2>6, BeginDoes, ReadShareDoes, ReadRestDoes, RunningIs
    <3>2. QED
      BY <2>2, <3>1
  <2>7. CASE Send(c) \/ Verify(c)
    <3>1. call[c].pc \in {"send", "verify"}
      BY <1>1, <2>7, SendDoes, VerifyDoes
    <3>2. QED
      BY <1>1, <3>1 DEF AllShaped, Shaped
  <2>8. CASE WriteConf(c) \/ Reload(c)
    BY <1>1, <2>2, <2>8, WriteConfDoes, ReloadDoes DEF Passes, Stops
  <2>9. QED
    BY <2>1, <2>3, <2>4, <2>5, <2>6, <2>7, <2>8 DEF Verb
<1>2. WriteInv /\ [Next]_vars =>
        [\A c \in Calls :
           Reports(c, "failed") /\ call[c].kind = "smb" /\ hist.moved[c] = {} /\ c \in hist'.undone
           => cfg'[ShareOf(c)] = hist.cfg[c] /\ conf' = hist.conf[c]]_vars
  BY <1>1
<1>3. QED
  BY <1>2, WriteInvHolds, PTL DEF Spec, SmbUndoes

(* A request of an nfs call names no field of the Share page.               *)
LEMMA NfsHeads ==
    ASSUME Types, AllShaped, NEW c \in Calls, call[c].pc = "send", call[c].kind = "nfs"
    PROVE  \/ DOMAIN Head(call[c].left) = {"hosts"}
           \/ DOMAIN Head(call[c].left) = {"export"}
<1>1. CASE Head(call[c].left) = [hosts |-> call[c].want.hosts]
  <2>1. DOMAIN [hosts |-> call[c].want.hosts] = {"hosts"}
    OBVIOUS
  <2>2. QED
    BY <1>1, <2>1
<1>2. CASE Head(call[c].left) = [export |-> TRUE]
  <2>1. DOMAIN [export |-> TRUE] = {"export"}
    OBVIOUS
  <2>2. QED
    BY <1>2, <2>1
<1>3. CASE Head(call[c].left) = [export |-> FALSE]
  <2>1. DOMAIN [export |-> FALSE] = {"export"}
    OBVIOUS
  <2>2. QED
    BY <1>3, <2>1
<1>4. QED
  BY <1>1, <1>2, <1>3, LeftIs

LEMMA DoneBy ==
    ASSUME WriteInv, [Next]_vars, NEW c \in Calls, Reports(c, "done")
    PROVE  /\ \/ /\ call[c].pc = "verify" /\ call[c].kind \in {"cache", "nfs"}
                 /\ IF call[c].kind = "cache" THEN ReadBack(c) ELSE ~NfsProblems(c)
              \/ call[c].pc = "reload" /\ call[c].kind = "smb" /\ smbd' = conf
           /\ call[c].pc # "idle"
<1> USE DEF WriteInv
<1>1. Verb(c) /\ call'[c].pc = "done"
  BY ReportsOwn DEF Reports
<1>2. CASE Verify(c)
  BY <1>1, <1>2, VerifyDoes DEF Stops, AllShaped, Shaped
<1>3. CASE Reload(c)
  BY <1>1, <1>3, ReloadDoes DEF Passes, AllShaped, Shaped, SmbOnly
<1>4. CASE Begin(c) \/ ReadShare(c) \/ ReadRest(c)
  <2>1. call'[c].pc \in {"read", "readRest", "send", "cfg"}
    BY <1>4, BeginDoes, ReadShareDoes, ReadRestDoes, RunningIs
  <2>2. QED
    BY <1>1, <2>1
<1>5. CASE Send(c)
  BY <1>1, <1>5, SendDoes DEF Stops
<1>6. CASE WriteCfg(c) \/ WriteConf(c) \/ UndoCfg(c) \/ UndoConf(c)
  BY <1>1, <1>6, WriteCfgDoes, WriteConfDoes, UndoCfgDoes, UndoConfDoes DEF Passes, Stops
<1>7. QED
  BY <1>1, <1>2, <1>3, <1>4, <1>5, <1>6 DEF Verb

(* A call that reports success has its whole request in effect and          *)
(* persisted, whatever emhttpd did with a stale token, unless somebody      *)
(* outside its lock changed the share meanwhile.                            *)
THEOREM DoneMeansInEffect == Spec => DoneIsInEffect
<1>1. ASSUME WriteInv, [Next]_vars, NEW c \in Calls, Reports(c, "done"), hist.moved[c] = {}
      PROVE  InEffect(c)
  <2> USE DEF WriteInv
  <2>1. Known(c) /\ call[c].pc # "idle"
    BY <1>1, DoneBy DEF AllKnown, Knows
  <2>2. call[c].want \in Wants(call[c].kind) /\ call[c].kind \in {"cache", "nfs", "smb"}
    BY <1>1, <2>1, RunningIs
  <2>3. DOMAIN call[c].want \subseteq Fields
    BY <2>2, WantsAre DEF Fits
  <2>4. CASE call[c].pc = "verify" /\ call[c].kind = "cache" /\ ReadBack(c)
    <3>1. mem[ShareOf(c)] = cfg[ShareOf(c)]
      BY <2>1, <2>4 DEF Known
    <3>2. \A f \in DOMAIN call[c].want : cfg[ShareOf(c)][f] = call[c].want[f]
      BY <2>3, <2>4 DEF ReadBack
    <3>3. QED
      BY <2>4, <3>1, <3>2 DEF InEffect
  <2>5. CASE call[c].pc = "verify" /\ call[c].kind = "nfs" /\ ~NfsProblems(c)
    <3>1. mem[ShareOf(c)] = cfg[ShareOf(c)]
      BY <2>1, <2>5 DEF Known
    <3>2. \A f \in DOMAIN call[c].want : mem[ShareOf(c)][f] = call[c].want[f]
      BY <2>5 DEF NfsProblems
    <3>3. QED
      BY <2>5, <3>1, <3>2 DEF InEffect
  <2>6. CASE call[c].pc = "reload" /\ call[c].kind = "smb" /\ smbd' = conf
    <3>1. cfg[ShareOf(c)] = New(c) /\ conf[ShareOf(c)] = call[c].want.sec
      BY <2>1, <2>6 DEF Known, New
    <3>2. New(c).sec = call[c].want.sec
      BY <1>1, <2>1, <2>6, NewIs
    <3>3. QED
      BY <2>6, <3>1, <3>2 DEF InEffect
  <2>7. QED
    BY <1>1, <2>4, <2>5, <2>6, DoneBy
<1>2. WriteInv /\ [Next]_vars =>
        [\A c \in Calls : Reports(c, "done") /\ hist.moved[c] = {} => InEffect(c)]_vars
  BY <1>1
<1>3. QED
  BY <1>2, WriteInvHolds, PTL DEF Spec, DoneIsInEffect

(* The fields a cache set was not asked for: the cfg keeps them, and the    *)
(* page it carries reverts one only if it moved outside the set's lock.     *)
THEOREM CacheSetsSpareOthers == Spec => CacheSparesOthers
<1>1. ASSUME WriteInv, [Next]_vars, NEW c \in Calls PROVE KeptOthers(c)
  <2> SUFFICES ASSUME Reports(c, "done"), call[c].kind = "cache", hist.moved[c] = {},
                      NEW f \in Fields \ DOMAIN call[c].want
               PROVE  cfg[ShareOf(c)][f] = hist.cfg[c][f]
    BY DEF KeptOthers
  <2>1. call[c].pc = "verify" /\ ReadBack(c)
    BY <1>1, DoneBy
  <2>2. call[c].before = hist.cfg[c]
    BY <1>1, <2>1 DEF WriteInv, AllKnown, Knows, Known
  <2>3. QED
    BY <2>1, <2>2 DEF ReadBack
<1>2. ASSUME WriteInv, [Next]_vars, NEW c \in Calls PROVE RevertsOnlyRaced(c)
  <2> USE DEF WriteInv
  <2> SUFFICES ASSUME call[c].left # <<>>, call'[c].left # call[c].left, NEW s \in Shares,
                      NEW f \in PageFields \ DOMAIN call[c].want,
                      s \notin hist.raced, f \notin hist.moved[c]
               PROVE  mem'[s][f] = mem[s][f]
    BY DEF RevertsOnlyRaced
  <2>1. call[c].pc = "send" /\ call[c].kind \in {"cache", "nfs"}
    BY <1>2 DEF AllShaped, Shaped
  <2>2. CASE UNCHANGED settings
    BY <2>2 DEF settings
  <2>3. CASE Send(c)
    <3>1. MovedOnly(Locked(c)) /\ hist'.raced = hist.raced
      BY <1>2, <2>3, SendDoes DEF MovedOnly
    <3>2. CASE Arrives(ShareOf(c), Head(call[c].left), call[c].csrf)
      <4>1. Head(call[c].left) \in Requests /\ ShareOf(c) \in Shares
        BY <1>2, <2>1, LeftIs, RunningIs
      <4>2. Received(ShareOf(c), Head(call[c].left)) \/ Kept
        BY <1>2, <3>1, <3>2, <4>1, RequestsAre, ArrivesIsReceived
      <4>3. f \in Others
        BY DEF Others, PageFields, Fields
      <4>4. CASE s = ShareOf(c) /\ f \in DOMAIN Head(call[c].left)
        <5>a. f # "hosts" /\ f # "export"
          BY DEF PageFields
        <5>b. ASSUME call[c].kind = "nfs" PROVE FALSE
          <6>1. \/ DOMAIN Head(call[c].left) = {"hosts"} \/ DOMAIN Head(call[c].left) = {"export"}
            BY <1>2, <2>1, <5>b, LeftIs, NfsHeads
          <6>2. QED
            BY <4>4, <5>a, <6>1
        <5>1. call[c].kind = "cache" /\ Head(call[c].left) = Page(c)
          BY <1>2, <2>1, <5>b, LeftIs
        <5>2. Page(c)[f] = call[c].seen[f]
          BY <1>2, <2>1, <5>1, PageIs
        <5>3. call[c].seen[f] = mem[s][f]
          BY <1>2, <2>1, <4>4, <5>1 DEF PagesSeen, PageSeen
        <5>4. QED
          BY <3>1, <4>2, <4>3, <4>4, <5>1, <5>2, <5>3 DEF Received, Kept
      <4>5. CASE ~(s = ShareOf(c) /\ f \in DOMAIN Head(call[c].left))
        BY <3>1, <4>2, <4>3, <4>5 DEF Received, Kept
      <4>6. QED
        BY <4>4, <4>5
    <3>3. QED
      BY <1>2, <2>2, <2>3, <3>2, SendDoes
  <2>4. Send(c) \/ UNCHANGED settings
    <3>1. ~Beside(c)
      BY DEF Beside
    <3>2. CASE Verb(c)
      <4>1. Send(c)
        BY <1>2, <2>1, <3>2, BeginDoes, ReadShareDoes, ReadRestDoes, VerifyDoes, WritesOfSmb
        DEF Verb, SmbOnly
      <4>2. QED
        BY <4>1
    <3>3. QED
      BY <1>2, <3>1, <3>2, EveryCall
  <2>5. QED
    BY <2>2, <2>3, <2>4
<1>3. WriteInv /\ [Next]_vars => [\A c \in Calls : KeptOthers(c) /\ RevertsOnlyRaced(c)]_vars
  BY <1>1, <1>2
<1>4. QED
  BY <1>3, WriteInvHolds, PTL DEF Spec, CacheSparesOthers

=============================================================================

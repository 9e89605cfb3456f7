--------------------------- MODULE HostVerbsProofs ---------------------------
(* What the endpoint registry and the verbs that act on a host through it   *)
(* promise, for every number of endpoints, hosts and calls: row and key     *)
(* agree, a key goes to the machine that minted it, a verb does on the host *)
(* what it was asked and says what it did, and VMs are called available for *)
(* the machine asked about.                                                 *)
EXTENDS HostVerbs, TLAPS

-----------------------------------------------------------------------------
(* The inductive invariant: the tables.                                     *)
Fields == {"pc", "row", "key", "url", "id", "stopped", "ident", "time", "flags", "manager",
           "pid", "answer", "did", "lost"}
CallsShaped ==
    call = [c \in Made |-> call[c]] /\ \A c \in Made : call[c] = [f \in Fields |-> call[c][f]]

Machines ==
    /\ host = [h \in Hosts |-> host[h]] /\ \A h \in Hosts : IsMachine(host[h])
    /\ stack = [f \in LibvirtFields |-> stack[f]]
Tables ==
    /\ Made \subseteq Calls /\ raced = [c \in Made |-> raced[c]]
    /\ row \in [Names -> Rows] /\ meant \in [Names -> Rows]
    /\ key \in [Names -> Keys \cup {NoKey}] /\ up \subseteq Hosts
    /\ \A n \in Names : ~row[n].exists => row[n] = NoRow
InScene(s) ==
    s \in Scenarios /\ Made = s.calls /\ \A n \in Names : key[n] \in KeysFor(s, n) \cup {NoKey}

(* Where a call may be.                                                     *)
Connected == Requests \cup {"decide"}
Stages(verb) ==
    CASE verb = "create" -> {"key", "undo"}
      [] verb = "update" -> {"row", "key"}
      [] verb = "delete" -> {"unkey"}
      [] verb = "vm.power" -> {"apikey", "route", "list", "power"}
      [] verb = "parity.control" -> {"apikey", "route", "parity"}
      [] verb = "ups.config_set" -> {"apikey", "route", "ups"}
      [] verb = "host.settings.set" ->
           {"apikey", "route", "array?", "ident?", "time?", "decide", "ident", "time", "partial"}
      [] verb = "vm.availability" ->
           {"apikey", "route", "flags", "manager", "mount", "pid", "comm", "assess"}
      [] OTHER -> {"mount", "pid", "comm", "assess", "plan", "root", "set"}
Located(c) ==
    /\ call[c].pc \in Stages(Ask[c].verb) \cup {"idle", "done", "failed"}
    /\ call[c].pc = "idle" => call[c] = Idle /\ raced[c] = {}
    /\ call[c].row \in Rows /\ call[c].url \in Hosts
    /\ call[c].pc = "row" => call[c].row.exists
    /\ call[c].pc = "key" => Ask[c].key \in Keys
    /\ call[c].pc = "unkey" => "row" \in call[c].did
    /\ call[c].pc \in {"apikey", "route"} \cup Connected => call[c].id \in Names
    /\ call[c].pc \in {"route"} \cup Connected => call[c].key \in Keys

(* The registry: a name that nobody wrote while another did, and nobody left*)
(* half written.                                                            *)
Writer(c, n) == Ask[c].verb \in Registry /\ Ask[c].name = n
Tainted(n) == \E d \in Made : Writer(d, n) /\ (HalfDone(d) \/ <<"row", n>> \in raced[d])
GoesWith(n) == row[n].exists => key[n] \in Keys /\ LeadsTo(row[n].routes, key[n])
Agrees(n) ==
    /\ row[n] = meant[n] /\ (row[n].exists => key[n] # NoKey)
    /\ key[n] # NoKey => row[n].exists \/ KeyLeft(n)
    /\ GoesWith(n)
Midway(c, n) ==
    /\ row[n] = meant[n]
    /\ Ask[c].verb = "create" =>
         row[n] = Row(c) /\ (key[n] # NoKey => KeyLeft(n) \/ "key" \in call[c].did)
    /\ Ask[c].verb = "update" => row[n].exists /\ key[n] # NoKey
    /\ call[c].pc = "row" => call[c].row = Patched(c, row[n]) /\ GoesWith(n)
    /\ call[c].pc = "key" => LeadsTo(row[n].routes, Ask[c].key)
    /\ call[c].pc = "key" /\ Ask[c].verb = "update" /\ "row" \notin call[c].did => GoesWith(n)
    /\ Ask[c].verb = "delete" => row[n] = NoRow
Books(n) ==
    ~Tainted(n) =>
        /\ \A c, d \in Made : Writer(c, n) /\ Writer(d, n) /\ Running(c) /\ Running(d) => c = d
        /\ (\A c \in Made : Writer(c, n) => ~Running(c)) => Agrees(n)
        /\ \A c \in Made : Writer(c, n) /\ Running(c) => Midway(c, n)

(* A call that reads an endpoint nobody wrote since.                        *)
Reads(c) ==
    Ask[c].verb \notin Registry /\ <<"row", call[c].id>> \notin raced[c] =>
        /\ call[c].pc = "apikey" =>
             row[call[c].id].exists /\ call[c].row = row[call[c].id] /\ GoesWith(call[c].id)
        /\ call[c].pc = "route" => LeadsTo(call[c].row.routes, call[c].key)
        /\ call[c].pc \in Connected => call[c].url = HomeOf[call[c].key]

(* What was found out about VMs still holds, but for what changed since.    *)
ThisMachine(c) == Ask[c].name = NoName /\ call[c].url = Here
Probed(c) ==
    Ask[c].verb \in {"vm.availability", "vm.autostart"} /\ Running(c) =>
        /\ call[c].manager = "enabled" =>
             /\ call[c].id \in Names
             /\ \/ host[call[c].url].manager = "enabled"
                \/ <<"manager", call[c].url>> \in raced[c]
        /\ call[c].answer = "running" =>
             ThisMachine(c) /\ (stack.daemon # 0 \/ <<"stack", Here>> \in raced[c])
        /\ call[c].pc \in {"mount", "pid", "comm"} => ThisMachine(c)
        /\ call[c].pc = "comm" => call[c].pid # 0
        /\ call[c].pc \in {"apikey", "route", "flags", "manager"} =>
             call[c].manager = "none" /\ call[c].answer = Keep

(* An admin asked for it, to be done.                                       *)
Permitted(c) ==
    /\ Ask[c].verb \in Admins /\ call[c].pc \notin {"idle", "failed"} => Admitted(c)
    /\ call[c].pc \in {"power", "parity", "ident", "time", "root", "set"} => Ask[c].execute
    /\ Ask[c].verb = "parity.control" /\ call[c].pc \in {"apikey", "route"} => Ask[c].execute

(* What the call picked, read and has written is still there.               *)
Chosen(c) ==
    /\ call[c].pc = "power" => call[c].answer \in Named(host[call[c].url].vms, Ask[c].vm)
    /\ Ask[c].verb = "ups.config_set" /\ Running(c) =>
         row[call[c].id].enabled \/ <<"row", call[c].id>> \in raced[c]
FilledIn(set, asked, current, free) ==
    /\ \A f \in DOMAIN asked : asked[f] # Keep => set[f] = asked[f]
    /\ free => set = Filled(asked, current)
Prepared(c) ==
    LET h == host[call[c].url]
        free(what) == <<what, call[c].url>> \notin raced[c]
    IN /\ call[c].pc \in {"array?", "ident?", "ident"} => "ident" \in Sections(c)
       /\ call[c].pc \in {"time?", "time"} => "time" \in Sections(c)
       /\ "ident" \in Sections(c) /\ call[c].pc \in {"ident?", "time?", "decide", "ident"} =>
            (free("array") => call[c].stopped = h.stopped)
       /\ "ident" \in Sections(c) /\ call[c].pc \in {"time?", "decide", "ident"} =>
            FilledIn(call[c].ident, Ask[c].ident, h.ident, free("ident"))
       /\ "time" \in Sections(c) /\ call[c].pc \in {"decide", "ident", "time"} =>
            FilledIn(call[c].time, Ask[c].time, h.time, free("time"))
       /\ call[c].pc = "ident" => call[c].stopped
       /\ "ident" \in Sections(c) /\ call[c].pc = "time" =>
            /\ \A f \in DOMAIN Ask[c].ident : Ask[c].ident[f] # Keep => call[c].ident[f] = Ask[c].ident[f]
            /\ free("ident") => h.ident = call[c].ident
Clean(c) ==
    Running(c) /\ Ask[c].verb \notin Registry =>
        /\ ~call[c].lost
        /\ call[c].did = IF call[c].pc = "time" /\ "ident" \in Sections(c) THEN {"ident"} ELSE {}

HostInv ==
    /\ CallsShaped /\ Machines /\ Tables /\ (\E s \in Scenarios : InScene(s))
    /\ \A n \in Names : Books(n)
    /\ \A c \in Made : Located(c) /\ Reads(c) /\ Probed(c)
Deeds(c) == /\ Permitted(c) /\ Chosen(c) /\ Clean(c)
            /\ Ask[c].verb = "host.settings.set" => Prepared(c)
BothInv == HostInv /\ \A c \in Made : Deeds(c)

-----------------------------------------------------------------------------
(* What the steps do to the record of the call that takes them.             *)
Alone(c) == Made' = Made /\ CallsShaped' /\ \A d \in Made \ {c} : call'[d] = call[d]
SameBut(c, F) == \A f \in Fields \ F : call'[c][f] = call[c][f]
Goes(c, pc, F) == Alone(c) /\ call'[c].pc = pc /\ SameBut(c, F)
Fails(c) == Goes(c, "failed", {"pc"})

LEMMA BecomesDoes ==
    ASSUME CallsShaped, NEW c \in Made, NEW r, r = [f \in Fields |-> r[f]], Becomes(c, r)
    PROVE  Alone(c) /\ call'[c] = r
<1>1. Made' = Made /\ call'[c] = r /\ \A d \in Made \ {c} : call'[d] = call[d]
  BY DEF CallsShaped, Becomes, Made
<1>2. call' = [d \in Made' |-> call'[d]]
  BY DEF CallsShaped, Becomes, Made
<1>3. \A d \in Made' : call'[d] = [f \in Fields |-> call'[d][f]]
  BY <1>1 DEF CallsShaped
<1>4. QED
  BY <1>1, <1>2, <1>3 DEF Alone, CallsShaped

LEMMA GotoDoes ==
    ASSUME CallsShaped, NEW c \in Made, NEW pc, Goto(c, pc)
    PROVE  Goes(c, pc, {"pc"})
<1> DEFINE r == [call[c] EXCEPT !.pc = pc]
<1>1. call[c] = [f \in Fields |-> call[c][f]]
  BY DEF CallsShaped
<1>2. r = [f \in Fields |-> r[f]] /\ r.pc = pc /\ \A f \in Fields \ {"pc"} : r[f] = call[c][f]
  BY <1>1 DEF Fields
<1>3. Becomes(c, r)
  BY DEF Goto
<1>4. QED
  BY <1>2, <1>3, BecomesDoes DEF Goes, SameBut

LEMMA SetsKey ==
    ASSUME CallsShaped, NEW c \in Made, NEW pc, NEW v,
           Becomes(c, [call[c] EXCEPT !.pc = pc, !.key = v])
    PROVE  Goes(c, pc, {"pc", "key"}) /\ call'[c].key = v
<1> DEFINE r == [call[c] EXCEPT !.pc = pc, !.key = v]
<1>1. call[c] = [f \in Fields |-> call[c][f]]
  BY DEF CallsShaped
<1>2. /\ r = [f \in Fields |-> r[f]] /\ r.pc = pc /\ r.key = v
      /\ \A f \in Fields \ {"pc", "key"} : r[f] = call[c][f]
  BY <1>1 DEF Fields
<1>3. QED
  BY <1>2, BecomesDoes DEF Goes, SameBut

LEMMA SetsUrl ==
    ASSUME CallsShaped, NEW c \in Made, NEW pc, NEW v,
           Becomes(c, [call[c] EXCEPT !.pc = pc, !.url = v])
    PROVE  Goes(c, pc, {"pc", "url"}) /\ call'[c].url = v
<1> DEFINE r == [call[c] EXCEPT !.pc = pc, !.url = v]
<1>1. call[c] = [f \in Fields |-> call[c][f]]
  BY DEF CallsShaped
<1>2. /\ r = [f \in Fields |-> r[f]] /\ r.pc = pc /\ r.url = v
      /\ \A f \in Fields \ {"pc", "url"} : r[f] = call[c][f]
  BY <1>1 DEF Fields
<1>3. QED
  BY <1>2, BecomesDoes DEF Goes, SameBut

LEMMA SetsStopped ==
    ASSUME CallsShaped, NEW c \in Made, NEW pc, NEW v,
           Becomes(c, [call[c] EXCEPT !.pc = pc, !.stopped = v])
    PROVE  Goes(c, pc, {"pc", "stopped"}) /\ call'[c].stopped = v
<1> DEFINE r == [call[c] EXCEPT !.pc = pc, !.stopped = v]
<1>1. call[c] = [f \in Fields |-> call[c][f]]
  BY DEF CallsShaped
<1>2. /\ r = [f \in Fields |-> r[f]] /\ r.pc = pc /\ r.stopped = v
      /\ \A f \in Fields \ {"pc", "stopped"} : r[f] = call[c][f]
  BY <1>1 DEF Fields
<1>3. QED
  BY <1>2, BecomesDoes DEF Goes, SameBut

LEMMA SetsIdent ==
    ASSUME CallsShaped, NEW c \in Made, NEW pc, NEW v,
           Becomes(c, [call[c] EXCEPT !.pc = pc, !.ident = v])
    PROVE  Goes(c, pc, {"pc", "ident"}) /\ call'[c].ident = v
<1> DEFINE r == [call[c] EXCEPT !.pc = pc, !.ident = v]
<1>1. call[c] = [f \in Fields |-> call[c][f]]
  BY DEF CallsShaped
<1>2. /\ r = [f \in Fields |-> r[f]] /\ r.pc = pc /\ r.ident = v
      /\ \A f \in Fields \ {"pc", "ident"} : r[f] = call[c][f]
  BY <1>1 DEF Fields
<1>3. QED
  BY <1>2, BecomesDoes DEF Goes, SameBut

LEMMA SetsTime ==
    ASSUME CallsShaped, NEW c \in Made, NEW pc, NEW v,
           Becomes(c, [call[c] EXCEPT !.pc = pc, !.time = v])
    PROVE  Goes(c, pc, {"pc", "time"}) /\ call'[c].time = v
<1> DEFINE r == [call[c] EXCEPT !.pc = pc, !.time = v]
<1>1. call[c] = [f \in Fields |-> call[c][f]]
  BY DEF CallsShaped
<1>2. /\ r = [f \in Fields |-> r[f]] /\ r.pc = pc /\ r.time = v
      /\ \A f \in Fields \ {"pc", "time"} : r[f] = call[c][f]
  BY <1>1 DEF Fields
<1>3. QED
  BY <1>2, BecomesDoes DEF Goes, SameBut

LEMMA SetsFlags ==
    ASSUME CallsShaped, NEW c \in Made, NEW pc, NEW v,
           Becomes(c, [call[c] EXCEPT !.pc = pc, !.flags = v])
    PROVE  Goes(c, pc, {"pc", "flags"}) /\ call'[c].flags = v
<1> DEFINE r == [call[c] EXCEPT !.pc = pc, !.flags = v]
<1>1. call[c] = [f \in Fields |-> call[c][f]]
  BY DEF CallsShaped
<1>2. /\ r = [f \in Fields |-> r[f]] /\ r.pc = pc /\ r.flags = v
      /\ \A f \in Fields \ {"pc", "flags"} : r[f] = call[c][f]
  BY <1>1 DEF Fields
<1>3. QED
  BY <1>2, BecomesDoes DEF Goes, SameBut

LEMMA SetsManager ==
    ASSUME CallsShaped, NEW c \in Made, NEW pc, NEW v,
           Becomes(c, [call[c] EXCEPT !.pc = pc, !.manager = v])
    PROVE  Goes(c, pc, {"pc", "manager"}) /\ call'[c].manager = v
<1> DEFINE r == [call[c] EXCEPT !.pc = pc, !.manager = v]
<1>1. call[c] = [f \in Fields |-> call[c][f]]
  BY DEF CallsShaped
<1>2. /\ r = [f \in Fields |-> r[f]] /\ r.pc = pc /\ r.manager = v
      /\ \A f \in Fields \ {"pc", "manager"} : r[f] = call[c][f]
  BY <1>1 DEF Fields
<1>3. QED
  BY <1>2, BecomesDoes DEF Goes, SameBut

LEMMA SetsAnswer ==
    ASSUME CallsShaped, NEW c \in Made, NEW pc, NEW v,
           Becomes(c, [call[c] EXCEPT !.pc = pc, !.answer = v])
    PROVE  Goes(c, pc, {"pc", "answer"}) /\ call'[c].answer = v
<1> DEFINE r == [call[c] EXCEPT !.pc = pc, !.answer = v]
<1>1. call[c] = [f \in Fields |-> call[c][f]]
  BY DEF CallsShaped
<1>2. /\ r = [f \in Fields |-> r[f]] /\ r.pc = pc /\ r.answer = v
      /\ \A f \in Fields \ {"pc", "answer"} : r[f] = call[c][f]
  BY <1>1 DEF Fields
<1>3. QED
  BY <1>2, BecomesDoes DEF Goes, SameBut

LEMMA SetsPid ==
    ASSUME CallsShaped, NEW c \in Made, NEW pc, NEW v,
           Becomes(c, [call[c] EXCEPT !.pc = pc, !.pid = v])
    PROVE  Goes(c, pc, {"pc", "pid"}) /\ call'[c].pid = v
<1> DEFINE r == [call[c] EXCEPT !.pc = pc, !.pid = v]
<1>1. call[c] = [f \in Fields |-> call[c][f]]
  BY DEF CallsShaped
<1>2. /\ r = [f \in Fields |-> r[f]] /\ r.pc = pc /\ r.pid = v
      /\ \A f \in Fields \ {"pc", "pid"} : r[f] = call[c][f]
  BY <1>1 DEF Fields
<1>3. QED
  BY <1>2, BecomesDoes DEF Goes, SameBut

LEMMA SetsRow ==
    ASSUME CallsShaped, NEW c \in Made, NEW pc, NEW v,
           Becomes(c, [call[c] EXCEPT !.pc = pc, !.row = v])
    PROVE  Goes(c, pc, {"pc", "row"}) /\ call'[c].row = v
<1> DEFINE r == [call[c] EXCEPT !.pc = pc, !.row = v]
<1>1. call[c] = [f \in Fields |-> call[c][f]]
  BY DEF CallsShaped
<1>2. /\ r = [f \in Fields |-> r[f]] /\ r.pc = pc /\ r.row = v
      /\ \A f \in Fields \ {"pc", "row"} : r[f] = call[c][f]
  BY <1>1 DEF Fields
<1>3. QED
  BY <1>2, BecomesDoes DEF Goes, SameBut

LEMMA SetsLost ==
    ASSUME CallsShaped, NEW c \in Made, NEW pc, NEW v,
           Becomes(c, [call[c] EXCEPT !.pc = pc, !.lost = v])
    PROVE  Goes(c, pc, {"pc", "lost"}) /\ call'[c].lost = v
<1> DEFINE r == [call[c] EXCEPT !.pc = pc, !.lost = v]
<1>1. call[c] = [f \in Fields |-> call[c][f]]
  BY DEF CallsShaped
<1>2. /\ r = [f \in Fields |-> r[f]] /\ r.pc = pc /\ r.lost = v
      /\ \A f \in Fields \ {"pc", "lost"} : r[f] = call[c][f]
  BY <1>1 DEF Fields
<1>3. QED
  BY <1>2, BecomesDoes DEF Goes, SameBut

LEMMA SetsDid ==
    ASSUME CallsShaped, NEW c \in Made, NEW pc, NEW v,
           Becomes(c, [call[c] EXCEPT !.pc = pc, !.did = v])
    PROVE  Goes(c, pc, {"pc", "did"}) /\ call'[c].did = v
<1> DEFINE r == [call[c] EXCEPT !.pc = pc, !.did = v]
<1>1. call[c] = [f \in Fields |-> call[c][f]]
  BY DEF CallsShaped
<1>2. /\ r = [f \in Fields |-> r[f]] /\ r.pc = pc /\ r.did = v
      /\ \A f \in Fields \ {"pc", "did"} : r[f] = call[c][f]
  BY <1>1 DEF Fields
<1>3. QED
  BY <1>2, BecomesDoes DEF Goes, SameBut

LEMMA SetsRowId ==
    ASSUME CallsShaped, NEW c \in Made, NEW pc, NEW v, NEW w,
           Becomes(c, [call[c] EXCEPT !.pc = pc, !.row = v, !.id = w])
    PROVE  Goes(c, pc, {"pc", "row", "id"}) /\ call'[c].row = v /\ call'[c].id = w
<1> DEFINE r == [call[c] EXCEPT !.pc = pc, !.row = v, !.id = w]
<1>1. call[c] = [f \in Fields |-> call[c][f]]
  BY DEF CallsShaped
<1>2. /\ r = [f \in Fields |-> r[f]] /\ r.pc = pc /\ r.row = v /\ r.id = w
      /\ \A f \in Fields \ {"pc", "row", "id"} : r[f] = call[c][f]
  BY <1>1 DEF Fields
<1>3. QED
  BY <1>2, BecomesDoes DEF Goes, SameBut

LEMMA SetsDidLost ==
    ASSUME CallsShaped, NEW c \in Made, NEW pc, NEW v, NEW w,
           Becomes(c, [call[c] EXCEPT !.pc = pc, !.did = v, !.lost = w])
    PROVE  Goes(c, pc, {"pc", "did", "lost"}) /\ call'[c].did = v /\ call'[c].lost = w
<1> DEFINE r == [call[c] EXCEPT !.pc = pc, !.did = v, !.lost = w]
<1>1. call[c] = [f \in Fields |-> call[c][f]]
  BY DEF CallsShaped
<1>2. /\ r = [f \in Fields |-> r[f]] /\ r.pc = pc /\ r.did = v /\ r.lost = w
      /\ \A f \in Fields \ {"pc", "did", "lost"} : r[f] = call[c][f]
  BY <1>1 DEF Fields
<1>3. QED
  BY <1>2, BecomesDoes DEF Goes, SameBut

-----------------------------------------------------------------------------
(* The steps of a call that only looks.                                     *)
LEMMA RefuseDoes ==
    ASSUME CallsShaped, NEW c \in Made, Refuse(c)
    PROVE  Ask[c].verb \in Admins /\ call[c].pc = "idle" /\ Fails(c) /\ Looks
BY GotoDoes DEF Refuse, Starts, Fail, Fails

LEMMA ReadKeyDoes ==
    ASSUME CallsShaped, NEW c \in Made, ReadKey(c)
    PROVE  /\ call[c].pc = "apikey" /\ Looks
           /\ \/ Fails(c)
              \/ /\ Goes(c, "route", {"pc", "key"})
                 /\ call'[c].key = key[call[c].id] /\ key[call[c].id] # NoKey
BY GotoDoes, SetsKey DEF ReadKey, Fail, Fails, HasKey

LEMMA ResolveDoes ==
    ASSUME CallsShaped, NEW c \in Made, Resolve(c)
    PROVE  /\ call[c].pc = "route" /\ Looks
           /\ \/ Fails(c)
              \/ /\ Goes(c, FirstRequest(c), {"pc", "url"})
                 /\ call'[c].url \in Resolved(call[c].row.routes)
<1>1. CASE Fail(c)
  BY <1>1, GotoDoes DEF Resolve, Fail, Fails
<1>2. CASE \E h \in Resolved(call[c].row.routes) :
             Becomes(c, [call[c] EXCEPT !.pc = FirstRequest(c), !.url = h])
  BY <1>2, SetsUrl DEF Resolve
<1>3. QED
  BY <1>1, <1>2 DEF Resolve

LEMMA ListVmsDoes ==
    ASSUME CallsShaped, NEW c \in Made, ListVms(c)
    PROVE  /\ call[c].pc = "list" /\ Looks
           /\ \/ Fails(c)
              \/ /\ call'[c].answer \in Named(At(c).vms, Ask[c].vm)
                 /\ \/ Goes(c, "power", {"pc", "answer"}) /\ Ask[c].execute
                    \/ Goes(c, "done", {"pc", "answer"}) /\ ~Ask[c].execute
<1>1. CASE Fail(c)
  BY <1>1, GotoDoes DEF ListVms, Fail, Fails
<1>2. CASE \E v \in Named(At(c).vms, Ask[c].vm) :
             Becomes(c, [call[c] EXCEPT !.pc = IF Ask[c].execute THEN "power" ELSE "done", !.answer = v])
  BY <1>2, SetsAnswer DEF ListVms
<1>3. QED
  BY <1>1, <1>2 DEF ListVms

LEMMA ReadArrayDoes ==
    ASSUME CallsShaped, NEW c \in Made, ReadArray(c)
    PROVE  /\ call[c].pc = "array?" /\ Looks
           /\ \/ Fails(c)
              \/ Goes(c, "ident?", {"pc", "stopped"}) /\ call'[c].stopped = At(c).stopped
BY GotoDoes, SetsStopped DEF ReadArray, Fail, Fails

LEMMA ReadIdentityDoes ==
    ASSUME CallsShaped, NEW c \in Made, ReadIdentity(c)
    PROVE  /\ call[c].pc = "ident?" /\ Looks
           /\ \/ Fails(c)
              \/ /\ Goes(c, IF "time" \in Sections(c) THEN "time?" ELSE "decide", {"pc", "ident"})
                 /\ call'[c].ident = Filled(Ask[c].ident, At(c).ident)
BY GotoDoes, SetsIdent DEF ReadIdentity, Fail, Fails

LEMMA ReadTimeDoes ==
    ASSUME CallsShaped, NEW c \in Made, ReadTime(c)
    PROVE  /\ call[c].pc = "time?" /\ Looks
           /\ \/ Fails(c)
              \/ Goes(c, "decide", {"pc", "time"}) /\ call'[c].time = Filled(Ask[c].time, At(c).time)
BY GotoDoes, SetsTime DEF ReadTime, Fail, Fails

LEMMA DecideDoes ==
    ASSUME CallsShaped, NEW c \in Made, Decide(c)
    PROVE  /\ call[c].pc = "decide" /\ Looks
           /\ \/ Fails(c)
              \/ Goes(c, "done", {"pc"}) /\ ~Ask[c].execute
              \/ /\ Ask[c].execute /\ IdentityAllowed(c)
                 /\ Goes(c, IF "ident" \in Sections(c) THEN "ident" ELSE "time", {"pc"})
BY GotoDoes DEF Decide, Fail, Fails

LEMMA LocalViewDoes ==
    ASSUME CallsShaped, NEW c \in Made, LocalView(c)
    PROVE  /\ call[c].pc = "idle" /\ Ask[c].verb = "vm.availability" /\ Ask[c].name = NoName
           /\ Looks /\ Goes(c, "mount", {"pc"})
BY GotoDoes DEF LocalView, Starts

LEMMA AskFlagsDoes ==
    ASSUME CallsShaped, NEW c \in Made, AskFlags(c)
    PROVE  /\ call[c].pc = "flags" /\ Looks
           /\ Fails(c) \/ Goes(c, "manager", {"pc", "flags"})
<1>1. CASE Unanswered(c, "manager")
  <2>1. Fails(c) \/ Goes(c, "manager", {"pc"})
    BY <1>1, GotoDoes DEF Unanswered, Fail, Fails
  <2>2. QED
    BY <1>1, <2>1 DEF AskFlags, Goes, SameBut
<1>2. CASE Becomes(c, [call[c] EXCEPT !.pc = "manager", !.flags = At(c).flags])
  BY <1>2, SetsFlags DEF AskFlags
<1>3. QED
  BY <1>1, <1>2 DEF AskFlags

LEMMA AskManagerDoes ==
    ASSUME CallsShaped, NEW c \in Made, AskManager(c)
    PROVE  /\ call[c].pc = "manager" /\ Looks
           /\ \/ Fails(c)
              \/ /\ Goes(c, IF Local(c) THEN "mount" ELSE "assess", {"pc", "manager"})
                 /\ call'[c].manager \in {call[c].manager, At(c).manager}
<1> DEFINE next == IF Local(c) THEN "mount" ELSE "assess"
<1>1. CASE Unanswered(c, next)
  <2>1. Fails(c) \/ Goes(c, next, {"pc"})
    BY <1>1, GotoDoes DEF Unanswered, Fail, Fails
  <2>2. QED
    BY <1>1, <2>1 DEF AskManager, Goes, SameBut, Fields
<1>2. CASE Becomes(c, [call[c] EXCEPT !.pc = next, !.manager = At(c).manager])
  BY <1>2, SetsManager DEF AskManager
<1>3. QED
  BY <1>1, <1>2 DEF AskManager

LEMMA ProbeMountDoes ==
    ASSUME CallsShaped, NEW c \in Made, ProbeMount(c)
    PROVE  /\ call[c].pc = "mount" /\ Looks
           /\ \/ Goes(c, "pid", {"pc"})
              \/ Goes(c, "assess", {"pc", "answer"}) /\ call'[c].answer = "unmounted"
BY GotoDoes, SetsAnswer DEF ProbeMount

LEMMA ProbePidDoes ==
    ASSUME CallsShaped, NEW c \in Made, ProbePid(c)
    PROVE  /\ call[c].pc = "pid" /\ Looks
           /\ \/ Goes(c, "assess", {"pc", "answer"}) /\ call'[c].answer = "stopped"
              \/ Goes(c, "comm", {"pc", "pid"}) /\ call'[c].pid # 0
BY SetsPid, SetsAnswer DEF ProbePid

LEMMA ProbeCommDoes ==
    ASSUME CallsShaped, NEW c \in Made, ProbeComm(c)
    PROVE  /\ call[c].pc = "comm" /\ Looks /\ Goes(c, "assess", {"pc", "answer"})
           /\ call'[c].answer = IF stack.daemon = call[c].pid THEN "running" ELSE "stale"
BY SetsAnswer DEF ProbeComm

LEMMA AssessDoes ==
    ASSUME CallsShaped, NEW c \in Made, Assess(c)
    PROVE  /\ call[c].pc = "assess" /\ Ask[c].verb = "vm.availability" /\ Looks
           /\ Goes(c, "done", {"pc", "answer"}) /\ call'[c].answer = Verdict(c)
BY SetsAnswer DEF Assess

LEMMA RequireVmsDoes ==
    ASSUME CallsShaped, NEW c \in Made, RequireVms(c)
    PROVE  /\ Ask[c].verb = "vm.autostart" /\ Looks
           /\ \/ call[c].pc = "idle" /\ IsAdmin(c) /\ Goes(c, "mount", {"pc"})
              \/ call[c].pc = "assess" /\ Fails(c)
              \/ call[c].pc = "assess" /\ Verdict(c) = "available" /\ Goes(c, "plan", {"pc"})
BY GotoDoes DEF RequireVms, Starts, Fail, Fails

LEMMA PlanDoes ==
    ASSUME CallsShaped, NEW c \in Made, PlanAutostart(c) \/ PlanAsRoot(c)
    PROVE  /\ call[c].pc \in {"plan", "root"} /\ Looks
           /\ \/ Fails(c)
              \/ /\ Goes(c, "done", {"pc"})
                 /\ NoChange(c) \/ (call[c].pc = "plan" /\ ~Ask[c].execute)
              \/ call[c].pc = "plan" /\ Ask[c].execute /\ Goes(c, "root", {"pc"})
              \/ call[c].pc = "root" /\ Goes(c, "set", {"pc"})
<1>1. CASE PlanAutostart(c)
  BY <1>1, GotoDoes DEF PlanAutostart, Fail, Fails
<1>2. CASE PlanAsRoot(c)
  BY <1>2, GotoDoes DEF PlanAsRoot, Fail, Fails
<1>3. QED
  BY <1>1, <1>2

-----------------------------------------------------------------------------
(* The steps that pick an endpoint, and those that change a host.           *)
BeginsAlone(c) == UNCHANGED <<registry, world>> /\ Quietly /\ Begins(c)

LEMMA PickRowDoes ==
    ASSUME CallsShaped, NEW c \in Made, PickRow(c)
    PROVE  /\ call[c].pc = "idle" /\ Ask[c].verb \in Remote /\ (Ask[c].verb \in Admins => Admitted(c))
           /\ BeginsAlone(c)
           /\ \/ Fails(c)
              \/ Goes(c, "done", {"pc"}) /\ Ask[c].verb = "parity.control" /\ ~Ask[c].execute
              \/ /\ Goes(c, "apikey", {"pc", "row", "id"})
                 /\ Ask[c].verb = "parity.control" => Ask[c].execute
                 /\ \E n \in Registered : call'[c].row = row[n] /\ call'[c].id = n
<1>1. CASE Goto(c, "done") /\ Ask[c].verb = "parity.control" /\ ~Ask[c].execute
  BY <1>1, GotoDoes DEF PickRow, BeginsAlone, Starts
<1>2. CASE ~(Ask[c].verb = "parity.control" /\ ~Ask[c].execute) /\ \E n \in Names : Picks(c, n)
  <2> DEFINE n == CHOOSE n \in Names : Picks(c, n)
  <2>1. n \in Registered
    BY <1>2 DEF Picks
  <2>2. Becomes(c, [call[c] EXCEPT !.pc = "apikey", !.row = row[n], !.id = n])
    BY <1>2 DEF PickRow
  <2>3. Goes(c, "apikey", {"pc", "row", "id"}) /\ call'[c].row = row[n] /\ call'[c].id = n
    BY <2>2, SetsRowId
  <2> HIDE DEF n
  <2>4. QED
    BY <1>2, <2>1, <2>3 DEF PickRow, BeginsAlone, Starts
<1>3. CASE Fail(c)
  BY <1>3, GotoDoes DEF PickRow, Fail, Fails, BeginsAlone, Starts
<1>4. QED
  BY <1>1, <1>2, <1>3 DEF PickRow

LEMMA PickEnabledDoes ==
    ASSUME CallsShaped, NEW c \in Made, PickEnabled(c)
    PROVE  /\ call[c].pc = "idle" /\ Ask[c].verb = "ups.config_set" /\ BeginsAlone(c)
           /\ \/ Fails(c)
              \/ /\ Goes(c, "apikey", {"pc", "row", "id"})
                 /\ \E n \in Enabled : call'[c].row = row[n] /\ call'[c].id = n
<1>1. CASE Fail(c)
  BY <1>1, GotoDoes DEF PickEnabled, Fail, Fails, BeginsAlone, Starts, Capability
<1>2. CASE \E n \in Enabled : Becomes(c, [call[c] EXCEPT !.pc = "apikey", !.row = row[n], !.id = n])
  BY <1>2, SetsRowId DEF PickEnabled, BeginsAlone, Starts, Capability
<1>3. QED
  BY <1>1, <1>2 DEF PickEnabled

(* A mutation that took effect, or none that did.                           *)
Effected(c, effect, what, next, error) ==
    /\ Answers(c) /\ host' = [host EXCEPT ![call[c].url] = effect]
    /\ Writes(Made \ {c}, {<<what, call[c].url>>})
    /\ call'[c].did = call[c].did \cup {what}
    /\ \/ Goes(c, next, {"pc", "did", "lost"}) /\ call'[c].lost = FALSE
       \/ Goes(c, error, {"pc", "did", "lost"}) /\ call'[c].lost = TRUE
Mutated(c, effect, what, next, error) ==
    /\ UNCHANGED <<registry, stack, up>> /\ Quietly
    /\ \/ Goes(c, error, {"pc"}) /\ UNCHANGED <<host, raced>>
       \/ Effected(c, effect, what, next, error)

LEMMA MutationDoes ==
    ASSUME CallsShaped, NEW c \in Made, NEW effect, NEW what, NEW next, NEW error,
           Mutation(c, effect, what, next, error)
    PROVE  Mutated(c, effect, what, next, error)
<1>1. CASE Goto(c, error) /\ UNCHANGED <<host, raced>>
  BY <1>1, GotoDoes DEF Mutation, Mutated
<1>2. CASE /\ Answers(c)
           /\ host' = [host EXCEPT ![call[c].url] = effect]
           /\ Writes(Made \ {c}, {<<what, call[c].url>>})
           /\ \E lost \in BOOLEAN :
                Becomes(c, [call[c] EXCEPT !.pc = IF lost THEN error ELSE next,
                                           !.did = @ \cup {what}, !.lost = lost])
  <2>1. PICK lost \in BOOLEAN :
          Becomes(c, [call[c] EXCEPT !.pc = IF lost THEN error ELSE next,
                                     !.did = @ \cup {what}, !.lost = lost])
    BY <1>2
  <2> DEFINE to == IF lost THEN error ELSE next
             deeds == call[c].did \cup {what}
  <2>2. Becomes(c, [call[c] EXCEPT !.pc = to, !.did = deeds, !.lost = lost])
    BY <2>1 DEF CallsShaped, Fields
  <2> HIDE DEF to, deeds
  <2>3a. Goes(c, to, {"pc", "did", "lost"}) /\ call'[c].did = deeds /\ call'[c].lost = lost
    BY <2>2, SetsDidLost
  <2>3. /\ Goes(c, IF lost THEN error ELSE next, {"pc", "did", "lost"})
        /\ call'[c].did = call[c].did \cup {what} /\ call'[c].lost = lost
    BY <2>3a DEF to, deeds
  <2>4. CASE lost
    <3>1. Goes(c, error, {"pc", "did", "lost"}) /\ call'[c].lost = TRUE
      BY <2>3, <2>4
    <3>2. QED
      BY <1>2, <2>3, <3>1 DEF Mutation, Mutated, Effected
  <2>5. CASE ~lost
    <3>1. Goes(c, next, {"pc", "did", "lost"}) /\ call'[c].lost = FALSE
      BY <2>3, <2>5
    <3>2. QED
      BY <1>2, <2>3, <3>1 DEF Mutation, Mutated, Effected
  <2>6. QED
    BY <2>4, <2>5
<1>3. QED
  BY <1>1, <1>2 DEF Mutation

(* What each of them makes of the host: another field of a machine.         *)
Powered(c) == [At(c) EXCEPT !.vms[call[c].answer].state = Target[Ask[c].action]]
Checking(c) == IF Correcting(Ask[c].action) THEN "correcting" ELSE Ask[c].action
Upsed(c) == [At(c) EXCEPT !.ups = Configured(@, InUnits(Ask[c].ups))]
AfterIdentity(c) == IF "time" \in Sections(c) THEN "time" ELSE "done"

LEMMA MutationsAre ==
    ASSUME CallsShaped, NEW c \in Made
    PROVE  /\ PowerVm(c) => call[c].pc = "power" /\ Mutated(c, Powered(c), "power", "done", "failed")
           /\ ControlParity(c) =>
                /\ call[c].pc = "parity"
                /\ Mutated(c, [At(c) EXCEPT !.parity = Checking(c)], "parity", "done", "failed")
           /\ ConfigureUps(c) => call[c].pc = "ups" /\ Mutated(c, Upsed(c), "ups", "done", "failed")
           /\ SetIdentity(c) =>
                /\ call[c].pc = "ident"
                /\ Mutated(c, [At(c) EXCEPT !.ident = call[c].ident], "ident", AfterIdentity(c), "failed")
           /\ SetTime(c) =>
                /\ call[c].pc = "time"
                /\ Mutated(c, [At(c) EXCEPT !.time = call[c].time], "time", "done", PartialApply(c))
<1>1. PowerVm(c) => call[c].pc = "power" /\ Mutated(c, Powered(c), "power", "done", "failed")
  BY MutationDoes DEF PowerVm, Powered
<1>2. ControlParity(c) =>
        /\ call[c].pc = "parity"
        /\ Mutated(c, [At(c) EXCEPT !.parity = Checking(c)], "parity", "done", "failed")
  BY MutationDoes DEF ControlParity, Checking
<1>3. ConfigureUps(c) => call[c].pc = "ups" /\ Mutated(c, Upsed(c), "ups", "done", "failed")
  BY MutationDoes DEF ConfigureUps, Upsed
<1>4. SetIdentity(c) =>
        /\ call[c].pc = "ident"
        /\ Mutated(c, [At(c) EXCEPT !.ident = call[c].ident], "ident", AfterIdentity(c), "failed")
  BY MutationDoes DEF SetIdentity, AfterIdentity
<1>5. SetTime(c) =>
        /\ call[c].pc = "time"
        /\ Mutated(c, [At(c) EXCEPT !.time = call[c].time], "time", "done", PartialApply(c))
  BY MutationDoes DEF SetTime
<1>6. QED
  BY <1>1, <1>2, <1>3, <1>4, <1>5

LEMMA SetAutostartDoes ==
    ASSUME CallsShaped, NEW c \in Made, SetAutostart(c)
    PROVE  /\ call[c].pc = "set" /\ UNCHANGED <<registry, host, up>> /\ Quietly
           /\ \/ Fails(c) /\ UNCHANGED <<stack, raced>>
              \/ /\ stack' = [stack EXCEPT !.auto = Wanted(c)]
                 /\ Writes(Made \ {c}, {<<"autostart", Here>>})
                 /\ \/ Goes(c, "done", {"pc", "did", "lost"})
                    \/ Goes(c, "failed", {"pc", "did", "lost"}) /\ call'[c].lost = TRUE
<1>1. CASE Fail(c) /\ UNCHANGED <<stack, raced>>
  BY <1>1, GotoDoes DEF SetAutostart, Fail, Fails
<1>2. CASE /\ VirshWorks /\ stack' = [stack EXCEPT !.auto = Wanted(c)]
           /\ \E lost \in BOOLEAN :
                Becomes(c, [call[c] EXCEPT !.pc = IF lost THEN "failed" ELSE "done",
                                           !.did = {"autostart"}, !.lost = lost])
           /\ Writes(Made \ {c}, {<<"autostart", Here>>})
  <2>1. PICK lost \in BOOLEAN :
          Becomes(c, [call[c] EXCEPT !.pc = IF lost THEN "failed" ELSE "done",
                                     !.did = {"autostart"}, !.lost = lost])
    BY <1>2
  <2>2. Goes(c, IF lost THEN "failed" ELSE "done", {"pc", "did", "lost"}) /\ call'[c].lost = lost
    BY <2>1, SetsDidLost
  <2>3. \/ Goes(c, "done", {"pc", "did", "lost"})
        \/ Goes(c, "failed", {"pc", "did", "lost"}) /\ call'[c].lost = TRUE
    BY <2>2
  <2>4. QED
    BY <1>2, <2>3 DEF SetAutostart
<1>3. QED
  BY <1>1, <1>2 DEF SetAutostart

-----------------------------------------------------------------------------
(* The steps of create, update and delete.                                  *)
LEMMA InsertRowDoes ==
    ASSUME CallsShaped, NEW c \in Made, InsertRow(c)
    PROVE  /\ call[c].pc = "idle" /\ Ask[c].verb = "create" /\ UNCHANGED <<key, world, budget>>
           /\ \/ Fails(c) /\ UNCHANGED <<row, raced, meant>>
              \/ /\ ~row[Ask[c].name].exists /\ row' = [row EXCEPT ![Ask[c].name] = Row(c)]
                 /\ Goes(c, "key", {"pc"}) /\ BeginsWriting(c) /\ Means(c, Row(c))
BY GotoDoes DEF InsertRow, Starts, Fail, Fails

LEMMA SetKeyDoes ==
    ASSUME CallsShaped, NEW c \in Made, SetKey(c)
    PROVE  /\ call[c].pc = "key" /\ Ask[c].verb \in {"create", "update"}
           /\ UNCHANGED <<row, world>> /\ Quietly
           /\ \/ Goes(c, OnKeyError(c), {"pc"}) /\ UNCHANGED <<key, raced>>
              \/ /\ key' = [key EXCEPT ![Ask[c].name] = Ask[c].key] /\ WritesName(c)
                 /\ \/ Goes(c, "done", {"pc"})
                    \/ /\ Goes(c, OnKeyError(c), {"pc", "did"})
                       /\ call'[c].did = call[c].did \cup {"key"}
<1>1. CASE Goto(c, OnKeyError(c)) /\ UNCHANGED <<key, raced>>
  BY <1>1, GotoDoes DEF SetKey
<1>2. CASE key' = [key EXCEPT ![Ask[c].name] = Ask[c].key] /\ Goto(c, "done") /\ WritesName(c)
  BY <1>2, GotoDoes DEF SetKey
<1>3. CASE key' = [key EXCEPT ![Ask[c].name] = Ask[c].key] /\ KeyStored(c) /\ WritesName(c)
  <2>1. /\ Goes(c, OnKeyError(c), {"pc", "did"})
        /\ call'[c].did = call[c].did \cup {"key"}
    BY <1>3, SetsDid DEF KeyStored
  <2>2. QED
    BY <1>3, <2>1 DEF SetKey
<1>4. QED
  BY <1>1, <1>2, <1>3 DEF SetKey

LEMMA UndoRowDoes ==
    ASSUME CallsShaped, NEW c \in Made, UndoRow(c)
    PROVE  /\ call[c].pc = "undo" /\ row' \in {[row EXCEPT ![Ask[c].name] = NoRow], row}
           /\ Goes(c, "failed", {"pc", "lost"}) /\ call'[c].lost = row'[Ask[c].name].exists
           /\ WritesName(c) /\ Means(c, NoRow) /\ UNCHANGED <<key, world, budget>>
BY SetsLost DEF UndoRow

LEMMA ReadRowDoes ==
    ASSUME CallsShaped, NEW c \in Made, ReadRow(c)
    PROVE  /\ call[c].pc = "idle" /\ Ask[c].verb = "update" /\ UNCHANGED <<registry, world>> /\ Quietly
           /\ \/ Fails(c) /\ raced' = raced
              \/ /\ row[Ask[c].name].exists /\ Begins(c)
                 /\ call'[c].row = Patched(c, row[Ask[c].name])
                 /\ \/ Goes(c, "row", {"pc", "row"})
                    \/ /\ Goes(c, "key", {"pc", "row"}) /\ Ask[c].key # NoKey
                       /\ Ask[c].routes = << >>
<1> DEFINE old == row[Ask[c].name]
           pc == IF Ask[c].routes # << >> \/ Ask[c].enabled # Keep THEN "row" ELSE ThenKey(c)
<1>1. CASE Fail(c) /\ UNCHANGED raced
  BY <1>1, GotoDoes DEF ReadRow, Starts, Fail, Fails
<1>2. CASE /\ old.exists /\ (pc = "row" \/ Ask[c].key # NoKey)
           /\ Becomes(c, [call[c] EXCEPT !.pc = pc, !.row = Patched(c, old)]) /\ Begins(c)
  <2>1. Goes(c, pc, {"pc", "row"}) /\ call'[c].row = Patched(c, old)
    BY <1>2, SetsRow
  <2>2. pc = "row" \/ (pc = "key" /\ Ask[c].key # NoKey /\ Ask[c].routes = << >>)
    BY <1>2 DEF ThenKey
  <2> HIDE DEF pc
  <2>3. QED
    BY <1>2, <2>1, <2>2 DEF ReadRow, Starts
<1>3. QED
  BY <1>1, <1>2 DEF ReadRow

LEMMA WriteRowDoes ==
    ASSUME CallsShaped, NEW c \in Made, WriteRow(c)
    PROVE  /\ call[c].pc = "row" /\ UNCHANGED <<key, world, budget>>
           /\ \/ Fails(c) /\ UNCHANGED <<row, raced, meant>>
              \/ /\ row[Ask[c].name].exists /\ row' = [row EXCEPT ![Ask[c].name] = call[c].row]
                 /\ Goes(c, ThenKey(c), {"pc", "did"}) /\ call'[c].did = {"row"}
                 /\ WritesName(c) /\ Means(c, Patched(c, meant[Ask[c].name]))
BY GotoDoes, SetsDid DEF WriteRow, Fail, Fails

LEMMA RemoveRowDoes ==
    ASSUME CallsShaped, NEW c \in Made, RemoveRow(c)
    PROVE  /\ call[c].pc = "idle" /\ Ask[c].verb = "delete" /\ UNCHANGED <<key, world, budget>>
           /\ \/ Fails(c) /\ UNCHANGED <<row, raced, meant>>
              \/ /\ row' = [row EXCEPT ![Ask[c].name] = NoRow]
                 /\ Goes(c, "unkey", {"pc", "did"}) /\ call'[c].did = {"row"}
                 /\ BeginsWriting(c) /\ Means(c, NoRow)
BY GotoDoes, SetsDid DEF RemoveRow, Starts, Fail, Fails

LEMMA RemoveKeyDoes ==
    ASSUME CallsShaped, NEW c \in Made, RemoveKey(c)
    PROVE  /\ call[c].pc = "unkey" /\ UNCHANGED <<row, world>> /\ Quietly
           /\ \/ Fails(c) /\ UNCHANGED <<key, raced>>
              \/ /\ key' = [key EXCEPT ![Ask[c].name] = NoKey] /\ WritesName(c)
                 /\ \E pc \in {"done", "failed"} : Goes(c, pc, {"pc"})
BY GotoDoes DEF RemoveKey, Fail, Fails

-----------------------------------------------------------------------------
(* What a step leaves to the calls that do not take it: their record, their *)
(* notes, and what they looked at unless a note says otherwise.             *)
Moves(c) == \/ Refuse(c) \/ Registers(c) \/ Connects(c) \/ Manages(c)
            \/ Settles(c) \/ Probes(c) \/ Autostarts(c)
HostStands(c, h) ==
    /\ <<"manager", h>> \notin raced'[c] => host'[h].manager = host[h].manager
    /\ <<"array", h>> \notin raced'[c] => host'[h].stopped = host[h].stopped
    /\ <<"ident", h>> \notin raced'[c] => host'[h].ident = host[h].ident
    /\ <<"time", h>> \notin raced'[c] => host'[h].time = host[h].time
    /\ \A v \in Vms : host'[h].vms[v].name = host[h].vms[v].name
NameStands(c, n) == <<"row", n>> \notin raced'[c] => row'[n] = row[n] /\ key'[n] = key[n]
StackStands(c) == <<"stack", Here>> \notin raced'[c] => stack'.daemon = stack.daemon
Told(c) == raced[c] \subseteq raced'[c] /\ (Running(c) \/ raced'[c] = raced[c])
Undisturbed(c) ==
    /\ call'[c] = call[c] /\ Told(c)
    /\ Running(c) =>
         /\ \A h \in Hosts : HostStands(c, h)
         /\ \A n \in Names : NameStands(c, n)
         /\ StackStands(c)

(* The steps that only look, and those that begin with one.                 *)
Looking(c) ==
    \/ Refuse(c) \/ ReadKey(c) \/ Resolve(c) \/ ListVms(c)
    \/ ReadArray(c) \/ ReadIdentity(c) \/ ReadTime(c) \/ Decide(c)
    \/ Probes(c) \/ RequireVms(c) \/ PlanAutostart(c) \/ PlanAsRoot(c)
Beginning(c) == PickRow(c) \/ PickEnabled(c) \/ ReadRow(c)
Writing(c) ==
    InsertRow(c) \/ SetKey(c) \/ UndoRow(c) \/ WriteRow(c) \/ RemoveRow(c) \/ RemoveKey(c)
Mutating(c) == PowerVm(c) \/ ControlParity(c) \/ ConfigureUps(c) \/ SetIdentity(c) \/ SetTime(c)

LEMMA MovesSplit ==
    ASSUME NEW c, Moves(c)
    PROVE  Looking(c) \/ Beginning(c) \/ Writing(c) \/ Mutating(c) \/ SetAutostart(c)
BY DEF Moves, Looking, Beginning, Writing, Mutating, Registers, Connects, Manages, Settles, Autostarts

LEMMA LookingDoes ==
    ASSUME CallsShaped, NEW c \in Made, Looking(c)
    PROVE  Looks /\ Alone(c)
<1>1. CASE Refuse(c)
  BY <1>1, RefuseDoes DEF Goes, Fails
<1>2. CASE ReadKey(c) \/ Resolve(c) \/ ListVms(c)
  BY <1>2, ReadKeyDoes, ResolveDoes, ListVmsDoes DEF Goes, Fails
<1>3. CASE ReadArray(c) \/ ReadIdentity(c) \/ ReadTime(c) \/ Decide(c)
  BY <1>3, ReadArrayDoes, ReadIdentityDoes, ReadTimeDoes, DecideDoes DEF Goes, Fails
<1>4. CASE LocalView(c) \/ AskFlags(c) \/ AskManager(c)
  BY <1>4, LocalViewDoes, AskFlagsDoes, AskManagerDoes DEF Goes, Fails
<1>5. CASE ProbeMount(c) \/ ProbePid(c) \/ ProbeComm(c) \/ Assess(c)
  BY <1>5, ProbeMountDoes, ProbePidDoes, ProbeCommDoes, AssessDoes DEF Goes, Fails
<1>6. CASE RequireVms(c) \/ PlanAutostart(c) \/ PlanAsRoot(c)
  BY <1>6, RequireVmsDoes, PlanDoes DEF Goes, Fails
<1>7. QED
  BY <1>1, <1>2, <1>3, <1>4, <1>5, <1>6 DEF Looking, Probes

LEMMA BeginningDoes ==
    ASSUME CallsShaped, NEW c \in Made, Beginning(c)
    PROVE  /\ UNCHANGED <<registry, world>> /\ Quietly /\ (raced' = raced \/ Begins(c))
           /\ Alone(c) /\ call[c].pc = "idle"
<1>1. CASE PickRow(c)
  BY <1>1, PickRowDoes DEF Goes, Fails, BeginsAlone
<1>2. CASE PickEnabled(c)
  BY <1>2, PickEnabledDoes DEF Goes, Fails, BeginsAlone
<1>3. CASE ReadRow(c)
  BY <1>3, ReadRowDoes DEF Goes, Fails
<1>4. QED
  BY <1>1, <1>2, <1>3 DEF Beginning

(* A step that notes what it wrote.                                         *)
LEMMA WritesDoes ==
    ASSUME NEW ds, NEW what, Writes(ds, what)
    PROVE  /\ raced' = [d \in Made |-> raced'[d]]
           /\ \A d \in Made : /\ Told(d)
                              /\ (d \in ds /\ Running(d) => what \subseteq raced'[d])
BY DEF Writes, Told

LEMMA BeginsWritingDoes ==
    ASSUME NEW c \in Made, BeginsWriting(c)
    PROVE  /\ raced' = [d \in Made |-> raced'[d]] /\ raced'[c] = Busy
           /\ \A d \in Made \ {c} : /\ Told(d)
                                    /\ (Running(d) => <<"row", Ask[c].name>> \in raced'[d])
BY DEF BeginsWriting, Told

LEMMA WritesNameDoes ==
    ASSUME NEW c \in Made, WritesName(c)
    PROVE  /\ raced' = [d \in Made |-> raced'[d]] /\ raced[c] \subseteq raced'[c]
           /\ \A d \in Made \ {c} : /\ Told(d)
                                    /\ (Running(d) => <<"row", Ask[c].name>> \in raced'[d])
<1> DEFINE what == {<<"row", Ask[c].name>>}
           ds == Made \ {c}
<1>1. Writes(ds, what)
  BY DEF WritesName
<1>2. <<"row", Ask[c].name>> \in what
  OBVIOUS
<1> HIDE DEF what
<1>3. /\ raced' = [d \in Made |-> raced'[d]]
      /\ \A d \in Made : Told(d) /\ (d \in ds /\ Running(d) => what \subseteq raced'[d])
  BY <1>1, WritesDoes
<1>4. QED
  BY <1>2, <1>3 DEF Told

LEMMA Elsewhere ==
    ASSUME NEW f, f = [n \in Names |-> f[n]], NEW g, NEW m, NEW v, g = [f EXCEPT ![m] = v]
    PROVE  \A n \in Names \ {m} : g[n] = f[n]
OBVIOUS

(* A writer touches one name, and tells the calls under way.                *)
LEMMA WritingDoes ==
    ASSUME CallsShaped, Tables, NEW c \in Made, Writing(c)
    PROVE  /\ Alone(c) /\ UNCHANGED <<world, budget>>
           /\ raced' = [d \in Made |-> raced'[d]]
           /\ \A d \in Made \ {c} : Told(d)
           /\ Ask[c].verb \in Registry \/ call[c].pc \in {"undo", "row", "unkey"}
           /\ \A n \in Names \ {Ask[c].name} : row'[n] = row[n] /\ key'[n] = key[n] /\ meant'[n] = meant[n]
           /\ \/ row' = row /\ key' = key
              \/ \A d \in Made \ {c} : Running(d) => <<"row", Ask[c].name>> \in raced'[d]
<1>0. /\ raced = [d \in Made |-> raced[d]] /\ row = [n \in Names |-> row[n]]
      /\ key = [n \in Names |-> key[n]] /\ meant = [n \in Names |-> meant[n]]
  BY DEF Tables
<1>1. CASE InsertRow(c)
  <2>1. CASE Fails(c) /\ UNCHANGED <<row, raced, meant>>
    BY <1>0, <1>1, <2>1, InsertRowDoes DEF Goes, Fails, Registry, Told
  <2>2. CASE /\ row' = [row EXCEPT ![Ask[c].name] = Row(c)]
             /\ Goes(c, "key", {"pc"}) /\ BeginsWriting(c) /\ Means(c, Row(c))
    <3>1. /\ raced' = [d \in Made |-> raced'[d]]
          /\ \A d \in Made \ {c} : /\ Told(d)
                                   /\ (Running(d) => <<"row", Ask[c].name>> \in raced'[d])
      BY <2>2, BeginsWritingDoes
    <3>2. \A n \in Names \ {Ask[c].name} : row'[n] = row[n] /\ meant'[n] = meant[n]
      BY <1>0, <2>2, Elsewhere DEF Means
    <3>3. QED
      BY <1>1, <2>2, <3>1, <3>2, InsertRowDoes DEF Goes, Registry, world
  <2>3. QED
    BY <1>1, <2>1, <2>2, InsertRowDoes
<1>2. CASE SetKey(c)
  <2>1. CASE Goes(c, OnKeyError(c), {"pc"}) /\ UNCHANGED <<key, raced>>
    BY <1>0, <1>2, <2>1, SetKeyDoes DEF Goes, Quietly, Registry, world, Told
  <2>2. CASE /\ key' = [key EXCEPT ![Ask[c].name] = Ask[c].key] /\ WritesName(c)
             /\ Goes(c, "done", {"pc"}) \/ Goes(c, OnKeyError(c), {"pc", "did"})
    <3>1. /\ raced' = [d \in Made |-> raced'[d]]
          /\ \A d \in Made \ {c} : /\ Told(d)
                                   /\ (Running(d) => <<"row", Ask[c].name>> \in raced'[d])
      BY <2>2, WritesNameDoes
    <3>2. \A n \in Names \ {Ask[c].name} : key'[n] = key[n]
      BY <1>0, <2>2, Elsewhere
    <3>3. QED
      BY <1>2, <2>2, <3>1, <3>2, SetKeyDoes DEF Goes, Quietly, Registry, world
  <2>3. QED
    BY <1>2, <2>1, <2>2, SetKeyDoes
<1>3. CASE UndoRow(c)
  <2>1. /\ raced' = [d \in Made |-> raced'[d]]
        /\ \A d \in Made \ {c} : /\ Told(d)
                                 /\ (Running(d) => <<"row", Ask[c].name>> \in raced'[d])
    BY <1>3, UndoRowDoes, WritesNameDoes
  <2>2. \A n \in Names \ {Ask[c].name} : row'[n] = row[n] /\ meant'[n] = meant[n]
    BY <1>0, <1>3, UndoRowDoes, Elsewhere DEF Means
  <2>3. QED
    BY <1>3, <2>1, <2>2, UndoRowDoes DEF Goes, world
<1>4. CASE WriteRow(c)
  <2>1. CASE Fails(c) /\ UNCHANGED <<row, raced, meant>>
    BY <1>0, <1>4, <2>1, WriteRowDoes DEF Goes, Fails, Told
  <2>2. CASE /\ row' = [row EXCEPT ![Ask[c].name] = call[c].row]
             /\ Goes(c, ThenKey(c), {"pc", "did"})
             /\ WritesName(c) /\ Means(c, Patched(c, meant[Ask[c].name]))
    <3>1. /\ raced' = [d \in Made |-> raced'[d]]
          /\ \A d \in Made \ {c} : /\ Told(d)
                                   /\ (Running(d) => <<"row", Ask[c].name>> \in raced'[d])
      BY <2>2, WritesNameDoes
    <3>2. \A n \in Names \ {Ask[c].name} : row'[n] = row[n] /\ meant'[n] = meant[n]
      BY <1>0, <2>2, Elsewhere DEF Means
    <3>3. QED
      BY <1>4, <2>2, <3>1, <3>2, WriteRowDoes DEF Goes, world
  <2>3. QED
    BY <1>4, <2>1, <2>2, WriteRowDoes
<1>5. CASE RemoveRow(c)
  <2>1. CASE Fails(c) /\ UNCHANGED <<row, raced, meant>>
    BY <1>0, <1>5, <2>1, RemoveRowDoes DEF Goes, Fails, Registry, Told
  <2>2. CASE /\ row' = [row EXCEPT ![Ask[c].name] = NoRow]
             /\ Goes(c, "unkey", {"pc", "did"}) /\ BeginsWriting(c) /\ Means(c, NoRow)
    <3>1. /\ raced' = [d \in Made |-> raced'[d]]
          /\ \A d \in Made \ {c} : /\ Told(d)
                                   /\ (Running(d) => <<"row", Ask[c].name>> \in raced'[d])
      BY <2>2, BeginsWritingDoes
    <3>2. \A n \in Names \ {Ask[c].name} : row'[n] = row[n] /\ meant'[n] = meant[n]
      BY <1>0, <2>2, Elsewhere DEF Means
    <3>3. QED
      BY <1>5, <2>2, <3>1, <3>2, RemoveRowDoes DEF Goes, Registry, world
  <2>3. QED
    BY <1>5, <2>1, <2>2, RemoveRowDoes
<1>6. CASE RemoveKey(c)
  <2>1. CASE Fails(c) /\ UNCHANGED <<key, raced>>
    BY <1>0, <1>6, <2>1, RemoveKeyDoes DEF Goes, Fails, Quietly, Told
  <2>2. CASE /\ key' = [key EXCEPT ![Ask[c].name] = NoKey] /\ WritesName(c)
             /\ \E pc \in {"done", "failed"} : Goes(c, pc, {"pc"})
    <3>1. /\ raced' = [d \in Made |-> raced'[d]]
          /\ \A d \in Made \ {c} : /\ Told(d)
                                   /\ (Running(d) => <<"row", Ask[c].name>> \in raced'[d])
      BY <2>2, WritesNameDoes
    <3>2. \A n \in Names \ {Ask[c].name} : key'[n] = key[n]
      BY <1>0, <2>2, Elsewhere
    <3>3. QED
      BY <1>6, <2>2, <3>1, <3>2, RemoveKeyDoes DEF Goes, Quietly, world
  <2>3. QED
    BY <1>6, <2>1, <2>2, RemoveKeyDoes
<1>7. QED
  BY <1>1, <1>2, <1>3, <1>4, <1>5, <1>6 DEF Writing

(* A change of a machine changes that, and no VM's name.                    *)
MachineBut(m, new, F) ==
    /\ IsMachine(new) /\ \A f \in MachineFields \ F : new[f] = m[f]
    /\ \A v \in Vms : new.vms[v].name = m.vms[v].name

LEMMA FieldChange ==
    ASSUME NEW m, IsMachine(m), NEW v
    PROVE  /\ MachineBut(m, [m EXCEPT !.stopped = v], {"stopped"})
           /\ MachineBut(m, [m EXCEPT !.ident = v], {"ident"})
           /\ MachineBut(m, [m EXCEPT !.time = v], {"time"})
           /\ MachineBut(m, [m EXCEPT !.manager = v], {"manager"})
           /\ MachineBut(m, [m EXCEPT !.parity = v], {"parity"})
           /\ DOMAIN v = UpsFields => MachineBut(m, [m EXCEPT !.ups = v], {"ups"})
<1>1. m = [f \in MachineFields |-> m[f]]
  BY DEF IsMachine
<1> DEFINE Is(new, f) == new = [g \in MachineFields |-> new[g]] /\ new[f] = v
                         /\ \A g \in MachineFields \ {f} : new[g] = m[g]
<1>2. Is([m EXCEPT !.stopped = v], "stopped") /\ Is([m EXCEPT !.ident = v], "ident")
  BY <1>1 DEF MachineFields
<1>3. Is([m EXCEPT !.time = v], "time") /\ Is([m EXCEPT !.manager = v], "manager")
  BY <1>1 DEF MachineFields
<1>4. Is([m EXCEPT !.parity = v], "parity") /\ Is([m EXCEPT !.ups = v], "ups")
  BY <1>1 DEF MachineFields
<1>5. ASSUME NEW f \in MachineFields \ {"vms"}, NEW new, Is(new, f), f = "ups" => DOMAIN v = UpsFields
      PROVE  MachineBut(m, new, {f})
  <2>1. new.vms = m.vms /\ DOMAIN new.ups = UpsFields
    BY <1>5 DEF MachineFields, IsMachine
  <2>2. QED
    BY <1>5, <2>1 DEF MachineBut, IsMachine
<1> HIDE DEF Is
<1>6. {"stopped", "ident", "time", "manager", "parity", "ups"} \subseteq MachineFields \ {"vms"}
  BY DEF MachineFields
<1>7. QED
  BY <1>2, <1>3, <1>4, <1>5, <1>6

LEMMA StateChange ==
    ASSUME NEW m, IsMachine(m), NEW a, NEW v
    PROVE  MachineBut(m, [m EXCEPT !.vms[a].state = v], {"vms"})
<1> DEFINE vms == [m.vms EXCEPT ![a] = [m.vms[a] EXCEPT !.state = v]]
           new == [m EXCEPT !.vms = vms]
<1>1. m = [f \in MachineFields |-> m[f]] /\ m.vms = [u \in Vms |-> m.vms[u]]
      /\ \A u \in Vms : m.vms[u] = [f \in {"name", "state"} |-> m.vms[u][f]]
  BY DEF IsMachine
<1>2. new = [m EXCEPT !.vms[a].state = v]
  OBVIOUS
<1>3. /\ new = [f \in MachineFields |-> new[f]] /\ new.vms = vms
      /\ \A f \in MachineFields \ {"vms"} : new[f] = m[f]
  BY <1>1 DEF MachineFields
<1>4. vms = [u \in Vms |-> vms[u]] /\ \A u \in Vms \ {a} : vms[u] = m.vms[u]
  BY <1>1
<1>5. \A u \in Vms : vms[u] = [f \in {"name", "state"} |-> vms[u][f]] /\ vms[u].name = m.vms[u].name
  <2>1. CASE a \in Vms
    <3>1. vms[a] = [m.vms[a] EXCEPT !.state = v]
      BY <1>1, <2>1
    <3>2. vms[a] = [f \in {"name", "state"} |-> vms[a][f]] /\ vms[a].name = m.vms[a].name
      BY <1>1, <2>1, <3>1
    <3>3. QED
      BY <1>1, <1>4, <3>2
  <2>2. CASE a \notin Vms
    BY <1>1, <1>4, <2>2
  <2>3. QED
    BY <2>1, <2>2
<1>6. DOMAIN new.ups = UpsFields
  BY <1>3 DEF MachineFields, IsMachine
<1> HIDE DEF vms, new
<1>7. MachineBut(m, new, {"vms"})
  BY <1>3, <1>4, <1>5, <1>6 DEF MachineBut, IsMachine
<1>8. QED
  BY <1>2, <1>7

LEMMA HostSet ==
    ASSUME Machines, NEW h \in Hosts, NEW new, NEW F, MachineBut(host[h], new, F),
           host' = [host EXCEPT ![h] = new]
    PROVE  /\ host' = [x \in Hosts |-> host'[x]] /\ \A x \in Hosts : IsMachine(host'[x])
           /\ host'[h] = new /\ \A x \in Hosts \ {h} : host'[x] = host[x]
<1>1. host = [x \in Hosts |-> host[x]] /\ \A x \in Hosts : IsMachine(host[x])
  BY DEF Machines
<1>2. /\ host' = [x \in Hosts |-> host'[x]]
      /\ host'[h] = new /\ \A x \in Hosts \ {h} : host'[x] = host[x]
  BY <1>1
<1>3. IsMachine(new)
  BY DEF MachineBut
<1>4. QED
  BY <1>1, <1>2, <1>3

(* Who is told of the change of a field has nothing left to rely on.        *)
LEMMA ChangeIsNoted ==
    ASSUME Machines, NEW h \in Hosts, NEW new, NEW f \in MachineFields, NEW what, NEW d \in Made,
           MachineBut(host[h], new, {f}), host' = [host EXCEPT ![h] = new],
           f \in {"manager", "stopped", "ident", "time"} => <<what, h>> \in raced'[d],
           f = "manager" => what = "manager", f = "stopped" => what = "array",
           f = "ident" => what = "ident", f = "time" => what = "time"
    PROVE  \A x \in Hosts : HostStands(d, x)
<1>1. host'[h] = new /\ \A x \in Hosts \ {h} : host'[x] = host[x]
  BY HostSet
<1>2. /\ \A g \in MachineFields \ {f} : new[g] = host[h][g]
      /\ \A v \in Vms : new.vms[v].name = host[h].vms[v].name
  BY DEF MachineBut
<1>3. HostStands(d, h)
  <2>1. <<"manager", h>> \notin raced'[d] => host'[h].manager = host[h].manager
    BY <1>1, <1>2 DEF MachineFields
  <2>2. <<"array", h>> \notin raced'[d] => host'[h].stopped = host[h].stopped
    BY <1>1, <1>2 DEF MachineFields
  <2>3. <<"ident", h>> \notin raced'[d] => host'[h].ident = host[h].ident
    BY <1>1, <1>2 DEF MachineFields
  <2>4. <<"time", h>> \notin raced'[d] => host'[h].time = host[h].time
    BY <1>1, <1>2 DEF MachineFields
  <2>5. QED
    BY <1>1, <1>2, <2>1, <2>2, <2>3, <2>4 DEF HostStands
<1>4. QED
  BY <1>1, <1>3 DEF HostStands

LEMMA MutatedDoes ==
    ASSUME CallsShaped, Tables, Machines, NEW c \in Made, call[c].url \in Hosts, NEW effect, NEW what,
           NEW next, NEW error, Mutated(c, effect, what, next, error),
           NEW f \in MachineFields, MachineBut(At(c), effect, {f}),
           f \in {"ident", "time"} => what = f, f \notin {"manager", "stopped"}
    PROVE  /\ Alone(c) /\ UNCHANGED <<row, key, stack, up, meant>>
           /\ Machines' /\ raced' = [d \in Made |-> raced'[d]]
           /\ raced[c] \subseteq raced'[c]
           /\ \A d \in Made \ {c} : Undisturbed(d)
<1> DEFINE u == call[c].url
<1>1. Alone(c) /\ UNCHANGED <<row, key, stack, up, meant>>
  BY DEF Mutated, Effected, Goes, registry, Quietly
<1>2. raced = [d \in Made |-> raced[d]] /\ stack' = stack
  BY <1>1 DEF Tables
<1>3. CASE UNCHANGED <<host, raced>>
  BY <1>1, <1>2, <1>3 DEF Machines, Undisturbed, HostStands, NameStands, StackStands, Alone, Told
<1>4. CASE Effected(c, effect, what, next, error)
  <2>1. host' = [host EXCEPT ![u] = effect] /\ MachineBut(host[u], effect, {f})
    BY <1>4 DEF Effected, At
  <2>2. Machines'
    BY <1>2, <2>1, HostSet DEF Machines
  <2> DEFINE tokens == {<<what, u>>}
             ds == Made \ {c}
  <2>3. Writes(ds, tokens) /\ <<what, u>> \in tokens
    BY <1>4 DEF Effected
  <2> HIDE DEF tokens
  <2>4. /\ raced' = [d \in Made |-> raced'[d]] /\ \A d \in Made : Told(d)
        /\ \A d \in Made \ {c} : Running(d) => <<what, u>> \in raced'[d]
    BY <2>3, WritesDoes
  <2>5. ASSUME NEW d \in Made \ {c}
        PROVE  Undisturbed(d)
    <3>1. Running(d) => \A h \in Hosts : HostStands(d, h)
      BY <2>1, <2>4, ChangeIsNoted
    <3>2. QED
      BY <1>1, <2>4, <3>1 DEF Undisturbed, Alone, NameStands, StackStands
  <2>6. QED
    BY <1>1, <2>2, <2>4, <2>5 DEF Told
<1>5. QED
  BY <1>3, <1>4 DEF Mutated

LEMMA MutatingDoes ==
    ASSUME CallsShaped, Tables, Machines, NEW c \in Made, call[c].url \in Hosts, Mutating(c)
    PROVE  /\ Alone(c) /\ UNCHANGED <<row, key, stack, up, meant>>
           /\ Machines' /\ raced' = [d \in Made |-> raced'[d]]
           /\ raced[c] \subseteq raced'[c]
           /\ \A d \in Made \ {c} : Undisturbed(d)
<1>0. IsMachine(At(c)) /\ {"vms", "parity", "ups", "ident", "time"} \subseteq MachineFields
  BY DEF Machines, At, MachineFields
<1>1. CASE PowerVm(c)
  <2>1. Mutated(c, Powered(c), "power", "done", "failed") /\ MachineBut(At(c), Powered(c), {"vms"})
    BY <1>0, <1>1, MutationsAre, StateChange DEF Powered
  <2>2. QED
    BY <1>0, <2>1, MutatedDoes
<1>2. CASE ControlParity(c)
  <2> DEFINE effect == [At(c) EXCEPT !.parity = Checking(c)]
  <2>1. Mutated(c, effect, "parity", "done", "failed") /\ MachineBut(At(c), effect, {"parity"})
    BY <1>0, <1>2, MutationsAre, FieldChange
  <2> HIDE DEF effect
  <2>2. QED
    BY <1>0, <2>1, MutatedDoes
<1>3. CASE ConfigureUps(c)
  <2> DEFINE ups == Configured(At(c).ups, InUnits(Ask[c].ups))
             effect == [At(c) EXCEPT !.ups = ups]
  <2>1. effect = Upsed(c) /\ DOMAIN ups = UpsFields
    BY <1>0 DEF Upsed, Configured, IsMachine
  <2> HIDE DEF ups
  <2>2. MachineBut(At(c), effect, {"ups"})
    BY <1>0, <2>1, FieldChange
  <2> HIDE DEF effect
  <2>3. Mutated(c, effect, "ups", "done", "failed")
    BY <1>3, <2>1, MutationsAre
  <2>4. QED
    BY <1>0, <2>2, <2>3, MutatedDoes
<1>4. CASE SetIdentity(c)
  <2> DEFINE effect == [At(c) EXCEPT !.ident = call[c].ident]
  <2>1. Mutated(c, effect, "ident", AfterIdentity(c), "failed") /\ MachineBut(At(c), effect, {"ident"})
    BY <1>0, <1>4, MutationsAre, FieldChange
  <2> HIDE DEF effect
  <2>2. QED
    BY <1>0, <2>1, MutatedDoes
<1>5. CASE SetTime(c)
  <2> DEFINE effect == [At(c) EXCEPT !.time = call[c].time]
  <2>1. Mutated(c, effect, "time", "done", PartialApply(c)) /\ MachineBut(At(c), effect, {"time"})
    BY <1>0, <1>5, MutationsAre, FieldChange
  <2> HIDE DEF effect
  <2>2. QED
    BY <1>0, <2>1, MutatedDoes
<1>6. QED
  BY <1>1, <1>2, <1>3, <1>4, <1>5 DEF Mutating

(* Libvirt's switch is no part of what anybody looks at.                    *)
LEMMA SwitchingDoes ==
    ASSUME CallsShaped, Tables, Machines, NEW c \in Made, SetAutostart(c)
    PROVE  /\ Alone(c) /\ UNCHANGED <<row, key, host, up, meant>>
           /\ Machines' /\ raced' = [d \in Made |-> raced'[d]]
           /\ raced[c] \subseteq raced'[c] /\ stack'.daemon = stack.daemon
           /\ \A d \in Made \ {c} : Undisturbed(d)
<1>1. /\ Alone(c) /\ UNCHANGED <<row, key, host, up, meant>>
      /\ UNCHANGED <<stack, raced>>
         \/ /\ stack' = [stack EXCEPT !.auto = Wanted(c)]
            /\ Writes(Made \ {c}, {<<"autostart", Here>>})
  BY SetAutostartDoes DEF Goes, Fails, registry, Quietly
<1>2. stack = [f \in LibvirtFields |-> stack[f]] /\ raced = [d \in Made |-> raced[d]]
  BY DEF Machines, Tables
<1>3. stack' = [f \in LibvirtFields |-> stack'[f]] /\ stack'.daemon = stack.daemon
  BY <1>1, <1>2 DEF LibvirtFields
<1>4. raced' = [d \in Made |-> raced'[d]] /\ \A d \in Made : Told(d)
  BY <1>1, <1>2, WritesDoes DEF Told
<1>5. QED
  BY <1>1, <1>3, <1>4 DEF Machines, Alone, Undisturbed, HostStands, NameStands, StackStands, Told

(* Everybody else leaves the registry and the calls alone.                  *)
Others ==
    \/ \E h \in Hosts : \/ SwitchArray(h) \/ EditIdentity(h) \/ EditTime(h) \/ SwitchVms(h)
                       \/ GoUpOrDown(h)
    \/ FlipAutostart \/ StopLibvirt \/ StartLibvirt

LEMMA TheirsDoes ==
    ASSUME CallsShaped, Tables, Machines, NEW h \in Hosts, NEW new, NEW what, Theirs(h, new, what),
           NEW f \in {"manager", "stopped", "ident", "time"}, MachineBut(host[h], new, {f}),
           f = "manager" => what = "manager", f = "stopped" => what = "array",
           f = "ident" => what = "ident", f = "time" => what = "time"
    PROVE  /\ UNCHANGED <<row, key, call, meant, up>> /\ Machines'
           /\ raced' = [d \in Made |-> raced'[d]]
           /\ \A d \in Made : Undisturbed(d)
<1>1. UNCHANGED <<row, key, call, meant, up, stack>> /\ host' = [host EXCEPT ![h] = new]
  BY DEF Theirs, registry
<1> DEFINE tokens == {<<what, h>>}
<1>2. Writes(Made, tokens) /\ <<what, h>> \in tokens
  BY DEF Theirs
<1> HIDE DEF tokens
<1>3. /\ raced' = [d \in Made |-> raced'[d]]
      /\ \A d \in Made : Told(d) /\ (Running(d) => <<what, h>> \in raced'[d])
  BY <1>2, WritesDoes
<1>4. f \in MachineFields
  BY DEF MachineFields
<1>5. Machines'
  BY <1>1, HostSet DEF Machines
<1>6. \A d \in Made : Running(d) => \A x \in Hosts : HostStands(d, x)
  BY <1>1, <1>3, <1>4, ChangeIsNoted
<1>7. QED
  BY <1>1, <1>3, <1>5, <1>6 DEF Undisturbed, NameStands, StackStands

LEMMA TheirStackDoes ==
    ASSUME CallsShaped, Tables, Machines, NEW new, NEW what, TheirStack(new, what),
           new = [f \in LibvirtFields |-> new[f]],
           new.daemon # stack.daemon => <<"stack", Here>> \in what
    PROVE  /\ UNCHANGED <<row, key, call, meant, up>> /\ Machines'
           /\ raced' = [d \in Made |-> raced'[d]]
           /\ \A d \in Made : Undisturbed(d)
<1>1. UNCHANGED <<row, key, call, meant, up, host>> /\ stack' = new /\ Writes(Made, what)
  BY DEF TheirStack, registry
<1>2. /\ raced' = [d \in Made |-> raced'[d]]
      /\ \A d \in Made : Told(d) /\ (Running(d) => what \subseteq raced'[d])
  BY <1>1, WritesDoes
<1>3. QED
  BY <1>1, <1>2 DEF Machines, Undisturbed, HostStands, NameStands, StackStands

LEMMA OthersDo ==
    ASSUME CallsShaped, Tables, Machines, Others
    PROVE  /\ UNCHANGED <<row, key, call, meant>> /\ Machines' /\ up' \subseteq Hosts
           /\ raced' = [d \in Made |-> raced'[d]]
           /\ \A d \in Made : Undisturbed(d)
<1>0. /\ \A h \in Hosts : IsMachine(host[h])
      /\ up \subseteq Hosts /\ raced = [d \in Made |-> raced[d]]
      /\ stack = [f \in LibvirtFields |-> stack[f]]
  BY DEF Machines, Tables
<1>1. ASSUME NEW h \in Hosts, SwitchArray(h) \/ EditIdentity(h) \/ EditTime(h) \/ SwitchVms(h)
      PROVE  /\ UNCHANGED <<row, key, call, meant, up>> /\ Machines'
             /\ raced' = [d \in Made |-> raced'[d]]
             /\ \A d \in Made : Undisturbed(d)
  <2>1. CASE SwitchArray(h)
    <3> DEFINE new == [host[h] EXCEPT !.stopped = ~host[h].stopped]
    <3>1. MachineBut(host[h], new, {"stopped"})
      BY <1>0, FieldChange
    <3>2. Theirs(h, new, "array")
      BY <2>1 DEF SwitchArray
    <3> HIDE DEF new
    <3>3. QED
      BY <3>1, <3>2, TheirsDoes
  <2>2. CASE EditIdentity(h)
    <3> DEFINE ident == [host[h].ident EXCEPT !.comment = "theirs"]
               new == [host[h] EXCEPT !.ident = ident]
    <3>1. Theirs(h, new, "ident")
      BY <2>2 DEF EditIdentity
    <3> HIDE DEF ident
    <3>2. MachineBut(host[h], new, {"ident"})
      BY <1>0, FieldChange
    <3> HIDE DEF new
    <3>3. QED
      BY <3>1, <3>2, TheirsDoes
  <2>3. CASE EditTime(h)
    <3> DEFINE time == [host[h].time EXCEPT !.ntp = "theirs"]
               new == [host[h] EXCEPT !.time = time]
    <3>1. Theirs(h, new, "time")
      BY <2>3 DEF EditTime
    <3> HIDE DEF time
    <3>2. MachineBut(host[h], new, {"time"})
      BY <1>0, FieldChange
    <3> HIDE DEF new
    <3>3. QED
      BY <3>1, <3>2, TheirsDoes
  <2>4. CASE SwitchVms(h)
    <3> DEFINE other == IF host[h].manager = "enabled" THEN "disabled" ELSE "enabled"
               new == [host[h] EXCEPT !.manager = other]
    <3>1. Theirs(h, new, "manager")
      BY <2>4 DEF SwitchVms
    <3> HIDE DEF other
    <3>2. MachineBut(host[h], new, {"manager"})
      BY <1>0, FieldChange
    <3> HIDE DEF new
    <3>3. QED
      BY <3>1, <3>2, TheirsDoes
  <2>5. QED
    BY <1>1, <2>1, <2>2, <2>3, <2>4
<1>2. ASSUME NEW h \in Hosts, GoUpOrDown(h)
      PROVE  /\ UNCHANGED <<row, key, call, meant>> /\ Machines' /\ up' \subseteq Hosts
             /\ raced' = [d \in Made |-> raced'[d]]
             /\ \A d \in Made : Undisturbed(d)
  <2>1. UNCHANGED <<row, key, call, meant, host, stack, raced>> /\ up' \subseteq Hosts
    BY <1>0, <1>2 DEF GoUpOrDown, registry
  <2>2. QED
    BY <1>0, <2>1 DEF Machines, Undisturbed, HostStands, NameStands, StackStands, Told
<1>3. CASE FlipAutostart \/ StopLibvirt \/ StartLibvirt
  <2>1. PICK new, what : /\ TheirStack(new, what) /\ new = [f \in LibvirtFields |-> new[f]]
                         /\ new.daemon # stack.daemon => <<"stack", Here>> \in what
    <3>1. CASE FlipAutostart
      <4> DEFINE new == [stack EXCEPT !.auto = ~stack.auto]
      <4>1. new = [f \in LibvirtFields |-> new[f]] /\ new.daemon = stack.daemon
        BY <1>0 DEF LibvirtFields
      <4>2. TheirStack(new, {<<"autostart", Here>>})
        BY <3>1 DEF FlipAutostart
      <4> HIDE DEF new
      <4>3. QED
        BY <4>1, <4>2
    <3>2. CASE StopLibvirt
      <4>1. PICK new \in {[stack EXCEPT !.daemon = 0], [stack EXCEPT !.daemon = 0, !.pidfile = 0]} :
              TheirStack(new, {<<"stack", Here>>})
        BY <3>2 DEF StopLibvirt
      <4>2. new = [f \in LibvirtFields |-> new[f]]
        BY <1>0, <4>1 DEF LibvirtFields
      <4>3. QED
        BY <4>1, <4>2
    <3>3. CASE StartLibvirt
      <4> DEFINE pid == 3 - stack.pidfile
                 new == [stack EXCEPT !.daemon = pid, !.pidfile = pid]
      <4>1. TheirStack(new, {<<"stack", Here>>})
        BY <3>3 DEF StartLibvirt
      <4> HIDE DEF pid
      <4>2. new = [f \in LibvirtFields |-> new[f]]
        BY <1>0 DEF LibvirtFields
      <4> HIDE DEF new
      <4>3. QED
        BY <4>1, <4>2
    <3>4. QED
      BY <1>3, <3>1, <3>2, <3>3
  <2>2. QED
    BY <1>0, <2>1, TheirStackDoes
<1>4. QED
  BY <1>0, <1>1, <1>2, <1>3 DEF Others

-----------------------------------------------------------------------------
(* The tables keep their shape, and who does not move is not disturbed.     *)
LEMMA MovesFrame ==
    ASSUME HostInv, NEW c \in Made, Moves(c)
    PROVE  /\ Alone(c) /\ Machines' /\ raced' = [d \in Made |-> raced'[d]] /\ up' = up
           /\ \A d \in Made \ {c} : Undisturbed(d)
<1>0. /\ CallsShaped /\ Tables /\ Machines /\ call[c].url \in Hosts
      /\ raced = [d \in Made |-> raced[d]]
  BY DEF HostInv, Located, Tables
<1>1. CASE Looking(c)
  <2>1. Alone(c) /\ UNCHANGED <<row, key, host, stack, up, raced>>
    BY <1>0, <1>1, LookingDoes DEF Looks, registry, world
  <2>2. QED
    BY <1>0, <2>1 DEF Machines, Undisturbed, Told, Alone, HostStands, NameStands, StackStands
<1>2. CASE Beginning(c)
  <2>1. Alone(c) /\ UNCHANGED <<row, key, host, stack, up>> /\ (raced' = raced \/ Begins(c))
    BY <1>0, <1>2, BeginningDoes DEF registry, world
  <2>2. raced' = [d \in Made |-> raced'[d]] /\ \A d \in Made \ {c} : raced'[d] = raced[d]
    BY <1>0, <2>1 DEF Begins
  <2>3. QED
    BY <1>0, <2>1, <2>2 DEF Machines, Undisturbed, Told, Alone, HostStands, NameStands, StackStands
<1>3. CASE Writing(c)
  <2>1. /\ Alone(c) /\ UNCHANGED <<host, stack, up>> /\ raced' = [d \in Made |-> raced'[d]]
        /\ \A d \in Made \ {c} : Told(d)
        /\ \A n \in Names \ {Ask[c].name} : row'[n] = row[n] /\ key'[n] = key[n]
        /\ \/ row' = row /\ key' = key
           \/ \A d \in Made \ {c} : Running(d) => <<"row", Ask[c].name>> \in raced'[d]
    BY <1>0, <1>3, WritingDoes DEF world
  <2>2. ASSUME NEW d \in Made \ {c}, Running(d), NEW n \in Names
        PROVE  NameStands(d, n)
    BY <2>1, <2>2 DEF NameStands
  <2>3. QED
    BY <1>0, <2>1, <2>2 DEF Machines, Undisturbed, Alone, HostStands, StackStands
<1>4. CASE Mutating(c)
  BY <1>0, <1>4, MutatingDoes
<1>5. CASE SetAutostart(c)
  BY <1>0, <1>5, SwitchingDoes
<1>6. QED
  BY <1>1, <1>2, <1>3, <1>4, <1>5, MovesSplit

LEMMA NextSplits ==
    ASSUME Next
    PROVE  (\E c \in Made : Moves(c)) \/ Others
BY DEF Next, Moves, Others

LEMMA PatchedIsRow ==
    ASSUME NEW c \in Calls, Ask[c].verb \in Registry, NEW r \in Rows
    PROVE  /\ Patched(c, r) \in Rows /\ Patched(c, r).exists = r.exists
           /\ Patched(c, r).routes = IF Ask[c].routes # << >> THEN Ask[c].routes ELSE r.routes
<1>1. Ask[c].routes \in Seq(Hosts)
  BY ConstantsAssumption
<1>2. QED
  BY <1>1 DEF Patched, Rows

LEMMA WriterAsks ==
    ASSUME HostInv, NEW c \in Made, Ask[c].verb \in Registry
    PROVE  c \in Calls /\ Ask[c].name \in Names /\ Row(c) \in Rows /\ NoRow \in Rows
<1>1. c \in Calls
  BY DEF HostInv, Tables
<1>2. Ask[c].name \in Names /\ Ask[c].routes \in Seq(Hosts)
  BY <1>1, ConstantsAssumption
<1>3. QED
  BY <1>1, <1>2 DEF Row, Rows, NoRow

LEMMA WriterStages ==
    ASSUME NEW c \in Made, Located(c)
    PROVE  /\ call[c].pc = "key" => Ask[c].verb \in {"create", "update"}
           /\ call[c].pc = "undo" => Ask[c].verb = "create"
           /\ call[c].pc = "row" => Ask[c].verb = "update"
           /\ call[c].pc = "unkey" => Ask[c].verb = "delete"
           /\ Ask[c].verb = "create" => call[c].pc \in {"idle", "key", "undo", "done", "failed"}
           /\ Ask[c].verb = "update" => call[c].pc \in {"idle", "row", "key", "done", "failed"}
           /\ Ask[c].verb = "delete" => call[c].pc \in {"idle", "unkey", "done", "failed"}
BY DEF Located, Stages

LEMMA WritersAre ==
    ASSUME HostInv, NEW c \in Made, Writing(c)
    PROVE  Ask[c].verb \in Registry
<1>1. Located(c) /\ CallsShaped /\ Tables
  BY DEF HostInv
<1>2. Ask[c].verb \in Registry \/ call[c].pc \in {"undo", "row", "unkey"}
  BY <1>1, WritingDoes
<1>3. QED
  BY <1>1, <1>2, WriterStages DEF Registry

(* What a writer leaves in the registry.                                    *)
LEMMA WritingLeaves ==
    ASSUME HostInv, NEW c \in Made, Writing(c)
    PROVE  /\ row' \in [Names -> Rows] /\ meant' \in [Names -> Rows]
           /\ key' \in [Names -> Keys \cup {NoKey}]
           /\ \A n \in Names : ~row'[n].exists => row'[n] = NoRow
           /\ \A n \in Names : key'[n] \in {key[n], NoKey}
                               \/ /\ n = Ask[c].name /\ key'[n] = Ask[c].key /\ Ask[c].key \in Keys
                                  /\ Ask[c].verb \in {"create", "update"}
<1>0. /\ CallsShaped /\ Located(c) /\ Ask[c].verb \in Registry
      /\ row \in [Names -> Rows] /\ meant \in [Names -> Rows] /\ key \in [Names -> Keys \cup {NoKey}]
      /\ \A n \in Names : ~row[n].exists => row[n] = NoRow
  BY WritersAre DEF HostInv, Tables
<1>1. c \in Calls /\ Ask[c].name \in Names /\ Row(c) \in Rows /\ NoRow \in Rows
  BY <1>0, WriterAsks
<1>2. Row(c).exists /\ ~NoRow.exists
  BY DEF Row, NoRow
<1>3. CASE InsertRow(c)
  <2>1. key' = key /\ (UNCHANGED <<row, meant>>
                       \/ (row' = [row EXCEPT ![Ask[c].name] = Row(c)] /\ Means(c, Row(c))))
    BY <1>0, <1>3, InsertRowDoes
  <2>2. QED
    BY <1>0, <1>1, <1>2, <2>1 DEF Means
<1>4. CASE SetKey(c)
  <2>1. UNCHANGED <<row, meant>>
        /\ (key' = key \/ key' = [key EXCEPT ![Ask[c].name] = Ask[c].key])
        /\ Ask[c].key \in Keys /\ Ask[c].verb \in {"create", "update"}
    BY <1>0, <1>4, SetKeyDoes DEF Located, Quietly
  <2>2. QED
    BY <1>0, <1>1, <2>1
<1>5. CASE UndoRow(c)
  <2>1. key' = key /\ row' \in {[row EXCEPT ![Ask[c].name] = NoRow], row} /\ Means(c, NoRow)
    BY <1>0, <1>5, UndoRowDoes
  <2>2. QED
    BY <1>0, <1>1, <1>2, <2>1 DEF Means
<1>6. CASE WriteRow(c)
  <2>1. key' = key /\ call[c].pc = "row"
        /\ (UNCHANGED <<row, meant>>
            \/ (/\ row' = [row EXCEPT ![Ask[c].name] = call[c].row]
                /\ Means(c, Patched(c, meant[Ask[c].name]))))
    BY <1>0, <1>6, WriteRowDoes
  <2>2. call[c].row \in Rows /\ call[c].row.exists
    BY <1>0, <2>1 DEF Located
  <2>3. Patched(c, meant[Ask[c].name]) \in Rows
    BY <1>0, <1>1, PatchedIsRow
  <2>4. QED
    BY <1>0, <1>1, <2>1, <2>2, <2>3 DEF Means
<1>7. CASE RemoveRow(c)
  <2>1. key' = key /\ (UNCHANGED <<row, meant>>
                       \/ (row' = [row EXCEPT ![Ask[c].name] = NoRow] /\ Means(c, NoRow)))
    BY <1>0, <1>7, RemoveRowDoes
  <2>2. QED
    BY <1>0, <1>1, <1>2, <2>1 DEF Means
<1>8. CASE RemoveKey(c)
  <2>1. UNCHANGED <<row, meant>> /\ (key' = key \/ key' = [key EXCEPT ![Ask[c].name] = NoKey])
    BY <1>0, <1>8, RemoveKeyDoes DEF Quietly
  <2>2. QED
    BY <1>0, <1>1, <2>1
<1>9. QED
  BY <1>3, <1>4, <1>5, <1>6, <1>7, <1>8 DEF Writing

LEMMA OtherMovesKeepNames ==
    ASSUME HostInv, NEW c \in Made, Looking(c) \/ Beginning(c) \/ Mutating(c) \/ SetAutostart(c)
    PROVE  UNCHANGED <<row, key, meant>>
<1>0. CallsShaped /\ Tables /\ Machines /\ call[c].url \in Hosts
  BY DEF HostInv, Located
<1>1. QED
  BY <1>0, LookingDoes, BeginningDoes, MutatingDoes, SwitchingDoes DEF Looks, registry, Quietly

LEMMA TablesKept ==
    ASSUME HostInv, Next
    PROVE  /\ CallsShaped' /\ Machines' /\ Tables' /\ (\E s \in Scenarios : InScene(s)) '
           /\ Made' = Made
<1>0. CallsShaped /\ Tables /\ Machines
  BY DEF HostInv
<1>1. PICK s \in Scenarios : InScene(s)
  BY DEF HostInv
<1>2. CASE Others
  <2>1. /\ UNCHANGED <<row, key, call, meant>> /\ Machines' /\ up' \subseteq Hosts
        /\ raced' = [d \in Made |-> raced'[d]]
    BY <1>0, <1>2, OthersDo
  <2>2. Made' = Made /\ CallsShaped' /\ Tables' /\ InScene(s)'
    BY <1>0, <1>1, <2>1 DEF Made, CallsShaped, Tables, InScene
  <2>3. QED
    BY <2>1, <2>2
<1>3. ASSUME NEW c \in Made, Moves(c)
      PROVE  CallsShaped' /\ Machines' /\ Tables' /\ InScene(s)' /\ Made' = Made
  <2>1. /\ CallsShaped' /\ Made' = Made /\ Machines' /\ raced' = [d \in Made |-> raced'[d]] /\ up' = up
    BY <1>3, MovesFrame DEF Alone
  <2>2. CASE Writing(c)
    <3>1. Tables'
      BY <1>0, <2>1, <2>2, WritingLeaves DEF Tables
    <3>2. Made = s.calls /\ \A n \in Names : key[n] \in KeysFor(s, n) \cup {NoKey}
      BY <1>1 DEF InScene
    <3>3. \A n \in Names : key'[n] \in {key[n], NoKey}
                           \/ /\ n = Ask[c].name /\ key'[n] = Ask[c].key /\ Ask[c].key \in Keys
                              /\ Ask[c].verb \in {"create", "update"}
      BY <2>2, WritingLeaves
    <3>4. \A n \in Names : key'[n] \in KeysFor(s, n) \cup {NoKey}
      BY <3>2, <3>3 DEF KeysFor
    <3>5. QED
      BY <1>1, <2>1, <3>1, <3>2, <3>4 DEF InScene
  <2>3. CASE ~Writing(c)
    <3>1. UNCHANGED <<row, key, meant>>
      BY <1>3, <2>3, MovesSplit, OtherMovesKeepNames
    <3>2. QED
      BY <1>0, <1>1, <2>1, <3>1 DEF Tables, InScene
  <2>4. QED
    BY <2>1, <2>2, <2>3
<1>4. QED
  BY <1>2, <1>3, NextSplits

-----------------------------------------------------------------------------
(* A call that does not move stays where it is, and what it looked at       *)
(* stands.                                                                  *)
LEMMA UndisturbedStays ==
    ASSUME HostInv, NEW c \in Made, Undisturbed(c)
    PROVE  Located(c)' /\ Reads(c)' /\ Probed(c)'
<1>0. Located(c) /\ Reads(c) /\ Probed(c) /\ call'[c] = call[c] /\ raced[c] \subseteq raced'[c]
  BY DEF HostInv, Undisturbed, Told
<1>1. Located(c)'
  BY <1>0 DEF Located, Undisturbed, Told, Running
<1>2. Reads(c)'
  <2>1. CASE call[c].pc = "apikey"
    <3>1. Running(c) /\ call[c].id \in Names
      BY <1>0, <2>1 DEF Running, Over, Located
    <3>2. NameStands(c, call[c].id)
      BY <3>1 DEF Undisturbed
    <3>3. QED
      BY <1>0, <2>1, <3>2 DEF Reads, NameStands, GoesWith, Connected, Requests
  <2>2. CASE call[c].pc # "apikey"
    BY <1>0, <2>2 DEF Reads
  <2>3. QED
    BY <2>1, <2>2
<1>3. Probed(c)'
  <2>1. CASE ~Running(c)
    BY <1>0, <2>1 DEF Probed, Running
  <2>2. CASE Running(c)
    <3>1. call[c].url \in Hosts /\ HostStands(c, call[c].url) /\ StackStands(c)
      BY <1>0, <2>2 DEF Undisturbed, Located
    <3>2. QED
      BY <1>0, <2>2, <3>1 DEF Probed, HostStands, StackStands, Running, ThisMachine
  <2>3. QED
    BY <2>1, <2>2
<1>4. QED
  BY <1>1, <1>2, <1>3

(* A call that moves on from a request to another, or ends.                 *)
LEMMA StaysLocated ==
    ASSUME NEW c \in Made, Located(c), NEW pc, NEW F,
           Goes(c, pc, F), F \cap {"row", "url", "id", "key"} = {},
           pc \in Stages(Ask[c].verb) \cup {"done", "failed"},
           pc \notin {"row", "key", "unkey", "apikey", "idle"},
           pc \in {"route"} \cup Connected => call[c].pc \in {"route"} \cup Connected
    PROVE  Located(c)'
<1>1. /\ call'[c].pc = pc /\ call'[c].row = call[c].row /\ call'[c].url = call[c].url
      /\ call'[c].id = call[c].id /\ call'[c].key = call[c].key
  BY DEF Goes, SameBut, Fields
<1>2. QED
  BY <1>1 DEF Located

LEMMA LookingLocated ==
    ASSUME HostInv, NEW c \in Made, Looking(c)
    PROVE  Located(c)'
<1>0. /\ CallsShaped /\ Located(c) /\ c \in Calls
      /\ key \in [Names -> Keys \cup {NoKey}]
  BY DEF HostInv, Tables
<1> DEFINE Ended == {"done", "failed"}
<1>1. CASE Fails(c) \/ Goes(c, "done", {"pc"}) \/ Goes(c, "done", {"pc", "answer"})
  <2>1. PICK pc \in Ended, F \in {{"pc"}, {"pc", "answer"}} : Goes(c, pc, F)
    BY <1>1 DEF Fails
  <2>2. F \cap {"row", "url", "id", "key"} = {} /\ pc \in Stages(Ask[c].verb) \cup {"done", "failed"}
        /\ pc \notin {"row", "key", "unkey", "apikey", "idle"} /\ pc \notin {"route"} \cup Connected
    BY <2>1 DEF Connected, Requests
  <2>3. QED
    BY <1>0, <2>1, <2>2, StaysLocated
<1>2. ASSUME NEW pc, NEW F, Goes(c, pc, F), F \cap {"row", "url", "id", "key"} = {},
             pc \in Stages(Ask[c].verb), pc \notin {"row", "key", "unkey", "apikey", "idle"},
             pc \in {"route"} \cup Connected => call[c].pc \in {"route"} \cup Connected
      PROVE  Located(c)'
  BY <1>0, <1>2, StaysLocated
<1>3. CASE ReadKey(c)
  <2>1. CASE /\ Goes(c, "route", {"pc", "key"})
             /\ call'[c].key = key[call[c].id] /\ key[call[c].id] # NoKey
    <3>1. /\ call'[c].pc = "route" /\ call'[c].row = call[c].row /\ call'[c].url = call[c].url
          /\ call'[c].id = call[c].id
      BY <2>1 DEF Goes, SameBut, Fields
    <3>2. call[c].pc = "apikey" /\ call[c].id \in Names
      BY <1>0, <1>3, ReadKeyDoes DEF Located
    <3>3. call'[c].key \in Keys /\ "route" \in Stages(Ask[c].verb)
      BY <1>0, <2>1, <3>2 DEF Located, Stages
    <3>4. QED
      BY <1>0, <3>1, <3>2, <3>3 DEF Located, Connected, Requests
  <2>2. QED
    BY <1>0, <1>1, <1>3, <2>1, ReadKeyDoes
<1>4. CASE Resolve(c)
  <2>1. CASE Goes(c, FirstRequest(c), {"pc", "url"}) /\ call'[c].url \in Resolved(call[c].row.routes)
    <3>1. call[c].pc = "route" /\ call[c].id \in Names /\ call[c].key \in Keys /\ call[c].row \in Rows
      BY <1>0, <1>4, ResolveDoes DEF Located
    <3>2. /\ call'[c].pc = FirstRequest(c) /\ call'[c].row = call[c].row
          /\ call'[c].id = call[c].id /\ call'[c].key = call[c].key
      BY <2>1 DEF Goes, SameBut, Fields
    <3>3. FirstRequest(c) \in Stages(Ask[c].verb) /\ FirstRequest(c) \in Requests
      BY <1>0, <3>1 DEF Located, Stages, FirstRequest, Requests
    <3>4. call'[c].url \in Hosts
      BY <2>1, <3>1, ConstantsAssumption DEF Resolved, Rows, Answering
    <3>5. FirstRequest(c) \notin {"row", "key", "unkey", "idle"}
      BY <3>3 DEF Requests
    <3>6. QED
      BY <1>0, <3>1, <3>2, <3>3, <3>4, <3>5 DEF Located
  <2>2. QED
    BY <1>0, <1>1, <1>4, <2>1, ResolveDoes
<1>5. CASE ListVms(c)
  <2>1. call[c].pc = "list" /\ (Goes(c, "power", {"pc", "answer"}) => Located(c)')
    <3>1. call[c].pc = "list" /\ "power" \in Stages(Ask[c].verb)
      BY <1>0, <1>5, ListVmsDoes DEF Located, Stages
    <3>2. QED
      BY <1>2, <3>1 DEF Connected, Requests
  <2>2. QED
    BY <1>0, <1>1, <1>5, <2>1, ListVmsDoes
<1>6. CASE ReadArray(c) \/ ReadIdentity(c) \/ ReadTime(c) \/ Decide(c)
  <2>1. call[c].pc \in {"array?", "ident?", "time?", "decide"}
    BY <1>0, <1>6, ReadArrayDoes, ReadIdentityDoes, ReadTimeDoes, DecideDoes
  <2>2. {"ident?", "time?", "decide", "ident", "time"} \subseteq Stages(Ask[c].verb)
    BY <1>0, <2>1 DEF Located, Stages
  <2>3. Fails(c) \/ Goes(c, "done", {"pc"})
        \/ \E pc \in {"ident?", "time?", "decide", "ident", "time"},
              F \in {{"pc"}, {"pc", "stopped"}, {"pc", "ident"}, {"pc", "time"}} : Goes(c, pc, F)
    <3>1. CASE ReadArray(c)
      BY <1>0, <3>1, ReadArrayDoes
    <3>2. CASE ReadIdentity(c)
      BY <1>0, <3>2, ReadIdentityDoes
    <3>3. CASE ReadTime(c)
      BY <1>0, <3>3, ReadTimeDoes
    <3>4. CASE Decide(c)
      BY <1>0, <3>4, DecideDoes
    <3>5. QED
      BY <1>6, <3>1, <3>2, <3>3, <3>4
  <2>4. CASE \E pc \in {"ident?", "time?", "decide", "ident", "time"},
               F \in {{"pc"}, {"pc", "stopped"}, {"pc", "ident"}, {"pc", "time"}} : Goes(c, pc, F)
    <3>1. PICK pc \in {"ident?", "time?", "decide", "ident", "time"},
               F \in {{"pc"}, {"pc", "stopped"}, {"pc", "ident"}, {"pc", "time"}} : Goes(c, pc, F)
      BY <2>4
    <3>2. call[c].pc \in Connected /\ pc \notin {"row", "key", "unkey", "apikey", "idle"}
          /\ F \cap {"row", "url", "id", "key"} = {}
      BY <2>1, <3>1 DEF Connected, Requests
    <3>3. QED
      BY <1>2, <2>2, <3>1, <3>2
  <2>5. QED
    BY <1>1, <2>3, <2>4
<1>7. CASE Refuse(c)
  BY <1>0, <1>1, <1>7, RefuseDoes
<1>8. CASE Probes(c) \/ RequireVms(c) \/ PlanAutostart(c) \/ PlanAsRoot(c)
  <2>1. Fails(c) \/ Goes(c, "done", {"pc"}) \/ Goes(c, "done", {"pc", "answer"})
        \/ \E pc \in {"manager", "mount", "pid", "comm", "assess", "plan", "root", "set"},
              F \in {{"pc"}, {"pc", "flags"}, {"pc", "manager"}, {"pc", "answer"}, {"pc", "pid"}} :
                 Goes(c, pc, F) /\ pc \in Stages(Ask[c].verb) /\ (pc = "manager" => call[c].pc = "flags")
    <3>1. CASE LocalView(c)
      BY <1>0, <3>1, LocalViewDoes DEF Located, Stages
    <3>2. CASE AskFlags(c)
      <4>1. Stages(Ask[c].verb) = Stages("vm.availability")
        BY <1>0, <3>2, AskFlagsDoes DEF Located, Stages
      <4>2. "manager" \in Stages(Ask[c].verb)
        BY <4>1 DEF Stages
      <4>3. QED
        BY <1>0, <3>2, <4>2, AskFlagsDoes
    <3>3. CASE AskManager(c)
      <4>1. "mount" \in Stages(Ask[c].verb) /\ "assess" \in Stages(Ask[c].verb)
        BY <1>0, <3>3, AskManagerDoes DEF Located, Stages
      <4>2. QED
        BY <1>0, <3>3, <4>1, AskManagerDoes
    <3>4. CASE ProbeMount(c) \/ ProbePid(c) \/ ProbeComm(c)
      <4>1. {"pid", "comm", "assess"} \subseteq Stages(Ask[c].verb)
        BY <1>0, <3>4, ProbeMountDoes, ProbePidDoes, ProbeCommDoes DEF Located, Stages
      <4>2. QED
        BY <1>0, <3>4, <4>1, ProbeMountDoes, ProbePidDoes, ProbeCommDoes
    <3>5. CASE Assess(c)
      BY <1>0, <3>5, AssessDoes
    <3>6. CASE RequireVms(c)
      <4>1. "mount" \in Stages(Ask[c].verb) /\ "plan" \in Stages(Ask[c].verb)
        BY <1>0, <3>6, RequireVmsDoes DEF Stages
      <4>2. QED
        BY <1>0, <3>6, <4>1, RequireVmsDoes
    <3>7. CASE PlanAutostart(c) \/ PlanAsRoot(c)
      <4>1. "root" \in Stages(Ask[c].verb) /\ "set" \in Stages(Ask[c].verb)
        BY <1>0, <3>7, PlanDoes DEF Located, Stages
      <4>2. QED
        BY <1>0, <3>7, <4>1, PlanDoes
    <3>8. QED
      BY <1>8, <3>1, <3>2, <3>3, <3>4, <3>5, <3>6, <3>7 DEF Probes
  <2>2. CASE \E pc \in {"manager", "mount", "pid", "comm", "assess", "plan", "root", "set"},
               F \in {{"pc"}, {"pc", "flags"}, {"pc", "manager"}, {"pc", "answer"}, {"pc", "pid"}} :
                  Goes(c, pc, F) /\ pc \in Stages(Ask[c].verb) /\ (pc = "manager" => call[c].pc = "flags")
    <3>1. PICK pc \in {"manager", "mount", "pid", "comm", "assess", "plan", "root", "set"},
               F \in {{"pc"}, {"pc", "flags"}, {"pc", "manager"}, {"pc", "answer"}, {"pc", "pid"}} :
                  Goes(c, pc, F) /\ pc \in Stages(Ask[c].verb) /\ (pc = "manager" => call[c].pc = "flags")
      BY <2>2
    <3>2. /\ pc \notin {"row", "key", "unkey", "apikey", "idle"}
          /\ F \cap {"row", "url", "id", "key"} = {}
          /\ pc \in {"route"} \cup Connected => call[c].pc \in {"route"} \cup Connected
      BY <3>1 DEF Connected, Requests
    <3>3. QED
      BY <1>2, <3>1, <3>2
  <2>3. QED
    BY <1>1, <2>1, <2>2
<1>9. QED
  BY <1>3, <1>4, <1>5, <1>6, <1>7, <1>8 DEF Looking

LEMMA MovesLocated ==
    ASSUME HostInv, NEW c \in Made, Moves(c)
    PROVE  Located(c)'
<1>0. /\ CallsShaped /\ Tables /\ Machines /\ Located(c) /\ c \in Calls /\ call[c].url \in Hosts
      /\ row \in [Names -> Rows]
  BY DEF HostInv, Tables, Located
<1>1. ASSUME NEW pc \in {"done", "failed"}, NEW F, Goes(c, pc, F), F \cap {"row", "url", "id", "key"} = {}
      PROVE  Located(c)'
  BY <1>0, <1>1, StaysLocated DEF Connected, Requests
<1>2. ASSUME NEW n \in Registered, Goes(c, "apikey", {"pc", "row", "id"}), "apikey" \in Stages(Ask[c].verb),
             call'[c].row = row[n], call'[c].id = n
      PROVE  Located(c)'
  <2>1. call'[c].pc = "apikey" /\ call'[c].url = call[c].url /\ n \in Names
    BY <1>2 DEF Goes, SameBut, Fields, Registered
  <2>2. QED
    BY <1>0, <1>2, <2>1 DEF Located, Connected, Requests
<1>3. CASE PickRow(c)
  <2>1. Ask[c].verb \in Remote
    BY <1>0, <1>3, PickRowDoes
  <2>2. "apikey" \in Stages(Ask[c].verb)
    BY <2>1 DEF Remote, Stages
  <2>3. QED
    BY <1>0, <1>1, <1>2, <1>3, <2>2, PickRowDoes DEF Fails
<1>4. CASE PickEnabled(c)
  <2>1. Ask[c].verb = "ups.config_set"
    BY <1>0, <1>4, PickEnabledDoes
  <2>2. "apikey" \in Stages(Ask[c].verb)
    BY <2>1 DEF Stages
  <2>3. QED
    BY <1>0, <1>1, <1>2, <1>4, <2>2, PickEnabledDoes DEF Fails, Enabled
<1>5. CASE ReadRow(c)
  <2>1. /\ Ask[c].verb = "update"
        /\ \/ Fails(c)
           \/ /\ row[Ask[c].name].exists /\ call'[c].row = Patched(c, row[Ask[c].name])
              /\ \/ Goes(c, "row", {"pc", "row"})
                 \/ Goes(c, "key", {"pc", "row"}) /\ Ask[c].key # NoKey
    BY <1>0, <1>5, ReadRowDoes
  <2>2. Ask[c].verb \in Registry /\ Ask[c].name \in Names /\ Ask[c].key \in Keys \cup {NoKey}
    BY <1>0, <2>1, ConstantsAssumption DEF Registry
  <2>3. row[Ask[c].name] \in Rows
    BY <1>0, <2>2
  <2>4. /\ Patched(c, row[Ask[c].name]) \in Rows
        /\ Patched(c, row[Ask[c].name]).exists = row[Ask[c].name].exists
    BY <1>0, <2>2, <2>3, PatchedIsRow
  <2>5. CASE /\ row[Ask[c].name].exists /\ call'[c].row = Patched(c, row[Ask[c].name])
             /\ \/ Goes(c, "row", {"pc", "row"})
                \/ Goes(c, "key", {"pc", "row"}) /\ Ask[c].key # NoKey
    <3>1. /\ call'[c].pc = "row" \/ (call'[c].pc = "key" /\ Ask[c].key # NoKey)
          /\ call'[c].url = call[c].url
      BY <2>5 DEF Goes, SameBut, Fields
    <3>2. "row" \in Stages(Ask[c].verb) /\ "key" \in Stages(Ask[c].verb)
      BY <2>1 DEF Stages
    <3>3. QED
      BY <1>0, <2>2, <2>4, <2>5, <3>1, <3>2 DEF Located, Connected, Requests
  <2>6. QED
    BY <1>0, <1>1, <2>1, <2>5 DEF Fails
<1>6. CASE Writing(c)
  <2>1. c \in Calls /\ Ask[c].verb \in Registry
    BY <1>0, <1>6, WritersAre
  <2>2. Ask[c].key \in Keys \cup {NoKey}
    BY <2>1, ConstantsAssumption
  <2>3. ASSUME NEW pc, NEW F, Goes(c, pc, F), F \cap {"row", "url", "id", "key"} = {},
               pc \in Stages(Ask[c].verb), pc \in {"key", "undo", "unkey"},
               pc = "key" => Ask[c].key \in Keys, pc = "unkey" => call'[c].did = {"row"}
        PROVE  Located(c)'
    <3>1. call'[c].pc = pc /\ call'[c].row = call[c].row /\ call'[c].url = call[c].url
      BY <2>3 DEF Goes, SameBut, Fields
    <3>2. QED
      BY <1>0, <2>3, <3>1 DEF Located, Connected, Requests
  <2>4. CASE InsertRow(c)
    <3>1. Ask[c].verb = "create" /\ (Fails(c) \/ Goes(c, "key", {"pc"}))
      BY <1>0, <2>4, InsertRowDoes
    <3>2. "key" \in Stages(Ask[c].verb)
      BY <3>1 DEF Stages
    <3>3. PICK s \in Scenarios : InScene(s)
      BY DEF HostInv
    <3>4. Ask[c].key \in Keys
      BY <3>1, <3>3, ScenariosAssumption DEF InScene, GoesTogether
    <3>5. QED
      BY <1>1, <2>3, <3>1, <3>2, <3>4 DEF Fails
  <2>5. CASE SetKey(c)
    <3>1. /\ Ask[c].verb \in {"create", "update"}
          /\ \/ Goes(c, OnKeyError(c), {"pc"}) \/ Goes(c, "done", {"pc"})
             \/ Goes(c, OnKeyError(c), {"pc", "did"})
      BY <1>0, <2>5, SetKeyDoes
    <3>2. OnKeyError(c) = "failed" \/ (OnKeyError(c) = "undo" /\ "undo" \in Stages(Ask[c].verb))
      BY <3>1 DEF Stages, OnKeyError
    <3>3. QED
      BY <1>1, <2>3, <3>1, <3>2
  <2>6. CASE UndoRow(c)
    BY <1>0, <1>1, <2>6, UndoRowDoes
  <2>7. CASE WriteRow(c)
    <3>1. call[c].pc = "row" /\ (Fails(c) \/ Goes(c, ThenKey(c), {"pc", "did"}))
      BY <1>0, <2>7, WriteRowDoes
    <3>2. Ask[c].verb = "update"
      BY <1>0, <3>1, WriterStages
    <3>3. ThenKey(c) = "done" \/ (ThenKey(c) = "key" /\ Ask[c].key \in Keys)
      BY <2>2 DEF ThenKey
    <3>4. "key" \in Stages(Ask[c].verb)
      BY <3>2 DEF Stages
    <3>5. QED
      BY <1>1, <2>3, <3>1, <3>3, <3>4 DEF Fails
  <2>8. CASE RemoveRow(c)
    <3>1. /\ Ask[c].verb = "delete"
          /\ Fails(c) \/ (Goes(c, "unkey", {"pc", "did"}) /\ call'[c].did = {"row"})
      BY <1>0, <2>8, RemoveRowDoes
    <3>2. "unkey" \in Stages(Ask[c].verb)
      BY <3>1 DEF Stages
    <3>3. QED
      BY <1>1, <2>3, <3>1, <3>2 DEF Fails
  <2>9. CASE RemoveKey(c)
    BY <1>0, <1>1, <2>9, RemoveKeyDoes DEF Fails
  <2>10. QED
    BY <1>6, <2>4, <2>5, <2>6, <2>7, <2>8, <2>9 DEF Writing
<1>7. CASE Mutating(c) \/ SetAutostart(c)
  <2>1. PICK pc \in {"done", "failed", "partial", "time"}, F \in {{"pc"}, {"pc", "did", "lost"}} :
          /\ Goes(c, pc, F)
          /\ pc \in {"partial", "time"} => call[c].pc \in {"ident", "time"}
    <3>1. CASE PowerVm(c)
      BY <1>0, <3>1, MutationsAre DEF Mutated, Effected
    <3>2. CASE ControlParity(c)
      BY <1>0, <3>2, MutationsAre DEF Mutated, Effected
    <3>3. CASE ConfigureUps(c)
      BY <1>0, <3>3, MutationsAre DEF Mutated, Effected
    <3>4. CASE SetIdentity(c)
      BY <1>0, <3>4, MutationsAre DEF Mutated, Effected, AfterIdentity
    <3>5. CASE SetTime(c)
      BY <1>0, <3>5, MutationsAre DEF Mutated, Effected, PartialApply
    <3>6. CASE SetAutostart(c)
      BY <1>0, <3>6, SetAutostartDoes DEF Fails
    <3>7. QED
      BY <1>7, <3>1, <3>2, <3>3, <3>4, <3>5, <3>6 DEF Mutating
  <2>2. CASE pc \in {"partial", "time"}
    <3>1. call[c].pc \in {"ident", "time"}
      BY <2>1, <2>2
    <3>2. pc \in Stages(Ask[c].verb)
      BY <1>0, <2>2, <3>1 DEF Located, Stages
    <3>3. F \cap {"row", "url", "id", "key"} = {} /\ call[c].pc \in Connected
      BY <3>1 DEF Connected, Requests
    <3>4. QED
      BY <1>0, <2>1, <2>2, <3>2, <3>3, StaysLocated
  <2>3. QED
    BY <1>1, <2>1, <2>2
<1>8. CASE Looking(c)
  BY <1>8, LookingLocated
<1>9. QED
  BY <1>3, <1>4, <1>5, <1>6, <1>7, <1>8, MovesSplit DEF Beginning

(* A step that picks no endpoint and does not connect to one keeps to it.   *)
LEMMA KeepsTo ==
    ASSUME HostInv, NEW c \in Made, Looking(c) \/ Mutating(c) \/ SetAutostart(c),
           ~ReadKey(c), ~Resolve(c)
    PROVE  /\ call'[c].pc \notin {"apikey", "route"}
           /\ call'[c].pc \in Connected => call[c].pc \in Connected
           /\ call'[c].id = call[c].id /\ call'[c].url = call[c].url /\ call'[c].key = call[c].key
           /\ raced[c] \subseteq raced'[c]
<1>0. CallsShaped /\ Tables /\ Machines /\ Located(c) /\ call[c].url \in Hosts
  BY DEF HostInv, Located
<1> DEFINE To == {"done", "failed", "partial", "mount", "pid", "comm", "assess", "plan", "root", "set"}
           Sets == {{"pc"}, {"pc", "stopped"}, {"pc", "ident"}, {"pc", "time"}, {"pc", "answer"},
                    {"pc", "flags"}, {"pc", "manager"}, {"pc", "pid"}, {"pc", "did", "lost"}}
<1>1. SUFFICES \E pc \in To \cup Connected, F \in Sets :
                  Goes(c, pc, F) /\ (pc \in Connected => call[c].pc \in Connected)
  <2>1. raced[c] \subseteq raced'[c]
    BY <1>0, LookingDoes, MutatingDoes, SwitchingDoes DEF Looks
  <2>2. QED
    BY <2>1 DEF Goes, SameBut, Fields, Connected, Requests
<1>2. CASE Refuse(c)
  BY <1>0, <1>2, RefuseDoes DEF Fails, Connected, Requests
<1>4. CASE ListVms(c)
  BY <1>0, <1>4, ListVmsDoes DEF Fails, Connected, Requests
<1>5. CASE ReadArray(c)
  BY <1>0, <1>5, ReadArrayDoes DEF Fails, Connected, Requests
<1>6. CASE ReadIdentity(c)
  BY <1>0, <1>6, ReadIdentityDoes DEF Fails, Connected, Requests
<1>7. CASE ReadTime(c)
  BY <1>0, <1>7, ReadTimeDoes DEF Fails, Connected, Requests
<1>8. CASE Decide(c)
  BY <1>0, <1>8, DecideDoes DEF Fails, Connected, Requests
<1>9. CASE Probes(c)
  <2>1. CASE LocalView(c) \/ AskFlags(c)
    BY <1>0, <2>1, LocalViewDoes, AskFlagsDoes DEF Fails, Connected, Requests
  <2>2. CASE AskManager(c)
    BY <1>0, <2>2, AskManagerDoes DEF Fails, Connected, Requests
  <2>3. CASE ProbeMount(c) \/ ProbePid(c) \/ ProbeComm(c) \/ Assess(c)
    BY <1>0, <2>3, ProbeMountDoes, ProbePidDoes, ProbeCommDoes, AssessDoes DEF Connected, Requests
  <2>4. QED
    BY <1>9, <2>1, <2>2, <2>3 DEF Probes
<1>10. CASE RequireVms(c)
  BY <1>0, <1>10, RequireVmsDoes DEF Fails, Connected, Requests
<1>11. CASE PlanAutostart(c) \/ PlanAsRoot(c)
  BY <1>0, <1>11, PlanDoes DEF Fails, Connected, Requests
<1>12. CASE PowerVm(c)
  BY <1>0, <1>12, MutationsAre DEF Mutated, Effected, Connected, Requests
<1>13. CASE ControlParity(c)
  BY <1>0, <1>13, MutationsAre DEF Mutated, Effected, Connected, Requests
<1>14. CASE ConfigureUps(c)
  BY <1>0, <1>14, MutationsAre DEF Mutated, Effected, Connected, Requests
<1>15. CASE SetIdentity(c)
  BY <1>0, <1>15, MutationsAre DEF Mutated, Effected, AfterIdentity, Connected, Requests
<1>16. CASE SetTime(c)
  BY <1>0, <1>16, MutationsAre DEF Mutated, Effected, PartialApply, Connected, Requests
<1>17. CASE SetAutostart(c)
  <2>1. \/ Goes(c, "failed", {"pc"}) \/ Goes(c, "done", {"pc", "did", "lost"})
        \/ Goes(c, "failed", {"pc", "did", "lost"})
    BY <1>0, <1>17, SetAutostartDoes DEF Fails
  <2>2. QED
    BY <2>1 DEF Connected, Requests
<1>18. CASE Looking(c)
  BY <1>2, <1>4, <1>5, <1>6, <1>7, <1>8, <1>9, <1>10, <1>11, <1>18 DEF Looking
<1>19. CASE Mutating(c)
  BY <1>12, <1>13, <1>14, <1>15, <1>16, <1>19 DEF Mutating
<1>20. QED
  BY <1>17, <1>18, <1>19

(* A name that nobody is writing, wrote at the same time as another or left *)
(* half written has a row and a key that go together.                       *)
LEMMA QuietNamesAgree ==
    ASSUME HostInv, NEW n \in Names, \A d \in Made : Unsettled(d) => Ask[d].name # n
    PROVE  Agrees(n)
<1>1. Books(n)
  BY DEF HostInv
<1>2. \A d \in Made : Writer(d, n) => ~Unsettled(d)
  BY DEF Writer
<1>3. \A d \in Made : Writer(d, n) => ~Running(d) /\ ~HalfDone(d) /\ <<"row", n>> \notin raced[d]
  BY <1>2 DEF Writer, Unsettled
<1>4. QED
  BY <1>1, <1>3 DEF Books, Tainted

LEMMA MovesRead ==
    ASSUME HostInv, NEW c \in Made, Moves(c)
    PROVE  Reads(c)'
<1>0. /\ CallsShaped /\ Tables /\ Machines /\ Located(c) /\ Reads(c)
      /\ raced = [d \in Made |-> raced[d]]
  BY DEF HostInv, Tables
<1>1. CASE Ask[c].verb \in Registry
  BY <1>1 DEF Reads
<1>2. CASE ReadKey(c)
  <2>1. CASE Fails(c)
    BY <2>1 DEF Fails, Goes, Reads, Connected, Requests
  <2>2. CASE Goes(c, "route", {"pc", "key"}) /\ call'[c].key = key[call[c].id]
    <3>1. /\ call'[c].pc = "route" /\ call'[c].row = call[c].row /\ call'[c].id = call[c].id
      BY <2>2 DEF Goes, SameBut, Fields
    <3>2. raced' = raced /\ call[c].pc = "apikey"
      BY <1>0, <1>2, ReadKeyDoes DEF Looks
    <3>3. QED
      BY <1>0, <2>2, <3>1, <3>2 DEF Reads, GoesWith, Connected, Requests
  <2>3. QED
    BY <1>0, <1>2, <2>1, <2>2, ReadKeyDoes
<1>3. CASE Resolve(c)
  <2>1. CASE Fails(c)
    BY <2>1 DEF Fails, Goes, Reads, Connected, Requests
  <2>2. CASE Goes(c, FirstRequest(c), {"pc", "url"}) /\ call'[c].url \in Resolved(call[c].row.routes)
    <3>1. /\ call'[c].pc = FirstRequest(c) /\ call'[c].key = call[c].key /\ call'[c].id = call[c].id
      BY <2>2 DEF Goes, SameBut, Fields
    <3>2. raced' = raced /\ call[c].pc = "route"
      BY <1>0, <1>3, ResolveDoes DEF Looks
    <3>3. FirstRequest(c) \notin {"apikey", "route"}
      BY DEF FirstRequest
    <3>4. LeadsTo(call[c].row.routes, call[c].key) => call'[c].url = HomeOf[call[c].key]
      BY <2>2 DEF LeadsTo, Resolved, Answering
    <3>5. QED
      BY <1>0, <3>1, <3>2, <3>3, <3>4 DEF Reads
  <2>3. QED
    BY <1>0, <1>3, <2>1, <2>2, ResolveDoes
<1>4. CASE PickRow(c) \/ PickEnabled(c)
  <2>1. BeginsAlone(c) /\ (\/ Fails(c) \/ Goes(c, "done", {"pc"})
                           \/ (/\ Goes(c, "apikey", {"pc", "row", "id"})
                               /\ \E n \in Registered : call'[c].row = row[n] /\ call'[c].id = n))
    BY <1>0, <1>4, PickRowDoes, PickEnabledDoes DEF Enabled
  <2>2. CASE Fails(c) \/ Goes(c, "done", {"pc"})
    BY <2>2 DEF Fails, Goes, Reads, Connected, Requests
  <2>3. ASSUME NEW n \in Registered, Goes(c, "apikey", {"pc", "row", "id"}),
               call'[c].row = row[n], call'[c].id = n
        PROVE  Reads(c)'
    <3>1. call'[c].pc = "apikey" /\ n \in Names /\ row[n].exists
      BY <2>3 DEF Goes, Registered
    <3>2. row' = row /\ key' = key /\ raced'[c] = Busy
      BY <1>0, <2>1 DEF BeginsAlone, registry, Begins
    <3>3. SUFFICES ASSUME <<"row", n>> \notin Busy PROVE GoesWith(n)
      BY <2>3, <3>1, <3>2 DEF Reads, GoesWith, Connected, Requests
    <3>4. \A d \in Made : Unsettled(d) => Ask[d].name # n
      BY <3>3 DEF Busy
    <3>5. QED
      BY <3>1, <3>4, QuietNamesAgree DEF Agrees
  <2>4. QED
    BY <2>1, <2>2, <2>3
<1>5. CASE /\ Looking(c) \/ Mutating(c) \/ SetAutostart(c)
           /\ ~ReadKey(c) /\ ~Resolve(c)
  BY <1>0, <1>5, KeepsTo DEF Reads
<1>6. CASE ReadRow(c) \/ Writing(c)
  BY <1>0, <1>1, <1>6, ReadRowDoes, WritersAre DEF Registry
<1>7. QED
  BY <1>1, <1>2, <1>3, <1>4, <1>5, <1>6, MovesSplit DEF Beginning

(* The steps by which a call finds out about VMs, by where it is.           *)
LEMMA ProbingMoves ==
    ASSUME HostInv, NEW c \in Made, Moves(c), Ask[c].verb \in {"vm.availability", "vm.autostart"}
    PROVE  \/ call[c].pc = "idle" /\ (Refuse(c) \/ PickRow(c) \/ LocalView(c) \/ RequireVms(c))
           \/ /\ call[c].pc \in {"apikey", "route", "flags"}
              /\ ReadKey(c) \/ Resolve(c) \/ AskFlags(c)
           \/ /\ call[c].pc \in {"manager", "mount", "pid", "comm", "assess", "plan", "root", "set"}
              /\ \/ AskManager(c) \/ ProbeMount(c) \/ ProbePid(c) \/ ProbeComm(c) \/ RequireVms(c)
                 \/ PlanAutostart(c) \/ PlanAsRoot(c) \/ Assess(c) \/ SetAutostart(c)
<1>1. call[c].pc \in {"idle", "apikey", "route", "flags", "manager", "mount", "pid", "comm", "assess",
                     "plan", "root", "set", "done", "failed"}
  BY DEF HostInv, Located, Stages
<1>2. ~Registers(c)
  BY <1>1 DEF Registers, InsertRow, SetKey, UndoRow, ReadRow, WriteRow, RemoveRow, RemoveKey, Starts
<1>3. ~Manages(c)
  BY <1>1 DEF Manages, ListVms, PowerVm, ControlParity, PickEnabled, ConfigureUps, Starts, Capability
<1>4. ~Settles(c)
  BY <1>1 DEF Settles, ReadArray, ReadIdentity, ReadTime, Decide, SetIdentity, SetTime
<1>5. CASE Refuse(c) \/ Connects(c)
  BY <1>5 DEF Connects, Refuse, PickRow, ReadKey, Resolve, Starts
<1>6. CASE Probes(c)
  BY <1>6 DEF Probes, LocalView, AskFlags, AskManager, ProbeMount, ProbePid, ProbeComm, Assess, Starts
<1>7. CASE Autostarts(c)
  BY <1>7 DEF Autostarts, RequireVms, PlanAutostart, PlanAsRoot, SetAutostart, Starts
<1>8. QED
  BY <1>2, <1>3, <1>4, <1>5, <1>6, <1>7 DEF Moves

LEMMA MovesProbe ==
    ASSUME HostInv, NEW c \in Made, Moves(c)
    PROVE  Probed(c)'
<1>0. /\ CallsShaped /\ Tables /\ Machines /\ Located(c) /\ Probed(c) /\ c \in Calls
      /\ call[c].url \in Hosts
  BY DEF HostInv, Tables, Located
<1>1. SUFFICES ASSUME Ask[c].verb \in {"vm.availability", "vm.autostart"} PROVE Probed(c)'
  BY DEF Probed
<1>3. ASSUME NEW F, Goes(c, "failed", F) \/ Goes(c, "done", F)
      PROVE  Probed(c)'
  BY <1>3 DEF Goes, Probed, Running, Over
<1>4. CASE call[c].pc = "idle"
  <2>1. call[c] = Idle
    BY <1>0, <1>4 DEF Located
  <2>2. call[c].manager = "none" /\ call[c].answer = Keep /\ call[c].url = Here
    BY <2>1 DEF Idle
  <2>3. CASE PickRow(c)
    <3>1. CASE Goes(c, "apikey", {"pc", "row", "id"})
      <4>1. call'[c].pc = "apikey" /\ call'[c].manager = "none" /\ call'[c].answer = Keep
        BY <2>2, <3>1 DEF Goes, SameBut, Fields
      <4>2. QED
        BY <4>1 DEF Probed, Keep
    <3>2. QED
      BY <1>0, <1>3, <2>3, <3>1, PickRowDoes DEF Fails
  <2>4. CASE LocalView(c) \/ RequireVms(c)
    <3>1. Goes(c, "mount", {"pc"}) /\ Ask[c].name = NoName
      BY <1>0, <1>4, <2>4, LocalViewDoes, RequireVmsDoes, ConstantsAssumption
    <3>2. /\ call'[c].pc = "mount" /\ call'[c].manager = "none" /\ call'[c].answer = Keep
          /\ call'[c].url = Here
      BY <2>2, <3>1 DEF Goes, SameBut, Fields
    <3>3. QED
      BY <3>1, <3>2 DEF Probed, Keep, ThisMachine
  <2>5. CASE Refuse(c)
    BY <1>0, <1>3, <2>5, RefuseDoes DEF Fails
  <2>6. QED
    BY <1>1, <1>4, <2>3, <2>4, <2>5, ProbingMoves
<1>5. CASE call[c].pc \in {"apikey", "route", "flags"}
  <2>1. call[c].manager = "none" /\ call[c].answer = Keep
    BY <1>0, <1>1, <1>5 DEF Probed, Running, Over
  <2>2. \/ Fails(c)
        \/ \E pc \in {"route", "flags", "manager"}, F \in {{"pc", "key"}, {"pc", "url"}, {"pc", "flags"}} :
              Goes(c, pc, F)
    <3>1. CASE ReadKey(c)
      BY <1>0, <3>1, ReadKeyDoes
    <3>2. CASE Resolve(c)
      <4>1. Ask[c].verb = "vm.availability"
        BY <1>0, <1>1, <3>2, ResolveDoes DEF Located, Stages
      <4>2. QED
        BY <1>0, <3>2, <4>1, ResolveDoes DEF FirstRequest
    <3>3. CASE AskFlags(c)
      BY <1>0, <3>3, AskFlagsDoes DEF Fails
    <3>4. QED
      BY <1>1, <1>5, <3>1, <3>2, <3>3, ProbingMoves
  <2>3. CASE \E pc \in {"route", "flags", "manager"}, F \in {{"pc", "key"}, {"pc", "url"}, {"pc", "flags"}} :
                Goes(c, pc, F)
    <3>1. PICK pc \in {"route", "flags", "manager"}, F \in {{"pc", "key"}, {"pc", "url"}, {"pc", "flags"}} :
                Goes(c, pc, F)
      BY <2>3
    <3>2. call'[c].pc = pc /\ call'[c].manager = "none" /\ call'[c].answer = Keep
      BY <2>1, <3>1 DEF Goes, SameBut, Fields
    <3>3. QED
      BY <3>1, <3>2 DEF Probed, Keep
  <2>4. QED
    BY <1>3, <2>2, <2>3 DEF Fails
<1>6. CASE call[c].pc \in {"manager", "mount", "pid", "comm", "assess", "plan", "root", "set"}
  <2>0. Running(c)
    BY <1>6 DEF Running, Over
  <2>1. CASE AskManager(c)
    <3>1. /\ call[c].pc = "manager" /\ host' = host /\ stack' = stack /\ raced' = raced
          /\ call[c].manager = "none" /\ call[c].answer = Keep /\ call[c].id \in Names
      BY <1>0, <1>1, <2>0, <2>1, AskManagerDoes DEF Looks, world, Probed, Located, Connected, Requests
    <3>2. CASE /\ Goes(c, IF Local(c) THEN "mount" ELSE "assess", {"pc", "manager"})
               /\ call'[c].manager \in {call[c].manager, At(c).manager}
      <4>1. /\ call'[c].pc = (IF Local(c) THEN "mount" ELSE "assess") /\ call'[c].answer = Keep
            /\ call'[c].url = call[c].url /\ call'[c].id \in Names
        BY <3>1, <3>2 DEF Goes, SameBut, Fields
      <4>2. call'[c].manager = "enabled" => host'[call'[c].url].manager = "enabled"
        BY <3>1, <3>2, <4>1 DEF At
      <4>3. QED
        BY <4>1, <4>2 DEF Probed, Keep, ThisMachine, Local
    <3>3. QED
      BY <1>0, <1>3, <2>1, <3>2, AskManagerDoes DEF Fails
  <2>2. CASE ProbeMount(c) \/ ProbePid(c)
    <3>1. /\ call[c].pc \in {"mount", "pid"} /\ host' = host /\ stack' = stack /\ raced' = raced
          /\ \/ Goes(c, "pid", {"pc"})
             \/ Goes(c, "assess", {"pc", "answer"}) /\ call'[c].answer \in {"unmounted", "stopped"}
             \/ Goes(c, "comm", {"pc", "pid"}) /\ call'[c].pid # 0
      BY <1>0, <2>2, ProbeMountDoes, ProbePidDoes DEF Looks, world
    <3>2. /\ call'[c].manager = call[c].manager /\ call'[c].url = call[c].url
          /\ call'[c].id = call[c].id /\ call'[c].pc \in {"pid", "assess", "comm"}
          /\ call'[c].answer \in {call[c].answer, "unmounted", "stopped"}
          /\ call'[c].pc = "comm" => call'[c].pid # 0
      BY <3>1 DEF Goes, SameBut, Fields
    <3>3. QED
      BY <1>0, <1>1, <2>0, <3>1, <3>2 DEF Probed, ThisMachine
  <2>3. CASE ProbeComm(c)
    <3>1. /\ call[c].pc = "comm" /\ host' = host /\ stack' = stack /\ raced' = raced
          /\ Goes(c, "assess", {"pc", "answer"})
          /\ call'[c].answer = IF stack.daemon = call[c].pid THEN "running" ELSE "stale"
      BY <1>0, <2>3, ProbeCommDoes DEF Looks, world
    <3>2. /\ call'[c].manager = call[c].manager /\ call'[c].url = call[c].url
          /\ call'[c].id = call[c].id /\ call'[c].pc = "assess"
      BY <3>1 DEF Goes, SameBut, Fields
    <3>3. QED
      BY <1>0, <1>1, <2>0, <3>1, <3>2 DEF Probed, ThisMachine
  <2>4. CASE RequireVms(c) \/ PlanAutostart(c) \/ PlanAsRoot(c)
    <3>1. /\ host' = host /\ stack' = stack /\ raced' = raced
          /\ \/ Fails(c) \/ Goes(c, "done", {"pc"})
             \/ Goes(c, "plan", {"pc"}) \/ Goes(c, "root", {"pc"}) \/ Goes(c, "set", {"pc"})
      BY <1>0, <1>6, <2>4, RequireVmsDoes, PlanDoes DEF Looks, world
    <3>2. CASE Goes(c, "plan", {"pc"}) \/ Goes(c, "root", {"pc"}) \/ Goes(c, "set", {"pc"})
      <4>1. /\ call'[c].manager = call[c].manager /\ call'[c].url = call[c].url
            /\ call'[c].id = call[c].id /\ call'[c].pc \in {"plan", "root", "set"}
            /\ call'[c].answer = call[c].answer
        BY <3>2 DEF Goes, SameBut, Fields
      <4>2. QED
        BY <1>0, <1>1, <2>0, <3>1, <4>1 DEF Probed, ThisMachine
    <3>3. QED
      BY <1>3, <3>1, <3>2 DEF Fails
  <2>5. CASE Assess(c) \/ SetAutostart(c)
    BY <1>0, <1>3, <2>5, AssessDoes, SetAutostartDoes DEF Fails
  <2>6. QED
    BY <1>1, <1>6, <2>1, <2>2, <2>3, <2>4, <2>5, ProbingMoves
<1>7. QED
  BY <1>1, <1>4, <1>5, <1>6, ProbingMoves

-----------------------------------------------------------------------------
(* The registry's books.  A step that leaves a name and its running writers *)
(* alone keeps them.                                                        *)
LEMMA QuietKeeps ==
    ASSUME NEW n \in Names, Books(n), Made' = Made,
           row'[n] = row[n], key'[n] = key[n], meant'[n] = meant[n],
           \A d \in Made : Writer(d, n) => \/ call'[d] = call[d]
                                           \/ call[d].pc = "idle" /\ call'[d].pc = "failed",
           Tainted(n) => Tainted(n)'
    PROVE  Books(n)'
<1>1. SUFFICES ASSUME ~Tainted(n)'
               PROVE  /\ \A c, d \in Made : Writer(c, n) /\ Writer(d, n) /\ Running(c)' /\ Running(d)' => c = d
                      /\ (\A c \in Made : Writer(c, n) => ~Running(c)') => Agrees(n)'
                      /\ \A c \in Made : Writer(c, n) /\ Running(c)' => Midway(c, n)'
  BY DEF Books, Writer
<1>2. \A d \in Made : Writer(d, n) => (Running(d)' <=> Running(d)) /\ (Running(d) => call'[d] = call[d])
  BY DEF Running, Over
<1>3. /\ \A c, d \in Made : Writer(c, n) /\ Writer(d, n) /\ Running(c) /\ Running(d) => c = d
      /\ (\A c \in Made : Writer(c, n) => ~Running(c)) => Agrees(n)
      /\ \A c \in Made : Writer(c, n) /\ Running(c) => Midway(c, n)
  BY <1>1 DEF Books
<1>3a. KeyLeft(n) => KeyLeft(n)'
  <2>1. SUFFICES ASSUME NEW d \in Made, Ask[d].verb = "create", Ask[d].name = n,
                        call[d].pc = "failed", "key" \in call[d].did
                 PROVE  KeyLeft(n)'
    BY DEF KeyLeft
  <2>2. call'[d] = call[d] /\ d \in Made'
    BY <2>1 DEF Writer, Registry
  <2>3. QED
    BY <2>1, <2>2 DEF KeyLeft
<1>4. Agrees(n) => Agrees(n)'
  BY <1>3a DEF Agrees, GoesWith
<1>5. ASSUME NEW c \in Made, Writer(c, n), Running(c)' PROVE Midway(c, n)'
  <2>1. Midway(c, n) /\ call'[c] = call[c]
    BY <1>2, <1>3, <1>5
  <2>2. QED
    BY <1>3a, <2>1 DEF Midway, GoesWith
<1>6. QED
  BY <1>2, <1>3, <1>4, <1>5

(* A key that a failed create left is known to be left.                     *)
LEMMA LeftStays ==
    ASSUME NEW n \in Names, NEW c \in Made, Alone(c), call[c].pc # "failed", KeyLeft(n)
    PROVE  KeyLeft(n)'
<1>1. PICK d \in Made : /\ Ask[d].verb = "create" /\ Ask[d].name = n
                       /\ call[d].pc = "failed" /\ "key" \in call[d].did
  BY DEF KeyLeft
<1>2. call'[d] = call[d] /\ d \in Made'
  BY <1>1 DEF Alone
<1>3. QED
  BY <1>1, <1>2 DEF KeyLeft

(* What is under way at a name, once one writer is left there.              *)
LEMMA LastWriter ==
    ASSUME NEW n \in Names, NEW c \in Made, Writer(c, n), Alone(c),
           \A d \in Made \ {c} : Writer(d, n) => ~Running(d),
           IF Running(c)' THEN Midway(c, n)' ELSE Agrees(n)'
    PROVE  Books(n)'
<1>1. Made' = Made /\ \A d \in Made \ {c} : Writer(d, n) => ~Running(d)'
  BY DEF Alone, Running
<1>2. QED
  BY <1>1 DEF Books, Writer

LEMMA RegisteringMoves ==
    ASSUME HostInv, NEW c \in Made, Moves(c), Ask[c].verb \in Registry
    PROVE  Registers(c)
<1>1. call[c].pc \in {"idle", "key", "undo", "row", "unkey", "done", "failed"}
  BY DEF HostInv, Located, Stages, Registry
<1>2. ~Refuse(c) /\ ~Connects(c)
  BY <1>1 DEF Refuse, Connects, PickRow, ReadKey, Resolve, Starts, Admins, Remote, Registry
<1>3. ~Manages(c)
  BY <1>1 DEF Manages, ListVms, PowerVm, ControlParity, PickEnabled, ConfigureUps, Starts, Capability, Registry
<1>4. ~Settles(c)
  BY <1>1 DEF Settles, ReadArray, ReadIdentity, ReadTime, Decide, SetIdentity, SetTime
<1>5. ~Probes(c)
  BY <1>1 DEF Probes, LocalView, AskFlags, AskManager, ProbeMount, ProbePid, ProbeComm, Assess, Starts, Registry
<1>6. ~Autostarts(c)
  BY <1>1 DEF Autostarts, RequireVms, PlanAutostart, PlanAsRoot, SetAutostart, Starts, Registry
<1>7. QED
  BY <1>2, <1>3, <1>4, <1>5, <1>6 DEF Moves

LEMMA TaintStays ==
    ASSUME HostInv, NEW n \in Names, NEW c \in Made, Moves(c), Tainted(n)
    PROVE  Tainted(n)'
<1>1. PICK d \in Made : Writer(d, n) /\ (HalfDone(d) \/ <<"row", n>> \in raced[d])
  BY DEF Tainted
<1>2. Made' = Made /\ \A e \in Made \ {c} : call'[e] = call[e] /\ raced[e] \subseteq raced'[e]
  BY MovesFrame DEF Alone, Undisturbed, Told
<1>3. CASE d # c
  BY <1>1, <1>2, <1>3 DEF Tainted, Writer, HalfDone
<1>4. CASE d = c
  <2>1. Registers(c)
    BY <1>1, <1>4, RegisteringMoves DEF Writer
  <2>2. ~HalfDone(c) /\ CallsShaped /\ Tables /\ Located(c)
    BY <2>1 DEF HalfDone, Registers, InsertRow, SetKey, UndoRow, ReadRow, WriteRow, RemoveRow, RemoveKey,
       Starts, HostInv
  <2>3. call[c].pc # "idle" /\ <<"row", n>> \in raced[c]
    BY <1>1, <1>4, <2>2 DEF Located
  <2>4. raced[c] \subseteq raced'[c]
    <3>1. CASE SetKey(c) \/ UndoRow(c) \/ WriteRow(c) \/ RemoveKey(c)
      BY <2>2, <3>1, SetKeyDoes, UndoRowDoes, WriteRowDoes, RemoveKeyDoes, WritesNameDoes
    <3>2. CASE InsertRow(c) \/ ReadRow(c) \/ RemoveRow(c)
      BY <2>2, <2>3, <3>2, InsertRowDoes, ReadRowDoes, RemoveRowDoes
    <3>3. QED
      BY <2>1, <3>1, <3>2 DEF Registers
  <2>5. QED
    BY <1>1, <1>2, <1>4, <2>3, <2>4 DEF Tainted, Writer
<1>5. QED
  BY <1>3, <1>4

(* What the writer of a name asked goes with what the name may hold.        *)
LEMMA AskedGoes ==
    ASSUME HostInv, NEW c \in Made, Ask[c].verb \in {"create", "update"}, NEW n \in Names, n = Ask[c].name
    PROVE  /\ Ask[c].verb = "create" => Ask[c].key \in Keys /\ LeadsTo(Ask[c].routes, Ask[c].key)
           /\ Ask[c].verb = "update" /\ Ask[c].key \in Keys /\ Ask[c].routes # << >> =>
                LeadsTo(Ask[c].routes, Ask[c].key)
           /\ Ask[c].verb = "update" /\ Ask[c].key \in Keys /\ Ask[c].routes = << >> /\ key[n] # NoKey =>
                HomeOf[key[n]] = HomeOf[Ask[c].key]
           /\ Ask[c].verb = "update" /\ Ask[c].key \notin Keys /\ Ask[c].routes # << >> /\ key[n] # NoKey =>
                LeadsTo(Ask[c].routes, key[n])
<1>1. PICK s \in Scenarios : InScene(s)
  BY DEF HostInv
<1>2. GoesTogether(s, c) /\ (key[n] # NoKey => key[n] \in KeysFor(s, n))
  BY <1>1, ScenariosAssumption DEF InScene
<1>3. QED
  BY <1>2 DEF GoesTogether

LEMMA LeadsToHome ==
    ASSUME NEW k \in Keys, NEW l \in Keys, HomeOf[k] = HomeOf[l], NEW routes, LeadsTo(routes, k)
    PROVE  LeadsTo(routes, l)
BY DEF LeadsTo

(* A writer that begins finds a name that agrees, and is alone with it.     *)
LEMMA BeginsQuiet ==
    ASSUME HostInv, NEW n \in Names, NEW c \in Made, Writer(c, n), Moves(c), raced'[c] = Busy, ~Tainted(n)'
    PROVE  Agrees(n) /\ \A d \in Made \ {c} : Writer(d, n) => ~Running(d)
<1>1. <<"row", n>> \notin Busy
  <2>1. Made' = Made
    BY MovesFrame DEF Alone
  <2>2. QED
    BY <2>1 DEF Tainted, Writer
<1>2. \A d \in Made : Unsettled(d) => Ask[d].name # n
  BY <1>1 DEF Busy
<1>3. QED
  BY <1>2, QuietNamesAgree DEF Unsettled, Writer

(* A writer under way is alone with its name, and knows how it stands.      *)
LEMMA GoesOnAlone ==
    ASSUME HostInv, NEW n \in Names, NEW c \in Made, Writer(c, n), Running(c), ~Tainted(n)
    PROVE  Midway(c, n) /\ \A d \in Made \ {c} : Writer(d, n) => ~Running(d)
BY DEF HostInv, Books

(* The seven steps of a writer, at the name it writes.                      *)
WriterAt(c, n) == Writer(c, n) /\ n \in Names /\ c \in Made /\ c \in Calls

LEMMA WriterHas ==
    ASSUME HostInv, NEW n \in Names, NEW c \in Made, Writer(c, n)
    PROVE  /\ c \in Calls /\ n = Ask[c].name /\ CallsShaped /\ Located(c) /\ Books(n)
           /\ row \in [Names -> Rows] /\ meant \in [Names -> Rows] /\ key \in [Names -> Keys \cup {NoKey}]
           /\ raced = [d \in Made |-> raced[d]]
           /\ row[n] \in Rows /\ Row(c).exists /\ ~NoRow.exists /\ NoKey \notin Keys
           /\ Ask[c].key \in Keys \cup {NoKey}
BY ConstantsAssumption DEF HostInv, Tables, Writer, Row, NoRow

LEMMA InsertKeepsBooks ==
    ASSUME HostInv, NEW n \in Names, NEW c \in Made, Writer(c, n), InsertRow(c)
    PROVE  Books(n)'
<1>0. WriterAt(c, n) /\ CallsShaped /\ Tables /\ Moves(c)
  BY WriterHas DEF WriterAt, HostInv, Moves, Registers
<1>1. /\ call[c].pc = "idle" /\ Ask[c].verb = "create" /\ key' = key
      /\ \/ Fails(c) /\ UNCHANGED <<row, raced, meant>>
         \/ /\ ~row[n].exists /\ row' = [row EXCEPT ![n] = Row(c)]
            /\ Goes(c, "key", {"pc"}) /\ BeginsWriting(c) /\ meant' = [meant EXCEPT ![n] = Row(c)]
  BY <1>0, WriterHas, InsertRowDoes DEF Means
<1>2. CASE Fails(c) /\ UNCHANGED <<row, raced, meant>>
  <2>1. Made' = Made /\ call'[c].pc = "failed" /\ ~Running(c) /\ \A d \in Made \ {c} : call'[d] = call[d]
    BY <1>1, <1>2 DEF Fails, Goes, Alone, Running
  <2>2. QED
    BY <1>0, <1>1, <1>2, <2>1, WriterHas, TaintStays, QuietKeeps
<1>3. CASE /\ ~row[n].exists /\ row' = [row EXCEPT ![n] = Row(c)]
           /\ Goes(c, "key", {"pc"}) /\ BeginsWriting(c) /\ meant' = [meant EXCEPT ![n] = Row(c)]
  <2>1. SUFFICES ASSUME ~Tainted(n)' PROVE Books(n)'
    BY DEF Books
  <2>2. raced'[c] = Busy
    BY <1>3, BeginsWritingDoes
  <2>3. Agrees(n) /\ \A d \in Made \ {c} : Writer(d, n) => ~Running(d)
    BY <1>0, <2>1, <2>2, BeginsQuiet
  <2>5. Alone(c) /\ call'[c].pc = "key"
    BY <1>3 DEF Goes
  <2>4. row'[n] = Row(c) /\ meant'[n] = Row(c) /\ (key'[n] # NoKey => KeyLeft(n)')
    BY <1>1, <1>3, <2>3, <2>5, WriterHas, LeftStays DEF Agrees
  <2>6. LeadsTo(Row(c).routes, Ask[c].key)
    BY <1>1, WriterHas, AskedGoes DEF Row
  <2>7. Midway(c, n)' /\ Running(c)'
    BY <1>1, <2>4, <2>5, <2>6 DEF Midway, Running, Over
  <2>8. QED
    BY <2>3, <2>5, <2>7, LastWriter
<1>4. QED
  BY <1>1, <1>2, <1>3

LEMMA SetKeyKeepsBooks ==
    ASSUME HostInv, NEW n \in Names, NEW c \in Made, Writer(c, n), SetKey(c)
    PROVE  Books(n)'
<1>0. WriterAt(c, n) /\ CallsShaped /\ Tables /\ Moves(c)
  BY WriterHas DEF WriterAt, HostInv, Moves, Registers
<1>1. /\ call[c].pc = "key" /\ Ask[c].verb \in {"create", "update"} /\ row' = row /\ meant' = meant
      /\ \/ Goes(c, OnKeyError(c), {"pc"}) /\ UNCHANGED <<key, raced>>
         \/ key' = [key EXCEPT ![n] = Ask[c].key] /\ Goes(c, "done", {"pc"})
         \/ /\ key' = [key EXCEPT ![n] = Ask[c].key] /\ Goes(c, OnKeyError(c), {"pc", "did"})
            /\ call'[c].did = call[c].did \cup {"key"}
  BY <1>0, WriterHas, SetKeyDoes DEF Quietly
<1>2. SUFFICES ASSUME ~Tainted(n)' PROVE Books(n)'
  BY DEF Books
<1>3. Running(c) /\ ~Tainted(n)
  BY <1>0, <1>1, <1>2, TaintStays DEF Running, Over
<1>4. Midway(c, n) /\ \A d \in Made \ {c} : Writer(d, n) => ~Running(d)
  BY <1>3, GoesOnAlone
<1>5. Alone(c) /\ call[c].pc # "failed"
  BY <1>1 DEF Goes
<1>5a. Ask[c].key \in Keys /\ row[n].exists
  BY <1>1, <1>4, WriterHas DEF Midway, Located
<1>6. CASE Goes(c, OnKeyError(c), {"pc"}) /\ UNCHANGED <<key, raced>>
  <2>0. call'[c].pc = OnKeyError(c) /\ call'[c].did = call[c].did
    BY <1>6 DEF Goes, SameBut, Fields
  <2>1. CASE Ask[c].verb = "create"
    <3>1. call'[c].pc = "undo"
      BY <2>0, <2>1 DEF OnKeyError
    <3>2. Midway(c, n)' /\ Running(c)'
      BY <1>1, <1>4, <1>5, <1>6, <2>0, <2>1, <3>1, LeftStays DEF Midway, Running, Over
    <3>3. QED
      BY <1>4, <1>5, <3>2, LastWriter
  <2>2. CASE Ask[c].verb = "update"
    <3>1. call'[c].pc = "failed"
      BY <2>0, <2>2 DEF OnKeyError
    <3>2. "row" \notin call[c].did
      BY <1>2, <1>5, <2>0, <3>1 DEF Tainted, HalfDone, Writer, Alone
    <3>3. Agrees(n)' /\ ~Running(c)'
      BY <1>1, <1>4, <1>6, <2>2, <3>1, <3>2 DEF Midway, Agrees, GoesWith, Running, Over
    <3>4. QED
      BY <1>4, <1>5, <3>3, LastWriter
  <2>3. QED
    BY <1>1, <2>1, <2>2
<1>7. CASE key' = [key EXCEPT ![n] = Ask[c].key] /\ Goes(c, "done", {"pc"})
  <2>1. call'[c].pc = "done" /\ key'[n] = Ask[c].key
    BY <1>7, WriterHas DEF Goes
  <2>2. Agrees(n)' /\ ~Running(c)'
    BY <1>1, <1>4, <1>5a, <2>1, WriterHas DEF Midway, Agrees, GoesWith, Running, Over
  <2>3. QED
    BY <1>4, <1>5, <2>2, LastWriter
<1>8. CASE /\ key' = [key EXCEPT ![n] = Ask[c].key] /\ Goes(c, OnKeyError(c), {"pc", "did"})
           /\ call'[c].did = call[c].did \cup {"key"}
  <2>1. call'[c].pc = OnKeyError(c) /\ key'[n] = Ask[c].key /\ "key" \in call'[c].did
    BY <1>8, WriterHas DEF Goes
  <2>2. CASE Ask[c].verb = "create"
    <3>1. call'[c].pc = "undo"
      BY <2>1, <2>2 DEF OnKeyError
    <3>2. Midway(c, n)' /\ Running(c)'
      BY <1>1, <1>4, <2>1, <2>2, <3>1 DEF Midway, Running, Over
    <3>3. QED
      BY <1>4, <1>5, <3>2, LastWriter
  <2>3. CASE Ask[c].verb = "update"
    <3>1. call'[c].pc = "failed"
      BY <2>1, <2>3 DEF OnKeyError
    <3>2. Agrees(n)' /\ ~Running(c)'
      BY <1>1, <1>4, <1>5a, <2>1, <3>1, WriterHas DEF Midway, Agrees, GoesWith, Running, Over
    <3>3. QED
      BY <1>4, <1>5, <3>2, LastWriter
  <2>4. QED
    BY <1>1, <2>2, <2>3
<1>9. QED
  BY <1>1, <1>6, <1>7, <1>8

LEMMA UndoKeepsBooks ==
    ASSUME HostInv, NEW n \in Names, NEW c \in Made, Writer(c, n), UndoRow(c)
    PROVE  Books(n)'
<1>0. WriterAt(c, n) /\ CallsShaped /\ Tables /\ Moves(c)
  BY WriterHas DEF WriterAt, HostInv, Moves, Registers
<1>1. /\ call[c].pc = "undo" /\ row' \in {[row EXCEPT ![n] = NoRow], row} /\ key' = key
      /\ Goes(c, "failed", {"pc", "lost"}) /\ call'[c].lost = row'[n].exists
      /\ meant' = [meant EXCEPT ![n] = NoRow]
  BY <1>0, WriterHas, UndoRowDoes DEF Means
<1>2. SUFFICES ASSUME ~Tainted(n)' PROVE Books(n)'
  BY DEF Books
<1>3. Running(c) /\ ~Tainted(n) /\ Ask[c].verb = "create"
  BY <1>0, <1>1, <1>2, TaintStays, WriterHas, WriterStages DEF Running, Over
<1>4. Midway(c, n) /\ \A d \in Made \ {c} : Writer(d, n) => ~Running(d)
  BY <1>3, GoesOnAlone
<1>5. Alone(c) /\ call'[c].pc = "failed"
  BY <1>1 DEF Goes
<1>6. ~row'[n].exists
  BY <1>1, <1>2, <1>5 DEF Tainted, HalfDone, Writer, Alone
<1>7. row[n].exists /\ (key[n] # NoKey => KeyLeft(n)')
  <2>1. row[n].exists /\ (key[n] # NoKey => KeyLeft(n) \/ "key" \in call[c].did)
    BY <1>3, <1>4, WriterHas DEF Midway
  <2>2. call'[c].did = call[c].did
    BY <1>1 DEF Goes, SameBut, Fields
  <2>3. "key" \in call[c].did => KeyLeft(n)'
    BY <1>0, <1>3, <1>5, <2>2 DEF KeyLeft, Alone, WriterAt, Writer
  <2>4. QED
    BY <1>1, <1>5, <2>1, <2>3, LeftStays
<1>8. row'[n] = NoRow /\ meant'[n] = NoRow
  BY <1>1, <1>6, <1>7, WriterHas
<1>9. Agrees(n)' /\ ~Running(c)'
  BY <1>1, <1>5, <1>7, <1>8, WriterHas DEF Agrees, GoesWith, Running, Over
<1>10. QED
  BY <1>4, <1>5, <1>9, LastWriter

LEMMA RemoveKeepsBooks ==
    ASSUME HostInv, NEW n \in Names, NEW c \in Made, Writer(c, n), RemoveRow(c) \/ RemoveKey(c)
    PROVE  Books(n)'
<1>0. WriterAt(c, n) /\ CallsShaped /\ Tables /\ Moves(c)
  BY WriterHas DEF WriterAt, HostInv, Moves, Registers
<1>1. CASE RemoveRow(c)
  <2>1. /\ call[c].pc = "idle" /\ Ask[c].verb = "delete" /\ key' = key
        /\ \/ Fails(c) /\ UNCHANGED <<row, raced, meant>>
           \/ /\ row' = [row EXCEPT ![n] = NoRow] /\ Goes(c, "unkey", {"pc", "did"})
              /\ BeginsWriting(c) /\ meant' = [meant EXCEPT ![n] = NoRow]
    BY <1>0, <1>1, WriterHas, RemoveRowDoes DEF Means
  <2>2. CASE Fails(c) /\ UNCHANGED <<row, raced, meant>>
    <3>1. Made' = Made /\ call'[c].pc = "failed" /\ ~Running(c) /\ \A d \in Made \ {c} : call'[d] = call[d]
      BY <2>1, <2>2 DEF Fails, Goes, Alone, Running
    <3>2. QED
      BY <1>0, <2>1, <2>2, <3>1, WriterHas, TaintStays, QuietKeeps
  <2>3. CASE /\ row' = [row EXCEPT ![n] = NoRow] /\ Goes(c, "unkey", {"pc", "did"})
             /\ BeginsWriting(c) /\ meant' = [meant EXCEPT ![n] = NoRow]
    <3>1. SUFFICES ASSUME ~Tainted(n)' PROVE Books(n)'
      BY DEF Books
    <3>2. raced'[c] = Busy
      BY <2>3, BeginsWritingDoes
    <3>3. \A d \in Made \ {c} : Writer(d, n) => ~Running(d)
      BY <1>0, <3>1, <3>2, BeginsQuiet
    <3>4. row'[n] = NoRow /\ meant'[n] = NoRow /\ Alone(c) /\ call'[c].pc = "unkey"
      BY <2>3, WriterHas DEF Goes
    <3>5. Midway(c, n)' /\ Running(c)'
      BY <2>1, <3>4 DEF Midway, Running, Over
    <3>6. QED
      BY <3>3, <3>4, <3>5, LastWriter
  <2>4. QED
    BY <2>1, <2>2, <2>3
<1>2. CASE RemoveKey(c)
  <2>1. /\ call[c].pc = "unkey" /\ row' = row /\ meant' = meant
        /\ \/ Fails(c)
           \/ /\ key' = [key EXCEPT ![n] = NoKey]
              /\ \E pc \in {"done", "failed"} : Goes(c, pc, {"pc"})
    BY <1>0, <1>2, WriterHas, RemoveKeyDoes DEF Quietly
  <2>2. SUFFICES ASSUME ~Tainted(n)' PROVE Books(n)'
    BY DEF Books
  <2>3. Running(c) /\ ~Tainted(n) /\ Ask[c].verb = "delete" /\ "row" \in call[c].did
    BY <1>0, <2>1, <2>2, TaintStays, WriterHas, WriterStages DEF Running, Over, Located
  <2>4. Midway(c, n) /\ \A d \in Made \ {c} : Writer(d, n) => ~Running(d)
    BY <2>3, GoesOnAlone
  <2>5. CASE Goes(c, "failed", {"pc"})
    <3>1. call'[c].pc = "failed" /\ "row" \in call'[c].did /\ Made' = Made
      BY <2>3, <2>5 DEF Goes, SameBut, Fields, Alone
    <3>2. QED
      BY <2>2, <3>1 DEF Tainted, HalfDone, Writer
  <2>6. CASE key' = [key EXCEPT ![n] = NoKey] /\ Goes(c, "done", {"pc"})
    <3>1. key'[n] = NoKey /\ Alone(c) /\ call'[c].pc = "done"
      BY <2>6, WriterHas DEF Goes
    <3>2. Agrees(n)' /\ ~Running(c)'
      BY <2>1, <2>3, <2>4, <3>1, WriterHas DEF Midway, Agrees, GoesWith, Running, Over
    <3>3. QED
      BY <2>4, <3>1, <3>2, LastWriter
  <2>7. QED
    BY <2>1, <2>5, <2>6 DEF Fails
<1>3. QED
  BY <1>1, <1>2

LEMMA ReadKeepsBooks ==
    ASSUME HostInv, NEW n \in Names, NEW c \in Made, Writer(c, n), ReadRow(c)
    PROVE  Books(n)'
<1>0. WriterAt(c, n) /\ CallsShaped /\ Tables /\ Moves(c)
  BY WriterHas DEF WriterAt, HostInv, Moves, Registers
<1>1. /\ call[c].pc = "idle" /\ Ask[c].verb = "update" /\ row' = row /\ key' = key /\ meant' = meant
      /\ \/ Fails(c) /\ raced' = raced
         \/ /\ row[n].exists /\ Begins(c) /\ call'[c].row = Patched(c, row[n])
            /\ \/ Goes(c, "row", {"pc", "row"})
               \/ Goes(c, "key", {"pc", "row"}) /\ Ask[c].key # NoKey /\ Ask[c].routes = << >>
  BY <1>0, WriterHas, ReadRowDoes DEF Quietly, registry
<1>2. CASE Fails(c) /\ raced' = raced
  <2>1. Made' = Made /\ call'[c].pc = "failed" /\ ~Running(c) /\ \A d \in Made \ {c} : call'[d] = call[d]
    BY <1>1, <1>2 DEF Fails, Goes, Alone, Running
  <2>2. QED
    BY <1>0, <1>1, <1>2, <2>1, WriterHas, TaintStays, QuietKeeps
<1>3. CASE /\ row[n].exists /\ Begins(c) /\ call'[c].row = Patched(c, row[n])
           /\ \/ Goes(c, "row", {"pc", "row"})
              \/ Goes(c, "key", {"pc", "row"}) /\ Ask[c].key # NoKey /\ Ask[c].routes = << >>
  <2>1. SUFFICES ASSUME ~Tainted(n)' PROVE Books(n)'
    BY DEF Books
  <2>2. raced'[c] = Busy
    BY <1>3, WriterHas DEF Begins
  <2>3. Agrees(n) /\ \A d \in Made \ {c} : Writer(d, n) => ~Running(d)
    BY <1>0, <2>1, <2>2, BeginsQuiet
  <2>4. Alone(c) /\ (call'[c].pc = "row" \/ (call'[c].pc = "key" /\ Ask[c].key # NoKey /\ Ask[c].routes = << >>))
    BY <1>3 DEF Goes
  <2>5. row[n].exists /\ key[n] \in Keys /\ LeadsTo(row[n].routes, key[n]) /\ row[n] = meant[n]
    BY <1>3, <2>3 DEF Agrees, GoesWith
  <2>6. call'[c].pc = "key" => LeadsTo(row[n].routes, Ask[c].key)
    <3>1. SUFFICES ASSUME Ask[c].key \in Keys, Ask[c].routes = << >> PROVE LeadsTo(row[n].routes, Ask[c].key)
      BY <2>4, WriterHas
    <3>2. HomeOf[key[n]] = HomeOf[Ask[c].key]
      BY <1>1, <2>5, <3>1, WriterHas, AskedGoes
    <3>3. QED
      BY <2>5, <3>1, <3>2, LeadsToHome
  <2>7. Midway(c, n)' /\ Running(c)'
    BY <1>1, <1>3, <2>4, <2>5, <2>6, WriterHas DEF Midway, GoesWith, Running, Over, Patched
  <2>8. QED
    BY <2>3, <2>4, <2>7, LastWriter
<1>4. QED
  BY <1>1, <1>2, <1>3

LEMMA WriteKeepsBooks ==
    ASSUME HostInv, NEW n \in Names, NEW c \in Made, Writer(c, n), WriteRow(c)
    PROVE  Books(n)'
<1>0. WriterAt(c, n) /\ CallsShaped /\ Tables /\ Moves(c)
  BY WriterHas DEF WriterAt, HostInv, Moves, Registers
<1>1. /\ call[c].pc = "row" /\ key' = key
      /\ \/ Fails(c) /\ UNCHANGED <<row, raced, meant>>
         \/ /\ row' = [row EXCEPT ![n] = call[c].row]
            /\ Goes(c, ThenKey(c), {"pc", "did"}) /\ call'[c].did = {"row"}
            /\ meant' = [meant EXCEPT ![n] = Patched(c, meant[n])]
  BY <1>0, WriterHas, WriteRowDoes DEF Means
<1>2. SUFFICES ASSUME ~Tainted(n)' PROVE Books(n)'
  BY DEF Books
<1>3. Running(c) /\ ~Tainted(n) /\ Ask[c].verb = "update"
  BY <1>0, <1>1, <1>2, TaintStays, WriterHas, WriterStages DEF Running, Over
<1>4. Midway(c, n) /\ \A d \in Made \ {c} : Writer(d, n) => ~Running(d)
  BY <1>3, GoesOnAlone
<1>5. /\ row[n] = meant[n] /\ row[n].exists /\ key[n] # NoKey /\ call[c].row = Patched(c, row[n])
      /\ key[n] \in Keys /\ LeadsTo(row[n].routes, key[n])
  BY <1>1, <1>3, <1>4 DEF Midway, GoesWith
<1>6. CASE Fails(c) /\ UNCHANGED <<row, raced, meant>>
  <2>1. Alone(c) /\ call'[c].pc = "failed"
    BY <1>6 DEF Fails, Goes
  <2>2. Agrees(n)' /\ ~Running(c)'
    BY <1>1, <1>5, <1>6, <2>1 DEF Agrees, GoesWith, Running, Over
  <2>3. QED
    BY <1>4, <2>1, <2>2, LastWriter
<1>7. CASE /\ row' = [row EXCEPT ![n] = call[c].row]
           /\ Goes(c, ThenKey(c), {"pc", "did"}) /\ call'[c].did = {"row"}
           /\ meant' = [meant EXCEPT ![n] = Patched(c, meant[n])]
  <2> DEFINE new == Patched(c, row[n])
  <2>1. Alone(c) /\ call'[c].pc = ThenKey(c)
    BY <1>7 DEF Goes
  <2>2. row'[n] = new /\ meant'[n] = new
    BY <1>5, <1>7, WriterHas
  <2>3. new.exists /\ new.routes = IF Ask[c].routes # << >> THEN Ask[c].routes ELSE row[n].routes
    BY <1>3, <1>5, WriterHas, PatchedIsRow DEF Writer
  <2> HIDE DEF new
  <2>4. CASE Ask[c].key = NoKey
    <3>1. call'[c].pc = "done"
      BY <2>1, <2>4 DEF ThenKey
    <3>2. LeadsTo(new.routes, key[n])
      BY <1>3, <1>5, <2>3, <2>4, WriterHas, AskedGoes
    <3>3. Agrees(n)' /\ ~Running(c)'
      BY <1>1, <1>5, <2>2, <2>3, <3>1, <3>2 DEF Agrees, GoesWith, Running, Over
    <3>4. QED
      BY <1>4, <2>1, <3>3, LastWriter
  <2>5. CASE Ask[c].key # NoKey
    <3>1. call'[c].pc = "key" /\ Ask[c].key \in Keys
      BY <2>1, <2>5, WriterHas DEF ThenKey
    <3>3. LeadsTo(new.routes, Ask[c].key)
      <4>1. CASE Ask[c].routes # << >>
        BY <1>3, <2>3, <3>1, <4>1, WriterHas, AskedGoes
      <4>2. CASE Ask[c].routes = << >>
        <5>1. HomeOf[key[n]] = HomeOf[Ask[c].key] /\ new.routes = row[n].routes
          BY <1>3, <1>5, <2>3, <3>1, <4>2, WriterHas, AskedGoes
        <5>2. QED
          BY <1>5, <3>1, <5>1, LeadsToHome
      <4>3. QED
        BY <4>1, <4>2
    <3>4. Midway(c, n)' /\ Running(c)'
      BY <1>1, <1>3, <1>5, <1>7, <2>2, <2>3, <3>1, <3>3 DEF Midway, Running, Over
    <3>5. QED
      BY <1>4, <2>1, <3>4, LastWriter
  <2>6. QED
    BY <2>4, <2>5
<1>8. QED
  BY <1>1, <1>6, <1>7

(* The books after any step.                                                *)
LEMMA BooksKept ==
    ASSUME HostInv, Next, NEW n \in Names
    PROVE  Books(n)'
<1>0. CallsShaped /\ Tables /\ Machines /\ Books(n)
  BY DEF HostInv
<1>1. CASE Others
  <2>1. /\ UNCHANGED <<row, key, call, meant>> /\ \A d \in Made : raced[d] \subseteq raced'[d]
    BY <1>0, <1>1, OthersDo DEF Undisturbed, Told
  <2>2. Made' = Made /\ (Tainted(n) => Tainted(n)')
    BY <2>1 DEF Made, Tainted, Writer, HalfDone
  <2>3. QED
    BY <1>0, <2>1, <2>2, QuietKeeps
<1>2. ASSUME NEW c \in Made, Moves(c)
      PROVE  Books(n)'
  <2>1. CASE Writer(c, n)
    <3>1. Registers(c)
      BY <1>2, <2>1, RegisteringMoves DEF Writer
    <3>2. QED
      BY <2>1, <3>1, InsertKeepsBooks, SetKeyKeepsBooks, UndoKeepsBooks, ReadKeepsBooks, WriteKeepsBooks,
         RemoveKeepsBooks DEF Registers
  <2>2. CASE ~Writer(c, n)
    <3>1. row'[n] = row[n] /\ key'[n] = key[n] /\ meant'[n] = meant[n]
      <4>1. CASE Writing(c)
        BY <1>0, <2>2, <4>1, WritersAre, WritingDoes DEF Writer
      <4>2. CASE ~Writing(c)
        BY <1>2, <4>2, MovesSplit, OtherMovesKeepNames
      <4>3. QED
        BY <4>1, <4>2
    <3>2. Made' = Made /\ \A d \in Made : Writer(d, n) => call'[d] = call[d]
      BY <1>2, <2>2, MovesFrame DEF Alone
    <3>3. QED
      BY <1>0, <1>2, <3>1, <3>2, TaintStays, QuietKeeps
  <2>3. QED
    BY <2>1, <2>2
<1>3. QED
  BY <1>1, <1>2, NextSplits

LEMMA HostInvKept ==
    ASSUME HostInv, Next
    PROVE  HostInv'
<1>1. CallsShaped' /\ Machines' /\ Tables' /\ (\E s \in Scenarios : InScene(s)) ' /\ Made' = Made
  BY TablesKept
<1>2. \A n \in Names : Books(n)'
  BY BooksKept
<1>3. \A c \in Made : Located(c)' /\ Reads(c)' /\ Probed(c)'
  <2>1. CASE Others
    <3>1. \A d \in Made : Undisturbed(d)
      BY <2>1, OthersDo DEF HostInv
    <3>2. QED
      BY <3>1, UndisturbedStays
  <2>2. ASSUME NEW c \in Made, Moves(c)
        PROVE  \A d \in Made : Located(d)' /\ Reads(d)' /\ Probed(d)'
    <3>1. \A d \in Made \ {c} : Undisturbed(d)
      BY <2>2, MovesFrame
    <3>2. QED
      BY <2>2, <3>1, UndisturbedStays, MovesLocated, MovesRead, MovesProbe
  <2>3. QED
    BY <2>1, <2>2, NextSplits
<1>4. QED
  BY <1>1, <1>2, <1>3 DEF HostInv

LEMMA HostInvStarts ==
    ASSUME Init
    PROVE  HostInv
<1>1. PICK s \in Scenarios : /\ row = s.row /\ key = s.key /\ host \in s.host /\ stack \in s.stack
                             /\ up = s.up /\ call = [c \in s.calls |-> Idle]
  BY DEF Init
<1>2. meant = row /\ raced = [c \in Made |-> {}] /\ Made = s.calls
  BY <1>1 DEF Init, Made
<1>3. \A c \in Made : call[c] = Idle /\ raced[c] = {}
  BY <1>1, <1>2
<1>4. CallsShaped
  <2>1. Idle = [f \in Fields |-> Idle[f]]
    BY DEF Idle, Fields
  <2>2. QED
    BY <1>1, <1>2, <1>3, <2>1 DEF CallsShaped
<1>5. Machines
  BY <1>1, ScenariosAssumption DEF Machines
<1>6. NoRow \in Rows /\ ~NoRow.exists /\ Here \in Hosts
  BY ConstantsAssumption DEF NoRow, Rows
<1>7. \A n \in Names : IF row[n].exists THEN key[n] \in Keys /\ LeadsTo(row[n].routes, key[n])
                       ELSE row[n] = NoRow /\ key[n] = NoKey
  BY <1>1, ScenariosAssumption
<1>8. Tables
  BY <1>1, <1>2, <1>7, ScenariosAssumption DEF Tables
<1>9. InScene(s)
  BY <1>1, <1>2, <1>7 DEF InScene, KeysFor
<1>10. \A n \in Names : Books(n)
  BY <1>2, <1>3, <1>7, ConstantsAssumption DEF Books, Agrees, GoesWith, Running, Idle
<1>11. \A c \in Made : Located(c) /\ Reads(c) /\ Probed(c)
  <2>1. ASSUME NEW c \in Made
        PROVE  call[c] = Idle /\ raced[c] = {} /\ call[c].pc = "idle" /\ call[c].row = NoRow /\ call[c].url = Here
    <3>1. call[c] = Idle /\ raced[c] = {}
      BY <1>3
    <3>2. Idle.pc = "idle" /\ Idle.row = NoRow /\ Idle.url = Here
      BY DEF Idle
    <3>3. QED
      BY <3>1, <3>2
  <2>2. ASSUME NEW c \in Made PROVE Located(c)
    <3>1. call[c] = Idle /\ raced[c] = {} /\ call[c].pc = "idle"
      BY <2>1
    <3>2. call[c].row \in Rows /\ call[c].url \in Hosts
      BY <1>6, <2>1
    <3>3. call[c].pc \notin {"apikey", "route", "row", "key", "unkey"} \cup Connected
      BY <3>1 DEF Connected, Requests
    <3>4. QED
      BY <3>1, <3>2, <3>3 DEF Located
  <2>3. \A c \in Made : Reads(c)
    BY <2>1 DEF Reads, Connected, Requests
  <2>4. \A c \in Made : Probed(c)
    BY <2>1 DEF Probed, Running
  <2>5. QED
    BY <2>2, <2>3, <2>4
<1>12. QED
  BY <1>4, <1>5, <1>8, <1>9, <1>10, <1>11 DEF HostInv

LEMMA HostInvStutters ==
    ASSUME HostInv, UNCHANGED vars
    PROVE  HostInv'
<1>1. /\ row' = row /\ key' = key /\ host' = host /\ stack' = stack /\ up' = up /\ call' = call
      /\ meant' = meant /\ raced' = raced /\ Made' = Made
  BY DEF vars, registry, world, Made
<1>2. CallsShaped' /\ Machines' /\ Tables' /\ (\E s \in Scenarios : InScene(s)) '
  BY <1>1 DEF HostInv, CallsShaped, Machines, Tables, InScene
<1>3. \A n \in Names : Books(n)'
  <2>1. ASSUME NEW n \in Names PROVE Tainted(n) => Tainted(n)'
    BY <1>1 DEF Tainted, Writer, HalfDone
  <2>2. QED
    BY <1>1, <2>1, QuietKeeps DEF HostInv
<1>4. \A c \in Made : Undisturbed(c)
  BY <1>1 DEF Undisturbed, Told, HostStands, NameStands, StackStands
<1>5. QED
  BY <1>1, <1>2, <1>3, <1>4, UndisturbedStays DEF HostInv

(* The registry, the calls that write it and what the others read and found *)
(* out stand to one another as the first invariant says, at any time.       *)
THEOREM HostInvHolds == Spec => []HostInv
<1>1. Init => HostInv
  BY HostInvStarts
<1>2. HostInv /\ [Next]_vars => HostInv'
  BY HostInvKept, HostInvStutters
<1>3. QED
  BY <1>1, <1>2, PTL DEF Spec

-----------------------------------------------------------------------------
(* unraid.create, update and delete (endpoint.rs, tools.rs): each writes a   *)
(* row and a key in two steps, and any number of them may run.              *)
(* Where those of a name did not overlap and none failed with its row       *)
(* written, the row is what the last of them asked for and has a key; a key *)
(* without a row is one that a failed create had stored.                    *)
THEOREM RegistryStaysWhole == Spec => []RegistryAgrees
<1>1. HostInv => RegistryAgrees
  BY QuietNamesAgree DEF RegistryAgrees, Settled, Agrees
<1>2. QED
  BY <1>1, HostInvHolds, PTL

(* surface_client picks a row, reads its key and resolves a route, each at a *)
(* time of its own.  Whatever hosts go down and whatever is written to other*)
(* names meanwhile, the key in a request is one that the host it is sent to *)
(* minted, if the endpoint was not being written while the call read it.    *)
THEOREM KeysStayHome == Spec => []KeyGoesHome
<1>1. HostInv => TypeOK
  <2>1. SUFFICES ASSUME HostInv PROVE TypeOK
    OBVIOUS
  <2>2. /\ key \in [Names -> Keys \cup {NoKey}] /\ up \subseteq Hosts
        /\ row \in [Names -> Rows] /\ meant \in [Names -> Rows]
        /\ \A n \in Names : ~row[n].exists => row[n] = NoRow
    BY <2>1 DEF HostInv, Tables
  <2>3. \A n \in Names : row[n].exists \in BOOLEAN /\ meant[n].exists \in BOOLEAN
    BY <2>2 DEF Rows
  <2>4. ASSUME NEW c \in Made
        PROVE  /\ call[c].pc \in Requests => call[c].id \in Names /\ call[c].key \in Keys
               /\ call[c].url \in Hosts
               /\ call[c].pc = "partial" => Ask[c].verb = "host.settings.set"
    <3>1. Located(c)
      BY <2>1, <2>4 DEF HostInv
    <3>2. call[c].pc = "partial" => Ask[c].verb = "host.settings.set"
      BY <3>1 DEF Located, Stages
    <3>3. QED
      BY <3>1, <3>2 DEF Located, Connected
  <2>5. QED
    BY <2>2, <2>3, <2>4 DEF TypeOK
<1>2. HostInv => KeyGoesHome
  <2>1. ASSUME HostInv, NEW c \in Made, call[c].pc \in Requests, <<"row", call[c].id>> \notin raced[c]
        PROVE  call[c].url = HomeOf[call[c].key]
    <3>1. Located(c) /\ Reads(c)
      BY <2>1 DEF HostInv
    <3>2. Ask[c].verb \notin Registry
      BY <2>1, <3>1 DEF Located, Stages, Registry, Requests
    <3>3. QED
      BY <2>1, <3>1, <3>2 DEF Reads, Connected
  <2>2. QED
    BY <1>1, <2>1 DEF KeyGoesHome
<1>3. QED
  BY <1>2, HostInvHolds, PTL

(* unraid.vm.availability and the check before unraid.vm.autostart: VMs are *)
(* called available for the machine that was asked about, from its VM       *)
(* manager, or where that is this machine from libvirtd, which were up when *)
(* they were looked at.                                                     *)
THEOREM AvailabilityIsTheMachines == Spec => AvailableIsAsked
<1>1. ASSUME HostInv, [Next]_vars, NEW c \in Made, call[c].pc = "assess",
             (call'[c].pc = "done" /\ call'[c].answer = "available") \/ call'[c].pc = "plan"
      PROVE  \/ /\ call[c].id # NoName
                /\ host[call[c].url].manager = "enabled" \/ <<"manager", call[c].url>> \in raced[c]
             \/ /\ Ask[c].name = NoName /\ call[c].url = Here
                /\ stack.daemon # 0 \/ <<"stack", Here>> \in raced[c]
  <2>0. CallsShaped /\ Tables /\ Machines /\ Located(c) /\ Probed(c)
    BY <1>1 DEF HostInv
  <2>1. Moves(c)
    <3>1. call'[c] # call[c]
      BY <1>1
    <3>2. Next
      BY <1>1, <3>1 DEF vars
    <3>3. ~Others
      BY <2>0, <3>1, OthersDo
    <3>4. PICK d \in Made : Moves(d)
      BY <3>2, <3>3, NextSplits
    <3>5. d = c
      BY <1>1, <3>1, <3>4, MovesFrame DEF Undisturbed
    <3>6. QED
      BY <3>4, <3>5
  <2>2. Ask[c].verb \in {"vm.availability", "vm.autostart"}
    BY <1>1, <2>0, ConstantsAssumption
       DEF Located, Stages, Tables, Registry, Remote, Admins, Capability
  <2>3. Verdict(c) = "available"
    <3>1. Assess(c) \/ RequireVms(c)
      BY <1>1, <2>0, <2>1, <2>2, ProbingMoves, AskManagerDoes, ProbeMountDoes, ProbePidDoes,
         ProbeCommDoes, PlanDoes, SetAutostartDoes
    <3>2. CASE Assess(c)
      BY <1>1, <2>0, <3>2, AssessDoes DEF Goes
    <3>3. CASE RequireVms(c)
      BY <1>1, <2>0, <3>3, RequireVmsDoes DEF Goes, Fails
    <3>4. QED
      BY <3>1, <3>2, <3>3
  <2>4. call[c].answer = "running" \/ call[c].manager = "enabled"
    BY <2>3 DEF Verdict
  <2>5. Running(c)
    BY <1>1 DEF Running, Over
  <2>6. QED
    BY <2>0, <2>2, <2>4, <2>5, ConstantsAssumption DEF Probed, ThisMachine
<1>2. HostInv /\ [Next]_vars =>
        [\A c \in Made :
           /\ call[c].pc = "assess"
           /\ \/ call'[c].pc = "done" /\ call'[c].answer = "available"
              \/ call'[c].pc = "plan"
           => \/ /\ call[c].id # NoName
                 /\ \/ host[call[c].url].manager = "enabled"
                    \/ <<"manager", call[c].url>> \in raced[c]
              \/ /\ Ask[c].name = NoName /\ call[c].url = Here
                 /\ stack.daemon # 0 \/ <<"stack", Here>> \in raced[c]]_vars
  BY <1>1
<1>3. QED
  BY <1>2, HostInvHolds, PTL DEF Spec, AvailableIsAsked

-----------------------------------------------------------------------------
(* What the verbs do.  The second invariant, for a call that does not move: *)
(* what it picked and prepared stands, but for what others noted.           *)
LEMMA NamesStay ==
    ASSUME NEW new, NEW old, \A v \in Vms : new[v].name = old[v].name, NEW vm
    PROVE  Named(new, vm) = Named(old, vm)
<1>1. NamedAny(new, vm) = NamedAny(old, vm)
  BY DEF NamedAny
<1>2. QED
  BY <1>1 DEF Named

LEMMA DeedsStay ==
    ASSUME HostInv, NEW c \in Made, Deeds(c), Undisturbed(c)
    PROVE  Deeds(c)'
<1>1. call'[c] = call[c] /\ raced[c] \subseteq raced'[c] /\ Located(c)
  BY DEF Undisturbed, Told, HostInv
<1>2. Permitted(c)' /\ Clean(c)'
  BY <1>1 DEF Deeds, Permitted, Clean, Running
<1>3. Chosen(c)'
  <2>1. ASSUME call[c].pc = "power"
        PROVE  call[c].answer \in Named(host'[call[c].url].vms, Ask[c].vm)
    <3>1. HostStands(c, call[c].url)
      BY <1>1, <2>1 DEF Undisturbed, Running, Over, Located
    <3> DEFINE new == host'[call[c].url].vms
               old == host[call[c].url].vms
    <3>2. \A v \in Vms : new[v].name = old[v].name
      BY <3>1 DEF HostStands
    <3> HIDE DEF new, old
    <3>3. Named(new, Ask[c].vm) = Named(old, Ask[c].vm)
      BY <3>2, NamesStay
    <3>4. QED
      BY <2>1, <3>3 DEF Deeds, Chosen, new, old
  <2>2. ASSUME Ask[c].verb = "ups.config_set", Running(c)
        PROVE  row'[call[c].id].enabled \/ <<"row", call[c].id>> \in raced'[c]
    <3>0. call[c].pc \in {"apikey", "route", "ups"}
      BY <1>1, <2>2 DEF Located, Stages, Running, Over
    <3>1. call[c].id \in Names
      BY <1>1, <3>0 DEF Located, Connected, Requests
    <3>2. NameStands(c, call[c].id)
      BY <2>2, <3>1 DEF Undisturbed
    <3>3. QED
      BY <1>1, <2>2, <3>2 DEF NameStands, Deeds, Chosen
  <2>3. QED
    BY <1>1, <2>1, <2>2 DEF Chosen, Running
<1>4. ASSUME Ask[c].verb = "host.settings.set" PROVE Prepared(c)'
  <2>1. CASE ~Running(c)
    <3>1. call[c].pc \in Over \cup {"idle"}
      BY <2>1 DEF Running
    <3>2. QED
      BY <1>1, <3>1 DEF Prepared, Over
  <2>2. CASE Running(c)
    <3>1. HostStands(c, call[c].url)
      BY <1>1, <2>2 DEF Undisturbed, Located
    <3>2. Prepared(c)
      BY <1>4 DEF Deeds
    <3>3. QED
      BY <1>1, <3>1, <3>2 DEF Prepared, HostStands, FilledIn
  <2>3. QED
    BY <2>1, <2>2
<1>5. QED
  BY <1>2, <1>3, <1>4 DEF Deeds

(* For the call that moves: who may do what.                                *)
LEMMA MovesPermitted ==
    ASSUME HostInv, NEW c \in Made, Deeds(c), Moves(c)
    PROVE  Permitted(c)'
<1>0. /\ CallsShaped /\ Tables /\ Machines /\ Located(c) /\ Permitted(c) /\ call[c].url \in Hosts
      /\ Ask[c].verb \in Registry => Ask[c].verb \notin Admins
  BY DEF HostInv, Deeds, Located, Registry, Admins
<1> DEFINE Doing == {"power", "parity", "ident", "time", "root", "set"}
           To(pc) == /\ call'[c].pc = pc
                     /\ pc # "failed" /\ Ask[c].verb \in Admins => Admitted(c)
                     /\ pc \in Doing => Ask[c].execute
                     /\ Ask[c].verb = "parity.control" /\ pc \in {"apikey", "route"} => Ask[c].execute
<1>1. ASSUME NEW pc, To(pc) PROVE Permitted(c)'
  BY <1>1 DEF Permitted, Admitted, IsAdmin, Sections
<1>2. ASSUME NEW F, Goes(c, "failed", F) PROVE Permitted(c)'
  BY <1>1, <1>2 DEF Goes
<1>3. call[c].pc \notin {"idle", "failed"} /\ Ask[c].verb \in Admins => Admitted(c)
  BY <1>0 DEF Permitted
<1>4. CASE Refuse(c)
  BY <1>0, <1>2, <1>4, RefuseDoes DEF Fails
<1>5. CASE PickRow(c)
  BY <1>0, <1>1, <1>2, <1>5, PickRowDoes DEF Fails, Goes
<1>6. CASE PickEnabled(c)
  <2>1. Ask[c].verb = "ups.config_set" /\ Ask[c].verb \notin Admins
    BY <1>0, <1>6, PickEnabledDoes DEF Admins
  <2>2. QED
    BY <1>0, <1>1, <1>2, <1>6, <2>1, PickEnabledDoes DEF Fails, Goes
<1>7. CASE ReadRow(c) \/ Writing(c)
  <2>1. Ask[c].verb \in Registry
    BY <1>0, <1>7, WritersAre, ReadRowDoes DEF Registry
  <2>2. call'[c].pc \notin Doing
    <3>1. Located(c)'
      BY MovesLocated
    <3>2. QED
      BY <2>1, <3>1 DEF Located, Stages, Registry
  <2>3. QED
    BY <1>0, <1>1, <2>1, <2>2 DEF Registry
<1>8. CASE ReadKey(c)
  BY <1>0, <1>1, <1>2, <1>3, <1>8, ReadKeyDoes DEF Fails, Goes, Permitted
<1>9. CASE Resolve(c)
  <2>1. call[c].pc = "route" /\ (Fails(c) \/ Goes(c, FirstRequest(c), {"pc", "url"}))
    BY <1>0, <1>9, ResolveDoes
  <2>2. Ask[c].verb = "parity.control" => Ask[c].execute
    BY <1>0, <2>1 DEF Permitted
  <2>3. FirstRequest(c) \in Doing \cup {"apikey", "route"} => FirstRequest(c) = "parity" /\ Ask[c].verb = "parity.control"
    BY DEF FirstRequest
  <2>4. QED
    BY <1>1, <1>2, <1>3, <2>1, <2>2, <2>3 DEF Fails, Goes
<1>10. CASE ListVms(c)
  BY <1>0, <1>1, <1>2, <1>3, <1>10, ListVmsDoes DEF Fails, Goes
<1>11. CASE ReadArray(c)
  BY <1>0, <1>1, <1>2, <1>3, <1>11, ReadArrayDoes DEF Fails, Goes
<1>12. CASE ReadIdentity(c)
  BY <1>0, <1>1, <1>2, <1>3, <1>12, ReadIdentityDoes DEF Fails, Goes
<1>13. CASE ReadTime(c)
  BY <1>0, <1>1, <1>2, <1>3, <1>13, ReadTimeDoes DEF Fails, Goes
<1>14. CASE Decide(c)
  BY <1>0, <1>1, <1>2, <1>3, <1>14, DecideDoes DEF Fails, Goes
<1>15. CASE Probes(c)
  <2>1. CASE LocalView(c)
    BY <1>0, <1>1, <2>1, LocalViewDoes DEF Goes, Admins
  <2>2. CASE AskFlags(c) \/ AskManager(c)
    BY <1>0, <1>1, <1>2, <1>3, <2>2, AskFlagsDoes, AskManagerDoes DEF Fails, Goes
  <2>3. CASE ProbeMount(c) \/ ProbePid(c) \/ ProbeComm(c)
    BY <1>0, <1>1, <1>3, <2>3, ProbeMountDoes, ProbePidDoes, ProbeCommDoes DEF Goes
  <2>4. CASE Assess(c)
    BY <1>0, <1>1, <1>3, <2>4, AssessDoes DEF Goes
  <2>5. QED
    BY <1>15, <2>1, <2>2, <2>3, <2>4 DEF Probes
<1>16. CASE RequireVms(c)
  BY <1>0, <1>1, <1>2, <1>3, <1>16, RequireVmsDoes DEF Fails, Goes, Admitted
<1>17. CASE PlanAutostart(c) \/ PlanAsRoot(c)
  <2>1. call[c].pc = "root" => Ask[c].execute
    BY <1>0 DEF Permitted
  <2>2. QED
    BY <1>0, <1>1, <1>2, <1>3, <1>17, <2>1, PlanDoes DEF Fails, Goes
<1>18. CASE SetAutostart(c)
  BY <1>0, <1>1, <1>2, <1>3, <1>18, SetAutostartDoes DEF Fails, Goes
<1>19. CASE Mutating(c)
  <2>1. CASE PowerVm(c)
    BY <1>0, <1>1, <1>2, <1>3, <2>1, MutationsAre DEF Mutated, Effected, Goes
  <2>2. CASE ControlParity(c)
    BY <1>0, <1>1, <1>2, <1>3, <2>2, MutationsAre DEF Mutated, Effected, Goes
  <2>3. CASE ConfigureUps(c)
    BY <1>0, <1>1, <1>2, <1>3, <2>3, MutationsAre DEF Mutated, Effected, Goes
  <2>4. CASE SetIdentity(c)
    <3>1. Ask[c].execute
      BY <1>0, <2>4, MutationsAre DEF Permitted
    <3>2. QED
      BY <1>0, <1>1, <1>2, <1>3, <2>4, <3>1, MutationsAre DEF Mutated, Effected, Goes, AfterIdentity
  <2>5. CASE SetTime(c)
    BY <1>0, <1>1, <1>2, <1>3, <2>5, MutationsAre DEF Mutated, Effected, Goes, PartialApply
  <2>6. QED
    BY <1>19, <2>1, <2>2, <2>3, <2>4, <2>5 DEF Mutating
<1>20. CASE Looking(c)
  BY <1>4, <1>8, <1>9, <1>10, <1>11, <1>12, <1>13, <1>14, <1>15, <1>16, <1>17, <1>20 DEF Looking
<1>21. CASE Beginning(c)
  BY <1>5, <1>6, <1>7, <1>21 DEF Beginning
<1>22. QED
  BY <1>7, <1>18, <1>19, <1>20, <1>21, MovesSplit

(* The steps of each verb.                                                  *)
LEMMA VerbMoves ==
    ASSUME HostInv, NEW c \in Made, Moves(c)
    PROVE  /\ Ask[c].verb = "vm.power" =>
                Refuse(c) \/ PickRow(c) \/ ReadKey(c) \/ Resolve(c) \/ ListVms(c) \/ PowerVm(c)
           /\ Ask[c].verb = "parity.control" =>
                Refuse(c) \/ PickRow(c) \/ ReadKey(c) \/ Resolve(c) \/ ControlParity(c)
           /\ Ask[c].verb = "ups.config_set" =>
                PickEnabled(c) \/ ReadKey(c) \/ Resolve(c) \/ ConfigureUps(c)
           /\ Ask[c].verb = "host.settings.set" =>
                \/ Refuse(c) \/ PickRow(c) \/ ReadKey(c) \/ Resolve(c) \/ ReadArray(c) \/ ReadIdentity(c)
                \/ ReadTime(c) \/ Decide(c) \/ SetIdentity(c) \/ SetTime(c)
<1>1. SUFFICES ASSUME Ask[c].verb \in {"vm.power", "parity.control", "ups.config_set", "host.settings.set"}
               PROVE  /\ Ask[c].verb = "vm.power" =>
                           Refuse(c) \/ PickRow(c) \/ ReadKey(c) \/ Resolve(c) \/ ListVms(c) \/ PowerVm(c)
                      /\ Ask[c].verb = "parity.control" =>
                           Refuse(c) \/ PickRow(c) \/ ReadKey(c) \/ Resolve(c) \/ ControlParity(c)
                      /\ Ask[c].verb = "ups.config_set" =>
                           PickEnabled(c) \/ ReadKey(c) \/ Resolve(c) \/ ConfigureUps(c)
                      /\ Ask[c].verb = "host.settings.set" =>
                           \/ Refuse(c) \/ PickRow(c) \/ ReadKey(c) \/ Resolve(c) \/ ReadArray(c)
                           \/ ReadIdentity(c) \/ ReadTime(c) \/ Decide(c) \/ SetIdentity(c) \/ SetTime(c)
  OBVIOUS
<1>2. call[c].pc \in Stages(Ask[c].verb) \cup {"idle", "done", "failed"}
  BY DEF HostInv, Located
<1>3. ~Registers(c)
  BY <1>1, <1>2 DEF Registers, InsertRow, SetKey, UndoRow, ReadRow, WriteRow, RemoveRow, RemoveKey, Starts, Stages
<1>4. ~Probes(c)
  BY <1>1, <1>2 DEF Probes, LocalView, AskFlags, AskManager, ProbeMount, ProbePid, ProbeComm, Assess,
     Starts, Stages
<1>5. ~Autostarts(c)
  BY <1>1, <1>2 DEF Autostarts, RequireVms, PlanAutostart, PlanAsRoot, SetAutostart, Starts, Stages
<1>6. CASE Refuse(c) \/ Connects(c)
  <2>1. ~(Ask[c].verb = "ups.config_set" /\ (Refuse(c) \/ PickRow(c)))
    BY DEF Refuse, PickRow, Starts, Admins, Remote
  <2>2. QED
    BY <1>1, <1>6, <2>1 DEF Connects
<1>7. CASE Manages(c)
  BY <1>1, <1>2, <1>7 DEF Manages, ListVms, PowerVm, ControlParity, PickEnabled, ConfigureUps, Starts,
     Capability, Stages
<1>8. CASE Settles(c)
  BY <1>1, <1>2, <1>8 DEF Settles, ReadArray, ReadIdentity, ReadTime, Decide, SetIdentity, SetTime, Stages
<1>9. QED
  BY <1>3, <1>4, <1>5, <1>6, <1>7, <1>8 DEF Moves

(* Looking and picking do nothing.                                          *)
LEMMA LooksDoNothing ==
    ASSUME HostInv, NEW c \in Made, Looking(c) \/ PickRow(c) \/ PickEnabled(c)
    PROVE  /\ call'[c].did = call[c].did /\ call'[c].lost = call[c].lost
           /\ call[c].pc # "time" /\ call'[c].pc # "partial"
           /\ call'[c].pc = "time" => "ident" \notin Sections(c)
           /\ host' = host /\ stack' = stack
<1>0. CallsShaped
  BY DEF HostInv
<1> DEFINE Quiet == {{"pc"}, {"pc", "key"}, {"pc", "url"}, {"pc", "stopped"}, {"pc", "ident"}, {"pc", "time"},
                     {"pc", "answer"}, {"pc", "flags"}, {"pc", "manager"}, {"pc", "pid"}, {"pc", "row", "id"}}
           Goal == /\ call'[c].did = call[c].did /\ call'[c].lost = call[c].lost
                   /\ call[c].pc # "time" /\ call'[c].pc # "partial"
                   /\ call'[c].pc = "time" => "ident" \notin Sections(c)
<1>1. host' = host /\ stack' = stack
  BY <1>0, LookingDoes, PickRowDoes, PickEnabledDoes DEF Looks, BeginsAlone, world
<1>2. ASSUME NEW pc, NEW F \in Quiet, Goes(c, pc, F), pc # "partial", pc = "time" => "ident" \notin Sections(c),
             call[c].pc # "time"
      PROVE  Goal
  <2>1. call'[c].pc = pc /\ call'[c].did = call[c].did /\ call'[c].lost = call[c].lost
    BY <1>2 DEF Goes, SameBut, Fields
  <2>2. QED
    BY <1>2, <2>1
<1>3. ASSUME NEW pc, NEW F \in Quiet, Goes(c, pc, F), pc \notin {"partial", "time"}, call[c].pc # "time"
      PROVE  Goal
  BY <1>2, <1>3
<1>3a. SUFFICES Goal
  BY <1>1
<1> HIDE DEF Goal
<1>4. CASE Refuse(c) \/ PickRow(c) \/ PickEnabled(c)
  BY <1>0, <1>3, <1>4, RefuseDoes, PickRowDoes, PickEnabledDoes DEF Fails
<1>5. CASE ReadKey(c)
  BY <1>0, <1>3, <1>5, ReadKeyDoes DEF Fails
<1>6. CASE Resolve(c)
  <2>1. FirstRequest(c) \notin {"partial", "time"}
    BY DEF FirstRequest
  <2>2. QED
    BY <1>0, <1>3, <1>6, <2>1, ResolveDoes DEF Fails
<1>7. CASE ListVms(c)
  BY <1>0, <1>3, <1>7, ListVmsDoes DEF Fails
<1>8. CASE ReadArray(c) \/ ReadTime(c)
  BY <1>0, <1>3, <1>8, ReadArrayDoes, ReadTimeDoes DEF Fails
<1>9. CASE ReadIdentity(c)
  BY <1>0, <1>3, <1>9, ReadIdentityDoes DEF Fails
<1>10. CASE Decide(c)
  BY <1>0, <1>2, <1>10, DecideDoes DEF Fails
<1>11. CASE LocalView(c) \/ AskFlags(c)
  BY <1>0, <1>3, <1>11, LocalViewDoes, AskFlagsDoes DEF Fails
<1>12. CASE AskManager(c)
  BY <1>0, <1>3, <1>12, AskManagerDoes DEF Fails
<1>13. CASE ProbeMount(c) \/ ProbePid(c)
  BY <1>0, <1>3, <1>13, ProbeMountDoes, ProbePidDoes
<1>14. CASE ProbeComm(c) \/ Assess(c)
  BY <1>0, <1>3, <1>14, ProbeCommDoes, AssessDoes
<1>15. CASE RequireVms(c)
  BY <1>0, <1>3, <1>15, RequireVmsDoes DEF Fails
<1>16. CASE PlanAutostart(c) \/ PlanAsRoot(c)
  BY <1>0, <1>3, <1>16, PlanDoes DEF Fails
<1>17. CASE Probes(c)
  BY <1>11, <1>12, <1>13, <1>14, <1>17 DEF Probes
<1>18. CASE Looking(c)
  BY <1>4, <1>5, <1>6, <1>7, <1>8, <1>9, <1>10, <1>15, <1>16, <1>17, <1>18 DEF Looking
<1>19. QED
  BY <1>4, <1>18

(* Only a call that is not over moves.                                      *)
LEMMA MovesRun ==
    ASSUME CallsShaped, NEW c \in Made, Moves(c), call[c].pc # "idle"
    PROVE  Running(c)
<1>1. CASE Refuse(c) \/ Registers(c)
  BY <1>1 DEF Refuse, Starts, Registers, InsertRow, SetKey, UndoRow, ReadRow, WriteRow, RemoveRow,
     RemoveKey, Running, Over
<1>2. CASE Connects(c) \/ Manages(c)
  BY <1>2 DEF Connects, PickRow, ReadKey, Resolve, Starts, Manages, ListVms, PowerVm, ControlParity,
     PickEnabled, ConfigureUps, Running, Over
<1>3. CASE Settles(c)
  BY <1>3 DEF Settles, ReadArray, ReadIdentity, ReadTime, Decide, SetIdentity, SetTime, Running, Over
<1>4. CASE Probes(c)
  BY <1>4 DEF Probes, LocalView, AskFlags, AskManager, ProbeMount, ProbePid, ProbeComm, Assess, Starts,
     Running, Over
<1>5. CASE Autostarts(c)
  BY <1>5 DEF Autostarts, RequireVms, PlanAutostart, PlanAsRoot, SetAutostart, Starts, Running, Over
<1>6. QED
  BY <1>1, <1>2, <1>3, <1>4, <1>5 DEF Moves

LEMMA MovesClean ==
    ASSUME HostInv, NEW c \in Made, Deeds(c), Moves(c)
    PROVE  Clean(c)'
<1>0. CallsShaped /\ Tables /\ Machines /\ Located(c) /\ Clean(c) /\ call[c].url \in Hosts
  BY DEF HostInv, Deeds, Located
<1>1. SUFFICES ASSUME Running(c)', Ask[c].verb \notin Registry
               PROVE  /\ ~call'[c].lost
                      /\ call'[c].did = IF call'[c].pc = "time" /\ "ident" \in Sections(c) THEN {"ident"} ELSE {}
  BY DEF Clean, Sections
<1>2. CASE Looking(c) \/ PickRow(c) \/ PickEnabled(c)
  <2>1. /\ call'[c].did = call[c].did /\ call'[c].lost = call[c].lost
        /\ call[c].pc # "time" /\ (call'[c].pc = "time" => "ident" \notin Sections(c))
    BY <1>2, LooksDoNothing
  <2>2. call[c].did = {} /\ ~call[c].lost
    <3>1. CASE call[c].pc = "idle"
      BY <1>0, <3>1 DEF Located, Idle
    <3>2. CASE call[c].pc # "idle"
      <4>1. Running(c)
        BY <1>0, <1>1, <1>2, <3>2, MovesRun
      <4>2. QED
        BY <1>0, <1>1, <2>1, <4>1 DEF Clean
    <3>3. QED
      BY <3>1, <3>2
  <2>3. QED
    BY <2>1, <2>2
<1>3. CASE Mutating(c) \/ SetAutostart(c)
  <2>1. CASE SetIdentity(c)
    <3>1. call[c].pc = "ident" /\ (\/ Goes(c, "failed", {"pc"}) \/ Goes(c, "failed", {"pc", "did", "lost"})
                                  \/ (/\ Goes(c, AfterIdentity(c), {"pc", "did", "lost"}) /\ call'[c].lost = FALSE
                                      /\ call'[c].did = call[c].did \cup {"ident"}))
      BY <1>0, <2>1, MutationsAre DEF Mutated, Effected
    <3>2. call'[c].pc = "time" /\ call'[c].lost = FALSE /\ call'[c].did = call[c].did \cup {"ident"}
      BY <1>1, <3>1 DEF Running, Over, Goes, AfterIdentity
    <3>3. call[c].did = {}
      BY <1>0, <1>1, <3>1 DEF Clean, Running, Over
    <3>4. "ident" \in Sections(c)
      <4>1. Ask[c].verb = "host.settings.set"
        BY <1>0, <3>1 DEF Located, Stages
      <4>2. QED
        BY <3>1, <4>1 DEF Deeds, Prepared
    <3>5. QED
      BY <3>2, <3>3, <3>4
  <2>2. CASE ~SetIdentity(c)
    <3>1. call'[c].pc \in Over
      <4>1. CASE SetAutostart(c)
        BY <1>0, <4>1, SetAutostartDoes DEF Fails, Goes, Over
      <4>2. CASE Mutating(c)
        BY <1>0, <2>2, <4>2, MutationsAre DEF Mutating, Mutated, Effected, Goes, PartialApply, Over
      <4>3. QED
        BY <1>3, <4>1, <4>2
    <3>2. QED
      BY <1>1, <3>1 DEF Running
  <2>3. QED
    BY <2>1, <2>2
<1>4. CASE ReadRow(c) \/ Writing(c)
  BY <1>0, <1>1, <1>4, WritersAre, ReadRowDoes DEF Registry
<1>5. QED
  BY <1>2, <1>3, <1>4, MovesSplit DEF Beginning

LEMMA MovesChosen ==
    ASSUME HostInv, NEW c \in Made, Deeds(c), Moves(c)
    PROVE  Chosen(c)'
<1>0. CallsShaped /\ Tables /\ Machines /\ Located(c) /\ Chosen(c) /\ call[c].url \in Hosts /\ Located(c)'
  BY MovesLocated DEF HostInv, Deeds, Located
<1>1. ASSUME Ask[c].verb = "vm.power", call'[c].pc = "power"
      PROVE  call'[c].answer \in Named(host'[call'[c].url].vms, Ask[c].vm)
  <2>1. CASE ListVms(c)
    <3>1. /\ Goes(c, "power", {"pc", "answer"}) /\ host' = host
          /\ call'[c].answer \in Named(At(c).vms, Ask[c].vm)
      BY <1>0, <1>1, <2>1, ListVmsDoes DEF Fails, Goes, Looks, world
    <3>2. call'[c].url = call[c].url
      BY <3>1 DEF Goes, SameBut, Fields
    <3>3. QED
      BY <3>1, <3>2 DEF At
  <2>2. CASE PowerVm(c)
    BY <1>0, <1>1, <2>2, MutationsAre DEF Mutated, Effected, Goes
  <2>3. CASE Refuse(c) \/ PickRow(c) \/ ReadKey(c)
    BY <1>0, <1>1, <2>3, RefuseDoes, PickRowDoes, ReadKeyDoes DEF Fails, Goes
  <2>4. CASE Resolve(c)
    BY <1>0, <1>1, <2>4, ResolveDoes DEF Fails, Goes, FirstRequest
  <2>5. QED
    BY <1>1, <2>1, <2>2, <2>3, <2>4, VerbMoves
<1>2. ASSUME Ask[c].verb = "ups.config_set", Running(c)'
      PROVE  row'[call'[c].id].enabled \/ <<"row", call'[c].id>> \in raced'[c]
  <2>1. CASE PickEnabled(c)
    <3>1. /\ row' = row
          /\ \/ Fails(c)
             \/ \E n \in Enabled : call'[c].id = n
      BY <1>0, <2>1, PickEnabledDoes DEF BeginsAlone, registry
    <3>2. ~Fails(c)
      BY <1>2 DEF Fails, Goes, Running, Over
    <3>3. QED
      BY <3>1, <3>2 DEF Enabled
  <2>2. CASE ReadKey(c) \/ Resolve(c)
    <3>1. /\ row' = row /\ raced' = raced /\ Running(c)
          /\ \/ Fails(c) \/ Goes(c, "route", {"pc", "key"})
             \/ Goes(c, FirstRequest(c), {"pc", "url"})
      BY <1>0, <2>2, ReadKeyDoes, ResolveDoes DEF Looks, registry, Running, Over
    <3>2. call'[c].id = call[c].id
      BY <3>1 DEF Fails, Goes, SameBut, Fields
    <3>3. QED
      BY <1>0, <1>2, <3>1, <3>2 DEF Chosen
  <2>3. CASE ConfigureUps(c)
    <3>1. call'[c].pc \in {"done", "failed"}
      BY <1>0, <2>3, MutationsAre DEF Mutated, Effected, Goes
    <3>2. QED
      BY <1>2, <3>1 DEF Running, Over
  <2>4. QED
    BY <1>2, <2>1, <2>2, <2>3, VerbMoves
<1>3. call'[c].pc = "power" => Ask[c].verb = "vm.power"
  BY <1>0 DEF Located, Stages
<1>4. QED
  BY <1>1, <1>2, <1>3 DEF Chosen

(* What it has read and filled in.                                          *)
LEMMA FilledIsIn ==
    ASSUME NEW asked, NEW current, NEW free
    PROVE  FilledIn(Filled(asked, current), asked, current, free)
BY DEF FilledIn, Filled

LEMMA SetsOneField ==
    ASSUME Machines, NEW h \in Hosts, NEW v
    PROVE  /\ host' = [host EXCEPT ![h] = [host[h] EXCEPT !.ident = v]] =>
                host'[h].ident = v /\ host'[h].time = host[h].time
           /\ host' = [host EXCEPT ![h] = [host[h] EXCEPT !.time = v]] =>
                host'[h].time = v /\ host'[h].ident = host[h].ident
<1>1. host[h] = [f \in MachineFields |-> host[h][f]] /\ host = [x \in Hosts |-> host[x]]
  BY DEF Machines, IsMachine
<1>2. QED
  BY <1>1 DEF MachineFields

LEMMA MovesPrepared ==
    ASSUME HostInv, NEW c \in Made, Deeds(c), Moves(c), Ask[c].verb = "host.settings.set"
    PROVE  Prepared(c)'
<1>0. CallsShaped /\ Tables /\ Machines /\ Located(c) /\ Prepared(c) /\ Permitted(c) /\ call[c].url \in Hosts
  BY DEF HostInv, Deeds, Located
<1>1. CASE call'[c].pc \in {"failed", "done", "partial", "apikey", "route"}
  BY <1>1 DEF Prepared
<1>2. call[c].pc \notin {"idle", "failed"} => Sections(c) # {} /\ Sections(c) \subseteq {"ident", "time"}
  BY <1>0 DEF Permitted, Admitted, Admins, Sections
<1>3. CASE Refuse(c) \/ PickRow(c) \/ ReadKey(c)
  BY <1>0, <1>1, <1>3, RefuseDoes, PickRowDoes, ReadKeyDoes DEF Fails, Goes
<1>4. CASE Resolve(c)
  <2>1. Fails(c) \/ call'[c].pc = FirstRequest(c)
    BY <1>0, <1>4, ResolveDoes DEF Goes
  <2>2. Sections(c) # {} /\ Sections(c) \subseteq {"ident", "time"}
    BY <1>0, <1>2, <1>4, ResolveDoes
  <2>3. FirstRequest(c) = IF "ident" \in Sections(c) THEN "array?" ELSE "time?"
    BY DEF FirstRequest
  <2>4. CASE call'[c].pc = "array?" /\ "ident" \in Sections(c)
    BY <2>4 DEF Prepared, Sections
  <2>5. CASE call'[c].pc = "time?" /\ "ident" \notin Sections(c)
    BY <2>2, <2>5 DEF Prepared, Sections
  <2>6. QED
    BY <1>1, <2>1, <2>3, <2>4, <2>5 DEF Fails, Goes
<1>5. CASE ReadArray(c)
  <2>1. CASE Goes(c, "ident?", {"pc", "stopped"}) /\ call'[c].stopped = At(c).stopped
    <3>1. /\ call[c].pc = "array?" /\ host' = host /\ call'[c].pc = "ident?" /\ call'[c].url = call[c].url
      BY <1>0, <1>5, <2>1, ReadArrayDoes DEF Looks, world, Goes, SameBut, Fields
    <3>2. "ident" \in Sections(c)
      BY <1>0, <3>1 DEF Prepared
    <3>3. QED
      BY <2>1, <3>1, <3>2 DEF Prepared, At, Sections
  <2>2. QED
    BY <1>0, <1>1, <1>5, <2>1, ReadArrayDoes DEF Fails, Goes
<1>6. CASE ReadIdentity(c)
  <2>1. CASE /\ Goes(c, IF "time" \in Sections(c) THEN "time?" ELSE "decide", {"pc", "ident"})
             /\ call'[c].ident = Filled(Ask[c].ident, At(c).ident)
    <3>1. /\ call[c].pc = "ident?" /\ host' = host /\ raced' = raced /\ call'[c].url = call[c].url
          /\ call'[c].pc = (IF "time" \in Sections(c) THEN "time?" ELSE "decide")
          /\ call'[c].stopped = call[c].stopped
      BY <1>0, <1>6, <2>1, ReadIdentityDoes DEF Looks, world, Goes, SameBut, Fields
    <3>2. /\ "ident" \in Sections(c)
          /\ <<"array", call[c].url>> \notin raced[c] => call[c].stopped = host[call[c].url].stopped
      BY <1>0, <3>1 DEF Prepared
    <3>3. \A free : FilledIn(call'[c].ident, Ask[c].ident, host[call[c].url].ident, free)
      BY <2>1, FilledIsIn DEF At
    <3>4. QED
      BY <3>1, <3>2, <3>3 DEF Prepared, Sections
  <2>2. QED
    BY <1>0, <1>1, <1>6, <2>1, ReadIdentityDoes DEF Fails, Goes
<1>7. CASE ReadTime(c)
  <2>1. CASE Goes(c, "decide", {"pc", "time"}) /\ call'[c].time = Filled(Ask[c].time, At(c).time)
    <3>1. /\ call[c].pc = "time?" /\ host' = host /\ raced' = raced /\ call'[c].url = call[c].url
          /\ call'[c].pc = "decide" /\ call'[c].stopped = call[c].stopped /\ call'[c].ident = call[c].ident
      BY <1>0, <1>7, <2>1, ReadTimeDoes DEF Looks, world, Goes, SameBut, Fields
    <3>2. "ident" \in Sections(c) =>
            /\ <<"array", call[c].url>> \notin raced[c] => call[c].stopped = host[call[c].url].stopped
            /\ FilledIn(call[c].ident, Ask[c].ident, host[call[c].url].ident,
                        <<"ident", call[c].url>> \notin raced[c])
      BY <1>0, <3>1 DEF Prepared
    <3>3. \A free : FilledIn(call'[c].time, Ask[c].time, host[call[c].url].time, free)
      BY <2>1, FilledIsIn DEF At
    <3>4. QED
      BY <3>1, <3>2, <3>3 DEF Prepared, Sections
  <2>2. QED
    BY <1>0, <1>1, <1>7, <2>1, ReadTimeDoes DEF Fails, Goes
<1>8. CASE Decide(c)
  <2>1. CASE /\ Ask[c].execute /\ IdentityAllowed(c)
             /\ Goes(c, IF "ident" \in Sections(c) THEN "ident" ELSE "time", {"pc"})
    <3>1. /\ call[c].pc = "decide" /\ host' = host /\ raced' = raced /\ call'[c].url = call[c].url
          /\ call'[c].pc = (IF "ident" \in Sections(c) THEN "ident" ELSE "time")
          /\ call'[c].stopped = call[c].stopped /\ call'[c].ident = call[c].ident
          /\ call'[c].time = call[c].time
      BY <1>0, <1>8, <2>1, DecideDoes DEF Looks, world, Goes, SameBut, Fields
    <3>2. /\ "ident" \in Sections(c) =>
               /\ <<"array", call[c].url>> \notin raced[c] => call[c].stopped = host[call[c].url].stopped
               /\ FilledIn(call[c].ident, Ask[c].ident, host[call[c].url].ident,
                           <<"ident", call[c].url>> \notin raced[c])
          /\ "time" \in Sections(c) =>
               FilledIn(call[c].time, Ask[c].time, host[call[c].url].time,
                        <<"time", call[c].url>> \notin raced[c])
      BY <1>0, <3>1 DEF Prepared
    <3>3. Sections(c) # {} /\ Sections(c) \subseteq {"ident", "time"}
      BY <1>2, <3>1
    <3>4. CASE "ident" \in Sections(c)
      <4>1. call[c].stopped /\ call'[c].pc = "ident"
        BY <2>1, <3>1, <3>4 DEF IdentityAllowed
      <4>2. QED
        BY <3>1, <3>2, <3>4, <4>1 DEF Prepared, Sections
    <3>5. CASE "ident" \notin Sections(c)
      <4>1. call'[c].pc = "time" /\ "time" \in Sections(c)
        BY <3>1, <3>3, <3>5
      <4>2. QED
        BY <3>1, <3>2, <3>5, <4>1 DEF Prepared, Sections
    <3>6. QED
      BY <3>4, <3>5
  <2>2. QED
    BY <1>0, <1>1, <1>8, <2>1, DecideDoes DEF Fails, Goes
<1>9. CASE SetIdentity(c)
  <2>1. CASE "time" \in Sections(c) /\ call'[c].pc = "time"
    <3>1. /\ call[c].pc = "ident"
          /\ Effected(c, [At(c) EXCEPT !.ident = call[c].ident], "ident", AfterIdentity(c), "failed")
          /\ Goes(c, "time", {"pc", "did", "lost"})
      BY <1>0, <1>9, <2>1, MutationsAre DEF Mutated, Effected, Goes, AfterIdentity
    <3>2. /\ call'[c].url = call[c].url /\ call'[c].ident = call[c].ident /\ call'[c].time = call[c].time
      BY <3>1 DEF Goes, SameBut, Fields
    <3>3. /\ host'[call[c].url].ident = call[c].ident
          /\ host'[call[c].url].time = host[call[c].url].time
      BY <1>0, <3>1, SetsOneField DEF Effected, At
    <3>4. raced[c] \subseteq raced'[c]
      BY <3>1, WritesDoes DEF Effected, Told
    <3>5. /\ "ident" \in Sections(c)
          /\ FilledIn(call[c].ident, Ask[c].ident, host[call[c].url].ident,
                      <<"ident", call[c].url>> \notin raced[c])
          /\ FilledIn(call[c].time, Ask[c].time, host[call[c].url].time,
                      <<"time", call[c].url>> \notin raced[c])
      BY <1>0, <2>1, <3>1 DEF Prepared
    <3>6. QED
      BY <2>1, <3>2, <3>3, <3>4, <3>5 DEF Prepared, FilledIn, Sections
  <2>2. call'[c].pc \in {"failed", "done"} \/ ("time" \in Sections(c) /\ call'[c].pc = "time")
    BY <1>0, <1>9, MutationsAre DEF Mutated, Effected, Goes, AfterIdentity
  <2>3. QED
    BY <1>1, <2>1, <2>2
<1>10. CASE SetTime(c)
  BY <1>0, <1>1, <1>10, MutationsAre DEF Mutated, Effected, Goes, PartialApply
<1>11. QED
  BY <1>3, <1>4, <1>5, <1>6, <1>7, <1>8, <1>9, <1>10, VerbMoves

LEMMA DeedsKept ==
    ASSUME HostInv, \A c \in Made : Deeds(c), Next
    PROVE  \A c \in Made' : Deeds(c)'
<1>0. Made' = Made
  BY TablesKept
<1>1. CASE Others
  <2>1. \A d \in Made : Undisturbed(d)
    BY <1>1, OthersDo DEF HostInv
  <2>2. QED
    BY <1>0, <2>1, DeedsStay
<1>2. ASSUME NEW c \in Made, Moves(c)
      PROVE  \A d \in Made : Deeds(d)'
  <2>1. \A d \in Made \ {c} : Undisturbed(d)
    BY <1>2, MovesFrame
  <2>2. Permitted(c)' /\ Chosen(c)' /\ Clean(c)'
    BY <1>2, MovesPermitted, MovesChosen, MovesClean
  <2>3. Ask[c].verb = "host.settings.set" => Prepared(c)'
    BY <1>2, MovesPrepared
  <2>4. Deeds(c)'
    BY <2>2, <2>3 DEF Deeds
  <2>5. QED
    BY <2>1, <2>4, DeedsStay
<1>3. QED
  BY <1>0, <1>1, <1>2, NextSplits

LEMMA DeedsStart ==
    ASSUME Init
    PROVE  \A c \in Made : Deeds(c)
<1>1. \A c \in Made : call[c] = Idle
  BY DEF Init, Made
<1>2. Idle.pc = "idle"
  BY DEF Idle
<1>3. \A c \in Made : call[c].pc = "idle"
  BY <1>1, <1>2
<1>4. \A c \in Made : Permitted(c) /\ Chosen(c) /\ Clean(c)
  BY <1>3 DEF Permitted, Chosen, Clean, Running
<1>5. \A c \in Made : Prepared(c)
  BY <1>3 DEF Prepared
<1>6. QED
  BY <1>4, <1>5 DEF Deeds

(* The calls, the rows and keys they write and the machines they look at go *)
(* together as above, and so does what the verbs may do, at any time.       *)
THEOREM BothInvHolds == Spec => []BothInv
<1>1. Init => BothInv
  BY HostInvStarts, DeedsStart DEF BothInv
<1>2. ASSUME BothInv, [Next]_vars PROVE BothInv'
  <2>1. CASE Next
    BY <1>2, <2>1, HostInvKept, DeedsKept DEF BothInv
  <2>2. CASE UNCHANGED vars
    <3>1. HostInv'
      BY <1>2, <2>2, HostInvStutters DEF BothInv
    <3>2. Made' = Made /\ \A c \in Made : Undisturbed(c)
      BY <2>2 DEF vars, registry, world, Made, Undisturbed, Told, HostStands, NameStands, StackStands
    <3>3. QED
      BY <1>2, <3>1, <3>2, DeedsStay DEF BothInv
  <2>3. QED
    BY <1>2, <2>1, <2>2
<1>3. QED
  BY <1>1, <1>2, PTL DEF Spec

-----------------------------------------------------------------------------
(* A mutation changes the machine it is sent to, and no other.              *)
LEMMA OnlyMutations ==
    ASSUME HostInv, NEW c \in Made, Moves(c), host' # host
    PROVE  Mutating(c)
<1>0. CallsShaped /\ Tables
  BY DEF HostInv
<1>1. CASE Looking(c) \/ Beginning(c)
  BY <1>0, <1>1, LookingDoes, BeginningDoes DEF Looks, world
<1>2. CASE Writing(c) \/ SetAutostart(c)
  BY <1>0, <1>2, WritingDoes, SetAutostartDoes DEF world
<1>3. QED
  BY <1>1, <1>2, MovesSplit

LEMMA EffectIs ==
    ASSUME HostInv, NEW c \in Made, NEW h \in Hosts, host'[h] # host[h],
           NEW effect, NEW what, NEW next, NEW error, Mutated(c, effect, what, next, error)
    PROVE  h = call[c].url /\ host'[h] = effect /\ Effected(c, effect, what, next, error)
<1>0. Machines /\ call[c].url \in Hosts
  BY DEF HostInv, Located
<1>1. Effected(c, effect, what, next, error)
  BY DEF Mutated
<1>2. host' = [host EXCEPT ![call[c].url] = effect] /\ host = [x \in Hosts |-> host[x]]
  BY <1>0, <1>1 DEF Effected, Machines
<1>3. h = call[c].url
  BY <1>2
<1>4. QED
  BY <1>0, <1>1, <1>2, <1>3

(* What FilledIn gives for the fields that were and were not asked for.     *)
LEMMA FilledKeeps ==
    ASSUME NEW c, NEW what, NEW asked, NEW old, NEW new,
           FilledIn(new, asked, old, <<what, call[c].url>> \notin raced[c])
    PROVE  Kept(c, what, asked, old, new)
<1>1. ASSUME NEW f \in DOMAIN asked
      PROVE  IF asked[f] # Keep THEN new[f] = asked[f]
             ELSE new[f] = old[f] \/ <<what, call[c].url>> \in raced[c]
  BY DEF FilledIn, Filled
<1>2. QED
  BY <1>1 DEF Kept

LEMMA MinutesOf ==
    ASSUME NEW ms \in Nat
    PROVE  InMinutes("runtime", ms, ms \div MsPerMinute)
BY DEF InMinutes, MsPerMinute

(* The effect of ups.config_set, of a machine's fields.                     *)
LEMMA UpsSets ==
    ASSUME NEW c \in Calls, Ask[c].verb = "ups.config_set", NEW ups, DOMAIN ups = UpsFields,
           NEW set, set = Configured(ups, InUnits(Ask[c].ups))
    PROVE  /\ \A f \in DOMAIN ups : IF f \in DOMAIN Ask[c].ups THEN InMinutes(f, Ask[c].ups[f], set[f])
                                    ELSE set[f] = ups[f]
           /\ DOMAIN Ask[c].ups \subseteq DOMAIN ups
<1>1. /\ DOMAIN Ask[c].ups \subseteq UpsFields
      /\ "runtime" \in DOMAIN Ask[c].ups => Ask[c].ups.runtime \in Nat
  BY ConstantsAssumption
<1>2. DOMAIN InUnits(Ask[c].ups) = DOMAIN Ask[c].ups
  BY DEF InUnits
<1>3. ASSUME NEW f \in DOMAIN ups, f \in DOMAIN Ask[c].ups
      PROVE  InMinutes(f, Ask[c].ups[f], set[f])
  <2>1. set[f] = InUnits(Ask[c].ups)[f]
    BY <1>2, <1>3 DEF Configured
  <2>2. CASE f = "runtime"
    <3>1. set[f] = Ask[c].ups[f] \div MsPerMinute /\ Ask[c].ups[f] \in Nat
      BY <1>1, <1>3, <2>1, <2>2 DEF InUnits
    <3>2. QED
      BY <2>2, <3>1, MinutesOf
  <2>3. CASE f # "runtime"
    BY <1>3, <2>1, <2>3 DEF InUnits, InMinutes
  <2>4. QED
    BY <2>2, <2>3
<1>4. ASSUME NEW f \in DOMAIN ups, f \notin DOMAIN Ask[c].ups
      PROVE  set[f] = ups[f]
  BY <1>2, <1>4 DEF Configured
<1>5. QED
  BY <1>1, <1>3, <1>4

(* Who sends a mutation, and that an admin asked for it to be done.         *)
LEMMA SenderIs ==
    ASSUME HostInv, NEW c \in Made, Deeds(c)
    PROVE  /\ call[c].pc = "power" => Ask[c].verb = "vm.power"
           /\ call[c].pc = "parity" => Ask[c].verb = "parity.control"
           /\ call[c].pc = "ups" => Ask[c].verb = "ups.config_set"
           /\ call[c].pc \in {"ident", "time"} => Ask[c].verb = "host.settings.set"
           /\ call[c].pc \in {"power", "parity", "ident", "time", "ups"} =>
                (Ask[c].verb \in Admins => Ask[c].caller = "admin" /\ Ask[c].execute)
<1>1. Located(c) /\ Permitted(c)
  BY DEF HostInv, Deeds
<1>2. /\ call[c].pc = "power" => Ask[c].verb = "vm.power"
      /\ call[c].pc = "parity" => Ask[c].verb = "parity.control"
      /\ call[c].pc = "ups" => Ask[c].verb = "ups.config_set"
      /\ call[c].pc \in {"ident", "time"} => Ask[c].verb = "host.settings.set"
  BY <1>1 DEF Located, Stages
<1>3. call[c].pc = "ups" => Ask[c].verb \notin Admins
  BY <1>2 DEF Admins
<1>4. QED
  BY <1>1, <1>2, <1>3 DEF Permitted, Admitted, IsAdmin

LEMMA PowerIsAsAsked ==
    ASSUME HostInv, NEW c \in Made, Deeds(c), NEW h \in Hosts, host'[h] # host[h], PowerVm(c)
    PROVE  Changes(c, host[h], host'[h]) /\ h = call[c].url /\ call'[c] # call[c]
<1>1. call[c].pc = "power" /\ Mutated(c, Powered(c), "power", "done", "failed")
  BY MutationsAre DEF HostInv
<1>2. h = call[c].url /\ host'[h] = Powered(c) /\ call'[c] # call[c]
  <2>1. h = call[c].url /\ host'[h] = Powered(c) /\ Effected(c, Powered(c), "power", "done", "failed")
    BY <1>1, EffectIs
  <2>2. QED
    BY <1>1, <2>1 DEF Effected, Goes
<1>3. call[c].answer \in Named(host[h].vms, Ask[c].vm) /\ Ask[c].verb = "vm.power"
  BY <1>1, <1>2, SenderIs DEF Deeds, Chosen
<1>4. QED
  BY <1>2, <1>3 DEF Changes, Powered, At

LEMMA ParityIsAsAsked ==
    ASSUME HostInv, NEW c \in Made, Deeds(c), NEW h \in Hosts, host'[h] # host[h], ControlParity(c)
    PROVE  Changes(c, host[h], host'[h]) /\ h = call[c].url /\ call'[c] # call[c]
<1> DEFINE effect == [At(c) EXCEPT !.parity = Checking(c)]
<1>1. call[c].pc = "parity" /\ Mutated(c, effect, "parity", "done", "failed")
  BY MutationsAre DEF HostInv
<1> HIDE DEF effect
<1>2. h = call[c].url /\ host'[h] = effect /\ call'[c] # call[c]
  <2>1. h = call[c].url /\ host'[h] = effect /\ Effected(c, effect, "parity", "done", "failed")
    BY <1>1, EffectIs
  <2>2. QED
    BY <1>1, <2>1 DEF Effected, Goes
<1>3. Ask[c].verb = "parity.control" /\ Ask[c].action # "correcting"
  BY <1>1, SenderIs, ConstantsAssumption DEF HostInv, Tables
<1>4. host[h] = [f \in MachineFields |-> host[h][f]] /\ effect = [host[h] EXCEPT !.parity = Checking(c)]
  BY <1>2 DEF HostInv, Machines, IsMachine, effect, At
<1>5. effect = [host[h] EXCEPT !.parity = effect.parity] /\ effect.parity = Checking(c)
  BY <1>4 DEF MachineFields
<1>6. Checking(c) = "correcting" <=> Ask[c].action = "start_correcting"
  BY <1>3 DEF Checking, Correcting
<1>7. QED
  BY <1>2, <1>3, <1>5, <1>6 DEF Changes

LEMMA UpsIsAsAsked ==
    ASSUME HostInv, NEW c \in Made, Deeds(c), NEW h \in Hosts, host'[h] # host[h], ConfigureUps(c)
    PROVE  Changes(c, host[h], host'[h]) /\ h = call[c].url /\ call'[c] # call[c]
<1>1. call[c].pc = "ups" /\ Mutated(c, Upsed(c), "ups", "done", "failed")
  BY MutationsAre DEF HostInv
<1>2. h = call[c].url /\ host'[h] = Upsed(c) /\ call'[c] # call[c]
  <2>1. h = call[c].url /\ host'[h] = Upsed(c) /\ Effected(c, Upsed(c), "ups", "done", "failed")
    BY <1>1, EffectIs
  <2>2. QED
    BY <1>1, <2>1 DEF Effected, Goes
<1>3. /\ Ask[c].verb = "ups.config_set" /\ c \in Calls
      /\ row[call[c].id].enabled \/ <<"row", call[c].id>> \in raced[c]
  BY <1>1, SenderIs DEF Deeds, Chosen, HostInv, Tables, Running, Over
<1> DEFINE set == Configured(host[h].ups, InUnits(Ask[c].ups))
<1>4. /\ host[h] = [f \in MachineFields |-> host[h][f]] /\ DOMAIN host[h].ups = UpsFields
      /\ Upsed(c) = [host[h] EXCEPT !.ups = set]
  BY <1>2 DEF HostInv, Machines, IsMachine, Upsed, At, MachineFields
<1> HIDE DEF set
<1>5. Upsed(c) = [host[h] EXCEPT !.ups = Upsed(c).ups] /\ Upsed(c).ups = set
  BY <1>4 DEF MachineFields
<1>6. \A f \in DOMAIN host[h].ups : IF f \in DOMAIN Ask[c].ups THEN InMinutes(f, Ask[c].ups[f], set[f])
                                    ELSE set[f] = host[h].ups[f]
  BY <1>3, <1>4, UpsSets DEF set
<1>7. QED
  BY <1>2, <1>3, <1>5, <1>6 DEF Changes

LEMMA SettingsAreAsAsked ==
    ASSUME HostInv, NEW c \in Made, Deeds(c), NEW h \in Hosts, host'[h] # host[h],
           SetIdentity(c) \/ SetTime(c)
    PROVE  Changes(c, host[h], host'[h]) /\ h = call[c].url /\ call'[c] # call[c]
<1>0. host[h] = [f \in MachineFields |-> host[h][f]] /\ CallsShaped
  BY DEF HostInv, Machines, IsMachine
<1>1. CASE SetIdentity(c)
  <2> DEFINE effect == [At(c) EXCEPT !.ident = call[c].ident]
  <2>1. call[c].pc = "ident" /\ Mutated(c, effect, "ident", AfterIdentity(c), "failed")
    BY <1>0, <1>1, MutationsAre
  <2> HIDE DEF effect
  <2>2. h = call[c].url /\ host'[h] = effect /\ Effected(c, effect, "ident", AfterIdentity(c), "failed")
    BY <2>1, EffectIs
  <2>3. call'[c] # call[c]
    BY <2>1, <2>2 DEF Effected, Goes, AfterIdentity
  <2>4. Ask[c].verb = "host.settings.set" /\ Prepared(c)
    BY <2>1, SenderIs DEF Deeds
  <2>5. /\ "ident" \in Sections(c) /\ call[c].stopped
        /\ <<"array", call[c].url>> \notin raced[c] => call[c].stopped = host[h].stopped
        /\ FilledIn(call[c].ident, Ask[c].ident, host[h].ident, <<"ident", call[c].url>> \notin raced[c])
    BY <2>1, <2>2, <2>4 DEF Prepared
  <2>6. /\ effect = [host[h] EXCEPT !.ident = effect.ident, !.time = effect.time]
        /\ effect.ident = call[c].ident /\ effect.time = host[h].time
    BY <1>0, <2>2 DEF effect, At, MachineFields
  <2>7. Kept(c, "ident", Ask[c].ident, host[h].ident, call[c].ident)
    BY <2>5, FilledKeeps
  <2>8. QED
    BY <2>2, <2>3, <2>4, <2>5, <2>6, <2>7 DEF Changes
<1>2. CASE SetTime(c)
  <2> DEFINE effect == [At(c) EXCEPT !.time = call[c].time]
  <2>1. call[c].pc = "time" /\ Mutated(c, effect, "time", "done", PartialApply(c))
    BY <1>0, <1>2, MutationsAre
  <2> HIDE DEF effect
  <2>2. h = call[c].url /\ host'[h] = effect /\ Effected(c, effect, "time", "done", PartialApply(c))
    BY <2>1, EffectIs
  <2>3. call'[c] # call[c]
    BY <2>1, <2>2 DEF Effected, Goes, PartialApply
  <2>4. Ask[c].verb = "host.settings.set" /\ Prepared(c)
    BY <2>1, SenderIs DEF Deeds
  <2>5. FilledIn(call[c].time, Ask[c].time, host[h].time, <<"time", call[c].url>> \notin raced[c])
    BY <2>1, <2>2, <2>4 DEF Prepared
  <2>6. /\ effect = [host[h] EXCEPT !.ident = effect.ident, !.time = effect.time]
        /\ effect.time = call[c].time /\ effect.ident = host[h].ident
    BY <1>0, <2>2 DEF effect, At, MachineFields
  <2>7. Kept(c, "time", Ask[c].time, host[h].time, call[c].time)
    BY <2>5, FilledKeeps
  <2>8. QED
    BY <2>2, <2>3, <2>4, <2>6, <2>7 DEF Changes
<1>3. QED
  BY <1>1, <1>2

LEMMA ChangesFollow ==
    ASSUME BothInv, [Next]_vars
    PROVE  ChangesAsAsked
<1>0. CallsShaped /\ Tables /\ Machines /\ HostInv
  BY DEF BothInv, HostInv
<1>1. SUFFICES ASSUME NEW h \in Hosts, host'[h] # host[h], call' # call
               PROVE  \E c \in Made : /\ call'[c] # call[c] /\ call[c].url = h
                                      /\ Ask[c].verb \in Admins => Ask[c].caller = "admin" /\ Ask[c].execute
                                      /\ Changes(c, host[h], host'[h])
  BY DEF ChangesAsAsked
<1>2. PICK c \in Made : Moves(c)
  <2>1. Next
    BY <1>1 DEF vars
  <2>2. ~Others
    BY <1>0, <1>1, OthersDo
  <2>3. QED
    BY <2>1, <2>2, NextSplits
<1>3. Deeds(c) /\ Mutating(c)
  BY <1>0, <1>1, <1>2, OnlyMutations DEF BothInv
<1>4. Changes(c, host[h], host'[h]) /\ h = call[c].url /\ call'[c] # call[c]
  BY <1>0, <1>1, <1>3, PowerIsAsAsked, ParityIsAsAsked, UpsIsAsAsked, SettingsAreAsAsked DEF Mutating
<1>5. call[c].pc \in {"power", "parity", "ident", "time", "ups"}
  BY <1>0, <1>3, MutationsAre DEF Mutating
<1>6. QED
  BY <1>0, <1>3, <1>4, <1>5, SenderIs

-----------------------------------------------------------------------------
(* How a call ends.                                                         *)
Dry(c) == Ask[c].verb \in Admins /\ ~Ask[c].execute
EndsWell(c) ==
    /\ call'[c].pc = "done" /\ ~Dry(c) => Holds(c, host', stack')
    /\ call'[c].pc = "done" /\ Dry(c) => call'[c].did = {}
    /\ call'[c].pc = "failed" => call'[c].did = {} \/ call'[c].lost
    /\ call'[c].pc = "partial" => "ident" \in call'[c].did /\ "time" \in Sections(c)

LEMMA EffectSets ==
    ASSUME HostInv, NEW c \in Made, NEW effect, NEW what, NEW next, NEW error,
           Effected(c, effect, what, next, error)
    PROVE  host'[call[c].url] = effect
<1>1. Machines /\ call[c].url \in Hosts
  BY DEF HostInv, Located
<1>2. QED
  BY <1>1 DEF Effected, Machines

(* A call that is under way has done nothing yet, unless it is at its second*)
(* section.                                                                 *)
LEMMA NothingDone ==
    ASSUME HostInv, NEW c \in Made, Deeds(c), Moves(c), Ask[c].verb \notin Registry, call[c].pc # "time"
    PROVE  call[c].did = {}
<1>1. CASE call[c].pc = "idle"
  <2>1. call[c] = Idle
    BY <1>1 DEF HostInv, Located
  <2>2. QED
    BY <2>1 DEF Idle
<1>2. CASE call[c].pc # "idle"
  <2>1. Running(c)
    BY <1>2, MovesRun DEF HostInv
  <2>2. QED
    BY <2>1 DEF Deeds, Clean
<1>3. QED
  BY <1>1, <1>2

LEMMA LooksEndWell ==
    ASSUME HostInv, NEW c \in Made, Deeds(c), Moves(c), Ask[c].verb \in Admins \cup Capability,
           Looking(c) \/ PickRow(c) \/ PickEnabled(c)
    PROVE  EndsWell(c)
<1>0. CallsShaped /\ Located(c) /\ Ask[c].verb \notin Registry
  BY DEF HostInv, Admins, Capability, Registry
<1>1. /\ call'[c].did = call[c].did /\ call[c].pc # "time" /\ call'[c].pc # "partial"
      /\ stack' = stack
  BY LooksDoNothing
<1>2. call'[c].did = {}
  BY <1>0, <1>1, NothingDone
<1>3. ASSUME call'[c].pc = "done" PROVE Dry(c) \/ Holds(c, host', stack')
  <2>1. CASE PickRow(c)
    BY <1>0, <1>3, <2>1, PickRowDoes DEF Fails, Goes, Dry, Admins
  <2>2. CASE PickEnabled(c) \/ Refuse(c) \/ ReadKey(c)
    BY <1>0, <1>3, <2>2, PickEnabledDoes, RefuseDoes, ReadKeyDoes DEF Fails, Goes
  <2>3. CASE Resolve(c)
    BY <1>0, <1>3, <2>3, ResolveDoes DEF Fails, Goes, FirstRequest
  <2>4. CASE ListVms(c)
    <3>1. Ask[c].verb = "vm.power"
      BY <1>0, <2>4, ListVmsDoes DEF Located, Stages
    <3>2. QED
      BY <1>0, <1>3, <2>4, <3>1, ListVmsDoes DEF Fails, Goes, Dry, Admins
  <2>5. CASE ReadArray(c) \/ ReadTime(c)
    BY <1>0, <1>3, <2>5, ReadArrayDoes, ReadTimeDoes DEF Fails, Goes
  <2>6. CASE ReadIdentity(c)
    BY <1>0, <1>3, <2>6, ReadIdentityDoes DEF Fails, Goes
  <2>7. CASE Decide(c)
    <3>1. Ask[c].verb = "host.settings.set"
      BY <1>0, <2>7, DecideDoes DEF Located, Stages
    <3>2. QED
      BY <1>0, <1>3, <2>7, <3>1, DecideDoes DEF Fails, Goes, Dry, Admins
  <2>8. CASE Probes(c)
    <3>1. CASE LocalView(c) \/ AskFlags(c)
      BY <1>0, <1>3, <3>1, LocalViewDoes, AskFlagsDoes DEF Fails, Goes
    <3>2. CASE AskManager(c)
      BY <1>0, <1>3, <3>2, AskManagerDoes DEF Fails, Goes
    <3>3. CASE ProbeMount(c) \/ ProbePid(c) \/ ProbeComm(c)
      BY <1>0, <1>3, <3>3, ProbeMountDoes, ProbePidDoes, ProbeCommDoes DEF Goes
    <3>4. CASE Assess(c)
      BY <1>0, <3>4, AssessDoes DEF Admins, Capability
    <3>5. QED
      BY <2>8, <3>1, <3>2, <3>3, <3>4 DEF Probes
  <2>9. CASE RequireVms(c)
    BY <1>0, <1>3, <2>9, RequireVmsDoes DEF Fails, Goes
  <2>10. CASE PlanAutostart(c) \/ PlanAsRoot(c)
    <3>1. /\ call[c].pc \in {"plan", "root"}
          /\ NoChange(c) \/ ~Ask[c].execute
      BY <1>0, <1>3, <2>10, PlanDoes DEF Fails, Goes
    <3>2. Ask[c].verb = "vm.autostart"
      BY <1>0, <3>1 DEF Located, Stages, Admins, Capability
    <3>3. NoChange(c) => Holds(c, host', stack')
      BY <1>1, <3>2 DEF NoChange, Holds
    <3>4. QED
      BY <3>1, <3>2, <3>3 DEF Dry, Admins
  <2>11. CASE Looking(c)
    BY <2>2, <2>3, <2>4, <2>5, <2>6, <2>7, <2>8, <2>9, <2>10, <2>11 DEF Looking
  <2>12. QED
    BY <2>1, <2>2, <2>11
<1>4. QED
  BY <1>1, <1>2, <1>3 DEF EndsWell

LEMMA OneRequestEndsWell ==
    ASSUME HostInv, NEW c \in Made, Deeds(c), Moves(c), Ask[c].verb \notin Registry, ~Dry(c),
           NEW effect, NEW what, NEW next, NEW error, Mutated(c, effect, what, next, error),
           call[c].pc # "time", error = "failed", next \in {"done", "time"},
           host'[call[c].url] = effect /\ next = "done" => Holds(c, host', stack')
    PROVE  EndsWell(c)
<1>1. call[c].did = {}
  BY NothingDone
<1>2. CASE Goes(c, error, {"pc"})
  <2>1. call'[c].pc = "failed" /\ call'[c].did = {}
    BY <1>1, <1>2 DEF Goes, SameBut, Fields
  <2>2. QED
    BY <2>1 DEF EndsWell
<1>3. CASE Effected(c, effect, what, next, error)
  <2>1. host'[call[c].url] = effect
    BY <1>3, EffectSets
  <2>2. (call'[c].pc = "failed" /\ call'[c].lost) \/ call'[c].pc = next
    BY <1>3 DEF Effected, Goes
  <2>3. QED
    BY <2>1, <2>2 DEF EndsWell
<1>4. QED
  BY <1>2, <1>3 DEF Mutated

LEMMA NamedIsAVm ==
    ASSUME NEW vms, NEW vm
    PROVE  Named(vms, vm) \subseteq Vms
BY DEF Named, NamedAny

LEMMA UnaskedIsEmpty ==
    ASSUME NEW c
    PROVE  /\ "ident" \notin Sections(c) => DOMAIN Ask[c].ident = {}
           /\ "time" \notin Sections(c) => DOMAIN Ask[c].time = {}
<1>1. "ident" \notin Sections(c) => Ask[c].ident = << >>
  BY DEF Sections
<1>2. "time" \notin Sections(c) => Ask[c].time = << >>
  BY DEF Sections
<1>3. DOMAIN << >> = {}
  OBVIOUS
<1>4. QED
  BY <1>1, <1>2, <1>3

LEMMA MutationsEndWell ==
    ASSUME HostInv, NEW c \in Made, Deeds(c), Moves(c), Mutating(c)
    PROVE  EndsWell(c)
<1>0. CallsShaped /\ Machines /\ Tables /\ call[c].url \in Hosts
  BY DEF HostInv, Located
<1> DEFINE h == call[c].url
<1>1. host[h] = [f \in MachineFields |-> host[h][f]] /\ DOMAIN host[h].ups = UpsFields
  BY <1>0 DEF Machines, IsMachine
<1>2. call[c].pc \in {"power", "parity", "ident", "time", "ups"}
  BY <1>0, MutationsAre DEF Mutating
<1>3. ~Dry(c) /\ Ask[c].verb \notin Registry
  BY <1>2, SenderIs DEF Dry, Registry
<1>4. CASE PowerVm(c)
  <2>1. call[c].pc = "power" /\ Mutated(c, Powered(c), "power", "done", "failed")
    BY <1>0, <1>4, MutationsAre
  <2>2. Ask[c].verb = "vm.power" /\ call[c].answer \in Vms
    BY <2>1, SenderIs, NamedIsAVm DEF Deeds, Chosen
  <2>3. Powered(c).vms[call[c].answer].state = Target[Ask[c].action]
    <3>1. /\ host[h].vms = [v \in Vms |-> host[h].vms[v]]
          /\ \A v \in Vms : host[h].vms[v] = [f \in {"name", "state"} |-> host[h].vms[v][f]]
      BY <1>0 DEF Machines, IsMachine
    <3>2. QED
      BY <1>1, <2>2, <3>1 DEF Powered, At, MachineFields
  <2>4. ASSUME host'[h] = Powered(c) PROVE Holds(c, host', stack')
    BY <2>2, <2>3, <2>4 DEF Holds
  <2>5. QED
    BY <1>3, <2>1, <2>4, OneRequestEndsWell
<1>5. CASE ControlParity(c)
  <2> DEFINE effect == [At(c) EXCEPT !.parity = Checking(c)]
  <2>1. call[c].pc = "parity" /\ Mutated(c, effect, "parity", "done", "failed")
    BY <1>0, <1>5, MutationsAre
  <2> HIDE DEF effect
  <2>2. Ask[c].verb = "parity.control"
    BY <2>1, SenderIs
  <2>3. Holds(c, host', stack')
    BY <2>2 DEF Holds
  <2>4. QED
    BY <1>3, <2>1, <2>3, OneRequestEndsWell
<1>6. CASE ConfigureUps(c)
  <2>1. call[c].pc = "ups" /\ Mutated(c, Upsed(c), "ups", "done", "failed")
    BY <1>0, <1>6, MutationsAre
  <2>2. Ask[c].verb = "ups.config_set" /\ c \in Calls
    BY <1>0, <2>1, SenderIs DEF Tables
  <2> DEFINE set == Configured(host[h].ups, InUnits(Ask[c].ups))
  <2>3. Upsed(c).ups = set
    BY <1>1 DEF Upsed, At, MachineFields
  <2>4. \A f \in DOMAIN Ask[c].ups : InMinutes(f, Ask[c].ups[f], set[f])
    <3> HIDE DEF h
    <3>1. /\ \A f \in DOMAIN host[h].ups : IF f \in DOMAIN Ask[c].ups THEN InMinutes(f, Ask[c].ups[f], set[f])
                                           ELSE set[f] = host[h].ups[f]
          /\ DOMAIN Ask[c].ups \subseteq DOMAIN host[h].ups
      BY <1>1, <2>2, UpsSets
    <3>2. QED
      BY <3>1
  <2> HIDE DEF set
  <2>5. ASSUME host'[h] = Upsed(c) PROVE Holds(c, host', stack')
    BY <2>2, <2>3, <2>4, <2>5 DEF Holds
  <2>6. QED
    BY <1>3, <2>1, <2>5, OneRequestEndsWell
<1>7. CASE SetIdentity(c)
  <2> DEFINE effect == [At(c) EXCEPT !.ident = call[c].ident]
  <2>1. call[c].pc = "ident" /\ Mutated(c, effect, "ident", AfterIdentity(c), "failed")
    BY <1>0, <1>7, MutationsAre
  <2>2. Ask[c].verb = "host.settings.set" /\ Prepared(c)
    BY <2>1, SenderIs DEF Deeds
  <2>3. effect.ident = call[c].ident
    BY <1>1 DEF At, MachineFields
  <2> HIDE DEF effect
  <2>4. \A f \in DOMAIN Ask[c].ident : Ask[c].ident[f] # Keep => call[c].ident[f] = Ask[c].ident[f]
    BY <2>1, <2>2 DEF Prepared, FilledIn
  <2>5. ASSUME host'[h] = effect, AfterIdentity(c) = "done" PROVE Holds(c, host', stack')
    <3>1. DOMAIN Ask[c].time = {}
      BY <2>5, UnaskedIsEmpty DEF AfterIdentity
    <3>2. \A f \in DOMAIN Ask[c].ident : Ask[c].ident[f] \in {Keep, host'[h].ident[f]}
      BY <2>3, <2>4, <2>5
    <3>3. QED
      BY <2>2, <3>1, <3>2 DEF Holds
  <2>6. QED
    BY <1>3, <2>1, <2>5, OneRequestEndsWell DEF AfterIdentity
<1>8. CASE SetTime(c)
  <2> DEFINE effect == [At(c) EXCEPT !.time = call[c].time]
  <2>1. call[c].pc = "time" /\ Mutated(c, effect, "time", "done", PartialApply(c))
    BY <1>0, <1>8, MutationsAre
  <2>2. Ask[c].verb = "host.settings.set" /\ Prepared(c) /\ "time" \in Sections(c)
    BY <2>1, SenderIs DEF Deeds, Prepared
  <2>3. effect.time = call[c].time /\ effect.ident = host[h].ident
    BY <1>1 DEF At, MachineFields
  <2> HIDE DEF effect
  <2>4. call[c].did = IF "ident" \in Sections(c) THEN {"ident"} ELSE {}
    BY <1>3, <2>1 DEF Deeds, Clean, Running, Over
  <2>5. CASE Goes(c, PartialApply(c), {"pc"})
    <3>1. call'[c].pc = PartialApply(c) /\ call'[c].did = call[c].did
      BY <2>5 DEF Goes, SameBut, Fields
    <3>2. QED
      BY <2>2, <2>4, <3>1 DEF EndsWell, PartialApply
  <2>6. CASE Effected(c, effect, "time", "done", PartialApply(c))
    <3>1. host'[h] = effect /\ call[c].did \subseteq call'[c].did
      BY <2>6, EffectSets DEF Effected
    <3>2. call'[c].pc = "done" \/ (call'[c].pc = PartialApply(c) /\ call'[c].lost)
      BY <2>6 DEF Effected, Goes
    <3>3. \A f \in DOMAIN Ask[c].time : Ask[c].time[f] \in {Keep, host'[h].time[f]}
      BY <2>1, <2>2, <2>3, <3>1 DEF Prepared, FilledIn
    <3>4. <<"ident", h>> \notin raced[c] =>
            \A f \in DOMAIN Ask[c].ident : Ask[c].ident[f] \in {Keep, host'[h].ident[f]}
      <4>1. CASE "ident" \in Sections(c)
        BY <2>1, <2>2, <2>3, <3>1, <4>1 DEF Prepared
      <4>2. CASE "ident" \notin Sections(c)
        BY <4>2, UnaskedIsEmpty
      <4>3. QED
        BY <4>1, <4>2
    <3>5. Holds(c, host', stack')
      BY <2>2, <3>3, <3>4 DEF Holds
    <3>6. QED
      BY <1>3, <2>2, <2>4, <3>1, <3>2, <3>5 DEF EndsWell, PartialApply
  <2>7. QED
    BY <2>1, <2>5, <2>6 DEF Mutated
<1>9. QED
  BY <1>4, <1>5, <1>6, <1>7, <1>8 DEF Mutating

LEMMA AutostartEndsWell ==
    ASSUME HostInv, NEW c \in Made, Deeds(c), Moves(c), Ask[c].verb \in Admins \cup Capability, SetAutostart(c)
    PROVE  EndsWell(c)
<1>0. CallsShaped /\ Machines /\ Located(c)
  BY DEF HostInv
<1>1. /\ call[c].pc = "set"
      /\ \/ Fails(c)
         \/ /\ stack' = [stack EXCEPT !.auto = Wanted(c)]
            /\ \/ Goes(c, "done", {"pc", "did", "lost"})
               \/ Goes(c, "failed", {"pc", "did", "lost"}) /\ call'[c].lost = TRUE
  BY <1>0, SetAutostartDoes
<1>2. Ask[c].verb = "vm.autostart"
  BY <1>0, <1>1 DEF Located, Stages, Admins, Capability
<1>3. ~Dry(c)
  BY <1>1 DEF Deeds, Permitted, Dry
<1>4. CASE Fails(c)
  <2>1. call[c].did = {}
    BY <1>1, <1>2, NothingDone DEF Registry
  <2>2. call'[c].pc = "failed" /\ call'[c].did = {}
    BY <1>4, <2>1 DEF Fails, Goes, SameBut, Fields
  <2>3. QED
    BY <2>2 DEF EndsWell
<1>5. CASE stack' = [stack EXCEPT !.auto = Wanted(c)] /\ Goes(c, "done", {"pc", "did", "lost"})
  <2>1. stack'.auto = Wanted(c) /\ call'[c].pc = "done"
    BY <1>0, <1>5 DEF Machines, LibvirtFields, Goes
  <2>2. Holds(c, host', stack')
    BY <1>2, <2>1 DEF Holds
  <2>3. QED
    BY <1>3, <2>1, <2>2 DEF EndsWell
<1>6. CASE Goes(c, "failed", {"pc", "did", "lost"}) /\ call'[c].lost = TRUE
  BY <1>6 DEF EndsWell, Goes
<1>7. QED
  BY <1>1, <1>4, <1>5, <1>6

LEMMA EndsFollow ==
    ASSUME BothInv, [Next]_vars
    PROVE  SaysWhatItDid
<1>0. CallsShaped /\ Tables /\ Machines /\ HostInv
  BY DEF BothInv, HostInv
<1>1. ASSUME NEW c \in Made, Ask[c].verb \in Admins \cup Capability, call'[c].pc # call[c].pc
      PROVE  EndsWell(c)
  <2>1. Moves(c)
    <3>1. call'[c] # call[c]
      BY <1>1
    <3>2. Next
      BY <1>1, <3>1 DEF vars
    <3>3. ~Others
      BY <1>0, <3>1, OthersDo
    <3>4. PICK d \in Made : Moves(d)
      BY <3>2, <3>3, NextSplits
    <3>5. d = c
      BY <1>0, <1>1, <3>1, <3>4, MovesFrame DEF Undisturbed
    <3>6. QED
      BY <3>4, <3>5
  <2>2. Deeds(c) /\ Ask[c].verb \notin Registry
    BY <1>1 DEF BothInv, Registry, Admins, Capability
  <2>3. ~Writing(c) /\ ~ReadRow(c)
    BY <1>0, <2>2, WritersAre, ReadRowDoes DEF Registry
  <2>4. QED
    BY <1>0, <1>1, <2>1, <2>2, <2>3, MovesSplit, LooksEndWell, MutationsEndWell, AutostartEndsWell DEF Beginning
<1>2. QED
  BY <1>1 DEF SaysWhatItDid, EndsWell, Dry

(* unraid.vm.power, parity.control, host.settings.set, vm.autostart and the *)
(* ups capability: what changes on a host is what an admin asked for, to be *)
(* done, of the one machine the call resolved; and how the call ends says   *)
(* what it did, however many others work on the same hosts, and whichever   *)
(* replies are lost.                                                        *)
THEOREM VerbsDoWhatTheySay == Spec => DoesWhatItSays
<1>1. BothInv /\ [Next]_vars => [ChangesAsAsked /\ SaysWhatItDid]_vars
  BY ChangesFollow, EndsFollow
<1>2. QED
  BY <1>1, BothInvHolds, PTL DEF Spec, DoesWhatItSays

=============================================================================

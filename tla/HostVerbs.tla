------------------------------ MODULE HostVerbs ------------------------------
(***************************************************************************)
(* The endpoint registry and the verbs that act on a host through it.      *)
(*                                                                         *)
(* An endpoint is a row (its routes) in one store and an API key in        *)
(* another; unraid.create, update and delete write one after the other.    *)
(* unraid.vm.power, parity.control, host.settings.set and the ups          *)
(* capability pick an endpoint, read its key, resolve a route and send     *)
(* GraphQL requests that may fail before or after they took effect.        *)
(* unraid.vm.autostart acts on this machine, through libvirt, in two looks *)
(* at the VM.                                                              *)
(***************************************************************************)
EXTENDS Naturals, Sequences, FiniteSets

CONSTANTS
    Names,      \* endpoint names
    Keys,       \* API keys
    Hosts,      \* machines with an Unraid API; Here is this one
    Here,
    HomeOf,     \* the host that minted a key
    Vms,        \* VM ids
    Calls,      \* calls of the tools; each runs once
    Ask,        \* their arguments
    Scenarios   \* bound: calls made together, what they start from, and how
                \* often others act

NoName == "no name"
NoKey == "no key"
Keep == "keep"
NoRow == [routes |-> << >>, enabled |-> FALSE, exists |-> FALSE]

Registry == {"create", "update", "delete"}
Admins == {"vm.power", "parity.control", "host.settings.set", "vm.autostart"}
Remote == {"vm.power", "parity.control", "host.settings.set", "vm.availability"}
Capability == {"ups.config_set"}
UpsFields == {"level", "runtime"}

ASSUME ConstantsAssumption ==
    /\ Here \in Hosts /\ HomeOf \in [Keys -> Hosts]
    /\ NoKey \notin Keys /\ NoName \notin Names
    /\ \A c \in Calls : Ask[c].verb \in Registry \cup Remote \cup Admins \cup Capability
    /\ \A c \in Calls : Ask[c].verb \in Registry =>
         Ask[c].name \in Names /\ Ask[c].routes \in Seq(Hosts) /\ Ask[c].key \in Keys \cup {NoKey}
    /\ \A c \in Calls : Ask[c].verb = "vm.autostart" => Ask[c].name = NoName
    /\ \A c \in Calls : Ask[c].verb = "parity.control" => Ask[c].action # "correcting"
    /\ \A c \in Calls : Ask[c].verb = "ups.config_set" =>
         /\ DOMAIN Ask[c].ups \subseteq UpsFields
         /\ "runtime" \in DOMAIN Ask[c].ups => Ask[c].ups.runtime \in Nat

(* What people hand in goes together: a new endpoint's key is one that the  *)
(* machine its routes lead to minted, and what an update changes goes with  *)
(* what it leaves.                                                          *)
LeadsTo(routes, k) ==
    IF routes = << >> THEN HomeOf[k] = Here ELSE \A i \in DOMAIN routes : routes[i] = HomeOf[k]
KeysFor(s, n) ==
    {k \in Keys : k = s.key[n] \/ \E d \in s.calls : /\ Ask[d].verb \in {"create", "update"}
                                                    /\ Ask[d].name = n /\ Ask[d].key = k}
GoesTogether(s, c) ==
    /\ Ask[c].verb = "create" => Ask[c].key \in Keys /\ LeadsTo(Ask[c].routes, Ask[c].key)
    /\ Ask[c].verb = "update" =>
         IF Ask[c].key \in Keys
         THEN IF Ask[c].routes # << >> THEN LeadsTo(Ask[c].routes, Ask[c].key)
              ELSE \A k \in KeysFor(s, Ask[c].name) : HomeOf[k] = HomeOf[Ask[c].key]
         ELSE Ask[c].routes # << >> => \A k \in KeysFor(s, Ask[c].name) : LeadsTo(Ask[c].routes, k)

Rows == [routes : Seq(Hosts), enabled : BOOLEAN, exists : BOOLEAN]
MachineFields == {"stopped", "ident", "time", "manager", "flags", "parity", "ups", "vms"}
IsMachine(m) ==
    /\ m = [f \in MachineFields |-> m[f]] /\ m.vms = [v \in Vms |-> m.vms[v]]
    /\ \A v \in Vms : m.vms[v] = [f \in {"name", "state"} |-> m.vms[v][f]]
    /\ DOMAIN m.ups = UpsFields
LibvirtFields == {"mounted", "pidfile", "daemon", "auto"}

ASSUME ScenariosAssumption ==
    \A s \in Scenarios :
        /\ s.calls \subseteq Calls /\ \A c \in s.calls : GoesTogether(s, c)
        /\ s.row \in [Names -> Rows] /\ s.key \in [Names -> Keys \cup {NoKey}] /\ s.up \subseteq Hosts
        /\ \A n \in Names : IF s.row[n].exists THEN s.key[n] \in Keys /\ LeadsTo(s.row[n].routes, s.key[n])
                           ELSE s.row[n] = NoRow /\ s.key[n] = NoKey
        /\ \A h \in s.host : h = [x \in Hosts |-> h[x]] /\ \A x \in Hosts : IsMachine(h[x])
        /\ \A l \in s.stack : l = [f \in LibvirtFields |-> l[f]]

VARIABLES
    row,      \* the rows of the registry, by name
    key,      \* the API keys in the secrets store, by name
    host,     \* the hosts' array, settings, UPS, parity check and VMs
    stack,    \* this machine's libvirt: mount, pid file, process, autostart
    up,       \* the hosts that answer
    call,     \* what each call knows and did
    budget,   \* what others may still do
    meant,    \* the rows as their writers meant them (history)
    raced     \* what others wrote under a running call (history)

registry == <<row, key>>
world == <<host, stack, up>>
vars == <<registry, world, call, budget, meant, raced>>

-----------------------------------------------------------------------------
Idle == [pc |-> "idle", row |-> NoRow, key |-> NoKey, url |-> Here, id |-> NoName,
        stopped |-> FALSE, ident |-> << >>, time |-> << >>, flags |-> "none",
        manager |-> "none", pid |-> 0, answer |-> Keep, did |-> {}, lost |-> FALSE]
Over == {"done", "failed", "partial"}
Made == DOMAIN call
Running(c) == call[c].pc \notin Over \cup {"idle"}

Becomes(c, r) == call' = [call EXCEPT ![c] = r]
Goto(c, pc) == Becomes(c, [call[c] EXCEPT !.pc = pc])
Fail(c) == Goto(c, "failed")
Writes(ds, what) ==
    raced' = [d \in Made |-> IF d \in ds /\ Running(d) THEN raced[d] \cup what ELSE raced[d]]
Means(c, r) == meant' = [meant EXCEPT ![Ask[c].name] = r]

(* A call that begins finds names that others are writing, wrote at the same*)
(* time or left half written.                                               *)
HalfDone(d) == call[d].pc = "failed" /\ ("row" \in call[d].did \/ call[d].lost)
Unsettled(d) ==
    Ask[d].verb \in Registry /\ (Running(d) \/ HalfDone(d) \/ <<"row", Ask[d].name>> \in raced[d])
Busy == {<<"row", Ask[d].name>> : d \in {d \in Made : Unsettled(d)}}
Begins(c) == raced' = [raced EXCEPT ![c] = Busy]
BeginsWriting(c) ==
    raced' = [d \in Made |-> IF d = c THEN Busy
                             ELSE IF Running(d) THEN raced[d] \cup {<<"row", Ask[c].name>>} ELSE raced[d]]
WritesName(c) == Writes(Made \ {c}, {<<"row", Ask[c].name>>})
Quietly == UNCHANGED <<budget, meant>>
Looks == UNCHANGED <<registry, world, raced>> /\ Quietly

(* require_admin comes before anything else, dry run or not; then what       *)
(* unraid.host.settings.set is asked for: identity, time or both.           *)
IsAdmin(c) == Ask[c].caller = "admin"
Sections(c) == {s \in {"ident", "time"} : Ask[c][s] # << >>}
Admitted(c) == IsAdmin(c) /\ (Ask[c].verb = "host.settings.set" => Sections(c) # {})
Starts(c, verbs) == call[c].pc = "idle" /\ Ask[c].verb \in verbs

Refuse(c) == Starts(c, Admins) /\ ~Admitted(c) /\ Fail(c) /\ Looks

-----------------------------------------------------------------------------
(* unraid.create: the row, then the key; without the key the row goes again,*)
(* by its name.                                                             *)
Row(c) == [routes |-> Ask[c].routes, enabled |-> TRUE, exists |-> TRUE]

InsertRow(c) ==
    /\ Starts(c, {"create"})
    /\ \/ Fail(c) /\ UNCHANGED <<row, raced, meant>>
       \/ /\ ~row[Ask[c].name].exists
          /\ row' = [row EXCEPT ![Ask[c].name] = Row(c)]
          /\ Goto(c, "key") /\ BeginsWriting(c) /\ Means(c, Row(c))
    /\ UNCHANGED <<key, world, budget>>

NeverUndone(c) == "failed"
OnKeyError(c) == IF Ask[c].verb = "create" THEN "undo" ELSE "failed"

(* The store may have taken the key although it reports an error.           *)
KeyStored(c) == Becomes(c, [call[c] EXCEPT !.pc = OnKeyError(c), !.did = @ \cup {"key"}])

SetKey(c) ==
    /\ call[c].pc = "key" /\ Ask[c].verb \in {"create", "update"}
    /\ \/ Goto(c, OnKeyError(c)) /\ UNCHANGED <<key, raced>>
       \/ /\ key' = [key EXCEPT ![Ask[c].name] = Ask[c].key]
          /\ Goto(c, "done") \/ KeyStored(c)
          /\ WritesName(c)
    /\ UNCHANGED <<row, world>> /\ Quietly

UndoRow(c) ==
    /\ call[c].pc = "undo"
    /\ row' \in {[row EXCEPT ![Ask[c].name] = NoRow], row}
    /\ Becomes(c, [call[c] EXCEPT !.pc = "failed", !.lost = row'[Ask[c].name].exists])
    /\ WritesName(c) /\ Means(c, NoRow)
    /\ UNCHANGED <<key, world, budget>>

(* unraid.update: the row is read, patched and written whole, then the key. *)
Patched(c, r) ==
    [r EXCEPT !.routes = IF Ask[c].routes # << >> THEN Ask[c].routes ELSE @,
              !.enabled = IF Ask[c].enabled # Keep THEN Ask[c].enabled = "yes" ELSE @]
ThenKey(c) == IF Ask[c].key # NoKey THEN "key" ELSE "done"

ReadRow(c) ==
    /\ Starts(c, {"update"})
    /\ LET old == row[Ask[c].name]
           pc == IF Ask[c].routes # << >> \/ Ask[c].enabled # Keep THEN "row" ELSE ThenKey(c)
       IN IF old.exists /\ (pc = "row" \/ Ask[c].key # NoKey)
          THEN Becomes(c, [call[c] EXCEPT !.pc = pc, !.row = Patched(c, old)]) /\ Begins(c)
          ELSE Fail(c) /\ UNCHANGED raced
    /\ UNCHANGED <<registry, world>> /\ Quietly

WriteRow(c) ==
    /\ call[c].pc = "row"
    /\ \/ Fail(c) /\ UNCHANGED <<row, raced, meant>>
       \/ /\ row[Ask[c].name].exists
          /\ row' = [row EXCEPT ![Ask[c].name] = call[c].row]
          /\ Becomes(c, [call[c] EXCEPT !.pc = ThenKey(c), !.did = {"row"}])
          /\ WritesName(c) /\ Means(c, Patched(c, meant[Ask[c].name]))
    /\ UNCHANGED <<key, world, budget>>

(* unraid.delete: the row, then the key.                                    *)
RemoveRow(c) ==
    /\ Starts(c, {"delete"})
    /\ \/ Fail(c) /\ UNCHANGED <<row, raced, meant>>
       \/ /\ row' = [row EXCEPT ![Ask[c].name] = NoRow]
          /\ Becomes(c, [call[c] EXCEPT !.pc = "unkey", !.did = {"row"}])
          /\ BeginsWriting(c) /\ Means(c, NoRow)
    /\ UNCHANGED <<key, world, budget>>

RemoveKey(c) ==
    /\ call[c].pc = "unkey"
    /\ \/ Fail(c) /\ UNCHANGED <<key, raced>>
       \/ /\ key' = [key EXCEPT ![Ask[c].name] = NoKey]
          /\ \E pc \in {"done", "failed"} : Goto(c, pc)
          /\ WritesName(c)
    /\ UNCHANGED <<row, world>> /\ Quietly

-----------------------------------------------------------------------------
(* surface_client: the row named, or the only one; its key; its first route *)
(* that answers, or loopback for a row that has none.                       *)
Registered == {n \in Names : row[n].exists}
Picks(c, n) ==
    /\ n \in Registered
    /\ Ask[c].name = NoName => Registered = {n}
    /\ Ask[c].name # NoName => Ask[c].name = n

(* A dry run of parity.control needs no client.                             *)
PickRow(c) ==
    /\ Starts(c, Remote) /\ (Ask[c].verb \in Admins => Admitted(c))
    /\ ~(Ask[c].verb = "vm.availability" /\ Ask[c].name = NoName /\ Registered = {})
    /\ IF Ask[c].verb = "parity.control" /\ ~Ask[c].execute THEN Goto(c, "done")
       ELSE IF \E n \in Names : Picks(c, n)
       THEN LET n == CHOOSE n \in Names : Picks(c, n)
            IN Becomes(c, [call[c] EXCEPT !.pc = "apikey", !.row = row[n], !.id = n])
       ELSE Fail(c)
    /\ Begins(c) /\ UNCHANGED <<registry, world>> /\ Quietly

HasKeyOrEmpty(n) == TRUE
HasKey(n) == key[n] # NoKey

ReadKey(c) ==
    /\ call[c].pc = "apikey"
    /\ IF HasKey(call[c].id)
       THEN Becomes(c, [call[c] EXCEPT !.pc = "route", !.key = key[call[c].id]])
       ELSE Fail(c)
    /\ Looks

Answering(routes) == {i \in DOMAIN routes : routes[i] \in up}
RoutesOrLoopback(routes) ==
    IF Answering(routes) = {} THEN {Here}
    ELSE {routes[i] : i \in {i \in Answering(routes) : \A j \in Answering(routes) : i <= j}}
Resolved(routes) ==
    IF routes = << >> THEN {Here}
    ELSE {routes[i] : i \in {i \in Answering(routes) : \A j \in Answering(routes) : i <= j}}

FirstRequest(c) ==
    CASE Ask[c].verb = "vm.power" -> "list"
      [] Ask[c].verb = "parity.control" -> "parity"
      [] Ask[c].verb = "vm.availability" -> "flags"
      [] Ask[c].verb = "ups.config_set" -> "ups"
      [] OTHER -> IF "ident" \in Sections(c) THEN "array?" ELSE "time?"

Resolve(c) ==
    /\ call[c].pc = "route"
    /\ \/ Fail(c)
       \/ \E h \in Resolved(call[c].row.routes) :
            Becomes(c, [call[c] EXCEPT !.pc = FirstRequest(c), !.url = h])
    /\ Looks

(* A request carries the key; it fails, or the host answers.                *)
Requests == {"list", "power", "parity", "array?", "ident?", "time?", "ident", "time", "ups", "flags",
             "manager"}
At(c) == host[call[c].url]
Answers(c) == call[c].url \in up

(* A mutation may take effect although its reply is lost; then the call     *)
(* ends as it does without the effect.                                      *)
Mutation(c, effect, what, next, error) ==
    /\ \/ Goto(c, error) /\ UNCHANGED <<host, raced>>
       \/ /\ Answers(c)
          /\ host' = [host EXCEPT ![call[c].url] = effect]
          /\ Writes(Made \ {c}, {<<what, call[c].url>>})
          /\ \E lost \in BOOLEAN :
               Becomes(c, [call[c] EXCEPT !.pc = IF lost THEN error ELSE next,
                                          !.did = @ \cup {what}, !.lost = lost])
    /\ UNCHANGED <<registry, stack, up>> /\ Quietly

-----------------------------------------------------------------------------
(* unraid.vm.power: an id counts before a name, and a name has to be one    *)
(* VM's only.                                                               *)
Target == [start |-> "running", stop |-> "off", force_stop |-> "off",
           reboot |-> "running", pause |-> "paused", resume |-> "running"]

NamedAny(vms, vm) == {v \in Vms : vms[v].name = vm}
Named(vms, vm) == IF vm \in Vms THEN {vm}
                  ELSE IF Cardinality(NamedAny(vms, vm)) = 1 THEN NamedAny(vms, vm) ELSE {}

ListVms(c) ==
    /\ call[c].pc = "list"
    /\ \/ Fail(c)
       \/ /\ Answers(c)
          /\ IF Named(At(c).vms, Ask[c].vm) = {} THEN Fail(c)
             ELSE \E v \in Named(At(c).vms, Ask[c].vm) :
                    Becomes(c, [call[c] EXCEPT !.pc = IF Ask[c].execute THEN "power" ELSE "done",
                                               !.answer = v])
    /\ Looks

PowerVm(c) ==
    /\ call[c].pc = "power"
    /\ Mutation(c, [At(c) EXCEPT !.vms[call[c].answer].state = Target[Ask[c].action]],
                "power", "done", "failed")

(* unraid.parity.control: a check writes to parity only when asked to.      *)
Correcting(action) == action = "start_correcting"
ControlParity(c) ==
    /\ call[c].pc = "parity"
    /\ LET check == IF Correcting(Ask[c].action) THEN "correcting" ELSE Ask[c].action
       IN Mutation(c, [At(c) EXCEPT !.parity = check], "parity", "done", "failed")

-----------------------------------------------------------------------------
(* ups.config_set names no endpoint: it takes an enabled one (the first in  *)
(* the registry's order, which is not known here).  Orca carries ms, the API*)
(* takes minutes; what is not passed is not sent, and stays.                *)
Enabled == {n \in Registered : row[n].enabled}

PickEnabled(c) ==
    /\ Starts(c, Capability)
    /\ IF Enabled = {} THEN Fail(c)
       ELSE \E n \in Enabled :
              Becomes(c, [call[c] EXCEPT !.pc = "apikey", !.row = row[n], !.id = n])
    /\ Begins(c) /\ UNCHANGED <<registry, world>> /\ Quietly

MsPerMinute == 60000
InUnits(asked) ==
    [f \in DOMAIN asked |-> IF f = "runtime" THEN asked[f] \div MsPerMinute ELSE asked[f]]
Configured(ups, sent) == [f \in DOMAIN ups |-> IF f \in DOMAIN sent THEN sent[f] ELSE ups[f]]

ConfigureUps(c) ==
    /\ call[c].pc = "ups"
    /\ Mutation(c, [At(c) EXCEPT !.ups = Configured(@, InUnits(Ask[c].ups))], "ups", "done", "failed")

-----------------------------------------------------------------------------
(* unraid.host.settings.set: the array's state, the current settings, which *)
(* fill what was not asked for, then identity and time.                     *)
FilledBlank(asked, current) == [f \in DOMAIN asked |-> IF asked[f] = Keep THEN "" ELSE asked[f]]
Filled(asked, current) == [f \in DOMAIN asked |-> IF asked[f] = Keep THEN current[f] ELSE asked[f]]

ReadArray(c) ==
    /\ call[c].pc = "array?"
    /\ \/ Fail(c)
       \/ Answers(c) /\ Becomes(c, [call[c] EXCEPT !.pc = "ident?", !.stopped = At(c).stopped])
    /\ Looks

ReadIdentity(c) ==
    /\ call[c].pc = "ident?"
    /\ \/ Fail(c)
       \/ /\ Answers(c)
          /\ Becomes(c, [call[c] EXCEPT !.pc = IF "time" \in Sections(c) THEN "time?" ELSE "decide",
                                        !.ident = Filled(Ask[c].ident, At(c).ident)])
    /\ Looks

ReadTime(c) ==
    /\ call[c].pc = "time?"
    /\ \/ Fail(c)
       \/ /\ Answers(c)
          /\ Becomes(c, [call[c] EXCEPT !.pc = "decide", !.time = Filled(Ask[c].time, At(c).time)])
    /\ Looks

IdentityAllowed(c) == "ident" \in Sections(c) => call[c].stopped

Decide(c) ==
    /\ call[c].pc = "decide"
    /\ IF ~Ask[c].execute THEN Goto(c, "done")
       ELSE IF ~IdentityAllowed(c) THEN Fail(c)
       ELSE Goto(c, IF "ident" \in Sections(c) THEN "ident" ELSE "time")
    /\ Looks

(* The API's own rule about the array is not known here: it may refuse.     *)
SetIdentity(c) ==
    /\ call[c].pc = "ident"
    /\ Mutation(c, [At(c) EXCEPT !.ident = call[c].ident], "ident",
                IF "time" \in Sections(c) THEN "time" ELSE "done", "failed")

PlainFailure(c) == "failed"
PartialApply(c) == IF "ident" \in call[c].did THEN "partial" ELSE "failed"

SetTime(c) ==
    /\ call[c].pc = "time"
    /\ Mutation(c, [At(c) EXCEPT !.time = call[c].time], "time", "done", PartialApply(c))

-----------------------------------------------------------------------------
(* unraid.vm.availability: a loopback endpoint that was not named is this    *)
(* machine, and so is no endpoint at all: what its API does not tell is     *)
(* probed here.                                                             *)
LocalAlways(c) == TRUE
Local(c) == Ask[c].name = NoName /\ call[c].url = Here

LocalView(c) ==
    /\ Starts(c, {"vm.availability"}) /\ Ask[c].name = NoName /\ Registered = {}
    /\ Goto(c, "mount")
    /\ Looks

Unanswered(c, next) == IF Local(c) THEN Goto(c, next) ELSE Fail(c)

AskFlags(c) ==
    /\ call[c].pc = "flags"
    /\ \/ Unanswered(c, "manager")
       \/ Answers(c) /\ Becomes(c, [call[c] EXCEPT !.pc = "manager", !.flags = At(c).flags])
    /\ Looks

(* A failed query counts as disabled when its text says so.                 *)
AskManager(c) ==
    /\ call[c].pc = "manager"
    /\ LET next == IF Local(c) THEN "mount" ELSE "assess"
       IN \/ Unanswered(c, next)
          \/ Answers(c) /\ Becomes(c, [call[c] EXCEPT !.pc = next, !.manager = At(c).manager])
    /\ Looks

(* probe: the mount of libvirt.img, the pid file, and who has that pid.     *)
ProbeMount(c) ==
    /\ call[c].pc = "mount"
    /\ IF stack.mounted THEN Goto(c, "pid")
       ELSE Becomes(c, [call[c] EXCEPT !.pc = "assess", !.answer = "unmounted"])
    /\ Looks

ProbePid(c) ==
    /\ call[c].pc = "pid"
    /\ IF stack.pidfile = 0 THEN Becomes(c, [call[c] EXCEPT !.pc = "assess", !.answer = "stopped"])
       ELSE Becomes(c, [call[c] EXCEPT !.pc = "comm", !.pid = stack.pidfile])
    /\ Looks

ProbeComm(c) ==
    /\ call[c].pc = "comm"
    /\ Becomes(c, [call[c] EXCEPT !.pc = "assess",
                     !.answer = IF stack.daemon = call[c].pid THEN "running" ELSE "stale"])
    /\ Looks

(* assess; cpuinfo is this machine's, and what the API says of it.  Where   *)
(* VMs are not available, the reason says what to do about it.              *)
Flags(c) == IF call[c].flags = "none" /\ Local(c) THEN host[Here].flags ELSE call[c].flags
DaemonFault(c) == call[c].answer \in {"stopped", "stale"}
Verdict(c) ==
    CASE Flags(c) = "no" -> "unsupported"
      [] call[c].answer = "running" \/ call[c].manager = "enabled" -> "available"
      [] call[c].manager = "none" /\ ~Local(c) -> "unknown"
      [] DaemonFault(c) -> "daemon"
      [] OTHER -> "disabled"

Assess(c) ==
    /\ call[c].pc = "assess" /\ Ask[c].verb = "vm.availability"
    /\ Becomes(c, [call[c] EXCEPT !.pc = "done", !.answer = Verdict(c)])
    /\ Looks

-----------------------------------------------------------------------------
(* unraid.vm.autostart: this machine's libvirt must be there; the change is *)
(* planned, and planned again by root, who makes it.                        *)
Wanted(c) == Ask[c].enabled = "yes"
NoChange(c) == stack.auto = Wanted(c)
VirshWorks == stack.mounted /\ stack.daemon # 0

RequireVms(c) ==
    \/ /\ Starts(c, {"vm.autostart"}) /\ IsAdmin(c)
       /\ Goto(c, "mount") /\ Looks
    \/ /\ call[c].pc = "assess" /\ Ask[c].verb = "vm.autostart"
       /\ IF Verdict(c) = "available" THEN Goto(c, "plan") ELSE Fail(c)
       /\ Looks

PlanAutostart(c) ==
    /\ call[c].pc = "plan"
    /\ \/ Fail(c)
       \/ /\ VirshWorks
          /\ Goto(c, IF NoChange(c) \/ ~Ask[c].execute THEN "done" ELSE "root")
    /\ Looks

PlanAsRoot(c) ==
    /\ call[c].pc = "root"
    /\ \/ Fail(c)
       \/ VirshWorks /\ Goto(c, IF NoChange(c) THEN "done" ELSE "set")
    /\ Looks

SetAutostart(c) ==
    /\ call[c].pc = "set"
    /\ \/ Fail(c) /\ UNCHANGED <<stack, raced>>
       \/ /\ VirshWorks /\ stack' = [stack EXCEPT !.auto = Wanted(c)]
          /\ \E lost \in BOOLEAN :
               Becomes(c, [call[c] EXCEPT !.pc = IF lost THEN "failed" ELSE "done",
                                          !.did = {"autostart"}, !.lost = lost])
          /\ Writes(Made \ {c}, {<<"autostart", Here>>})
    /\ UNCHANGED <<registry, host, up>> /\ Quietly

-----------------------------------------------------------------------------
(* Everybody else: people at the hosts' web interfaces, libvirt, networks.   *)
Acts == budget > 0 /\ budget' = budget - 1
Theirs(h, new, what) ==
    /\ Acts /\ host' = [host EXCEPT ![h] = new] /\ host' # host
    /\ Writes(Made, {<<what, h>>})
    /\ UNCHANGED <<registry, stack, up, call, meant>>
TheirStack(new, what) ==
    /\ Acts /\ stack' = new /\ stack' # stack
    /\ Writes(Made, what)
    /\ UNCHANGED <<registry, host, up, call, meant>>

SwitchArray(h) == Theirs(h, [host[h] EXCEPT !.stopped = ~@], "array")
EditIdentity(h) == Theirs(h, [host[h] EXCEPT !.ident.comment = "theirs"], "ident")
EditTime(h) == Theirs(h, [host[h] EXCEPT !.time.ntp = "theirs"], "time")
SwitchVms(h) == Theirs(h, [host[h] EXCEPT !.manager = IF @ = "enabled" THEN "disabled" ELSE "enabled"],
                       "manager")
FlipAutostart == TheirStack([stack EXCEPT !.auto = ~@], {<<"autostart", Here>>})
StopLibvirt == \E s \in {[stack EXCEPT !.daemon = 0], [stack EXCEPT !.daemon = 0, !.pidfile = 0]} :
                  TheirStack(s, {<<"stack", Here>>})
StartLibvirt == TheirStack([stack EXCEPT !.daemon = 3 - stack.pidfile, !.pidfile = 3 - stack.pidfile],
                           {<<"stack", Here>>})
GoUpOrDown(h) ==
    /\ Acts /\ up' = (up \ {h}) \cup ({h} \ up)
    /\ UNCHANGED <<registry, host, stack, call, meant, raced>>

-----------------------------------------------------------------------------
Init ==
    /\ \E s \in Scenarios :
         /\ row = s.row /\ key = s.key /\ host \in s.host /\ stack \in s.stack
         /\ up = s.up /\ budget = s.acts
         /\ call = [c \in s.calls |-> Idle]
    /\ meant = row
    /\ raced = [c \in Made |-> {}]

Registers(c) == InsertRow(c) \/ SetKey(c) \/ UndoRow(c) \/ ReadRow(c) \/ WriteRow(c)
                \/ RemoveRow(c) \/ RemoveKey(c)
Connects(c) == PickRow(c) \/ ReadKey(c) \/ Resolve(c)
Manages(c) == ListVms(c) \/ PowerVm(c) \/ ControlParity(c) \/ PickEnabled(c) \/ ConfigureUps(c)
Settles(c) == \/ ReadArray(c) \/ ReadIdentity(c) \/ ReadTime(c) \/ Decide(c)
              \/ SetIdentity(c) \/ SetTime(c)
Probes(c) == \/ LocalView(c) \/ AskFlags(c) \/ AskManager(c) \/ ProbeMount(c) \/ ProbePid(c)
             \/ ProbeComm(c) \/ Assess(c)
Autostarts(c) == RequireVms(c) \/ PlanAutostart(c) \/ PlanAsRoot(c) \/ SetAutostart(c)

Next ==
    \/ \E c \in Made : \/ Refuse(c) \/ Registers(c) \/ Connects(c) \/ Manages(c)
                       \/ Settles(c) \/ Probes(c) \/ Autostarts(c)
    \/ \E h \in Hosts : \/ SwitchArray(h) \/ EditIdentity(h) \/ EditTime(h) \/ SwitchVms(h)
                       \/ GoUpOrDown(h)
    \/ FlipAutostart \/ StopLibvirt \/ StartLibvirt

Spec == Init /\ [][Next]_vars

-----------------------------------------------------------------------------
(* Properties.                                                              *)
(* Values stay in their domains, and only a call that found an endpoint,    *)
(* read its key and resolved a route has a request to send.                 *)
TypeOK ==
    /\ key \in [Names -> Keys \cup {NoKey}] /\ up \subseteq Hosts
    /\ \A n \in Names : row[n].exists \in BOOLEAN /\ (~row[n].exists => row[n] = NoRow)
    /\ \A c \in Made :
         /\ call[c].pc \in Requests => call[c].id \in Names /\ call[c].key \in Keys
         /\ call[c].url \in Hosts
         /\ call[c].pc = "partial" => Ask[c].verb = "host.settings.set"
    /\ \A n \in Names : meant[n].exists \in BOOLEAN

(* "A remote endpoint's key would be sent to this host" (resolve_config):   *)
(* whatever routes stop answering and whatever is written to other rows, a  *)
(* request carries a key only to the host that minted it, unless the        *)
(* endpoint itself was being rewritten while the call read it, or had been  *)
(* rewritten by overlapping calls: an update that writes the row it read    *)
(* over another's leaves that one's key with other routes.                  *)
KeyGoesHome ==
    /\ TypeOK
    /\ \A c \in Made :
        call[c].pc \in Requests /\ <<"row", call[c].id>> \notin raced[c] => call[c].url = HomeOf[call[c].key]

(* Create, update and delete write a row and a key, one after the other.    *)
(* Where they did not overlap, and none failed with its row written, the row*)
(* is what they asked for together and has a key, and a key without a row is*)
(* one that a failed create had stored although the store reported an error:*)
(* create takes back the row only.                                          *)
Settled(n) == \A d \in Made : Unsettled(d) => Ask[d].name # n
KeyLeft(n) ==
    \E d \in Made : /\ Ask[d].verb = "create" /\ Ask[d].name = n
                   /\ call[d].pc = "failed" /\ "key" \in call[d].did
RegistryAgrees ==
    \A n \in Names : Settled(n) =>
        /\ row[n] = meant[n] /\ (row[n].exists => key[n] # NoKey)
        /\ key[n] # NoKey => row[n].exists \/ KeyLeft(n)

(* A verb does what it says.  What it changes on a host is what was asked,  *)
(* by an admin and with `execute` where the verb wants that, on the machine *)
(* it resolved: one VM's state, the parity check asked for, and of identity,*)
(* time and UPS settings only the fields that were passed ("the rest are    *)
(* left `None` so Unraid preserves them"), the identity only while the array*)
(* is stopped.  Somebody who wrote the same thing meanwhile excuses a field *)
(* that was not asked for.                                                  *)
Kept(c, what, asked, old, new) ==
    \A f \in DOMAIN asked :
        IF asked[f] # Keep THEN new[f] = asked[f]
        ELSE new[f] = old[f] \/ <<what, call[c].url>> \in raced[c]
InMinutes(f, asked, set) ==
    IF f = "runtime" THEN set * 60000 <= asked /\ asked < (set + 1) * 60000 ELSE set = asked
Changes(c, old, new) ==
    \/ /\ Ask[c].verb = "vm.power"
       /\ \E v \in Named(old.vms, Ask[c].vm) :
            new = [old EXCEPT !.vms[v].state = Target[Ask[c].action]]
    \/ /\ Ask[c].verb = "parity.control" /\ new = [old EXCEPT !.parity = new.parity]
       /\ new.parity = "correcting" <=> Ask[c].action = "start_correcting"
    \/ /\ Ask[c].verb = "host.settings.set"
       /\ new = [old EXCEPT !.ident = new.ident, !.time = new.time]
       /\ new.ident # old.ident => /\ old.stopped \/ <<"array", call[c].url>> \in raced[c]
                                   /\ Kept(c, "ident", Ask[c].ident, old.ident, new.ident)
       /\ new.time # old.time => Kept(c, "time", Ask[c].time, old.time, new.time)
    \/ /\ Ask[c].verb = "ups.config_set" /\ new = [old EXCEPT !.ups = new.ups]
       /\ row[call[c].id].enabled \/ <<"row", call[c].id>> \in raced[c]
       /\ \A f \in DOMAIN old.ups :
            IF f \in DOMAIN Ask[c].ups THEN InMinutes(f, Ask[c].ups[f], new.ups[f])
            ELSE new.ups[f] = old.ups[f]
ChangesAsAsked ==
    \A h \in Hosts : host'[h] # host[h] /\ call' # call =>
        \E c \in Made : /\ call'[c] # call[c] /\ call[c].url = h
                        /\ Ask[c].verb \in Admins => Ask[c].caller = "admin" /\ Ask[c].execute
                        /\ Changes(c, host[h], host'[h])

(* How a call ends says what it did.  Done: a dry run did nothing, and a    *)
(* real run left what was asked for, unless somebody else wrote it          *)
(* meanwhile.  Failed: it did nothing, or one reply was lost.  Partial: the *)
(* identity is changed and the time may not be.                             *)
Holds(c, hosts, st) ==
    LET h == hosts[call[c].url]
        free(what) == <<what, call[c].url>> \notin raced[c]
    IN CASE Ask[c].verb = "vm.power" ->
              free("power") => h.vms[call[c].answer].state = Target[Ask[c].action]
         [] Ask[c].verb = "host.settings.set" ->
              /\ free("ident") => \A f \in DOMAIN Ask[c].ident : Ask[c].ident[f] \in {Keep, h.ident[f]}
              /\ free("time") => \A f \in DOMAIN Ask[c].time : Ask[c].time[f] \in {Keep, h.time[f]}
         [] Ask[c].verb = "ups.config_set" ->
              free("ups") => \A f \in DOMAIN Ask[c].ups : InMinutes(f, Ask[c].ups[f], h.ups[f])
         [] Ask[c].verb = "vm.autostart" -> <<"autostart", Here>> \notin raced[c] => st.auto = Wanted(c)
         [] OTHER -> TRUE
SaysWhatItDid ==
    \A c \in Made : Ask[c].verb \in Admins \cup Capability /\ call'[c].pc # call[c].pc =>
        LET end == call'[c]
            dry == Ask[c].verb \in Admins /\ ~Ask[c].execute
        IN CASE end.pc = "done" /\ ~dry -> Holds(c, host', stack')
             [] end.pc = "done" /\ dry -> end.did = {}
             [] end.pc = "failed" -> end.did = {} \/ end.lost
             [] end.pc = "partial" -> "ident" \in end.did /\ "time" \in Sections(c)
             [] OTHER -> TRUE

(* ChangesAsAsked and SaysWhatItDid: what was asked, and no other outcome.  *)
DoesWhatItSays == [][ChangesAsAsked /\ SaysWhatItDid]_vars

(* "A remote endpoint is answered from its API alone, since probing this    *)
(* box would describe the wrong machine": VMs are available where the VM    *)
(* manager of the machine asked about runs, or, asked about this one, where *)
(* libvirtd runs here; unless that changed while it was looked at.          *)
AvailableIsAsked ==
    [][\A c \in Made :
         /\ call[c].pc = "assess"
         /\ \/ call'[c].pc = "done" /\ call'[c].answer = "available"
            \/ call'[c].pc = "plan"
         => \/ /\ call[c].id # NoName
               /\ \/ host[call[c].url].manager = "enabled"
                  \/ <<"manager", call[c].url>> \in raced[c]
            \/ /\ Ask[c].name = NoName /\ call[c].url = Here
               /\ stack.daemon # 0 \/ <<"stack", Here>> \in raced[c]]_vars

=============================================================================

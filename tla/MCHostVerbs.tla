----------------------------- MODULE MCHostVerbs -----------------------------
(* Two endpoints: "attic", this machine's own over loopback, and "tower",   *)
(* another machine.  Each scenario is a few calls made at once, with what   *)
(* they find and how often others act while they run.                       *)
EXTENDS HostVerbs, TLC

CONSTANTS here, there, kHere, kThere, kNew, v1, v2

MCNames == {"tower", "attic"}
MCHome == (kHere :> here) @@ (kThere :> there) @@ (kNew :> there)

Settings(zone, ntp) == [zone |-> zone, ntp |-> ntp]
Identity(name, comment) == [name |-> name, comment |-> comment]
Registering(verb, routes, enabled, k) ==
    [verb |-> verb, name |-> "tower", routes |-> routes, enabled |-> enabled, key |-> k]
Power(caller, execute, name, vm, action) ==
    [verb |-> "vm.power", caller |-> caller, execute |-> execute, name |-> name, vm |-> vm,
     action |-> action]
Parity(execute, action) ==
    [verb |-> "parity.control", caller |-> "admin", execute |-> execute, name |-> "tower",
     action |-> action]
Set(execute, ident, time) ==
    [verb |-> "host.settings.set", caller |-> "admin", execute |-> execute, name |-> NoName,
     ident |-> ident, time |-> time]
Autostart(execute, enabled) ==
    [verb |-> "vm.autostart", caller |-> "admin", execute |-> execute, name |-> NoName,
     enabled |-> enabled]
Ups(asked) == [verb |-> "ups.config_set", ups |-> asked]
Availability(name) == [verb |-> "vm.availability", name |-> name]

MCAsk ==
    [ create |-> Registering("create", << there >>, Keep, kThere),
      move |-> Registering("update", << here >>, Keep, kHere),
      disable |-> Registering("update", << >>, "no", NoKey),
      rekey |-> Registering("update", << >>, Keep, kNew),
      nothing |-> Registering("update", << >>, Keep, NoKey),
      delete |-> Registering("delete", << >>, Keep, NoKey),
      byname |-> Power("admin", TRUE, "tower", "win", "stop"),
      byid |-> Power("admin", TRUE, NoName, v2, "start"),
      dry |-> Power("admin", FALSE, "tower", v1, "stop"),
      user |-> Power("user", TRUE, "tower", v1, "stop"),
      correct |-> Parity(TRUE, "start_correcting"),
      check |-> Parity(TRUE, "start"),
      drycheck |-> Parity(FALSE, "start_correcting"),
      both |-> Set(TRUE, Identity("new", Keep), Settings(Keep, "ours")),
      zone |-> Set(TRUE, << >>, Settings("utc", Keep)),
      comment |-> Set(TRUE, Identity(Keep, "ours"), << >>),
      planned |-> Set(FALSE, Identity("new", Keep), Settings("utc", Keep)),
      unasked |-> Set(TRUE, << >>, << >>),
      on |-> Autostart(TRUE, "yes"),
      off |-> Autostart(TRUE, "no"),
      maybe |-> Autostart(FALSE, "yes"),
      level |-> Ups([level |-> 20]),
      runtime |-> Ups([runtime |-> 90000]),
      any |-> Availability(NoName),
      attic |-> Availability("attic"),
      tower |-> Availability("tower") ]
MCCalls == DOMAIN MCAsk

Machine(stopped, manager, flags, names) ==
    [stopped |-> stopped, ident |-> Identity("old", "old"), time |-> Settings("old", "old"),
     manager |-> manager, flags |-> flags, parity |-> "idle",
     ups |-> [level |-> 10, runtime |-> 5],
     vms |-> [v \in Vms |-> [name |-> names[v], state |-> "running"]]]
Apart == (v1 :> "win") @@ (v2 :> "linux")
Alike == [v \in Vms |-> "win"]
Stopped(there_) == [h \in Hosts |-> IF h = there THEN there_ ELSE Machine(TRUE, "enabled", "yes", Apart)]
OneHost == {Stopped(Machine(TRUE, "enabled", "yes", Apart))}
TwoNames == {Stopped(Machine(TRUE, "enabled", "yes", n)) : n \in {Apart, Alike}}
AnyHost == {[h \in Hosts |-> Machine(TRUE, m[h], f, Apart)] :
               m \in [Hosts -> {"enabled", "disabled"}], f \in {"yes", "no"}}

Libvirt(mounted, pidfile, daemon) ==
    [mounted |-> mounted, pidfile |-> pidfile, daemon |-> daemon, auto |-> FALSE]
Up == {Libvirt(TRUE, 1, 1)}
AnyStack == {Libvirt(TRUE, 1, 1), Libvirt(TRUE, 1, 0), Libvirt(TRUE, 0, 0), Libvirt(FALSE, 0, 0)}

None == [n \in Names |-> NoRow]
Endpoint(routes) == [routes |-> routes, enabled |-> TRUE, exists |-> TRUE]
Tower == [None EXCEPT !["tower"] = Endpoint(<< there >>)]
Attic == [None EXCEPT !["attic"] = Endpoint(<< >>)]
Both == [Tower EXCEPT !["attic"] = Endpoint(<< >>)]
KeysOf(rows) == [n \in Names |-> IF ~rows[n].exists THEN NoKey
                                 ELSE IF n = "tower" THEN kThere ELSE kHere]

Scene(calls, rows, hosts, stacks, acts) ==
    [calls |-> calls, row |-> rows, key |-> KeysOf(rows), host |-> hosts, stack |-> stacks,
     up |-> Hosts, acts |-> acts]
MCScenarios ==
    { Scene({"create", "move", "disable", "delete"}, None, OneHost, Up, 0),
      Scene({"disable", "rekey", "nothing"}, Tower, OneHost, Up, 0),
      Scene({"create", "delete", "tower"}, Attic, OneHost, Up, 1),
      Scene({"move", "byname"}, Tower, TwoNames, Up, 1),
      Scene({"rekey", "byname"}, Tower, OneHost, Up, 0),
      Scene({"move", "disable", "byname"}, Tower, OneHost, Up, 0),
      Scene({"byname", "dry", "user"}, Tower, TwoNames, Up, 1),
      Scene({"byid", "byname"}, Both, OneHost, Up, 1),
      Scene({"byid", "byname"}, Tower, OneHost, Up, 1),
      Scene({"correct", "check", "drycheck"}, Both, OneHost, Up, 1),
      Scene({"both", "zone"}, Tower, OneHost, Up, 1),
      Scene({"both", "comment"}, Tower, OneHost, Up, 1),
      Scene({"planned", "comment", "unasked"}, Tower, OneHost, Up, 1),
      Scene({"level", "runtime"}, Tower, OneHost, Up, 1),
      Scene({"runtime", "disable"}, Both, OneHost, Up, 1),
      Scene({"any"}, Tower, AnyHost, AnyStack, 1),
      Scene({"tower"}, Tower, AnyHost, AnyStack, 1),
      Scene({"any"}, Attic, AnyHost, AnyStack, 2),
      Scene({"attic"}, Attic, AnyHost, AnyStack, 1),
      Scene({"any"}, None, AnyHost, AnyStack, 1),
      Scene({"on", "off"}, None, OneHost, AnyStack, 1),
      Scene({"on", "maybe"}, None, OneHost, AnyStack, 1) }
=============================================================================

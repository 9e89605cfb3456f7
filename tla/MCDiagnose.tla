----------------------------- MODULE MCDiagnose -----------------------------
EXTENDS Diagnose

CONSTANTS p1, p2, e1, e2, z1

MCPids == <<p1, p2>>
MCEndpoints == <<e1, e2>>
MCPools == <<z1>>

Proc(state, wait, container) == [state |-> state, wait |-> wait, container |-> container]
Export(path, fuse, fsid, default, clients) ==
    [path |-> path, fuse |-> fuse, fsid |-> fsid, default |-> default, clients |-> clients]
Share(name, guest, valid, writeable, writers) ==
    [name |-> name, guest |-> guest, valid |-> valid, writeable |-> writeable,
     writers |-> writers]
Device(name, parity, status, errors, used, warning, critical) ==
    [name |-> name, parity |-> parity, status |-> status, errors |-> errors, used |-> used,
     warning |-> warning, critical |-> critical]

Exports == {[ok |-> TRUE, table |-> t] : t \in
    {{Export("a", TRUE, "1", "none", {"plain"})},
     {Export("a", TRUE, "1", "squash", {}), Export("b", TRUE, "1", "none", {"plain"})},
     {Export("a", TRUE, "1", "squash", {"plain"}), Export("b", TRUE, "none", "none", {"plain"})},
     {Export("a", FALSE, "none", "none", {"plain", "squash"})}}}
    \cup {[ok |-> FALSE, table |-> {}]}

Shares == {[ok |-> TRUE, account |-> a, table |-> t] : a \in {"", "guest"}, t \in
    {{Share("s", FALSE, {}, TRUE, {})},
     {Share("s", TRUE, {"u"}, TRUE, {"nobody"})},
     {Share("s", TRUE, {}, FALSE, {"nobody"})},
     {Share("s", TRUE, {}, TRUE, {})}}}
    \cup {[ok |-> FALSE, account |-> "", table |-> {}]}

Extras == {[ok |-> TRUE, account |-> "", table |-> t] : t \in {{}, {Share("x", TRUE, {}, TRUE, {})}}}
    \cup {[ok |-> FALSE, account |-> "", table |-> {}]}

Arrays == {[ok |-> TRUE, devices |-> d] : d \in
    {{Device("d", FALSE, "DISK_OK", 0, 80, 0, 0), Device("p", TRUE, "DISK_OK", 0, 99, 0, 0)},
     {Device("d", FALSE, "DISK_NEW", 0, 90, 0, 0), Device("p", TRUE, "DISK_DSBL", 0, -1, 0, 0)},
     {Device("d", FALSE, "DISK_OK", 2, 80, 70, 80)},
     {Device("d", FALSE, "DISK_NP", 0, -1, 70, 80), Device("p", TRUE, "DISK_OK", 1, -1, 0, 0)},
     {Device("d", FALSE, "other", 0, 95, 98, 95)}}}
    \cup {[ok |-> FALSE, devices |-> {}]}

Idents == {[ok |-> TRUE, ntp |-> n, servers |-> s, zone |-> z] :
            n \in BOOLEAN, s \in {{}, {"a"}}, z \in BOOLEAN}
    \cup {[ok |-> FALSE, ntp |-> TRUE, servers |-> {"a"}, zone |-> TRUE]}

Mounts == SUBSET {[at |-> "m", opts |-> {"posix"}, smb3 |-> FALSE],
                  [at |-> "n", opts |-> {"posix"}, smb3 |-> TRUE],
                  [at |-> "o", opts |-> {"mapchars"}, smb3 |-> FALSE]}

Vmdefs == {[err |-> "none", defs |-> {}, auto |-> {}],
           [err |-> "none", defs |-> {"v"}, auto |-> {}],
           [err |-> "none", defs |-> {"v"}, auto |-> {"v"}],
           [err |-> "missing", defs |-> {}, auto |-> {}],
           [err |-> "unreadable", defs |-> {}, auto |-> {}]}

Mdstats == {[read |-> r, resync |-> 0, pos |-> 0] : r \in {"missing", "unreadable"}}
    \cup {[read |-> "text", resync |-> r, pos |-> p] : r, p \in {0, 1}}

MCValues == [s \in Sites |->
    CASE s[1] = "fd" -> {"none", "array", "unreadable"}
      [] s[1] = "rows" -> {[ok |-> TRUE, enabled |-> x] : x \in SUBSET {e1, e2}}
                              \cup {[ok |-> FALSE, enabled |-> {}]}
      [] s[1] \in {"key", "image"} -> BOOLEAN
      [] s[1] = "docker" -> {"quiet", "auto", "fails"}
      [] s[1] = "vms" -> {"quiet", "running", "disabled", "fails"}
      [] s[1] = "history" -> {"idle", "running", "fails"}
      [] s[1] = "array" -> Arrays
      [] s[1] = "pool" -> {"ONLINE", "DEGRADED", "FAULTED", "absent", "unreadable"}
      [] s[1] = "mounts" -> Mounts
      [] s[1] = "daemon" -> {"running", "stopped", "stale"}
      [] s[1] = "exports" -> Exports
      [] s[1] = "vmdefs" -> Vmdefs
      [] s[1] = "proc" -> {Proc("gone", "none", FALSE), Proc("D", "fuse", TRUE),
                           Proc("D", "disk", FALSE), Proc("Z", "none", TRUE),
                           Proc("Z", "none", FALSE)}
      [] s[1] = "wchan" -> [wchan : BOOLEAN, stack : BOOLEAN]
      [] s[1] = "shfs" -> 0..2
      [] s[1] = "mdstat" -> Mdstats
      [] s[1] = "load" -> {"below", "above"}
      [] s[1] = "ident" -> Idents
      [] s[1] = "shares" -> Shares
      [] s[1] = "extra" -> Extras]

MCUsual == [s \in Sites |->
    CASE s[1] = "fd" -> "none"
      [] s[1] = "rows" -> [ok |-> TRUE, enabled |-> {e1, e2}]
      [] s[1] \in {"key", "image"} -> TRUE
      [] s[1] \in {"docker", "vms"} -> "quiet"
      [] s[1] = "history" -> "idle"
      [] s[1] = "array" -> CHOOSE a \in Arrays : \E d \in a.devices : d.used = 99
      [] s[1] = "pool" -> "ONLINE"
      [] s[1] = "mounts" -> {}
      [] s[1] = "daemon" -> "running"
      [] s[1] = "exports" -> [ok |-> TRUE, table |-> {}]
      [] s[1] = "vmdefs" -> [err |-> "none", defs |-> {}, auto |-> {}]
      [] s[1] = "proc" -> Proc("gone", "none", FALSE)
      [] s[1] = "wchan" -> [wchan |-> TRUE, stack |-> FALSE]
      [] s[1] = "shfs" -> 0
      [] s[1] = "mdstat" -> [read |-> "text", resync |-> 0, pos |-> 0]
      [] s[1] = "load" -> "below"
      [] s[1] = "ident" -> [ok |-> TRUE, ntp |-> TRUE, servers |-> {"a"}, zone |-> TRUE]
      [] s[1] \in {"shares", "extra"} -> [ok |-> TRUE, account |-> "", table |-> {}]]

Kinds(k) == {s \in Sites : s[1] \in k}
Of(e, k) == {<<x, e>> : x \in k}

MCFocuses ==
    {Of(p1, {"proc"}) \cup Kinds({"wchan", "shfs"}),
     Kinds({"proc"}),
     Kinds({"fd"}),
     Kinds({"docker"}), Of(e1, {"docker", "vms", "key"}), Of(e1, {"docker"}) \cup Of(e2, {"vms", "key"}),
     Kinds({"rows", "key"}),
     Kinds({"rows", "history"}),
     Kinds({"array"}), Of(e1, {"array", "key"}),
     Kinds({"pool", "mounts"}),
     Kinds({"image", "daemon"}), Kinds({"image", "vmdefs"}),
     Kinds({"exports"}), Kinds({"mdstat", "load"}), Kinds({"ident"}),
     Kinds({"shares", "extra"})}
=============================================================================

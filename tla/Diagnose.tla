------------------------------ MODULE Diagnose ------------------------------
(***************************************************************************)
(* One pass of diagnostics.diagnose over a host that changes while it is   *)
(* read.  The pass is a fixed order of reads, none atomic with another;    *)
(* the report is computed from what the reads brought back.  The checks of *)
(* the flash configuration are FlashConfig's.                              *)
(***************************************************************************)
EXTENDS Integers, SequencesExt

CONSTANTS
    Pids,           \* pids of /proc, in the order of its directory
    Endpoints,      \* endpoint rows, in the order of the registry
    Pools,          \* imported ZFS pools, in the order of the kstat tree
    Values,         \* what each site of the host can hold
    Usual,          \* what each site holds on a healthy host
    Focuses,        \* sets of sites that may be otherwise, and may change
    EditBudget,     \* changes of the host during the pass
    BusyTicks       \* shfs ticks between two samples that are reported

VARIABLES
    host,           \* what each site holds now
    focus,          \* the sites that may change
    ever,           \* what each site has held since the pass began
    next,           \* the read the pass makes next; 0 before it begins
    edits,          \* changes of the host during the pass
    got             \* what the reads brought back

vars == <<host, focus, ever, next, edits, got>>

-----------------------------------------------------------------------------
(* The reads of the pass, in the order of diagnose_typed.  A read is named *)
(* by its check and its site, a site by its kind and its subject.          *)

Over(check, kind, subjects) ==
    [i \in DOMAIN subjects |-> <<check, <<kind, subjects[i]>>>>]

On(check, kind) == << <<check, <<kind, "host">>>> >>

\* read_proc: stat first, then, of a process in D or Z, where it waits.
Scan(stat, wait, ticks) ==
    FlattenSeq([i \in DOMAIN Pids |-> << <<stat, <<"proc", Pids[i]>>>>,
                                         <<wait, <<"proc", Pids[i]>>>> >>])
        \o On(ticks, "shfs")

Autostart ==
    On("autostart", "rows")
        \o FlattenSeq([i \in DOMAIN Endpoints |->
                         [j \in 1..3 |-> <<"autostart", <<<<"key", "docker", "vms">>[j],
                                                          Endpoints[i]>>>>]])

Unclean ==
    On("unclean", "rows") \o Over("unclean", "key", Endpoints)
        \o Over("unclean", "history", Endpoints)

Api ==
    On("api", "rows") \o Over("api", "key", Endpoints)
        \o Over("api", "vms", Endpoints) \o Over("api", "array", Endpoints)

Plan ==
    Over("blockers", "fd", Pids) \o Autostart \o Unclean
        \o Over("zfs", "pool", Pools) \o On("cifs", "mounts")
        \o On("libvirt", "image") \o On("libvirt", "daemon")
        \o On("nfs", "exports")
        \o On("inventory", "image") \o On("auto", "vmdefs") \o On("inventory", "vmdefs")
        \o Scan("stat1", "wait1", "ticks1")
        \o Scan("stat2", "wait2", "ticks2")
        \o On("parity", "mdstat") \o On("parity", "load")
        \o On("settings", "ident") \o On("smb", "shares") \o On("smb", "extra")
        \o Api

Sites == {Plan[i][2] : i \in DOMAIN Plan} \cup {<<"wchan", "host">>}

Made(check, site) == <<check, site>> \in DOMAIN got
Got(check, site) == got[<<check, site>>]
Host(check, kind) == Got(check, <<kind, "host">>)

Rows(check) == IF Host(check, "rows").ok THEN Host(check, "rows").enabled ELSE {}

FirstOf(enabled) ==
    LET i == CHOOSE i \in DOMAIN Endpoints :
                /\ Endpoints[i] \in enabled
                /\ \A j \in 1..(i - 1) : Endpoints[j] \notin enabled
    IN  Endpoints[i]

\* resolve_config of an enabled endpoint gave a client.
Resolved(check, e) == Made(check, <<"key", e>>) /\ Got(check, <<"key", e>>)

\* scan: the processes a sample keeps.
Sampled(stat) ==
    {p \in ToSet(Pids) : /\ Made(stat, <<"proc", p>>)
                         /\ Got(stat, <<"proc", p>>).state \in {"D", "Z"}}

\* parse_mdstat: mdResyncAction outlives the operation and decides nothing.
Resync(md) ==
    IF md.read # "text" THEN md.read
    ELSE IF md.resync > 0 THEN "running" ELSE IF md.pos > 0 THEN "paused" ELSE "idle"

Ticks(sample) == Host(sample, "shfs")

\* dstate::check: without a process in D or Z or an shfs, no second sample.
SampleAgain == Sampled("stat1") # {} \/ Ticks("ticks1") > 0

\* The early returns: what a check has read decides whether it reads on.
Wanted(check, site) ==
    LET kind == site[1]
        of == site[2]
    IN  CASE kind = "key" /\ check = "unclean" ->
                    Rows(check) # {} /\ of = FirstOf(Rows(check))
          [] kind = "key" /\ check # "unclean" -> of \in Rows(check)
          [] kind \in {"docker", "vms", "history", "array"} -> Resolved(check, of)
          [] kind \in {"daemon", "vmdefs"} ->
                    Host(IF kind = "daemon" THEN "libvirt" ELSE "inventory", "image")
          [] check = "wait1" -> of \in Sampled("stat1")
          [] check = "wait2" -> of \in Sampled("stat2")
          [] check \in {"stat2", "ticks2"} -> SampleAgain
          [] kind = "load" -> Resync(Host("parity", "mdstat")) = "running"
          [] kind = "extra" -> Host("smb", "shares").ok
          [] OTHER -> TRUE

\* classify: the wait channel a process shows, or that it shows none.
FuseWait(p, seen) ==
    LET waits == p.state = "D"
        wchan == IF waits /\ seen.wchan THEN p.wait ELSE "opaque"
        stack == IF ~seen.stack \/ p.state = "gone" THEN "unreadable"
                 ELSE IF waits THEN p.wait ELSE "none"
    IN  IF "fuse" \in {wchan, stack} THEN "yes"
        ELSE IF wchan = "opaque" /\ stack = "unreadable" THEN "unknown"
        ELSE "no"

\* What a read of a site brings back.
Seen(check, site) ==
    IF check \in {"wait1", "wait2"}
    THEN [fuse |-> FuseWait(host[site], host[<<"wchan", "host">>]),
          container |-> host[site].container]
    ELSE host[site]

-----------------------------------------------------------------------------
(* The pass, and the host under it.  Before the pass the focus of the host *)
(* comes to hold anything; during it, it changes EditBudget times.         *)

Init ==
    /\ focus \in Focuses
    /\ host = Usual
    /\ ever = << >>
    /\ next = 0
    /\ edits = 0
    /\ got = << >>

Turn(site) ==
    /\ \E v \in Values[site] \ {host[site]} :
          /\ host' = [host EXCEPT ![site] = v]
          /\ ever' = IF next = 0 THEN ever ELSE [ever EXCEPT ![site] = @ \cup {v}]
    /\ IF next = 0 THEN UNCHANGED edits ELSE edits < EditBudget /\ edits' = edits + 1
    /\ UNCHANGED <<focus, next, got>>

Begin ==
    /\ next = 0
    /\ next' = 1
    /\ ever' = [s \in Sites |-> {host[s]}]
    /\ UNCHANGED <<host, focus, edits, got>>

Done == next > Len(Plan)

Read ==
    /\ next > 0
    /\ ~Done
    /\ LET check == Plan[next][1]
           site == Plan[next][2]
       IN  got' = IF Wanted(check, site) THEN got @@ (<<check, site>> :> Seen(check, site))
                  ELSE got
    /\ next' = next + 1
    /\ UNCHANGED <<host, focus, ever, edits>>

Next ==
    \/ Begin
    \/ Read
    \/ ~Done /\ \E s \in focus : Turn(s)

Spec == Init /\ [][Next]_vars

-----------------------------------------------------------------------------
(* The findings.  One names what it is about (`of`) and what it accuses.   *)

None == "none"

Finding(id, of, sev, names) == [id |-> id, of |-> of, sev |-> sev, names |-> names]

\* A finding that is fine unless it has something to name.
Unless(id, sev, names) ==
    {Finding(id, None, IF names = {} THEN "Ok" ELSE sev, names)}

\* array_fd_blockers: what cannot be listed is passed over.
Blockers == {s \in {"fd"} \X ToSet(Pids) : Got("blockers", s) = "array"}

BlockerFinding == Unless("array-unmount-blockers", "Warn", Blockers)

\* collect_autostart, over every enabled endpoint.
Offenders ==
    {s \in {"docker", "vms"} \X ToSet(Endpoints) :
        Made("autostart", s) /\ Got("autostart", s) \in {"auto", "running"}}

UnansweredIfAll ==
    IF \A e \in Rows("autostart") : ~Got("autostart", <<"key", e>>)
    THEN {"key"} \X Rows("autostart") ELSE {}
Unanswered ==
    {s \in {"key", "docker", "vms"} \X Rows("autostart") :
        IF s[1] = "key" THEN ~Got("autostart", s)
        ELSE Made("autostart", s) /\ Got("autostart", s) = "fails"}

AutostartFinding ==
    IF Rows("autostart") = {} THEN {}
    ELSE {Finding("docker-vm-autostart", None,
                  IF Offenders = {} /\ Unanswered = {} THEN "Ok" ELSE "Info", Offenders)}

UncleanFinding ==
    {Finding("unclean-shutdown", None, "Info", {<<"history", e>>}) :
        e \in {e \in Rows("unclean") : /\ Made("unclean", <<"history", e>>)
                                       /\ Got("unclean", <<"history", e>>) = "running"}}

\* pool_states: a pool whose state cannot be read is passed over.
PoolStates ==
    {s \in {"pool"} \X ToSet(Pools) : Got("zfs", s) \notin {"absent", "unreadable"}}

PoolSeverity(state) ==
    CASE state = "ONLINE" -> "Ok" [] state = "DEGRADED" -> "Warn" [] OTHER -> "Crit"

ZfsFindings ==
    {Finding("zfs-pool-state", s[2], PoolSeverity(Got("zfs", s)), {s}) : s \in PoolStates}

MapsReserved(m) == m.opts \cap {"mapposix", "mapchars"} # {} \/ ("posix" \in m.opts /\ m.smb3)

CifsFindings ==
    LET bad == {m \in Host("cifs", "mounts") : ~MapsReserved(m)}
    IN  (IF bad # Host("cifs", "mounts") THEN {Finding("cifs-mapposix", None, "Ok", {})} ELSE {})
        \cup
        (IF bad # {} THEN {Finding("cifs-no-mapposix", None, "Warn", {<<"mount", m.at>> : m \in bad})}
         ELSE {})

\* libvirt_stack::check: silent when VM Manager is off.
LibvirtFinding ==
    {Finding("libvirt-stack", None, IF d = "running" THEN "Ok" ELSE "Warn",
             IF d = "running" THEN {} ELSE {<<"daemon", "host">>}) :
        d \in {d \in {"running", "stopped", "stale"} :
                 Host("libvirt", "image") /\ d = Host("libvirt", "daemon")}}

\* parse_line: a default group squashes the clients that follow it.
SquashedClients(x) == IF x.default = "squash" THEN x.clients ELSE x.clients \cap {"squash"}

Duplicated(xs) == {x \in xs : x.fsid # None /\ \E y \in xs \ {x} : y.fsid = x.fsid}

NfsFindings ==
    LET xs == Host("nfs", "exports").table
        squashed == {x \in xs : SquashedClients(x) # {}}
        noFsid == {x \in xs : x.fsid = None /\ x.fuse}
        named(set) == {<<"export", x.path>> : x \in set}
    IN  IF ~Host("nfs", "exports").ok \/ xs = {} THEN {}
        ELSE Unless("nfs-all-squash", "Warn", named(squashed))
             \cup (IF Duplicated(xs) # {}
                   THEN {Finding("nfs-fsid", None, "Crit", named(Duplicated(xs)))}
                   ELSE Unless("nfs-fsid", "Warn", named(noFsid)))

\* xml_stems: a missing directory is empty.
Stems(v, entries) == IF v.err = "missing" THEN {} ELSE entries

\* vm_inventory::check: the autostart entries are listed before the domains.
InventoryFinding ==
    IF ~Host("inventory", "image") THEN {}
    ELSE IF "unreadable" \in {Host("auto", "vmdefs").err, Host("inventory", "vmdefs").err}
    THEN {Finding("vm-inventory", None, "Warn", {})}
    ELSE LET defs == Stems(Host("inventory", "vmdefs"), Host("inventory", "vmdefs").defs)
             auto == Stems(Host("auto", "vmdefs"), Host("auto", "vmdefs").auto)
         IN  IF defs = {} THEN {}
             ELSE {Finding("vm-inventory", None, "Info",
                           ({"vm"} \X defs) \cup ({"autostart"} \X (auto \cap defs)))}

\* persisted: same pid, same state in both samples.
Persisted ==
    {p \in Sampled("stat1") \cap Sampled("stat2") :
        Got("stat1", <<"proc", p>>).state = Got("stat2", <<"proc", p>>).state}

Blocked(fuse) ==
    {<<"proc", p>> : p \in {p \in Persisted :
        /\ Got("stat2", <<"proc", p>>).state = "D"
        /\ Got("wait2", <<"proc", p>>).fuse = fuse}}

Zombies ==
    {<<"proc", p>> : p \in {p \in Persisted :
        /\ Got("stat2", <<"proc", p>>).state = "Z"
        /\ Got("wait2", <<"proc", p>>).container}}

DstateFindings ==
    (IF Blocked("yes") # {} THEN {Finding("fuse-dstate", None, "Warn",
                                              Blocked("yes") \cup Blocked("unknown"))}
     ELSE Unless("fuse-dstate", "Info", Blocked("unknown")))
    \cup (IF Zombies # {} THEN {Finding("container-zombies", None, "Info", Zombies)} ELSE {})

ShfsFinding ==
    IF Made("ticks2", <<"shfs", "host">>)
        /\ Ticks("ticks2") - Ticks("ticks1") >= BusyTicks
    THEN {Finding("shfs-cpu", None, "Warn", {<<"shfs", "host">>})}
    ELSE {}

ParityFinding ==
    LET state == Resync(Host("parity", "mdstat"))
        name == {<<state, "host">>}
    IN  {CASE state = "unreadable" -> Finding("parity-io-starvation", None, "Info", {})
           [] state \in {"missing", "idle"} -> Finding("parity-io-starvation", None, "Ok", {})
           [] state = "paused" -> Finding("parity-io-starvation", None, "Info", name)
           [] state = "running" ->
                Finding("parity-io-starvation", None,
                        IF Host("parity", "load") = "above" THEN "Warn" ELSE "Info", name)}

SettingsFinding ==
    LET s == Host("settings", "ident")
        problems == (IF ~s.ntp THEN {"ntp off"} ELSE IF s.servers = {} THEN {"no server"} ELSE {})
                    \cup (IF ~s.zone THEN {"no zone"} ELSE {})
    IN  IF ~s.ok THEN {Finding("host-settings", None, "Info", {})}
        ELSE Unless("host-settings", "Warn", problems \X {"host"})

GuestsAdmitted(s) == s.guest /\ s.valid = {}

GuestAccount(conf) == IF conf.account = "" THEN "nobody" ELSE conf.account

GuestWritable(s, conf) ==
    GuestsAdmitted(s) /\ (s.writeable \/ GuestAccount(conf) \in s.writers)

SmbFinding ==
    LET confs == {Host("smb", k) : k \in {k \in {"shares", "extra"} :
                      Made("smb", <<k, "host">>) /\ Host("smb", k).ok}}
        public(conf) == {<<"share", s.name>> : s \in {s \in conf.table : GuestWritable(s, conf)}}
    IN  IF ~Host("smb", "shares").ok \/ \A conf \in confs : conf.table = {} THEN {}
        ELSE Unless("smb-share-security", "Warn", UNION {public(conf) : conf \in confs})

\* vm_manager::classify: an answer without VMs and a manager that is off differ.
ManagerState(e) ==
    IF ~Resolved("api", e) \/ Got("api", <<"vms", e>>) = "fails" THEN "Unavailable"
    ELSE IF Got("api", <<"vms", e>>) = "disabled" THEN "Disabled" ELSE "Enabled"

\* check_vm_manager
ManagerFindings ==
    {CASE ManagerState(e) = "Unavailable" -> Finding("vm-manager", e, "Warn", {<<"vms", e>>})
       [] ManagerState(e) = "Disabled" -> Finding("vm-manager", e, "Info", {<<"vms", e>>})
       [] ManagerState(e) = "Enabled" -> Finding("vm-manager", e, "Ok", {}) :
        e \in Rows("api")}

\* status_severity
StatusSeverity(status) ==
    CASE status \in {"DISK_OK", "DISK_NP"} -> "Ok"
      [] status = "DISK_NEW" -> "Info"
      [] status \in {"DISK_DSBL_NEW", "other"} -> "Warn"
      [] OTHER -> "Crit"

\* threshold: null or zero means not set.
ThresholdZero(t) == t >= 0
Threshold(t) == t > 0

UsageSeverity(d) ==
    IF Threshold(d.critical) /\ d.used >= d.critical THEN "Crit"
    ELSE IF d.used >= (IF Threshold(d.warning) THEN d.warning ELSE 90) THEN "Warn"
    ELSE "Ok"

\* devices: a parity disk has no filesystem.
HasUsage(d) == ~d.parity /\ d.used >= 0

\* disk_health::findings, for one device of endpoint e.
DeviceFindings(e, d) ==
    LET name == {<<"device", d.name>>}
        status == {Finding("disk-status", e, StatusSeverity(d.status), name)}
        errors == IF d.errors > 0 THEN {Finding("disk-errors", e, "Warn", name)} ELSE {}
        free == IF HasUsage(d) THEN {Finding("disk-free", e, UsageSeverity(d), name)} ELSE {}
    IN  {f \in status \cup errors \cup free : f.sev # "Ok"}

DiskFindings ==
    UNION {LET a == Got("api", <<"array", e>>)
               found == UNION {DeviceFindings(e, d) : d \in a.devices}
           IN  IF ~a.ok THEN {Finding("disk-health", e, "Warn", {})}
               ELSE IF found = {} THEN {Finding("disk-health", e, "Ok", {})}
               ELSE found :
             e \in {e \in Rows("api") : Resolved("api", e)}}

Report ==
    BlockerFinding \cup AutostartFinding \cup UncleanFinding \cup ZfsFindings
        \cup CifsFindings \cup LibvirtFinding \cup NfsFindings \cup InventoryFinding
        \cup DstateFindings \cup ShfsFinding \cup ParityFinding \cup SettingsFinding
        \cup SmbFinding \cup ManagerFindings \cup DiskFindings

-----------------------------------------------------------------------------
(* What the report should say, site by site.                               *)

\* The kinds of site each finding judges.
Judged ==
    [id \in {"array-unmount-blockers", "docker-vm-autostart", "unclean-shutdown",
             "zfs-pool-state", "cifs-no-mapposix", "libvirt-stack", "nfs-all-squash",
             "nfs-fsid", "vm-inventory", "fuse-dstate", "container-zombies",
             "parity-io-starvation", "host-settings", "smb-share-security",
             "vm-manager", "disk-status", "disk-errors", "disk-free"} |->
        CASE id = "array-unmount-blockers" -> {"fd"}
          [] id = "docker-vm-autostart" -> {"docker", "vms"}
          [] id = "unclean-shutdown" -> {"history"}
          [] id = "zfs-pool-state" -> {"pool"}
          [] id = "cifs-no-mapposix" -> {"mounts"}
          [] id = "libvirt-stack" -> {"daemon"}
          [] id \in {"nfs-all-squash", "nfs-fsid"} -> {"exports"}
          [] id = "vm-inventory" -> {"vmdefs"}
          [] id \in {"fuse-dstate", "container-zombies"} -> {"proc"}
          [] id = "parity-io-starvation" -> {"mdstat"}
          [] id = "host-settings" -> {"ident"}
          [] id = "smb-share-security" -> {"shares", "extra"}
          [] id = "vm-manager" -> {"vms"}
          [] OTHER -> {"array"}]

\* What finding id may accuse while site holds v.
Blamed(id, site, v) ==
    LET self(bad) == IF bad THEN {site} ELSE {}
        named(kind, set) == {<<kind, x>> : x \in set}
    IN  CASE id = "array-unmount-blockers" -> self(v = "array")
          [] id = "docker-vm-autostart" -> self(v \in {"auto", "running"})
          [] id = "unclean-shutdown" -> self(v = "running")
          [] id = "zfs-pool-state" -> self(v \in {"DEGRADED", "FAULTED"})
          [] id = "cifs-no-mapposix" ->
                named("mount", {m.at : m \in {m \in v :
                    /\ "mapposix" \notin m.opts /\ "mapchars" \notin m.opts
                    /\ "posix" \in m.opts => ~m.smb3}})
          [] id = "libvirt-stack" -> self(v # "running")
          [] id = "nfs-all-squash" ->
                named("export", {x.path : x \in {x \in v.table :
                    \/ "squash" \in x.clients
                    \/ x.default = "squash" /\ "plain" \in x.clients}})
          [] id = "nfs-fsid" ->
                named("export", {x.path : x \in {x \in v.table :
                    \/ x.fsid = None /\ x.fuse
                    \/ x.fsid # None /\ \E y \in v.table \ {x} : x.fsid = y.fsid}})
          [] id = "vm-inventory" ->
                IF v.err # None THEN {} ELSE named("vm", v.defs) \cup named("autostart", v.auto)
          [] id = "fuse-dstate" -> self(v.state = "D")
          [] id = "container-zombies" -> self(v.state = "Z")
          [] id = "parity-io-starvation" ->
                IF v.read # "text" \/ (v.resync = 0 /\ v.pos = 0) THEN {}
                ELSE {<<IF v.resync = 0 THEN "paused" ELSE "running", "host">>}
          [] id = "host-settings" ->
                named("ntp off", {h \in {"host"} : ~v.ntp})
                    \cup named("no server", {h \in {"host"} : v.ntp /\ v.servers = {}})
                    \cup named("no zone", {h \in {"host"} : ~v.zone})
          [] id = "smb-share-security" ->
                named("share", {x.name : x \in {x \in v.table :
                    /\ x.guest /\ x.valid = {}
                    /\ \/ x.writeable
                       \/ v.account \in x.writers \ {""}
                       \/ v.account = "" /\ "nobody" \in x.writers}})
          [] id = "vm-manager" -> self(v \in {"disabled", "fails"})
          [] id = "disk-status" ->
                named("device", {d.name : d \in {d \in v.devices :
                    d.status \notin {"DISK_OK", "DISK_NP"}}})
          [] id = "disk-errors" -> named("device", {d.name : d \in {d \in v.devices : d.errors # 0}})
          [] id = "disk-free" ->
                named("device", {d.name : d \in {d \in v.devices :
                    /\ ~d.parity
                    /\ \E t \in ({d.critical, d.warning} \ {0})
                                   \cup (IF d.warning = 0 THEN {90} ELSE {}) : d.used >= t}})

\* A site the check of finding id could not read while it held v.
Blind(id, site, v) ==
    CASE id = "docker-vm-autostart" -> v \in {"fails"}
      [] id = "disk-health" -> ~v.ok
      [] id = "vm-inventory" -> v.err = "unreadable"
      [] id = "parity-io-starvation" -> v.read = "unreadable"
      [] id = "host-settings" -> ~v.ok
      [] OTHER -> FALSE

Always(site, P(_)) == \A v \in ever[site] : P(v)
At(kind) == <<kind, "host">>

EnabledAlways(e) == Always(At("rows"), LAMBDA v : v.ok /\ e \in v.enabled)
ResolvedAlways(e) == Always(<<"key", e>>, LAMBDA v : v)

\* The check of finding id was bound to come to the site, and to be able to judge it.
Reached(id, site) ==
    /\ site[1] \in {"docker", "vms", "array"} =>
          EnabledAlways(site[2]) /\ ResolvedAlways(site[2])
    /\ site[1] = "history" =>
          /\ ResolvedAlways(site[2])
          /\ Always(At("rows"), LAMBDA v : v.ok /\ v.enabled # {} /\ site[2] = FirstOf(v.enabled))
    /\ site[1] \in {"daemon", "vmdefs"} => Always(At("image"), LAMBDA v : v)
    /\ site[1] = "extra" => Always(At("shares"), LAMBDA v : v.ok)
    /\ id = "fuse-dstate" => Always(site, LAMBDA v : v.wait = "fuse")
    /\ id = "container-zombies" => Always(site, LAMBDA v : v.container)

About(f, id, site) == f.id = id /\ f.of \in {None, site[2]}

NotFine(id, site) ==
    /\ \E f \in Report : About(f, id, site) /\ f.sev # "Ok"
    /\ \A f \in Report : About(f, id, site) => f.sev # "Ok"

\* A fault that stood while the whole pass went by, however it changed its
\* form, is in the report, by name, and one endpoint that answers never covers
\* for one that does not: what could not be read all along is never called
\* fine.  Two exceptions are the code's: exports without an fsid go unnamed
\* while others share one (nfs_hygiene::check), and a process whose wait
\* channel is hidden is named, not accused (dstate::findings).
StandingFaultIsTold ==
    Done =>
        /\ \A id \in DOMAIN Judged : \A site \in {s \in Sites : s[1] \in Judged[id]} :
              \A n \in UNION {Blamed(id, site, v) : v \in ever[site]} :
                  (Reached(id, site) /\ Always(site, LAMBDA v : n \in Blamed(id, site, v))) =>
                      \E f \in Report :
                          /\ About(f, id, site) /\ f.sev # "Ok"
                          /\ n \in f.names \/ (id = "nfs-fsid" /\ f.sev = "Crit")
        /\ \A site \in Sites :
              \A id \in {"docker-vm-autostart", "disk-health", "vm-inventory",
                         "parity-io-starvation", "host-settings"} :
                  (/\ site[1] \in IF id = "disk-health" THEN {"array"} ELSE Judged[id]
                   /\ Reached(id, site)
                   /\ Always(site, LAMBDA v : Blind(id, site, v))) => NotFine(id, site)
        /\ \A e \in ToSet(Endpoints) :
              (EnabledAlways(e) /\ Always(<<"key", e>>, LAMBDA v : ~v)) =>
                  /\ NotFine("docker-vm-autostart", <<"key", e>>)
                  /\ NotFine("vm-manager", <<"key", e>>)

\* Whatever a finding accuses was so at some moment of the pass, although the
\* reads it was put together from are no snapshot: a process called stuck was
\* in D and, when one is accused of FUSE, some process of the finding waited on
\* it (dstate::findings); a defunct one was, under its pid, in a container;
\* shfs burnt the ticks it is said to have burnt; and an unreachable endpoint,
\* not a quiet one, is what makes a state unknown.
AlarmIsReal ==
    Done => \A f \in Report : f.sev # "Ok" =>
        /\ f.id \in DOMAIN Judged => \A n \in f.names :
              \E site \in {s \in Sites : s[1] \in Judged[f.id] /\ f.of \in {None, s[2]}} :
                  \E v \in ever[site] :
                      \/ n \in Blamed(f.id, site, v)
                      \/ f.id = "vm-manager" /\ FALSE \in ever[<<"key", site[2]>>]
        /\ (f.id = "fuse-dstate" /\ f.sev = "Warn") =>
              \E n \in f.names : \E v \in ever[n] : v.state = "D" /\ v.wait = "fuse"
        /\ f.id = "container-zombies" =>
              \A n \in f.names : \E v \in ever[n] : v.container
        /\ f.id = "shfs-cpu" =>
              \E t, u \in ever[At("shfs")] : u - t >= BusyTicks
        /\ (f.names = {} /\ f.id = "docker-vm-autostart") =>
              \E e \in ToSet(Endpoints) :
                  \/ FALSE \in ever[<<"key", e>>]
                  \/ "fails" \in ever[<<"docker", e>>] \cup ever[<<"vms", e>>]
        /\ (f.names = {} /\ f.id \in {"parity-io-starvation", "host-settings", "vm-inventory"}) =>
              \E site \in {s \in Sites : s[1] \in Judged[f.id]} :
                  \E v \in ever[site] : Blind(f.id, site, v)
=============================================================================

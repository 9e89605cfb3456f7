# Verification of orca's Unraid plugin

TLA+ models of this plugin, the TLC configurations that check them and the theorems
TLAPS proves about them. Paths are relative to the repository; `mod.rs`,
`privileged.rs`, `safefs.rs`, `spec.rs`, `template.rs`, `inspect.rs` and
`orphans.rs` are those of `src/src/docker_adopt/`, the other Rust files are in
`src/src/`.

    tlc -workers 2 -config adopt_convert.cfg MCAdoptTxn     # one run
    tlapm AdoptTxnProofs.tla                                # the proofs of one module

`PROJECT.json` lists the components with their status, the runs, what each definition
translates (`map`), the change of the code each property would catch (`mutants`), the
hazards of the code and the divergence a run shows.

## 1. The system

The plugin lets orca manage Unraid hosts. It runs as the daemon's process on the
host (as root, or as a user that re-executes itself through `sudo` for each
privileged operation) or elsewhere against the host's GraphQL API. It has no event
loop and no resumable job: a verb is an async function that reads the host, plans,
and then changes the host step by step. What makes it hard is that **everybody
else acts on the same host meanwhile**: the web UI, dockerMan, docker users, other
containers, emhttpd, other orca calls. None of them takes the plugin's locks.

| Component (source) | State | Operations | Interacts with | What is hard | Correct when | Module |
|---|---|---|---|---|---|---|
| adopt / set_icon (`mod.rs`, `privileged.rs`) | the `ApplyState` of one run; on the host: container, volumes, copies, template, autostart file | plan, apply loop of up to 20 kinds of steps, rollback | docker, dockerMan's `rebuild_container`, flash drive | stale plan, lost replies, partial failure and rollback, crash, volumes pruned or recreated | no write is lost; a failure before the rebuild restores the host; success is what was planned | `AdoptTxn` |
| its translation (`spec.rs`, `template.rs`, `inspect.rs`) | none | inspect to spec to template to command and back; the diff that gates execute | dockerMan, docker's defaults | a facet lost both ways goes unnoticed; things change after the gate | the container rebuilt is the one there was, but for what was announced | `Fidelity` |
| staged copies (`safefs.rs`, `privileged.rs`) | stage directories, tokens | copy, expose, remove, under directories held open | whoever may rename in `<appdata>` | a path checked names another directory later | a copy is whole or gone; nobody else's data is touched | `StagedCopies` |
| leftovers of compose (`orphans.rs`) | none | remove a network, retire a stack directory | docker, compose | judged at planning, done at the end | nothing in use is removed | `Leftovers` |
| container verbs (`unit_provider.rs`) | a lock per endpoint | start, stop, pause, unpause, restart, autostart, remove | GraphQL API | autostart rewrites the whole list; late requests; protected containers | a rewrite touches one entry; what is reported as applied stays | `ContainerVerbs` |
| shares (`share_cache.rs`, `exports.rs`, `smb_share_write.rs`) | emhttpd's memory, share cfgs, `smb-shares.conf`; a lock per process | set, upsert, remove | emhttpd, Samba | a page form carries every field; stale csrf token; files edited behind emhttpd | one change takes effect, nothing else does, the two places agree | `ShareWrites` |
| NFS fsids (`nfs_fsid.rs`) | an install secret | plan fsids | secret store, /etc/exports | first calls side by side, a store that fails or lags; hashes that collide | one secret; plans unique and stable | `NfsFsids`, `InstallSecret` |
| endpoint registry (`endpoint.rs`, `tools.rs`) | a row in one store, a key in another | create, update, delete, resolve | database, secrets | two stores, no transaction | row and key agree; a key goes to the host that minted it | `HostVerbs` |
| VM, parity, settings and UPS verbs (`vm_*.rs`, `parity_control.rs`, `host_settings_write.rs`, `ups.rs`) | none | power, autostart, availability, parity check, identity and time, UPS thresholds | GraphQL, libvirt | plan and change in two looks, two mutations, lost replies | what changes is what was asked, and what is reported is what changed | `HostVerbs` |
| repairs and backup (`checks.rs`, `backup.rs`) | flash config, passdb, passwd, group; an archive | four repairs, backup, restore | Samba, tar, power losses | files emptied before they are filled; what a boot loads | no password or account is lost; what is called repaired is whole | `FlashConfig` |
| diagnosis (`checks.rs`, `dstate.rs`, `disk_health.rs`, `nfs_hygiene.rs`, ...) | none | one pass of some forty reads | /proc, GraphQL, files | no two reads are atomic; sources fail one by one | a standing fault is told, an alarm was real | `Diagnose` |
| privileged runner (`privileged.rs`) | none | each host mutation, as root or through sudo | all of the above | checks and acts in another process | as its verbs | with its verbs |
| schema tools, topology, registration | none | read, declare | | | | not modelled, section 7 |

## 2. Modules

| Module | Models | Instance |
|---|---|---|
| `AdoptTxn` | one container through any number of adopt and set_icon runs | `MCAdoptTxn`, `MCLiveness` |
| `Fidelity` | what adopt and set_icon make of a container, through gate and verification | `MCFidelity` |
| `StagedCopies`, `Leftovers` | what the root side does while names, directories and containers change | `MCRootSide` |
| `ContainerVerbs` | calls of the container verbs on one endpoint | `MCContainerVerbs`, `MCLiveness` |
| `ShareWrites` | calls of the three share verbs on one host | `MCShareWrites` |
| `NfsFsids` | calls of `unraid.nfs.fsids` on one host: the secret and the plan | `MCNfsFsids` |
| `InstallSecret` | what `install_secret` promises, abstractly; `NfsFsids` implements it | through `NfsFsids` |
| `HostVerbs` | the registry, and the verbs that act through it | `MCHostVerbs` |
| `FlashConfig` | repairs, backup and restore of the flash config | `MCFlashConfig` |
| `Diagnose` | one diagnose pass over a host that changes | `MCDiagnose` |
| `AdoptTxnProofs` | theorems about `AdoptTxn` | tlapm |
| `RootSideProofs` | theorems about `StagedCopies` and `Leftovers`, as `MCRootSide` puts them together | tlapm |
| `FidelityProofs`, `ContainerVerbsProofs`, `ShareWritesProofs`, `NfsFsidsProofs`, `HostVerbsProofs`, `FlashConfigProofs` | theorems about the module of that name | tlapm |

Every module has one action per operation or step, history variables that only
properties read, and the other actors of the host as actions of their own, each
limited by a budget. The definitions no action uses (`FailPhaseUnhandled`,
`ReadBackWantedOnly`, ...) are the mutated forms of the definition that follows
them; `PROJECT.json` says which property each one breaks. `MCRootSide` and
`MCLiveness` each check two modules that share no state: a variable `side` picks, in
the initial state, the one that is at work.

### AdoptTxn

A volume's data is the set of writes it holds, a place that may be missing is `{}`
or a singleton; that is all the properties tell apart.

| Variable | In the code |
|---|---|
| `ctr` | the container: who created it, is it up, StartedAt/FinishedAt as one counter, where each volume is mounted |
| `autostart`, `tmpl`, `bak` | its line of the autostart file, `my-<name>.xml`, this run's backup of it with the "there was none" sentinel |
| `src`, `dst`, `stage` | the volumes where the original mounts them, where the template will, and the root-only stages |
| `birth`, `foreign`, `other` | CreatedAt of the volume at `dst`; is it somebody else's; is `src` mounted by another container |
| `phase`, `cur`, `todo` | the step in progress, and the volumes its loop has left |
| `plan`, `run` | the plan; `ApplyState` and the locals of `apply` (what was stopped, written, copied, exposed, created, the manifests) |

`PlanRun` takes a snapshot and refuses what the plan refuses. A step is one
action, or several where somebody may act in between: `BeginCopy` (manifest),
`CopyData` (cp), `VerifyCopy`; `CheckVolume`, `RemoveVolume`; `CheckCreated`,
`RemoveCreated`. A step ends "ok", "fail" (no effect) or, for the steps of
`LostReplies`, "lost": an error although it took effect. `phase` before the
rebuild goes to the rollback on an error, and to `recovery` after it. Each undo may
fail, is noted in `hist.failed`, and the next one runs. `Crash` ends a run at any
step; a later `PlanRun` starts from what it left, as a user does who runs the verb
again (nothing resumes a run in the code).

Abstracted: which labels or mounts make a volume movable (`Movable` takes every
named volume whose data is there), the steps within a copy (`StagedCopies`), what the
template says (`Fidelity`), icon downloads (`Icons` succeeds or fails), other
containers that mount `dst`, two runs at the same time. `RemoveOwnAnonymousVolumes` is
one step of the code that loops over volumes; here it is one action pair per volume.

### Fidelity

A container is a record of facets as `docker inspect` shows them (network, hostname,
ports, environment, mounts, log driver and options, restart policy, pids limit,
labels, the plain flags, command, and `extra` for whatever the spec has no place
for). `LiveSpec` is `inspect.rs`; `FromSpec`, `SetIconTemplate`, `PathToMount` are
`template.rs`; `ParseCommand`, `RenderedSpec`, `Blocking` and `Intended` the gate's
two sides and its diff (`spec.rs`). dockerMan and docker are external: `Command` is
the command a template should give, `Misrendered` that command with one word less or
more, `Created` what docker makes of it. A run is `Adopt` or `SetIcon`, `Render` (the
gate), `Rebuild`, `VerifyManaged`; in between the tag moves, log rotation changes, or
somebody edits the template. `Status` is `unraid.docker.status`.

`IsContainer` says which records `docker inspect` can show: what docker itself
guarantees (a container has its image's labels, with its own over them; an id; a
hostname, unless it is in the host's network or another container's; no propagation
of a volume), and one simplification, that no anonymous volume is mounted in two
places.

Assumed of what a run finds: every variable of the image is in the container's
environment, at most one anonymous volume, and dockerMan gives its own labels. What a
template cannot be rendered for (name collisions, blocked volumes, redaction) is one
outcome of `Render`: refused. XML and shell quoting are not modelled.

### StagedCopies

`appAt` is the directory `<appdata>/<name>` leads to now; `ent` what each name in each
such directory is; `node` what a directory holds: its token and its copy. A step of a
run acts on the directories it holds (`op[r].app`, `op[r].st`) and on names in
them, as the `*at` calls of `safefs.rs` do; anybody renames entries, plants
directories of their own, moves `<appdata>/<name>`, starts the container or writes to the
volume, in two parts so that a copy can be torn. `MakeStage`, `OpenNew`, `MarkStage`
are `create_stage`; `ReadManifest`, `CopyPart`, `Compare` `stage_copy`; `Recheck` the
end of CopyVolume; `Expose`, `Unmark`, `RemoveStage` `expose_staged`; `RemoveCopy` the
rollback's. Each call of `expose_staged` may fail. `Kill` is the death of root's process;
`hist.cut` notes the runs that were killed, or whose token could not be removed
(`CutShort`). Abstracted: the walk of a tree entry by entry, whose limits and refusals
are `Uncopyable`.

### Leftovers

A project's default network and its stack directory, its containers and the bind
mounts of others. `Plan` is `compose_leftovers` on the plan's snapshot, `Rebuild`
stands for all the steps of `AdoptTxn`, `CheckNetwork` and `RemoveNetwork` are the
network's step, `OpenStack` to `RetireStack` root's, with each check again. Where a
path leads is a class (under the directory, under it by a pool's name, above it).
`site` is how the stacks root may be set up. `op[r].late` notes what came after the
check that would have seen it.

### ContainerVerbs

`call[c]` is one verb's locals; `wire[c]` the request it has sent that neither landed
nor got lost. A request may land after its call gave up. `list` is the autostart list in
start order, `lock` the endpoint's mutex. `Begin` is `update_with` from the reading to
the plan; `TakeLock`, `CheckFresh`, `ReadBack`, `SectionFails`, `TimesOut` are
`write_autostart` under its timeout; `Send` the request loop of the other verbs. What
Unraid does with a request (`Applicable`, `LandsVerb`, `LandsAutostart`) is external and
modelled from the fields the plugin reads back. `LandedAsSent` is `verify_autostart`.
Unraid may give no `autoStartOrder`: `Ordered` has the calls whose readings hold it. A
call without it sends the list in any order (`InSomeOrder`: `autostart_entries` sorts by
what is not there), and neither compares the order with its plan (`PlannedFrom`) nor the
ranks that landed. Not modelled: several targets in one call, image updates, the wait
Unraid keeps for a container not listed.

### ShareWrites

`mem` is what emhttpd has in memory and shows in shares.ini, sec.ini, sec_nfs.ini
and /etc/exports; `cfg` the share cfgs; `conf` `smb-shares.conf`; `smbd` what Samba
loaded. emhttpd is external. **Whether its save starts from memory or from the cfg
is left open**, because the repository's comments disagree (section 6). `direct`
says whether the plugin is root (one process, one lock) or uses sudo (one process,
and so one `emhttp_write_lock`, per cache set; `LockFree`). A request carries the
csrf token its call read; with a stale one emhttpd answers 200 and does nothing.
`Begin` merges taking the lock with the start of the call; a final reading is one
step. Not modelled: shares that disappear or have no cfg or section (refused
before anything is written), the fsid refusal, security of a share that is not
exported, wording of partial results, removal from /etc/exports taking its time.

### NfsFsids and InstallSecret

`fsid` and `others` are what /etc/exports says of user shares and of everything
else; `store` is the install secret in orca's store, `cache` and `lock` the static
mutex of `install_secret`, `call[c]` one call's locals, `epoch` the number of plugin
restarts. A secret is a key; the HMAC, the flash GUID and FNV-1a together are
`Hash`, any function into the span. `Enter` to `Reread` are `install_secret_in`, one
action per call of the store; each may fail, and a failed `set` may have taken effect.
A re-read may find nothing yet and is repeated once. `ReadExports` is `report_in` up
to the partition of the shares, `Place` one turn of the loop over the shares that
move; the search of a free fsid is its condition on the distance `n`. Where no fsid is
free the code searches for ever and `Place` is disabled; with 2^30 fsids that takes
2^30 shares. `Apply` gives one share the fsid a report planned for it, as whoever acts
on the report does (`hist` keeps what the shares had at first and the keys whose plans
were applied); `Restart` and `Rotate` are the plugin's restart and the
administrator's new (or removed) secret. Calls run as threads of one process. Not
modelled: two plugin processes, mount tables, the list of duplicates, who sees clients.

`InstallSecret` says only what its callers rely on: the process agrees on one secret,
made only where there was none, and gives every call that one. Under the refinement
mapping in `NfsFsids` (`stored` is `store`, `agreed` is `cache`, `given[c]` is what a
call works with, for calls that hold a secret) every step of `install_secret_in` is a
step of it or a stutter: property `KeepsPromise`, theorem `SecretKeepsPromise`.

### HostVerbs

`row` and `key` are the two stores. `InsertRow`, `SetKey`, `UndoRow` are
`unraid.create`; `ReadRow`, `WriteRow`, `SetKey` `unraid.update`; `RemoveRow`,
`RemoveKey` `unraid.delete`; each write may fail, and a write of the key may also take
effect and report an error (`KeyStored`), as in `NfsFsids`, which uses the same store.
`PickRow`, `ReadKey`, `Resolve` are `surface_client` and `resolve_config`, `PickEnabled`
the UPS capability's choice. Then each verb is one action per request: `ListVms`,
`PowerVm`; `ControlParity`; `ConfigureUps`; `ReadArray`, `ReadIdentity`, `ReadTime`,
`Decide`, `SetIdentity`, `SetTime`; `AskFlags`, `AskManager`, `ProbeMount`, `ProbePid`,
`ProbeComm`, `Assess`; `RequireVms`, `PlanAutostart`, `PlanAsRoot`, `SetAutostart`. A
`Mutation` fails, takes effect, or takes effect and loses its reply. `Refuse` is
`require_admin`. `raced[c]` notes what others wrote under a call, or wrote at the same
time as one another before it began (`Unsettled`, `Busy`). Routes are the hosts they
lead to; a key knows the host that minted it (`HomeOf`). What the API makes of a
mutation is external. A scenario is the rows, keys and machines there are and the calls
made; `ScenariosAssumption` says what the code cannot check and `KeyGoesHome` therefore
takes as given: a key is handed in together with, or for a row that has, routes that
lead to the machine that minted it.

### FlashConfig

`file` holds the files: `disk.cfg`, `rsyslog.cfg`, the passdb on flash, its `.bak` and
the running one, passwd and group. **`fs::write` and `fs::copy` empty a file before
they fill it**: every rewrite is `Open`, then `Fill`, and a call may die in between.
`RepairCfg`, `ReadRuntime` to `FinishMapping`, `ReadFlashForCopy` to `VerifyCopy` are
the four repairs; `Backup`, `Capture`, `WriteManifest` and `Restore`, `Extract`,
`FinishRestore` follow tar file by file. `Kill` ends the plugin. **Nothing is synced**
(`checks.rs` 834, 837, 944 and 1149 are `fs::copy` and `fs::write`; `safefs.rs` 243 does
sync), so `PowerLoss` leaves each file on flash with any content it has had since the
host came up (`was`), the emptied one of a rewrite included, whether or not the repair
had reported success; the host then boots from that. `lost` notes what was taken.
`Remote` is what each call finds in `UNRAID_REMOTE_SYSLOG`, or the placeholder where it
is unset; it may be empty. A config file is a sequence of lines, where a key may be
missing, there twice, or spelt another way; a passdb entry is a hash.

### Diagnose

`Plan` is the order of the pass's reads; `Read` makes the next one if what was read
before does not end its check (`Wanted`), and keeps it in `got`. `Turn` changes a site
of the host at any moment; `ever` is what each site has held since the pass began.
`Report` computes the findings of every check from `got` alone; `Blamed` says,
independently and from a site's value alone, what a finding may accuse. The checks
of `FlashConfig`'s files are there, not here.

## 3. What the runs check

| Run | Instance | Shows |
|---|---|---|
| `adopt_migrate` | 2 volumes, migrating, power changes, writes, other mounts, crash, 3 acts, 1 run, lost replies of autostart and rebuild | `TypeOK`, `WritesKept`, `RebuiltOnFreshCopy`, `DoneAsPlanned` |
| `adopt_convert` | 1 volume, converting, every other actor, 3 acts, 2 runs | `RollbackRestores`, `SparesForeignVolumes`, `SparesUserTemplate`, `CopiedWhileQuiet` |
| `fidelity` | containers that differ from a plain one in one facet or in two coupled ones, and some of an image committed from an adopted container; 2 images, 2 runs, 1 fault or change | `FaithfulRebuild` (also: what the gate predicts is what docker makes), `SettlesInOnePass` |
| `root_side` | copies: 2 runs, 1 foreign directory, 2 writes, 2 acts, any call of an exposure failing; leftovers: 2 containers, every site, 2 acts | `WholeOrGone`, `SparesOthers`; `LeftoversUnused`, `RetireAgrees` |
| `verbs` | 2 containers of one image, one protected, running or stopped at first, the other running or not there; 2 calls of autostart, restart or remove, one with orders and one without; 1 act of the web UI | `AppliedHolds`, `AppliedMeansUntouched`, `LeavesOthersAlone`, `DoneAsAsked`, `RemovesOnlyWhatItSaw` |
| `shares` | 1 share, 2 calls of any kind, every fault, 1 act of the web UI, emhttpd or a crash | `ServesOnlyAsked`, `DoneIsInEffect`, `CacheSparesOthers`, `SmbUndoes` |
| `fsids` | 3 shares whose hashes collide and wrap in a span of 4, 2 secrets, 2 calls, 2 restarts or rotations | `TypeOK`, `PlanUnique`, `PlanStable`, `KeyStable`, `KeepsPromise` |
| `host_verbs` | 2 endpoints, 2 hosts, 2 VMs, 3 keys; scenarios of 1 to 4 calls with 0 to 2 acts of others | `KeyGoesHome`, `RegistryAgrees`, `DoesWhatItSays`, `AvailableIsAsked` |
| `flash_config` | 2 samba accounts and a foreign one, 2 hashes, a remote target and an empty one; scenarios of 1 to 3 calls with 0 to 2 acts | `PasswordsSurvive`, `RepairHeals`, `AccountsKept`, `ArchiveAgrees` |
| `diagnose` | 2 pids, 2 endpoints, 1 pool; any one to five sites wrong in any way, 2 changes during the pass | `StandingFaultIsTold`, `AlarmIsReal` |
| `liveness` | `AdoptTxn`: 1 volume, migrating, 2 acts; `ContainerVerbs`: autostart only; both fair | `StoppedComesBack`, `SectionEnds` |
| `flash_retry` | as `flash_config` | the violation of `RetryPropagates`, section 6 |

Several invariants are conjunctions of parts that a reader finds by name in the
module (`PasswordsSurvive` of `PassdbNotLost` and `PropagatedStays`, `WholeOrGone`
of `ExposedIsSnapshot` and `ReportedGone`, ...); the type invariant of a module is
`TypeOK`, alone or as one of these parts. Each exemption in a property (`raced`,
`late`, `Broken`) is a case where the code gives no guarantee, named in section 6 or
under `hazards`.

Why the bounds are enough for the cases that matter:

* **Volumes.** The loops treat volumes alike and only the failure of a later one
  after an earlier one succeeded needs two: `adopt_migrate` has two.
  `adopt_convert` has one because its question is about one name that several
  parties create and remove; the theorems cover any number.
* **Acts.** The longest scenario known to break a property of `AdoptTxn` when a
  guard is dropped takes three acts of others: start, write, stop between the copy
  and the rebuild (`CopiedWhileQuiet`), or prune, recreate and a failure
  (`SparesForeignVolumes`). `StagedCopies` needs two (rename away, put in place), as
  does `Leftovers`. In the other modules one or two suffice, because the second call
  is itself an adversary of the first.
* **Runs.** Two: one that leaves something behind and one that finds it.
* **Calls.** Two, exchangeable in `shares` and `fsids` (symmetry over calls; the calls'
  identity is in no property but under \A). In `verbs` one is told orders and the other
  is not. Start and stop are there as restart's requests; pause and unpause, single
  requests like these, are left to the theorems, which cover any verbs and any `Ordered`. `host_verbs` and `flash_config` have calls
  of different kinds; their scenarios put together those that write the same thing,
  because calls that share nothing cannot disturb each other.
* **Facets.** One, and two of those some step looks at together: network, hostname,
  mounts, log driver and options, labels, aliases (`Coupled`). The theorems cover all.
* **Sites** (`diagnose`). The checks of different findings share no site but the
  endpoint rows and keys, so the focus of one initial state holds the sites of one or
  two checks; two changes are enough for a fault that comes, is read and goes.
* **Shares and fsids** (`fsids`). Three shares: two whose hash is the same, and one the
  second of them runs into; a fourth fsid, so that the search wraps and stops.
  Shares start without fsid, at their hash, or at another's. The theorems about
  uniqueness and the secret cover any number and any hash.
* **Power losses** (`flash_config`). A file on flash is left as it was before a write,
  emptied, or as written, each file for itself; never partly written. Everything
  since the host came up counts as possibly lost, which is more than a device does that
  writes back after some seconds. The archive is taken as durable.
* **Values.** Two of each, so that "changed" differs from "as it was".

`CHECK_DEADLOCK FALSE` everywhere: every verb ends, and then nobody has to do
anything. The deadlock that could happen in this code, a lock never released, is
`SectionEnds`.

## 4. Fairness

`liveness` checks both components under one specification, `MCFairSpec`, with the
conditions of their own `FairSpec`s:

* `AdoptTxn!FairSpec`: WF of the steps of apply and rollback. They are one async
  function awaited to its end, and every command it runs ends in success or failure
  (`Outcomes`); the process may die instead (`Crash`, not in this run's `EnvActs`,
  since nothing resumes a run). Nobody else is fair.
* `ContainerVerbs!FairSpec`: WF, per call, of taking the free lock, of the timer and
  of sending the next request: the async runtime polls what is ready. Neither Unraid
  (it may never answer) nor the users are fair, which is what makes `SectionEnds`
  say something: dropping the timeout around the answered requests breaks it.
  WF of `TakeLock` lets an unlucky call be overtaken; the timer ends it.

The other modules state no liveness: every request has its own timeout, nothing waits
for another process, and their calls are straight lines that end.

## 5. Proofs

Each theorem holds for every value of the constants that satisfies the module's
`ConstantsAssumption` (and `ScenariosAssumption`): any number of volumes, shares,
containers, endpoints and calls, any budget of the other actors. TLC evaluates these
assumptions in every run, and found each invariant below to hold on the run's
instance before it was proved. All proofs have the same layout: a lemma says what
an action does to the record of the call that takes it, one lemma per conjunct of
the invariant goes through the actions that can disturb it, one theorem puts them
together.

| Property of a run | Theorem | In |
|---|---|---|
| `TypeOK`, `WritesKept` | `TypeCorrect`, `WritesAreKept` | `AdoptTxnProofs` |
| `DoneAsPlanned`, `CopiedWhileQuiet`, `RebuiltOnFreshCopy`, `SparesUserTemplate`, `SparesForeignVolumes`, `RollbackRestores` | `SuccessIsAsPlanned`, `CopiesAreQuiet`, `RebuiltIsFresh`, `UserTemplateStays`, `ForeignVolumesStay`, `FailuresAreUndone` | `AdoptTxnProofs` |
| `FaithfulRebuild`, `SettlesInOnePass` | `RebuildIsFaithful`, `OnePassSettles` | `FidelityProofs` |
| `WholeOrGone`, `SparesOthers` | `CopiesAreWholeOrGone`, `OthersAreSpared` | `RootSideProofs` |
| `LeftoversUnused`, `RetireAgrees` | `RemovedWasUnused`, `AnnouncedIsRetired` | `RootSideProofs` |
| `AppliedHolds`, `LeavesOthersAlone`, `AppliedMeansUntouched`, `DoneAsAsked`, `RemovesOnlyWhatItSaw` | `AppliedStays`, `OnlyTheTargetChanges`, `AppliedIsAsRead`, `DoneIsAsAsked`, `RemoveIsAsSeen` | `ContainerVerbsProofs` |
| `ServesOnlyAsked`, `DoneIsInEffect`, `CacheSparesOthers`, `SmbUndoes` | `ServesOnlyWhatWasAsked`, `DoneMeansInEffect`, `CacheSetsSpareOthers`, `FailedSetsAreUndone` | `ShareWritesProofs` |
| `TypeOK`, `PlanUnique`, `PlanStable`, `KeyStable`, `KeepsPromise` | `TypeCorrect`, `PlansAreUnique`, `AppliedPlansStay`, `KeysAreStable`, `SecretKeepsPromise` | `NfsFsidsProofs` |
| `RegistryAgrees`, `KeyGoesHome`, `DoesWhatItSays`, `AvailableIsAsked` | `RegistryStaysWhole`, `KeysStayHome`, `VerbsDoWhatTheySay`, `AvailabilityIsTheMachines` | `HostVerbsProofs` |
| `PasswordsSurvive`, `RepairHeals`, `AccountsKept`, `ArchiveAgrees` | `PasswordsAreNotLost`, `WhatIsDoneIsHealed`, `OtherAccountsAreKept`, `TreeAndArchiveAgree` | `FlashConfigProofs` |

### Adopt

Assumed: `Migrate` is Boolean, the bounds are naturals. `TypeOK` is inductive by
itself. `WritesKept` (what a container wrote is in the old volume or the new one) is
not: that `RemoveVolume` is harmless follows from a comparison two phases earlier, and
that the comparison means anything follows from how the copy came to be.
`WritesKeptInv` adds a named part for each reason:

| Part | Why it is needed |
|---|---|
| `SourceHolds` | as long as the container mounts the old volume, all it wrote is there: writes only go where it mounts |
| `MovedAtSource` | no moved volume is mounted at its new place before the rebuild, so nothing is written there that the copy would overwrite |
| `OneCopyEach`, `CopiesOfMoved` | a manifest is recorded once, for volumes of the plan, so a recorded copy is not copied over |
| `CopyHolds` | what a manifest recorded is in the stage or in the new volume |
| `CopiesExposed` | and from the check on in the new volume |
| `RebuiltHolds` | and stays there once the container runs on it |
| `TargetThere` | a volume the container mounts exists (docker creates it) |
| `RemovedIsCopied` | between the check of a volume and its removal, what was written is in the new one: nobody who mounts the old one is left |
| `ContainerExists` | a step before the rebuild has a container to act on |

The exception `hist.pruned` is real: `docker volume prune` may take a converted volume
before the rebuild mounts it, and the code cannot prevent it.

The other theorems build on it. `QuietInv` ties the run times recorded before the
copy to those of the container; `FreshInv` what `EnsureStopped` found to what is mounted;
`DoneInv` the position of the run to what it has done; `ForeignInv` a volume's birth to
who created it. `RestoreInv` says, for each thing a rollback puts back (template,
autostart, power, stages, created volumes), where in the rollback it is back unless
its own undo is in `hist.failed`.

`FailuresAreUndone` has a hypothesis, `FailedMeansUndone`: `docker stop` and
the write of the template, and in a migration the copy and the exposure of a volume, do
not report an error when they took effect. TLC refutes `RollbackRestores` for each
of these steps put into `LostReplies`, which is the hazard at `mod.rs` 711: the
rollback undoes what `ApplyState` recorded, and it records after the step returned.
The other theorems hold for any `LostReplies`.

### Fidelity

Assumed: what `IsContainer` says of the containers a run may find, and of dockerMan
that it adds no `net.unraid.docker.*` label but its own and no empty hostname, and that
the names the verbs give to volumes are not those of anonymous ones. Nothing is
assumed of images, log defaults, or the words dockerMan may add or lose.

A container is not compared with the one rebuilt of it anywhere in the code. There are
two comparisons, both lossy: the gate's, of the target with the rendered command,
and verification's, of the command with the new container's `LiveSpec`. The lemmas take
one facet each and show that what one comparison does not see the other does, or
docker makes of the image: `EnvKept` and `LabelKept` for what the image bakes in,
`LiveFields`, `RenderedFields`, `CreatedIsContainer` for what the translations make of a
record, `GatedVerifies` for the converse, that what passes the gate will verify.
`IInv` puts them in order:

| Part | Why it is needed |
|---|---|
| `Bounds`, `World` | what the container and the template on the host look like, whoever wrote them: a container that has a template shows no compose label of its own, so `set_icon` drops none |
| `Plan` | the plan is a target of the container it was made for (`TargetOf`) and asks for orca's label on it and on its volumes (`AimsAtAll`) |
| `Gated` | from the gate on, the run's command is one dockerMan gave of its template, and is as the gate found it |
| `Current` | if nobody disturbs the run, tag and log defaults are those the gate went by |
| `Rebuilt` | before verification the container is what docker makes of that command |
| `Same`, `Foreseen` | the two halves of `FaithfulRebuild` |
| `Settled`, `Repeated` | the container, its template and what dockerMan makes of it agree, so the plan of the same icon again aims at what is there |

The proof met four cases that no container of the run had; the run has them now. An
image may have compose's labels, which no rebuild takes away, and a container may have
unset a variable of its image (`docker run -e NAME`), which the rebuild brings back
unseen (both in `SameBut`). An image may have the TZ variable: if dockerMan loses the
empty TZ it gives, the container gets the image's. And an image may have orca's label
(section 6). The last two are `ImageInTheWay`, the only reasons besides a disturbance
for which verification fails what the gate let pass.

### Root's side

Assumed: names of runs, directories and other people's things differ. `LeftInv`
says that what a check found stands or is in `late` (`CheckedStands`), and that the
plan's reasons stand while nobody changed anything (`PlanStands`), which makes root's own
checks agree. `CopyInv` has a part for each way a copy could go wrong: a directory
has one name (`OnePlace`); a token tells whose a stage is and is unique
(`StagesMarked`); a copy is in one place, and nowhere before it is begun or after it is
reported gone (`Whereabouts`); and a copy that agrees with both readings of the
manifest is what the volume was at one moment (`CopiesAreMoments`), since a write
in between shows in the first part of the copy. An exposure that fails at its token is,
for the proof, a kill: the run is in `hist.cut`, and its copy stays where it is.

### Container verbs

Assumed: the web UI is none of the calls, there are finitely many containers.
`VerbInv` gives the requests a call has left and those in flight (`Planned`), the state
of the container after the last of them (`LeftAsAsked`), and what the look before a
removal still guarantees (`AsSeen`): requests land late, so a container may have changed
between the two, but then it is in `hist.woken` or `hist.made`.

`ListInv` is the invariant of the autostart section:

| Part | Why it is needed |
|---|---|
| `Held` | at most one call is between taking the lock and giving it back, so the list a call reads back was replaced by no other call that is still there |
| `Plans` | what a call sends is the list it read with the target's entry changed, and takes no protected container off without force |
| `OnWire` | a list on the wire was planned from the present one unless `hist.stale` says it changed since; and even then it agrees with the present one about every container somebody was told of, as only the web UI's users can have changed it, and their edit takes back what was told |
| `AsSent` | what landed is what was sent, if no container went meanwhile (Unraid drops the ids that are gone) |
| `Told` | what was reported is what the list shows |

The lists are data: `Among`, what remains of a list when some containers' entries are
dropped, is a recursive function, and its lemmas (`AmongKeeps`, `AmongAppend`,
`AmongSame`, ...) are inductions over the length. The library's induction theorems take
an operator and cannot be used here; `UpToAll` takes a set of numbers instead, and
follows from the least element that well-foundedness gives (`WFMin`). `RankIs` and
`SameRanks` show why comparing every container's rank and entry, as `verify_autostart`
does where ranks are reported, compares the lists. `Ordered` is any set of calls: for
the others the theorems claim the same entries, in whatever order.

### Shares

Assumed: the initial settings are settings, faults are those of the module.
`WriteInv` needs the lock (`OneAtATime`), that memory and cfg differ in the mode
alone (`Agree`), that every request on its way which emhttpd would still accept
carries a list somebody asked for (`AskedFor`), that the page a set has read is
current but for what moved outside its lock (`PagesSeen`), and that a call nobody
interfered with knows where the cfg and the section stand at each of its steps
(`AllKnown`), which is what makes the undo right. A stale csrf token, answered with
200 and no effect, is in `AskedFor`: the token, and not the reply, says whether a
request can still take effect.

### NFS fsids

Assumed: names are ordered and distinct, hashes are within the span.

* `PlansAreUnique`. `PlannedSoFar` says it of an unfinished plan: what it has given out
  and what other exports have is in `used`, and a share that moves got what was not.
  The exception in `PlanUnique` is the code's: shares already at the fsid of their hash
  keep it, also if they share it.
* `AppliedPlansStay`: two plans of one key are the same, whatever was applied of either
  between their readings of the exports. Its invariant follows the search: every fsid
  is the one of the start or the one a plan gave (`FsidsOrigin`); a share at home stays
  there, no two that move get the same, and each got the nearest free one (`AllSound`), so
  two plans agree on all that both have placed (`Agreed`). `Only` is an exemption that
  two calls do not need: when somebody applies, late, a plan made with a key since
  rotated, the plans of the new key before and after differ. TLC shows it with three
  calls.
* `KeysAreStable`. At most one call looks for a secret, and while it does the process
  has none (`OneSeeks`); who has a key has the cached one, if it is of this run of the
  plugin (`KeyIsCached`, `EpochsPast`), and the stored one until somebody rotates it
  (`KeyIsStored`); and a call that has found no secret still finds none when it sets its
  own (`StillUnset`), which is where the mutex is needed.
* `SecretKeepsPromise`, the refinement: initial states map to initial states, and under
  the same invariant every action maps to a step of `InstallSecret` or leaves its
  variables alone, one step per action.

### Registry and the verbs on a host

Assumed: registry calls name an endpoint, and `ScenariosAssumption`. `HostInv` has
three layers. `Books(n)`: a name whose writers did not overlap and left nothing half
done has at most one writer under way, the row and key go together when there is
none (`Agrees`), and when there is one they are as its progress says (`Midway`); a key
without a row is one a failed create left (`KeyLeft`).
`Reads(c)`: what a call has read of row, key and route goes together unless the row
is in its `raced`. `Probed(c)`: what it found out about VMs holds, or changed since.
`BothInv` adds, for the verbs that change a host, who may (`Permitted`), what was
picked (`Chosen`), that nothing was done or lost before (`Clean`), and that host
settings were filled in from what the host has (`Prepared`).

The proof found that the exemption of `KeyGoesHome` was too narrow: two updates that
overlapped, both long over, may leave one's routes with the other's key, because
each writes back the whole row it read. TLC confirms it on calls `move` and `disable`,
followed by a read; that scenario is now in the run, and `Unsettled` in the model.

### Flash config

Assumed: there is a samba user, hashes and account names differ from what stands for
"none", and `ScenariosAssumption`: the host starts with its accounts, with each user's
hash on flash and in use, with at least one setting in each config file that the repairs
leave alone, and with a `.bak` that is whole or not there; one backup writes the
archive. Of `Remote` nothing is assumed but that it is not the word that stands for
"none"; it may be empty. `FlashInv` has a part for each thing two steps of a rewrite
rely on:

| Part | What it says |
|---|---|
| `Located` | what a call overwrites next, with what, and where it goes on: the two samba repairs and the restore share `Open` and `Fill` |
| `Keeping` | a file that no two calls wrote at once has what it had for others, or the one call that emptied it is about to fill it with that |
| `Settles` | the text a settings repair has worked out, and then the file, passes its check (with an empty remote target: mirrors to flash); by lemmas on `SetKey` and `Value`, which need a least and a last line of a key |
| `Maps` | the users a mapping repair is through with have uid and membership, and the text it is about to write keeps those of the users before |
| `PassdbKept` | while the flash repair writes one copy of the passwords the other is full (`CopyHeld`), and an archive that is whole has one (`ArchiveFull`) |
| `Propagates` | what the flash repair read is in use, and after the copy on flash |
| `Shapes`, `Types` | also of `was`: whatever content a power loss leaves, a later call finds a file of its type |
| `Tars`, `Extracted`, `OneBackup` | what the archive has taken, and what a restore has written back, is as it was; it is whole exactly when nothing is left to take |

Each call's part is kept by its own steps; by those of others because they note in
`touched` what they write (`Sees`), and by a kill because it only speaks of running
calls.

The proof found that the exemption of `PassdbNotLost` was too narrow. Four calls and a
kill lose every password with no two of them at work on the flash files at once: a flash
repair dies after it emptied smbpasswd; a backup captures that file and fails; a second
repair dies after it emptied `.bak`; and a restore of the unfinished archive, which
`do_restore` accepts (`backup.rs` 187, 206: a missing manifest is no error), writes the
empty file back and reports failure. TLC finds the same behaviour. `HalfRestored` names
it.

### What is not proved

Out of the prover's reach: the liveness properties `StoppedComesBack` and `SectionEnds`
(and ENABLED).

Only model-checked, though nothing in principle prevents a proof:
`StandingFaultIsTold` and `AlarmIsReal`. They need one argument per finding, and
that the order of the reads in a plan put together from some thirty sequences does not
matter to it; each is a case of its own with little in common. No module declares a
RECURSIVE operator.

## 6. Divergences found

One is a run that must fail:

1. `flash_retry`. The passdb repair takes its users from the flash passdb and compares
   only hashes present in both files (`checks.rs` 826, 854-863). When the copy failed
   after it emptied the flash file, the next repair says "already matches runtime; no
   change" with no password on flash (`checks.rs` 813-816: "so it survives a reboot").

What else the models show the code does, against a comment or against what a reader
would expect; each is an exemption in a property or an outcome of an action:

* *Adopt.* A conversion that re-uses a labelled volume copies into it, and a failure
  before the rebuild does not take that back, so the next run is refused ("not empty").
  A `docker stop` that takes effect and reports an error is not undone. Whether
  dockerMan's rebuild removes anonymous volumes is said twice and differently: it "may
  already have removed them" (`mod.rs` 478), it "keeps anonymous volumes (it removes the
  container without `v=1`)" (`README.md` 60). `AdoptTxn` follows the README. If the
  comment were right, `WritesKept` would not hold: a write to an old volume between
  `EnsureStopped` and the rebuild would go with it, before the manifest check that
  otherwise keeps the volume.
* *Copies.* A copy that is in place while its stage still has its token, because the
  process was killed in between or the token could not be removed (`privileged.rs` 474),
  is not among the exposed, so the rollback asks RemoveCopy for it, which finds the
  stage and reports "removed" though the copy stands (`privileged.rs` 458-467, `mod.rs`
  789-797). A CopyVolume that is killed leaves its stage for ever.
* *Container verbs.* The order of the autostart list is known only from
  `autoStartOrder`. Where Unraid reports none (null, as for most fixtures of the unit
  tests), a rewrite sends the list in the order of the listing and so may reorder the
  other containers; the plan is not refused when the order changed meanwhile, and
  a list that landed in another order is told as applied (`unit_provider.rs` 414, 434,
  588).
* *Leftovers.* A stack announced as retired is refused after the rebuild where the
  stacks root is reached through a link, or where the day's target is taken.
* *Fidelity.* The difference "docker's default becomes the new container's id"
  (`spec.rs` 537) is provided for, but adopt never makes it: `from_spec` writes a
  hostname that is the container's own id into ExtraParams like any other
  (`template.rs` 192), so the rebuilt container is pinned to its predecessor's id. A
  container recreated between the snapshot and the rebuild is overwritten; a variable
  of the image that the container unset is not seen by the diff and comes back.
  `rendered_spec` is to be "a spec comparable to a live one: image-baked env dropped"
  (`mod.rs` 1222), but it drops no image-baked label, and `live_spec` does
  (`inspect.rs` 450-458). So an adopted container, committed to an image that a second
  container runs, makes the adoption of the second fail: adopt adds orca's labels to
  its target, the command has them, the gate passes, and verification reports every
  such rebuild as failed after it succeeded. `run.pc = "failed" => run.disturbed` alone,
  without `ImageInTheWay`, is violated in the run `fidelity` by such a container.
* *Shares.* Two SMB sets leave cfg and `smb-shares.conf` with different modes and both
  report success: no lock, and the whole conf is replaced. `smb_share_write.rs` 8-11
  relies on emhttpd saving from the cfgs; `share_cache.rs` 10-12 says it saves from
  memory. If it does, the next save in the web UI takes an SMB set back.
* *Registry and verbs.* Overlapping updates of one row lose a flag, or put one's routes
  to the other's key. A create whose store took the key and reported an error takes back
  its row only and leaves a key without a row (`endpoint.rs` 206-210), as does a delete
  that fails at the key (302). The lost reply of an identity mutation is reported as a
  plain failure. vm.autostart reports `executed` although root found nothing to change
  (`vm_autostart.rs` 135-137). A UPS runtime below a minute is sent as 0 (`ups.rs` 110
  divides ms by 60 000).
* *Flash config.* A mapping repair repeated after a failed restart of Samba finds
  nothing to change and does not restart (`checks.rs` 801-811). Of a key that is there
  twice the first is rewritten and the last is read. The placeholder overwrites a
  configured remote host. `UNRAID_REMOTE_SYSLOG` counts as soon as it is set: if it is
  empty, the repair writes `REMOTESERVER=""`, also over a configured host, and reports
  ok (`checks.rs` 543-552), while the check goes on warning of a missing target
  (341-342); `RepairHeals` asks of such a repair the mirror alone (`NoTarget`). No copy
  or rewrite is synced: a power loss soon after the passdb repair reported success may
  leave the flash passdb, or the `.bak`, as it was or empty, or both of them empty, and
  then no password is left on flash (`lost`, the exemption in `PasswordsSurvive`). The
  verification takes a file it cannot read for one that agrees. A backup may capture a
  file that was just emptied, and a restore accepts the archive of a backup that failed
  and writes such a file back (`HalfRestored`, section 5).
* *Diagnosis.* `dstate.rs` 4-6 says "in both samples" but FUSE is looked at in the
  second only, and pid and state are compared, not the process: a pid used again is
  blamed. What cannot be listed (an fd directory, a pool's state) is passed over and
  the check says Ok; an unreadable export or share table gives no finding, an
  unreadable smb-extra.conf none of its shares. The unclean-shutdown check asks the
  first enabled endpoint only. Exports without fsid go unnamed while others share one.
  `invalid users` is not read.

## 7. Not modelled, and the plan

Not modelled, and why:

* **Texts**: XML and shell quoting (`template.rs`, `vm_xml.rs`), redaction
  (`redact.rs`), parsers of ini, mdstat and /proc files beyond the fields a verdict
  needs, wording. Unit tests compare these; a model would repeat them character by
  character.
* **Reports**: topology, permissions, histories, listings. One reading, no verdict,
  nothing written.
* **Schema tools** (`schema_pull.rs`, `version.rs`, `api_coverage.rs`), registration
  (`main.rs`, `registration.rs`, `labels.rs`, `deploy.rs`), the GraphQL client of
  `lib.rs`, command and file access of `host.rs`, test support: sequential plumbing
  without state of its own.
* **Two runs on one container**, with its autostart line and template rewritten under
  no lock (`privileged.rs` 560, 679): the hazard without a property.
* **Two plugin processes** on one host, image updates and several targets in one call
  of the container verbs, the walk of a tree in `safefs.rs`.

What comes next: `AdoptRace`, a module of two runs and the autostart file, and the
theorems of `Diagnose`.

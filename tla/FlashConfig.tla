----------------------------- MODULE FlashConfig -----------------------------
(***************************************************************************)
(* The repairs of unraid.diagnostics.repair and the backup of the config   *)
(* tree: they rewrite the flash drive's config files and the host's        *)
(* account files in place, step by step, next to the users who change      *)
(* passwords and settings, to each other, and to power losses after which  *)
(* the host comes up with what the flash drive holds.                      *)
(***************************************************************************)
EXTENDS Naturals, Sequences, FiniteSetsExt

CONSTANTS
    Users,       \* accounts of the samba password database (passdb)
    Foreign,     \* accounts of the host that have nothing to do with samba
    Hashes,      \* NT hashes
    Managed,     \* UNRAID_SMB_USERS; empty when it is not set
    Remote,      \* UNRAID_REMOTE_SYSLOG as a call finds it, which may be empty,
                 \* or the placeholder when it is not set
    Calls,       \* calls of repair, backup and restore; each runs once
    Kind,        \* what each call is
    Scenarios,   \* bound: calls that are made together, the files they may find,
                 \* and how often users act, the plugin dies or the power fails
    BootUids,    \* what the account files of a boot give the users
    TarOrder     \* the order in which tar walks the config tree

CfgRepairs == {"shutdown-timeout", "syslog-mirror"}
Kinds == CfgRepairs \cup {"samba-account-mapping", "samba-passdb-flash", "backup", "restore"}
Accounts == Users \cup Foreign

ASSUME ConstantsAssumption ==
    /\ Managed \subseteq Users /\ Users \cap Foreign = {} /\ Users # {}
    /\ Kind \in [Calls -> Kinds]
    /\ Remote \in [Calls -> STRING \ {"none"}] /\ "none" \notin Hashes /\ "no group" \notin Accounts
    /\ BootUids \subseteq [Users -> {"none", "passdb", "other"}]
    /\ TarOrder \in [{"disk", "rsyslog", "smbpasswd", "bak"} -> Nat]

VARIABLES
    file,      \* the files' contents
    smbd,      \* the users whose unix account smbd found when it started
    archive,   \* the payload directory of the backup
    call,      \* what each call knows
    budget,    \* what the environment may still do
    touched,   \* what others wrote during a call, and since it ended (history)
    was,       \* what each file on flash held since the host came up (history)
    lost       \* what power losses took from the flash drive (history)

drive == <<file, was, lost>>
vars == <<drive, smbd, archive, call, budget, touched>>

-----------------------------------------------------------------------------
(* Files.  A config file is a sequence of lines; a line that is not exactly *)
(* KEY="value" (bare, or spaced) is not plain.  A passdb gives users        *)
(* hashes, /etc/passwd gives accounts the uid of their passdb entry or      *)
(* another; /etc/group gives the members of EXPECTED_GROUP, if it is there. *)

Line(k, v) == [key |-> k, value |-> v, plain |-> TRUE]
NoEntry == "none"
NoGroup == {"no group"}

OnFlash == {"disk", "rsyslog", "smbpasswd", "bak"}
Files == OnFlash \cup {"runtime", "passwd", "group"}
Passdbs == {"smbpasswd", "bak", "runtime"}

(* What opening a file for writing leaves of it until the write.            *)
Truncated(f) ==
    CASE f \in {"disk", "rsyslog"} -> << >>
      [] f \in Passdbs -> [u \in Users |-> NoEntry]
      [] f = "passwd" -> [a \in Accounts |-> NoEntry]
      [] f = "group" -> NoGroup

(* parse_key_value: the last line of a key counts.                          *)
KeyLines(lines, k) == {i \in DOMAIN lines : lines[i].key = k}
Value(lines, k) == IF KeyLines(lines, k) = {} THEN NoEntry ELSE lines[Max(KeyLines(lines, k))].value

(* set_cfg_keys: the first one is rewritten, a missing one appended.        *)
SetKeyAlone(lines, k, v) == << Line(k, v) >>
SetKey(lines, k, v) ==
    IF KeyLines(lines, k) = {} THEN Append(lines, Line(k, v))
    ELSE [lines EXCEPT ![Min(KeyLines(lines, k))] = Line(k, v)]

(* The files a host may have: settings with at least one the repairs leave  *)
(* alone, a passdb with the same users on flash and in use, and the group.  *)
(* Bound: there is one archive, which one backup writes.                    *)
Lines == [key : STRING, value : STRING, plain : BOOLEAN]
UidKinds == {NoEntry, "passdb", "other"}
ASSUME ScenariosAssumption ==
    \A s \in Scenarios :
        /\ s.calls \subseteq Calls /\ s.acts \in Nat
        /\ \A c, d \in s.calls : Kind[c] = "backup" /\ Kind[d] = "backup" => c = d
        /\ \A t \in s.files :
             /\ t = [f \in Files |-> t[f]]
             /\ \A f \in {"disk", "rsyslog"} : t[f] \in Seq(Lines) /\ Value(t[f], "other") # NoEntry
             /\ \A f \in {"smbpasswd", "runtime"} : t[f] \in [Users -> Hashes]
             /\ t["bak"] \in [Users -> Hashes] \cup {Truncated("bak")}
             /\ t["passwd"] \in [Accounts -> UidKinds] /\ \A a \in Foreign : t["passwd"][a] = "other"
             /\ t["group"] \subseteq Accounts /\ Foreign \subseteq t["group"]

CfgFile(kind) == IF kind = "shutdown-timeout" THEN "disk" ELSE "rsyslog"
Repaired(c, lines) ==
    IF Kind[c] = "shutdown-timeout" THEN SetKey(lines, "shutdownTimeout", "120")
    ELSE SetKey(SetKey(lines, "MIRROR", "yes"), "REMOTESERVER", Remote[c])

(* check_shutdown_timeout and check_syslog_mirror find nothing to repair.   *)
TimeoutFine(lines) == Value(lines, "shutdownTimeout") \in {"90", "120"}
MirrorFine(lines) == /\ Value(lines, "MIRROR") = "yes"
                     /\ Value(lines, "REMOTESERVER") \notin {NoEntry, ""}
CfgFine(kind, lines) == IF kind = "shutdown-timeout" THEN TimeoutFine(lines) ELSE MirrorFine(lines)

(* managed_users and passdb_diverges.                                       *)
ManagedUsers(flash) == IF Managed # {} THEN Managed ELSE {u \in Users : flash[u] # NoEntry}
DivergesIfAll(runtime, flash, users) == \A u \in users : runtime[u] # flash[u]
Diverges(runtime, flash, users) ==
    \E u \in users : NoEntry \notin {runtime[u], flash[u]} /\ runtime[u] # flash[u]

(* classify_user, what check_samba_account_mapping says of a user.           *)
Classified(files, u) ==
    IF files["runtime"][u] # NoEntry /\ files["passwd"][u] # "passdb" THEN "corrupt"
    ELSE IF Diverges(files["runtime"], files["smbpasswd"], {u}) THEN "diverged" ELSE "ok"

(* apply_passwd_user and apply_group_member.                                *)
WithUserOnly(passwd, u) == [a \in Accounts |-> IF a = u THEN "passdb" ELSE NoEntry]
WithUser(passwd, u) == [passwd EXCEPT ![u] = "passdb"]
WithMemberAnyway(group, u) == group \cup {u}
WithMember(group, u) == IF group = NoGroup THEN NoGroup ELSE group \cup {u}

-----------------------------------------------------------------------------
(* Calls, and what they have in common.                                     *)

Off == [pc |-> "off", text |-> << >>, src |-> "text", to |-> "disk", then |-> "done",
        users |-> {}, todo |-> {}, user |-> {}, acted |-> FALSE, runtime |-> Truncated("runtime")]
Running(c) == call[c].pc \notin {"off", "idle", "done", "failed"}

Becomes(c, r) == call' = [call EXCEPT ![c] = r]
Goto(c, pc) == Becomes(c, [call[c] EXCEPT !.pc = pc])
Stopped(c) == [Off EXCEPT !.pc = "failed", !.to = call[c].to]
Fail(c) == Becomes(c, Stopped(c))

(* Files are written under the calls ds.                                    *)
Touch(ds, fs) ==
    touched' = [d \in Calls |->
        [during |-> touched[d].during \cup IF d \in ds /\ Running(d) THEN fs ELSE {},
         since |-> touched[d].since \cup IF d \in ds /\ call[d].pc = "done" THEN fs ELSE {}]]
Touches(c, f) == Touch(Calls \ {c}, {f})
Reads == UNCHANGED <<drive, smbd, archive, budget, touched>>

(* Nothing is synced: what a file held stays possible after a power loss.   *)
Unsynced == was' = [f \in OnFlash |-> was[f] \cup {file'[f]}] /\ UNCHANGED lost

(* A file is about to be overwritten with a text or a copy of a file.       *)
Overwriting(r, f, src, text, then) ==
    [r EXCEPT !.pc = "open", !.to = f, !.src = src, !.text = text, !.then = then]

(* fs::write and fs::copy: the file is emptied, then filled.                *)
Open(c) ==
    /\ call[c].pc = "open"
    /\ \/ Fail(c) /\ UNCHANGED <<drive, touched>>
       \/ /\ file' = [file EXCEPT ![call[c].to] = Truncated(call[c].to)] /\ Unsynced
          /\ Goto(c, "fill") /\ Touches(c, call[c].to)
    /\ UNCHANGED <<smbd, archive, budget>>

Fill(c) ==
    /\ call[c].pc = "fill"
    /\ \/ Fail(c) /\ UNCHANGED <<drive, touched>>
       \/ /\ file' = [file EXCEPT ![call[c].to] =
                        IF call[c].src = "text" THEN call[c].text ELSE file[call[c].src]]
          /\ Unsynced
          /\ Becomes(c, [call[c] EXCEPT !.pc = call[c].then, !.acted = TRUE])
          /\ Touches(c, call[c].to)
    /\ UNCHANGED <<smbd, archive, budget>>

-----------------------------------------------------------------------------
(* repair_shutdown_timeout and repair_syslog_mirror.                        *)
RepairCfg(c) ==
    /\ call[c].pc = "idle" /\ Kind[c] \in CfgRepairs
    /\ LET f == CfgFile(Kind[c])
           new == Repaired(c, file[f])
       IN \/ Fail(c)
          \/ IF new = file[f] THEN Goto(c, "done")
             ELSE Becomes(c, Overwriting(call[c], f, "text", new, "done"))
    /\ Reads

-----------------------------------------------------------------------------
(* Both samba repairs read the runtime passdb, then the one on flash.       *)
SambaRepairs == {"samba-account-mapping", "samba-passdb-flash"}

ReadRuntime(c) ==
    /\ call[c].pc = "idle" /\ Kind[c] \in SambaRepairs
    /\ \/ Fail(c)
       \/ Becomes(c, [call[c] EXCEPT !.pc = "flash", !.runtime = file["runtime"]])
    /\ Reads

(* The mapping repair takes a flash passdb it cannot read for an empty one. *)
ReadFlashForMapping(c) ==
    /\ call[c].pc = "flash" /\ Kind[c] = "samba-account-mapping"
    /\ \E flash \in {file["smbpasswd"], Truncated("smbpasswd")} :
         LET users == {u \in ManagedUsers(flash) : call[c].runtime[u] # NoEntry}
         IN Becomes(c, [call[c] EXCEPT !.pc = "user", !.users = users, !.todo = users])
    /\ Reads

(* repair_samba_account_mapping: one user after the other; getent, which    *)
(* may fail, looks into the file that is then read and rewritten.           *)
LookUpUser(c, u) ==
    /\ call[c].pc = "user" /\ u \in call[c].todo
    /\ \E pc \in {IF file["passwd"][u] = "passdb" THEN "group" ELSE "passwd", "passwd"} :
         Becomes(c, [call[c] EXCEPT !.pc = pc, !.todo = @ \ {u}, !.user = {u}])
    /\ Reads

Ensure(c, f, new, then) ==
    \/ Fail(c)
    \/ IF new = file[f] THEN Goto(c, then)
       ELSE Becomes(c, Overwriting(call[c], f, "text", new, then))

EnsurePasswdUser(c) ==
    /\ call[c].pc = "passwd"
    /\ \E u \in call[c].user : Ensure(c, "passwd", WithUser(file["passwd"], u), "group")
    /\ Reads

EnsureGroupMember(c) ==
    /\ call[c].pc = "group"
    /\ \E u \in call[c].user : Ensure(c, "group", WithMember(file["group"], u), "user")
    /\ Reads

(* smbd finds the accounts as they are when it starts.                      *)
Mapped(passwd) == {u \in Users : passwd[u] = "passdb"}

ReloadSamba == UNCHANGED smbd
RestartSamba == smbd' = Mapped(file["passwd"])

FinishMapping(c) ==
    /\ call[c].pc = "user" /\ call[c].todo = {}
    /\ \/ ~call[c].acted /\ Goto(c, "done") /\ UNCHANGED smbd
       \/ call[c].acted /\ Goto(c, "done") /\ RestartSamba
       \/ call[c].acted /\ Fail(c) /\ (RestartSamba \/ UNCHANGED smbd)
    /\ UNCHANGED <<drive, archive, budget, touched>>

-----------------------------------------------------------------------------
(* repair_samba_passdb_flash: a backup, the copy, and a look at the copy,   *)
(* for which a file that cannot be read has no hash that differs.           *)
NoBackupFirst(r) == Overwriting(r, "smbpasswd", "runtime", << >>, "verify")
BackUpFirst(r) == Overwriting(r, "bak", "smbpasswd", << >>, "copy")

ReadFlashForCopy(c) ==
    /\ call[c].pc = "flash" /\ Kind[c] = "samba-passdb-flash"
    /\ LET users == ManagedUsers(file["smbpasswd"])
           r == [call[c] EXCEPT !.users = users]
       IN \/ Fail(c)
          \/ IF Diverges(r.runtime, file["smbpasswd"], users)
             THEN Becomes(c, BackUpFirst(r))
             ELSE Becomes(c, [r EXCEPT !.pc = "done"])
    /\ Reads

CopyToFlash(c) ==
    /\ call[c].pc = "copy"
    /\ Becomes(c, Overwriting(call[c], "smbpasswd", "runtime", << >>, "verify"))
    /\ Reads

VerifyCopy(c) ==
    /\ call[c].pc = "verify"
    /\ \E flash \in {file["smbpasswd"], Truncated("smbpasswd")} :
         IF Diverges(call[c].runtime, flash, call[c].users) THEN Fail(c) ELSE Goto(c, "done")
    /\ Reads

-----------------------------------------------------------------------------
(* do_backup and do_restore.  tar captures and extracts file by file; the   *)
(* archive of a tar that did not finish yields what it has, and an error.   *)
NoArchive == [exists |-> FALSE, whole |-> FALSE, manifest |-> FALSE, has |-> {},
              files |-> [f \in OnFlash |-> Truncated(f)]]

(* A .bak without an entry stands for none.                                 *)
Present == {f \in OnFlash : f = "bak" => file[f] # Truncated(f)}

Backup(c) ==
    /\ call[c].pc = "idle" /\ Kind[c] = "backup"
    /\ \/ Fail(c) /\ UNCHANGED <<archive, touched>>
       \/ /\ Becomes(c, [call[c] EXCEPT !.pc = "tar", !.todo = Present])
          /\ archive' = [NoArchive EXCEPT !.exists = TRUE]
          /\ Touches(c, "archive")
    /\ UNCHANGED <<drive, smbd, budget>>

First(c) == CHOOSE f \in call[c].todo : \A g \in call[c].todo : TarOrder[f] <= TarOrder[g]

Capture(c, f) ==
    /\ call[c].pc = "tar" /\ call[c].todo # {} /\ f = First(c)
    /\ \/ Fail(c) /\ UNCHANGED archive
       \/ /\ Becomes(c, [call[c] EXCEPT !.todo = @ \ {f}])
          /\ archive' = [archive EXCEPT !.has = @ \cup {f}, !.files[f] = file[f],
                                        !.whole = call[c].todo = {f}]
    /\ UNCHANGED <<drive, smbd, budget, touched>>

WriteManifest(c) ==
    /\ call[c].pc = "tar" /\ call[c].todo = {}
    /\ \/ Fail(c) /\ UNCHANGED archive
       \/ Goto(c, "done") /\ archive' = [archive EXCEPT !.manifest = TRUE]
    /\ UNCHANGED <<drive, smbd, budget, touched>>

(* Without a manifest the place is found as for a backup, or not.           *)
Restore(c) ==
    /\ call[c].pc = "idle" /\ Kind[c] = "restore"
    /\ \/ Fail(c)
       \/ /\ archive.exists
          /\ Becomes(c, [call[c] EXCEPT !.pc = "extract", !.todo = archive.has])
    /\ Reads

Extract(c, f) ==
    /\ call[c].pc = "extract" /\ call[c].todo # {} /\ f = First(c)
    /\ Becomes(c, Overwriting([call[c] EXCEPT !.todo = @ \ {f}], f, "text",
                              archive.files[f], "extract"))
    /\ Reads

ExitStatusIgnored == TRUE
ExitedWell == archive.whole

FinishRestore(c) ==
    /\ call[c].pc = "extract" /\ call[c].todo = {}
    /\ IF ExitedWell THEN Goto(c, "done") ELSE Fail(c)
    /\ Reads

-----------------------------------------------------------------------------
(* Everybody else. *)

Acts == budget > 0 /\ budget' = budget - 1
TouchesAll(fs) == Touch(Calls, fs)
Killed == [d \in Calls |-> IF Running(d) THEN Stopped(d) ELSE call[d]]

(* smbpasswd changes a password, in the runtime passdb only.  Bound: users   *)
(* touch the files that some call of the scenario is about.                 *)
InPlay(kinds) == \E c \in Calls : Kind[c] \in kinds /\ call[c].pc # "off"

ChangePassword(u, h) ==
    /\ Acts /\ InPlay(SambaRepairs) /\ file["runtime"][u] \notin {NoEntry, h}
    /\ file' = [file EXCEPT !["runtime"][u] = h]
    /\ TouchesAll({"runtime"})
    /\ UNCHANGED <<smbd, archive, call, was, lost>>

(* Somebody changes another setting of a config file.                       *)
EditSetting(f) ==
    /\ Acts /\ InPlay({k \in CfgRepairs : CfgFile(k) = f})
    /\ file' = [file EXCEPT ![f] = SetKey(@, "other", "edited")] /\ file' # file /\ Unsynced
    /\ TouchesAll({f})
    /\ UNCHANGED <<smbd, archive, call>>

(* The plugin is killed. *)
Kill ==
    /\ Acts /\ (\E c \in Calls : Running(c))
    /\ call' = Killed
    /\ UNCHANGED <<drive, smbd, archive, touched>>

(* The power fails.  What was written since the host came up may be on the  *)
(* flash drive or not, file by file, for nothing here waits for the drive;  *)
(* a reboot that was asked for writes it all.  The host comes up with the   *)
(* passdb of the flash drive and the account files of its boot, and samba   *)
(* starts.                                                                  *)
Gone(fs) ==
    {f \in {"disk", "rsyslog"} : Value(fs[f], "other") = NoEntry}
    \cup {"passdb" : u \in {u \in Users : \A f \in {"smbpasswd", "bak"} : fs[f][u] = NoEntry}}

Left == [disk : was["disk"], rsyslog : was["rsyslog"],
         smbpasswd : was["smbpasswd"], bak : was["bak"]]
Booted(left, uids) ==
    [f \in Files |->
        CASE f \in OnFlash -> left[f]
          [] f = "runtime" -> left["smbpasswd"]
          [] f = "passwd" -> [a \in Accounts |-> IF a \in Users THEN uids[a] ELSE "other"]
          [] f = "group" -> Foreign]

PowerLoss ==
    /\ Acts
    /\ \E left \in Left, uids \in BootUids : file' = Booted(left, uids)
    /\ smbd' = Mapped(file'["passwd"])
    /\ was' = [f \in OnFlash |-> {file'[f]}]
    /\ lost' = lost \cup (Gone(file') \ Gone(file))
    /\ call' = Killed
    /\ Touch({d \in Calls : call[d].pc = "done"},
             {"passwd", "group"} \cup {f \in OnFlash : file'[f] # file[f]})
    /\ UNCHANGED archive

-----------------------------------------------------------------------------
Init ==
    /\ \E s \in Scenarios :
         /\ file \in s.files
         /\ budget = s.acts
         /\ call = [c \in Calls |-> IF c \in s.calls THEN [Off EXCEPT !.pc = "idle"] ELSE Off]
    /\ smbd = Mapped(file["passwd"])
    /\ archive = NoArchive
    /\ touched = [c \in Calls |-> [during |-> {}, since |-> {}]]
    /\ was = [f \in OnFlash |-> {file[f]}] /\ lost = {}

Call(c) ==
    \/ Open(c) \/ Fill(c)
    \/ RepairCfg(c)
    \/ ReadRuntime(c) \/ ReadFlashForMapping(c) \/ FinishMapping(c)
    \/ (\E u \in Users : LookUpUser(c, u)) \/ EnsurePasswdUser(c) \/ EnsureGroupMember(c)
    \/ ReadFlashForCopy(c) \/ CopyToFlash(c) \/ VerifyCopy(c)
    \/ Backup(c) \/ WriteManifest(c) \/ Restore(c) \/ FinishRestore(c)
    \/ \E f \in OnFlash : Capture(c, f) \/ Extract(c, f)

Next ==
    \/ \E c \in Calls : Call(c)
    \/ \E u \in Users, h \in Hashes : ChangePassword(u, h)
    \/ \E f \in {"disk", "rsyslog"} : EditSetting(f)
    \/ Kill \/ PowerLoss

Spec == Init /\ [][Next]_vars

-----------------------------------------------------------------------------
Pcs == {"off", "idle", "open", "fill", "flash", "user", "passwd", "group", "copy", "verify",
        "tar", "extract", "done", "failed"}
Passdb == [Users -> Hashes \cup {NoEntry}]

TypeOK ==
    /\ DOMAIN file = Files /\ \A f \in Passdbs : file[f] \in Passdb
    /\ file["passwd"] \in [Accounts -> {NoEntry, "passdb", "other"}]
    /\ file["group"] \in (SUBSET Accounts) \cup {NoGroup}
    /\ smbd \subseteq Users /\ budget \in Nat
    /\ archive.has \subseteq OnFlash /\ (archive.whole => archive.exists)
    /\ \A c \in Calls : /\ call[c].pc \in Pcs /\ call[c].to \in Files
                        /\ call[c].runtime \in Passdb
                        /\ call[c].users \subseteq Users
                        /\ touched[c].during \cup touched[c].since \subseteq Files \cup {"archive"}

Alone(c, fs) == fs \cap touched[c].during = {}
Undisturbed(c, fs) == Alone(c, fs) /\ fs \cap touched[c].since = {}
Done(c, kind) == Kind[c] = kind /\ call[c].pc = "done"

(* A user of the samba passdb has a password on flash, in the .bak or in an  *)
(* archive, wherever a repair or a restore stops half way                   *)
(* (repair_samba_passdb_flash: "Backs the flash copy up to `.bak`"), unless  *)
(* two of them rewrote these files at once, a restore wrote back what a     *)
(* backup that failed had taken until then, or a power loss took both       *)
(* copies, neither of which is synced.                                      *)
Restored == \E c \in Calls : Kind[c] = "restore" /\ call[c].pc \notin {"off", "idle"}
HalfArchive == /\ archive.has # {} /\ ~archive.whole
               /\ \E b \in Calls : Kind[b] = "backup" /\ call[b].pc = "failed"
HalfRestored == Restored /\ HalfArchive
PassdbNotLost ==
    \/ \E c \in Calls : ~Alone(c, {"smbpasswd", "bak"})
    \/ HalfRestored \/ "passdb" \in lost
    \/ \A u \in Users : \E f \in {"smbpasswd", "bak"} :
         \/ file[f][u] # NoEntry
         \/ f \in archive.has /\ archive.files[f][u] # NoEntry

(* The passwords of users on flash survive every reboot after a repair that *)
(* said it propagated them (repair_samba_passdb_flash: "so it survives a     *)
(* reboot"), and every power loss that does not take the flash copy back.   *)
PropagatedStays ==
    \A c \in Calls : Done(c, "samba-passdb-flash") /\ Undisturbed(c, {"smbpasswd", "runtime"}) =>
        \A u \in call[c].users :
            NoEntry \notin {call[c].runtime[u], file["smbpasswd"][u]} =>
                /\ Classified(file, u) # "diverged"
                /\ file["runtime"][u] = call[c].runtime[u]

(* PassdbNotLost and PropagatedStays: no password is lost on the way.       *)
PasswordsSurvive == TypeOK /\ PassdbNotLost /\ PropagatedStays

(* The repair is "a no-op (still `ok`) when they already match": when one    *)
(* says it is done, and no other is still at work, every user has the       *)
(* running password on flash.                                               *)
RetryPropagates ==
    \A c \in Calls :
        /\ Done(c, "samba-passdb-flash") /\ Undisturbed(c, {"smbpasswd", "runtime"})
        /\ \A d \in Calls : ~Running(d)
        => file["smbpasswd"] = call[c].runtime

(* After a mapping repair the check finds no user of it corrupt, and if it   *)
(* changed accounts it restarted samba after the last change: smbd serves   *)
(* every managed user (repair_samba_account_mapping: "then restart samba     *)
(* once so smbd rebuilds the mapping").                                     *)
MappingHealed ==
    \A c \in Calls :
        Done(c, "samba-account-mapping") /\ Undisturbed(c, {"passwd", "group"}) =>
            /\ \A u \in call[c].users : Classified(file, u) # "corrupt"
            /\ call[c].acted => call[c].users \subseteq smbd
            /\ call[c].acted /\ file["group"] # NoGroup => call[c].users \subseteq file["group"]

(* Other accounts lose their entries only to two writers at once, or to one  *)
(* that stopped between emptying a file and filling it (write_if_changed).  *)
Broken(f) == \E c \in Calls : call[c].to = f /\ call[c].pc \in {"fill", "failed"}
Raced(f) == \E c \in Calls : f \in touched[c].during
AccountsKept ==
    /\ Broken("passwd") \/ Raced("passwd") \/ \A a \in Foreign : file["passwd"][a] = "other"
    /\ Broken("group") \/ Raced("group") \/ Foreign \subseteq file["group"]

(* A settings repair that says it is done leaves a file its check finds     *)
(* nothing wrong with, if no key is there twice, and the other settings     *)
(* (set_cfg_keys: "preserving unrelated lines"), until somebody restores     *)
(* what a backup found or a power loss leaves the file empty.  A target for *)
(* the logs that is set but empty is written as it is: the mirror is on,    *)
(* the target is still missing.                                             *)
NoTarget(c) == Kind[c] = "syslog-mirror" /\ Remote[c] = ""
Healed(c, lines) ==
    IF NoTarget(c) THEN Value(lines, "MIRROR") = "yes" ELSE CfgFine(Kind[c], lines)
CfgHealed ==
    \A c \in Calls : Kind[c] \in CfgRepairs /\ call[c].pc = "done" =>
        LET f == CfgFile(Kind[c])
            lines == file[f]
        IN /\ /\ Undisturbed(c, {f})
              /\ \A i, j \in DOMAIN lines : lines[i].key = lines[j].key => i = j
              => Healed(c, lines)
           /\ Broken(f) \/ Raced(f) \/ Restored \/ f \in lost \/ Value(lines, "other") # NoEntry

(* MappingHealed and CfgHealed: what a repair says it repaired is whole.    *)
RepairHeals == MappingHealed /\ CfgHealed

(* After a backup or a restore that says it is done the tree and the        *)
(* archive agree on every file, however often a backup or a restore before  *)
(* it was killed half way (do_restore: "Restore the config tree").          *)
ArchiveAgrees ==
    \A c \in Calls : (Done(c, "backup") \/ Done(c, "restore"))
                     /\ Undisturbed(c, OnFlash \cup {"archive"}) =>
        /\ OnFlash \ {"bak"} \subseteq archive.has
        /\ \A f \in archive.has : file[f] = archive.files[f]

=============================================================================

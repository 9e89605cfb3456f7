---------------------------- MODULE MCFlashConfig ----------------------------
(* Two accounts on flash, one of which changed its password since, or none; *)
(* the settings missing, wrong, spelt otherwise or there twice.             *)
EXTENDS FlashConfig, TLC

CONSTANTS u1, u2, x, h1, h2

MCCalls == {"timeout", "syslog", "syslogUnset", "mapA", "mapB", "flashA", "flashB", "backup", "restoreA", "restoreB"}
MCKind ==
    [c \in MCCalls |->
        CASE c = "timeout" -> "shutdown-timeout"
          [] c \in {"syslog", "syslogUnset"} -> "syslog-mirror"
          [] c \in {"mapA", "mapB"} -> "samba-account-mapping"
          [] c \in {"flashA", "flashB"} -> "samba-passdb-flash"
          [] c = "backup" -> "backup"
          [] OTHER -> "restore"]

Other == Line("other", "x")
Bare(k, v) == [Line(k, v) EXCEPT !.plain = FALSE]
Disks == { << Other, Line("shutdownTimeout", "0") >>, << Other >>,
           << Bare("shutdownTimeout", "120"), Other >>,
           << Line("shutdownTimeout", "600"), Other, Line("shutdownTimeout", "90") >> }
Rsyslogs == { << Line("MIRROR", ""), Line("REMOTESERVER", ""), Other >>,
              << Line("REMOTESERVER", "host"), Other, Line("MIRROR", "yes") >>,
              << Other, Line("MIRROR", "yes") >> }

Tree(disk, rsyslog, runtime, uids) ==
    [f \in Files |->
        CASE f = "disk" -> disk
          [] f = "rsyslog" -> rsyslog
          [] f = "smbpasswd" -> [u \in Users |-> h1]
          [] f = "bak" -> Truncated("bak")
          [] f = "runtime" -> runtime
          [] f = "passwd" -> [a \in Accounts |-> IF a \in Users THEN uids[a] ELSE "other"]
          [] f = "group" -> Foreign]

Sane == [u \in Users |-> "passdb"]
Same == [u \in Users |-> h1]
OneDisk == << Other >>
OneRsyslog == << Other, Line("MIRROR", "yes") >>

Uids == { [u \in Users |-> "passdb"], [u \in Users |-> NoEntry],
          [u \in Users |-> IF u = u1 THEN "passdb" ELSE "other"] }
Changed == [u \in Users |-> IF u = u1 THEN h2 ELSE h1]

Settings == {Tree(d, r, Same, Sane) : d \in Disks, r \in Rsyslogs}
Mappings == {Tree(OneDisk, OneRsyslog, Same, p) : p \in Uids}
Passwords == {Tree(OneDisk, OneRsyslog, r, Sane) : r \in {Same, Changed}}
Single == {Tree(OneDisk, OneRsyslog, Changed, Sane)}

MCScenarios ==
    { [calls |-> {"mapA", "mapB"}, files |-> Mappings, acts |-> 0],
      [calls |-> {"mapA"}, files |-> Mappings, acts |-> 2],
      [calls |-> {"mapA", "flashA"}, files |-> Single, acts |-> 2],
      [calls |-> {"flashA", "flashB"}, files |-> Passwords, acts |-> 2],
      [calls |-> {"timeout"}, files |-> Settings, acts |-> 2],
      [calls |-> {"syslog"}, files |-> Settings, acts |-> 2],
      [calls |-> {"syslogUnset"}, files |-> Settings, acts |-> 1],
      [calls |-> {"timeout", "backup", "restoreA"}, files |-> Single, acts |-> 1],
      [calls |-> {"backup", "restoreA", "restoreB"}, files |-> Single, acts |-> 1],
      [calls |-> {"flashA", "backup", "restoreA"}, files |-> Single, acts |-> 0] }
MCTarOrder == [f \in OnFlash |-> CASE f = "disk" -> 1 [] f = "smbpasswd" -> 2 [] f = "bak" -> 3 [] OTHER -> 4]
MCBootUids == {Sane, [u \in Users |-> NoEntry]}
MCRemote == [c \in MCCalls |-> IF c = "syslogUnset" THEN "" ELSE "remote-syslog-host"]
=============================================================================

-------------------------- MODULE FlashConfigProofs --------------------------
(* What the repairs of the flash config and its backup promise, for every   *)
(* number of accounts and of calls, however they overlap, stop half way, and*)
(* whatever users and power losses do.                                      *)
EXTENDS FlashConfig, WellFoundedInduction, TLAPS

USE DEF drive

-----------------------------------------------------------------------------
(* The inductive invariant: what files and calls are.                       *)
Fields == {"pc", "text", "src", "to", "then", "users", "todo", "user", "acted", "runtime"}
Shaped(c) == call[c] = [f \in Fields |-> call[c][f]]
Shapes ==
    /\ call = [c \in Calls |-> call[c]] /\ \A c \in Calls : Shaped(c)
    /\ file = [f \in Files |-> file[f]]
    /\ archive = [f \in {"exists", "whole", "manifest", "has", "files"} |-> archive[f]]
    /\ archive.files = [f \in OnFlash |-> archive.files[f]]
    /\ was = [f \in OnFlash |-> was[f]]

Empty == [u \in Users |-> NoEntry]
Full(x) == x \in [Users -> Hashes]
Written == {Line("shutdownTimeout", "120"), Line("MIRROR", "yes"), Line("other", "edited")}
           \cup {Line("REMOTESERVER", Remote[c]) : c \in Calls}
AnyLines == Lines \cup Written
Fits(f, x) ==
    CASE f \in {"disk", "rsyslog"} -> x \in Seq(AnyLines)
      [] f \in Passdbs -> Full(x) \/ x = Empty
      [] f = "passwd" -> x \in [Accounts -> UidKinds]
      [] f = "group" -> x \in (SUBSET Accounts) \cup {NoGroup}
Writes(c, f) == call[c].pc \in {"open", "fill"} /\ call[c].to = f
Writing(c) == call[c].pc \in {"open", "fill"}
Types ==
    /\ \A f \in Files : Fits(f, file[f])
    /\ \A f \in OnFlash : Fits(f, archive.files[f]) /\ \A x \in was[f] : Fits(f, x)
    /\ \A c \in Calls : Writing(c) /\ call[c].src = "text" => Fits(call[c].to, call[c].text)
    /\ smbd \subseteq Users /\ budget \in Nat /\ archive.has \subseteq OnFlash
    /\ \A c \in Calls : /\ Full(call[c].runtime) \/ call[c].runtime = Empty
                        /\ call[c].users \subseteq Users
                        /\ touched[c].during \cup touched[c].since \subseteq Files \cup {"archive"}

(* Where a call may be, and what it overwrites.                             *)
Ends == {"off", "idle", "done", "failed"}
WritesCfg(c) == call[c].src = "text" /\ call[c].to = CfgFile(Kind[c]) /\ call[c].then = "done"
WritesAccount(c) ==
    /\ call[c].src = "text"
    /\ \/ call[c].to = "passwd" /\ call[c].then = "group"
       \/ call[c].to = "group" /\ call[c].then = "user"
WritesBak(c) == call[c].to = "bak" /\ call[c].src = "smbpasswd" /\ call[c].then = "copy"
WritesFlash(c) == call[c].to = "smbpasswd" /\ call[c].src = "runtime" /\ call[c].then = "verify"
Extracts(c) ==
    /\ call[c].to \in archive.has /\ call[c].src = "text" /\ call[c].then = "extract"
    /\ call[c].text = archive.files[call[c].to]
Located(c) ==
    /\ call[c].to \in Files
    /\ Kind[c] \in CfgRepairs => call[c].pc \in Ends \cup {"open", "fill"}
    /\ Kind[c] \in CfgRepairs /\ Writing(c) => WritesCfg(c)
    /\ Kind[c] = "samba-account-mapping" =>
         /\ call[c].pc \in Ends \cup {"open", "fill", "flash", "user", "passwd", "group"}
         /\ Writing(c) => WritesAccount(c)
         /\ call[c].pc \in {"passwd", "group", "open", "fill"} =>
              \E u \in call[c].users : call[c].user = {u}
         /\ call[c].todo \subseteq call[c].users
    /\ Kind[c] = "samba-passdb-flash" =>
         /\ call[c].pc \in Ends \cup {"open", "fill", "flash", "copy", "verify"}
         /\ Writing(c) => WritesBak(c) \/ WritesFlash(c)
    /\ Kind[c] = "backup" => call[c].pc \in Ends \cup {"tar"}
    /\ Kind[c] = "restore" =>
         /\ call[c].pc \in Ends \cup {"open", "fill", "extract"}
         /\ Running(c) => archive.exists /\ call[c].todo \subseteq archive.has
         /\ Writing(c) => Extracts(c)

(* Settings and accounts nobody is to lose: a file keeps them, or the one   *)
(* call that has emptied it is about to fill it with them.                  *)
Kept(f, x) ==
    CASE f \in {"disk", "rsyslog"} -> Value(x, "other") # NoEntry
      [] f = "passwd" -> \A a \in Foreign : x[a] = "other"
      [] f = "group" -> Foreign \subseteq x
At(c, pc, f) == call[c].pc = pc /\ call[c].to = f
Excused(f) ==
    \/ Raced(f) \/ (\E c \in Calls : At(c, "failed", f))
    \/ f \in {"disk", "rsyslog"} /\ (Restored \/ f \in lost)
Keeping(f) ==
    Excused(f) \/
    /\ \A c \in Calls : At(c, "fill", f) => Kept(f, call[c].text)
    /\ (\E c \in Calls : At(c, "fill", f))
       \/ (Kept(f, file[f]) /\ \A c \in Calls : At(c, "open", f) => Kept(f, call[c].text))
Keepers == {"disk", "rsyslog", "passwd", "group"}

(* A settings repair writes what it says.                                   *)
NoTwice(lines) == \A i, j \in DOMAIN lines : lines[i].key = lines[j].key => i = j
Heals(c, x) == NoTwice(x) => Healed(c, x)
Settles(c) ==
    Kind[c] \in CfgRepairs =>
        /\ Writing(c) => Heals(c, call[c].text)
        /\ call[c].pc = "done" /\ Undisturbed(c, {CfgFile(Kind[c])}) => Heals(c, file[CfgFile(Kind[c])])

(* The passwords: the flash repair copies over one copy while another is    *)
(* full, and an archive that is whole has one; two writers at once, or a    *)
(* power loss that took both copies, are left out.                          *)
Unraced == "passdb" \notin lost /\ \A c \in Calls : Alone(c, {"smbpasswd", "bak"})
CopyHeld(c) ==
    Kind[c] = "samba-passdb-flash" =>
        /\ Writes(c, "bak") => Full(file["smbpasswd"])
        /\ call[c].pc = "copy" \/ Writes(c, "smbpasswd") => Full(file["bak"])
Started(b) == Kind[b] = "backup" /\ call[b].pc \notin {"off", "idle"}
SomeFull == Full(file["smbpasswd"]) \/ Full(file["bak"]) \/ archive.whole \/ HalfRestored
ArchiveFull == archive.whole => \E f \in {"smbpasswd", "bak"} : f \in archive.has /\ Full(archive.files[f])
PassdbKept == Unraced => SomeFull /\ ArchiveFull /\ \A c \in Calls : CopyHeld(c)

(* What the flash repair read is what it copied.                            *)
Propagates(c) ==
    Kind[c] = "samba-passdb-flash" =>
        /\ Running(c) /\ Alone(c, {"smbpasswd", "runtime"}) =>
             /\ file["runtime"] = call[c].runtime
             /\ call[c].pc = "verify" => file["smbpasswd"] = file["runtime"]
        /\ call[c].pc = "done" /\ Undisturbed(c, {"smbpasswd", "runtime"}) =>
             \A u \in call[c].users : NoEntry \notin {call[c].runtime[u], file["smbpasswd"][u]} =>
                 file["smbpasswd"][u] = call[c].runtime[u] /\ file["runtime"][u] = call[c].runtime[u]

(* The users a mapping repair is through with have their accounts.          *)
InPasswd(c) == (call[c].users \ call[c].todo) \
               (IF call[c].pc = "passwd" \/ Writes(c, "passwd") THEN call[c].user ELSE {})
InGroup(c) == (call[c].users \ call[c].todo) \
              (IF call[c].pc \in {"passwd", "group", "open", "fill"} THEN call[c].user ELSE {})
Maps(c) ==
    Kind[c] = "samba-account-mapping" =>
        /\ call[c].pc \in {"user", "passwd", "group", "open", "fill"} /\ Alone(c, {"passwd", "group"}) =>
             /\ ~At(c, "fill", "passwd") => \A u \in InPasswd(c) : file["passwd"][u] = "passdb"
             /\ Writes(c, "passwd") => \A u \in InPasswd(c) \cup call[c].user : call[c].text[u] = "passdb"
             /\ ~At(c, "fill", "group") => file["group"] = NoGroup \/ InGroup(c) \subseteq file["group"]
             /\ Writes(c, "group") => InGroup(c) \cup call[c].user \subseteq call[c].text
        /\ call[c].pc = "done" /\ Undisturbed(c, {"passwd", "group"}) =>
             /\ \A u \in call[c].users : file["passwd"][u] = "passdb"
             /\ call[c].acted => call[c].users \subseteq smbd
             /\ file["group"] = NoGroup \/ call[c].users \subseteq file["group"]

(* There is one backup; what it has taken and a restore has written is as   *)
(* it was.                                                                  *)
Tree == OnFlash \ {"bak"}
OneBackup ==
    /\ \E s \in Scenarios : \A c \in Calls : call[c].pc # "off" => c \in s.calls
    /\ \A b, d \in Calls :
         Kind[b] = "backup" /\ Kind[d] = "backup" /\ call[b].pc # "off" /\ call[d].pc # "off" => b = d
    /\ archive.exists \/ archive.has # {} \/ archive.whole => \E b \in Calls : Started(b)
    /\ archive.whole => archive.exists /\ Tree \subseteq archive.has
Same(fs) == \A f \in fs : file[f] = archive.files[f]
Tars(b) ==
    Kind[b] = "backup" =>
        /\ call[b].pc = "tar" =>
             /\ archive.exists /\ call[b].todo \subseteq OnFlash
             /\ archive.has \cap call[b].todo = {} /\ Tree \subseteq archive.has \cup call[b].todo
             /\ archive.whole <=> call[b].todo = {}
             /\ Alone(b, {"bak"}) => "bak" \in archive.has \cup call[b].todo \/ file["bak"] = Empty
             /\ \A f \in archive.has : Alone(b, {f}) => file[f] = archive.files[f]
        /\ call[b].pc = "done" =>
             /\ archive.whole
             /\ Undisturbed(b, OnFlash \cup {"archive"}) => Same(archive.has)
Extracted(c) ==
    Kind[c] = "restore" =>
        /\ Running(c) /\ Alone(c, OnFlash \cup {"archive"}) =>
             Same(archive.has \ (call[c].todo \cup IF Writing(c) THEN {call[c].to} ELSE {}))
        /\ call[c].pc = "done" =>
             /\ archive.whole
             /\ Undisturbed(c, OnFlash \cup {"archive"}) => Same(archive.has)

FlashInv ==
    /\ Shapes /\ Types /\ OneBackup /\ PassdbKept
    /\ \A f \in Keepers : Keeping(f)
    /\ \A c \in Calls : Located(c) /\ Settles(c) /\ Propagates(c) /\ Maps(c) /\ Tars(c) /\ Extracted(c)

-----------------------------------------------------------------------------
(* What the steps do to the record of the call that takes them.             *)
Others(c) ==
    /\ call' = [d \in Calls |-> call'[d]] /\ \A d \in Calls : Shaped(d)'
    /\ \A d \in Calls \ {c} : call'[d] = call[d]
SameBut(c, F) == \A f \in Fields \ F : call'[c][f] = call[c][f]
Goes(c, pc, F) == Others(c) /\ call'[c].pc = pc /\ SameBut(c, F)
Fails(c) ==
    /\ Others(c) /\ call'[c].pc = "failed" /\ call'[c].to = call[c].to
    /\ call'[c].users = {} /\ call'[c].todo = {} /\ call'[c].runtime = Empty
Overwrites(c, f, src, text, then, F) ==
    /\ Others(c) /\ call'[c].pc = "open" /\ call'[c].to = f /\ call'[c].src = src
    /\ call'[c].text = text /\ call'[c].then = then
    /\ SameBut(c, F \cup {"pc", "to", "src", "text", "then"})

LEMMA BecomesDoes ==
    ASSUME Shapes, NEW c \in Calls, NEW r, r = [f \in Fields |-> r[f]], Becomes(c, r)
    PROVE  Others(c) /\ call'[c] = r
<1>1. call'[c] = r /\ (\A d \in Calls \ {c} : call'[d] = call[d]) /\ call' = [d \in Calls |-> call'[d]]
  BY DEF Shapes, Becomes
<1>2. \A d \in Calls : Shaped(d)'
  BY <1>1 DEF Shapes, Shaped
<1>3. QED
  BY <1>1, <1>2 DEF Others

LEMMA GotoDoes ==
    ASSUME Shapes, NEW c \in Calls, NEW pc, Goto(c, pc)
    PROVE  Goes(c, pc, {"pc"})
<1> DEFINE r == [call[c] EXCEPT !.pc = pc]
<1>1. Shaped(c)
  BY DEF Shapes
<1>2. r = [f \in Fields |-> r[f]] /\ r.pc = pc /\ \A f \in Fields \ {"pc"} : r[f] = call[c][f]
  BY <1>1 DEF Fields, Shaped
<1>3. QED
  BY <1>2, BecomesDoes DEF Goes, SameBut, Goto

LEMMA FailDoes ==
    ASSUME Shapes, NEW c \in Calls, Fail(c)
    PROVE  Fails(c)
<1> DEFINE r == Stopped(c)
<1>1. /\ r = [f \in Fields |-> r[f]] /\ r.pc = "failed" /\ r.to = call[c].to
      /\ r.users = {} /\ r.todo = {} /\ r.runtime = Empty
  BY DEF Stopped, Off, Fields, Truncated, Passdbs, Empty
<1>2. Becomes(c, r)
  BY DEF Fail
<1> HIDE DEF r
<1>3. QED
  BY <1>1, <1>2, BecomesDoes DEF Fails

LEMMA OverwritingDoes ==
    ASSUME Shapes, NEW c \in Calls, NEW r, r = [x \in Fields |-> r[x]],
           NEW F, \A x \in Fields \ F : r[x] = call[c][x],
           NEW f, NEW src, NEW text, NEW then,
           Becomes(c, Overwriting(r, f, src, text, then))
    PROVE  /\ Overwrites(c, f, src, text, then, F)
           /\ \A x \in Fields \ {"pc", "to", "src", "text", "then"} : call'[c][x] = r[x]
<1> DEFINE q == Overwriting(r, f, src, text, then)
<1>1. /\ q = [x \in Fields |-> q[x]] /\ q.pc = "open" /\ q.to = f /\ q.src = src /\ q.text = text
      /\ q.then = then /\ \A x \in Fields \ {"pc", "to", "src", "text", "then"} : q[x] = r[x]
  BY DEF Overwriting, Fields
<1> HIDE DEF q
<1>2. Becomes(c, q)
  BY DEF q
<1>3. QED
  BY <1>1, <1>2, BecomesDoes DEF Overwrites, SameBut

LEMMA OverwritesAlike ==
    ASSUME Shapes, NEW c \in Calls, NEW f, NEW src, NEW text, NEW then,
           Becomes(c, Overwriting(call[c], f, src, text, then))
    PROVE  Overwrites(c, f, src, text, then, {})
<1>1. call[c] = [x \in Fields |-> call[c][x]]
  BY DEF Shapes, Shaped
<1>2. QED
  BY <1>1, OverwritingDoes

(* Who notices that files are written.                                      *)
Notices(ds, fs) ==
    \A d \in Calls :
        /\ touched'[d].during = touched[d].during \cup IF d \in ds /\ Running(d) THEN fs ELSE {}
        /\ touched'[d].since = touched[d].since \cup IF d \in ds /\ call[d].pc = "done" THEN fs ELSE {}

LEMMA TouchDoes ==
    ASSUME NEW ds, NEW fs, Touch(ds, fs)
    PROVE  Notices(ds, fs)
BY DEF Touch, Notices

Still == UNCHANGED <<file, archive, touched>>
Puts(f, x) == file' = [g \in Files |-> file'[g]] /\ file'[f] = x /\ \A g \in Files \ {f} : file'[g] = file[g]

LEMMA PutDoes ==
    ASSUME Shapes, NEW f \in Files, NEW x, file' = [file EXCEPT ![f] = x]
    PROVE  Puts(f, x)
BY DEF Shapes, Puts

-----------------------------------------------------------------------------
(* The steps.                                                               *)
LEMMA OpenDoes ==
    ASSUME Shapes, NEW c \in Calls, call[c].to \in Files, Open(c)
    PROVE  /\ call[c].pc = "open" /\ UNCHANGED <<smbd, archive, budget>>
           /\ \/ Fails(c) /\ Still
              \/ /\ Goes(c, "fill", {"pc"}) /\ Puts(call[c].to, Truncated(call[c].to))
                 /\ Notices(Calls \ {c}, {call[c].to})
<1>1. CASE Fail(c) /\ UNCHANGED <<file, touched>>
  BY <1>1, FailDoes DEF Open, Still
<1>2. CASE /\ file' = [file EXCEPT ![call[c].to] = Truncated(call[c].to)]
           /\ Goto(c, "fill") /\ Touches(c, call[c].to)
  <2>1. Goes(c, "fill", {"pc"})
    BY <1>2, GotoDoes
  <2>2. Puts(call[c].to, Truncated(call[c].to))
    BY <1>2, PutDoes
  <2>3. Notices(Calls \ {c}, {call[c].to})
    BY <1>2, TouchDoes DEF Touches
  <2>4. QED
    BY <2>1, <2>2, <2>3 DEF Open
<1>3. QED
  BY <1>1, <1>2 DEF Open

Filling(c) == IF call[c].src = "text" THEN call[c].text ELSE file[call[c].src]
LEMMA FillDoes ==
    ASSUME Shapes, NEW c \in Calls, call[c].to \in Files, Fill(c)
    PROVE  /\ call[c].pc = "fill" /\ UNCHANGED <<smbd, archive, budget>>
           /\ \/ Fails(c) /\ Still
              \/ /\ Goes(c, call[c].then, {"pc", "acted"}) /\ Puts(call[c].to, Filling(c))
                 /\ Notices(Calls \ {c}, {call[c].to}) /\ call'[c].acted = TRUE
<1>1. CASE Fail(c) /\ UNCHANGED <<file, touched>>
  BY <1>1, FailDoes DEF Fill, Still
<1>2. CASE /\ file' = [file EXCEPT ![call[c].to] = Filling(c)]
           /\ Becomes(c, [call[c] EXCEPT !.pc = call[c].then, !.acted = TRUE])
           /\ Touches(c, call[c].to)
  <2> DEFINE r == [call[c] EXCEPT !.pc = call[c].then, !.acted = TRUE]
  <2>1. /\ r = [f \in Fields |-> r[f]] /\ r.pc = call[c].then /\ r.acted = TRUE
        /\ \A f \in Fields \ {"pc", "acted"} : r[f] = call[c][f]
    BY DEF Shapes, Shaped, Fields
  <2> HIDE DEF r
  <2>2. Goes(c, call[c].then, {"pc", "acted"}) /\ call'[c].acted = TRUE
    BY <1>2, <2>1, BecomesDoes DEF Goes, SameBut, r
  <2>3. Puts(call[c].to, Filling(c))
    BY <1>2, PutDoes
  <2>4. Notices(Calls \ {c}, {call[c].to})
    BY <1>2, TouchDoes DEF Touches
  <2>5. QED
    BY <2>2, <2>3, <2>4 DEF Fill
<1>3. QED
  BY <1>1, <1>2 DEF Fill, Filling

LEMMA RepairCfgDoes ==
    ASSUME Shapes, NEW c \in Calls, RepairCfg(c)
    PROVE  /\ call[c].pc = "idle" /\ Kind[c] \in CfgRepairs /\ Still /\ UNCHANGED <<smbd, budget>>
           /\ \/ Fails(c)
              \/ Goes(c, "done", {"pc"}) /\ file[CfgFile(Kind[c])] = Repaired(c, file[CfgFile(Kind[c])])
              \/ Overwrites(c, CfgFile(Kind[c]), "text", Repaired(c, file[CfgFile(Kind[c])]), "done", {})
BY FailDoes, GotoDoes, OverwritesAlike DEF RepairCfg, Reads, Still

LEMMA ReadRuntimeDoes ==
    ASSUME Shapes, NEW c \in Calls, ReadRuntime(c)
    PROVE  /\ call[c].pc = "idle" /\ Kind[c] \in SambaRepairs /\ Still /\ UNCHANGED <<smbd, budget>>
           /\ Fails(c) \/ (Goes(c, "flash", {"pc", "runtime"}) /\ call'[c].runtime = file["runtime"])
<1>1. CASE Fail(c)
  BY <1>1, FailDoes DEF ReadRuntime, Reads, Still
<1>2. CASE Becomes(c, [call[c] EXCEPT !.pc = "flash", !.runtime = file["runtime"]])
  <2> DEFINE r == [call[c] EXCEPT !.pc = "flash", !.runtime = file["runtime"]]
  <2>1. /\ r = [f \in Fields |-> r[f]] /\ r.pc = "flash" /\ r.runtime = file["runtime"]
        /\ \A f \in Fields \ {"pc", "runtime"} : r[f] = call[c][f]
    BY DEF Shapes, Shaped, Fields
  <2> HIDE DEF r
  <2>2. QED
    BY <1>2, <2>1, BecomesDoes DEF Goes, SameBut, r, ReadRuntime, Reads, Still
<1>3. QED
  BY <1>1, <1>2 DEF ReadRuntime

LEMMA ReadFlashForMappingDoes ==
    ASSUME Shapes, NEW c \in Calls, ReadFlashForMapping(c)
    PROVE  /\ call[c].pc = "flash" /\ Kind[c] = "samba-account-mapping" /\ Still /\ UNCHANGED <<smbd, budget>>
           /\ Goes(c, "user", {"pc", "users", "todo"})
           /\ call'[c].users \subseteq Users /\ call'[c].todo = call'[c].users
<1>1. PICK flash \in {file["smbpasswd"], Truncated("smbpasswd")} :
        LET users == {u \in ManagedUsers(flash) : call[c].runtime[u] # NoEntry}
        IN Becomes(c, [call[c] EXCEPT !.pc = "user", !.users = users, !.todo = users])
  BY DEF ReadFlashForMapping
<1> DEFINE users == {u \in ManagedUsers(flash) : call[c].runtime[u] # NoEntry}
           r == [call[c] EXCEPT !.pc = "user", !.users = users, !.todo = users]
<1>2. users \subseteq Users
  BY ConstantsAssumption DEF ManagedUsers
<1> HIDE DEF users
<1>3. /\ r = [f \in Fields |-> r[f]] /\ r.pc = "user" /\ r.users = users /\ r.todo = users
      /\ \A f \in Fields \ {"pc", "users", "todo"} : r[f] = call[c][f]
  BY DEF Shapes, Shaped, Fields
<1>4. Becomes(c, r)
  BY <1>1 DEF users
<1> HIDE DEF r
<1>5. QED
  BY <1>2, <1>3, <1>4, BecomesDoes DEF Goes, SameBut, ReadFlashForMapping, Reads, Still

LEMMA LookUpUserDoes ==
    ASSUME Shapes, NEW c \in Calls, NEW u \in Users, LookUpUser(c, u)
    PROVE  /\ call[c].pc = "user" /\ u \in call[c].todo /\ Still /\ UNCHANGED <<smbd, budget>>
           /\ \E pc \in {"passwd", "group"} : /\ Goes(c, pc, {"pc", "todo", "user"})
                                              /\ pc = "group" => file["passwd"][u] = "passdb"
           /\ call'[c].todo = call[c].todo \ {u} /\ call'[c].user = {u}
<1>1. PICK pc \in {"passwd", "group"} :
        /\ Becomes(c, [call[c] EXCEPT !.pc = pc, !.todo = @ \ {u}, !.user = {u}])
        /\ pc = "group" => file["passwd"][u] = "passdb"
  BY DEF LookUpUser
<1> DEFINE left == call[c].todo \ {u}
           r == [call[c] EXCEPT !.pc = pc, !.todo = left, !.user = {u}]
<1>2. Becomes(c, r)
  BY <1>1
<1> HIDE DEF left
<1>3. /\ r = [f \in Fields |-> r[f]] /\ r.pc = pc /\ r.todo = left /\ r.user = {u}
      /\ \A f \in Fields \ {"pc", "todo", "user"} : r[f] = call[c][f]
  BY DEF Shapes, Shaped, Fields
<1> HIDE DEF r
<1>4. Goes(c, pc, {"pc", "todo", "user"}) /\ call'[c].todo = left /\ call'[c].user = {u}
  BY <1>2, <1>3, BecomesDoes DEF Goes, SameBut
<1>5. QED
  BY <1>1, <1>4 DEF left, LookUpUser, Reads, Still

Ensures(c, f, new, then) ==
    \/ Fails(c)
    \/ new = file[f] /\ Goes(c, then, {"pc"})
    \/ new # file[f] /\ Overwrites(c, f, "text", new, then, {})
LEMMA EnsureDoes ==
    ASSUME Shapes, NEW c \in Calls, NEW f, NEW new, NEW then, Ensure(c, f, new, then)
    PROVE  Ensures(c, f, new, then)
BY FailDoes, GotoDoes, OverwritesAlike DEF Ensure, Ensures

LEMMA EnsurePasswdUserDoes ==
    ASSUME Shapes, NEW c \in Calls, EnsurePasswdUser(c)
    PROVE  /\ call[c].pc = "passwd" /\ Still /\ UNCHANGED <<smbd, budget>>
           /\ \E u \in call[c].user : Ensures(c, "passwd", WithUser(file["passwd"], u), "group")
BY EnsureDoes DEF EnsurePasswdUser, Reads, Still

LEMMA EnsureGroupMemberDoes ==
    ASSUME Shapes, NEW c \in Calls, EnsureGroupMember(c)
    PROVE  /\ call[c].pc = "group" /\ Still /\ UNCHANGED <<smbd, budget>>
           /\ \E u \in call[c].user : Ensures(c, "group", WithMember(file["group"], u), "user")
BY EnsureDoes DEF EnsureGroupMember, Reads, Still

LEMMA FinishMappingDoes ==
    ASSUME Shapes, NEW c \in Calls, FinishMapping(c)
    PROVE  /\ call[c].pc = "user" /\ call[c].todo = {} /\ Still /\ UNCHANGED budget
           /\ \/ ~call[c].acted /\ Goes(c, "done", {"pc"}) /\ UNCHANGED smbd
              \/ call[c].acted /\ Goes(c, "done", {"pc"}) /\ smbd' = Mapped(file["passwd"])
              \/ Fails(c) /\ smbd' \in {smbd, Mapped(file["passwd"])}
BY FailDoes, GotoDoes DEF FinishMapping, RestartSamba, Still

LEMMA ReadFlashForCopyDoes ==
    ASSUME Shapes, NEW c \in Calls, ReadFlashForCopy(c)
    PROVE  /\ call[c].pc = "flash" /\ Kind[c] = "samba-passdb-flash" /\ Still /\ UNCHANGED <<smbd, budget>>
           /\ LET users == ManagedUsers(file["smbpasswd"])
                  differ == Diverges(call[c].runtime, file["smbpasswd"], users)
              IN /\ users \subseteq Users
                 /\ \/ Fails(c)
                    \/ differ /\ Overwrites(c, "bak", "smbpasswd", << >>, "copy", {"users"})
                       /\ call'[c].users = users
                    \/ ~differ /\ Goes(c, "done", {"pc", "users"}) /\ call'[c].users = users
<1> DEFINE users == ManagedUsers(file["smbpasswd"])
           differ == Diverges(call[c].runtime, file["smbpasswd"], users)
           r == [call[c] EXCEPT !.users = users]
           q == [r EXCEPT !.pc = "done"]
<1>1. users \subseteq Users
  BY ConstantsAssumption DEF ManagedUsers
<1> HIDE DEF users
<1>2. /\ r = [f \in Fields |-> r[f]] /\ r.users = users /\ r.runtime = call[c].runtime
      /\ \A f \in Fields \ {"users"} : r[f] = call[c][f]
  BY DEF Shapes, Shaped, Fields
<1>3. Fail(c) \/ (differ /\ Becomes(c, BackUpFirst(r))) \/ (~differ /\ Becomes(c, q))
  BY <1>2 DEF ReadFlashForCopy, users
<1> HIDE DEF r
<1>4. CASE Fail(c)
  BY <1>4, <1>1, FailDoes DEF ReadFlashForCopy, Reads, Still, users
<1>5. CASE differ /\ Becomes(c, BackUpFirst(r))
  <2>1. /\ Overwrites(c, "bak", "smbpasswd", << >>, "copy", {"users"})
        /\ \A x \in Fields \ {"pc", "to", "src", "text", "then"} : call'[c][x] = r[x]
    BY <1>2, <1>5, OverwritingDoes DEF BackUpFirst
  <2>2. call'[c].users = users
    BY <1>2, <2>1 DEF Fields
  <2>3. QED
    BY <1>1, <1>5, <2>1, <2>2 DEF ReadFlashForCopy, Reads, Still, users
<1>6. CASE ~differ /\ Becomes(c, q)
  <2>1. /\ q = [f \in Fields |-> q[f]] /\ q.pc = "done" /\ q.users = users
        /\ \A f \in Fields \ {"pc", "users"} : q[f] = call[c][f]
    BY <1>2 DEF Fields
  <2> HIDE DEF q
  <2>2. Goes(c, "done", {"pc", "users"}) /\ call'[c].users = users
    BY <1>6, <2>1, BecomesDoes DEF Goes, SameBut
  <2>3. QED
    BY <1>1, <1>6, <2>2 DEF ReadFlashForCopy, Reads, Still, users
<1>7. QED
  BY <1>3, <1>4, <1>5, <1>6

LEMMA CopyToFlashDoes ==
    ASSUME Shapes, NEW c \in Calls, CopyToFlash(c)
    PROVE  /\ call[c].pc = "copy" /\ Still /\ UNCHANGED <<smbd, budget>>
           /\ Overwrites(c, "smbpasswd", "runtime", << >>, "verify", {})
BY OverwritesAlike DEF CopyToFlash, Reads, Still

LEMMA VerifyCopyDoes ==
    ASSUME Shapes, NEW c \in Calls, VerifyCopy(c)
    PROVE  /\ call[c].pc = "verify" /\ Still /\ UNCHANGED <<smbd, budget>>
           /\ Fails(c) \/ Goes(c, "done", {"pc"})
BY FailDoes, GotoDoes DEF VerifyCopy, Reads, Still

LEMMA BackupDoes ==
    ASSUME Shapes, NEW c \in Calls, Backup(c)
    PROVE  /\ call[c].pc = "idle" /\ Kind[c] = "backup" /\ UNCHANGED <<file, smbd, budget>>
           /\ \/ Fails(c) /\ Still
              \/ /\ Goes(c, "tar", {"pc", "todo"}) /\ call'[c].todo = Present
                 /\ archive' = [NoArchive EXCEPT !.exists = TRUE]
                 /\ Notices(Calls \ {c}, {"archive"})
<1>1. CASE Fail(c) /\ UNCHANGED <<archive, touched>>
  BY <1>1, FailDoes DEF Backup, Still
<1>2. CASE /\ Becomes(c, [call[c] EXCEPT !.pc = "tar", !.todo = Present])
           /\ archive' = [NoArchive EXCEPT !.exists = TRUE]
           /\ Touches(c, "archive")
  <2> DEFINE all == Present
             r == [call[c] EXCEPT !.pc = "tar", !.todo = all]
  <2>0. Becomes(c, r)
    BY <1>2
  <2> HIDE DEF all
  <2>1. /\ r = [f \in Fields |-> r[f]] /\ r.pc = "tar" /\ r.todo = all
        /\ \A f \in Fields \ {"pc", "todo"} : r[f] = call[c][f]
    BY DEF Shapes, Shaped, Fields
  <2> HIDE DEF r
  <2>2. Goes(c, "tar", {"pc", "todo"}) /\ call'[c].todo = all
    BY <2>0, <2>1, BecomesDoes DEF Goes, SameBut
  <2>3. Notices(Calls \ {c}, {"archive"})
    BY <1>2, TouchDoes DEF Touches
  <2>4. QED
    BY <1>2, <2>2, <2>3 DEF Backup, all
<1>3. QED
  BY <1>1, <1>2 DEF Backup

(* tar's order leaves a first file in whatever is left.                     *)
LEMMA FirstIsLeft ==
    ASSUME NEW c \in Calls, call[c].todo \subseteq OnFlash, call[c].todo # {}
    PROVE  First(c) \in call[c].todo
<1> DEFINE S == call[c].todo
<1>1. \A f \in OnFlash : TarOrder[f] \in Nat
  BY ConstantsAssumption DEF OnFlash
<1>2. \E f \in S : \A g \in S : TarOrder[f] <= TarOrder[g]
  BY <1>1 DEF OnFlash
<1>3. QED
  BY <1>2 DEF First

LEMMA CaptureDoes ==
    ASSUME Shapes, NEW c \in Calls, NEW f \in OnFlash, Capture(c, f)
    PROVE  /\ call[c].pc = "tar" /\ call[c].todo # {} /\ f = First(c)
           /\ UNCHANGED <<file, smbd, budget, touched>>
           /\ \/ Fails(c) /\ Still
              \/ /\ Goes(c, "tar", {"pc", "todo"}) /\ call'[c].todo = call[c].todo \ {f}
                 /\ archive' = [archive EXCEPT !.has = archive.has \cup {f}, !.files[f] = file[f],
                                               !.whole = call[c].todo = {f}]
<1>1. CASE Fail(c) /\ UNCHANGED archive
  BY <1>1, FailDoes DEF Capture, Still
<1>2. CASE /\ Becomes(c, [call[c] EXCEPT !.todo = call[c].todo \ {f}])
           /\ archive' = [archive EXCEPT !.has = archive.has \cup {f}, !.files[f] = file[f],
                                         !.whole = call[c].todo = {f}]
  <2> DEFINE left == call[c].todo \ {f}
             r == [call[c] EXCEPT !.todo = left]
  <2>0. Becomes(c, r)
    BY <1>2
  <2> HIDE DEF left
  <2>1. /\ r = [g \in Fields |-> r[g]] /\ r.todo = left
        /\ \A g \in Fields \ {"todo"} : r[g] = call[c][g]
    BY DEF Shapes, Shaped, Fields
  <2>2. r.pc = call[c].pc
    BY DEF Shapes, Shaped, Fields
  <2> HIDE DEF r
  <2>3. Goes(c, "tar", {"pc", "todo"}) /\ call'[c].todo = left
    BY <2>0, <2>1, <2>2, BecomesDoes DEF Goes, SameBut, Capture
  <2>4. QED
    BY <1>2, <2>3 DEF Capture, left
<1>3. QED
  BY <1>1, <1>2 DEF Capture

LEMMA WriteManifestDoes ==
    ASSUME Shapes, NEW c \in Calls, WriteManifest(c)
    PROVE  /\ call[c].pc = "tar" /\ call[c].todo = {} /\ UNCHANGED <<file, smbd, budget, touched>>
           /\ \/ Fails(c) /\ Still
              \/ Goes(c, "done", {"pc"}) /\ archive' = [archive EXCEPT !.manifest = TRUE]
BY FailDoes, GotoDoes DEF WriteManifest, Still

LEMMA RestoreDoes ==
    ASSUME Shapes, NEW c \in Calls, Restore(c)
    PROVE  /\ call[c].pc = "idle" /\ Kind[c] = "restore" /\ Still /\ UNCHANGED <<smbd, budget>>
           /\ \/ Fails(c)
              \/ archive.exists /\ Goes(c, "extract", {"pc", "todo"}) /\ call'[c].todo = archive.has
<1>1. CASE Fail(c)
  BY <1>1, FailDoes DEF Restore, Reads, Still
<1>2. CASE archive.exists /\ Becomes(c, [call[c] EXCEPT !.pc = "extract", !.todo = archive.has])
  <2> DEFINE r == [call[c] EXCEPT !.pc = "extract", !.todo = archive.has]
  <2>1. /\ r = [f \in Fields |-> r[f]] /\ r.pc = "extract" /\ r.todo = archive.has
        /\ \A f \in Fields \ {"pc", "todo"} : r[f] = call[c][f]
    BY DEF Shapes, Shaped, Fields
  <2> HIDE DEF r
  <2>2. Goes(c, "extract", {"pc", "todo"}) /\ call'[c].todo = archive.has
    BY <1>2, <2>1, BecomesDoes DEF Goes, SameBut, r
  <2>3. QED
    BY <1>2, <2>2 DEF Restore, Reads, Still
<1>3. QED
  BY <1>1, <1>2 DEF Restore

LEMMA ExtractDoes ==
    ASSUME Shapes, NEW c \in Calls, NEW f \in OnFlash, Extract(c, f)
    PROVE  /\ call[c].pc = "extract" /\ call[c].todo # {} /\ f = First(c)
           /\ Still /\ UNCHANGED <<smbd, budget>>
           /\ Overwrites(c, f, "text", archive.files[f], "extract", {"todo"})
           /\ call'[c].todo = call[c].todo \ {f}
<1> DEFINE left == call[c].todo \ {f}
           r == [call[c] EXCEPT !.todo = left]
<1>1. Becomes(c, Overwriting(r, f, "text", archive.files[f], "extract"))
  BY DEF Extract
<1> HIDE DEF left
<1>2. /\ r = [g \in Fields |-> r[g]] /\ r.todo = left
      /\ \A g \in Fields \ {"todo"} : r[g] = call[c][g]
  BY DEF Shapes, Shaped, Fields
<1> HIDE DEF r
<1>3. /\ Overwrites(c, f, "text", archive.files[f], "extract", {"todo"})
      /\ \A x \in Fields \ {"pc", "to", "src", "text", "then"} : call'[c][x] = r[x]
  BY <1>1, <1>2, OverwritingDoes
<1>4. call'[c].todo = left
  BY <1>2, <1>3 DEF Fields
<1>5. QED
  BY <1>3, <1>4 DEF left, Extract, Reads, Still

LEMMA FinishRestoreDoes ==
    ASSUME Shapes, NEW c \in Calls, FinishRestore(c)
    PROVE  /\ call[c].pc = "extract" /\ call[c].todo = {} /\ Still /\ UNCHANGED <<smbd, budget>>
           /\ (archive.whole /\ Goes(c, "done", {"pc"})) \/ Fails(c)
BY FailDoes, GotoDoes DEF FinishRestore, ExitedWell, Reads, Still

-----------------------------------------------------------------------------
(* What everybody else does.                                                *)
LEMMA ChangePasswordDoes ==
    ASSUME Shapes, NEW u \in Users, NEW h \in Hashes, ChangePassword(u, h)
    PROVE  /\ UNCHANGED <<call, smbd, archive>> /\ file["runtime"][u] # NoEntry
           /\ Puts("runtime", [file["runtime"] EXCEPT ![u] = h]) /\ Notices(Calls, {"runtime"})
<1>1. "runtime" \in Files
  BY DEF Files
<1>2. Puts("runtime", [file["runtime"] EXCEPT ![u] = h])
  BY <1>1, PutDoes DEF ChangePassword
<1>3. Notices(Calls, {"runtime"})
  BY TouchDoes DEF ChangePassword, TouchesAll
<1>4. QED
  BY <1>2, <1>3 DEF ChangePassword

LEMMA EditSettingDoes ==
    ASSUME Shapes, NEW f \in {"disk", "rsyslog"}, EditSetting(f)
    PROVE  /\ UNCHANGED <<call, smbd, archive>>
           /\ Puts(f, SetKey(file[f], "other", "edited")) /\ Notices(Calls, {f})
<1>1. f \in Files
  BY DEF Files, OnFlash
<1>2. Puts(f, SetKey(file[f], "other", "edited"))
  BY <1>1, PutDoes DEF EditSetting
<1>3. Notices(Calls, {f})
  BY TouchDoes DEF EditSetting, TouchesAll
<1>4. QED
  BY <1>2, <1>3 DEF EditSetting

Ended(d) ==
    /\ Shaped(d)'
    /\ Running(d) => /\ call'[d].pc = "failed" /\ call'[d].to = call[d].to
                     /\ call'[d].users = {} /\ call'[d].todo = {} /\ call'[d].runtime = Empty
    /\ ~Running(d) => call'[d] = call[d]
AllEnded == call' = [d \in Calls |-> call'[d]] /\ \A d \in Calls : Ended(d)
LEMMA KilledDoes ==
    ASSUME Shapes, call' = Killed
    PROVE  AllEnded
<1>1. ASSUME NEW d \in Calls PROVE Ended(d)
  <2>1. CASE Running(d)
    <3> DEFINE r == Stopped(d)
    <3>1. /\ r = [f \in Fields |-> r[f]] /\ r.pc = "failed" /\ r.to = call[d].to
          /\ r.users = {} /\ r.todo = {} /\ r.runtime = Empty
      BY DEF Stopped, Off, Fields, Truncated, Passdbs, Empty
    <3>2. call'[d] = r
      BY <2>1 DEF Killed
    <3> HIDE DEF r
    <3>3. QED
      BY <2>1, <3>1, <3>2 DEF Ended, Shaped
  <2>2. CASE ~Running(d)
    BY <2>2 DEF Killed, Shapes, Shaped, Ended
  <2>3. QED
    BY <2>1, <2>2
<1>2. call' = [d \in Calls |-> call'[d]]
  BY DEF Killed
<1>3. QED
  BY <1>1, <1>2 DEF AllEnded

LEMMA KillDoes ==
    ASSUME Shapes, Kill
    PROVE  AllEnded /\ UNCHANGED <<file, smbd, archive, touched>>
BY KilledDoes DEF Kill

BootPasswd(uids) == [a \in Accounts |-> IF a \in Users THEN uids[a] ELSE "other"]
Reboots ==
    /\ AllEnded /\ UNCHANGED archive
    /\ Notices({d \in Calls : call[d].pc = "done"},
               {"passwd", "group"} \cup {f \in OnFlash : file'[f] # file[f]})
    /\ file' = [f \in Files |-> file'[f]] /\ file'["runtime"] = file'["smbpasswd"]
    /\ \E uids \in BootUids : file'["passwd"] = BootPasswd(uids)
    /\ smbd' = Mapped(file'["passwd"]) /\ file'["group"] = Foreign
    /\ \A f \in OnFlash : file'[f] \in was[f]
    /\ lost' = lost \cup (Gone(file') \ Gone(file))

LEMMA PowerLossDoes ==
    ASSUME Shapes, PowerLoss
    PROVE  Reboots
<1>1. PICK left \in Left, uids \in BootUids : file' = Booted(left, uids)
  BY DEF PowerLoss
<1>2. /\ file' = [f \in Files |-> file'[f]] /\ file'["runtime"] = file'["smbpasswd"]
      /\ file'["passwd"] = BootPasswd(uids) /\ file'["group"] = Foreign
      /\ \A f \in OnFlash : file'[f] = left[f]
  BY <1>1 DEF Booted, BootPasswd, Files, OnFlash
<1>3. \A f \in OnFlash : left[f] \in was[f]
  BY DEF Left, OnFlash
<1>4. AllEnded
  BY KilledDoes DEF PowerLoss
<1>5. Notices({d \in Calls : call[d].pc = "done"},
              {"passwd", "group"} \cup {f \in OnFlash : file'[f] # file[f]})
  BY TouchDoes DEF PowerLoss
<1>6. QED
  BY <1>2, <1>3, <1>4, <1>5 DEF PowerLoss, Reboots

-----------------------------------------------------------------------------
(* Which steps a call of a kind takes.                                      *)
LEMMA CfgSteps ==
    ASSUME NEW c \in Calls, Located(c), Kind[c] \in CfgRepairs, Call(c)
    PROVE  Open(c) \/ Fill(c) \/ RepairCfg(c)
BY DEF Located, Call, CfgRepairs, SambaRepairs, Ends, ReadRuntime, ReadFlashForMapping, FinishMapping,
       LookUpUser, EnsurePasswdUser, EnsureGroupMember, ReadFlashForCopy, CopyToFlash, VerifyCopy,
       Backup, WriteManifest, Restore, FinishRestore, Capture, Extract

LEMMA MappingSteps ==
    ASSUME NEW c \in Calls, Located(c), Kind[c] = "samba-account-mapping", Call(c)
    PROVE  \/ Open(c) \/ Fill(c) \/ ReadRuntime(c) \/ ReadFlashForMapping(c) \/ FinishMapping(c)
           \/ (\E u \in Users : LookUpUser(c, u)) \/ EnsurePasswdUser(c) \/ EnsureGroupMember(c)
BY DEF Located, Call, CfgRepairs, RepairCfg, Ends, ReadFlashForCopy, CopyToFlash, VerifyCopy,
       Backup, WriteManifest, Restore, FinishRestore, Capture, Extract

LEMMA CopySteps ==
    ASSUME NEW c \in Calls, Located(c), Kind[c] = "samba-passdb-flash", Call(c)
    PROVE  Open(c) \/ Fill(c) \/ ReadRuntime(c) \/ ReadFlashForCopy(c) \/ CopyToFlash(c) \/ VerifyCopy(c)
BY DEF Located, Call, CfgRepairs, RepairCfg, Ends, ReadFlashForMapping, FinishMapping,
       LookUpUser, EnsurePasswdUser, EnsureGroupMember,
       Backup, WriteManifest, Restore, FinishRestore, Capture, Extract

LEMMA BackupSteps ==
    ASSUME NEW c \in Calls, Located(c), Kind[c] = "backup", Call(c)
    PROVE  Backup(c) \/ (\E f \in OnFlash : Capture(c, f)) \/ WriteManifest(c)
BY DEF Located, Call, CfgRepairs, RepairCfg, Ends, SambaRepairs, ReadRuntime, ReadFlashForMapping, FinishMapping,
       LookUpUser, EnsurePasswdUser, EnsureGroupMember, ReadFlashForCopy, CopyToFlash, VerifyCopy,
       Open, Fill, Restore, FinishRestore, Extract

LEMMA RestoreSteps ==
    ASSUME NEW c \in Calls, Located(c), Kind[c] = "restore", Call(c)
    PROVE  Open(c) \/ Fill(c) \/ Restore(c) \/ (\E f \in OnFlash : Extract(c, f)) \/ FinishRestore(c)
BY DEF Located, Call, CfgRepairs, RepairCfg, Ends, SambaRepairs, ReadRuntime, ReadFlashForMapping, FinishMapping,
       LookUpUser, EnsurePasswdUser, EnsureGroupMember, ReadFlashForCopy, CopyToFlash, VerifyCopy,
       Backup, WriteManifest, Capture

LEMMA FiveKinds ==
    ASSUME NEW c \in Calls
    PROVE  \/ Kind[c] \in CfgRepairs \/ Kind[c] = "samba-account-mapping"
           \/ Kind[c] = "samba-passdb-flash" \/ Kind[c] = "backup" \/ Kind[c] = "restore"
BY ConstantsAssumption DEF Kinds


-----------------------------------------------------------------------------
(* What a step of one call is to the others.                                *)
Calm == UNCHANGED <<file, touched>>
CallDid(c) ==
    /\ Others(c) /\ call[c].pc \notin {"off", "done", "failed"} /\ UNCHANGED budget
    /\ call'[c].pc \notin {"off", "idle"}
    /\ \/ Calm
       \/ /\ Writing(c) /\ UNCHANGED archive
          /\ Notices(Calls \ {c}, {call[c].to}) /\ \E x : Puts(call[c].to, x)
       \/ Kind[c] = "backup" /\ UNCHANGED file /\ Notices(Calls \ {c}, {"archive"})
    /\ UNCHANGED archive \/ Kind[c] = "backup"
    /\ smbd' = smbd \/ (smbd' = Mapped(file["passwd"]) /\ UNCHANGED file)

LEMMA CallDoes ==
    ASSUME Shapes, NEW c \in Calls, Located(c), Call(c)
    PROVE  CallDid(c)
<1> USE DEF CallDid, Calm
<1>0. call[c].to \in Files
  BY DEF Located
<1>1. CASE Open(c)
  BY <1>0, <1>1, OpenDoes DEF Still, Fails, Goes, Writing
<1>2. CASE Fill(c)
  <2>1. Writing(c) => call[c].then \in {"done", "group", "user", "copy", "verify", "extract"}
    BY FiveKinds DEF Located, WritesCfg, WritesAccount, WritesBak, WritesFlash, Extracts, Writing, Ends
  <2>2. QED
    BY <1>0, <1>2, <2>1, FillDoes DEF Still, Fails, Goes, Writing
<1>3. CASE RepairCfg(c)
  BY <1>3, RepairCfgDoes DEF Still, Fails, Goes, Overwrites
<1>4. CASE ReadRuntime(c)
  BY <1>4, ReadRuntimeDoes DEF Still, Fails, Goes
<1>5. CASE ReadFlashForMapping(c)
  BY <1>5, ReadFlashForMappingDoes DEF Still, Fails, Goes
<1>6. CASE FinishMapping(c)
  BY <1>6, FinishMappingDoes DEF Still, Fails, Goes
<1>7. CASE \E u \in Users : LookUpUser(c, u)
  BY <1>7, LookUpUserDoes DEF Still, Fails, Goes
<1>8. CASE EnsurePasswdUser(c)
  BY <1>8, EnsurePasswdUserDoes DEF Still, Fails, Goes, Ensures, Overwrites
<1>9. CASE EnsureGroupMember(c)
  BY <1>9, EnsureGroupMemberDoes DEF Still, Fails, Goes, Ensures, Overwrites
<1>10. CASE ReadFlashForCopy(c)
  BY <1>10, ReadFlashForCopyDoes DEF Still, Fails, Goes, Overwrites
<1>11. CASE CopyToFlash(c)
  BY <1>11, CopyToFlashDoes DEF Still, Overwrites
<1>12. CASE VerifyCopy(c)
  BY <1>12, VerifyCopyDoes DEF Still, Fails, Goes
<1>13. CASE Backup(c)
  BY <1>13, BackupDoes DEF Still, Fails, Goes
<1>14. CASE WriteManifest(c) /\ Kind[c] = "backup"
  BY <1>14, WriteManifestDoes DEF Still, Fails, Goes
<1>15. CASE Restore(c)
  BY <1>15, RestoreDoes DEF Still, Fails, Goes
<1>16. CASE FinishRestore(c)
  BY <1>16, FinishRestoreDoes DEF Still, Fails, Goes
<1>17. CASE \E f \in OnFlash : Capture(c, f) /\ Kind[c] = "backup"
  BY <1>17, CaptureDoes DEF Still, Fails, Goes
<1>18. CASE \E f \in OnFlash : Extract(c, f)
  BY <1>18, ExtractDoes DEF Still, Overwrites
<1>19. WriteManifest(c) \/ (\E f \in OnFlash : Capture(c, f)) => Kind[c] = "backup"
  BY FiveKinds DEF Located, WriteManifest, Capture, Ends
<1>20. QED
  BY <1>1, <1>2, <1>3, <1>4, <1>5, <1>6, <1>7, <1>8, <1>9, <1>10, <1>11, <1>12, <1>13, <1>14,
     <1>15, <1>16, <1>17, <1>18, <1>19 DEF Call

(* A call that does not move keeps its record and notices what is written.  *)
Sees(d, F) ==
    /\ call'[d] = call[d]
    /\ touched[d].during \subseteq touched'[d].during /\ touched[d].since \subseteq touched'[d].since
    /\ \A f \in F : \/ file'[f] = file[f]
                    \/ /\ Running(d) => f \in touched'[d].during
                       /\ call[d].pc = "done" => f \in touched'[d].since

LEMMA OthersSee ==
    ASSUME NEW c \in Calls, CallDid(c), NEW d \in Calls \ {c}
    PROVE  Sees(d, Files)
<1>1. call'[d] = call[d]
  BY DEF CallDid, Others
<1>2. CASE Calm
  BY <1>1, <1>2 DEF Calm, Sees
<1>3. CASE Notices(Calls \ {c}, {call[c].to}) /\ \E x : Puts(call[c].to, x)
  BY <1>1, <1>3 DEF Notices, Puts, Sees
<1>4. CASE UNCHANGED file /\ Notices(Calls \ {c}, {"archive"})
  BY <1>1, <1>4 DEF Notices, Sees
<1>5. QED
  BY <1>2, <1>3, <1>4 DEF CallDid

SomebodyWrites ==
    \/ \E u \in Users, h \in Hashes : ChangePassword(u, h)
    \/ \E f \in {"disk", "rsyslog"} : EditSetting(f)
LEMMA UsersWrite ==
    ASSUME Shapes, SomebodyWrites
    PROVE  UNCHANGED <<call, smbd, archive>> /\ file' = [f \in Files |-> file'[f]]
BY ChangePasswordDoes, EditSettingDoes DEF SomebodyWrites, Puts

LEMMA UsersAreSeen ==
    ASSUME Shapes, SomebodyWrites, NEW d \in Calls
    PROVE  Sees(d, Files)
<1>1. CASE \E u \in Users, h \in Hashes : ChangePassword(u, h)
  <2>1. PICK u \in Users, h \in Hashes : ChangePassword(u, h)
    BY <1>1
  <2>2. QED
    BY <2>1, ChangePasswordDoes DEF Puts, Notices, Sees
<1>2. CASE \E f \in {"disk", "rsyslog"} : EditSetting(f)
  <2>1. PICK f \in {"disk", "rsyslog"} : EditSetting(f)
    BY <1>2
  <2>2. QED
    BY <2>1, EditSettingDoes DEF Puts, Notices, Sees
<1>3. QED
  BY <1>1, <1>2 DEF SomebodyWrites

Dies == AllEnded /\ UNCHANGED <<file, smbd, archive, touched>>
LEMMA EndedSee ==
    ASSUME Dies \/ Reboots, NEW d \in Calls, ~Running(d)
    PROVE  Sees(d, Files \ {"runtime"})
<1>1. call'[d] = call[d]
  BY DEF Dies, Reboots, AllEnded, Ended
<1>2. CASE Dies
  BY <1>1, <1>2 DEF Dies, Sees
<1>3. CASE Reboots
  BY <1>1, <1>3 DEF Reboots, Notices, Sees, Files
<1>4. QED
  BY <1>2, <1>3

(* The steps there are.                                                     *)
LEMMA FourSteps ==
    ASSUME Shapes, \A c \in Calls : Located(c), [Next]_vars
    PROVE  \/ (\E c \in Calls : Call(c) /\ CallDid(c)) \/ SomebodyWrites \/ Dies \/ Reboots \/ UNCHANGED vars
BY CallDoes, KillDoes, PowerLossDoes DEF Next, SomebodyWrites, Dies

LEMMA OnlyBackupsArchive ==
    ASSUME Shapes, \A c \in Calls : Located(c), [Next]_vars
    PROVE  UNCHANGED archive \/ \E c \in Calls : Call(c) /\ CallDid(c) /\ Kind[c] = "backup"
BY FourSteps, UsersWrite DEF CallDid, Dies, Reboots, vars

-----------------------------------------------------------------------------
(* The archive.  Calls that have begun stay so, and the one backup begins   *)
(* with an empty archive, to which it adds.                                 *)
Begun(c) == call[c].pc \notin {"off", "idle"}
LEMMA BegunStays ==
    ASSUME \A c \in Calls : Located(c), Shapes, [Next]_vars, NEW d \in Calls
    PROVE  /\ call'[d].pc # "off" => call[d].pc # "off"
           /\ Begun(d) => Begun(d)'
           /\ call[d].pc = "failed" => call'[d].pc = "failed"
<1>1. CASE \E c \in Calls : Call(c) /\ CallDid(c)
  BY <1>1 DEF CallDid, Others, Begun
<1>2. CASE SomebodyWrites
  BY <1>2, UsersWrite DEF Begun
<1>3. CASE Dies \/ Reboots
  BY <1>3 DEF Dies, Reboots, AllEnded, Ended, Running, Begun
<1>4. CASE UNCHANGED vars
  BY <1>4 DEF vars, Begun
<1>5. QED
  BY <1>1, <1>2, <1>3, <1>4, FourSteps

LEMMA NothingYet ==
    ASSUME OneBackup, NEW b \in Calls, Kind[b] = "backup", call[b].pc = "idle"
    PROVE  ~archive.exists /\ archive.has = {} /\ ~archive.whole
BY DEF OneBackup, Started

Grows ==
    /\ archive' = [f \in {"exists", "whole", "manifest", "has", "files"} |-> archive'[f]]
    /\ archive'.files = [f \in OnFlash |-> archive'.files[f]]
    /\ archive.exists => archive'.exists
    /\ archive.whole => archive'.whole
    /\ archive.has \subseteq archive'.has
    /\ \A f \in archive.has : archive'.files[f] = archive.files[f]

Starts(b) ==
    /\ call[b].pc = "idle" /\ Goes(b, "tar", {"pc", "todo"}) /\ call'[b].todo = Present
    /\ archive'.exists /\ ~archive'.whole /\ archive'.has = {}
    /\ archive'.files = [f \in OnFlash |-> Truncated(f)]
    /\ UNCHANGED file /\ Notices(Calls \ {b}, {"archive"})
Captures(b, f) ==
    /\ call[b].pc = "tar" /\ f \in call[b].todo /\ Calm
    /\ Goes(b, "tar", {"pc", "todo"}) /\ call'[b].todo = call[b].todo \ {f}
    /\ archive'.exists = archive.exists /\ archive'.has = archive.has \cup {f}
    /\ archive'.whole <=> call[b].todo = {f}
    /\ archive'.files = [archive.files EXCEPT ![f] = file[f]]
Closes(b) ==
    /\ call[b].pc = "tar" /\ call[b].todo = {} /\ Calm /\ Goes(b, "done", {"pc"})
    /\ \A f \in {"exists", "whole", "has", "files"} : archive'[f] = archive[f]
BackupDid(b) ==
    \/ Starts(b)
    \/ \E f \in OnFlash : Captures(b, f)
    \/ Closes(b)
    \/ Fails(b) /\ Still

LEMMA BackupDoesIt ==
    ASSUME Shapes, NEW b \in Calls, Located(b), Tars(b), Kind[b] = "backup", Call(b)
    PROVE  /\ BackupDid(b)
           /\ archive' = [f \in {"exists", "whole", "manifest", "has", "files"} |-> archive'[f]]
           /\ archive'.files = [f \in OnFlash |-> archive'.files[f]]
<1>1. CASE Backup(b)
  <2>1. CASE Fails(b) /\ Still
    BY <2>1 DEF BackupDid, Still, Shapes
  <2>2. CASE /\ Goes(b, "tar", {"pc", "todo"}) /\ call'[b].todo = Present
             /\ archive' = [NoArchive EXCEPT !.exists = TRUE]
             /\ Notices(Calls \ {b}, {"archive"})
    <3>1. /\ archive'.exists /\ ~archive'.whole /\ archive'.has = {}
          /\ archive'.files = [f \in OnFlash |-> Truncated(f)]
          /\ archive' = [f \in {"exists", "whole", "manifest", "has", "files"} |-> archive'[f]]
      BY <2>2 DEF NoArchive
    <3>2. QED
      BY <1>1, <2>2, <3>1, BackupDoes DEF BackupDid, Starts
  <2>3. QED
    BY <1>1, <2>1, <2>2, BackupDoes
<1>2. ASSUME NEW f \in OnFlash, Capture(b, f)
      PROVE  /\ BackupDid(b)
             /\ archive' = [g \in {"exists", "whole", "manifest", "has", "files"} |-> archive'[g]]
             /\ archive'.files = [g \in OnFlash |-> archive'.files[g]]
  <2>1. CASE Fails(b) /\ Still
    BY <2>1 DEF BackupDid, Still, Shapes
  <2>2. CASE /\ Goes(b, "tar", {"pc", "todo"}) /\ call'[b].todo = call[b].todo \ {f}
             /\ archive' = [archive EXCEPT !.has = archive.has \cup {f}, !.files[f] = file[f],
                                           !.whole = call[b].todo = {f}]
    <3> DEFINE with == archive.has \cup {f}
               all == call[b].todo = {f}
    <3>1. archive' = [archive EXCEPT !.has = with, !.files[f] = file[f], !.whole = all]
      BY <2>2
    <3> HIDE DEF with, all
    <3>2. /\ archive'.exists = archive.exists /\ archive'.has = with /\ archive'.whole = all
          /\ archive'.files = [archive.files EXCEPT ![f] = file[f]]
          /\ archive' = [g \in {"exists", "whole", "manifest", "has", "files"} |-> archive'[g]]
      BY <3>1 DEF Shapes
    <3>3. archive'.files = [g \in OnFlash |-> archive'.files[g]]
      BY <3>2 DEF Shapes
    <3>4. f \in call[b].todo
      BY <1>2, FirstIsLeft, CaptureDoes DEF Tars
    <3>5. Captures(b, f)
      BY <1>2, <2>2, <3>2, <3>4, CaptureDoes DEF Captures, Calm, with, all
    <3>6. QED
      BY <3>2, <3>3, <3>5 DEF BackupDid
  <2>3. QED
    BY <1>2, <2>1, <2>2, CaptureDoes
<1>3. CASE WriteManifest(b)
  <2>1. CASE Fails(b) /\ Still
    BY <2>1 DEF BackupDid, Still, Shapes
  <2>2. CASE Goes(b, "done", {"pc"}) /\ archive' = [archive EXCEPT !.manifest = TRUE]
    <3>1. /\ \A f \in {"exists", "whole", "has", "files"} : archive'[f] = archive[f]
          /\ archive' = [f \in {"exists", "whole", "manifest", "has", "files"} |-> archive'[f]]
          /\ archive'.files = [f \in OnFlash |-> archive'.files[f]]
      BY <2>2 DEF Shapes
    <3>2. QED
      BY <1>3, <2>2, <3>1, WriteManifestDoes DEF BackupDid, Closes, Calm
  <2>3. QED
    BY <1>3, <2>1, <2>2, WriteManifestDoes
<1>4. QED
  BY <1>1, <1>2, <1>3, BackupSteps

LEMMA ArchiveGrows ==
    ASSUME FlashInv, [Next]_vars
    PROVE  Grows
<1> USE DEF FlashInv
<1>1. ASSUME NEW c \in Calls, Call(c), Kind[c] = "backup" PROVE Grows
  <2>1. /\ BackupDid(c)
        /\ archive' = [f \in {"exists", "whole", "manifest", "has", "files"} |-> archive'[f]]
        /\ archive'.files = [f \in OnFlash |-> archive'.files[f]]
    BY <1>1, BackupDoesIt
  <2>2. CASE Starts(c)
    BY <1>1, <2>1, <2>2, NothingYet DEF Grows, Starts
  <2>3. CASE \E f \in OnFlash : Captures(c, f)
    <3>1. PICK f \in OnFlash : Captures(c, f)
      BY <2>3
    <3>2. f \notin archive.has /\ ~archive.whole
      BY <1>1, <3>1 DEF Tars, Captures
    <3>3. QED
      BY <2>1, <3>1, <3>2 DEF Grows, Captures, Shapes, Types
  <2>4. CASE Closes(c)
    BY <2>1, <2>4 DEF Grows, Closes
  <2>5. CASE Fails(c) /\ Still
    BY <2>1, <2>5 DEF Grows, Still
  <2>6. QED
    BY <2>1, <2>2, <2>3, <2>4, <2>5 DEF BackupDid
<1>2. CASE UNCHANGED archive
  BY <1>2 DEF Grows, Shapes
<1>3. UNCHANGED archive \/ \E c \in Calls : Call(c) /\ Kind[c] = "backup"
  BY OnlyBackupsArchive
<1>4. QED
  BY <1>1, <1>2, <1>3

(* What a file held since the host came up is what it holds, or held before. *)
LEMMA WasGrows ==
    ASSUME FlashInv, [Next]_vars
    PROVE  /\ was' = [f \in OnFlash |-> was'[f]]
           /\ \A f \in OnFlash : \A x \in was'[f] : x \in was[f] \/ x = file'[f]
<1>1. Shapes /\ \A c \in Calls : Located(c)
  BY DEF FlashInv
<1>2. UNCHANGED was \/ Unsynced \/ was' = [f \in OnFlash |-> {file'[f]}]
  BY <1>1 DEF Next, Call, Open, Fill, RepairCfg, ReadRuntime, ReadFlashForMapping, FinishMapping,
              LookUpUser, EnsurePasswdUser, EnsureGroupMember, ReadFlashForCopy, CopyToFlash,
              VerifyCopy, Backup, WriteManifest, Restore, FinishRestore, Capture, Extract,
              ChangePassword, EditSetting, Kill, PowerLoss, Reads, vars
<1>3. QED
  BY <1>1, <1>2 DEF Unsynced, Shapes

LEMMA LostGrows ==
    ASSUME [Next]_vars
    PROVE  lost \subseteq lost'
BY DEF Next, Call, Open, Fill, RepairCfg, ReadRuntime, ReadFlashForMapping, FinishMapping,
       LookUpUser, EnsurePasswdUser, EnsureGroupMember, ReadFlashForCopy, CopyToFlash,
       VerifyCopy, Backup, WriteManifest, Restore, FinishRestore, Capture, Extract,
       ChangePassword, EditSetting, Kill, PowerLoss, Reads, Unsynced, vars

(* The shapes of the records stay.                                          *)
LEMMA ShapesStay ==
    ASSUME FlashInv, [Next]_vars
    PROVE  Shapes'
<1> USE DEF FlashInv
<1>0. was' = [f \in OnFlash |-> was'[f]]
  BY WasGrows
<1>1. CASE \E c \in Calls : Call(c) /\ CallDid(c)
  <2>1. PICK c \in Calls : CallDid(c)
    BY <1>1
  <2>2. file' = [f \in Files |-> file'[f]]
    BY <2>1 DEF CallDid, Calm, Puts, Shapes
  <2>3. QED
    BY <1>0, <2>1, <2>2, ArchiveGrows DEF CallDid, Others, Grows, Shapes
<1>2. CASE SomebodyWrites
  BY <1>0, <1>2, UsersWrite DEF Shapes, Shaped
<1>3. CASE Dies \/ Reboots
  BY <1>0, <1>3 DEF Dies, Reboots, AllEnded, Ended, Shapes
<1>4. CASE UNCHANGED vars
  BY <1>4 DEF vars, Shapes, Shaped
<1>5. QED
  BY <1>1, <1>2, <1>3, <1>4, FourSteps

LEMMA OneBackupStays ==
    ASSUME FlashInv, [Next]_vars
    PROVE  OneBackup'
<1> USE DEF FlashInv
<1>1. \A c \in Calls : /\ call'[c].pc # "off" => call[c].pc # "off"
                       /\ Started(c) => Started(c)'
  BY BegunStays DEF Begun, Started
<1>2. (archive'.exists \/ archive'.has # {} \/ archive'.whole) => \E b \in Calls : Started(b)'
  <2>1. CASE UNCHANGED archive
    BY <1>1, <2>1 DEF OneBackup
  <2>2. ASSUME NEW c \in Calls, Call(c), CallDid(c), Kind[c] = "backup" PROVE Started(c)'
    BY <2>2 DEF CallDid, Started
  <2>3. QED
    BY <2>1, <2>2, OnlyBackupsArchive
<1>3. archive'.whole => archive'.exists /\ Tree \subseteq archive'.has
  <2>1. CASE UNCHANGED archive
    BY <2>1 DEF OneBackup
  <2>2. ASSUME NEW c \in Calls, Call(c), Kind[c] = "backup", archive'.whole
        PROVE  archive'.exists /\ Tree \subseteq archive'.has
    <3>1. BackupDid(c)
      BY <2>2, BackupDoesIt
    <3>2. CASE \E f \in OnFlash : Captures(c, f)
      BY <2>2, <3>2 DEF Captures, Tars
    <3>3. QED
      BY <2>2, <3>1, <3>2 DEF BackupDid, Starts, Closes, Still, OneBackup
  <2>3. QED
    BY <2>1, <2>2, OnlyBackupsArchive
<1>4. QED
  BY <1>1, <1>2, <1>3 DEF OneBackup

-----------------------------------------------------------------------------
(* Lines of a config file: what parse_key_value finds after set_cfg_keys.   *)
LEMMA HasLeast ==
    ASSUME NEW S, S \subseteq Nat, S # {}
    PROVE  \E x \in S : \A y \in S : x <= y
<1>1. IsWellFoundedOn(OpToRel(<, Nat), Nat)
  BY NatLessThanWellFounded, Zenon
<1>2. PICK x \in S : \A y \in S : ~(<<y, x>> \in OpToRel(<, Nat))
  BY <1>1, WFMin, Zenon
<1>3. \A y \in S : ~(y < x)
  BY <1>2 DEF OpToRel
<1>4. QED
  BY <1>3

LEMMA HasMost ==
    ASSUME NEW n \in Nat, NEW S, S \subseteq 1..n, S # {}
    PROVE  \E x \in S : \A y \in S : x >= y
<1> DEFINE T == {m \in Nat : \E s \in S : m = n - s}
<1>1. T \subseteq Nat /\ T # {}
  <2>1. PICK s \in S : TRUE
    OBVIOUS
  <2>2. n - s \in T
    BY <2>1
  <2>3. QED
    BY <2>2
<1>2. PICK m \in T : \A y \in T : m <= y
  BY <1>1, HasLeast, Zenon
<1>3. PICK x \in S : m = n - x
  BY <1>2
<1>4. ASSUME NEW y \in S PROVE x >= y
  <2>1. n - y \in T
    OBVIOUS
  <2>2. n - x <= n - y
    BY <1>2, <1>3, <2>1
  <2>3. QED
    BY <2>2, x \in Nat, y \in Nat
<1>5. QED
  BY <1>4

LEMMA LinesAreAny ==
    ASSUME NEW lines \in Seq(Lines)
    PROVE  lines \in Seq(AnyLines)
BY DEF AnyLines

LEMMA KeyLinesEnds ==
    ASSUME NEW lines \in Seq(AnyLines), NEW k, KeyLines(lines, k) # {}
    PROVE  /\ Min(KeyLines(lines, k)) \in DOMAIN lines /\ Max(KeyLines(lines, k)) \in DOMAIN lines
           /\ lines[Min(KeyLines(lines, k))].key = k /\ lines[Max(KeyLines(lines, k))].key = k
<1> DEFINE S == KeyLines(lines, k)
<1>1. S \subseteq 1..Len(lines) /\ Len(lines) \in Nat
  BY DEF KeyLines
<1>2. Max(S) \in S
  BY <1>1, HasMost DEF Max
<1>3. S \subseteq Nat
  BY <1>1
<1>4. Min(S) \in S
  BY <1>3, HasLeast DEF Min
<1>5. QED
  BY <1>2, <1>4 DEF KeyLines

LEMMA SetKeyDoes ==
    ASSUME NEW lines \in Seq(AnyLines), NEW k, NEW v, Line(k, v) \in AnyLines
    PROVE  LET new == SetKey(lines, k, v) IN
           /\ new \in Seq(AnyLines) /\ DOMAIN lines \subseteq DOMAIN new
           /\ \A i \in DOMAIN lines : new[i].key = lines[i].key
           /\ \A i \in DOMAIN lines : new[i] = lines[i] \/ new[i] = Line(k, v)
           /\ \E i \in DOMAIN new : new[i] = Line(k, v)
           /\ \A i \in DOMAIN new : i \in DOMAIN lines \/ new[i] = Line(k, v)
<1>1. Line(k, v) \in AnyLines /\ Line(k, v).key = k
  BY DEF Line
<1>2. CASE KeyLines(lines, k) = {}
  BY <1>1, <1>2 DEF SetKey
<1>3. CASE KeyLines(lines, k) # {}
  <2> DEFINE m == Min(KeyLines(lines, k))
  <2>1. m \in DOMAIN lines /\ lines[m].key = k
    BY <1>3, KeyLinesEnds
  <2>2. SetKey(lines, k, v) = [lines EXCEPT ![m] = Line(k, v)]
    BY <1>3 DEF SetKey
  <2> HIDE DEF m
  <2>3. QED
    BY <1>1, <2>1, <2>2
<1>4. QED
  BY <1>2, <1>3

LEMMA SetKeyLeavesOthers ==
    ASSUME NEW lines \in Seq(AnyLines), NEW k, NEW v, Line(k, v) \in AnyLines, NEW j, j # k
    PROVE  Value(SetKey(lines, k, v), j) = Value(lines, j)
<1> DEFINE new == SetKey(lines, k, v)
<1>1. /\ new \in Seq(AnyLines) /\ DOMAIN lines \subseteq DOMAIN new
      /\ \A i \in DOMAIN lines : new[i].key = lines[i].key
      /\ \A i \in DOMAIN lines : new[i] = lines[i] \/ new[i] = Line(k, v)
      /\ \A i \in DOMAIN new : i \in DOMAIN lines \/ new[i] = Line(k, v)
  BY SetKeyDoes
<1> HIDE DEF new
<1>2. Line(k, v).key = k
  BY DEF Line
<1>3. KeyLines(new, j) = KeyLines(lines, j)
  BY <1>1, <1>2 DEF KeyLines
<1>4. CASE KeyLines(lines, j) = {}
  BY <1>3, <1>4 DEF Value, new
<1>5. CASE KeyLines(lines, j) # {}
  <2>1. PICK m \in DOMAIN lines : m = Max(KeyLines(lines, j)) /\ lines[m].key = j
    BY <1>5, KeyLinesEnds
  <2>2. new[m] = lines[m]
    BY <1>1, <1>2, <2>1
  <2>3. QED
    BY <1>3, <1>5, <2>1, <2>2 DEF Value, new
<1>6. QED
  BY <1>4, <1>5

LEMMA SetKeySets ==
    ASSUME NEW lines \in Seq(AnyLines), NEW k, NEW v, Line(k, v) \in AnyLines
    PROVE  /\ Value(SetKey(lines, k, v), k) = v \/ (Value(SetKey(lines, k, v), k) = Value(lines, k)
                                                    /\ KeyLines(lines, k) # {})
           /\ NoTwice(SetKey(lines, k, v)) => Value(SetKey(lines, k, v), k) = v /\ NoTwice(lines)
<1> DEFINE new == SetKey(lines, k, v)
<1>1. /\ new \in Seq(AnyLines) /\ DOMAIN lines \subseteq DOMAIN new
      /\ \A i \in DOMAIN lines : new[i].key = lines[i].key
      /\ \A i \in DOMAIN lines : new[i] = lines[i] \/ new[i] = Line(k, v)
      /\ \E i \in DOMAIN new : new[i] = Line(k, v)
      /\ \A i \in DOMAIN new : i \in DOMAIN lines \/ new[i] = Line(k, v)
  BY SetKeyDoes
<1>2. CASE KeyLines(lines, k) = {}
  <2>1. new = Append(lines, Line(k, v))
    BY <1>2 DEF SetKey
  <2> HIDE DEF new
  <2>2. KeyLines(new, k) # {}
    BY <1>1 DEF KeyLines, Line
  <2>3. PICK m \in DOMAIN new : m = Max(KeyLines(new, k)) /\ new[m].key = k
    BY <1>1, <2>2, KeyLinesEnds
  <2>4. new[m] = Line(k, v)
    BY <1>1, <1>2, <2>3 DEF KeyLines
  <2>5. Value(new, k) = v
    BY <2>2, <2>3, <2>4 DEF Value, Line
  <2>6. QED
    BY <1>1, <2>5 DEF NoTwice, new
<1>3. CASE KeyLines(lines, k) # {}
  <2> HIDE DEF new
  <2>1. KeyLines(new, k) # {}
    BY <1>1 DEF KeyLines, Line
  <2>2. PICK m \in DOMAIN new : m = Max(KeyLines(new, k)) /\ new[m].key = k
    BY <1>1, <2>1, KeyLinesEnds
  <2>3. DOMAIN new = DOMAIN lines
    BY <1>1, <1>3, KeyLinesEnds DEF new, SetKey
  <2>4. KeyLines(new, k) = KeyLines(lines, k)
    BY <1>1, <2>3 DEF KeyLines
  <2>5. Value(new, k) = new[m].value /\ Value(lines, k) = lines[m].value
    BY <1>3, <2>1, <2>2, <2>4 DEF Value
  <2>6. new[m] = lines[m] \/ new[m].value = v
    BY <1>1, <2>2, <2>3 DEF Line
  <2>7. NoTwice(new) => new[m].value = v
    BY <1>1, <2>2 DEF NoTwice, Line
  <2>8. QED
    BY <1>1, <1>3, <2>3, <2>5, <2>6, <2>7 DEF NoTwice, new
<1>4. QED
  BY <1>2, <1>3

LEMMA RepairedHeals ==
    ASSUME NEW c \in Calls, Kind[c] \in CfgRepairs, NEW lines \in Seq(AnyLines)
    PROVE  /\ Repaired(c, lines) \in Seq(AnyLines) /\ Heals(c, Repaired(c, lines))
           /\ Value(Repaired(c, lines), "other") = Value(lines, "other")
<1>0. Written \subseteq AnyLines
  BY DEF AnyLines
<1>1. CASE Kind[c] = "shutdown-timeout"
  <2> DEFINE new == SetKey(lines, "shutdownTimeout", "120")
  <2>1. new = Repaired(c, lines)
    BY <1>1 DEF Repaired
  <2>2. new \in Seq(AnyLines)
    BY <1>0, SetKeyDoes DEF Written
  <2>3. NoTwice(new) => Value(new, "shutdownTimeout") = "120"
    BY <1>0, SetKeySets DEF Written
  <2>4. Value(new, "other") = Value(lines, "other")
    BY <1>0, SetKeyLeavesOthers DEF Written
  <2> HIDE DEF new
  <2>5. QED
    BY <1>1, <2>1, <2>2, <2>3, <2>4 DEF Heals, Healed, NoTarget, CfgFine, TimeoutFine
<1>2. CASE Kind[c] = "syslog-mirror"
  <2> DEFINE mid == SetKey(lines, "MIRROR", "yes")
             target == Remote[c]
             new == SetKey(mid, "REMOTESERVER", target)
  <2>1. new = Repaired(c, lines)
    BY <1>2 DEF Repaired
  <2>2. mid \in Seq(AnyLines)
    BY <1>0, SetKeyDoes DEF Written
  <2>3. NoTwice(mid) => Value(mid, "MIRROR") = "yes"
    BY <1>0, SetKeySets DEF Written
  <2>4. Value(mid, "other") = Value(lines, "other")
    BY <1>0, SetKeyLeavesOthers DEF Written
  <2> HIDE DEF mid
  <2>5. Line("REMOTESERVER", target) \in AnyLines
    BY <1>0 DEF Written
  <2>6. target # "none" /\ (NoTarget(c) <=> target = "")
    BY <1>2, ConstantsAssumption DEF NoTarget
  <2> HIDE DEF target
  <2>7. new \in Seq(AnyLines)
    BY <2>2, <2>5, SetKeyDoes
  <2>8. NoTwice(new) => Value(new, "REMOTESERVER") = target /\ NoTwice(mid)
    BY <2>2, <2>5, SetKeySets
  <2>9. Value(new, "other") = Value(mid, "other") /\ Value(new, "MIRROR") = Value(mid, "MIRROR")
    BY <2>2, <2>5, SetKeyLeavesOthers
  <2> HIDE DEF new
  <2>10. NoTwice(new) => Value(new, "MIRROR") = "yes" /\ Value(new, "REMOTESERVER") = target
    BY <2>3, <2>8, <2>9
  <2>11. Heals(c, new)
    BY <1>2, <2>6, <2>10 DEF Heals, Healed, CfgFine, MirrorFine, NoEntry
  <2>12. QED
    BY <2>1, <2>4, <2>7, <2>9, <2>11
<1>3. QED
  BY <1>1, <1>2 DEF CfgRepairs

-----------------------------------------------------------------------------
(* What a step of a call of each kind comes to.                             *)
Opens(c) ==
    /\ call[c].pc = "open" /\ Goes(c, "fill", {"pc"}) /\ Puts(call[c].to, Truncated(call[c].to))
    /\ Notices(Calls \ {c}, {call[c].to}) /\ UNCHANGED <<smbd, archive>>
Fills(c) ==
    /\ call[c].pc = "fill" /\ Goes(c, call[c].then, {"pc", "acted"}) /\ call'[c].acted = TRUE
    /\ Puts(call[c].to, Filling(c))
    /\ Notices(Calls \ {c}, {call[c].to}) /\ UNCHANGED <<smbd, archive>>
Quits(c) == Fails(c) /\ Still /\ smbd' \in {smbd, Mapped(file["passwd"])}
WriteStep(c) == Opens(c) \/ Fills(c) \/ Quits(c)

LEMMA WriteDoes ==
    ASSUME Shapes, NEW c \in Calls, Located(c), Open(c) \/ Fill(c)
    PROVE  WriteStep(c)
<1>1. call[c].to \in Files
  BY DEF Located
<1>2. QED
  BY <1>1, OpenDoes, FillDoes DEF WriteStep, Opens, Fills, Quits

Quiet == Still /\ UNCHANGED smbd
CfgDid(c) ==
    LET f == CfgFile(Kind[c])
        new == Repaired(c, file[f])
    IN \/ WriteStep(c)
       \/ call[c].pc = "idle" /\ Quiet /\ Goes(c, "done", {"pc"}) /\ file[f] = new
       \/ call[c].pc = "idle" /\ Quiet /\ Overwrites(c, f, "text", new, "done", {})
LEMMA CfgDoes ==
    ASSUME Shapes, NEW c \in Calls, Located(c), Kind[c] \in CfgRepairs, Call(c)
    PROVE  CfgDid(c)
BY CfgSteps, WriteDoes, RepairCfgDoes DEF CfgDid, WriteStep, Quits, Quiet, Still

EnsuresFile(c, f, new, then) ==
    \/ Quits(c)
    \/ Quiet /\ new = file[f] /\ Goes(c, then, {"pc"})
    \/ Quiet /\ new # file[f] /\ Overwrites(c, f, "text", new, then, {})
MappingDid(c) ==
    \/ WriteStep(c)
    \/ call[c].pc = "idle" /\ Quiet /\ Goes(c, "flash", {"pc", "runtime"}) /\ call'[c].runtime = file["runtime"]
    \/ /\ call[c].pc = "flash" /\ Quiet /\ Goes(c, "user", {"pc", "users", "todo"})
       /\ call'[c].users \subseteq Users /\ call'[c].todo = call'[c].users
    \/ /\ call[c].pc = "user" /\ Quiet
       /\ \E u \in call[c].todo, pc \in {"passwd", "group"} :
            /\ Goes(c, pc, {"pc", "todo", "user"})
            /\ pc = "group" => file["passwd"][u] = "passdb"
            /\ call'[c].todo = call[c].todo \ {u} /\ call'[c].user = {u}
    \/ /\ call[c].pc = "passwd"
       /\ \E u \in call[c].user : EnsuresFile(c, "passwd", WithUser(file["passwd"], u), "group")
    \/ /\ call[c].pc = "group"
       /\ \E u \in call[c].user : EnsuresFile(c, "group", WithMember(file["group"], u), "user")
    \/ /\ call[c].pc = "user" /\ call[c].todo = {} /\ Still /\ Goes(c, "done", {"pc"})
       /\ IF call[c].acted THEN smbd' = Mapped(file["passwd"]) ELSE UNCHANGED smbd
LEMMA MappingDoes ==
    ASSUME Shapes, NEW c \in Calls, Located(c), Kind[c] = "samba-account-mapping", Call(c)
    PROVE  MappingDid(c)
<1> USE DEF Quits, Quiet, Still, EnsuresFile
<1>1. CASE Open(c) \/ Fill(c)
  BY <1>1, WriteDoes DEF MappingDid
<1>2. CASE ReadRuntime(c)
  BY <1>2, ReadRuntimeDoes DEF MappingDid, WriteStep
<1>3. CASE ReadFlashForMapping(c)
  BY <1>3, ReadFlashForMappingDoes DEF MappingDid
<1>4. CASE FinishMapping(c)
  BY <1>4, FinishMappingDoes DEF MappingDid, WriteStep
<1>5. ASSUME NEW u \in Users, LookUpUser(c, u) PROVE MappingDid(c)
  BY <1>5, LookUpUserDoes DEF MappingDid
<1>6. CASE EnsurePasswdUser(c)
  BY <1>6, EnsurePasswdUserDoes DEF MappingDid, Ensures
<1>7. CASE EnsureGroupMember(c)
  BY <1>7, EnsureGroupMemberDoes DEF MappingDid, Ensures
<1>8. QED
  BY <1>1, <1>2, <1>3, <1>4, <1>5, <1>6, <1>7, MappingSteps

CopyDid(c) ==
    LET users == ManagedUsers(file["smbpasswd"])
        differ == Diverges(call[c].runtime, file["smbpasswd"], users)
    IN \/ WriteStep(c)
       \/ call[c].pc = "idle" /\ Quiet /\ Goes(c, "flash", {"pc", "runtime"}) /\ call'[c].runtime = file["runtime"]
       \/ /\ call[c].pc = "flash" /\ Quiet /\ users \subseteq Users /\ call'[c].users = users
          /\ \/ differ /\ Overwrites(c, "bak", "smbpasswd", << >>, "copy", {"users"})
             \/ ~differ /\ Goes(c, "done", {"pc", "users"})
       \/ call[c].pc = "copy" /\ Quiet /\ Overwrites(c, "smbpasswd", "runtime", << >>, "verify", {})
       \/ call[c].pc = "verify" /\ Quiet /\ Goes(c, "done", {"pc"})
LEMMA CopyDoes ==
    ASSUME Shapes, NEW c \in Calls, Located(c), Kind[c] = "samba-passdb-flash", Call(c)
    PROVE  CopyDid(c)
<1> USE DEF Quits, Quiet, Still
<1>1. CASE Open(c) \/ Fill(c)
  BY <1>1, WriteDoes DEF CopyDid
<1>2. CASE ReadRuntime(c)
  BY <1>2, ReadRuntimeDoes DEF CopyDid, WriteStep
<1>3. CASE ReadFlashForCopy(c)
  BY <1>3, ReadFlashForCopyDoes DEF CopyDid, WriteStep
<1>4. CASE CopyToFlash(c)
  BY <1>4, CopyToFlashDoes DEF CopyDid
<1>5. CASE VerifyCopy(c)
  BY <1>5, VerifyCopyDoes DEF CopyDid, WriteStep
<1>6. QED
  BY <1>1, <1>2, <1>3, <1>4, <1>5, CopySteps

RestoreDid(c) ==
    \/ WriteStep(c)
    \/ /\ call[c].pc = "idle" /\ Quiet /\ archive.exists
       /\ Goes(c, "extract", {"pc", "todo"}) /\ call'[c].todo = archive.has
    \/ \E f \in call[c].todo :
         /\ call[c].pc = "extract" /\ Quiet
         /\ Overwrites(c, f, "text", archive.files[f], "extract", {"todo"}) /\ call'[c].todo = call[c].todo \ {f}
    \/ call[c].pc = "extract" /\ call[c].todo = {} /\ Quiet /\ archive.whole /\ Goes(c, "done", {"pc"})
LEMMA RestoreDoesIt ==
    ASSUME Shapes, archive.has \subseteq OnFlash, NEW c \in Calls, Located(c), Kind[c] = "restore", Call(c)
    PROVE  RestoreDid(c)
<1> USE DEF Quits, Quiet, Still
<1>1. CASE Open(c) \/ Fill(c)
  BY <1>1, WriteDoes DEF RestoreDid
<1>2. CASE Restore(c)
  BY <1>2, RestoreDoes DEF RestoreDid, WriteStep
<1>3. ASSUME NEW f \in OnFlash, Extract(c, f) PROVE RestoreDid(c)
  <2>1. call[c].todo \subseteq OnFlash
    BY <1>3 DEF Located, Extract, Running
  <2>2. f \in call[c].todo
    BY <1>3, <2>1, ExtractDoes, FirstIsLeft
  <2>3. QED
    BY <1>3, <2>2, ExtractDoes DEF RestoreDid
<1>4. CASE FinishRestore(c)
  BY <1>4, FinishRestoreDoes DEF RestoreDid, WriteStep
<1>5. QED
  BY <1>1, <1>2, <1>3, <1>4, RestoreSteps

LEMMA WritesOrNot ==
    ASSUME Shapes, archive.has \subseteq OnFlash, NEW c \in Calls, Located(c), Call(c)
    PROVE  WriteStep(c) \/ UNCHANGED file
<1> USE DEF Still, Quiet, Quits
<1>1. CASE Kind[c] \in CfgRepairs
  BY <1>1, CfgDoes DEF CfgDid
<1>2. CASE Kind[c] = "samba-account-mapping"
  BY <1>2, MappingDoes DEF MappingDid, EnsuresFile
<1>3. CASE Kind[c] = "samba-passdb-flash"
  BY <1>3, CopyDoes DEF CopyDid
<1>4. CASE Kind[c] = "backup"
  BY <1>4, BackupSteps, BackupDoes, CaptureDoes, WriteManifestDoes
<1>5. CASE Kind[c] = "restore"
  BY <1>5, RestoreDoesIt DEF RestoreDid
<1>6. QED
  BY <1>1, <1>2, <1>3, <1>4, <1>5, FiveKinds

-----------------------------------------------------------------------------
(* Types: what is written fits the file.                                    *)
LEMMA TruncatedFits ==
    ASSUME NEW f \in Files
    PROVE  Fits(f, Truncated(f))
<1>1. CASE f \in {"disk", "rsyslog"}
  <2>1. Truncated(f) = << >>
    BY <1>1 DEF Truncated, Passdbs
  <2>2. ASSUME NEW x \in Seq(AnyLines) PROVE Fits(f, x)
    BY <1>1 DEF Fits, Passdbs
  <2>3. << >> \in Seq(AnyLines)
    OBVIOUS
  <2>4. QED
    BY <2>1, <2>2, <2>3
<1>2. CASE f \in Passdbs
  BY <1>2 DEF Truncated, Fits, Passdbs, Empty
<1>3. CASE f = "passwd"
  BY <1>3 DEF Truncated, Fits, Passdbs, UidKinds
<1>4. CASE f = "group"
  BY <1>4 DEF Truncated, Fits, Passdbs
<1>5. QED
  BY <1>1, <1>2, <1>3, <1>4 DEF Files, OnFlash, Passdbs

LEMMA FillingFits ==
    ASSUME Types, NEW c \in Calls, Located(c), Writing(c)
    PROVE  Fits(call[c].to, Filling(c))
<1>1. CASE call[c].src = "text"
  BY <1>1 DEF Types, Filling
<1>2. CASE call[c].src # "text"
  <2>1. WritesBak(c) \/ WritesFlash(c)
    BY <1>2, FiveKinds DEF Located, Writing, Ends, WritesCfg, WritesAccount, Extracts
  <2>2. Fits("smbpasswd", file["smbpasswd"]) /\ Fits("runtime", file["runtime"])
    BY DEF Types, Files, OnFlash
  <2>3. QED
    BY <1>2, <2>1, <2>2 DEF WritesBak, WritesFlash, Filling, Fits, Passdbs
<1>3. QED
  BY <1>1, <1>2

LEMMA FilesFit ==
    ASSUME FlashInv, [Next]_vars, NEW f \in Files
    PROVE  Fits(f, file'[f])
<1> USE DEF FlashInv
<1>1. Fits(f, file[f])
  BY DEF Types
<1>2. ASSUME NEW c \in Calls, Call(c) PROVE Fits(f, file'[f])
  <2>1. WriteStep(c) \/ UNCHANGED file
    BY <1>2, WritesOrNot DEF Types
  <2>2. CASE Opens(c)
    BY <1>1, <2>2, TruncatedFits DEF Opens, Puts
  <2>3. CASE Fills(c)
    BY <1>1, <2>3, FillingFits DEF Fills, Puts, Writing
  <2>4. QED
    BY <1>1, <2>1, <2>2, <2>3 DEF WriteStep, Quits, Still
<1>3. ASSUME NEW u \in Users, NEW h \in Hashes, ChangePassword(u, h) PROVE Fits(f, file'[f])
  <2>1. Fits("runtime", file["runtime"])
    BY DEF Types, Files
  <2>2. file["runtime"][u] # NoEntry /\ Puts("runtime", [file["runtime"] EXCEPT ![u] = h])
    BY <1>3, ChangePasswordDoes
  <2>3. Full([file["runtime"] EXCEPT ![u] = h])
    BY <2>1, <2>2 DEF Fits, Passdbs, Full, Empty
  <2>4. QED
    BY <1>1, <2>2, <2>3 DEF Puts, Fits, Passdbs
<1>4. ASSUME NEW g \in {"disk", "rsyslog"}, EditSetting(g) PROVE Fits(f, file'[f])
  <2>1. Puts(g, SetKey(file[g], "other", "edited"))
    BY <1>4, EditSettingDoes
  <2>2. file[g] \in Seq(AnyLines)
    <3>1. Fits(g, file[g])
      BY DEF Types, Files, OnFlash
    <3>2. QED
      BY <3>1 DEF Fits, Passdbs
  <2>3. SetKey(file[g], "other", "edited") \in Seq(AnyLines)
    BY <2>2, SetKeyDoes DEF AnyLines, Written
  <2>4. QED
    <3>1. Fits(g, SetKey(file[g], "other", "edited"))
      BY <2>3 DEF Fits, Passdbs
    <3>2. QED
      BY <1>1, <2>1, <3>1 DEF Puts
<1>5. CASE Dies \/ UNCHANGED vars
  BY <1>1, <1>5 DEF Dies, vars
<1>6. CASE Reboots
  <2>1. \A uids \in BootUids : BootPasswd(uids) \in [Accounts -> UidKinds]
    BY ConstantsAssumption DEF BootPasswd, UidKinds, NoEntry
  <2>2. \A g \in OnFlash : Fits(g, file'[g])
    BY <1>6 DEF Reboots, Types
  <2>3. CASE f = "runtime"
    BY <1>6, <2>2, <2>3 DEF Reboots, Fits, Passdbs, OnFlash
  <2>4. CASE f = "passwd"
    BY <1>6, <2>1, <2>4 DEF Reboots, Fits, Passdbs
  <2>5. CASE f = "group"
    BY <1>6, <2>5 DEF Reboots, Fits, Passdbs, Accounts
  <2>6. QED
    BY <2>2, <2>3, <2>4, <2>5 DEF Files
<1>7. QED
  BY <1>2, <1>3, <1>4, <1>5, <1>6, FourSteps DEF SomebodyWrites

LEMMA ArchiveFits ==
    ASSUME FlashInv, [Next]_vars
    PROVE  /\ \A f \in OnFlash : Fits(f, archive'.files[f])
           /\ archive'.has \subseteq OnFlash
<1> USE DEF FlashInv
<1>0. OnFlash \subseteq Files
  BY DEF Files
<1>1. CASE UNCHANGED archive
  BY <1>1 DEF Types
<1>2. ASSUME NEW c \in Calls, Call(c), Kind[c] = "backup"
      PROVE  /\ \A f \in OnFlash : Fits(f, archive'.files[f])
             /\ archive'.has \subseteq OnFlash
  <2>1. BackupDid(c)
    BY <1>2, BackupDoesIt
  <2>2. CASE Starts(c)
    BY <1>0, <2>2, TruncatedFits DEF Starts
  <2>3. ASSUME NEW g \in OnFlash, Captures(c, g)
        PROVE  /\ \A f \in OnFlash : Fits(f, archive'.files[f])
               /\ archive'.has \subseteq OnFlash
    BY <1>0, <2>3 DEF Captures, Types, Shapes
  <2>4. QED
    BY <2>1, <2>2, <2>3 DEF BackupDid, Closes, Still, Types
<1>3. QED
  BY <1>1, <1>2, OnlyBackupsArchive

-----------------------------------------------------------------------------
(* How a step turns out for a call: it moves, looks on, or is killed.       *)
Looks(d) == Sees(d, Files) /\ smbd' \in {smbd, Mapped(file'["passwd"])}
Survives(d) == Reboots /\ ~Running(d) /\ Sees(d, Files \ {"runtime"})
Dropped(d) ==
    /\ call'[d].pc = "failed" /\ call'[d].to = call[d].to
    /\ call'[d].users = {} /\ call'[d].todo = {} /\ call'[d].runtime = Empty

LEMMA Turns ==
    ASSUME FlashInv, [Next]_vars, NEW d \in Calls
    PROVE  (Call(d) /\ CallDid(d)) \/ Looks(d) \/ Survives(d) \/ Dropped(d)
<1> USE DEF FlashInv
<1>1. ASSUME NEW c \in Calls, CallDid(c), c # d PROVE Looks(d)
  BY <1>1, OthersSee DEF CallDid, Looks
<1>2. CASE SomebodyWrites
  BY <1>2, UsersAreSeen, UsersWrite DEF Looks
<1>3. CASE Dies \/ Reboots
  <2>1. CASE Running(d)
    BY <1>3, <2>1 DEF Dies, Reboots, AllEnded, Ended, Dropped
  <2>2. CASE ~Running(d) /\ Reboots
    BY <2>2, EndedSee DEF Survives
  <2>3. CASE ~Running(d) /\ Dies
    BY <2>3 DEF Dies, AllEnded, Ended, Looks, Sees
  <2>4. QED
    BY <1>3, <2>1, <2>2, <2>3
<1>4. CASE UNCHANGED vars
  BY <1>4 DEF vars, Looks, Sees
<1>5. QED
  BY <1>1, <1>2, <1>3, <1>4, FourSteps

Textual(c) == Writing(c) /\ call[c].src = "text" => Fits(call[c].to, call[c].text)
LEMMA TextFits ==
    ASSUME FlashInv, NEW c \in Calls, Call(c)
    PROVE  Textual(c)'
<1> USE DEF FlashInv
<1>1. WriteStep(c) => Textual(c)'
  <2>1. Textual(c) /\ (Writing(c) => call[c].then \notin {"open", "fill"})
    BY FiveKinds DEF Types, Textual, Located, WritesCfg, WritesAccount, WritesBak, WritesFlash, Extracts,
                     Writing, Ends
  <2>2. QED
    BY <2>1 DEF WriteStep, Opens, Fills, Quits, Goes, SameBut, Fails, Textual, Writing, Fields
<1>2. CASE Kind[c] \in CfgRepairs
  <2>1. CfgDid(c)
    BY <1>2, CfgDoes
  <2> DEFINE f == CfgFile(Kind[c])
             new == Repaired(c, file[f])
  <2>2. f \in Files /\ f \in {"disk", "rsyslog"}
    BY DEF CfgFile, Files, OnFlash
  <2>3. Fits(f, new)
    <3>1. file[f] \in Seq(AnyLines)
      BY <2>2 DEF Types, Fits, Passdbs
    <3>2. new \in Seq(AnyLines)
      BY <1>2, <3>1, RepairedHeals
    <3>3. QED
      BY <2>2, <3>2 DEF Fits, Passdbs
  <2>4. QED
    BY <1>1, <2>1, <2>3 DEF CfgDid, Goes, Overwrites, Textual, Writing
<1>3. CASE Kind[c] = "samba-account-mapping"
  <2>1. MappingDid(c)
    BY <1>3, MappingDoes
  <2>2. Fits("passwd", file["passwd"]) /\ Fits("group", file["group"])
    BY DEF Types, Files
  <2>3. \A u : Fits("passwd", WithUser(file["passwd"], u))
    BY <2>2 DEF Fits, WithUser, UidKinds, Passdbs
  <2>4. \A u \in Users : Fits("group", WithMember(file["group"], u))
    BY <2>2 DEF Fits, WithMember, Accounts, Passdbs
  <2>5. call[c].pc = "group" => call[c].user \subseteq Users
    BY <1>3 DEF Located, Types
  <2>6. ASSUME NEW u \in call[c].user, EnsuresFile(c, "passwd", WithUser(file["passwd"], u), "group")
        PROVE  Textual(c)'
    BY <1>1, <2>3, <2>6 DEF EnsuresFile, WriteStep, Goes, Overwrites, Textual, Writing
  <2>7. ASSUME NEW u \in call[c].user, call[c].pc = "group",
               EnsuresFile(c, "group", WithMember(file["group"], u), "user")
        PROVE  Textual(c)'
    BY <1>1, <2>4, <2>5, <2>7 DEF EnsuresFile, WriteStep, Goes, Overwrites, Textual, Writing
  <2>8. QED
    BY <1>1, <2>1, <2>6, <2>7 DEF MappingDid, Goes, Textual, Writing
<1>4. CASE Kind[c] = "samba-passdb-flash"
  <2>1. CopyDid(c)
    BY <1>4, CopyDoes
  <2>2. QED
    BY <1>1, <2>1 DEF CopyDid, Goes, Overwrites, Textual, Writing
<1>5. CASE Kind[c] = "backup"
  <2>1. BackupDid(c)
    BY <1>5, BackupDoesIt
  <2>2. QED
    BY <2>1 DEF BackupDid, Starts, Captures, Closes, Fails, Goes, Textual, Writing
<1>6. CASE Kind[c] = "restore"
  <2>1. RestoreDid(c)
    BY <1>6, RestoreDoesIt DEF Types
  <2>2. call[c].pc = "extract" => \A f \in call[c].todo : Fits(f, archive.files[f])
    BY <1>6 DEF Types, Located, Running
  <2>3. QED
    BY <1>1, <2>1, <2>2 DEF RestoreDid, Goes, Overwrites, Textual, Writing
<1>7. QED
  BY <1>2, <1>3, <1>4, <1>5, <1>6, FiveKinds

Known(c) == (Full(call[c].runtime) \/ call[c].runtime = Empty) /\ call[c].users \subseteq Users
LEMMA CallKnows ==
    ASSUME FlashInv, NEW c \in Calls, Call(c)
    PROVE  Known(c)'
<1> USE DEF FlashInv
<1>1. Known(c) /\ (Full(file["runtime"]) \/ file["runtime"] = Empty)
  <2>1. Fits("runtime", file["runtime"])
    BY DEF Types, Files
  <2>2. QED
    BY <2>1 DEF Fits, Passdbs, Types, Known
<1>2. WriteStep(c) => Known(c)'
  BY <1>1 DEF WriteStep, Opens, Fills, Quits, Goes, SameBut, Fails, Known, Fields, Full, Empty
<1>3. CASE Kind[c] \in CfgRepairs
  <2>1. CfgDid(c)
    BY <1>3, CfgDoes
  <2>2. QED
    BY <1>1, <1>2, <2>1 DEF CfgDid, Goes, Overwrites, SameBut, Known, Fields
<1>4. CASE Kind[c] = "samba-account-mapping"
  <2>1. MappingDid(c)
    BY <1>4, MappingDoes
  <2>2. QED
    BY <1>1, <1>2, <2>1 DEF MappingDid, EnsuresFile, WriteStep, Goes, Overwrites, SameBut, Known, Fields
<1>5. CASE Kind[c] = "samba-passdb-flash"
  <2>1. CopyDid(c)
    BY <1>5, CopyDoes
  <2>2. QED
    BY <1>1, <1>2, <2>1 DEF CopyDid, Goes, Overwrites, SameBut, Known, Fields
<1>6. CASE Kind[c] = "backup"
  <2>1. BackupDid(c)
    BY <1>6, BackupDoesIt
  <2>2. QED
    BY <1>1, <2>1 DEF BackupDid, Starts, Captures, Closes, Fails, Goes, SameBut, Known, Fields
<1>7. CASE Kind[c] = "restore"
  <2>1. RestoreDid(c)
    BY <1>7, RestoreDoesIt DEF Types
  <2>2. QED
    BY <1>1, <1>2, <2>1 DEF RestoreDid, Goes, Overwrites, SameBut, Known, Fields
<1>8. QED
  BY <1>3, <1>4, <1>5, <1>6, <1>7, FiveKinds

Noticed(d) == touched[d].during \cup touched[d].since \subseteq Files \cup {"archive"}
LEMMA NoticedStays ==
    ASSUME FlashInv, [Next]_vars, NEW d \in Calls
    PROVE  Noticed(d)'
<1> USE DEF FlashInv
<1>1. Noticed(d)
  BY DEF Types, Noticed
<1>2. ASSUME NEW ds, NEW fs \in SUBSET (Files \cup {"archive"}), Notices(ds, fs) PROVE Noticed(d)'
  BY <1>1, <1>2 DEF Notices, Noticed
<1>3. UNCHANGED touched => Noticed(d)'
  BY <1>1 DEF Noticed
<1>4. UNCHANGED touched \/ \E ds, fs : Notices(ds, fs) /\ fs \subseteq Files \cup {"archive"}
  <2>1. CASE \E c \in Calls : Call(c) /\ CallDid(c)
    BY <2>1 DEF CallDid, Calm, Located
  <2>2. ASSUME NEW u \in Users, NEW h \in Hashes, ChangePassword(u, h)
        PROVE  Notices(Calls, {"runtime"}) /\ {"runtime"} \subseteq Files
    BY <2>2, ChangePasswordDoes DEF Files
  <2>3. ASSUME NEW f \in {"disk", "rsyslog"}, EditSetting(f)
        PROVE  Notices(Calls, {f}) /\ {f} \subseteq Files
    BY <2>3, EditSettingDoes DEF Files, OnFlash
  <2>4. CASE Reboots
    <3> DEFINE ds == {d1 \in Calls : call[d1].pc = "done"}
               fs == {"passwd", "group"} \cup {f \in OnFlash : file'[f] # file[f]}
    <3>1. Notices(ds, fs) /\ fs \subseteq Files \cup {"archive"}
      BY <2>4 DEF Reboots, Files
    <3> HIDE DEF ds, fs
    <3>2. QED
      BY <3>1
  <2>5. QED
    BY <2>1, <2>2, <2>3, <2>4, FourSteps DEF SomebodyWrites, Dies, vars
<1>5. QED
  BY <1>2, <1>3, <1>4

LEMMA TypesStay ==
    ASSUME FlashInv, [Next]_vars
    PROVE  Types'
<1> USE DEF FlashInv
<1>1. ASSUME NEW c \in Calls PROVE Textual(c)' /\ Known(c)'
  <2>1. Textual(c) /\ Known(c)
    BY DEF Types, Textual, Known
  <2>2. CASE Call(c)
    BY <2>2, TextFits, CallKnows
  <2>3. CASE call'[c] = call[c]
    BY <2>1, <2>3 DEF Textual, Known, Writing
  <2>4. CASE Dropped(c)
    BY <2>4 DEF Dropped, Textual, Known, Writing
  <2>5. QED
    BY <2>2, <2>3, <2>4, Turns DEF Looks, Survives, Sees
<1>2. smbd' \subseteq Users
  <2>1. smbd' = smbd \/ \E p : smbd' = Mapped(p)
    BY FourSteps, UsersWrite DEF CallDid, Dies, Reboots, vars
  <2>2. QED
    BY <2>1 DEF Mapped, Types
<1>3. budget' \in Nat
  <2>1. CASE \E c \in Calls : Call(c) /\ CallDid(c)
    BY <2>1 DEF CallDid, Types
  <2>2. CASE budget > 0 /\ budget' = budget - 1
    BY <2>2 DEF Types
  <2>3. CASE UNCHANGED vars
    BY <2>3 DEF vars, Types
  <2>4. QED
    BY <2>1, <2>2, <2>3, CallDoes DEF Next, ChangePassword, EditSetting, Kill, PowerLoss, Acts
<1>4. (\A f \in Files : Fits(f, file[f]))'
  BY FilesFit
<1>5. (\A f \in OnFlash : Fits(f, archive.files[f]))' /\ (archive.has \subseteq OnFlash)'
  BY ArchiveFits
<1>6. \A d \in Calls : Noticed(d)'
  BY NoticedStays
<1>7. (\A f \in OnFlash : \A x \in was[f] : Fits(f, x))'
  BY <1>4, WasGrows DEF Types, Files
<1>8. QED
  BY <1>1, <1>2, <1>3, <1>4, <1>5, <1>6, <1>7 DEF Types, Textual, Known, Noticed

-----------------------------------------------------------------------------
(* Where calls may be.                                                      *)
LEMMA CallLocated ==
    ASSUME FlashInv, [Next]_vars, NEW c \in Calls, Call(c)
    PROVE  Located(c)'
<1> USE DEF FlashInv
<1>0. Grows /\ Located(c)
  BY ArchiveGrows
<1>1. CASE Kind[c] \in CfgRepairs
  <2>1. CfgDid(c)
    BY <1>1, CfgDoes
  <2>2. CfgFile(Kind[c]) \in Files
    BY DEF CfgFile, Files, OnFlash
  <2>3. QED
    BY <1>0, <1>1, <2>1, <2>2
    DEF CfgDid, WriteStep, Opens, Fills, Quits, Goes, Overwrites, SameBut, Fails, Located, Writing,
         WritesCfg, Ends, Fields, CfgRepairs
<1>2. CASE Kind[c] = "samba-account-mapping"
  <2>1. MappingDid(c)
    BY <1>2, MappingDoes
  <2> USE DEF WriteStep, Opens, Fills, Quits, Goes, SameBut, Fails, Located, Writing, WritesAccount, Ends, Fields,
         CfgRepairs
  <2>2. WriteStep(c) => Located(c)'
    BY <1>0, <1>2
  <2>3. ASSUME NEW f \in {"passwd", "group"}, NEW new, NEW then, EnsuresFile(c, f, new, then), call[c].pc = f,
               then = IF f = "passwd" THEN "group" ELSE "user"
        PROVE  Located(c)'
    BY <1>0, <1>2, <2>2, <2>3 DEF EnsuresFile, Overwrites, Files
  <2>4. CASE /\ call[c].pc = "user"
             /\ \E u \in call[c].todo, pc \in {"passwd", "group"} :
                  /\ Goes(c, pc, {"pc", "todo", "user"})
                  /\ call'[c].todo = call[c].todo \ {u} /\ call'[c].user = {u}
    BY <1>0, <1>2, <2>4
  <2>5. CASE /\ call[c].pc = "flash" /\ Goes(c, "user", {"pc", "users", "todo"})
             /\ call'[c].users \subseteq Users /\ call'[c].todo = call'[c].users
    BY <1>0, <1>2, <2>5
  <2>6. CASE call[c].pc = "idle" /\ Goes(c, "flash", {"pc", "runtime"})
    BY <1>0, <1>2, <2>6
  <2>7. CASE call[c].pc = "user" /\ Goes(c, "done", {"pc"})
    BY <1>0, <1>2, <2>7
  <2>8. QED
    BY <2>1, <2>2, <2>3, <2>4, <2>5, <2>6, <2>7 DEF MappingDid
<1>3. CASE Kind[c] = "samba-passdb-flash"
  <2>1. CopyDid(c)
    BY <1>3, CopyDoes
  <2> USE DEF WriteStep, Opens, Fills, Quits, Goes, SameBut, Fails, Located, Writing, WritesBak, WritesFlash, Ends,
         Fields, CfgRepairs
  <2>2. WriteStep(c) => Located(c)'
    BY <1>0, <1>3
  <2>3. QED
    BY <1>0, <1>3, <2>1, <2>2 DEF CopyDid, Overwrites, Files, OnFlash
<1>4. CASE Kind[c] = "backup"
  <2>1. BackupDid(c)
    BY <1>4, BackupDoesIt
  <2>2. QED
    BY <1>0, <1>4, <2>1 DEF BackupDid, Starts, Captures, Closes, Goes, SameBut, Fails, Located, Writing, Ends,
         Fields, CfgRepairs
<1>5. CASE Kind[c] = "restore"
  <2>1. RestoreDid(c)
    BY <1>5, RestoreDoesIt DEF Types
  <2> USE DEF Grows, WriteStep, Opens, Fills, Quits, Goes, SameBut, Fails, Located, Writing, Extracts, Ends,
         Fields, CfgRepairs, Running
  <2>2. WriteStep(c) => Located(c)'
    BY <1>0, <1>5
  <2>3. ASSUME NEW f \in call[c].todo, call[c].pc = "extract", Quiet,
               Overwrites(c, f, "text", archive.files[f], "extract", {"todo"}),
               call'[c].todo = call[c].todo \ {f}
        PROVE  Located(c)'
    <3>1. f \in Files /\ f \in archive.has
      BY <1>0, <1>5, <2>3 DEF Types, Files
    <3>2. QED
      BY <1>0, <1>5, <2>3, <3>1 DEF Overwrites
  <2>4. QED
    BY <1>0, <1>5, <2>1, <2>2, <2>3 DEF RestoreDid, Quiet, Still
<1>6. QED
  BY <1>1, <1>2, <1>3, <1>4, <1>5, FiveKinds

LEMMA LocatedStays ==
    ASSUME FlashInv, [Next]_vars, NEW d \in Calls
    PROVE  Located(d)'
<1> USE DEF FlashInv
<1>1. CASE call'[d] = call[d]
  <2>1. Located(d) /\ Grows
    BY ArchiveGrows
  <2>2. /\ Extracts(d) => Extracts(d)'
        /\ WritesAccount(d) <=> WritesAccount(d)'
        /\ WritesCfg(d) <=> WritesCfg(d)'
        /\ WritesBak(d) <=> WritesBak(d)'
        /\ WritesFlash(d) <=> WritesFlash(d)'
        /\ Running(d) <=> Running(d)'
        /\ Writing(d) <=> Writing(d)'
    BY <1>1, <2>1 DEF Grows, Extracts, WritesAccount, WritesCfg, WritesBak, WritesFlash, Running, Writing
  <2>3. QED
    BY <1>1, <2>1, <2>2 DEF Located, Grows
<1>2. CASE Dropped(d)
  <2>1. Located(d)
    OBVIOUS
  <2>2. QED
    BY <1>2, <2>1 DEF Dropped, Located, Ends, Writing, Running
<1>3. QED
  BY <1>1, <1>2, Turns, CallLocated DEF Looks, Survives, Sees

-----------------------------------------------------------------------------
(* The settings repairs write, and leave, what their checks accept.         *)
LEMMA CallSettles ==
    ASSUME FlashInv, NEW c \in Calls, Call(c), Kind[c] \in CfgRepairs
    PROVE  Settles(c)'
<1> USE DEF FlashInv
<1> DEFINE f == CfgFile(Kind[c])
           new == Repaired(c, file[f])
<1>1. CfgDid(c) /\ Located(c) /\ Settles(c)
  BY CfgDoes
<1>2. f \in Files /\ f \in {"disk", "rsyslog"}
  BY DEF CfgFile, Files, OnFlash
<1>3. Heals(c, new)
  <2>1. file[f] \in Seq(AnyLines)
    BY <1>2 DEF Types, Fits, Passdbs
  <2>2. QED
    BY <2>1, RepairedHeals
<1>4. Writing(c) => Heals(c, call[c].text) /\ WritesCfg(c)
  BY <1>1 DEF Settles, Located
<1> HIDE DEF f, new
<1>5. CASE Opens(c)
  BY <1>4, <1>5 DEF Opens, Goes, SameBut, Fields, Settles, Heals, Writing
<1>6. CASE Fills(c)
  <2>1. file'[f] = call[c].text /\ call'[c].pc = "done"
    BY <1>4, <1>6 DEF Fills, Goes, Puts, Filling, Writing, WritesCfg, f
  <2>2. QED
    BY <1>4, <1>6, <2>1 DEF Settles, Heals, Writing, f, Fills
<1>7. CASE Quits(c)
  BY <1>7 DEF Quits, Fails, Settles, Writing
<1>8. CASE Quiet /\ Goes(c, "done", {"pc"}) /\ file[f] = new
  BY <1>3, <1>8 DEF Quiet, Still, Goes, Settles, Writing, Heals, f
<1>9. CASE Quiet /\ Overwrites(c, f, "text", new, "done", {})
  BY <1>3, <1>9 DEF Overwrites, Settles, Writing, Heals
<1>10. QED
  BY <1>1, <1>5, <1>6, <1>7, <1>8, <1>9 DEF CfgDid, WriteStep, f, new

LEMMA SettlesStays ==
    ASSUME FlashInv, [Next]_vars, NEW d \in Calls
    PROVE  Settles(d)'
<1> USE DEF FlashInv
<1>1. CASE Call(d)
  BY <1>1, CallSettles DEF Settles
<1>2. CASE Sees(d, Files \ {"runtime"})
  <2>1. CfgFile(Kind[d]) \in Files \ {"runtime"}
    BY DEF CfgFile, Files, OnFlash
  <2>2. Settles(d)
    OBVIOUS
  <2>3. QED
    BY <1>2, <2>1, <2>2 DEF Sees, Settles, Heals, Writing, Undisturbed, Alone
<1>3. CASE Dropped(d)
  BY <1>3 DEF Dropped, Settles, Writing
<1>4. QED
  BY <1>1, <1>2, <1>3, Turns DEF Looks, Survives, Sees

(* A call does not notice what it writes itself.                            *)
LEMMA OwnWritesUnnoticed ==
    ASSUME NEW c \in Calls, CallDid(c)
    PROVE  touched'[c].during = touched[c].during /\ touched'[c].since = touched[c].since
BY DEF CallDid, Calm, Notices

(* The flash repair leaves what it read, and what is in use, on flash.      *)
LEMMA CallPropagates ==
    ASSUME FlashInv, NEW c \in Calls, Call(c), Kind[c] = "samba-passdb-flash"
    PROVE  Propagates(c)'
<1> USE DEF FlashInv
<1>1. CopyDid(c) /\ Located(c) /\ Propagates(c)
  BY CopyDoes
<1>2. touched'[c].during = touched[c].during /\ touched'[c].since = touched[c].since
  BY CallDoes, OwnWritesUnnoticed
<1>3. Writing(c) => (WritesBak(c) \/ WritesFlash(c)) /\ Running(c)
  BY <1>1 DEF Located, Writing, Running
<1> USE DEF Propagates, Running, Alone, Undisturbed
<1>4. CASE Opens(c)
  BY <1>1, <1>2, <1>3, <1>4 DEF Opens, Goes, SameBut, Fields, Puts, Writing, WritesBak, WritesFlash, Files, OnFlash
<1>5. CASE Fills(c)
  <2>1. call[c].pc = "fill" /\ Running(c)
    BY <1>5 DEF Fills
  <2>2. CASE WritesBak(c)
    BY <1>1, <1>2, <1>5, <2>1, <2>2 DEF Fills, Goes, SameBut, Fields, Puts, WritesBak, Files, OnFlash
  <2>3. CASE WritesFlash(c)
    <3>1. file'["smbpasswd"] = file["runtime"] /\ file'["runtime"] = file["runtime"] /\ call'[c].pc = "verify"
      BY <1>5, <2>3 DEF Fills, Goes, Puts, WritesFlash, Filling, Files
    <3>2. QED
      BY <1>1, <1>2, <1>5, <2>1, <3>1 DEF Fills, Goes, SameBut, Fields
  <2>4. QED
    BY <1>3, <2>1, <2>2, <2>3 DEF Writing
<1>6. CASE Quits(c)
  BY <1>6 DEF Quits, Fails
<1>7. CASE /\ call[c].pc = "idle" /\ Quiet /\ Goes(c, "flash", {"pc", "runtime"})
           /\ call'[c].runtime = file["runtime"]
  BY <1>7 DEF Goes, Quiet, Still
<1>8. ASSUME NEW users, call[c].pc = "flash", Quiet, call'[c].users = users,
             Overwrites(c, "bak", "smbpasswd", << >>, "copy", {"users"})
      PROVE  Propagates(c)'
  BY <1>1, <1>2, <1>8 DEF Overwrites, SameBut, Fields, Quiet, Still
<1>9. ASSUME NEW users, call[c].pc = "flash", Quiet, call'[c].users = users,
             Goes(c, "done", {"pc", "users"}), ~Diverges(call[c].runtime, file["smbpasswd"], users)
      PROVE  Propagates(c)'
  BY <1>1, <1>2, <1>9 DEF Goes, SameBut, Fields, Quiet, Still, Diverges
<1>10. CASE call[c].pc = "copy" /\ Quiet /\ Overwrites(c, "smbpasswd", "runtime", << >>, "verify", {})
  BY <1>1, <1>2, <1>10 DEF Overwrites, SameBut, Fields, Quiet, Still
<1>11. CASE call[c].pc = "verify" /\ Quiet /\ Goes(c, "done", {"pc"})
  BY <1>1, <1>2, <1>11 DEF Goes, SameBut, Fields, Quiet, Still
<1>12. QED
  BY <1>1, <1>4, <1>5, <1>6, <1>7, <1>8, <1>9, <1>10, <1>11 DEF CopyDid, WriteStep

LEMMA PropagatesStays ==
    ASSUME FlashInv, [Next]_vars, NEW d \in Calls
    PROVE  Propagates(d)'
<1> USE DEF FlashInv
<1>1. CASE Call(d)
  BY <1>1, CallPropagates DEF Propagates
<1>2. CASE Looks(d)
  <2>1. Propagates(d)
    OBVIOUS
  <2>2. {"smbpasswd", "runtime"} \subseteq Files
    BY DEF Files, OnFlash
  <2>3. QED
    BY <1>2, <2>1, <2>2 DEF Looks, Sees, Propagates, Undisturbed, Alone, Running
<1>3. CASE Survives(d)
  <2>1. Propagates(d)
    OBVIOUS
  <2>2. /\ file'["runtime"] = file'["smbpasswd"]
        /\ file'["smbpasswd"] = file["smbpasswd"] \/ (call[d].pc = "done" => "smbpasswd" \in touched'[d].since)
    BY <1>3 DEF Survives, Reboots, Sees, Files, OnFlash
  <2>3. QED
    BY <1>3, <2>1, <2>2 DEF Survives, Sees, Propagates, Undisturbed, Alone, Running
<1>4. CASE Dropped(d)
  BY <1>4 DEF Dropped, Propagates, Running
<1>5. QED
  BY <1>1, <1>2, <1>3, <1>4, Turns

-----------------------------------------------------------------------------
(* What an archive has taken, and what a restore has written.               *)
LEMMA ArchiveTakes ==
    ASSUME FlashInv, [Next]_vars, NEW f \in archive'.has \ archive.has
    PROVE  archive'.files[f] = file[f] /\ file' = file
<1> USE DEF FlashInv
<1>1. PICK c \in Calls : Call(c) /\ Kind[c] = "backup"
  BY OnlyBackupsArchive
<1>2. BackupDid(c)
  BY <1>1, BackupDoesIt
<1>3. ASSUME NEW g \in OnFlash, Captures(c, g) PROVE archive'.files[f] = file[f] /\ file' = file
  BY <1>3 DEF Captures, Calm, Shapes
<1>4. QED
  BY <1>2, <1>3 DEF BackupDid, Starts, Closes, Still

LEMMA CallExtracts ==
    ASSUME FlashInv, NEW c \in Calls, Call(c), Kind[c] = "restore"
    PROVE  Extracted(c)'
<1> USE DEF FlashInv
<1>1. RestoreDid(c) /\ Located(c) /\ Extracted(c) /\ archive.has \subseteq OnFlash
  BY RestoreDoesIt DEF Types
<1>2. touched'[c].during = touched[c].during /\ touched'[c].since = touched[c].since
  BY CallDoes, OwnWritesUnnoticed
<1>3. Writing(c) => Extracts(c) /\ Running(c)
  BY <1>1 DEF Located, Writing, Running
<1> USE DEF Extracted, Running, Alone, Undisturbed, Same, Writing
<1>4. CASE Opens(c)
  BY <1>1, <1>2, <1>3, <1>4 DEF Opens, Goes, SameBut, Fields, Puts, Files
<1>5. CASE Fills(c)
  <2>1. file'[call[c].to] = archive.files[call[c].to] /\ call'[c].pc = "extract" /\ Running(c)
    BY <1>3, <1>5 DEF Fills, Goes, Puts, Filling, Extracts
  <2>2. QED
    BY <1>1, <1>2, <1>5, <2>1 DEF Fills, Goes, SameBut, Fields, Puts, Files
<1>6. CASE Quits(c)
  BY <1>6 DEF Quits, Fails
<1>7. CASE /\ Quiet /\ Goes(c, "extract", {"pc", "todo"}) /\ call'[c].todo = archive.has
  BY <1>7 DEF Goes, Quiet, Still
<1>8. ASSUME NEW f \in call[c].todo, call[c].pc = "extract", Quiet,
             Overwrites(c, f, "text", archive.files[f], "extract", {"todo"}),
             call'[c].todo = call[c].todo \ {f}
      PROVE  Extracted(c)'
  BY <1>1, <1>2, <1>8 DEF Overwrites, Quiet, Still
<1>9. CASE call[c].pc = "extract" /\ call[c].todo = {} /\ Quiet /\ archive.whole /\ Goes(c, "done", {"pc"})
  BY <1>1, <1>2, <1>9 DEF Goes, Quiet, Still
<1>10. QED
  BY <1>1, <1>4, <1>5, <1>6, <1>7, <1>8, <1>9 DEF RestoreDid, WriteStep

LEMMA ExtractedStays ==
    ASSUME FlashInv, [Next]_vars, NEW d \in Calls
    PROVE  Extracted(d)'
<1> USE DEF FlashInv
<1>1. CASE Call(d)
  BY <1>1, CallExtracts DEF Extracted
<1>2. CASE Sees(d, Files \ {"runtime"})
  <2>1. Extracted(d) /\ Grows /\ archive'.has \subseteq OnFlash
    BY ArchiveGrows, ArchiveFits
  <2>2. OnFlash \subseteq Files \ {"runtime"}
    BY DEF Files, OnFlash
  <2>3. \A f \in archive'.has \ archive.has : file'[f] = archive'.files[f]
    BY ArchiveTakes
  <2>4. QED
    BY <1>2, <2>1, <2>2, <2>3 DEF Sees, Grows, Extracted, Undisturbed, Alone, Running, Writing, Same
<1>3. CASE Dropped(d)
  BY <1>3 DEF Dropped, Extracted, Running
<1>4. QED
  BY <1>1, <1>2, <1>3, Turns DEF Looks, Survives, Sees

LEMMA CallTars ==
    ASSUME FlashInv, NEW b \in Calls, Call(b), Kind[b] = "backup"
    PROVE  Tars(b)'
<1> USE DEF FlashInv
<1>1. BackupDid(b) /\ Tars(b) /\ archive.has \subseteq OnFlash
  BY BackupDoesIt DEF Types
<1>2. touched'[b].during = touched[b].during /\ touched'[b].since = touched[b].since
  BY CallDoes, OwnWritesUnnoticed
<1> USE DEF Tars, Alone, Undisturbed, Same
<1>3. CASE Starts(b)
  BY <1>3 DEF Starts, Goes, Present, Tree, OnFlash, Truncated, Passdbs, Empty
<1>4. ASSUME NEW f \in OnFlash, Captures(b, f) PROVE Tars(b)'
  BY <1>1, <1>2, <1>4 DEF Captures, Goes, Calm, Shapes
<1>5. CASE Closes(b)
  BY <1>1, <1>2, <1>5 DEF Closes, Goes, Calm
<1>6. CASE Fails(b) /\ Still
  BY <1>6 DEF Fails
<1>7. QED
  BY <1>1, <1>3, <1>4, <1>5, <1>6 DEF BackupDid

LEMMA TarsStays ==
    ASSUME FlashInv, [Next]_vars, NEW b \in Calls
    PROVE  Tars(b)'
<1> USE DEF FlashInv
<1>1. CASE Call(b)
  BY <1>1, CallTars DEF Tars
<1>2. CASE Sees(b, Files \ {"runtime"}) /\ ~Call(b) /\ Kind[b] = "backup"
  <2>1. Tars(b) /\ archive.has \subseteq OnFlash
    BY DEF Types
  <2>2. OnFlash \subseteq Files \ {"runtime"}
    BY DEF Files, OnFlash
  <2>3. call[b].pc # "off" => UNCHANGED archive
    BY <1>2, OnlyBackupsArchive DEF OneBackup, CallDid
  <2>4. QED
    BY <1>2, <2>1, <2>2, <2>3 DEF Sees, Tars, Undisturbed, Alone, Running, Same, OnFlash
<1>3. CASE Dropped(b)
  BY <1>3 DEF Dropped, Tars
<1>4. QED
  BY <1>1, <1>2, <1>3, Turns DEF Looks, Survives, Sees, Tars

-----------------------------------------------------------------------------
(* The mapping repair gives its users their accounts, one after the other.  *)
LEMMA CallMaps ==
    ASSUME FlashInv, NEW c \in Calls, Call(c), Kind[c] = "samba-account-mapping"
    PROVE  Maps(c)'
<1> USE DEF FlashInv
<1>1. MappingDid(c) /\ Located(c) /\ Maps(c)
  BY MappingDoes
<1>2. touched'[c].during = touched[c].during /\ touched'[c].since = touched[c].since
  BY CallDoes, OwnWritesUnnoticed
<1>3. Writing(c) => WritesAccount(c)
  BY <1>1 DEF Located
<1>4. /\ file["passwd"] \in [Accounts -> UidKinds] /\ file["group"] \in (SUBSET Accounts) \cup {NoGroup}
      /\ call[c].users \subseteq Users
  <2>1. Fits("passwd", file["passwd"]) /\ Fits("group", file["group"])
    BY DEF Types, Files
  <2>2. QED
    BY <2>1 DEF Types, Fits, Passdbs
<1>5. call[c].pc \in {"passwd", "group", "open", "fill"} => \E u \in call[c].users : call[c].user = {u}
  BY <1>1 DEF Located
<1> USE DEF Maps, Alone, Undisturbed, At, Writes, Writing, InPasswd, InGroup, Goes, SameBut, Fields
<1>6. CASE Opens(c)
  <2>1. CASE call[c].to = "passwd"
    BY <1>1, <1>2, <1>6, <2>1 DEF Opens, Puts, Files
  <2>2. CASE call[c].to = "group"
    BY <1>1, <1>2, <1>6, <2>2 DEF Opens, Puts, Files
  <2>3. QED
    BY <1>3, <1>6, <2>1, <2>2 DEF Opens, WritesAccount
<1>7. CASE Fills(c)
  <2>1. file'[call[c].to] = call[c].text
    BY <1>3, <1>7 DEF Fills, Puts, Filling, WritesAccount
  <2>2. CASE call[c].to = "passwd" /\ call[c].then = "group"
    <3>1. file'["group"] = file["group"]
      BY <1>7, <2>2 DEF Fills, Puts, Files
    <3>2. QED
      BY <1>1, <1>2, <1>5, <1>7, <2>1, <2>2, <3>1 DEF Fills
  <2>3. CASE call[c].to = "group" /\ call[c].then = "user"
    <3>1. file'["passwd"] = file["passwd"]
      BY <1>7, <2>3 DEF Fills, Puts, Files
    <3>2. QED
      BY <1>1, <1>2, <1>5, <1>7, <2>1, <2>3, <3>1 DEF Fills
  <2>4. QED
    BY <1>3, <1>7, <2>2, <2>3 DEF Fills, WritesAccount
<1>8. CASE Quits(c)
  BY <1>8 DEF Quits, Fails
<1>9. WriteStep(c) => Maps(c)'
  BY <1>6, <1>7, <1>8 DEF WriteStep
<1> USE DEF Quiet, Still
<1>10. CASE call[c].pc = "idle" /\ Goes(c, "flash", {"pc", "runtime"})
  BY <1>10
<1>11. CASE Quiet /\ Goes(c, "user", {"pc", "users", "todo"}) /\ call'[c].todo = call'[c].users
  BY <1>11
<1>12. ASSUME call[c].pc = "user", Quiet, NEW u \in call[c].todo, NEW pc \in {"passwd", "group"},
              Goes(c, pc, {"pc", "todo", "user"}), pc = "group" => file["passwd"][u] = "passdb",
              call'[c].todo = call[c].todo \ {u}, call'[c].user = {u}
       PROVE  Maps(c)'
  BY <1>1, <1>2, <1>12
<1>13. ASSUME call[c].pc = "passwd", NEW u \in call[c].user,
              EnsuresFile(c, "passwd", WithUser(file["passwd"], u), "group")
       PROVE  Maps(c)'
  <2>1. u \in Accounts /\ call[c].user = {u}
    BY <1>4, <1>5, <1>13 DEF Accounts
  <2> DEFINE new == WithUser(file["passwd"], u)
  <2>2. new[u] = "passdb" /\ \A v \in Accounts : file["passwd"][v] = "passdb" => new[v] = "passdb"
    BY <1>4, <2>1 DEF WithUser
  <2>3. call[c].users \subseteq Accounts
    BY <1>4 DEF Accounts
  <2> HIDE DEF new
  <2>4. CASE Quiet /\ new = file["passwd"] /\ Goes(c, "group", {"pc"})
    BY <1>1, <1>2, <1>13, <2>1, <2>2, <2>4
  <2>5. CASE Quiet /\ Overwrites(c, "passwd", "text", new, "group", {})
    BY <1>1, <1>2, <1>13, <2>1, <2>2, <2>3, <2>5 DEF Overwrites
  <2>6. QED
    BY <1>8, <1>13, <2>4, <2>5 DEF EnsuresFile, new
<1>14. ASSUME call[c].pc = "group", NEW u \in call[c].user,
              EnsuresFile(c, "group", WithMember(file["group"], u), "user")
       PROVE  Maps(c)'
  <2>1. call[c].user = {u}
    BY <1>5, <1>14
  <2> DEFINE new == WithMember(file["group"], u)
  <2>2. new = file["group"] => file["group"] = NoGroup \/ u \in file["group"]
    BY DEF WithMember
  <2>3. new # file["group"] => new = file["group"] \cup {u} /\ file["group"] # NoGroup
    BY DEF WithMember
  <2> HIDE DEF new
  <2>4. CASE Quiet /\ new = file["group"] /\ Goes(c, "user", {"pc"})
    BY <1>1, <1>2, <1>14, <2>1, <2>2, <2>4
  <2>5. CASE Quiet /\ new # file["group"] /\ Overwrites(c, "group", "text", new, "user", {})
    BY <1>1, <1>2, <1>14, <2>1, <2>3, <2>5 DEF Overwrites
  <2>6. QED
    BY <1>8, <1>14, <2>4, <2>5 DEF EnsuresFile, new
<1>15. CASE /\ call[c].pc = "user" /\ call[c].todo = {} /\ Still /\ Goes(c, "done", {"pc"})
            /\ IF call[c].acted THEN smbd' = Mapped(file["passwd"]) ELSE UNCHANGED smbd
  <2>1. Alone(c, {"passwd", "group"}) => /\ \A u \in call[c].users : file["passwd"][u] = "passdb"
                                         /\ file["group"] = NoGroup \/ call[c].users \subseteq file["group"]
    BY <1>1, <1>15
  <2>2. QED
    BY <1>2, <1>4, <1>15, <2>1 DEF Mapped
<1>16. QED
  BY <1>1, <1>9, <1>10, <1>11, <1>12, <1>13, <1>14, <1>15 DEF MappingDid

LEMMA MapsStays ==
    ASSUME FlashInv, [Next]_vars, NEW d \in Calls
    PROVE  Maps(d)'
<1> USE DEF FlashInv
<1>1. CASE Call(d)
  BY <1>1, CallMaps DEF Maps
<1>2. CASE Looks(d)
  <2>1. Maps(d) /\ call[d].users \subseteq Users
    BY DEF Types
  <2>2. {"passwd", "group"} \subseteq Files
    BY DEF Files
  <2>3. call'[d] = call[d]
    BY <1>2 DEF Looks, Sees
  <2>4. CASE call[d].pc \in {"user", "passwd", "group", "open", "fill"}
    <3>1. Running(d)
      BY <2>4 DEF Running
    <3>2. Alone(d, {"passwd", "group"})' =>
            Alone(d, {"passwd", "group"}) /\ file'["passwd"] = file["passwd"] /\ file'["group"] = file["group"]
      BY <1>2, <2>2, <3>1 DEF Looks, Sees, Alone
    <3>3. QED
      BY <2>1, <2>3, <2>4, <3>2 DEF Maps, At, Writes, InPasswd, InGroup
  <2>5. CASE call[d].pc = "done"
    <3>1. Undisturbed(d, {"passwd", "group"})' =>
            /\ Undisturbed(d, {"passwd", "group"})
            /\ file'["passwd"] = file["passwd"] /\ file'["group"] = file["group"]
      BY <1>2, <2>2, <2>5 DEF Looks, Sees, Alone, Undisturbed
    <3>2. smbd' = smbd \/ smbd' = Mapped(file'["passwd"])
      BY <1>2 DEF Looks
    <3>3. QED
      BY <2>1, <2>3, <2>5, <3>1, <3>2 DEF Maps, Mapped
  <2>6. QED
    BY <2>3, <2>4, <2>5 DEF Maps
<1>3. CASE Survives(d)
  BY <1>3 DEF Survives, Reboots, Notices, Sees, Maps, Undisturbed, Running
<1>4. CASE Dropped(d)
  BY <1>4 DEF Dropped, Maps
<1>5. QED
  BY <1>1, <1>2, <1>3, <1>4, Turns

-----------------------------------------------------------------------------
(* Settings and accounts nobody is to lose.                                 *)
Elsewhere(c, f) ==
    /\ file'[f] = file[f]
    /\ ~At(c, "open", f) /\ ~At(c, "fill", f) /\ ~At(c, "open", f)' /\ ~At(c, "fill", f)'
Prepares(c, f) ==
    /\ file'[f] = file[f] /\ ~At(c, "open", f) /\ ~At(c, "fill", f) /\ At(c, "open", f)'
    /\ Kept(f, file[f]) => Kept(f, call'[c].text)
Empties(c, f) ==
    /\ At(c, "open", f) /\ At(c, "fill", f)' /\ call'[c].text = call[c].text
    /\ Notices(Calls \ {c}, {f})
Rewrites(c, f) ==
    /\ At(c, "fill", f) /\ ~At(c, "open", f)' /\ ~At(c, "fill", f)' /\ file'[f] = call[c].text
    /\ Notices(Calls \ {c}, {f})
Keeps(c, f) == Elsewhere(c, f) \/ Prepares(c, f) \/ Empties(c, f) \/ Rewrites(c, f) \/ Excused(f)'

LEMMA GoesElsewhere ==
    ASSUME NEW c \in Calls, NEW f, file' = file, call[c].pc \notin {"open", "fill"},
           call'[c].pc \notin {"open", "fill"} \/ call'[c].to # f
    PROVE  Keeps(c, f)
BY DEF Keeps, Elsewhere, At

LEMMA WriteKeeps ==
    ASSUME NEW c \in Calls, Located(c), NEW f \in Keepers, WriteStep(c)
    PROVE  Keeps(c, f)
<1>1. f \in Files
  BY DEF Keepers, Files, OnFlash
<1>2. Writing(c) => call[c].then \notin {"open", "fill"}
  BY FiveKinds DEF Located, WritesCfg, WritesAccount, WritesBak, WritesFlash, Extracts, Writing, Ends
<1>3. Writing(c) /\ call[c].to = f => call[c].src = "text"
  BY FiveKinds DEF Located, WritesCfg, WritesAccount, WritesBak, WritesFlash, Extracts, Writing, Ends, Keepers
<1>4. CASE Opens(c)
  <2>1. CASE call[c].to = f
    BY <1>4, <2>1 DEF Opens, Goes, SameBut, Fields, Keeps, Empties, At
  <2>2. CASE call[c].to # f
    BY <1>1, <1>4, <2>2 DEF Opens, Goes, SameBut, Fields, Puts, Keeps, Elsewhere, At
  <2>3. QED
    BY <2>1, <2>2
<1>5. CASE Fills(c)
  <2>1. CASE call[c].to = f
    BY <1>2, <1>3, <1>5, <2>1 DEF Fills, Goes, Puts, Filling, Writing, Keeps, Rewrites, At
  <2>2. CASE call[c].to # f
    BY <1>1, <1>5, <2>2 DEF Fills, Goes, SameBut, Fields, Puts, Keeps, Elsewhere, At
  <2>3. QED
    BY <2>1, <2>2
<1>6. CASE Quits(c)
  <2>1. CASE call[c].to = f
    BY <1>6, <2>1 DEF Quits, Fails, Keeps, Excused, At
  <2>2. CASE call[c].to # f
    BY <1>6, <2>2 DEF Quits, Fails, Still, Keeps, Elsewhere, At
  <2>3. QED
    BY <2>1, <2>2
<1>7. QED
  BY <1>4, <1>5, <1>6 DEF WriteStep

LEMMA CallKeeps ==
    ASSUME FlashInv, [Next]_vars, NEW c \in Calls, Call(c), NEW f \in Keepers
    PROVE  Keeps(c, f)
<1> USE DEF FlashInv
<1>1. WriteStep(c) => Keeps(c, f)
  BY WriteKeeps
<1>2. ASSUME NEW g, NEW src, NEW text, NEW then, NEW F, Quiet, call[c].pc \notin {"open", "fill"},
             Overwrites(c, g, src, text, then, F), f = g => (Kept(f, file[f]) => Kept(f, text))
      PROVE  Keeps(c, f)
  <2>1. CASE f = g
    BY <1>2, <2>1 DEF Overwrites, Quiet, Still, Keeps, Prepares, At
  <2>2. CASE f # g
    BY <1>2, <2>2, GoesElsewhere DEF Overwrites, Quiet, Still
  <2>3. QED
    BY <2>1, <2>2
<1>3. ASSUME NEW pc, NEW F, Still, call[c].pc \notin {"open", "fill"}, Goes(c, pc, F), pc \notin {"open", "fill"}
      PROVE  Keeps(c, f)
  BY <1>3, GoesElsewhere DEF Goes, Still
<1>4. CASE Kind[c] \in CfgRepairs
  <2> DEFINE g == CfgFile(Kind[c])
             new == Repaired(c, file[g])
  <2>1. CfgDid(c)
    BY <1>4, CfgDoes
  <2>2. Kept(g, file[g]) => Kept(g, new)
    <3>1. g \in {"disk", "rsyslog"} /\ g \in Files
      BY DEF CfgFile, Files, OnFlash
    <3>2. file[g] \in Seq(AnyLines)
      BY <3>1 DEF Types, Fits, Passdbs
    <3>3. Value(new, "other") = Value(file[g], "other")
      BY <1>4, <3>2, RepairedHeals
    <3> HIDE DEF g, new
    <3>4. QED
      BY <3>1, <3>3 DEF Kept
  <2>3. CASE call[c].pc = "idle" /\ Quiet /\ Goes(c, "done", {"pc"})
    BY <1>3, <2>3 DEF Quiet
  <2>4. CASE call[c].pc = "idle" /\ Quiet /\ Overwrites(c, g, "text", new, "done", {})
    <3> HIDE DEF g, new
    <3>1. QED
      BY <1>2, <2>2, <2>4
  <2>5. QED
    BY <1>1, <2>1, <2>3, <2>4 DEF CfgDid
<1>5. CASE Kind[c] = "samba-account-mapping"
  <2>1. MappingDid(c) /\ Located(c)
    BY <1>5, MappingDoes
  <2>2. ASSUME NEW u \in call[c].user, call[c].pc = "passwd",
               EnsuresFile(c, "passwd", WithUser(file["passwd"], u), "group")
        PROVE  Keeps(c, f)
    <3> DEFINE new == WithUser(file["passwd"], u)
    <3>1. u \in Users
      BY <1>5, <2>1, <2>2 DEF Located, Types
    <3>2. file["passwd"] \in [Accounts -> UidKinds]
      <4>1. Fits("passwd", file["passwd"])
        BY DEF Types, Files
      <4>2. QED
        BY <4>1 DEF Fits, Passdbs
    <3>3. Kept("passwd", file["passwd"]) => Kept("passwd", new)
      BY <3>1, <3>2, ConstantsAssumption DEF Kept, WithUser, Accounts
    <3> HIDE DEF new
    <3>4. QED
      BY <1>1, <1>2, <1>3, <2>2, <3>3 DEF EnsuresFile, WriteStep, new, Quiet
  <2>3. ASSUME NEW u \in call[c].user, call[c].pc = "group",
               EnsuresFile(c, "group", WithMember(file["group"], u), "user")
        PROVE  Keeps(c, f)
    <3> DEFINE new == WithMember(file["group"], u)
    <3>1. Kept("group", file["group"]) => Kept("group", new)
      BY DEF Kept, WithMember
    <3> HIDE DEF new
    <3>2. QED
      BY <1>1, <1>2, <1>3, <2>3, <3>1 DEF EnsuresFile, WriteStep, new, Quiet
  <2>4. QED
    BY <1>1, <1>3, <2>1, <2>2, <2>3 DEF MappingDid, Quiet
<1>6. CASE Kind[c] = "samba-passdb-flash"
  <2>1. CopyDid(c)
    BY <1>6, CopyDoes
  <2>2. f \notin {"bak", "smbpasswd"}
    BY DEF Keepers
  <2>3. QED
    BY <1>1, <1>2, <1>3, <2>1, <2>2 DEF CopyDid, Quiet
<1>7. CASE Kind[c] = "backup"
  <2>1. BackupDid(c)
    BY <1>7, BackupDoesIt
  <2>2. Fails(c) /\ Still => WriteStep(c) \/ Keeps(c, f)
    BY WriteKeeps, <1>7 DEF Fails, Still, Keeps, Elsewhere, Excused, At, Located, Ends
  <2>3. QED
    BY <1>1, <2>1, <2>2, GoesElsewhere DEF BackupDid, Starts, Captures, Closes, Goes, Calm
<1>8. CASE Kind[c] = "restore"
  <2>1. RestoreDid(c) /\ Located(c)
    BY <1>8, RestoreDoesIt DEF Types
  <2>2. ASSUME NEW g \in call[c].todo, call[c].pc = "extract", Quiet,
               Overwrites(c, g, "text", archive.files[g], "extract", {"todo"})
        PROVE  Keeps(c, f)
    <3>1. g \in OnFlash
      BY <1>8, <2>1, <2>2 DEF Located, Running, Types
    <3>2. CASE f = g
      <4>1. f \in {"disk", "rsyslog"}
        BY <3>1, <3>2 DEF OnFlash, Keepers
      <4>2. Restored'
        BY <1>8, <2>2 DEF Restored, Overwrites
      <4>3. QED
        BY <4>1, <4>2 DEF Keeps, Excused
    <3>3. QED
      BY <1>2, <2>2, <3>2
  <2>3. QED
    BY <1>1, <1>3, <2>1, <2>2 DEF RestoreDid, Quiet
<1>9. QED
  BY <1>4, <1>5, <1>6, <1>7, <1>8, FiveKinds

LEMMA DuringGrows ==
    ASSUME FlashInv, [Next]_vars, NEW d \in Calls
    PROVE  touched[d].during \subseteq touched'[d].during
<1> USE DEF FlashInv
<1>1. ASSUME NEW c \in Calls, CallDid(c) PROVE touched[d].during \subseteq touched'[d].during
  BY <1>1, OthersSee, OwnWritesUnnoticed DEF Sees
<1>2. CASE SomebodyWrites
  BY <1>2, UsersAreSeen DEF Sees
<1>3. CASE Dies \/ Reboots
  BY <1>3 DEF Dies, Reboots, Notices
<1>4. CASE UNCHANGED vars
  BY <1>4 DEF vars
<1>5. QED
  BY <1>1, <1>2, <1>3, <1>4, FourSteps

LEMMA FailedRests ==
    ASSUME FlashInv, [Next]_vars, NEW d \in Calls, call[d].pc = "failed"
    PROVE  call'[d] = call[d]
<1> USE DEF FlashInv
<1>1. CASE \E c \in Calls : Call(c) /\ CallDid(c)
  BY <1>1 DEF CallDid, Others
<1>2. CASE SomebodyWrites
  BY <1>2, UsersWrite
<1>3. CASE Dies \/ Reboots
  BY <1>3 DEF Dies, Reboots, AllEnded, Ended, Running
<1>4. CASE UNCHANGED vars
  BY <1>4 DEF vars
<1>5. QED
  BY <1>1, <1>2, <1>3, <1>4, FourSteps

LEMMA RestoredStays ==
    ASSUME FlashInv, [Next]_vars, Restored
    PROVE  Restored'
BY BegunStays DEF FlashInv, Restored, Begun

LEMMA ExcusedStays ==
    ASSUME FlashInv, [Next]_vars, NEW f, Excused(f)
    PROVE  Excused(f)'
<1>1. CASE Raced(f)
  BY <1>1, DuringGrows DEF Raced, Excused
<1>2. CASE \E c \in Calls : At(c, "failed", f)
  BY <1>2, FailedRests DEF At, Excused
<1>3. CASE f \in {"disk", "rsyslog"} /\ Restored
  BY <1>3, RestoredStays DEF Excused
<1>4. CASE f \in {"disk", "rsyslog"} /\ f \in lost
  BY <1>4, LostGrows DEF Excused
<1>5. QED
  BY <1>1, <1>2, <1>3, <1>4 DEF Excused

LEMMA KeepingStays ==
    ASSUME FlashInv, [Next]_vars, NEW f \in Keepers
    PROVE  Keeping(f)'
<1> USE DEF FlashInv
<1>0. SUFFICES ASSUME ~Excused(f)'
               PROVE  Keeping(f)'
  BY DEF Keeping
<1>1. /\ \A c \in Calls : At(c, "fill", f) => Kept(f, call[c].text)
      /\ \/ \E c \in Calls : At(c, "fill", f)
         \/ Kept(f, file[f]) /\ \A c \in Calls : At(c, "open", f) => Kept(f, call[c].text)
  BY <1>0, ExcusedStays DEF Keeping
<1>2. ASSUME NEW ds, Notices(ds, {f}), NEW d \in ds, d \in Calls PROVE ~Running(d)
  BY <1>0, <1>2 DEF Notices, Excused, Raced
<1>3. ASSUME NEW c \in Calls, Call(c), CallDid(c) PROVE Keeping(f)'
  <2>1. Keeps(c, f)
    BY <1>3, CallKeeps
  <2>2. \A d \in Calls \ {c} : call'[d] = call[d]
    BY <1>3 DEF CallDid, Others
  <2>3. \A d \in Calls \ {c} : \A pc : At(d, pc, f)' <=> At(d, pc, f)
    BY <2>2 DEF At
  <2>4. CASE Elsewhere(c, f)
    <3>1. \A d \in Calls, pc \in {"open", "fill"} : At(d, pc, f)' <=> At(d, pc, f)
      BY <2>3, <2>4 DEF Elsewhere
    <3>2. \A d \in Calls, pc \in {"open", "fill"} : At(d, pc, f) => call'[d].text = call[d].text
      BY <2>2, <2>4 DEF Elsewhere
    <3>3. QED
      BY <1>1, <2>4, <3>1, <3>2 DEF Elsewhere, Keeping
  <2>5. CASE Prepares(c, f)
    <3>1. \A d \in Calls : At(d, "fill", f)' <=> At(d, "fill", f)
      BY <2>3, <2>5 DEF Prepares, At
    <3>2. \A d \in Calls : At(d, "fill", f) => call'[d].text = call[d].text
      BY <2>2, <2>5 DEF Prepares
    <3>3. \A d \in Calls \ {c} : At(d, "open", f)' => At(d, "open", f) /\ call'[d].text = call[d].text
      BY <2>2, <2>3
    <3>4. QED
      BY <1>1, <2>5, <3>1, <3>2, <3>3 DEF Prepares, Keeping
  <2>6. CASE Empties(c, f)
    <3>1. \A d \in Calls \ {c} : ~At(d, "open", f) /\ ~At(d, "fill", f)
      BY <1>2, <2>6 DEF Empties, At, Running
    <3>2. ~At(c, "fill", f)
      BY <2>6 DEF Empties, At
    <3>3. Kept(f, call[c].text)
      BY <1>1, <2>6, <3>1, <3>2 DEF Empties
    <3>4. QED
      BY <2>3, <2>6, <3>1, <3>3 DEF Empties, Keeping
  <2>7. CASE Rewrites(c, f)
    <3>1. \A d \in Calls \ {c} : ~At(d, "open", f) /\ ~At(d, "fill", f)
      BY <1>2, <2>7 DEF Rewrites, At, Running
    <3>2. Kept(f, file'[f])
      BY <1>1, <2>7 DEF Rewrites
    <3>3. QED
      BY <2>3, <2>7, <3>1, <3>2 DEF Rewrites, Keeping
  <2>8. QED
    BY <1>0, <2>1, <2>4, <2>5, <2>6, <2>7 DEF Keeps
<1>4. ASSUME NEW u \in Users, NEW h \in Hashes, ChangePassword(u, h) PROVE Keeping(f)'
  <2>1. file'[f] = file[f] /\ UNCHANGED call
    BY <1>4, ChangePasswordDoes DEF Puts, Keepers, Files, OnFlash
  <2>2. QED
    BY <1>1, <2>1 DEF Keeping, At
<1>5. ASSUME NEW g \in {"disk", "rsyslog"}, EditSetting(g) PROVE Keeping(f)'
  <2>1. UNCHANGED call /\ Puts(g, SetKey(file[g], "other", "edited")) /\ Notices(Calls, {g})
    BY <1>5, EditSettingDoes
  <2>2. CASE f # g
    <3>1. file'[f] = file[f]
      BY <2>1, <2>2 DEF Puts, Keepers, Files, OnFlash
    <3>2. QED
      BY <1>1, <2>1, <3>1 DEF Keeping, At
  <2>3. CASE f = g
    <3>1. \A d \in Calls : ~At(d, "open", f) /\ ~At(d, "fill", f)
      BY <1>2, <2>1, <2>3 DEF At, Running
    <3>2. file[f] \in Seq(AnyLines)
      <4>1. Fits(f, file[f])
        BY DEF Types, Keepers, Files, OnFlash
      <4>2. QED
        BY <2>3, <4>1 DEF Fits, Passdbs
    <3>3. Kept(f, file[f])
      BY <1>1, <3>1
    <3>4. Value(SetKey(file[f], "other", "edited"), "other") # NoEntry
      <4>1. Line("other", "edited") \in AnyLines
        BY DEF AnyLines, Written
      <4>2. Value(file[f], "other") # NoEntry
        BY <2>3, <3>3 DEF Kept
      <4>3. Value(SetKey(file[f], "other", "edited"), "other") \in {"edited", Value(file[f], "other")}
        BY <3>2, <4>1, SetKeySets
      <4>4. QED
        BY <4>2, <4>3 DEF NoEntry
    <3>5. Kept(f, file'[f])
      BY <2>1, <2>3, <3>4 DEF Kept, Puts
    <3>6. QED
      BY <2>1, <3>1, <3>5 DEF Keeping, At
  <2>4. QED
    BY <2>2, <2>3
<1>6. CASE Dies \/ Reboots
  <2>1. AllEnded
    BY <1>6 DEF Dies, Reboots
  <2>2. \A d \in Calls : ~At(d, "open", f) /\ ~At(d, "fill", f)
    BY <1>0, <2>1 DEF AllEnded, Ended, Excused, At, Running
  <2>3. \A d \in Calls : ~At(d, "open", f)' /\ ~At(d, "fill", f)'
    BY <2>1, <2>2 DEF AllEnded, Ended, At
  <2>4. Kept(f, file[f])
    BY <1>1, <2>2
  <2>5. Kept(f, file'[f])
    <3>1. CASE Dies
      BY <2>4, <3>1 DEF Dies
    <3>2. CASE Reboots /\ f \in {"disk", "rsyslog"}
      BY <1>0, <2>4, <3>2 DEF Reboots, Excused, Gone, Kept
    <3>3. CASE Reboots /\ f = "passwd"
      BY <3>3, ConstantsAssumption DEF Reboots, Kept, BootPasswd, Accounts
    <3>4. CASE Reboots /\ f = "group"
      BY <3>4 DEF Reboots, Kept
    <3>5. QED
      BY <1>6, <3>1, <3>2, <3>3, <3>4 DEF Keepers
  <2>6. QED
    BY <2>3, <2>5 DEF Keeping
<1>7. CASE UNCHANGED vars
  BY <1>1, <1>7 DEF vars, Keeping, At
<1>8. QED
  BY <1>3, <1>4, <1>5, <1>6, <1>7, FourSteps DEF SomebodyWrites

-----------------------------------------------------------------------------
(* The passwords.                                                           *)
LEMMA FullOrEmpty ==
    ASSUME Types, NEW f \in {"smbpasswd", "bak"}
    PROVE  /\ Full(file[f]) \/ file[f] = Empty
           /\ ~Full(Empty)
           /\ \A u \in Users : file[f][u] # NoEntry => Full(file[f])
<1>1. Fits(f, file[f])
  BY DEF Types, Files, OnFlash
<1>2. Full(file[f]) \/ file[f] = Empty
  BY <1>1 DEF Fits, Passdbs
<1>3. QED
  BY <1>2, ConstantsAssumption DEF Full, Empty, NoEntry

LEMMA UnracedBefore ==
    ASSUME FlashInv, [Next]_vars, Unraced'
    PROVE  /\ Unraced
           /\ \A c \in Calls : CallDid(c) /\ Writing(c) /\ call[c].to \in {"smbpasswd", "bak"} /\ file' # file =>
                \A d \in Calls \ {c} : ~Running(d)
<1>1. Unraced
  BY DuringGrows, LostGrows DEF Unraced, Alone
<1>2. ASSUME NEW c \in Calls, CallDid(c), Writing(c), call[c].to \in {"smbpasswd", "bak"}, file' # file
      PROVE  \A d \in Calls \ {c} : ~Running(d)
  <2>1. Notices(Calls \ {c}, {call[c].to})
    BY <1>2 DEF CallDid, Calm
  <2>2. QED
    BY <1>2, <2>1 DEF Notices, Unraced, Alone
<1>3. QED
  BY <1>1, <1>2

LEMMA CallHolds ==
    ASSUME FlashInv, [Next]_vars, Unraced', NEW c \in Calls, Call(c), Kind[c] = "samba-passdb-flash"
    PROVE  CopyHeld(c)'
<1> USE DEF FlashInv
<1>1. CopyDid(c) /\ CopyHeld(c) /\ Located(c)
  BY CopyDoes, UnracedBefore DEF PassdbKept
<1>2. Writing(c) => WritesBak(c) \/ WritesFlash(c)
  BY <1>1 DEF Located
<1> USE DEF CopyHeld, Writes
<1>3. CASE Opens(c)
  BY <1>1, <1>2, <1>3 DEF Opens, Goes, SameBut, Fields, Puts, Writing, WritesBak, WritesFlash, Files, OnFlash
<1>4. CASE Fills(c)
  <2>1. CASE WritesBak(c)
    <3>1. file'["bak"] = file["smbpasswd"]
      BY <1>4, <2>1 DEF Fills, Puts, Filling, WritesBak
    <3>2. QED
      BY <1>1, <1>4, <2>1, <3>1 DEF Fills, Goes, WritesBak
  <2>2. CASE WritesFlash(c)
    BY <1>4, <2>2 DEF Fills, Goes, WritesFlash
  <2>3. QED
    BY <1>2, <1>4, <2>1, <2>2 DEF Fills, Writing
<1>5. CASE Quits(c)
  BY <1>5 DEF Quits, Fails
<1>6. CASE Quiet /\ (Goes(c, "flash", {"pc", "runtime"}) \/ Goes(c, "done", {"pc"}))
  BY <1>6 DEF Goes
<1>7. ASSUME NEW users \in SUBSET Users, Quiet,
             \/ /\ Diverges(call[c].runtime, file["smbpasswd"], users)
                /\ Overwrites(c, "bak", "smbpasswd", << >>, "copy", {"users"})
             \/ Goes(c, "done", {"pc", "users"})
      PROVE  CopyHeld(c)'
  <2>1. Diverges(call[c].runtime, file["smbpasswd"], users) => Full(file["smbpasswd"])
    BY FullOrEmpty DEF Diverges
  <2>2. QED
    BY <1>7, <2>1 DEF Overwrites, Goes, Quiet, Still
<1>8. CASE call[c].pc = "copy" /\ Quiet /\ Overwrites(c, "smbpasswd", "runtime", << >>, "verify", {})
  BY <1>1, <1>8 DEF Overwrites, Quiet, Still
<1>9. QED
  BY <1>1, <1>3, <1>4, <1>5, <1>6, <1>7, <1>8 DEF CopyDid, WriteStep

LEMMA CopyHeldStays ==
    ASSUME FlashInv, [Next]_vars, Unraced', NEW d \in Calls
    PROVE  CopyHeld(d)'
<1> USE DEF FlashInv
<1>1. CASE Call(d)
  BY <1>1, CallHolds DEF CopyHeld
<1>2. CASE Looks(d)
  <2>1. CopyHeld(d)
    BY UnracedBefore DEF PassdbKept
  <2>2. Running(d) => file'["smbpasswd"] = file["smbpasswd"] /\ file'["bak"] = file["bak"]
    BY <1>2 DEF Looks, Sees, Unraced, Alone, Files, OnFlash
  <2>3. QED
    BY <1>2, <2>1, <2>2 DEF Looks, Sees, CopyHeld, Writes, Running
<1>3. CASE Survives(d)
  BY <1>3 DEF Survives, Sees, Running, CopyHeld, Writes
<1>4. CASE Dropped(d)
  BY <1>4 DEF Dropped, CopyHeld, Writes
<1>5. QED
  BY <1>1, <1>2, <1>3, <1>4, Turns

(* Who writes a copy of the passwords leaves another.                       *)
LEMMA WriterLeavesFull ==
    ASSUME FlashInv, [Next]_vars, Unraced', NEW c \in Calls, Call(c), CallDid(c), Opens(c) \/ Fills(c),
           call[c].to \in {"smbpasswd", "bak"}, file' # file
    PROVE  SomeFull'
<1> USE DEF FlashInv
<1>1. Writing(c) /\ Located(c) /\ UNCHANGED archive
  BY DEF Opens, Fills, Writing
<1>2. \A d \in Calls \ {c} : ~Running(d)
  BY <1>1, UnracedBefore
<1>3. \A f \in Files \ {call[c].to} : file'[f] = file[f]
  BY DEF Opens, Fills, Puts
<1>4. CASE Kind[c] = "samba-passdb-flash"
  <2>1. CopyHeld(c)
    BY UnracedBefore DEF PassdbKept
  <2>2. QED
    BY <1>1, <1>3, <1>4, <2>1 DEF CopyHeld, Writes, Writing, SomeFull, Files, OnFlash
<1>5. CASE Kind[c] = "restore" /\ ~archive.whole
  <2>1. archive.exists /\ call[c].to \in archive.has
    BY <1>1, <1>5 DEF Located, Extracts, Running, Writing
  <2>2. PICK b \in Calls : Started(b)
    BY <2>1 DEF OneBackup
  <2>3. b # c /\ call'[b] = call[b]
    BY <1>5, <2>2 DEF Started, CallDid, Others
  <2>4. call[b].pc = "failed"
    BY <1>2, <1>5, <2>2, <2>3 DEF Started, Running, Tars
  <2>5. Restored'
    BY <1>5 DEF CallDid, Restored
  <2>6. QED
    BY <1>1, <1>5, <2>1, <2>2, <2>3, <2>4, <2>5 DEF SomeFull, HalfRestored, HalfArchive, Started
<1>6. CASE archive.whole
  BY <1>1, <1>6 DEF SomeFull
<1>7. Kind[c] = "samba-passdb-flash" \/ Kind[c] = "restore"
  BY <1>1, FiveKinds DEF Located, WritesCfg, WritesAccount, CfgFile, Writing, Ends
<1>8. QED
  BY <1>4, <1>5, <1>6, <1>7

LEMMA PassdbGone ==
    ASSUME NEW fs
    PROVE  "passdb" \in Gone(fs) <=> \E u \in Users : \A f \in {"smbpasswd", "bak"} : fs[f][u] = NoEntry
BY DEF Gone

LEMMA SomeFullStays ==
    ASSUME FlashInv, [Next]_vars, Unraced'
    PROVE  SomeFull'
<1> USE DEF FlashInv
<1>1. SomeFull /\ Grows
  BY UnracedBefore, ArchiveGrows DEF PassdbKept
<1>2. archive.whole \/ HalfRestored => SomeFull'
  <2>1. CASE archive.whole
    BY <1>1, <2>1 DEF SomeFull, Grows
  <2>2. CASE HalfRestored
    <3>1. PICK b \in Calls : Kind[b] = "backup" /\ call[b].pc = "failed"
      BY <2>2 DEF HalfRestored, HalfArchive
    <3>2. call'[b] = call[b]
      BY <3>1, FailedRests
    <3>3. UNCHANGED archive
      BY <3>1, OnlyBackupsArchive DEF OneBackup, CallDid
    <3>4. Restored'
      BY <2>2, RestoredStays DEF HalfRestored
    <3>5. QED
      BY <2>2, <3>1, <3>2, <3>3, <3>4 DEF SomeFull, HalfRestored, HalfArchive
  <2>3. QED
    BY <2>1, <2>2
<1>0. ASSUME file'["smbpasswd"] = file["smbpasswd"], file'["bak"] = file["bak"] PROVE SomeFull'
  BY <1>0, <1>1, <1>2 DEF SomeFull
<1>3. ASSUME NEW c \in Calls, Call(c), CallDid(c) PROVE SomeFull'
  <2>1. WriteStep(c) \/ UNCHANGED file
    BY <1>3, WritesOrNot DEF Types
  <2>2. CASE UNCHANGED file
    BY <1>0, <2>2
  <2>3. CASE (Opens(c) \/ Fills(c)) /\ call[c].to \in {"smbpasswd", "bak"} /\ file' # file
    BY <1>3, <2>3, WriterLeavesFull
  <2>4. CASE (Opens(c) \/ Fills(c)) /\ call[c].to \notin {"smbpasswd", "bak"}
    BY <1>0, <2>4 DEF Opens, Fills, Puts, Files, OnFlash
  <2>5. QED
    BY <2>1, <2>2, <2>3, <2>4 DEF WriteStep, Quits, Still
<1>4. CASE SomebodyWrites
  BY <1>0, <1>4, ChangePasswordDoes, EditSettingDoes DEF SomebodyWrites, Puts, Files, OnFlash
<1>5. CASE Dies \/ UNCHANGED vars
  BY <1>0, <1>5 DEF Dies, vars
<1>6. CASE Reboots
  <2>1. CASE archive.whole \/ HalfRestored
    BY <1>2, <2>1
  <2>2. CASE Full(file["smbpasswd"]) \/ Full(file["bak"])
    <3>1. ASSUME NEW x, Full(x), NEW u \in Users PROVE x[u] # NoEntry
      BY <3>1, ConstantsAssumption DEF Full, NoEntry
    <3>2. "passdb" \notin Gone(file)
      BY <2>2, <3>1, PassdbGone
    <3>3. "passdb" \notin Gone(file')
      BY <1>6, <3>2 DEF Reboots, Unraced
    <3>4. PICK u \in Users : TRUE
      BY ConstantsAssumption
    <3>5. PICK f \in {"smbpasswd", "bak"} : file'[f][u] # NoEntry
      BY <3>3, PassdbGone
    <3>6. Fits(f, file'[f])
      BY FilesFit DEF Files, OnFlash
    <3>7. Full(file'[f])
      BY <3>5, <3>6 DEF Fits, Passdbs, Empty
    <3>8. QED
      BY <3>7 DEF SomeFull
  <2>3. QED
    BY <1>1, <2>1, <2>2 DEF SomeFull
<1>7. QED
  BY <1>3, <1>4, <1>5, <1>6, FourSteps

LEMMA ArchiveFullStays ==
    ASSUME FlashInv, [Next]_vars, Unraced'
    PROVE  ArchiveFull'
<1> USE DEF FlashInv
<1>1. SomeFull /\ ArchiveFull /\ Grows
  BY UnracedBefore, ArchiveGrows DEF PassdbKept
<1>2. CASE archive.whole
  <2>1. PICK f \in {"smbpasswd", "bak"} : f \in archive.has /\ Full(archive.files[f])
    BY <1>1, <1>2 DEF ArchiveFull
  <2>2. QED
    BY <1>1, <2>1 DEF Grows, ArchiveFull
<1>3. CASE ~archive.whole /\ archive'.whole
  <2>1. PICK b \in Calls : Call(b) /\ CallDid(b) /\ Kind[b] = "backup"
    BY <1>3, OnlyBackupsArchive
  <2>2. PICK f \in OnFlash : Captures(b, f)
    BY <1>3, <2>1, BackupDoesIt DEF BackupDid, Starts, Closes, Still
  <2>3. call[b].pc = "tar" /\ call'[b].pc = "tar" /\ UNCHANGED file
    BY <2>2 DEF Captures, Goes, Calm
  <2>4. Tars(b)'
    BY <2>1, CallTars
  <2>5. Alone(b, {"smbpasswd", "bak"})'
    BY DEF Unraced
  <2>6. Full(file["smbpasswd"]) \/ Full(file["bak"])
    BY <1>1, <1>3, <2>1, <2>3 DEF SomeFull, HalfRestored, HalfArchive, OneBackup
  <2>7. CASE Full(file["smbpasswd"])
    <3>1. "smbpasswd" \in archive'.has /\ file'["smbpasswd"] = archive'.files["smbpasswd"]
      BY <1>3, <2>1, <2>3, <2>4, <2>5 DEF Tars, Alone, Tree, OnFlash
    <3>2. QED
      BY <2>3, <2>7, <3>1 DEF ArchiveFull
  <2>8. CASE Full(file["bak"])
    <3>1. file["bak"] # Empty
      BY <2>8, FullOrEmpty
    <3>2. "bak" \in archive'.has /\ file'["bak"] = archive'.files["bak"]
      BY <1>3, <2>1, <2>3, <2>4, <2>5, <3>1 DEF Tars, Alone
    <3>3. QED
      BY <2>3, <2>8, <3>2 DEF ArchiveFull
  <2>9. QED
    BY <2>6, <2>7, <2>8
<1>4. QED
  BY <1>2, <1>3 DEF ArchiveFull

LEMMA PassdbKeptStays ==
    ASSUME FlashInv, [Next]_vars
    PROVE  PassdbKept'
BY SomeFullStays, ArchiveFullStays, CopyHeldStays DEF PassdbKept

-----------------------------------------------------------------------------
LEMMA InitHolds ==
    ASSUME Init
    PROVE  FlashInv
<1>1. PICK s \in Scenarios :
        /\ file \in s.files /\ budget = s.acts
        /\ call = [c \in Calls |-> IF c \in s.calls THEN [Off EXCEPT !.pc = "idle"] ELSE Off]
  BY DEF Init
<1>2. ASSUME NEW c \in Calls
      PROVE  /\ Shaped(c) /\ call[c].pc \in {"off", "idle"} /\ (call[c].pc = "idle" <=> c \in s.calls)
             /\ call[c].to = "disk" /\ call[c].users = {} /\ call[c].todo = {}
             /\ call[c].runtime = Empty
  BY <1>1 DEF Off, Shaped, Fields, Truncated, Passdbs, Empty
<1>3. /\ archive = [f \in {"exists", "whole", "manifest", "has", "files"} |-> archive[f]]
      /\ ~archive.exists /\ ~archive.whole /\ archive.has = {}
      /\ archive.files = [f \in OnFlash |-> Truncated(f)]
  BY DEF Init, NoArchive
<1>4. /\ file = [f \in Files |-> file[f]]
      /\ \A f \in {"disk", "rsyslog"} : file[f] \in Seq(Lines) /\ Value(file[f], "other") # NoEntry
      /\ Full(file["smbpasswd"]) /\ Full(file["runtime"]) /\ (Full(file["bak"]) \/ file["bak"] = Empty)
      /\ file["passwd"] \in [Accounts -> UidKinds] /\ \A a \in Foreign : file["passwd"][a] = "other"
      /\ file["group"] \subseteq Accounts /\ Foreign \subseteq file["group"]
  <2>1. Truncated("bak") = Empty
    BY DEF Truncated, Passdbs, Empty
  <2>2. QED
    BY <1>1, <2>1, ScenariosAssumption DEF Full
<1>5. Shapes
  BY <1>1, <1>2, <1>3, <1>4 DEF Init, Shapes
<1>6. Types
  <2>1. ASSUME NEW f \in Files PROVE Fits(f, file[f])
    <3>1. CASE f \in {"disk", "rsyslog"}
      BY <1>4, <3>1, LinesAreAny DEF Fits, Passdbs
    <3>2. CASE f \in Passdbs
      BY <1>4, <3>2 DEF Fits, Passdbs
    <3>3. CASE f \in {"passwd", "group"}
      BY <1>4, <3>3 DEF Fits, Passdbs
    <3>4. QED
      BY <3>1, <3>2, <3>3 DEF Files, OnFlash, Passdbs
  <2>2. \A f \in OnFlash : Fits(f, archive.files[f]) /\ \A x \in was[f] : Fits(f, x)
    BY <1>3, <2>1, TruncatedFits DEF Init, Files
  <2>3. \A c \in Calls : ~Writing(c)
    BY <1>2 DEF Writing
  <2>4. budget \in Nat /\ smbd \subseteq Users
    BY <1>1, ScenariosAssumption DEF Init, Mapped
  <2>5. \A c \in Calls : touched[c].during \cup touched[c].since \subseteq Files \cup {"archive"}
    BY DEF Init
  <2>6. QED
    BY <1>2, <1>3, <2>1, <2>2, <2>3, <2>4, <2>5 DEF Types
<1>7. OneBackup
  BY <1>2, <1>3, ScenariosAssumption DEF OneBackup
<1>8. PassdbKept
  BY <1>2, <1>3, <1>4 DEF PassdbKept, SomeFull, ArchiveFull, CopyHeld, Writes
<1>9. \A f \in Keepers : Keeping(f)
  BY <1>2, <1>4 DEF Keepers, Keeping, Kept, At
<1>10. ASSUME NEW c \in Calls
       PROVE  Located(c) /\ Settles(c) /\ Propagates(c) /\ Maps(c) /\ Tars(c) /\ Extracted(c)
  <2>1. Located(c)
    BY <1>2 DEF Located, Ends, Writing, Running, Files, OnFlash
  <2>2. QED
    BY <1>2, <2>1 DEF Settles, Propagates, Maps, Tars, Extracted, Writing, Running
<1>11. QED
  BY <1>5, <1>6, <1>7, <1>8, <1>9, <1>10 DEF FlashInv

(* FlashInv holds in every state: what every call knows, what it is about   *)
(* to write, and what is on flash, in use and in the archive go together.   *)
THEOREM FlashInvHolds == Spec => []FlashInv
<1>1. FlashInv /\ [Next]_vars => FlashInv'
  BY ShapesStay, TypesStay, OneBackupStays, PassdbKeptStays, KeepingStays, LocatedStays, SettlesStays,
     PropagatesStays, MapsStays, TarsStays, ExtractedStays DEF FlashInv
<1>2. QED
  BY <1>1, InitHolds, PTL DEF Spec

-----------------------------------------------------------------------------
(* A write of /etc/passwd or /etc/group loses other accounts only if two    *)
(* repairs write the file at once or one stops between emptying and filling *)
(* it (write_if_changed).                                                   *)
THEOREM OtherAccountsAreKept == Spec => []AccountsKept
<1>1. ASSUME FlashInv PROVE AccountsKept
  <2>1. Keeping("passwd") /\ Keeping("group")
    BY <1>1 DEF FlashInv, Keepers
  <2>2. QED
    BY <2>1 DEF Keeping, Excused, Kept, At, Broken, AccountsKept
<1>2. QED
  BY <1>1, FlashInvHolds, PTL

(* No repair or restore costs a user the password: one of smbpasswd, its    *)
(* .bak and the archive has it (repair_samba_passdb_flash), unless a power  *)
(* loss takes both copies before the drive has either; what a repair said   *)
(* it propagated stays, unless a power loss takes that back.                *)
THEOREM PasswordsAreNotLost == Spec => []PasswordsSurvive
<1>1. ASSUME FlashInv PROVE TypeOK
  <2>0. Shapes /\ Types /\ OneBackup
    BY <1>1 DEF FlashInv
  <2>1. ASSUME NEW x, Full(x) \/ x = Empty PROVE x \in Passdb
    BY <2>1 DEF Full, Empty, Passdb
  <2>2. ASSUME NEW f \in Passdbs PROVE file[f] \in Passdb
    <3>1. Fits(f, file[f])
      BY <2>0 DEF Types, Passdbs, Files, OnFlash
    <3>2. QED
      BY <2>1, <3>1 DEF Fits, Passdbs
  <2>3. /\ file["passwd"] \in [Accounts -> {NoEntry, "passdb", "other"}]
        /\ file["group"] \in (SUBSET Accounts) \cup {NoGroup}
    <3>1. Fits("passwd", file["passwd"]) /\ Fits("group", file["group"])
      BY <2>0 DEF Types, Files
    <3>2. QED
      BY <3>1 DEF Fits, Passdbs, UidKinds
  <2>4. ASSUME NEW c \in Calls PROVE call[c].pc \in Pcs /\ call[c].to \in Files
    <3>1. Located(c)
      BY <1>1 DEF FlashInv
    <3>2. QED
      BY <3>1, FiveKinds DEF Located, Ends, Pcs
  <2>5. DOMAIN file = Files
    BY <2>0 DEF Shapes
  <2>6. QED
    BY <2>0, <2>1, <2>2, <2>3, <2>4, <2>5 DEF TypeOK, Types, OneBackup
<1>2. ASSUME FlashInv PROVE PassdbNotLost
  <2>1. CASE ~Unraced
    BY <2>1 DEF Unraced, PassdbNotLost
  <2>2. CASE Unraced
    <3>1. SomeFull /\ ArchiveFull
      BY <1>2, <2>2 DEF FlashInv, PassdbKept
    <3>2. ASSUME NEW x, Full(x), NEW u \in Users PROVE x[u] # NoEntry
      BY <3>2, ConstantsAssumption DEF Full, NoEntry
    <3>3. QED
      BY <3>1, <3>2 DEF SomeFull, ArchiveFull, PassdbNotLost
  <2>3. QED
    BY <2>1, <2>2
<1>3. ASSUME FlashInv PROVE PropagatedStays
  <2>1. \A c \in Calls : Propagates(c)
    BY <1>3 DEF FlashInv
  <2>2. \A u : file["runtime"][u] = file["smbpasswd"][u] => Classified(file, u) # "diverged"
    BY DEF Classified, Diverges
  <2>3. QED
    BY <2>1, <2>2 DEF Propagates, PropagatedStays, Done
<1>4. QED
  BY <1>1, <1>2, <1>3, FlashInvHolds, PTL DEF PasswordsSurvive

(* A repair that says it is done has repaired what it is for: the accounts  *)
(* of the mapping are there and smbd has found them, the settings pass      *)
(* their check, but for a target of the logs that is set and empty, and the *)
(* others are kept (set_cfg_keys).                                          *)
THEOREM WhatIsDoneIsHealed == Spec => []RepairHeals
<1>1. ASSUME FlashInv PROVE MappingHealed
  <2>1. \A c \in Calls : Maps(c)
    BY <1>1 DEF FlashInv
  <2>2. \A u : file["passwd"][u] = "passdb" => Classified(file, u) # "corrupt"
    BY DEF Classified
  <2>3. QED
    BY <2>1, <2>2 DEF Maps, MappingHealed, Done
<1>2. ASSUME FlashInv PROVE CfgHealed
  <2>1. ASSUME NEW c \in Calls, Kind[c] \in CfgRepairs, call[c].pc = "done"
        PROVE  LET f == CfgFile(Kind[c])
                   lines == file[f]
               IN /\ Undisturbed(c, {f}) /\ NoTwice(lines) => Healed(c, lines)
                  /\ Broken(f) \/ Raced(f) \/ Restored \/ f \in lost \/ Value(lines, "other") # NoEntry
    <3> DEFINE f == CfgFile(Kind[c])
    <3>1. Settles(c)
      BY <1>2 DEF FlashInv
    <3>2. f \in {"disk", "rsyslog"}
      BY DEF CfgFile
    <3>3. Keeping(f)
      BY <1>2, <3>2 DEF FlashInv, Keepers
    <3>4. Broken(f) \/ Raced(f) \/ Restored \/ f \in lost \/ Value(file[f], "other") # NoEntry
      <4> HIDE DEF f
      <4>1. QED
        BY <3>2, <3>3 DEF Keeping, Excused, Kept, At, Broken
    <3>5. QED
      BY <2>1, <3>1, <3>4 DEF Settles, Heals
  <2>2. QED
    BY <2>1 DEF CfgHealed, NoTwice
<1>3. QED
  BY <1>1, <1>2, FlashInvHolds, PTL DEF RepairHeals

(* A backup or a restore that says it is done leaves tree and archive       *)
(* alike, whichever of them was killed before (do_backup, do_restore).      *)
THEOREM TreeAndArchiveAgree == Spec => []ArchiveAgrees
<1>1. ASSUME FlashInv PROVE ArchiveAgrees
  <2>1. OneBackup /\ \A c \in Calls : Tars(c) /\ Extracted(c)
    BY <1>1 DEF FlashInv
  <2>2. QED
    BY <2>1 DEF OneBackup, Tars, Extracted, Same, Tree, ArchiveAgrees, Done
<1>2. QED
  BY <1>1, FlashInvHolds, PTL
=============================================================================

---------------------------- MODULE StagedCopies ----------------------------
(***************************************************************************)
(* The root side of moving data while others may move it too: CopyVolume,  *)
(* ExposeCopy and RemoveCopy of privileged.rs, which stage a copy under    *)
(* <appdata>/<name>, on the directories of safefs.rs.                      *)
(*                                                                         *)
(* <appdata> and what is in it may be renamed by anybody, so a path that   *)
(* was checked may name another directory a moment later.  A step acts on  *)
(* the directories it holds open, and on the names in them.  AdoptTxn has  *)
(* these operations as single steps of a run.                              *)
(***************************************************************************)
EXTENDS Naturals, FiniteSets

CONSTANTS
    Runs,       \* runs of unraid.docker.adopt for one container
    Foreign,    \* other people's directories, none of them empty
    Writes,     \* bound: writes to the volume
    EnvBudget   \* bound: what others do to the directories, and kills

VARIABLES
    appAt,      \* the directory at <appdata>/<name>
    ent,        \* what is at each name of each such directory
    node,       \* what is in each stage and each foreign directory
    copy,       \* what each run's copy holds
    src, up,    \* the volume, in two parts; is the container running
    op,         \* where each run is
    hist,       \* what happened: states of the volume, runs cut short or warned
    budget

files == <<appAt, ent, node, copy>>
others == <<src, up, budget>>
vars == <<files, others, op, hist>>

-----------------------------------------------------------------------------
None == "none"
Apps == {"a", "b"}
Parts == {1, 2}
Unread == [i \in Parts |-> 0]

(* stage_name depends on the run's nonce; the suffix is the same for all.   *)
Dest == "dest"
Elsewhere == "x"
Names == {Dest, Elsewhere} \cup Runs
Stage(r) == <<"stage", r>>
Data(r) == <<"data", r>>
Nothing == <<"nothing", None>>
Stages == {Stage(r) : r \in Runs}
Objects == Stages \cup {Data(r) : r \in Runs} \cup Foreign

(* The names and the directories are what they are called.                  *)
ASSUME ConstantsAssumption ==
    /\ Writes \in Nat /\ EnvBudget \in Nat
    /\ Runs \cap {None, Dest, Elsewhere, "theirs"} = {}
    /\ Foreign \cap (Stages \cup {Data(r) : r \in Runs} \cup {Nothing}) = {}

EmptyDir == [token |-> None, data |-> None]
Theirs == [token |-> None, data |-> "theirs"]

Idle == [pc |-> "idle", app |-> None, st |-> Nothing, base |-> Unread]

(* What an operation of a run knows is forgotten when it ends.              *)
Ends(r, pc) == op' = [op EXCEPT ![r] = [Idle EXCEPT !.pc = pc]]
At(r, pc) == op[r].pc = pc
Goes(r, pc) == op' = [op EXCEPT ![r].pc = pc]

-----------------------------------------------------------------------------
(* safefs.rs and the stages built on it.                                    *)

(* create_child: the directory opened is the one just made.                 *)
FreshUnchecked(o) == o \in Stages \cup Foreign
Fresh(o) == o \in Stages /\ node[o] = EmptyDir

(* open_stage: root's own directory, holding this run's token.              *)
IsStageUnchecked(o, r) == o \in Stages
IsStage(o, r) == o \in Stages /\ node[o].token = r

(* discard_stage: what the held stage holds goes, then its name if that is  *)
(* an empty directory by now.                                               *)
NameEmptied(app, r, st) ==
    LET o == ent[app][r] IN o \in Stages /\ (o = st \/ node[o] = EmptyDir)
Discard(app, r, st) ==
    /\ node' = [node EXCEPT ![st] = EmptyDir]
    /\ copy' = [q \in Runs |-> IF node[st].data = q THEN Unread ELSE copy[q]]
    /\ ent' = IF NameEmptied(app, r, st) THEN [ent EXCEPT ![app][r] = Nothing] ELSE ent
    /\ UNCHANGED appAt

(* A failure, and whether the error says that something was left behind.    *)
Fails(r, warned) ==
    /\ Ends(r, "failed")
    /\ hist' = IF warned THEN [hist EXCEPT !.warned = @ \cup {r}] ELSE hist

-----------------------------------------------------------------------------
(* CopyVolume, refused also when somebody else mounts the volume or the     *)
(* destination.                                                             *)

BeginCopy(r) ==
    /\ At(r, "idle")
    /\ \/ Fails(r, FALSE)
       \/ /\ ~up /\ ent[appAt][Dest] = Nothing
          /\ op' = [op EXCEPT ![r].pc = "mkdir", ![r].app = appAt] /\ UNCHANGED hist
    /\ UNCHANGED <<files, others>>

(* create_stage makes the directory, opens it by its name, and marks it.    *)
MakeStage(r) ==
    /\ At(r, "mkdir")
    /\ IF ent[op[r].app][r] # Nothing THEN Fails(r, FALSE) /\ UNCHANGED files
       ELSE /\ ent' = [ent EXCEPT ![op[r].app][r] = Stage(r)]
            /\ Goes(r, "open") /\ UNCHANGED <<appAt, node, copy, hist>>
    /\ UNCHANGED others

OpenNew(r) ==
    /\ At(r, "open")
    /\ LET o == ent[op[r].app][r]
       IN IF Fresh(o)
          THEN op' = [op EXCEPT ![r].pc = "mark", ![r].st = o] /\ UNCHANGED hist
          ELSE Fails(r, FALSE)
    /\ UNCHANGED <<files, others>>

MarkStage(r) ==
    LET o == ent[op[r].app][r] IN
    /\ At(r, "mark")
    /\ IF node[op[r].st].token = None
       THEN /\ node' = [node EXCEPT ![op[r].st].token = r]
            /\ Goes(r, "manifest") /\ UNCHANGED <<appAt, ent, copy, hist>>
       ELSE /\ ent' = IF o \in Stages /\ node[o] = EmptyDir
                      THEN [ent EXCEPT ![op[r].app][r] = Nothing] ELSE ent
            /\ Fails(r, FALSE) /\ UNCHANGED <<appAt, node, copy>>
    /\ UNCHANGED others

(* stage_copy reads the source for its manifest, copies it, and compares    *)
(* the copy with the manifest; neither reading is instantaneous.            *)
ReadManifest(r, i) ==
    /\ At(r, "manifest") /\ op[r].base[i] = 0 /\ \A j \in Parts : j < i => op[r].base[j] # 0
    /\ op' = [op EXCEPT ![r].base[i] = src[i], ![r].pc = IF i = 2 THEN "cp" ELSE @]
    /\ UNCHANGED <<files, others, hist>>

CopyPart(r, i) ==
    /\ At(r, "cp") /\ copy[r][i] = 0 /\ \A j \in Parts : j < i => copy[r][j] # 0
    /\ copy' = [copy EXCEPT ![r][i] = src[i]]
    /\ node' = [node EXCEPT ![op[r].st].data = r]
    /\ op' = [op EXCEPT ![r].pc = IF i = 2 THEN "verify" ELSE @]
    /\ UNCHANGED <<appAt, ent, others, hist>>

MatchesUnchecked(r) == TRUE
Matches(r) == copy[r] = op[r].base

(* The stage is removed again; the error says so when that fails.           *)
Discards(r) ==
    /\ Discard(op[r].app, r, op[r].st)
    /\ Fails(r, ~NameEmptied(op[r].app, r, op[r].st))

Compare(r) ==
    /\ At(r, "verify")
    /\ \/ Matches(r) /\ Goes(r, "recheck") /\ UNCHANGED <<files, hist>>
       \/ ~Matches(r) /\ Discards(r)
    /\ UNCHANGED others

(* A tree that root does not copy, or that exceeds the manifest's limits.   *)
Uncopyable(r) ==
    /\ op[r].pc \in {"manifest", "cp"} /\ Discards(r)
    /\ UNCHANGED others

(* A container that started meanwhile has its copy removed, by path.        *)
Recheck(r) ==
    LET o == ent[appAt][r] IN
    /\ At(r, "recheck")
    /\ IF ~up THEN Ends(r, "copied") /\ UNCHANGED <<files, hist>>
       ELSE IF IsStage(o, r)
       THEN Discard(appAt, r, o) /\ Fails(r, FALSE)
       ELSE UNCHANGED files /\ Fails(r, TRUE)
    /\ UNCHANGED others

-----------------------------------------------------------------------------
(* ExposeCopy, and RemoveCopy when a later step fails.  Each call of an     *)
(* exposure may fail, and then nothing is taken back.                       *)

Expose(r) ==
    LET o == ent[appAt][r] IN
    /\ At(r, "copied")
    /\ \/ /\ IsStage(o, r) /\ node[o].data # None /\ ent[appAt][Dest] = Nothing
          /\ ent' = [ent EXCEPT ![appAt][Dest] = Data(node[o].data)]
          /\ node' = [node EXCEPT ![o].data = None]
          /\ op' = [op EXCEPT ![r].pc = "moved", ![r].app = appAt, ![r].st = o]
          /\ UNCHANGED <<appAt, copy>>
       \/ Ends(r, "unexposed") /\ UNCHANGED files
    /\ UNCHANGED <<others, hist>>

(* Run r is cut short: what it did stays.                                   *)
CutShort(r, pc) == Ends(r, pc) /\ hist' = [hist EXCEPT !.cut = @ \cup {r}] /\ UNCHANGED files

(* A token that cannot be removed stays in the stage, and the copy where it *)
(* was exposed.                                                             *)
Unmark(r) ==
    /\ At(r, "moved")
    /\ \/ /\ node' = [node EXCEPT ![op[r].st].token = None]
          /\ Goes(r, "unmarked") /\ UNCHANGED <<appAt, ent, copy, hist>>
       \/ CutShort(r, "unexposed")
    /\ UNCHANGED others

RemoveStage(r) ==
    /\ At(r, "unmarked")
    /\ \/ /\ NameEmptied(op[r].app, r, Nothing)
          /\ ent' = [ent EXCEPT ![op[r].app][r] = Nothing] /\ Ends(r, "exposed")
       \/ Ends(r, "unexposed") /\ UNCHANGED ent
    /\ UNCHANGED <<appAt, node, copy, others, hist>>

RemoveCopy(r) ==
    LET o == ent[appAt][r] IN
    /\ op[r].pc \in {"copied", "unexposed"}
    /\ IF IsStage(o, r)
       THEN Discard(appAt, r, o) /\ Ends(r, "removed")
       ELSE UNCHANGED files /\ Ends(r, "kept")
    /\ UNCHANGED <<others, hist>>

-----------------------------------------------------------------------------
(* The root process is killed: what a copy did stays, and an exposure is    *)
(* reported as failed.                                                      *)
Kill(r) ==
    /\ budget > 0 /\ budget' = budget - 1
    /\ \/ op[r].pc \in {"mkdir", "open", "mark", "manifest", "cp", "verify", "recheck"}
          /\ CutShort(r, "failed")
       \/ op[r].pc \in {"moved", "unmarked"} /\ CutShort(r, "unexposed")
    /\ UNCHANGED <<src, up>>

(* Everybody else renames what is in <appdata>, and puts things there.      *)
Spend == budget > 0 /\ budget' = budget - 1

Rename(d, n, m) ==
    /\ Spend /\ ent[d][n] # Nothing /\ ent[d][m] = Nothing
    /\ ent' = [ent EXCEPT ![d][m] = ent[d][n], ![d][n] = Nothing]
    /\ UNCHANGED <<appAt, node, copy, src, up, op, hist>>

Places(o) == {dn \in Apps \X Names : ent[dn[1]][dn[2]] = o}

Plant(f, d, n) ==
    /\ Spend /\ Places(f) = {} /\ ent[d][n] = Nothing
    /\ ent' = [ent EXCEPT ![d][n] = f]
    /\ UNCHANGED <<appAt, node, copy, src, up, op, hist>>

SwapApp ==
    /\ Spend /\ appAt' \in Apps \ {appAt}
    /\ UNCHANGED <<ent, node, copy, src, up, op, hist>>

StartContainer ==
    /\ Spend /\ ~up /\ up' = TRUE
    /\ UNCHANGED <<files, src, op, hist>>

(* Writes to the volume; only those while it is read can be seen here.      *)
Write(i) ==
    /\ \E r \in Runs : op[r].pc \in {"manifest", "cp"}
    /\ src[1] + src[2] < Writes + 2
    /\ src' = [src EXCEPT ![i] = @ + 1]
    /\ hist' = [hist EXCEPT !.snaps = @ \cup {src'}]
    /\ UNCHANGED <<files, up, budget, op>>

-----------------------------------------------------------------------------
Init ==
    /\ appAt = "a" /\ ent = [d \in Apps |-> [n \in Names |-> Nothing]]
    /\ node = [o \in Stages \cup Foreign |-> IF o \in Stages THEN EmptyDir ELSE Theirs]
    /\ copy = [r \in Runs |-> Unread]
    /\ src = [i \in Parts |-> 1] /\ up = FALSE
    /\ op = [r \in Runs |-> Idle] /\ budget = EnvBudget
    /\ hist = [snaps |-> {src}, cut |-> {}, warned |-> {}]

RunStep(r) ==
    \/ BeginCopy(r) \/ MakeStage(r) \/ OpenNew(r) \/ MarkStage(r)
    \/ \E i \in Parts : ReadManifest(r, i) \/ CopyPart(r, i)
    \/ Compare(r) \/ Uncopyable(r) \/ Recheck(r) \/ Expose(r) \/ Unmark(r) \/ RemoveStage(r) \/ RemoveCopy(r)

Next ==
    \/ \E r \in Runs : RunStep(r) \/ Kill(r)
    \/ \E n, m \in Names : Rename(appAt, n, m)
    \/ \E f \in Foreign, n \in Names : Plant(f, appAt, n)
    \/ SwapApp \/ StartContainer
    \/ \E i \in Parts : Write(i)

Spec == Init /\ [][Next]_vars

-----------------------------------------------------------------------------
TypeOK ==
    /\ appAt \in Apps /\ ent \in [Apps -> [Names -> Objects \cup {Nothing}]]
    /\ \A o \in Objects : Cardinality(Places(o)) <= 1
    /\ budget \in 0 .. EnvBudget /\ up \in BOOLEAN
    /\ hist.cut \cup hist.warned \subseteq Runs

(* A copy that is where the template mounts it is what the whole volume was *)
(* at one moment, whatever was written or renamed while it was made: part   *)
(* of a copy, or a mixture of two states, never gets there.                 *)
ExposedIsSnapshot == \A r \in Runs : Places(Data(r)) # {} => copy[r] \in hist.snaps

(* No step of a run touches what somebody else put into the directories,    *)
(* nor another run's copy, wherever they were moved.                        *)
Kept(o) == IF o \in Foreign THEN <<node[o], Places(o)>>
           ELSE <<Places(o), {s \in Stages : node[s].data = o[2]}>>
SparesOthers ==
    [][\A r \in Runs : op'[r].pc # op[r].pc =>
         \A o \in Foreign \cup {Data(q) : q \in Runs \ {r}} : Kept(o)' = Kept(o)]_vars

(* A copy that failed and does not say otherwise, or that the rollback      *)
(* reports removed, is nowhere, unless the run was cut short: the root      *)
(* process was killed, or a token stayed that an exposure was to remove.    *)
Gone(r) == Places(Data(r)) = {} /\ \A s \in Stages : node[s].data # r
ReportedGone ==
    \A r \in Runs \ (hist.cut \cup hist.warned) :
        op[r].pc \in {"failed", "removed"} => Gone(r)

(* A copy is whole or it is gone: ExposedIsSnapshot and ReportedGone.       *)
WholeOrGone == TypeOK /\ ExposedIsSnapshot /\ ReportedGone

=============================================================================

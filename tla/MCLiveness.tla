----------------------------- MODULE MCLiveness -----------------------------
(* TLC instance for what must happen: in a behaviour either a run of        *)
(* AdoptTxn or the calls of ContainerVerbs are at work; the two share       *)
(* nothing.                                                                 *)
EXTENDS AdoptTxn

CONSTANTS v1, i1, i2, c1, c2
CONSTANTS Ids, Calls, Ordered, Verbs, Protected, Own, Image, Waits, UiActs, UiBudget

VARIABLES side, power, list, lock, call, wire, vbudget, vhist

Verb == INSTANCE ContainerVerbs WITH budget <- vbudget, hist <- vhist

OneVol == {v1}
TwoIds == {i1, i2}
TwoCalls == {c1, c2}
First == {i1}
FirstCall == {c1}
OneImage == [x \in Ids |-> "image"]

verbVars == <<power, list, lock, call, wire, vbudget, vhist>>
mcvars == <<vars, verbVars, side>>

NoVerbs ==
    /\ power = [x \in Ids |-> "exited"] /\ list = <<>> /\ lock = {}
    /\ call = [c \in Calls |-> Verb!NoCall] /\ wire = [c \in Calls |-> {}]
    /\ vbudget = 0 /\ vhist = {}
NoRun ==
    /\ ctr = [gen |-> "none", up |-> FALSE, times |-> 0, at |-> [v \in Vols |-> "src"]]
    /\ autostart = FALSE /\ tmpl = "none" /\ bak = "absent"
    /\ src = AllAbsent /\ dst = AllAbsent /\ stage = AllAbsent
    /\ birth = [v \in Vols |-> 0] /\ foreign = {} /\ other = {} /\ budget = 0
    /\ phase = "idle" /\ cur \in Vols /\ todo = {} /\ plan = NoPlan
    /\ run = FreshRun(Absent) /\ hist = [touched |-> FALSE, failed |-> {}]

MCInit == \/ side = "run" /\ Init /\ NoVerbs
          \/ side = "verbs" /\ NoRun /\ Verb!Init
MCNext ==
    /\ UNCHANGED side
    /\ \/ side = "run" /\ Next /\ UNCHANGED verbVars
       \/ side = "verbs" /\ Verb!Next /\ UNCHANGED vars

(* The fairness of AdoptTxn's and of ContainerVerbs' FairSpec.              *)
RunSteps == side = "run" /\ (Apply \/ RollBack) /\ UNCHANGED <<verbVars, side>>
VerbSteps(A) == side = "verbs" /\ A /\ UNCHANGED <<vars, side>>
MCFairSpec ==
    /\ MCInit /\ [][MCNext]_mcvars
    /\ WF_mcvars(RunSteps)
    /\ \A c \in Calls : /\ WF_mcvars(VerbSteps(Verb!TakeLock(c)))
                        /\ WF_mcvars(VerbSteps(Verb!TimesOut(c)))
                        /\ WF_mcvars(VerbSteps(Verb!Send(c)))

SectionEnds == Verb!SectionEnds
=============================================================================

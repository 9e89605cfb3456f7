----------------------------- MODULE MCRootSide -----------------------------
(* TLC instance of StagedCopies and of Leftovers, which share nothing: in a *)
(* behaviour one of the two is at work, two runs for one container in the   *)
(* one and two containers of a project in the other.                        *)
EXTENDS StagedCopies, TLC

CONSTANTS r1, r2, c1, c2, Ctrs

VARIABLES side, ctr, net, stack, retired, site, lop, lbudget

Left == INSTANCE Leftovers WITH op <- lop, budget <- lbudget

TwoRuns == {r1, r2}
OneForeign == {<<"foreign", "f">>}
TwoCtrs == {c1, c2}
Symmetry == Permutations(TwoRuns) \cup Permutations(TwoCtrs)

leftVars == <<ctr, net, stack, retired, site, lop, lbudget>>
mcvars == <<vars, leftVars, side>>

NoLeftovers ==
    /\ ctr = [o \in Ctrs |-> Left!NoCtr] /\ net = FALSE /\ stack = Left!NoStack
    /\ retired = [o \in Ctrs |-> 0] /\ site = [byDir |-> FALSE, owned |-> FALSE, link |-> FALSE]
    /\ lop = [o \in Ctrs |-> Left!Idle] /\ lbudget = 0

MCInit ==
    /\ Init
    /\ \/ side = "copies" /\ NoLeftovers
       \/ side = "leftovers" /\ Left!Init

MCNext ==
    /\ UNCHANGED side
    /\ \/ side = "copies" /\ Next /\ UNCHANGED leftVars
       \/ side = "leftovers" /\ Left!Next /\ UNCHANGED vars

MCSpec == MCInit /\ [][MCNext]_mcvars

LeftoversUnused == [][\A r \in Ctrs : Left!Unused(r)]_leftVars
RetireAgrees == Left!RetireAgrees
=============================================================================

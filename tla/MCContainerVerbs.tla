-------------------------- MODULE MCContainerVerbs --------------------------
(* TLC instances of ContainerVerbs: two containers, the first one protected,*)
(* two calls side by side, the order reported to the readings of the first. *)
EXTENDS ContainerVerbs

CONSTANTS i1, i2, c1, c2

TwoIds == {i1, i2}
TwoCalls == {c1, c2}
First == {i1}
OneImage == [x \in Ids |-> "image"]
FirstCall == {c1}

(* The protected container is there from the start; the other one runs or   *)
(* is created later.                                                        *)
MCInit == Init /\ power[i1] # "unborn" /\ power[i2] # "exited"
MCSpec == MCInit /\ [][Next]_vars
=============================================================================

---------------------------- MODULE MCAdoptTxn ----------------------------
(* TLC instances of AdoptTxn: one or two volumes, a small budget for the    *)
(* other actors of the host.                                                *)
EXTENDS AdoptTxn

CONSTANTS v1, v2

OneVol == {v1}
TwoVols == {v1, v2}
=============================================================================

---------------------------- MODULE MCShareWrites ----------------------------
(* TLC instances of ShareWrites: one or two shares, two calls.              *)
EXTENDS ShareWrites, TLC

CONSTANTS s1, s2, c1, c2

OneShare == {s1}
TwoShares == {s1, s2}
OneCall == {c1}
TwoCalls == {c1, c2}
CallSymmetry == Permutations(TwoCalls)

AtFirst == [cache |-> "no", pool |-> "no", sec |-> "public", hosts |-> "old", export |-> FALSE]
=============================================================================

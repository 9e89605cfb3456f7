----------------------------- MODULE MCNfsFsids -----------------------------
(* TLC instances of NfsFsids: three shares with colliding hashes that wrap  *)
(* at the end of four fsids, two secrets.                                   *)
EXTENDS NfsFsids, TLC

CONSTANTS a, b, c, c1, c2, k1, k2

ThreeShares == {a, b, c}
ByName == (a :> 1) @@ (b :> 2) @@ (c :> 3)
TwoKeys == {k1, k2}
Collide == (k1 :> ((a :> 2) @@ (b :> 2) @@ (c :> 3))) @@ (k2 :> ((a :> 0) @@ (b :> 3) @@ (c :> 0)))
TwoCalls == {c1, c2}
CallSymmetry == Permutations(TwoCalls)
=============================================================================

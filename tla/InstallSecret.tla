---------------------------- MODULE InstallSecret ----------------------------
(***************************************************************************)
(* What install_secret promises the calls of unraid.nfs.fsids: the process *)
(* agrees on one secret and gives it to every call; "the cached value      *)
(* lives for the process", and a rotated secret "takes effect on plugin    *)
(* restart".  Nothing is said of how: no mutex, no cache, no reading and   *)
(* writing of a store in several steps.                                    *)
(***************************************************************************)
CONSTANTS
    Keys,       \* the secrets' server keys
    Calls       \* the calls that ask for it

VARIABLES
    stored,     \* the secret that outlives the process, if there is one
    agreed,     \* the secret of the process, once it has one
    given,      \* what each call was given, while it works with it
    rotated     \* has somebody replaced the stored secret

vars == <<stored, agreed, given, rotated>>

None == {}
Secrets == {None} \cup {{k} : k \in Keys}

Init ==
    /\ stored \in Secrets /\ agreed = None
    /\ given = [c \in Calls |-> None] /\ rotated = FALSE

(* A secret is made only while the process has none, and takes nobody's     *)
(* place unless somebody else writes secrets too.                           *)
Mint(k) ==
    /\ agreed = None /\ (stored = None \/ rotated)
    /\ stored' = {k}
    /\ UNCHANGED <<agreed, given, rotated>>

(* The stored secret becomes that of the process as the first call gets it. *)
Agree(c) ==
    /\ agreed = None /\ stored # None /\ given[c] = None
    /\ agreed' = stored /\ given' = [given EXCEPT ![c] = stored]
    /\ UNCHANGED <<stored, rotated>>

Give(c) ==
    /\ agreed # None /\ given[c] = None
    /\ given' = [given EXCEPT ![c] = agreed]
    /\ UNCHANGED <<stored, agreed, rotated>>

(* A call fails after it got the secret.                                    *)
Drop(c) ==
    /\ given' = [given EXCEPT ![c] = None]
    /\ UNCHANGED <<stored, agreed, rotated>>

Restart ==
    /\ agreed' = None
    /\ \E kept \in SUBSET Calls :
         given' = [c \in Calls |-> IF c \in kept THEN given[c] ELSE None]
    /\ UNCHANGED <<stored, rotated>>

Rotate ==
    /\ stored' \in Secrets /\ rotated' = TRUE
    /\ UNCHANGED <<agreed, given>>

Next ==
    \/ \E k \in Keys : Mint(k)
    \/ \E c \in Calls : Agree(c) \/ Give(c) \/ Drop(c)
    \/ Restart \/ Rotate

Spec == Init /\ [][Next]_vars

=============================================================================

--------------------------- MODULE ContainerVerbs ---------------------------
(***************************************************************************)
(* The container verbs of the unit provider on one Unraid endpoint: start, *)
(* stop, pause, unpause, restart, autostart and remove, sent to Unraid's   *)
(* GraphQL API by calls that run side by side, while users of the web UI   *)
(* act on the same host.                                                   *)
(*                                                                         *)
(* Every verb plans from one reading of the containers and then sends its  *)
(* requests one by one; a request is on the wire until it lands or is      *)
(* lost, and its call may have given up by then.  An autostart update      *)
(* rewrites the whole list, so it runs in a section that takes the         *)
(* endpoint's lock, compares a fresh reading with the one it planned from, *)
(* writes and reads back, all under one timeout.                           *)
(***************************************************************************)
EXTENDS Naturals, Sequences, FiniteSets, SequencesExt

CONSTANTS
    Ids,        \* containers that exist now or may be created
    Calls,      \* the verbs' calls; each runs once
    Ordered,    \* the calls to whose readings Unraid gives the autoStartOrder
    Verbs,      \* the actions they may ask for
    Protected,  \* containers of the protected list
    Own,        \* orca's own container
    Image,      \* the image a container was created from
    Waits,      \* autostart waits
    UiActs,     \* what users of the web UI may do
    UiBudget    \* bound: how often

NoWait == "none"

ASSUME ConstantsAssumption ==
    /\ Verbs \subseteq {"start", "stop", "pause", "unpause", "restart", "autostart", "remove"}
    /\ IsFiniteSet(Ids) /\ Protected \subseteq Ids /\ Own \subseteq Ids
    /\ Ordered \subseteq Calls
    /\ NoWait \notin Waits /\ "ui" \notin Calls
    /\ UiBudget \in Nat

VARIABLES
    power,   \* "running", "paused", "exited"; "unborn" before, "gone" after
    list,    \* the autostart list, in start order: [id, wait]
    lock,    \* the call holding the endpoint's autostart lock, if any
    call,    \* what each call asked for, planned and is waiting for
    wire,    \* requests that have neither landed nor been lost
    budget,  \* what the web UI's users may still do
    hist     \* observations of the past that no step reads

vars == <<power, list, lock, call, wire, budget, hist>>

Ended == {"applied", "others", "notapplied", "done", "failed", "timedout", "refused"}
ForceActions == {"stop", "pause", "restart", "remove"}

Sent(c, op) == \E m \in wire[c] : m.op = op
exists == {x \in Ids : power[x] \notin {"unborn", "gone"}}

Listed(l) == {e.id : e \in ToSet(l)}
Entry(l, x) == CHOOSE e \in ToSet(l) : e.id = x
Rank(l, x) == CHOOSE i \in DOMAIN l : l[i].id = x

(* The entries of l for containers of X, in their order; those but x's.     *)
Among(l, X) ==
    LET upTo[n \in 0 .. Len(l)] ==
            IF n = 0 THEN <<>>
            ELSE IF l[n].id \in X THEN Append(upTo[n - 1], l[n]) ELSE upTo[n - 1]
    IN upTo[Len(l)]
Without(l, x) == Among(l, Ids \ {x})
Others(l, x) == {e \in ToSet(l) : e.id # x}

-----------------------------------------------------------------------------
(* Planning. *)

(* autostart_entries: every container's entry as it is, the target's as    *)
(* asked; a container not listed so far sorts behind the listed ones.       *)
Entries(l, x, on, wait) ==
    IF ~on THEN Without(l, x)
    ELSE IF x \in Listed(l)
         THEN [i \in DOMAIN l |-> IF l[i].id = x /\ wait # NoWait
                                  THEN [id |-> x, wait |-> wait] ELSE l[i]]
         ELSE Append(l, [id |-> x, wait |-> wait])

(* The entries are sent in the order of the list; without autoStartOrder in *)
(* that of the listing, which may be any.                                   *)
Orders(l) == {[i \in DOMAIN l |-> l[p[i]]] : p \in Bijection(DOMAIN l, DOMAIN l)}
InSomeOrder(c, l) == IF c \in Ordered THEN {l} ELSE Orders(l)

(* What a protected container needs force for: autostart only to turn it    *)
(* off.                                                                     *)
NeedsForce(verb, x, on) ==
    /\ x \in Protected
    /\ verb \in ForceActions \/ (verb = "autostart" /\ x \in Listed(list) /\ ~on)

(* remove also refuses a container that is not stopped.                     *)
GuardsUnstopped(verb, x, on) == NeedsForce(verb, x, on)
Guards(verb, x, on) == NeedsForce(verb, x, on) \/ (verb = "remove" /\ power[x] # "exited")

Sharers(x) == {y \in exists \ {x} : Image[y] = Image[x]}

RequestsSwapped(verb, x) == IF verb = "restart" THEN <<"start", "stop">> ELSE <<verb>>
Requests(verb, x) ==
    CASE verb = "restart" -> <<"stop", "start">>
      [] verb = "remove" -> IF power[x] = "exited" THEN <<"remove">> ELSE <<"stop", "remove">>
      [] OTHER -> <<verb>>

NoCall == [pc |-> "idle", verb |-> "none", id |-> "none", force |-> FALSE, on |-> FALSE,
           image |-> FALSE, ids |-> {}, seen |-> <<>>, entries |-> <<>>, todo |-> <<>>]

(* update_with up to its first request: one reading of the containers, from *)
(* which the target, the guards and the plan are computed.                  *)
Begin(c) ==
    /\ call[c].pc = "idle"
    /\ \E verb \in Verbs, x \in exists, force, on, image \in BOOLEAN, wait \in Waits \cup {NoWait} :
         /\ verb # "autostart" => ~on /\ wait = NoWait
         /\ verb # "remove" => ~image
         /\ force => x \in Protected \/ verb = "remove"
         /\ LET refused == \/ x \in Own
                           \/ Guards(verb, x, on) /\ ~force
                           \/ image /\ Sharers(x) # {}
                Planned == verb = "autostart" /\ ~refused
            IN \E entries \in InSomeOrder(c, IF Planned THEN Entries(list, x, on, wait) ELSE <<>>) :
               call' = [call EXCEPT ![c] =
                 [pc |-> IF refused THEN "refused" ELSE IF verb = "autostart" THEN "lock" ELSE "next",
                  verb |-> verb, id |-> x, force |-> force, on |-> on, image |-> image,
                  ids |-> IF Planned THEN exists ELSE {}, seen |-> IF Planned THEN list ELSE <<>>,
                  entries |-> entries, todo |-> IF Planned THEN <<>> ELSE Requests(verb, x)]]
    /\ UNCHANGED <<power, list, lock, wire, budget>>
    /\ hist' = [hist EXCEPT !.woken[c] = {}, !.made[c] = {}]

-----------------------------------------------------------------------------
(* The autostart section. *)

Release(c) == lock' = lock \ {c}
At(c, pc) == call' = [call EXCEPT ![c].pc = pc]
End(c, pc) == call' = [call EXCEPT ![c].pc = pc, ![c].ids = {}, ![c].seen = <<>>,
                                   ![c].entries = <<>>, ![c].todo = <<>>]

LockFreeIgnored == TRUE
LockFree == lock = {}

TakeLock(c) ==
    /\ call[c].pc = "lock" /\ LockFree
    /\ lock' = lock \cup {c}
    /\ At(c, "check")
    /\ UNCHANGED <<power, list, wire, budget, hist>>

(* The fresh reading must be the one the entries were planned from: the     *)
(* same rows, which tell the order if they hold it.                         *)
PlannedFromUnchecked(c) == TRUE
PlannedFrom(c) ==
    /\ call[c].ids = exists /\ ToSet(call[c].seen) = ToSet(list)
    /\ c \in Ordered => call[c].seen = list

CheckFresh(c) ==
    /\ call[c].pc = "check"
    /\ IF PlannedFrom(c)
       THEN /\ At(c, "sent")
            /\ wire' = [wire EXCEPT ![c] = {[op |-> "autostart", entries |-> call[c].entries]}]
            /\ UNCHANGED lock
       ELSE End(c, "failed") /\ Release(c) /\ UNCHANGED wire
    /\ UNCHANGED <<power, list, budget, hist>>

(* verify_autostart: did each entry land as sent?  Its rank is compared if  *)
(* the reading holds one.  A wait that was not sent is not compared; of a   *)
(* container that is not listed Unraid is taken to go on reporting the wait *)
(* that was sent.                                                           *)
LandedUnranked(c, x) ==
    /\ x \in exists
    /\ x \in Listed(call[c].entries) <=> x \in Listed(list)
LandedAsSent(c, x) ==
    LET sent == call[c].entries
    IN /\ x \in exists
       /\ x \in Listed(sent) <=> x \in Listed(list)
       /\ x \in Listed(sent) => /\ c \in Ordered => Rank(sent, x) = Rank(list, x)
                                /\ \/ Entry(sent, x).wait = NoWait
                                   \/ Entry(sent, x) = Entry(list, x)

Verdict(c) ==
    IF ~LandedAsSent(c, call[c].id) THEN "notapplied"
    ELSE IF (\A x \in call[c].ids : LandedAsSent(c, x)) /\ exists \subseteq call[c].ids
         THEN "applied" ELSE "others"

ReadBack(c) ==
    /\ call[c].pc = "read"
    /\ End(c, Verdict(c)) /\ Release(c)
    /\ hist' = [hist EXCEPT !.last[call[c].id] =
                    IF Verdict(c) = "notapplied" THEN @ ELSE {call[c].on},
                            !.landed[c] = <<>>]
    /\ UNCHANGED <<power, list, wire, budget>>

(* A request of the section failed: the section ends, and the lock with it. *)
SectionFails(c) ==
    /\ call[c].pc \in {"check", "sent", "read"}
    /\ End(c, "failed") /\ Release(c)
    /\ hist' = [hist EXCEPT !.landed[c] = <<>>]
    /\ UNCHANGED <<power, list, wire, budget>>

(* The timeout covers the whole section, the wait for the lock included; a  *)
(* request it abandons stays on the wire.                                   *)
TimedWaiting == {"lock"}
Timed == {"lock", "check", "sent", "read"}

TimesOut(c) ==
    /\ call[c].pc \in Timed
    /\ End(c, "timedout") /\ Release(c)
    /\ hist' = [hist EXCEPT !.landed[c] = <<>>]
    /\ UNCHANGED <<power, list, wire, budget>>

-----------------------------------------------------------------------------
(* The other verbs: one request after the other, each answered or failed.   *)

Send(c) ==
    /\ call[c].pc = "next"
    /\ IF call[c].todo = <<>>
       THEN End(c, "done") /\ UNCHANGED wire
       ELSE /\ wire' = [wire EXCEPT ![c] = {[op |-> Head(call[c].todo), entries |-> <<>>]}]
            /\ call' = [call EXCEPT ![c].pc = "waiting", ![c].todo = Tail(@)]
    /\ UNCHANGED <<power, list, lock, budget, hist>>

RequestFails(c) ==
    /\ call[c].pc = "waiting"
    /\ End(c, "failed")
    /\ UNCHANGED <<power, list, lock, wire, budget, hist>>

-----------------------------------------------------------------------------
(* Unraid: a request lands at any time after it was sent, whether its call  *)
(* still waits for it or not, or it is lost.                                *)

Applicable(op, x) ==
    /\ x \in exists
    /\ op = "start" => power[x] # "paused"
    /\ op = "pause" => power[x] = "running"
    /\ op = "unpause" => power[x] = "paused"

After == [start |-> "running", stop |-> "exited", pause |-> "paused",
          unpause |-> "running", remove |-> "gone"]

(* Who learns of it: calls in flight on the same container, and the record  *)
(* of what autostart calls reported.                                        *)
Up == {"running", "paused"}
UnderWay(d) == call[d].pc \in {"next", "waiting"} \/ (wire[d] # {} /\ ~Sent(d, "autostart"))
Woken(x) == [d \in Calls |-> IF power'[x] \in Up /\ power[x] \notin Up /\ UnderWay(d)
                             THEN hist.woken[d] \cup {x} ELSE hist.woken[d]]
Acted(x, c) == [d \in Calls |-> IF d # c /\ call[d].id = x /\ UnderWay(d) THEN TRUE ELSE hist.acted[d]]
Overtaken(c) == IF list' = list THEN hist.stale
                ELSE hist.stale \cup {d \in Calls \ {c} : wire[d] # {}}

LandsVerb(c, op) ==
    LET x == call[c].id
    IN /\ Sent(c, op) /\ Applicable(op, x)
       /\ power' = [power EXCEPT ![x] = After[op]]
       /\ list' = IF op = "remove" THEN Without(list, x) ELSE list
       /\ wire' = [wire EXCEPT ![c] = {}]
       /\ call' = IF call[c].pc = "waiting" THEN [call EXCEPT ![c].pc = "next"] ELSE call
       /\ hist' = [hist EXCEPT !.woken = Woken(x), !.acted = Acted(x, c), !.stale = Overtaken(c)]
       /\ UNCHANGED <<lock, budget>>

(* The new list replaces the old one; ids that are gone are dropped.        *)
LandsAutostart(c) ==
    /\ Sent(c, "autostart")
    /\ \E m \in wire[c] : list' = Among(m.entries, exists)
    /\ wire' = [wire EXCEPT ![c] = {}]
    /\ call' = IF call[c].pc = "sent" THEN [call EXCEPT ![c].pc = "read"] ELSE call
    /\ hist' = [hist EXCEPT !.stale = Overtaken(c), !.late = @ \/ call[c].pc # "sent",
                            !.landed[c] = IF call[c].pc = "sent" THEN list' ELSE <<>>,
                            !.last[call[c].id] = {}]
    /\ UNCHANGED <<power, lock, budget>>

Lost(c) ==
    /\ wire[c] # {}
    /\ wire' = [wire EXCEPT ![c] = {}]
    /\ UNCHANGED <<power, list, lock, call, budget, hist>>

-----------------------------------------------------------------------------
(* Users of the web UI. *)

Acts(kind) == kind \in UiActs /\ budget > 0 /\ budget' = budget - 1

UiList(x) ==
    /\ Acts("list") /\ x \in exists
    /\ \E on \in BOOLEAN, wait \in Waits : list' = Entries(list, x, on, wait)
    /\ list' # list
    /\ hist' = [hist EXCEPT !.last[x] = {}, !.stale = Overtaken("ui")]
    /\ UNCHANGED <<power, lock, call, wire>>

UiOrder ==
    /\ Acts("order")
    /\ list' \in Orders(list) \ {list}
    /\ hist' = [hist EXCEPT !.stale = Overtaken("ui")]
    /\ UNCHANGED <<power, lock, call, wire>>

UiPower(x) ==
    /\ Acts("power") /\ x \in exists
    /\ \E p \in {"running", "exited"} \ {power[x]} : power' = [power EXCEPT ![x] = p]
    /\ hist' = [hist EXCEPT !.woken = Woken(x), !.acted = Acted(x, "ui")]
    /\ UNCHANGED <<list, lock, call, wire>>

UiCreate(x) ==
    /\ Acts("create") /\ power[x] = "unborn"
    /\ power' = [power EXCEPT ![x] = "running"]
    /\ list' \in {list, Append(list, [id |-> x, wait |-> NoWait])}
    /\ hist' = [hist EXCEPT !.woken = Woken(x), !.stale = Overtaken("ui"),
                            !.made = [d \in Calls |-> IF UnderWay(d) THEN hist.made[d] \cup {x} ELSE hist.made[d]]]
    /\ UNCHANGED <<lock, call, wire>>

-----------------------------------------------------------------------------
Init ==
    /\ power \in [Ids -> {"running", "exited", "unborn"}]
    /\ \E listed \in SUBSET exists :
         list = [i \in 1 .. Cardinality(listed) |->
                   [id |-> SetToSeq(listed)[i], wait |-> NoWait]]
    /\ lock = {} /\ call = [c \in Calls |-> NoCall] /\ wire = [c \in Calls |-> {}]
    /\ budget = UiBudget
    /\ hist = [last |-> [x \in Ids |-> {}], late |-> FALSE, stale |-> {},
               landed |-> [c \in Calls |-> <<>>],
               woken |-> [c \in Calls |-> {}], made |-> [c \in Calls |-> {}],
               acted |-> [c \in Calls |-> FALSE]]

Autostart(c) == TakeLock(c) \/ CheckFresh(c) \/ ReadBack(c) \/ SectionFails(c) \/ TimesOut(c)
Unraid(c) == (\E op \in DOMAIN After : LandsVerb(c, op)) \/ LandsAutostart(c) \/ Lost(c)
Next ==
    \/ \E c \in Calls : Begin(c) \/ Autostart(c) \/ Send(c) \/ RequestFails(c) \/ Unraid(c)
    \/ (\E x \in Ids : UiList(x) \/ UiPower(x) \/ UiCreate(x)) \/ UiOrder

Spec == Init /\ [][Next]_vars

(* The calls' own steps and the timer are driven by the runtime; Unraid may *)
(* never answer and nobody has to use the web UI.                           *)
FairSpec ==
    Spec /\ \A c \in Calls : WF_vars(TakeLock(c)) /\ WF_vars(TimesOut(c)) /\ WF_vars(Send(c))

-----------------------------------------------------------------------------
Lists == {l \in Seq([id : Ids, wait : Waits \cup {NoWait}]) : IsInjective([i \in DOMAIN l |-> l[i].id])}

TypeOK ==
    /\ power \in [Ids -> Up \cup {"exited", "unborn", "gone"}]
    /\ list \in Lists /\ Listed(list) \subseteq exists
    /\ lock = {} \/ \E c \in Calls : lock = {c} /\ call[c].pc \in {"check", "sent", "read"}
    /\ \A c \in Calls : call[c].pc \in {"idle", "lock", "check", "sent", "read", "next", "waiting"} \cup Ended

(* What an autostart call reported as applied stays so until somebody edits *)
(* that container's entry: no other call's rewrite of the list takes it     *)
(* back, unless a call gave up on a request that landed all the same        *)
(* (write_autostart: lock, fresh reading, write, read back).                *)
AppliedHolds ==
    /\ TypeOK
    /\ ~hist.late => \A x \in exists : hist.last[x] # {} => hist.last[x] = {(x \in Listed(list))}

(* A rewrite of the list changes the target's entry and nothing else, not   *)
(* even the order of the others if Unraid reports it, unless the list       *)
(* changed under a request already on the wire ("autostart configuration    *)
(* changed while planning; nothing was written").  Without force it takes   *)
(* no protected container off the list, not even one that was put on it     *)
(* after the call looked (require_force).                                   *)
Rewrites(c) == Sent(c, "autostart") /\ wire'[c] = {} /\ list' # list /\ c \notin hist.stale

LeavesOthersAlone ==
    [][\A c \in Calls : Rewrites(c) =>
          /\ Others(list', call[c].id) = Others(list, call[c].id)
          /\ c \in Ordered => Without(list', call[c].id) = Without(list, call[c].id)
          /\ call[c].force \/ Listed(list) \cap Protected \subseteq Listed(list')]_vars

(* Applied, without others named, means nobody changed the list between the *)
(* write and the reading back: the same containers, the same waits but for  *)
(* those that were not sent, and the same order if Unraid reports it.  If   *)
(* it does not, a list that somebody put in another order is told as        *)
(* applied (verify_autostart).                                              *)
SameButUnsent(sent, read) ==
    /\ Listed(sent) = Listed(read)
    /\ \A x \in Listed(sent) : Entry(sent, x).wait = NoWait \/ Entry(sent, x) = Entry(read, x)
InTheSameOrder(sent, read) ==
    Len(read) = Len(sent) /\ \A i \in DOMAIN sent : read[i].id = sent[i].id

AppliedMeansUntouched ==
    [][\A c \in Calls : call[c].pc = "read" /\ call'[c].pc = "applied" =>
          /\ SameButUnsent(hist.landed[c], list)
          /\ c \in Ordered => InTheSameOrder(hist.landed[c], list)]_vars

(* Without force remove neither stops nor removes a container that ran when *)
(* the call looked; the image goes with it only if every other container    *)
(* made from it was created after the call looked (container_delete_in).    *)
RemovesOnlyWhatItSaw ==
    [][\A c \in Calls :
         (call[c].verb = "remove" /\ wire[c] # {} /\ wire'[c] = {} /\ power' # power) =>
             /\ call[c].force \/ power[call[c].id] = "exited" \/ call[c].id \in hist.woken[c]
             /\ call[c].image /\ Sent(c, "remove") => Sharers(call[c].id) \subseteq hist.made[c]]_vars

(* A power verb that reports success has left its container as asked unless *)
(* somebody else acted on it since the call began (update_with).            *)
Asked == [start |-> "running", restart |-> "running", stop |-> "exited",
          pause |-> "paused", unpause |-> "running", remove |-> "gone"]
DoneAsAsked ==
    [][\A c \in Calls : call[c].pc = "next" /\ call'[c].pc = "done" /\ ~hist.acted[c] =>
          power[call[c].id] = Asked[call[c].verb]]_vars

(* An autostart call ends and gives the lock back whatever Unraid does: a   *)
(* request that is never answered does not block the calls behind it        *)
(* (autostart_times_out_and_releases_the_lock).                             *)
SectionEnds == \A c \in Calls : call[c].pc = "lock" ~> call[c].pc \in Ended

=============================================================================

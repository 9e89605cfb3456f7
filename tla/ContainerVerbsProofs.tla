------------------------- MODULE ContainerVerbsProofs -------------------------
(* What the container verbs promise, for every number of containers and     *)
(* calls, whatever lands late or is lost and whatever users of the web UI   *)
(* do.  A verb that is done left its container as asked, and remove takes   *)
(* nothing its caller did not see (VerbInv).  A rewrite of the autostart    *)
(* list changes the target's entry alone, what it reported stays so, and    *)
(* what it reports as applied is the list that landed (ListInv).            *)
EXTENDS ContainerVerbs, FiniteSetTheorems, WellFoundedInduction, TLAPS

-----------------------------------------------------------------------------
(* The inductive invariant.                                                 *)
Powers == Up \cup {"exited", "unborn", "gone"}
OneByOne == {"start", "stop", "pause", "unpause", "restart", "remove"}

Shaped(c) ==
    call[c] = [pc |-> call[c].pc, verb |-> call[c].verb, id |-> call[c].id,
               force |-> call[c].force, on |-> call[c].on, image |-> call[c].image,
               ids |-> call[c].ids, seen |-> call[c].seen, entries |-> call[c].entries,
               todo |-> call[c].todo]
Observed ==
    /\ hist = [last |-> hist.last, late |-> hist.late, stale |-> hist.stale,
               landed |-> hist.landed, woken |-> hist.woken, made |-> hist.made,
               acted |-> hist.acted]
    /\ hist.woken = [c \in Calls |-> hist.woken[c]]
    /\ hist.made = [c \in Calls |-> hist.made[c]]
    /\ hist.acted = [c \in Calls |-> hist.acted[c]]
Shapes ==
    /\ power \in [Ids -> Powers] /\ wire = [c \in Calls |-> wire[c]]
    /\ call = [c \in Calls |-> call[c]] /\ \A c \in Calls : Shaped(c)
    /\ Observed

(* What may be left of a call's requests, and the last of them.             *)
Rests(verb) ==
    CASE verb = "restart" -> {<<"stop", "start">>, <<"start">>, <<>>}
      [] verb = "remove" -> {<<"stop", "remove">>, <<"remove">>, <<>>}
      [] OTHER -> {<<verb>>, <<>>}
LastOf(verb) == IF verb = "restart" THEN "start" ELSE verb

Planned(c) ==
    /\ call[c].pc # "idle" => call[c].id \in Ids /\ power[call[c].id] # "unborn"
    /\ call[c].pc \in {"idle", "next"} => wire[c] = {}
    /\ Sent(c, "autostart") => call[c].verb = "autostart"
    /\ call[c].pc \in {"next", "waiting"} =>
         call[c].verb \in OneByOne /\ call[c].todo \in Rests(call[c].verb)
    /\ call[c].pc \in {"lock", "check"} => call[c].verb = "autostart"
    /\ call[c].pc = "waiting" /\ call[c].todo = <<>> =>
         \A m \in wire[c] : m.op = LastOf(call[c].verb)

(* The last request has landed, and nobody acted on the container since.    *)
LeftAsAsked(c) ==
    call[c].pc = "next" /\ call[c].todo = <<>> /\ ~hist.acted[c] =>
        power[call[c].id] = Asked[call[c].verb]

(* What the call to remove saw still holds, but for what woke up or was made*)
(* since.                                                                   *)
AsSeen(c) ==
    UnderWay(c) /\ call[c].verb = "remove" =>
        /\ \/ call[c].force \/ power[call[c].id] \in {"exited", "gone"}
           \/ call[c].id \in hist.woken[c]
        /\ call[c].image => Sharers(call[c].id) \subseteq hist.made[c]

VerbInv == Shapes /\ \A c \in Calls : Planned(c) /\ LeftAsAsked(c) /\ AsSeen(c)

-----------------------------------------------------------------------------
(* What the steps do to what the invariant is about.                        *)
Alike(r, s) == r.verb = s.verb /\ r.id = s.id /\ r.force = s.force /\ r.image = s.image
OthersKept(c) == \A d \in Calls \ {c} : call'[d] = call[d] /\ wire'[d] = wire[d]
ShapedAll == call' = [c \in Calls |-> call'[c]] /\ \A c \in Calls : Shaped(c)'

LEMMA GoesTo ==
    ASSUME Shapes, NEW c \in Calls, NEW pc, call' = [call EXCEPT ![c].pc = pc]
    PROVE  /\ ShapedAll /\ \A d \in Calls \ {c} : call'[d] = call[d]
           /\ call'[c].pc = pc /\ Alike(call'[c], call[c]) /\ call'[c].todo = call[c].todo
           /\ call'[c].on = call[c].on /\ call'[c].ids = call[c].ids
           /\ call'[c].seen = call[c].seen /\ call'[c].entries = call[c].entries
<1>1. Shaped(c) /\ call = [d \in Calls |-> call[d]] /\ \A d \in Calls : Shaped(d)
  BY DEF Shapes
<1>2. /\ call' = [d \in Calls |-> call'[d]]
      /\ call'[c] = [call[c] EXCEPT !.pc = pc] /\ \A d \in Calls \ {c} : call'[d] = call[d]
  BY <1>1
<1>3. call'[c] = [pc |-> pc, verb |-> call[c].verb, id |-> call[c].id,
               force |-> call[c].force, on |-> call[c].on, image |-> call[c].image,
               ids |-> call[c].ids, seen |-> call[c].seen, entries |-> call[c].entries,
               todo |-> call[c].todo]
  BY <1>1, <1>2 DEF Shaped
<1>4. /\ call'[c].pc = pc /\ call'[c].verb = call[c].verb /\ call'[c].id = call[c].id
      /\ call'[c].force = call[c].force /\ call'[c].on = call[c].on
      /\ call'[c].image = call[c].image /\ call'[c].ids = call[c].ids
      /\ call'[c].seen = call[c].seen /\ call'[c].entries = call[c].entries
      /\ call'[c].todo = call[c].todo
  BY <1>3
<1>5. Shaped(c)' /\ \A d \in Calls \ {c} : Shaped(d)'
  BY <1>1, <1>2, <1>3, <1>4 DEF Shaped
<1>6. QED
  BY <1>2, <1>4, <1>5 DEF ShapedAll, Alike

LEMMA Ends ==
    ASSUME Shapes, NEW c \in Calls, NEW pc, End(c, pc)
    PROVE  /\ ShapedAll /\ \A d \in Calls \ {c} : call'[d] = call[d]
           /\ call'[c].pc = pc /\ Alike(call'[c], call[c]) /\ call'[c].on = call[c].on
           /\ call'[c].seen = <<>> /\ call'[c].entries = <<>>
<1>1. Shaped(c) /\ call = [d \in Calls |-> call[d]] /\ \A d \in Calls : Shaped(d)
  BY DEF Shapes
<1>2. /\ call' = [d \in Calls |-> call'[d]]
      /\ call'[c] = [call[c] EXCEPT !.pc = pc, !.ids = {}, !.seen = <<>>, !.entries = <<>>,
                                    !.todo = <<>>]
      /\ \A d \in Calls \ {c} : call'[d] = call[d]
  BY <1>1 DEF End
<1>3. call'[c] = [pc |-> pc, verb |-> call[c].verb, id |-> call[c].id,
               force |-> call[c].force, on |-> call[c].on, image |-> call[c].image,
               ids |-> {}, seen |-> <<>>, entries |-> <<>>, todo |-> <<>>]
  BY <1>1, <1>2 DEF Shaped
<1>4. /\ call'[c].pc = pc /\ call'[c].verb = call[c].verb /\ call'[c].id = call[c].id
      /\ call'[c].force = call[c].force /\ call'[c].on = call[c].on
      /\ call'[c].image = call[c].image /\ call'[c].ids = {} /\ call'[c].seen = <<>>
      /\ call'[c].entries = <<>> /\ call'[c].todo = <<>>
  BY <1>3
<1>5. Shaped(c)' /\ \A d \in Calls \ {c} : Shaped(d)'
  BY <1>1, <1>2, <1>3, <1>4 DEF Shaped
<1>6. QED
  BY <1>2, <1>4, <1>5 DEF ShapedAll, Alike

(* Steps that leave the containers and the requests of verbs alone: those   *)
(* of the autostart section, of a call that ends, and what is lost.         *)
Noted == /\ hist'.woken = hist.woken /\ hist'.made = hist.made /\ hist'.acted = hist.acted
         /\ Observed'

Quiet(c) ==
    /\ power' = power /\ Noted /\ ShapedAll /\ wire' = [d \in Calls |-> wire'[d]] /\ OthersKept(c)
    /\ Alike(call'[c], call[c])
    /\ \/ call'[c] = call[c]
       \/ call[c].pc # "idle" /\ call'[c].pc \notin {"idle", "next", "waiting", "lock", "check"}
       \/ call[c].pc = "lock" /\ call'[c].pc = "check"
    /\ \/ wire'[c] \subseteq wire[c]
       \/ call[c].verb = "autostart" /\ call'[c].pc = "sent" /\ \A m \in wire'[c] : m.op = "autostart"

QuietStep(c) ==
    \/ Autostart(c) \/ RequestFails(c) \/ LandsAutostart(c) \/ Lost(c)
    \/ Send(c) /\ call[c].todo = <<>>

(* Notes that no property of these verbs looks at.                          *)
LEMMA NotesElse ==
    ASSUME Observed, NEW c \in Calls,
           \/ hist' = hist
           \/ \E l : hist' = [hist EXCEPT !.landed[c] = l]
           \/ \E l, x, v : hist' = [hist EXCEPT !.last[x] = v, !.landed[c] = l]
           \/ \E l, x, v, b, s :
                hist' = [hist EXCEPT !.stale = s, !.late = b, !.landed[c] = l, !.last[x] = v]
    PROVE  Noted
<1>1. /\ hist'.woken = hist.woken /\ hist'.made = hist.made /\ hist'.acted = hist.acted
      /\ hist' = [last |-> hist'.last, late |-> hist'.late, stale |-> hist'.stale,
               landed |-> hist'.landed, woken |-> hist'.woken, made |-> hist'.made,
               acted |-> hist'.acted]
  BY DEF Observed
<1>2. QED
  BY <1>1 DEF Observed, Noted

LEMMA QuietDoes ==
    ASSUME VerbInv, NEW c \in Calls, QuietStep(c)
    PROVE  Quiet(c)
<1>0. Shapes /\ Planned(c) /\ Observed /\ wire = [d \in Calls |-> wire[d]]
  BY DEF VerbInv, Shapes
<1>1. CASE TakeLock(c)
  <2>1. ShapedAll /\ call'[c].pc = "check" /\ Alike(call'[c], call[c])
        /\ \A d \in Calls \ {c} : call'[d] = call[d]
    BY <1>0, <1>1, GoesTo DEF TakeLock, At
  <2>2. Noted
    BY <1>0, <1>1, NotesElse DEF TakeLock
  <2>3. QED
    BY <1>0, <1>1, <2>1, <2>2 DEF TakeLock, Quiet, OthersKept
<1>2. CASE CheckFresh(c)
  <2>1. Noted
    BY <1>0, <1>2, NotesElse DEF CheckFresh
  <2>2. CASE PlannedFrom(c)
    <3>1. ShapedAll /\ call'[c].pc = "sent" /\ Alike(call'[c], call[c])
          /\ \A d \in Calls \ {c} : call'[d] = call[d]
      BY <1>0, <1>2, <2>2, GoesTo DEF CheckFresh, At
    <3>2. wire' = [wire EXCEPT ![c] = {[op |-> "autostart", entries |-> call[c].entries]}]
          /\ call[c].verb = "autostart"
      BY <1>0, <1>2, <2>2 DEF CheckFresh, Planned
    <3>3. \A m \in wire'[c] : m.op = "autostart"
      BY <1>0, <3>2
    <3>4. QED
      BY <1>0, <1>2, <2>1, <3>1, <3>2, <3>3 DEF CheckFresh, Quiet, OthersKept
  <2>3. CASE ~PlannedFrom(c)
    <3>1. ShapedAll /\ call'[c].pc = "failed" /\ Alike(call'[c], call[c])
          /\ \A d \in Calls \ {c} : call'[d] = call[d]
      BY <1>0, <1>2, <2>3, Ends DEF CheckFresh
    <3>2. QED
      BY <1>0, <1>2, <2>1, <2>3, <3>1 DEF CheckFresh, Quiet, OthersKept
  <2>4. QED
    BY <2>2, <2>3
<1>3. CASE ReadBack(c)
  <2>1. Verdict(c) \in {"notapplied", "applied", "others"}
    BY DEF Verdict
  <2>2. ShapedAll /\ call'[c].pc = Verdict(c) /\ Alike(call'[c], call[c])
        /\ \A d \in Calls \ {c} : call'[d] = call[d]
    BY <1>0, <1>3, Ends DEF ReadBack
  <2>3. Noted
    BY <1>0, <1>3, NotesElse DEF ReadBack
  <2>4. QED
    BY <1>0, <1>3, <2>1, <2>2, <2>3 DEF ReadBack, Quiet, OthersKept
<1>4. CASE SectionFails(c) \/ TimesOut(c)
  <2>1. PICK pc \in {"failed", "timedout"} : End(c, pc)
    BY <1>4 DEF SectionFails, TimesOut
  <2>2. ShapedAll /\ call'[c].pc = pc /\ Alike(call'[c], call[c])
        /\ \A d \in Calls \ {c} : call'[d] = call[d]
    BY <1>0, <2>1, Ends
  <2>3. Noted
    BY <1>0, <1>4, NotesElse DEF SectionFails, TimesOut
  <2>4. call[c].pc # "idle" /\ power' = power /\ wire' = wire
    BY <1>4 DEF SectionFails, TimesOut, Timed
  <2>5. QED
    BY <1>0, <2>1, <2>2, <2>3, <2>4 DEF Quiet, OthersKept
<1>5. CASE RequestFails(c) \/ (Send(c) /\ call[c].todo = <<>>)
  <2>1. PICK pc \in {"failed", "done"} : End(c, pc)
    BY <1>5 DEF RequestFails, Send
  <2>2. ShapedAll /\ call'[c].pc = pc /\ Alike(call'[c], call[c])
        /\ \A d \in Calls \ {c} : call'[d] = call[d]
    BY <1>0, <2>1, Ends
  <2>3. Noted
    BY <1>0, <1>5, NotesElse DEF RequestFails, Send
  <2>4. call[c].pc # "idle" /\ power' = power /\ wire' = wire
    BY <1>5 DEF RequestFails, Send
  <2>5. QED
    BY <1>0, <2>1, <2>2, <2>3, <2>4 DEF Quiet, OthersKept
<1>6. CASE LandsAutostart(c)
  <2>1. Noted
    BY <1>0, <1>6, NotesElse DEF LandsAutostart
  <2>2. CASE call[c].pc = "sent"
    <3>1. ShapedAll /\ call'[c].pc = "read" /\ Alike(call'[c], call[c])
          /\ \A d \in Calls \ {c} : call'[d] = call[d]
      BY <1>0, <1>6, <2>2, GoesTo DEF LandsAutostart
    <3>2. QED
      BY <1>0, <1>6, <2>1, <2>2, <3>1 DEF LandsAutostart, Quiet, OthersKept
  <2>3. CASE call[c].pc # "sent"
    BY <1>0, <1>6, <2>1, <2>3 DEF LandsAutostart, Quiet, OthersKept, Alike, ShapedAll, Shapes, Shaped
  <2>4. QED
    BY <2>2, <2>3
<1>7. CASE Lost(c)
  <2>1. Noted
    BY <1>0, <1>7, NotesElse DEF Lost
  <2>2. QED
    BY <1>0, <1>7, <2>1 DEF Lost, Quiet, OthersKept, Alike, ShapedAll, Shapes, Shaped
<1>8. QED
  BY <1>1, <1>2, <1>3, <1>4, <1>5, <1>6, <1>7 DEF QuietStep, Autostart

(* They keep the invariant.                                                 *)
LEMMA QuietKeeps ==
    ASSUME VerbInv, NEW c \in Calls, Quiet(c)
    PROVE  VerbInv'
<1>0. Shapes /\ Planned(c) /\ AsSeen(c) /\ LeftAsAsked(c)
  BY DEF VerbInv
<1>1. Shapes'
  BY <1>0 DEF Quiet, Shapes, Noted, ShapedAll
<1>2. exists' = exists
  BY DEF Quiet, exists
<1>3. \A x : Sharers(x)' = Sharers(x)
  BY <1>2 DEF Sharers
<1>4. ASSUME NEW d \in Calls \ {c} PROVE Planned(d)' /\ LeftAsAsked(d)' /\ AsSeen(d)'
  <2>1. Planned(d) /\ LeftAsAsked(d) /\ AsSeen(d) /\ call'[d] = call[d] /\ wire'[d] = wire[d]
    BY DEF VerbInv, Quiet, OthersKept
  <2>2. Planned(d)' /\ LeftAsAsked(d)'
    BY <2>1 DEF Planned, LeftAsAsked, Quiet, Noted, Sent
  <2>3. AsSeen(d)'
    BY <1>3, <2>1 DEF AsSeen, Quiet, Noted, UnderWay, Sent
  <2>4. QED
    BY <2>2, <2>3
<1>5. Planned(c)'
  BY <1>0 DEF Planned, Quiet, Sent, Alike
<1>6. LeftAsAsked(c)'
  BY <1>0 DEF LeftAsAsked, Quiet, Noted
<1>7. AsSeen(c)'
  <2>1. ASSUME UnderWay(c)', call'[c].verb = "remove" PROVE UnderWay(c)
    BY <1>0, <2>1 DEF UnderWay, Quiet, Planned, Sent, Alike
  <2>2. QED
    BY <1>0, <1>3, <2>1 DEF AsSeen, Quiet, Noted, Alike
<1>8. QED
  BY <1>1, <1>4, <1>5, <1>6, <1>7 DEF VerbInv

-----------------------------------------------------------------------------
(* A call that begins plans from what it sees.                              *)
Begun(r) ==
    /\ r.id \in exists /\ r.verb \in Verbs
    /\ r.pc \in {"refused", "lock", "next"} /\ (r.pc = "lock" => r.verb = "autostart")
    /\ r.pc = "next" =>
         /\ r.verb # "autostart" /\ r.todo = Requests(r.verb, r.id)
         /\ r.verb = "remove" => /\ r.force \/ power[r.id] = "exited"
                                 /\ r.image => Sharers(r.id) = {}

LEMMA BeginDoes ==
    ASSUME VerbInv, NEW c \in Calls, Begin(c)
    PROVE  /\ call[c].pc = "idle" /\ power' = power /\ wire' = wire /\ ShapedAll
           /\ \A d \in Calls \ {c} : /\ call'[d] = call[d] /\ hist'.woken[d] = hist.woken[d]
                                     /\ hist'.made[d] = hist.made[d]
           /\ hist'.acted = hist.acted /\ Observed' /\ Begun(call'[c])
<1>0. Shapes /\ Observed
  BY DEF VerbInv, Shapes
<1>1. PICK verb \in Verbs, x \in exists, force, on, image \in BOOLEAN, wait \in Waits \cup {NoWait} :
        /\ verb # "autostart" => ~on /\ wait = NoWait
        /\ verb # "remove" => ~image
        /\ force => x \in Protected \/ verb = "remove"
        /\ LET refused == \/ x \in Own
                          \/ Guards(verb, x, on) /\ ~force
                          \/ image /\ Sharers(x) # {}
               planned == verb = "autostart" /\ ~refused
           IN \E entries \in InSomeOrder(c, IF planned THEN Entries(list, x, on, wait) ELSE <<>>) :
              call' = [call EXCEPT ![c] =
             [pc |-> IF refused THEN "refused" ELSE IF verb = "autostart" THEN "lock" ELSE "next",
              verb |-> verb, id |-> x, force |-> force, on |-> on, image |-> image,
              ids |-> IF planned THEN exists ELSE {}, seen |-> IF planned THEN list ELSE <<>>,
              entries |-> entries, todo |-> IF planned THEN <<>> ELSE Requests(verb, x)]]
  BY DEF Begin
<1> DEFINE refused == \/ x \in Own
                      \/ Guards(verb, x, on) /\ ~force
                      \/ image /\ Sharers(x) # {}
           planned == verb = "autostart" /\ ~refused
           pc == IF refused THEN "refused" ELSE IF verb = "autostart" THEN "lock" ELSE "next"
           ids == IF planned THEN exists ELSE {}
           seen == IF planned THEN list ELSE <<>>
           todo == IF planned THEN <<>> ELSE Requests(verb, x)
           Made(es) == [pc |-> pc, verb |-> verb, id |-> x, force |-> force, on |-> on,
                        image |-> image, ids |-> ids, seen |-> seen, entries |-> es, todo |-> todo]
<1>a. PICK entries : call' = [call EXCEPT ![c] = Made(entries)]
  BY <1>1
<1> DEFINE r == Made(entries)
<1>2. call' = [call EXCEPT ![c] = r]
  BY <1>a
<1>3. /\ pc \in {"refused", "lock", "next"} /\ (pc = "lock" => verb = "autostart")
      /\ pc = "next" =>
           /\ verb # "autostart" /\ todo = Requests(verb, x)
           /\ verb = "remove" => /\ force \/ power[x] = "exited"
                                 /\ image => Sharers(x) = {}
  BY DEF Guards
<1>4. /\ r.pc = pc /\ r.verb = verb /\ r.id = x /\ r.force = force /\ r.image = image
      /\ r.todo = todo
      /\ r = [pc |-> r.pc, verb |-> r.verb, id |-> r.id, force |-> r.force, on |-> r.on,
              image |-> r.image, ids |-> r.ids, seen |-> r.seen, entries |-> r.entries,
              todo |-> r.todo]
  <2> HIDE DEF pc, ids, seen, todo
  <2>1. QED
    OBVIOUS
<1> HIDE DEF r
<1>5. call' = [d \in Calls |-> call'[d]] /\ call'[c] = r /\ \A d \in Calls \ {c} : call'[d] = call[d]
  BY <1>0, <1>2 DEF Shapes
<1>6. ShapedAll
  BY <1>0, <1>4, <1>5 DEF Shapes, ShapedAll, Shaped
<1>7. Begun(r)
  <2> HIDE DEF pc, todo
  <2>1. QED
    BY <1>3, <1>4 DEF Begun
<1>8. hist' = [hist EXCEPT !.woken[c] = {}, !.made[c] = {}]
  BY DEF Begin
<1>9. /\ Observed' /\ hist'.acted = hist.acted
      /\ \A d \in Calls \ {c} : hist'.woken[d] = hist.woken[d] /\ hist'.made[d] = hist.made[d]
  <2>1. /\ hist' = [last |-> hist'.last, late |-> hist'.late, stale |-> hist'.stale,
               landed |-> hist'.landed, woken |-> hist'.woken, made |-> hist'.made,
               acted |-> hist'.acted]
        /\ hist'.acted = hist.acted
        /\ hist'.woken = [hist.woken EXCEPT ![c] = {}] /\ hist'.made = [hist.made EXCEPT ![c] = {}]
    BY <1>0, <1>8 DEF Observed
  <2>2. QED
    BY <1>0, <2>1 DEF Observed
<1>10. QED
  BY <1>5, <1>6, <1>7, <1>9 DEF Begin

LEMMA BeginKeeps ==
    ASSUME VerbInv, NEW c \in Calls, Begin(c)
    PROVE  VerbInv'
<1>1. /\ call[c].pc = "idle" /\ power' = power /\ wire' = wire /\ ShapedAll
      /\ \A d \in Calls \ {c} : /\ call'[d] = call[d] /\ hist'.woken[d] = hist.woken[d]
                                /\ hist'.made[d] = hist.made[d]
      /\ hist'.acted = hist.acted /\ Observed' /\ Begun(call'[c])
  BY BeginDoes
<1>2. Shapes'
  BY <1>1 DEF VerbInv, Shapes, ShapedAll
<1>3. exists' = exists /\ \A x : Sharers(x)' = Sharers(x)
  BY <1>1 DEF exists, Sharers
<1>4. ASSUME NEW d \in Calls \ {c} PROVE Planned(d)' /\ LeftAsAsked(d)' /\ AsSeen(d)'
  <2>1. Planned(d) /\ LeftAsAsked(d) /\ AsSeen(d)
    BY DEF VerbInv
  <2>2. Planned(d)' /\ LeftAsAsked(d)'
    BY <1>1, <2>1 DEF Planned, LeftAsAsked, Sent
  <2>3. AsSeen(d)'
    BY <1>1, <1>3, <2>1 DEF AsSeen, UnderWay, Sent
  <2>4. QED
    BY <2>2, <2>3
<1>5. /\ call'[c].id \in Ids /\ power[call'[c].id] \notin {"unborn", "gone"} /\ wire[c] = {}
      /\ call'[c].pc \in {"refused", "lock", "next"}
      /\ call'[c].pc = "lock" => call'[c].verb = "autostart"
      /\ call'[c].verb \in OneByOne \cup {"autostart"}
  BY <1>1, ConstantsAssumption DEF Begun, exists, VerbInv, Planned, OneByOne
<1>6. ASSUME call'[c].pc = "next"
      PROVE  /\ call'[c].verb \in OneByOne /\ call'[c].todo \in Rests(call'[c].verb)
             /\ call'[c].todo # <<>>
  <2>1. call'[c].verb \in OneByOne /\ call'[c].todo = Requests(call'[c].verb, call'[c].id)
    BY <1>1, <1>5, <1>6 DEF Begun
  <2>2. QED
    BY <2>1 DEF OneByOne, Requests, Rests
<1>7. Planned(c)'
  BY <1>1, <1>5, <1>6 DEF Planned, Sent
<1>8. LeftAsAsked(c)'
  BY <1>6 DEF LeftAsAsked
<1>9. AsSeen(c)'
  <2> SUFFICES ASSUME UnderWay(c)', call'[c].verb = "remove"
               PROVE  /\ call'[c].force \/ power[call'[c].id] = "exited"
                      /\ call'[c].image => Sharers(call'[c].id) = {}
    BY <1>1, <1>3 DEF AsSeen
  <2>1. call'[c].pc = "next"
    BY <1>1, <1>5 DEF UnderWay
  <2>2. QED
    BY <1>1, <2>1 DEF Begun
<1>10. QED
  BY <1>2, <1>4, <1>7, <1>8, <1>9 DEF VerbInv

-----------------------------------------------------------------------------
(* A call sends its next request.                                           *)
LEMMA RestsAre ==
    ASSUME NEW verb \in OneByOne, NEW l \in Rests(verb), l # <<>>
    PROVE  /\ Tail(l) \in Rests(verb) /\ Head(l) \in DOMAIN After
           /\ Tail(l) = <<>> => Head(l) = LastOf(verb)
           /\ Head(l) # "autostart"
<1>1. CASE verb = "restart"
  <2>1. CASE l = <<"stop", "start">>
    <3>1. Tail(l) = <<"start">> /\ Head(l) = "stop" /\ Tail(l) # <<>>
      BY <2>1
    <3>2. QED
      BY <1>1, <3>1 DEF Rests, After
  <2>2. CASE l = <<"start">>
    <3>1. Tail(l) = <<>> /\ Head(l) = "start"
      BY <2>2
    <3>2. QED
      BY <1>1, <3>1 DEF Rests, LastOf, After
  <2>3. QED
    BY <1>1, <2>1, <2>2 DEF Rests
<1>2. CASE verb = "remove"
  <2>1. CASE l = <<"stop", "remove">>
    <3>1. Tail(l) = <<"remove">> /\ Head(l) = "stop" /\ Tail(l) # <<>>
      BY <2>1
    <3>2. QED
      BY <1>2, <3>1 DEF Rests, After
  <2>2. CASE l = <<"remove">>
    <3>1. Tail(l) = <<>> /\ Head(l) = "remove"
      BY <2>2
    <3>2. QED
      BY <1>2, <3>1 DEF Rests, LastOf, After
  <2>3. QED
    BY <1>2, <2>1, <2>2 DEF Rests
<1>3. CASE verb \notin {"restart", "remove"}
  <2>1. l = <<verb>>
    BY <1>3 DEF Rests
  <2>2. QED
    BY <1>3, <2>1 DEF Rests, LastOf, After, OneByOne
<1>4. QED
  BY <1>1, <1>2, <1>3

LEMMA SendKeeps ==
    ASSUME VerbInv, NEW c \in Calls, Send(c), call[c].todo # <<>>
    PROVE  VerbInv'
<1>0. Shapes /\ Planned(c) /\ AsSeen(c) /\ call[c].pc = "next"
  BY DEF VerbInv, Send
<1> DEFINE msg == [op |-> Head(call[c].todo), entries |-> <<>>]
           todo == Tail(call[c].todo)
<1>1. /\ wire' = [wire EXCEPT ![c] = {msg}]
      /\ call' = [call EXCEPT ![c].pc = "waiting", ![c].todo = todo]
      /\ UNCHANGED <<power, hist>>
  BY DEF Send
<1>2. msg.op = Head(call[c].todo)
  OBVIOUS
<1>3. /\ call[c].verb \in OneByOne /\ call[c].todo \in Rests(call[c].verb)
      /\ todo \in Rests(call[c].verb) /\ msg.op # "autostart"
      /\ todo = <<>> => msg.op = LastOf(call[c].verb)
  BY <1>0, <1>2, RestsAre DEF Planned
<1> HIDE DEF msg, todo
<1>4. call'[c] = [pc |-> "waiting", verb |-> call[c].verb, id |-> call[c].id,
               force |-> call[c].force, on |-> call[c].on, image |-> call[c].image,
               ids |-> call[c].ids, seen |-> call[c].seen, entries |-> call[c].entries,
               todo |-> todo]
  <2>1. call'[c] = [call[c] EXCEPT !.pc = "waiting", !.todo = todo]
    BY <1>0, <1>1 DEF Shapes
  <2>2. QED
    BY <1>0, <2>1 DEF Shapes, Shaped
<1>5. /\ call' = [d \in Calls |-> call'[d]] /\ wire' = [d \in Calls |-> wire'[d]]
      /\ wire'[c] = {msg}
      /\ \A d \in Calls \ {c} : call'[d] = call[d] /\ wire'[d] = wire[d]
  BY <1>0, <1>1 DEF Shapes
<1>6. /\ call'[c].pc = "waiting" /\ call'[c].verb = call[c].verb /\ call'[c].id = call[c].id
      /\ call'[c].force = call[c].force /\ call'[c].on = call[c].on
      /\ call'[c].image = call[c].image /\ call'[c].ids = call[c].ids
      /\ call'[c].seen = call[c].seen /\ call'[c].entries = call[c].entries
      /\ call'[c].todo = todo
  BY <1>4
<1>7. Shapes'
  <2>1. Shaped(c)' /\ \A d \in Calls \ {c} : Shaped(d)'
    BY <1>0, <1>4, <1>5, <1>6 DEF Shapes, Shaped
  <2>2. QED
    BY <1>0, <1>1, <1>5, <2>1 DEF Shapes, Observed
<1>8. exists' = exists /\ \A x : Sharers(x)' = Sharers(x)
  BY <1>1 DEF exists, Sharers
<1>9. ASSUME NEW d \in Calls \ {c} PROVE Planned(d)' /\ LeftAsAsked(d)' /\ AsSeen(d)'
  <2>1. Planned(d) /\ LeftAsAsked(d) /\ AsSeen(d)
    BY DEF VerbInv
  <2>2. Planned(d)' /\ LeftAsAsked(d)'
    BY <1>1, <1>5, <2>1 DEF Planned, LeftAsAsked, Sent
  <2>3. AsSeen(d)'
    BY <1>1, <1>5, <1>8, <2>1 DEF AsSeen, UnderWay, Sent
  <2>4. QED
    BY <2>2, <2>3
<1>10. Planned(c)'
  BY <1>0, <1>1, <1>3, <1>5, <1>6 DEF Planned, Sent
<1>11. LeftAsAsked(c)'
  BY <1>6 DEF LeftAsAsked
<1>12. AsSeen(c)'
  BY <1>0, <1>1, <1>6, <1>8 DEF AsSeen, UnderWay
<1>13. QED
  BY <1>7, <1>9, <1>10, <1>11, <1>12 DEF VerbInv

-----------------------------------------------------------------------------
(* Somebody acts on container x: who is under way learns of it.             *)
Moves(x) ==
    /\ x \in exists /\ Shapes'
    /\ power'[x] \notin {"unborn"} /\ \A y \in Ids \ {x} : power'[y] = power[y]
    /\ hist'.made = hist.made
    /\ \A d \in Calls : hist'.woken[d] = IF power'[x] \in Up /\ power[x] \notin Up /\ UnderWay(d)
                                         THEN hist.woken[d] \cup {x} ELSE hist.woken[d]

LEMMA SharersShrink ==
    ASSUME NEW x, Moves(x), NEW y
    PROVE  Sharers(y)' \subseteq Sharers(y)
<1>1. exists' \subseteq exists
  BY DEF Moves, exists
<1>2. QED
  BY <1>1 DEF Sharers

LEMMA SeenStays ==
    ASSUME VerbInv, NEW x, Moves(x), NEW d \in Calls, Alike(call'[d], call[d]),
           UnderWay(d)' => UnderWay(d)
    PROVE  AsSeen(d)'
<1> SUFFICES ASSUME UnderWay(d), call[d].verb = "remove"
             PROVE  /\ \/ call[d].force \/ power'[call[d].id] \in {"exited", "gone"}
                       \/ call[d].id \in hist'.woken[d]
                    /\ call[d].image => Sharers(call[d].id)' \subseteq hist'.made[d]
  BY DEF AsSeen, Alike
<1>1. /\ \/ call[d].force \/ power[call[d].id] \in {"exited", "gone"}
         \/ call[d].id \in hist.woken[d]
      /\ call[d].image => Sharers(call[d].id) \subseteq hist.made[d]
  BY DEF VerbInv, AsSeen
<1>2. call[d].image => Sharers(call[d].id)' \subseteq hist'.made[d]
  <2>1. \A y : Sharers(y)' \subseteq Sharers(y)
    BY SharersShrink
  <2>2. hist'.made = hist.made /\ call'[d].id = call[d].id
    BY DEF Moves, Alike
  <2>3. QED
    BY <1>1, <2>1, <2>2
<1>3. hist.woken[d] \subseteq hist'.woken[d]
  BY DEF Moves
<1>4. call[d].id \in Ids
  BY DEF UnderWay, VerbInv, Planned
<1>5. CASE call[d].id # x
  BY <1>1, <1>2, <1>3, <1>4, <1>5 DEF Moves
<1>6. CASE call[d].id = x
  <2>1. power'[x] \in Up \cup {"exited", "gone"}
    BY <1>4, <1>6 DEF Moves, Shapes, Powers
  <2>2. CASE power'[x] \in {"exited", "gone"}
    BY <1>2, <1>6, <2>2
  <2>3. CASE power'[x] \in Up /\ power[x] \notin Up
    BY <1>2, <1>6, <2>3 DEF Moves
  <2>4. CASE power'[x] \in Up /\ power[x] \in Up
    BY <1>1, <1>2, <1>3, <1>6, <2>4 DEF Up
  <2>5. QED
    BY <2>1, <2>2, <2>3, <2>4
<1>7. QED
  BY <1>5, <1>6

LEMMA OthersLearn ==
    ASSUME VerbInv, NEW x, Moves(x), NEW d \in Calls, call'[d] = call[d], wire'[d] = wire[d],
           hist'.acted[d] = IF call[d].id = x /\ UnderWay(d) THEN TRUE ELSE hist.acted[d]
    PROVE  Planned(d)' /\ LeftAsAsked(d)' /\ AsSeen(d)'
<1>1. Planned(d) /\ LeftAsAsked(d)
  BY DEF VerbInv
<1>2. Planned(d)'
  BY <1>1 DEF Planned, Sent, Moves
<1>3. LeftAsAsked(d)'
  <2> SUFFICES ASSUME call[d].pc = "next", call[d].todo = <<>>, ~hist'.acted[d]
               PROVE  power'[call[d].id] = Asked[call[d].verb]
    BY DEF LeftAsAsked
  <2>1. UnderWay(d) /\ call[d].id # x /\ ~hist.acted[d] /\ call[d].id \in Ids
    BY <1>1 DEF Planned, UnderWay
  <2>2. QED
    BY <1>1, <2>1 DEF LeftAsAsked, Moves
<1>4. AsSeen(d)'
  BY SeenStays DEF UnderWay, Sent, Alike
<1>5. QED
  BY <1>2, <1>3, <1>4

(* A request of a verb lands.                                               *)
LEMMA LandsKeeps ==
    ASSUME VerbInv, NEW c \in Calls, NEW op \in DOMAIN After, LandsVerb(c, op)
    PROVE  VerbInv'
<1> DEFINE x == call[c].id
<1>0. Shapes /\ Observed /\ Planned(c)
  BY DEF VerbInv, Shapes
<1>1. /\ x \in exists /\ power' = [power EXCEPT ![x] = After[op]]
      /\ wire' = [wire EXCEPT ![c] = {}]
      /\ hist' = [hist EXCEPT !.woken = Woken(x), !.acted = Acted(x, c), !.stale = Overtaken(c)]
      /\ Sent(c, op)
  BY DEF LandsVerb, Applicable
<1>2. x \in Ids /\ call[c].pc \notin {"idle", "next"} /\ After[op] \in Powers \ {"unborn"}
  BY <1>0, <1>1 DEF exists, Planned, Sent, After, Powers, Up
<1>3. power' \in [Ids -> Powers] /\ power'[x] = After[op] /\ \A y \in Ids \ {x} : power'[y] = power[y]
  BY <1>0, <1>1, <1>2 DEF Shapes
<1>4. wire' = [d \in Calls |-> wire'[d]] /\ wire'[c] = {} /\ \A d \in Calls \ {c} : wire'[d] = wire[d]
  BY <1>0, <1>1 DEF Shapes
<1>5. /\ hist'.woken = Woken(x) /\ hist'.made = hist.made /\ hist'.acted = Acted(x, c)
      /\ Observed'
  <2>1. /\ hist'.woken = Woken(x) /\ hist'.made = hist.made /\ hist'.acted = Acted(x, c)
        /\ hist' = [last |-> hist'.last, late |-> hist'.late, stale |-> hist'.stale,
               landed |-> hist'.landed, woken |-> hist'.woken, made |-> hist'.made,
               acted |-> hist'.acted]
    BY <1>0, <1>1 DEF Observed
  <2>2. Woken(x) = [d \in Calls |-> Woken(x)[d]] /\ Acted(x, c) = [d \in Calls |-> Acted(x, c)[d]]
    BY DEF Woken, Acted
  <2>3. QED
    BY <1>0, <2>1, <2>2 DEF Observed
<1>6. /\ ShapedAll /\ \A d \in Calls \ {c} : call'[d] = call[d]
      /\ Alike(call'[c], call[c]) /\ call'[c].todo = call[c].todo
      /\ \/ call'[c].pc = call[c].pc /\ call[c].pc # "waiting"
         \/ call'[c].pc = "next" /\ call[c].pc = "waiting"
  <2>1. CASE call[c].pc = "waiting"
    <3>1. call' = [call EXCEPT ![c].pc = "next"]
      BY <2>1 DEF LandsVerb
    <3>2. QED
      BY <1>0, <2>1, <3>1, GoesTo
  <2>2. CASE call[c].pc # "waiting"
    <3>1. call' = call
      BY <2>2 DEF LandsVerb
    <3>2. QED
      BY <1>0, <2>2, <3>1 DEF ShapedAll, Shapes, Shaped, Alike
  <2>3. QED
    BY <2>1, <2>2
<1>7. Shapes'
  BY <1>3, <1>4, <1>5, <1>6 DEF Shapes, ShapedAll
<1>8. Moves(x)
  BY <1>1, <1>2, <1>3, <1>5, <1>7 DEF Moves, Woken
<1>9. ASSUME NEW d \in Calls \ {c} PROVE Planned(d)' /\ LeftAsAsked(d)' /\ AsSeen(d)'
  <2>1. hist'.acted[d] = IF call[d].id = x /\ UnderWay(d) THEN TRUE ELSE hist.acted[d]
    BY <1>5 DEF Acted
  <2>2. call'[d] = call[d] /\ wire'[d] = wire[d]
    BY <1>4, <1>6
  <2> HIDE DEF x
  <2>3. QED
    BY <1>8, <2>1, <2>2, OthersLearn
<1>10. Planned(c)'
  BY <1>0, <1>2, <1>3, <1>4, <1>6 DEF Planned, Sent, Alike
<1>11. LeftAsAsked(c)'
  <2> SUFFICES ASSUME call'[c].pc = "next", call'[c].todo = <<>>
               PROVE  power'[x] = Asked[call[c].verb]
    BY <1>6 DEF LeftAsAsked, Alike
  <2>1. call[c].verb \in OneByOne /\ op = LastOf(call[c].verb)
    BY <1>0, <1>1, <1>2, <1>6 DEF Planned, Sent
  <2>2. QED
    BY <1>3, <2>1 DEF OneByOne, LastOf, After, Asked
<1>12. AsSeen(c)'
  <2>1. CASE call[c].verb # "remove"
    BY <1>6, <2>1 DEF AsSeen, Alike
  <2>2. CASE call[c].verb = "remove"
    <3>1. UnderWay(c)
      BY <1>0, <1>1, <2>2 DEF UnderWay, Planned, Sent
    <3> HIDE DEF x
    <3>2. QED
      BY <1>6, <1>8, <3>1, SeenStays
  <2>3. QED
    BY <2>1, <2>2
<1>13. QED
  BY <1>7, <1>9, <1>10, <1>11, <1>12 DEF VerbInv

(* Users of the web UI act.                                                 *)
LEMMA UiPowerKeeps ==
    ASSUME VerbInv, NEW x \in Ids, UiPower(x)
    PROVE  VerbInv'
<1>0. Shapes /\ Observed
  BY DEF VerbInv, Shapes
<1>1. PICK p \in {"running", "exited"} \ {power[x]} : power' = [power EXCEPT ![x] = p]
  BY DEF UiPower
<1>2. /\ x \in exists /\ call' = call /\ wire' = wire
      /\ hist' = [hist EXCEPT !.woken = Woken(x), !.acted = Acted(x, "ui")]
  BY DEF UiPower
<1>3. /\ power' \in [Ids -> Powers] /\ power'[x] # "unborn"
      /\ \A y \in Ids \ {x} : power'[y] = power[y]
  BY <1>0, <1>1 DEF Shapes, Powers, Up
<1>4. /\ hist'.woken = Woken(x) /\ hist'.made = hist.made /\ hist'.acted = Acted(x, "ui")
      /\ Observed'
  <2>1. /\ hist'.woken = Woken(x) /\ hist'.made = hist.made /\ hist'.acted = Acted(x, "ui")
        /\ hist' = [last |-> hist'.last, late |-> hist'.late, stale |-> hist'.stale,
               landed |-> hist'.landed, woken |-> hist'.woken, made |-> hist'.made,
               acted |-> hist'.acted]
    BY <1>0, <1>2 DEF Observed
  <2>2. Woken(x) = [d \in Calls |-> Woken(x)[d]] /\ Acted(x, "ui") = [d \in Calls |-> Acted(x, "ui")[d]]
    BY DEF Woken, Acted
  <2>3. QED
    BY <1>0, <2>1, <2>2 DEF Observed
<1>5. Shapes'
  BY <1>0, <1>2, <1>3, <1>4 DEF Shapes, Shaped
<1>6. Moves(x)
  BY <1>2, <1>3, <1>4, <1>5 DEF Moves, Woken
<1>7. ASSUME NEW d \in Calls PROVE Planned(d)' /\ LeftAsAsked(d)' /\ AsSeen(d)'
  <2>1. hist'.acted[d] = IF call[d].id = x /\ UnderWay(d) THEN TRUE ELSE hist.acted[d]
    BY <1>4, ConstantsAssumption DEF Acted
  <2>2. QED
    BY <1>2, <1>6, <2>1, OthersLearn
<1>8. QED
  BY <1>5, <1>7 DEF VerbInv

LEMMA UiCreateKeeps ==
    ASSUME VerbInv, NEW x \in Ids, UiCreate(x)
    PROVE  VerbInv'
<1>0. Shapes /\ Observed
  BY DEF VerbInv, Shapes
<1> DEFINE made == [d \in Calls |-> IF UnderWay(d) THEN hist.made[d] \cup {x} ELSE hist.made[d]]
<1>1. /\ power[x] = "unborn" /\ power' = [power EXCEPT ![x] = "running"]
      /\ call' = call /\ wire' = wire
      /\ hist' = [hist EXCEPT !.woken = Woken(x), !.stale = Overtaken("ui"), !.made = made]
  BY DEF UiCreate
<1>2. made = [d \in Calls |-> made[d]]
  OBVIOUS
<1>3. \A d \in Calls : UnderWay(d) => made[d] = hist.made[d] \cup {x}
  OBVIOUS
<1> HIDE DEF made
<1>4. power' \in [Ids -> Powers] /\ power'[x] = "running" /\ \A y \in Ids \ {x} : power'[y] = power[y]
  BY <1>0, <1>1 DEF Shapes, Powers, Up
<1>5. /\ hist'.woken = Woken(x) /\ hist'.made = made /\ hist'.acted = hist.acted /\ Observed'
  <2>1. /\ hist'.woken = Woken(x) /\ hist'.made = made /\ hist'.acted = hist.acted
        /\ hist' = [last |-> hist'.last, late |-> hist'.late, stale |-> hist'.stale,
               landed |-> hist'.landed, woken |-> hist'.woken, made |-> hist'.made,
               acted |-> hist'.acted]
    BY <1>0, <1>1 DEF Observed
  <2>2. Woken(x) = [d \in Calls |-> Woken(x)[d]]
    BY DEF Woken
  <2>3. QED
    BY <1>0, <1>2, <2>1, <2>2 DEF Observed
<1>6. Shapes'
  BY <1>0, <1>1, <1>4, <1>5 DEF Shapes, Shaped
<1>7. \A y : Sharers(y)' \subseteq Sharers(y) \cup {x}
  <2>1. exists' \subseteq exists \cup {x}
    BY <1>4 DEF exists
  <2>2. QED
    BY <2>1 DEF Sharers
<1>8. ASSUME NEW d \in Calls PROVE Planned(d)' /\ LeftAsAsked(d)' /\ AsSeen(d)'
  <2>1. Planned(d) /\ LeftAsAsked(d) /\ AsSeen(d)
    BY DEF VerbInv
  <2>2. call[d].pc # "idle" => call[d].id \in Ids /\ call[d].id # x
    BY <1>1, <2>1 DEF Planned
  <2>3. Planned(d)'
    BY <1>1, <1>4, <2>1, <2>2 DEF Planned, Sent
  <2>4. LeftAsAsked(d)'
    BY <1>1, <1>4, <1>5, <2>1, <2>2 DEF LeftAsAsked
  <2>5. ASSUME UnderWay(d), call[d].verb = "remove"
        PROVE  /\ call[d].force \/ power'[call[d].id] \in {"exited", "gone"}
                     \/ call[d].id \in hist'.woken[d]
               /\ call[d].image => Sharers(call[d].id)' \subseteq hist'.made[d]
    <3>1. call[d].pc # "idle"
      BY <2>1, <2>5 DEF UnderWay, Planned
    <3>2. hist.woken[d] \subseteq hist'.woken[d] /\ power'[call[d].id] = power[call[d].id]
      BY <1>4, <1>5, <2>2, <3>1 DEF Woken
    <3>3. hist'.made[d] = hist.made[d] \cup {x}
      BY <1>3, <1>5, <2>5
    <3>4. QED
      BY <1>1, <1>7, <2>1, <2>5, <3>2, <3>3 DEF AsSeen
  <2>6. AsSeen(d)'
    BY <1>1, <2>5 DEF AsSeen, UnderWay, Sent
  <2>7. QED
    BY <2>3, <2>4, <2>6
<1>9. QED
  BY <1>6, <1>8 DEF VerbInv

(* Edits of the list, and no step at all.                                   *)
LEMMA ElseKeeps ==
    ASSUME VerbInv, (\E x \in Ids : UiList(x)) \/ UiOrder \/ UNCHANGED vars
    PROVE  VerbInv'
<1>0. Shapes /\ Observed
  BY DEF VerbInv, Shapes
<1>1. /\ power' = power /\ call' = call /\ wire' = wire
      /\ \/ hist' = hist \/ \E x, s : hist' = [hist EXCEPT !.last[x] = {}, !.stale = s]
         \/ \E s : hist' = [hist EXCEPT !.stale = s]
  BY DEF UiList, UiOrder, vars
<1>2. /\ hist'.woken = hist.woken /\ hist'.made = hist.made /\ hist'.acted = hist.acted
      /\ Observed'
  <2>1. /\ hist'.woken = hist.woken /\ hist'.made = hist.made /\ hist'.acted = hist.acted
        /\ hist' = [last |-> hist'.last, late |-> hist'.late, stale |-> hist'.stale,
               landed |-> hist'.landed, woken |-> hist'.woken, made |-> hist'.made,
               acted |-> hist'.acted]
    BY <1>0, <1>1 DEF Observed
  <2>2. QED
    BY <1>0, <2>1 DEF Observed
<1>3. Shapes'
  BY <1>0, <1>1, <1>2 DEF Shapes, Shaped
<1>4. exists' = exists /\ \A y : Sharers(y)' = Sharers(y)
  BY <1>1 DEF exists, Sharers
<1>5. ASSUME NEW d \in Calls PROVE Planned(d)' /\ LeftAsAsked(d)' /\ AsSeen(d)'
  <2>1. Planned(d) /\ LeftAsAsked(d) /\ AsSeen(d)
    BY DEF VerbInv
  <2>2. Planned(d)' /\ LeftAsAsked(d)'
    BY <1>1, <1>2, <2>1 DEF Planned, LeftAsAsked, Sent
  <2>3. AsSeen(d)'
    BY <1>1, <1>2, <1>4, <2>1 DEF AsSeen, UnderWay, Sent
  <2>4. QED
    BY <2>2, <2>3
<1>6. QED
  BY <1>3, <1>5 DEF VerbInv

LEMMA VerbInductive == VerbInv /\ [Next]_vars => VerbInv'
<1> SUFFICES ASSUME VerbInv, [Next]_vars PROVE VerbInv'
  OBVIOUS
<1>1. ASSUME NEW c \in Calls, QuietStep(c) PROVE VerbInv'
  BY <1>1, QuietDoes, QuietKeeps
<1>2. ASSUME NEW c \in Calls, Begin(c) PROVE VerbInv'
  BY <1>2, BeginKeeps
<1>3. ASSUME NEW c \in Calls, Send(c), call[c].todo # <<>> PROVE VerbInv'
  BY <1>3, SendKeeps
<1>4. ASSUME NEW c \in Calls, NEW op \in DOMAIN After, LandsVerb(c, op) PROVE VerbInv'
  BY <1>4, LandsKeeps
<1>5. ASSUME NEW x \in Ids, UiPower(x) \/ UiCreate(x) PROVE VerbInv'
  BY <1>5, UiPowerKeeps, UiCreateKeeps
<1>6. CASE (\E x \in Ids : UiList(x)) \/ UiOrder \/ UNCHANGED vars
  BY <1>6, ElseKeeps
<1>7. QED
  BY <1>1, <1>2, <1>3, <1>4, <1>5, <1>6 DEF Next, Unraid, QuietStep

LEMMA VerbInit == Init => VerbInv
<1> SUFFICES ASSUME Init PROVE VerbInv
  OBVIOUS
<1>1. \A c \in Calls : call[c] = NoCall /\ wire[c] = {}
  BY DEF Init
<1>2. \A c \in Calls : /\ call[c].pc = "idle" /\ Shaped(c)
  BY <1>1 DEF NoCall, Shaped
<1>3. Shapes
  BY <1>2 DEF Init, Shapes, Observed, Powers, Up
<1>4. QED
  BY <1>1, <1>2, <1>3 DEF VerbInv, Planned, LeftAsAsked, AsSeen, UnderWay, Sent

-----------------------------------------------------------------------------
(* Lists: what Among keeps.  Its lemmas are inductions over the list, each  *)
(* on the set of the lengths up to which the lemma holds.                   *)
LEMMA UpToAll ==
    ASSUME NEW m \in Nat, NEW S, 0 \in S, \A n \in 0 .. m - 1 : n \in S => n + 1 \in S
    PROVE  \A n \in 0 .. m : n \in S
<1> DEFINE T == {n \in Nat : n <= m /\ n \notin S}
<1> SUFFICES ASSUME T # {} PROVE FALSE
  OBVIOUS
<1>1. IsWellFoundedOn(OpToRel(<, Nat), Nat)
  BY NatLessThanWellFounded, Zenon
<1>2. T \subseteq Nat
  OBVIOUS
<1> HIDE DEF T
<1>3. PICK x \in T : \A y \in T : ~(<<y, x>> \in OpToRel(<, Nat))
  BY <1>1, <1>2, WFMin, Zenon
<1> USE DEF T
<1>4. \A y \in T : ~(y < x)
  BY <1>3 DEF OpToRel
<1>5. x # 0 /\ x \in Nat
  OBVIOUS
<1>6. x - 1 \in Nat /\ x - 1 < x
  BY <1>5
<1>7. x - 1 \in S
  BY <1>4, <1>6
<1>8. QED
  BY <1>6, <1>7

Steps(l, X, f, m) ==
    f = [n \in 0 .. m |-> IF n = 0 THEN <<>>
                          ELSE IF l[n].id \in X THEN Append(f[n - 1], l[n]) ELSE f[n - 1]]

LEMMA StepsUpTo ==
    ASSUME NEW l, NEW X, NEW m \in Nat
    PROVE  \E f : Steps(l, X, f, m)
<1> DEFINE S == {n \in Nat : \E f : Steps(l, X, f, n)}
<1>1. 0 \in S
  <2> DEFINE f == [n \in 0 .. 0 |-> <<>>]
  <2>1. f = [n \in 0 .. 0 |-> IF n = 0 THEN <<>>
                          ELSE IF l[n].id \in X THEN Append(f[n - 1], l[n]) ELSE f[n - 1]]
    OBVIOUS
  <2> HIDE DEF f
  <2>2. Steps(l, X, f, 0)
    BY <2>1 DEF Steps
  <2>3. QED
    BY <2>2
<1>2. ASSUME NEW n \in 0 .. m - 1, n \in S PROVE n + 1 \in S
  <2>1. PICK f : Steps(l, X, f, n)
    BY <1>2
  <2> DEFINE more == IF l[n + 1].id \in X THEN Append(f[n], l[n + 1]) ELSE f[n]
             g == [k \in 0 .. n + 1 |-> IF k = n + 1 THEN more ELSE f[k]]
  <2>2. \A k \in 0 .. n : f[k] = IF k = 0 THEN <<>>
                          ELSE IF l[k].id \in X THEN Append(f[k - 1], l[k]) ELSE f[k - 1]
    BY <2>1 DEF Steps
  <2>3. g[n + 1] = more /\ \A k \in 0 .. n : g[k] = f[k]
    OBVIOUS
  <2>4. g = [k \in 0 .. n + 1 |-> g[k]]
    OBVIOUS
  <2> HIDE DEF g
  <2>5. \A k \in 0 .. n + 1 : g[k] = IF k = 0 THEN <<>>
                          ELSE IF l[k].id \in X THEN Append(g[k - 1], l[k]) ELSE g[k - 1]
    <3> TAKE k \in 0 .. n + 1
    <3>1. CASE k = n + 1
      <4>1. g[k] = more /\ k # 0 /\ k - 1 = n /\ g[k - 1] = f[n]
        BY <2>3, <3>1
      <4>2. QED
        BY <3>1, <4>1
    <3>2. CASE k \in 0 .. n
      <4>1. g[k] = f[k] /\ (k # 0 => g[k - 1] = f[k - 1])
        BY <2>3, <3>2
      <4>2. QED
        BY <2>2, <3>2, <4>1
    <3>3. QED
      BY <3>1, <3>2
  <2>6. Steps(l, X, g, n + 1)
    BY <2>4, <2>5 DEF Steps
  <2>7. QED
    BY <2>6
<1> HIDE DEF S
<1>3. \A n \in 0 .. m : n \in S
  BY <1>1, <1>2, UpToAll
<1>4. m \in S
  BY <1>3
<1>5. QED
  BY <1>4 DEF S

LEMMA AmongIs ==
    ASSUME NEW E, NEW l \in Seq(E), NEW X
    PROVE  \E f : /\ Among(l, X) = f[Len(l)] /\ f[0] = <<>>
                  /\ \A n \in 1 .. Len(l) :
                       f[n] = IF l[n].id \in X THEN Append(f[n - 1], l[n]) ELSE f[n - 1]
<1> DEFINE f == CHOOSE f : Steps(l, X, f, Len(l))
<1>1. Steps(l, X, f, Len(l))
  <2>1. Len(l) \in Nat
    OBVIOUS
  <2>2. \E g : Steps(l, X, g, Len(l))
    BY <2>1, StepsUpTo, Zenon
  <2>3. QED
    BY <2>2, Zenon
<1>2. Among(l, X) = f[Len(l)]
  BY DEF Among, Steps
<1> HIDE DEF f
<1>3. \A n \in 0 .. Len(l) : f[n] = IF n = 0 THEN <<>>
                          ELSE IF l[n].id \in X THEN Append(f[n - 1], l[n]) ELSE f[n - 1]
  BY <1>1 DEF Steps
<1>4. QED
  BY <1>2, <1>3

LEMMA AmongKeeps ==
    ASSUME NEW E, NEW l \in Seq(E), NEW X
    PROVE  /\ Among(l, X) \in Seq(E)
           /\ \A i \in 1 .. Len(l) : l[i].id \in X =>
                \E k \in 1 .. Len(Among(l, X)) : Among(l, X)[k] = l[i]
           /\ \A k \in 1 .. Len(Among(l, X)) :
                \E i \in 1 .. Len(l) : Among(l, X)[k] = l[i] /\ l[i].id \in X
<1>1. PICK f : /\ Among(l, X) = f[Len(l)] /\ f[0] = <<>>
               /\ \A n \in 1 .. Len(l) :
                    f[n] = IF l[n].id \in X THEN Append(f[n - 1], l[n]) ELSE f[n - 1]
  BY AmongIs
<1> DEFINE Sound(n) == /\ f[n] \in Seq(E)
                       /\ \A i \in 1 .. n : l[i].id \in X => \E k \in 1 .. Len(f[n]) : f[n][k] = l[i]
                       /\ \A k \in 1 .. Len(f[n]) : \E i \in 1 .. n : f[n][k] = l[i] /\ l[i].id \in X
           S == {n \in 0 .. Len(l) : Sound(n)}
<1>2. 0 \in S
  <2>1. f[0] \in Seq(E) /\ Len(f[0]) = 0
    BY <1>1
  <2>2. Sound(0)
    BY <2>1
  <2>3. 0 \in 0 .. Len(l)
    OBVIOUS
  <2> HIDE DEF Sound
  <2>4. QED
    BY <2>2, <2>3
<1>3. ASSUME NEW n \in 0 .. Len(l) - 1, n \in S PROVE n + 1 \in S
  <2>0. Sound(n)
    BY <1>3, Zenon
  <2>1. Sound(n) /\ n + 1 \in 1 .. Len(l) /\ (n + 1) - 1 = n /\ n + 1 \in 0 .. Len(l)
    <3> HIDE DEF Sound
    <3>1. QED
      BY <2>0
  <2>2. f[n + 1] = IF l[n + 1].id \in X THEN Append(f[n], l[n + 1]) ELSE f[n]
    BY <1>1, <2>1
  <2>3. CASE l[n + 1].id \notin X
    <3>1. f[n + 1] = f[n]
      BY <2>2, <2>3
    <3>2. \A i \in 1 .. n + 1 : i = n + 1 \/ i \in 1 .. n
      OBVIOUS
    <3>3. \A i \in 1 .. n + 1 : l[i].id \in X => \E k \in 1 .. Len(f[n]) : f[n][k] = l[i]
      BY <2>1, <2>3, <3>2
    <3>4. ASSUME NEW k \in 1 .. Len(f[n])
          PROVE  \E i \in 1 .. n + 1 : f[n][k] = l[i] /\ l[i].id \in X
      <4>1. PICK i \in 1 .. n : f[n][k] = l[i] /\ l[i].id \in X
        BY <2>0
      <4>2. i \in 1 .. n + 1
        OBVIOUS
      <4>3. QED
        BY <4>1, <4>2
    <3>5. Sound(n + 1)
      BY <2>0, <3>1, <3>3, <3>4
    <3> HIDE DEF Sound
    <3>6. QED
      BY <2>1, <3>5
  <2>4. CASE l[n + 1].id \in X
    <3> DEFINE g == f[n]
               h == f[n + 1]
    <3>1. g \in Seq(E) /\ h = Append(g, l[n + 1]) /\ l[n + 1] \in E
      BY <2>1, <2>2, <2>4
    <3>1a. /\ \A i \in 1 .. n : l[i].id \in X => \E k \in 1 .. Len(g) : g[k] = l[i]
           /\ \A k \in 1 .. Len(g) : \E i \in 1 .. n : g[k] = l[i] /\ l[i].id \in X
      BY <2>1
    <3> HIDE DEF g, h
    <3>2. /\ h \in Seq(E) /\ Len(h) = Len(g) + 1 /\ h[Len(g) + 1] = l[n + 1]
          /\ \A k \in 1 .. Len(g) : h[k] = g[k]
      BY <3>1
    <3>3. Len(g) \in Nat
      BY <3>1
    <3>4. ASSUME NEW i \in 1 .. n + 1, l[i].id \in X PROVE \E k \in 1 .. Len(h) : h[k] = l[i]
      <4>1. CASE i = n + 1
        <5>1. Len(g) + 1 \in 1 .. Len(h)
          BY <3>2, <3>3
        <5>2. QED
          BY <3>2, <4>1, <5>1
      <4>2. CASE i \in 1 .. n
        <5>1. PICK k \in 1 .. Len(g) : g[k] = l[i]
          BY <3>1a, <3>4, <4>2
        <5>2. k \in 1 .. Len(h)
          BY <3>2, <3>3
        <5>3. QED
          BY <3>2, <5>1, <5>2
      <4>3. QED
        BY <4>1, <4>2
    <3>5. ASSUME NEW k \in 1 .. Len(h) PROVE \E i \in 1 .. n + 1 : h[k] = l[i] /\ l[i].id \in X
      <4>1. CASE k = Len(g) + 1
        BY <2>4, <3>2, <4>1
      <4>2. CASE k \in 1 .. Len(g)
        <5>1. PICK i \in 1 .. n : g[k] = l[i] /\ l[i].id \in X
          BY <3>1a, <4>2
        <5>2. i \in 1 .. n + 1
          OBVIOUS
        <5>3. QED
          BY <3>2, <4>2, <5>1, <5>2
      <4>3. QED
        BY <3>2, <3>3, <4>1, <4>2
    <3>6. QED
      BY <2>1, <3>2, <3>4, <3>5 DEF h
  <2>5. QED
    BY <2>3, <2>4
<1> HIDE DEF S
<1>4. \A n \in 0 .. Len(l) : n \in S
  BY <1>2, <1>3, UpToAll
<1>5. Len(l) \in S
  BY <1>4
<1>6. Sound(Len(l))
  BY <1>5 DEF S
<1>7. QED
  BY <1>1, <1>6

(* Distinct stay distinct.                                                  *)
Distinct(l) == \A i, j \in 1 .. Len(l) : l[i].id = l[j].id => i = j

LEMMA AmongDistinct ==
    ASSUME NEW E, NEW l \in Seq(E), NEW X, Distinct(l)
    PROVE  Distinct(Among(l, X))
<1>1. PICK f : /\ Among(l, X) = f[Len(l)] /\ f[0] = <<>>
               /\ \A n \in 1 .. Len(l) :
                    f[n] = IF l[n].id \in X THEN Append(f[n - 1], l[n]) ELSE f[n - 1]
  BY AmongIs
<1> DEFINE Sound(n) == /\ f[n] \in Seq(E) /\ Distinct(f[n])
                       /\ \A k \in 1 .. Len(f[n]) : \E i \in 1 .. n : f[n][k] = l[i]
           S == {n \in 0 .. Len(l) : Sound(n)}
<1>2. 0 \in S
  <2>1. f[0] \in Seq(E) /\ Len(f[0]) = 0
    BY <1>1
  <2>2. Sound(0)
    BY <2>1 DEF Distinct
  <2>3. 0 \in 0 .. Len(l)
    OBVIOUS
  <2> HIDE DEF Sound
  <2>4. QED
    BY <2>2, <2>3
<1>3. ASSUME NEW n \in 0 .. Len(l) - 1, n \in S PROVE n + 1 \in S
  <2>0. Sound(n)
    BY <1>3, Zenon
  <2>1. Sound(n) /\ n + 1 \in 1 .. Len(l) /\ (n + 1) - 1 = n /\ n + 1 \in 0 .. Len(l)
    <3> HIDE DEF Sound
    <3>1. QED
      BY <2>0
  <2>2. f[n + 1] = IF l[n + 1].id \in X THEN Append(f[n], l[n + 1]) ELSE f[n]
    BY <1>1, <2>1
  <2>3. CASE l[n + 1].id \notin X
    <3>1. f[n + 1] = f[n] /\ \A i \in 1 .. n : i \in 1 .. n + 1
      BY <2>2, <2>3
    <3>2. ASSUME NEW k \in 1 .. Len(f[n])
          PROVE  \E i \in 1 .. n + 1 : f[n][k] = l[i]
      <4>1. PICK i \in 1 .. n : f[n][k] = l[i]
        BY <2>0
      <4>2. i \in 1 .. n + 1
        OBVIOUS
      <4>3. QED
        BY <4>1, <4>2
    <3>3. Sound(n + 1)
      BY <2>0, <3>1, <3>2
    <3> HIDE DEF Sound
    <3>4. QED
      BY <2>1, <3>3
  <2>4. CASE l[n + 1].id \in X
    <3> DEFINE g == f[n]
               h == f[n + 1]
    <3>1. g \in Seq(E) /\ h = Append(g, l[n + 1]) /\ l[n + 1] \in E
      BY <2>1, <2>2, <2>4
    <3>1a. Distinct(g) /\ \A k \in 1 .. Len(g) : \E i \in 1 .. n : g[k] = l[i]
      BY <2>1
    <3> HIDE DEF g, h
    <3>2. /\ h \in Seq(E) /\ Len(h) = Len(g) + 1 /\ h[Len(g) + 1] = l[n + 1]
          /\ \A k \in 1 .. Len(g) : h[k] = g[k]
      BY <3>1
    <3>3. Len(g) \in Nat
      BY <3>1
    <3>4. \A k \in 1 .. Len(h) : k = Len(g) + 1 \/ k \in 1 .. Len(g)
      BY <3>2, <3>3
    <3>5. ASSUME NEW k \in 1 .. Len(g) PROVE g[k].id # l[n + 1].id
      <4>1. PICK i \in 1 .. n : g[k] = l[i]
        BY <3>1a
      <4>2. i # n + 1 /\ i \in 1 .. Len(l)
        OBVIOUS
      <4>3. l[i].id # l[n + 1].id
        BY <2>1, <4>2 DEF Distinct
      <4>4. QED
        BY <4>1, <4>3
    <3>6. Distinct(h)
      <4> SUFFICES ASSUME NEW i \in 1 .. Len(h), NEW j \in 1 .. Len(h), h[i].id = h[j].id
                   PROVE  i = j
        BY DEF Distinct
      <4>1. CASE i \in 1 .. Len(g) /\ j \in 1 .. Len(g)
        BY <3>1a, <3>2, <4>1 DEF Distinct
      <4>2. QED
        BY <3>2, <3>4, <3>5, <4>1
    <3>7. ASSUME NEW k \in 1 .. Len(h) PROVE \E i \in 1 .. n + 1 : h[k] = l[i]
      <4>1. CASE k = Len(g) + 1
        BY <3>2, <4>1
      <4>2. CASE k \in 1 .. Len(g)
        <5>1. PICK i \in 1 .. n : g[k] = l[i]
          BY <3>1a, <4>2
        <5>2. i \in 1 .. n + 1
          OBVIOUS
        <5>3. QED
          BY <3>2, <4>2, <5>1, <5>2
      <4>3. QED
        BY <3>4, <4>1, <4>2
    <3>8. QED
      BY <2>1, <3>2, <3>6, <3>7 DEF h
  <2>5. QED
    BY <2>3, <2>4
<1> HIDE DEF S
<1>4. \A n \in 0 .. Len(l) : n \in S
  BY <1>2, <1>3, UpToAll
<1>5. Len(l) \in S
  BY <1>4
<1>6. Sound(Len(l))
  BY <1>5 DEF S
<1>7. QED
  BY <1>1, <1>6

(* A list of which all is kept, and one entry more.                         *)
LEMMA AmongAll ==
    ASSUME NEW E, NEW l \in Seq(E), NEW X, \A i \in 1 .. Len(l) : l[i].id \in X
    PROVE  Among(l, X) = l
<1>1. PICK f : /\ Among(l, X) = f[Len(l)] /\ f[0] = <<>>
               /\ \A n \in 1 .. Len(l) :
                    f[n] = IF l[n].id \in X THEN Append(f[n - 1], l[n]) ELSE f[n - 1]
  BY AmongIs
<1> DEFINE S == {n \in 0 .. Len(l) : /\ f[n] \in Seq(E) /\ Len(f[n]) = n
                                     /\ \A k \in 1 .. n : f[n][k] = l[k]}
<1>2. 0 \in S
  <2>1. f[0] \in Seq(E) /\ Len(f[0]) = 0
    BY <1>1
  <2>2. 0 \in 0 .. Len(l)
    OBVIOUS
  <2>3. QED
    BY <2>1, <2>2
<1>3. ASSUME NEW n \in 0 .. Len(l) - 1, n \in S PROVE n + 1 \in S
  <2>1. /\ f[n] \in Seq(E) /\ Len(f[n]) = n /\ \A k \in 1 .. n : f[n][k] = l[k]
        /\ n + 1 \in 1 .. Len(l) /\ (n + 1) - 1 = n
    BY <1>3
  <2>2. f[n + 1] = Append(f[n], l[n + 1]) /\ l[n + 1] \in E
    <3>1. l[n + 1].id \in X
      BY <2>1
    <3>2. f[n + 1] = IF l[n + 1].id \in X THEN Append(f[n], l[n + 1]) ELSE f[n]
      BY <1>1, <2>1
    <3>3. QED
      BY <2>1, <3>1, <3>2
  <2>3. /\ f[n + 1] \in Seq(E) /\ Len(f[n + 1]) = n + 1 /\ f[n + 1][n + 1] = l[n + 1]
        /\ \A k \in 1 .. n : f[n + 1][k] = f[n][k]
    BY <2>1, <2>2
  <2>4. \A k \in 1 .. n + 1 : k = n + 1 \/ k \in 1 .. n
    OBVIOUS
  <2>5. QED
    BY <2>1, <2>3, <2>4
<1> HIDE DEF S
<1>4. \A n \in 0 .. Len(l) : n \in S
  <2>1. Len(l) \in Nat
    OBVIOUS
  <2>2. QED
    BY <1>2, <1>3, <2>1, UpToAll
<1>5. Len(l) \in S
  BY <1>4
<1>6. /\ f[Len(l)] \in Seq(E) /\ Len(f[Len(l)]) = Len(l)
      /\ \A k \in 1 .. Len(l) : f[Len(l)][k] = l[k]
  BY <1>5 DEF S
<1> DEFINE g == f[Len(l)]
<1>7. g \in Seq(E) /\ Len(g) = Len(l) /\ \A k \in 1 .. Len(l) : g[k] = l[k]
  BY <1>6
<1> HIDE DEF g
<1>8. g = l
  BY <1>7
<1>9. QED
  BY <1>1, <1>8 DEF g

LEMMA AmongAppend ==
    ASSUME NEW E, NEW l \in Seq(E), NEW e \in E, NEW X
    PROVE  Among(Append(l, e), X) = IF e.id \in X THEN Append(Among(l, X), e) ELSE Among(l, X)
<1> DEFINE m == Append(l, e)
<1>0. /\ m \in Seq(E) /\ Len(m) = Len(l) + 1 /\ m[Len(l) + 1] = e
      /\ \A k \in 1 .. Len(l) : m[k] = l[k]
  OBVIOUS
<1> HIDE DEF m
<1>1. PICK f : /\ Among(l, X) = f[Len(l)] /\ f[0] = <<>>
               /\ \A n \in 1 .. Len(l) :
                    f[n] = IF l[n].id \in X THEN Append(f[n - 1], l[n]) ELSE f[n - 1]
  BY AmongIs
<1>2. PICK g : /\ Among(m, X) = g[Len(m)] /\ g[0] = <<>>
               /\ \A n \in 1 .. Len(m) :
                    g[n] = IF m[n].id \in X THEN Append(g[n - 1], m[n]) ELSE g[n - 1]
  BY <1>0, AmongIs
<1> DEFINE S == {n \in 0 .. Len(l) : f[n] = g[n]}
<1>3. 0 \in S
  BY <1>1, <1>2
<1>4. ASSUME NEW n \in 0 .. Len(l) - 1, n \in S PROVE n + 1 \in S
  <2>1. n + 1 \in 1 .. Len(l) /\ n + 1 \in 1 .. Len(m) /\ (n + 1) - 1 = n
    BY <1>0
  <2>2. f[n + 1] = IF l[n + 1].id \in X THEN Append(f[n], l[n + 1]) ELSE f[n]
    BY <1>1, <2>1
  <2>3. g[n + 1] = IF m[n + 1].id \in X THEN Append(g[n], m[n + 1]) ELSE g[n]
    BY <1>2, <2>1
  <2>4. QED
    BY <1>0, <1>4, <2>1, <2>2, <2>3
<1> HIDE DEF S
<1>5. Len(l) \in Nat
  OBVIOUS
<1>6. \A n \in 0 .. Len(l) : n \in S
  BY <1>3, <1>4, <1>5, UpToAll
<1>7. f[Len(l)] = g[Len(l)]
  BY <1>5, <1>6 DEF S
<1>8. Len(m) \in 1 .. Len(m) /\ Len(m) - 1 = Len(l)
  BY <1>0, <1>5
<1>9. g[Len(m)] = IF m[Len(m)].id \in X THEN Append(g[Len(l)], m[Len(m)]) ELSE g[Len(l)]
  BY <1>2, <1>8
<1>10. Among(m, X) = IF e.id \in X THEN Append(Among(l, X), e) ELSE Among(l, X)
  BY <1>0, <1>1, <1>2, <1>7, <1>9
<1>11. QED
  BY <1>10 DEF m

(* Lists that differ where nothing is kept.                                 *)
LEMMA AmongSame ==
    ASSUME NEW E, NEW l \in Seq(E), NEW m \in Seq(E), NEW X, Len(l) = Len(m),
           \A i \in 1 .. Len(l) : l[i] = m[i] \/ (l[i].id \notin X /\ m[i].id \notin X)
    PROVE  Among(l, X) = Among(m, X)
<1>1. PICK f : /\ Among(l, X) = f[Len(l)] /\ f[0] = <<>>
               /\ \A n \in 1 .. Len(l) :
                    f[n] = IF l[n].id \in X THEN Append(f[n - 1], l[n]) ELSE f[n - 1]
  BY AmongIs
<1>2. PICK g : /\ Among(m, X) = g[Len(m)] /\ g[0] = <<>>
               /\ \A n \in 1 .. Len(m) :
                    g[n] = IF m[n].id \in X THEN Append(g[n - 1], m[n]) ELSE g[n - 1]
  BY AmongIs
<1> DEFINE S == {n \in 0 .. Len(l) : f[n] = g[n]}
<1>3. 0 \in S
  BY <1>1, <1>2
<1>4. ASSUME NEW n \in 0 .. Len(l) - 1, n \in S PROVE n + 1 \in S
  <2>1. n + 1 \in 1 .. Len(l) /\ (n + 1) - 1 = n
    OBVIOUS
  <2>2. f[n + 1] = IF l[n + 1].id \in X THEN Append(f[n], l[n + 1]) ELSE f[n]
    BY <1>1, <2>1
  <2>3. g[n + 1] = IF m[n + 1].id \in X THEN Append(g[n], m[n + 1]) ELSE g[n]
    BY <1>2, <2>1
  <2>4. QED
    BY <1>4, <2>1, <2>2, <2>3
<1> HIDE DEF S
<1>5. Len(l) \in Nat
  OBVIOUS
<1>6. \A n \in 0 .. Len(l) : n \in S
  BY <1>3, <1>4, <1>5, UpToAll
<1>7. f[Len(l)] = g[Len(l)]
  BY <1>5, <1>6 DEF S
<1>8. QED
  BY <1>1, <1>2, <1>7

(* The autostart lists.                                                     *)
Item == [id : Ids, wait : Waits \cup {NoWait}]

LEMMA ListsAre ==
    ASSUME NEW l
    PROVE  l \in Lists <=> l \in Seq(Item) /\ Distinct(l)
<1>1. ASSUME l \in Seq(Item)
      PROVE  IsInjective([i \in DOMAIN l |-> l[i].id]) <=> Distinct(l)
  BY <1>1 DEF IsInjective, Distinct
<1>2. QED
  BY <1>1 DEF Lists, Item

LEMMA ListedIs ==
    ASSUME NEW l \in Lists, NEW x
    PROVE  /\ Listed(l) \subseteq Ids
           /\ x \in Listed(l) <=> \E i \in 1 .. Len(l) : l[i].id = x
<1>1. l \in Seq(Item) /\ ToSet(l) = {l[i] : i \in 1 .. Len(l)}
  BY ListsAre DEF ToSet
<1>2. Listed(l) = {l[i].id : i \in 1 .. Len(l)}
  BY <1>1 DEF Listed
<1>3. \A i \in 1 .. Len(l) : l[i].id \in Ids
  <2>1. \A i \in 1 .. Len(l) : l[i] \in Item
    BY <1>1
  <2>2. \A e \in Item : e.id \in Ids
    BY DEF Item
  <2>3. QED
    BY <2>1, <2>2
<1>4. QED
  BY <1>2, <1>3

LEMMA AmongListed ==
    ASSUME NEW l \in Lists, NEW X
    PROVE  Among(l, X) \in Lists /\ Listed(Among(l, X)) = Listed(l) \cap X
<1>1. l \in Seq(Item) /\ Distinct(l)
  BY ListsAre
<1>2. /\ Among(l, X) \in Seq(Item)
      /\ \A i \in 1 .. Len(l) : l[i].id \in X =>
           \E k \in 1 .. Len(Among(l, X)) : Among(l, X)[k] = l[i]
      /\ \A k \in 1 .. Len(Among(l, X)) :
           \E i \in 1 .. Len(l) : Among(l, X)[k] = l[i] /\ l[i].id \in X
  BY <1>1, AmongKeeps
<1>3. Among(l, X) \in Lists
  BY <1>1, <1>2, AmongDistinct, ListsAre
<1>4. ASSUME NEW x PROVE x \in Listed(Among(l, X)) <=> x \in Listed(l) /\ x \in X
  <2>1. x \in Listed(l) <=> \E i \in 1 .. Len(l) : l[i].id = x
    BY ListedIs
  <2>2. x \in Listed(Among(l, X)) <=> \E k \in 1 .. Len(Among(l, X)) : Among(l, X)[k].id = x
    BY <1>3, ListedIs
  <2>3. QED
    BY <1>2, <2>1, <2>2
<1>5. QED
  BY <1>3, <1>4

LEMMA AmongListedAll ==
    ASSUME NEW l \in Lists, NEW X, Listed(l) \subseteq X
    PROVE  Among(l, X) = l
<1>1. l \in Seq(Item)
  BY ListsAre
<1>2. \A i \in 1 .. Len(l) : l[i].id \in X
  BY ListedIs
<1>3. QED
  BY <1>1, <1>2, AmongAll

LEMMA WithoutListed ==
    ASSUME NEW l \in Lists, NEW x
    PROVE  Without(l, x) \in Lists /\ Listed(Without(l, x)) = Listed(l) \ {x}
<1>1. Listed(l) \subseteq Ids
  BY ListedIs
<1>2. QED
  BY <1>1, AmongListed DEF Without

(* The entries on a list, those that are kept, and those but a container's. *)
LEMMA AmongItems ==
    ASSUME NEW l \in Lists, NEW X
    PROVE  ToSet(Among(l, X)) = {e \in ToSet(l) : e.id \in X}
<1>1. l \in Seq(Item)
  BY ListsAre
<1>2. /\ Among(l, X) \in Seq(Item)
      /\ \A i \in 1 .. Len(l) : l[i].id \in X =>
           \E k \in 1 .. Len(Among(l, X)) : Among(l, X)[k] = l[i]
      /\ \A k \in 1 .. Len(Among(l, X)) :
           \E i \in 1 .. Len(l) : Among(l, X)[k] = l[i] /\ l[i].id \in X
  BY <1>1, AmongKeeps
<1>3. /\ ToSet(l) = {l[i] : i \in 1 .. Len(l)}
      /\ ToSet(Among(l, X)) = {Among(l, X)[k] : k \in 1 .. Len(Among(l, X))}
  BY <1>1, <1>2 DEF ToSet
<1>4. ASSUME NEW e PROVE e \in ToSet(Among(l, X)) <=> e \in ToSet(l) /\ e.id \in X
  BY <1>2, <1>3
<1>5. QED
  BY <1>4

LEMMA OthersAre ==
    ASSUME NEW l \in Lists, NEW x
    PROVE  Others(l, x) = ToSet(Without(l, x))
<1>1. \A e \in ToSet(l) : e.id \in Ids
  BY ListedIs DEF Listed
<1>2. ToSet(Without(l, x)) = {e \in ToSet(l) : e.id \in Ids \ {x}}
  BY AmongItems DEF Without
<1>3. QED
  BY <1>1, <1>2 DEF Others

LEMMA OthersListed ==
    ASSUME NEW l, NEW k, NEW x, Others(l, x) = Others(k, x)
    PROVE  Listed(l) \ {x} = Listed(k) \ {x}
<1>1. \A m : Listed(m) \ {x} = {e.id : e \in Others(m, x)}
  BY DEF Listed, Others
<1>2. QED
  BY <1>1

(* The same entries in another order.                                       *)
LEMMA OrdersAre ==
    ASSUME NEW l \in Lists, NEW k \in Orders(l)
    PROVE  k \in Lists /\ ToSet(k) = ToSet(l)
<1>1. l \in Seq(Item) /\ Distinct(l) /\ DOMAIN l = 1 .. Len(l) /\ Len(l) \in Nat
  BY ListsAre
<1>2. PICK p \in Bijection(DOMAIN l, DOMAIN l) : k = [i \in DOMAIN l |-> l[p[i]]]
  BY DEF Orders
<1>3. /\ p \in [1 .. Len(l) -> 1 .. Len(l)]
      /\ \A i, j \in 1 .. Len(l) : p[i] = p[j] => i = j
      /\ \A j \in 1 .. Len(l) : \E i \in 1 .. Len(l) : p[i] = j
  BY <1>1 DEF Bijection, Injection, Surjection, IsInjective
<1>4. k = [i \in 1 .. Len(l) |-> l[p[i]]]
  BY <1>1, <1>2
<1>5. k \in Seq(Item) /\ Len(k) = Len(l) /\ \A i \in 1 .. Len(l) : k[i] = l[p[i]]
  BY <1>1, <1>3, <1>4
<1>6. Distinct(k)
  <2> SUFFICES ASSUME NEW i \in 1 .. Len(l), NEW j \in 1 .. Len(l), k[i].id = k[j].id
               PROVE  i = j
    BY <1>5 DEF Distinct
  <2>1. l[p[i]].id = l[p[j]].id /\ p[i] \in 1 .. Len(l) /\ p[j] \in 1 .. Len(l)
    BY <1>3, <1>5
  <2>2. p[i] = p[j]
    BY <1>1, <2>1 DEF Distinct
  <2>3. QED
    BY <1>3, <2>2
<1>7. ToSet(k) = {k[i] : i \in 1 .. Len(l)} /\ ToSet(l) = {l[i] : i \in 1 .. Len(l)}
  BY <1>1, <1>5 DEF ToSet
<1>8. ToSet(k) = ToSet(l)
  <2>1. ASSUME NEW e \in ToSet(k) PROVE e \in ToSet(l)
    <3>1. PICK i \in 1 .. Len(l) : e = k[i]
      BY <1>7, <2>1
    <3>2. p[i] \in 1 .. Len(l) /\ e = l[p[i]]
      BY <1>3, <1>5, <3>1
    <3>3. QED
      BY <1>7, <3>2
  <2>2. ASSUME NEW e \in ToSet(l) PROVE e \in ToSet(k)
    <3>1. PICK j \in 1 .. Len(l) : e = l[j]
      BY <1>7, <2>2
    <3>2. PICK i \in 1 .. Len(l) : p[i] = j
      BY <1>3
    <3>3. k[i] = l[j]
      BY <1>5, <3>2
    <3>4. QED
      BY <1>7, <3>1, <3>3
  <2>3. QED
    BY <2>1, <2>2
<1>9. QED
  BY <1>5, <1>6, <1>8, ListsAre

LEMMA InSomeOrderAre ==
    ASSUME NEW c, NEW l \in Lists, NEW k \in InSomeOrder(c, l)
    PROVE  k \in Lists /\ ToSet(k) = ToSet(l) /\ (c \in Ordered => k = l)
BY OrdersAre DEF InSomeOrder

(* Appending an entry for a container not listed.                           *)
LEMMA AppendListed ==
    ASSUME NEW l \in Lists, NEW e \in Item, e.id \notin Listed(l)
    PROVE  Append(l, e) \in Lists /\ Listed(Append(l, e)) = Listed(l) \cup {e.id}
<1>1. l \in Seq(Item) /\ Distinct(l)
  BY ListsAre
<1> DEFINE m == Append(l, e)
<1>2. /\ m \in Seq(Item) /\ Len(m) = Len(l) + 1 /\ m[Len(l) + 1] = e
      /\ \A k \in 1 .. Len(l) : m[k] = l[k]
  BY <1>1
<1> HIDE DEF m
<1>3. Len(l) \in Nat
  BY <1>1
<1>4. \A k \in 1 .. Len(m) : k = Len(l) + 1 \/ k \in 1 .. Len(l)
  BY <1>2, <1>3
<1>5. \A k \in 1 .. Len(l) : l[k].id # e.id
  BY ListedIs
<1>6. Distinct(m)
  <2> SUFFICES ASSUME NEW i \in 1 .. Len(m), NEW j \in 1 .. Len(m), m[i].id = m[j].id
               PROVE  i = j
    BY DEF Distinct
  <2>1. CASE i \in 1 .. Len(l) /\ j \in 1 .. Len(l)
    BY <1>1, <1>2, <2>1 DEF Distinct
  <2>2. QED
    BY <1>2, <1>4, <1>5, <2>1
<1>7. m \in Lists
  BY <1>2, <1>6, ListsAre
<1>8. ASSUME NEW x PROVE x \in Listed(m) <=> x \in Listed(l) \/ x = e.id
  <2>1. x \in Listed(l) <=> \E i \in 1 .. Len(l) : l[i].id = x
    BY ListedIs
  <2>2. x \in Listed(m) <=> \E k \in 1 .. Len(m) : m[k].id = x
    BY <1>7, ListedIs
  <2>3. Len(l) + 1 \in 1 .. Len(m) /\ \A k \in 1 .. Len(l) : k \in 1 .. Len(m)
    BY <1>2, <1>3
  <2>4. QED
    BY <1>2, <1>4, <2>1, <2>2, <2>3
<1>9. Listed(m) = Listed(l) \cup {e.id}
  BY <1>8
<1>10. QED
  BY <1>7, <1>9 DEF m

(* What a call plans touches the entry of its target alone.                 *)
LEMMA EntriesKeep ==
    ASSUME NEW l \in Lists, NEW x \in Ids, NEW on \in BOOLEAN, NEW wait \in Waits \cup {NoWait}
    PROVE  LET e == Entries(l, x, on, wait)
           IN /\ e \in Lists /\ Listed(e) \ {x} = Listed(l) \ {x}
              /\ on <=> x \in Listed(e)
              /\ Without(e, x) = Without(l, x)
<1>0. l \in Seq(Item) /\ Distinct(l)
  BY ListsAre
<1> DEFINE e == Entries(l, x, on, wait)
           it == [id |-> x, wait |-> wait]
<1>it. it \in Item /\ it.id = x /\ it.wait = wait
  BY DEF Item
<1>1. CASE ~on
  <2>1. e = Without(l, x)
    BY <1>1 DEF Entries
  <2>2. e \in Lists /\ Listed(e) = Listed(l) \ {x}
    BY <2>1, WithoutListed
  <2>3. Listed(e) \subseteq Ids
    BY <2>2, ListedIs
  <2> HIDE DEF e
  <2>4. Without(e, x) = e
    BY <2>2, <2>3, AmongListedAll DEF Without
  <2>5. QED
    BY <1>1, <2>1, <2>2, <2>4 DEF e
<1>2. CASE on /\ x \notin Listed(l)
  <2>1. e = Append(l, it)
    BY <1>2 DEF Entries
  <2> HIDE DEF it
  <2>2. e \in Lists /\ Listed(e) = Listed(l) \cup {x}
    BY <1>2, <1>it, <2>1, AppendListed
  <2>3. it.id \notin Ids \ {x}
    BY <1>it
  <2>4. Among(e, Ids \ {x}) = Among(l, Ids \ {x})
    BY <1>0, <1>it, <2>1, <2>3, AmongAppend
  <2>5. QED
    BY <1>2, <2>2, <2>4 DEF Without
<1>3. CASE on /\ x \in Listed(l)
  <2>1. e = [i \in DOMAIN l |-> IF l[i].id = x /\ wait # NoWait
                                THEN [id |-> x, wait |-> wait] ELSE l[i]]
    BY <1>3 DEF Entries
  <2> HIDE DEF e, it
  <2>2. /\ e \in Seq(Item) /\ Len(e) = Len(l)
        /\ \A i \in 1 .. Len(l) : e[i].id = l[i].id /\ (l[i].id # x => e[i] = l[i])
    <3>1. /\ DOMAIN e = 1 .. Len(l)
          /\ \A i \in 1 .. Len(l) : e[i] \in Item /\ e[i].id = l[i].id /\ (l[i].id # x => e[i] = l[i])
      BY <1>0, <1>it, <2>1 DEF it
    <3>2. e = [i \in 1 .. Len(l) |-> e[i]]
      BY <1>0, <2>1
    <3>3. QED
      BY <1>0, <3>1, <3>2
  <2>3. e \in Lists
    <3>1. Distinct(e)
      BY <1>0, <2>2 DEF Distinct
    <3>2. QED
      BY <2>2, <3>1, ListsAre
  <2>4. Listed(e) = Listed(l)
    <3>1. ASSUME NEW y PROVE y \in Listed(e) <=> y \in Listed(l)
      <4>1. y \in Listed(l) <=> \E i \in 1 .. Len(l) : l[i].id = y
        BY ListedIs
      <4>2. y \in Listed(e) <=> \E k \in 1 .. Len(e) : e[k].id = y
        BY <2>3, ListedIs
      <4>3. QED
        BY <2>2, <4>1, <4>2
    <3>2. QED
      BY <3>1
  <2>5. Without(e, x) = Without(l, x)
    <3>1. \A i \in 1 .. Len(e) : e[i] = l[i] \/ (e[i].id \notin Ids \ {x} /\ l[i].id \notin Ids \ {x})
      BY <2>2
    <3>2. QED
      BY <1>0, <2>2, <3>1, AmongSame DEF Without
  <2>6. QED
    BY <1>3, <2>3, <2>4, <2>5 DEF e
<1>4. QED
  BY <1>1, <1>2, <1>3

LEMMA EntriesAre ==
    ASSUME NEW l \in Lists, NEW x \in Ids, NEW on \in BOOLEAN, NEW wait \in Waits \cup {NoWait}
    PROVE  LET e == Entries(l, x, on, wait)
           IN /\ e \in Lists /\ Listed(e) \ {x} = Listed(l) \ {x}
              /\ on <=> x \in Listed(e)
              /\ Without(e, x) = Without(l, x) /\ Others(e, x) = Others(l, x)
<1> DEFINE e == Entries(l, x, on, wait)
<1>1. /\ e \in Lists /\ Listed(e) \ {x} = Listed(l) \ {x}
      /\ on <=> x \in Listed(e)
      /\ Without(e, x) = Without(l, x)
  BY EntriesKeep
<1> HIDE DEF e
<1>2. Others(e, x) = Others(l, x)
  BY <1>1, OthersAre
<1>3. QED
  BY <1>1, <1>2 DEF e

(* Where a container stands, and its entry.                                 *)
LEMMA RankIs ==
    ASSUME NEW l \in Lists, NEW x \in Listed(l)
    PROVE  /\ Rank(l, x) \in 1 .. Len(l) /\ l[Rank(l, x)].id = x
           /\ Entry(l, x) = l[Rank(l, x)]
           /\ \A i \in 1 .. Len(l) : l[i].id = x => i = Rank(l, x)
<1>1. l \in Seq(Item) /\ Distinct(l) /\ DOMAIN l = 1 .. Len(l)
  BY ListsAre
<1>2. \E i \in DOMAIN l : l[i].id = x
  BY <1>1, ListedIs
<1>3. Rank(l, x) \in DOMAIN l /\ l[Rank(l, x)].id = x
  BY <1>2, Zenon DEF Rank
<1>4. \A i \in 1 .. Len(l) : l[i].id = x => i = Rank(l, x)
  BY <1>1, <1>3 DEF Distinct
<1>5. ToSet(l) = {l[i] : i \in 1 .. Len(l)}
  BY <1>1 DEF ToSet
<1>6. \E e \in ToSet(l) : e.id = x
  BY <1>1, <1>3, <1>5
<1>7. Entry(l, x) \in ToSet(l) /\ Entry(l, x).id = x
  BY <1>6, Zenon DEF Entry
<1>8. PICK i \in 1 .. Len(l) : Entry(l, x) = l[i]
  BY <1>5, <1>7
<1>9. i = Rank(l, x)
  BY <1>4, <1>7, <1>8
<1>10. QED
  BY <1>1, <1>3, <1>4, <1>8, <1>9

-----------------------------------------------------------------------------
(* The invariant of the autostart section, beside that of the other verbs.  *)
Section == {"lock", "check", "sent", "read"}
Holding == Section \ {"lock"}
Pcs == {"idle", "next", "waiting"} \cup Section \cup Ended

(* At most one call is in the section, the one that has the lock.           *)
Held ==
    /\ lock \subseteq Calls /\ \A c, d \in lock : c = d
    /\ \A c \in Calls : call[c].pc \in Pcs /\ (c \in lock <=> call[c].pc \in Holding)

PlannedOn(c, l, e) ==
    /\ call[c].on <=> call[c].id \in Listed(e)
    /\ Others(e, call[c].id) = Others(l, call[c].id)
    /\ c \in Ordered =>
         \E wait \in Waits \cup {NoWait} : e = Entries(l, call[c].id, call[c].on, wait)
Spares(c, l) ==
    ~call[c].force /\ ~call[c].on /\ call[c].id \in Protected => call[c].id \notin Listed(l)

(* What a call has planned, and from which list.                            *)
Plans(c) ==
    /\ call[c].entries \in Lists /\ call[c].seen \in Lists
    /\ call[c].pc \in Section =>
         /\ call[c].id \in Ids /\ call[c].on \in BOOLEAN
         /\ PlannedOn(c, call[c].seen, call[c].entries) /\ Spares(c, call[c].seen)
         /\ call[c].id \in call[c].ids /\ Listed(call[c].seen) \subseteq call[c].ids
         /\ \A x \in call[c].ids : x \in Ids /\ power[x] # "unborn"

(* A list on the wire was planned from the present one, if that did not     *)
(* change since; on the containers whose entry somebody was told of the two *)
(* agree even then, as long as the call is still there.                     *)
OnWire(c, m) ==
    /\ m.entries \in Lists /\ call[c].id \in Ids /\ call[c].on \in BOOLEAN
    /\ c \notin hist.stale => PlannedOn(c, list, m.entries) /\ Spares(c, list)
    /\ call[c].pc = "sent" => m.entries = call[c].entries
    /\ call[c].pc = "sent" /\ ~hist.late =>
         \A x \in exists \ {call[c].id} :
           hist.last[x] # {} => (x \in Listed(m.entries) <=> x \in Listed(list))
Wires(c) ==
    /\ \A m, n \in wire[c] : m = n
    /\ call[c].pc = "read" => wire[c] = {}
    /\ \A m \in wire[c] : m.op = "autostart" => OnWire(c, m)

(* What landed is what was sent, where no container has gone since.         *)
AsSent(c) == call[c].pc = "read" /\ call[c].ids \subseteq exists => hist.landed[c] = call[c].entries

Told ==
    /\ list \in Lists /\ Listed(list) \subseteq exists
    /\ \A x \in Ids : power[x] = "unborn" => hist.last[x] = {}
    /\ ~hist.late => \A x \in exists : hist.last[x] # {} => hist.last[x] = {(x \in Listed(list))}
    /\ hist.last = [x \in Ids |-> hist.last[x]] /\ hist.landed = [c \in Calls |-> hist.landed[c]]

OfCall(c) == Plans(c) /\ Wires(c) /\ AsSent(c)
ListInv == Held /\ Told /\ \A c \in Calls : OfCall(c)

LEMMA NothingListed == <<>> \in Lists /\ Listed(<<>>) = {}
<1>1. <<>> \in Seq(Item) /\ Distinct(<<>>) /\ Len(<<>>) = 0
  BY DEF Distinct
<1>2. <<>> \in Lists
  BY <1>1, ListsAre
<1>3. \A x : x \notin Listed(<<>>)
  BY <1>1, <1>2, ListedIs
<1>4. QED
  BY <1>2, <1>3

(* What a step must leave alone for a call to keep its part.                *)
LEMMA OthersKeep ==
    ASSUME ListInv, NEW d \in Calls, call'[d] = call[d], wire'[d] = wire[d],
           hist'.landed[d] = hist.landed[d],
           \/ wire[d] = {} \/ d \in hist'.stale
           \/ list' = list /\ (d \in hist.stale => d \in hist'.stale),
           \A x \in Ids : power'[x] = "unborn" => power[x] = "unborn",
           \A x \in exists' : x \in exists \/ power[x] = "unborn",
           call[d].pc = "sent" /\ ~hist'.late =>
               /\ ~hist.late
               /\ \A x \in exists' : hist'.last[x] # {} =>
                    /\ x \in exists /\ hist.last[x] # {}
                    /\ x \in Listed(list') <=> x \in Listed(list)
    PROVE  OfCall(d)'
<1>0. Plans(d) /\ Wires(d) /\ AsSent(d)
  BY DEF ListInv, OfCall
<1>1. Plans(d)'
  BY <1>0 DEF Plans, PlannedOn, Spares
<1>2. Wires(d)'
  <2> SUFFICES ASSUME NEW m \in wire[d], m.op = "autostart" PROVE OnWire(d, m)'
    BY <1>0 DEF Wires
  <2>1. OnWire(d, m)
    BY <1>0 DEF Wires
  <2>2. ASSUME d \notin hist'.stale PROVE (PlannedOn(d, list, m.entries) /\ Spares(d, list))'
    BY <2>1, <2>2 DEF OnWire, PlannedOn, Spares
  <2>3. ASSUME call[d].pc = "sent", ~hist'.late,
               NEW x \in exists' \ {call[d].id}, hist'.last[x] # {}
        PROVE  x \in Listed(m.entries) <=> x \in Listed(list')
    BY <2>1, <2>3 DEF OnWire
  <2>4. QED
    BY <2>1, <2>2, <2>3 DEF OnWire
<1>3. AsSent(d)'
  <2> SUFFICES ASSUME call[d].pc = "read", call[d].ids \subseteq exists'
               PROVE  hist.landed[d] = call[d].entries
    BY DEF AsSent
  <2>1. \A x \in call[d].ids : x \in Ids /\ power[x] # "unborn"
    BY <1>0 DEF Plans, Section
  <2>2. call[d].ids \subseteq exists
    BY <2>1
  <2>3. QED
    BY <1>0, <2>2 DEF AsSent
<1>4. QED
  BY <1>1, <1>2, <1>3 DEF OfCall

(* The lock is taken when nobody has it, and given back with the section.   *)
LEMMA HeldStays ==
    ASSUME Held, NEW c \in Calls, \A d \in Calls \ {c} : call'[d].pc = call[d].pc,
           call'[c].pc \in Pcs,
           \/ lock' = lock /\ (call[c].pc \in Holding <=> call'[c].pc \in Holding)
           \/ lock = {} /\ lock' = lock \cup {c} /\ call'[c].pc \in Holding
           \/ lock' = lock \ {c} /\ call'[c].pc \notin Holding
    PROVE  Held'
BY DEF Held

(* Steps that leave the containers, the list and what was told of it alone. *)
Calm(c) ==
    /\ list' = list /\ power' = power /\ OthersKept(c)
    /\ hist'.last = hist.last /\ hist'.late = hist.late /\ hist'.stale = hist.stale
    /\ hist'.landed = [d \in Calls |-> hist'.landed[d]]
    /\ \A d \in Calls \ {c} : hist'.landed[d] = hist.landed[d]

LEMMA CalmKeeps ==
    ASSUME ListInv, NEW c \in Calls, Calm(c), Held', OfCall(c)'
    PROVE  ListInv'
<1>1. exists' = exists
  BY DEF Calm, exists
<1>2. Told'
  BY <1>1 DEF ListInv, Told, Calm
<1>3. ASSUME NEW d \in Calls \ {c} PROVE OfCall(d)'
  <2>1. /\ call'[d] = call[d] /\ wire'[d] = wire[d] /\ hist'.landed[d] = hist.landed[d]
        /\ list' = list /\ hist'.stale = hist.stale /\ hist'.late = hist.late
        /\ hist'.last = hist.last /\ power' = power
    BY DEF Calm, OthersKept
  <2>2. QED
    BY <1>1, <2>1, OthersKeep
<1>4. QED
  BY <1>2, <1>3 DEF ListInv


(* A call that leaves the section, or ends otherwise.                       *)
LEMMA OwnEnds ==
    ASSUME Shapes, NEW c \in Calls, OfCall(c), NEW pc \in Ended, End(c, pc),
           wire' = wire, list' = list, power' = power, hist'.stale = hist.stale
    PROVE  OfCall(c)'
<1>1. /\ call'[c].pc = pc /\ Alike(call'[c], call[c]) /\ call'[c].on = call[c].on
      /\ call'[c].seen = <<>> /\ call'[c].entries = <<>>
  BY Ends
<1>2. pc \notin Section /\ pc # "sent" /\ pc # "read"
  BY DEF Ended, Section
<1>3. Plans(c)'
  BY <1>1, <1>2, NothingListed DEF Plans
<1>4. ASSUME NEW m \in wire[c], m.op = "autostart" PROVE OnWire(c, m)'
  <2>1. OnWire(c, m)
    BY <1>4 DEF OfCall, Wires
  <2>2. QED
    BY <1>1, <1>2, <2>1 DEF OnWire, PlannedOn, Spares, Alike
<1>5. Wires(c)'
  BY <1>1, <1>2, <1>4 DEF OfCall, Wires
<1>6. AsSent(c)'
  BY <1>1, <1>2 DEF AsSent
<1>7. QED
  BY <1>3, <1>5, <1>6 DEF OfCall

(* What the notes of a landed list are after a step of the section.         *)
LEMMA LandedNotes ==
    ASSUME Observed, Told, NEW c \in Calls, NEW l, hist' = [hist EXCEPT !.landed[c] = l]
    PROVE  /\ hist'.last = hist.last /\ hist'.late = hist.late /\ hist'.stale = hist.stale
           /\ hist'.landed = [d \in Calls |-> hist'.landed[d]] /\ hist'.landed[c] = l
           /\ \A d \in Calls \ {c} : hist'.landed[d] = hist.landed[d]
<1>1. /\ hist'.last = hist.last /\ hist'.late = hist.late /\ hist'.stale = hist.stale
      /\ hist'.landed = [hist.landed EXCEPT ![c] = l]
  BY DEF Observed
<1>2. hist.landed = [d \in Calls |-> hist.landed[d]]
  BY DEF Told
<1>3. QED
  BY <1>1, <1>2

LEMMA EndKeeps ==
    ASSUME VerbInv, ListInv, NEW c \in Calls, NEW pc \in Ended, End(c, pc),
           wire' = wire, list' = list, power' = power,
           hist' = hist \/ hist' = [hist EXCEPT !.landed[c] = <<>>],
           (lock' = lock /\ call[c].pc \notin Holding) \/ lock' = lock \ {c}
    PROVE  ListInv'
<1>0. Shapes /\ Observed /\ Held /\ Told /\ OfCall(c)
  BY DEF VerbInv, Shapes, ListInv
<1>1. /\ hist'.last = hist.last /\ hist'.late = hist.late /\ hist'.stale = hist.stale
      /\ hist'.landed = [d \in Calls |-> hist'.landed[d]]
      /\ \A d \in Calls \ {c} : hist'.landed[d] = hist.landed[d]
  <2>1. CASE hist' = hist
    BY <1>0, <2>1 DEF Told
  <2>2. CASE hist' = [hist EXCEPT !.landed[c] = <<>>]
    BY <1>0, <2>2, LandedNotes
  <2>3. QED
    BY <2>1, <2>2
<1>2. call'[c].pc = pc /\ \A d \in Calls \ {c} : call'[d] = call[d]
  BY <1>0, Ends
<1>3. pc \in Pcs /\ pc \notin Holding
  BY DEF Ended, Pcs, Holding, Section
<1>4. Held'
  BY <1>0, <1>2, <1>3, HeldStays
<1>5. Calm(c)
  BY <1>1, <1>2 DEF Calm, OthersKept
<1>6. OfCall(c)'
  BY <1>0, <1>1, OwnEnds
<1>7. QED
  BY <1>4, <1>5, <1>6, CalmKeeps

(* The call takes the lock, and compares what it planned from.              *)
LEMMA TakeLockKeeps ==
    ASSUME VerbInv, ListInv, NEW c \in Calls, TakeLock(c)
    PROVE  ListInv'
<1>0. Shapes /\ Held /\ Told /\ OfCall(c)
  BY DEF VerbInv, ListInv
<1>1. /\ call[c].pc = "lock" /\ lock = {} /\ lock' = lock \cup {c}
      /\ call' = [call EXCEPT ![c].pc = "check"]
      /\ power' = power /\ list' = list /\ wire' = wire /\ hist' = hist
  BY DEF TakeLock, LockFree, At
<1>2. /\ \A d \in Calls \ {c} : call'[d] = call[d]
      /\ call'[c].pc = "check" /\ Alike(call'[c], call[c])
      /\ call'[c].on = call[c].on /\ call'[c].ids = call[c].ids
      /\ call'[c].seen = call[c].seen /\ call'[c].entries = call[c].entries
  BY <1>0, <1>1, GoesTo
<1>3. Held'
  BY <1>0, <1>1, <1>2, HeldStays DEF Pcs, Holding, Section
<1>4. Calm(c)
  BY <1>0, <1>1, <1>2 DEF Calm, OthersKept, Told
<1>5. Plans(c)'
  BY <1>0, <1>1, <1>2 DEF OfCall, Plans, PlannedOn, Spares, Alike, Section
<1>6. Wires(c)'
  <2>1. ASSUME NEW m \in wire[c], m.op = "autostart" PROVE OnWire(c, m)'
    <3>1. OnWire(c, m)
      BY <1>0, <2>1 DEF OfCall, Wires
    <3>2. QED
      BY <1>1, <1>2, <3>1 DEF OnWire, PlannedOn, Spares, Alike
  <2>2. QED
    BY <1>0, <1>1, <1>2, <2>1 DEF OfCall, Wires
<1>7. OfCall(c)'
  BY <1>2, <1>5, <1>6 DEF OfCall, AsSent
<1>8. QED
  BY <1>3, <1>4, <1>7, CalmKeeps

LEMMA CheckFreshKeeps ==
    ASSUME VerbInv, ListInv, NEW c \in Calls, CheckFresh(c)
    PROVE  ListInv'
<1>0. Shapes /\ Held /\ Told /\ OfCall(c)
  BY DEF VerbInv, ListInv
<1>1. CASE ~PlannedFrom(c)
  BY <1>1, EndKeeps DEF CheckFresh, Release, Ended
<1>2. CASE PlannedFrom(c)
  <2> DEFINE msg == [op |-> "autostart", entries |-> call[c].entries]
  <2>1. /\ call[c].pc = "check" /\ call[c].ids = exists
        /\ ToSet(call[c].seen) = ToSet(list) /\ (c \in Ordered => call[c].seen = list)
        /\ call' = [call EXCEPT ![c].pc = "sent"] /\ wire' = [wire EXCEPT ![c] = {msg}]
        /\ power' = power /\ list' = list /\ lock' = lock /\ hist' = hist
    BY <1>2 DEF CheckFresh, PlannedFrom, At
  <2>2. /\ \A d \in Calls \ {c} : call'[d] = call[d]
        /\ call'[c].pc = "sent" /\ Alike(call'[c], call[c])
        /\ call'[c].on = call[c].on /\ call'[c].ids = call[c].ids
        /\ call'[c].seen = call[c].seen /\ call'[c].entries = call[c].entries
    BY <1>0, <2>1, GoesTo
  <2>3. msg.op = "autostart" /\ msg.entries = call[c].entries
    OBVIOUS
  <2> HIDE DEF msg
  <2>4. wire'[c] = {msg} /\ \A d \in Calls \ {c} : wire'[d] = wire[d]
    BY <1>0, <2>1 DEF Shapes
  <2>5. Held'
    BY <1>0, <2>1, <2>2, HeldStays DEF Pcs, Holding, Section
  <2>6. Calm(c)
    BY <1>0, <2>1, <2>2, <2>4 DEF Calm, OthersKept, Told
  <2>7. /\ call[c].entries \in Lists /\ call[c].id \in Ids /\ call[c].on \in BOOLEAN
        /\ PlannedOn(c, list, call[c].entries) /\ Spares(c, list)
    <3>1. /\ call[c].entries \in Lists /\ call[c].id \in Ids /\ call[c].on \in BOOLEAN
          /\ PlannedOn(c, call[c].seen, call[c].entries) /\ Spares(c, call[c].seen)
      BY <1>0, <2>1 DEF OfCall, Plans, Section
    <3>2. Listed(call[c].seen) = Listed(list) /\ \A x : Others(call[c].seen, x) = Others(list, x)
      BY <2>1 DEF Listed, Others
    <3>3. QED
      BY <2>1, <3>1, <3>2 DEF PlannedOn, Spares
  <2>8. Plans(c)'
    BY <1>0, <2>1, <2>2 DEF OfCall, Plans, PlannedOn, Spares, Alike, Section
  <2>9. Listed(call[c].entries) \ {call[c].id} = Listed(list) \ {call[c].id}
    BY <2>7, OthersListed DEF PlannedOn
  <2>10. Wires(c)'
    <3>1. ASSUME NEW m \in wire'[c] PROVE OnWire(c, m)'
      <4>1. m.entries = call[c].entries /\ exists' = exists
        BY <2>1, <2>3, <2>4, <3>1 DEF exists
      <4>2. QED
        BY <2>1, <2>2, <2>7, <2>9, <4>1 DEF OnWire, PlannedOn, Spares, Alike
    <3>2. QED
      BY <2>2, <2>4, <3>1 DEF Wires
  <2>11. OfCall(c)'
    BY <2>2, <2>8, <2>10 DEF OfCall, AsSent
  <2>12. QED
    BY <2>5, <2>6, <2>11, CalmKeeps
<1>3. QED
  BY <1>1, <1>2

(* What the call reports is what the list shows.                            *)
LEMMA ReadBackKeeps ==
    ASSUME VerbInv, ListInv, NEW c \in Calls, ReadBack(c)
    PROVE  ListInv'
<1> DEFINE x == call[c].id
           told == IF Verdict(c) = "notapplied" THEN hist.last[x] ELSE {call[c].on}
<1>0. Shapes /\ Observed /\ Held /\ Told /\ OfCall(c)
  BY DEF VerbInv, Shapes, ListInv
<1>1. /\ call[c].pc = "read" /\ End(c, Verdict(c)) /\ lock' = lock \ {c}
      /\ power' = power /\ list' = list /\ wire' = wire
      /\ hist' = [hist EXCEPT !.last[x] = told, !.landed[c] = <<>>]
  <2>1. /\ call[c].pc = "read" /\ End(c, Verdict(c)) /\ lock' = lock \ {c}
        /\ power' = power /\ list' = list /\ wire' = wire
        /\ hist' = [hist EXCEPT !.last[call[c].id] =
                        IF Verdict(c) = "notapplied" THEN @ ELSE {call[c].on},
                                !.landed[c] = <<>>]
    BY DEF ReadBack, Release
  <2>2. QED
    BY <2>1, <1>0 DEF Observed
<1>2. Verdict(c) \in Ended
  BY DEF Verdict, Ended
<1>3. /\ call[c].id \in Ids /\ call[c].on \in BOOLEAN /\ call[c].entries \in Lists
      /\ call[c].seen \in Lists /\ PlannedOn(c, call[c].seen, call[c].entries)
      /\ power[x] # "unborn"
  BY <1>0, <1>1 DEF OfCall, Plans, Section
<1>4. call[c].on <=> x \in Listed(call[c].entries)
  BY <1>3 DEF PlannedOn
<1>5. Verdict(c) # "notapplied" => LandedAsSent(c, x)
  BY DEF Verdict
<1> HIDE DEF x
<1>6. Verdict(c) # "notapplied" => told = {(x \in Listed(list))}
  <2>1. Verdict(c) # "notapplied" => (x \in Listed(call[c].entries) <=> x \in Listed(list))
    BY <1>5, Zenon DEF LandedAsSent
  <2>2. Verdict(c) # "notapplied" => call[c].on = (x \in Listed(list))
    BY <1>3, <1>4, <2>1
  <2>3. Verdict(c) # "notapplied" => told = {call[c].on}
    OBVIOUS
  <2> HIDE DEF told
  <2>4. QED
    BY <2>2, <2>3, Zenon
<1>7. Verdict(c) = "notapplied" => told = hist.last[x]
  OBVIOUS
<1> HIDE DEF told
<1>8. x \in Ids
  BY <1>3 DEF x
<1>9. /\ hist'.late = hist.late /\ hist'.stale = hist.stale
      /\ hist'.last = [hist.last EXCEPT ![x] = told]
      /\ hist'.landed = [hist.landed EXCEPT ![c] = <<>>]
  BY <1>0, <1>1 DEF Observed
<1>10. /\ hist'.last = [y \in Ids |-> hist'.last[y]] /\ hist'.last[x] = told
       /\ \A y \in Ids \ {x} : hist'.last[y] = hist.last[y]
       /\ hist'.landed = [d \in Calls |-> hist'.landed[d]]
       /\ \A d \in Calls \ {c} : hist'.landed[d] = hist.landed[d]
  BY <1>0, <1>8, <1>9 DEF Told
<1>11. exists' = exists /\ exists \subseteq Ids
  BY <1>1 DEF exists
<1>12. Told'
  <2>1. power[x] # "unborn"
    BY <1>3
  <2>2. \A y \in Ids : power'[y] = "unborn" => hist'.last[y] = {}
    BY <1>0, <1>1, <1>10, <2>1 DEF Told
  <2>3. ASSUME ~hist'.late, NEW y \in exists, hist'.last[y] # {}
        PROVE  hist'.last[y] = {(y \in Listed(list))}
    <3>1. CASE y # x
      BY <1>0, <1>9, <1>10, <1>11, <2>3, <3>1 DEF Told
    <3>2. CASE y = x /\ Verdict(c) = "notapplied"
      BY <1>0, <1>7, <1>9, <1>10, <2>3, <3>2 DEF Told
    <3>3. CASE y = x /\ Verdict(c) # "notapplied"
      BY <1>6, <1>10, <3>3
    <3>4. QED
      BY <3>1, <3>2, <3>3
  <2>4. QED
    BY <1>0, <1>1, <1>10, <1>11, <2>2, <2>3 DEF Told
<1>13. call'[c].pc \in Ended /\ \A d \in Calls \ {c} : call'[d] = call[d]
  BY <1>0, <1>1, <1>2, Ends
<1>14. Held'
  BY <1>0, <1>1, <1>13, HeldStays DEF Ended, Pcs, Holding, Section
<1>15. OfCall(c)'
  BY <1>0, <1>1, <1>2, <1>9, OwnEnds
<1>16. ASSUME NEW d \in Calls \ {c} PROVE OfCall(d)'
  <2>1. /\ call'[d] = call[d] /\ wire'[d] = wire[d] /\ hist'.landed[d] = hist.landed[d]
        /\ call[d].pc # "sent"
    BY <1>0, <1>1, <1>10, <1>13 DEF Held, Holding, Section
  <2>2. QED
    BY <1>1, <1>9, <1>11, <2>1, OthersKeep
<1>17. QED
  BY <1>12, <1>14, <1>15, <1>16 DEF ListInv

(* The other verbs' requests carry no list, and what is lost carries none.  *)
LEMMA SendListKeeps ==
    ASSUME VerbInv, ListInv, NEW c \in Calls, Send(c)
    PROVE  ListInv'
<1>0. Shapes /\ Planned(c) /\ Held /\ Told /\ OfCall(c)
  BY DEF VerbInv, ListInv
<1>1. CASE call[c].todo = <<>>
  BY <1>1, EndKeeps DEF Send, Ended, Holding, Section
<1>2. CASE call[c].todo # <<>>
  <2> DEFINE msg == [op |-> Head(call[c].todo), entries |-> <<>>]
             todo == Tail(call[c].todo)
  <2>1. /\ call[c].pc = "next" /\ wire' = [wire EXCEPT ![c] = {msg}]
        /\ call' = [call EXCEPT ![c].pc = "waiting", ![c].todo = todo]
        /\ power' = power /\ list' = list /\ lock' = lock /\ hist' = hist
    BY <1>2 DEF Send
  <2>2. msg.op # "autostart"
    <3>1. call[c].verb \in OneByOne /\ call[c].todo \in Rests(call[c].verb)
      BY <1>0, <2>1 DEF Planned
    <3>2. Head(call[c].todo) # "autostart"
      BY <1>2, <3>1 DEF OneByOne, Rests
    <3>3. QED
      BY <3>2
  <2> HIDE DEF msg, todo
  <2>3. /\ call'[c] = [call[c] EXCEPT !.pc = "waiting", !.todo = todo]
        /\ \A d \in Calls \ {c} : call'[d] = call[d] /\ wire'[d] = wire[d]
        /\ wire'[c] = {msg}
    BY <1>0, <2>1 DEF Shapes
  <2>4. call'[c].pc = "waiting" /\ call'[c].entries = call[c].entries /\ call'[c].seen = call[c].seen
    BY <1>0, <2>3 DEF Shapes, Shaped
  <2>5. Held'
    BY <1>0, <2>1, <2>3, <2>4, HeldStays DEF Pcs, Holding, Section
  <2>6. Calm(c)
    BY <1>0, <2>1, <2>3 DEF Calm, OthersKept, Told
  <2>7. OfCall(c)'
    BY <1>0, <2>2, <2>3, <2>4 DEF OfCall, Plans, Wires, AsSent, Section
  <2>8. QED
    BY <2>5, <2>6, <2>7, CalmKeeps
<1>3. QED
  BY <1>1, <1>2

LEMMA LostKeeps ==
    ASSUME VerbInv, ListInv, NEW c \in Calls, Lost(c)
    PROVE  ListInv'
<1>0. Shapes /\ Held /\ Told /\ OfCall(c)
  BY DEF VerbInv, ListInv
<1>1. /\ wire' = [wire EXCEPT ![c] = {}] /\ call' = call
      /\ power' = power /\ list' = list /\ lock' = lock /\ hist' = hist
  BY DEF Lost
<1>2. wire'[c] = {} /\ \A d \in Calls \ {c} : wire'[d] = wire[d]
  BY <1>0, <1>1 DEF Shapes
<1>3. Held'
  BY <1>0, <1>1 DEF Held
<1>4. Calm(c)
  BY <1>0, <1>1, <1>2 DEF Calm, OthersKept, Told
<1>5. Plans(c)' /\ AsSent(c)'
  <2>1. exists' = exists
    BY <1>1 DEF exists
  <2>2. QED
    BY <1>0, <1>1, <2>1 DEF OfCall, Plans, AsSent, PlannedOn, Spares
<1>6. QED
  BY <1>2, <1>3, <1>4, <1>5, CalmKeeps DEF OfCall, Wires

LEMMA NothingListKeeps == ListInv /\ UNCHANGED vars => ListInv'
<1> SUFFICES ASSUME ListInv, UNCHANGED vars PROVE ListInv'
  OBVIOUS
<1>1. /\ power' = power /\ list' = list /\ lock' = lock /\ call' = call /\ wire' = wire
      /\ hist' = hist
  BY DEF vars
<1>2. exists' = exists
  BY <1>1 DEF exists
<1>3. Held' /\ Told'
  BY <1>1, <1>2 DEF ListInv, Held, Told
<1>4. ASSUME NEW d \in Calls PROVE OfCall(d)'
  <2>1. call'[d] = call[d] /\ wire'[d] = wire[d] /\ hist'.landed[d] = hist.landed[d]
    BY <1>1
  <2>2. QED
    BY <1>1, <1>2, <2>1, OthersKeep
<1>5. QED
  BY <1>3, <1>4 DEF ListInv

(* A call plans from the list it sees, and only what it may.                *)
LEMMA BeginListKeeps ==
    ASSUME VerbInv, ListInv, NEW c \in Calls, Begin(c)
    PROVE  ListInv'
<1>0. Shapes /\ Observed /\ Planned(c) /\ Held /\ Told /\ OfCall(c)
  BY DEF VerbInv, Shapes, ListInv
<1>1. PICK verb \in Verbs, x \in exists, force, on, image \in BOOLEAN, wait \in Waits \cup {NoWait} :
        /\ verb # "autostart" => ~on /\ wait = NoWait
        /\ verb # "remove" => ~image
        /\ force => x \in Protected \/ verb = "remove"
        /\ LET refused == \/ x \in Own
                          \/ Guards(verb, x, on) /\ ~force
                          \/ image /\ Sharers(x) # {}
               planned == verb = "autostart" /\ ~refused
           IN \E entries \in InSomeOrder(c, IF planned THEN Entries(list, x, on, wait) ELSE <<>>) :
              call' = [call EXCEPT ![c] =
             [pc |-> IF refused THEN "refused" ELSE IF verb = "autostart" THEN "lock" ELSE "next",
              verb |-> verb, id |-> x, force |-> force, on |-> on, image |-> image,
              ids |-> IF planned THEN exists ELSE {}, seen |-> IF planned THEN list ELSE <<>>,
              entries |-> entries, todo |-> IF planned THEN <<>> ELSE Requests(verb, x)]]
  BY DEF Begin
<1> DEFINE refused == \/ x \in Own
                      \/ Guards(verb, x, on) /\ ~force
                      \/ image /\ Sharers(x) # {}
           planned == verb = "autostart" /\ ~refused
           todo == IF planned THEN <<>> ELSE Requests(verb, x)
           pc == IF refused THEN "refused" ELSE IF verb = "autostart" THEN "lock" ELSE "next"
           ids == IF planned THEN exists ELSE {}
           seen == IF planned THEN list ELSE <<>>
           plan == IF planned THEN Entries(list, x, on, wait) ELSE <<>>
<1>2. PICK entries \in InSomeOrder(c, plan) : call' = [call EXCEPT ![c] =
          [pc |-> pc, verb |-> verb, id |-> x, force |-> force, on |-> on, image |-> image,
           ids |-> ids, seen |-> seen, entries |-> entries, todo |-> todo]]
  BY <1>1
<1>3. pc \in {"refused", "lock", "next"} /\ (pc = "lock" => planned)
  OBVIOUS
<1>4. planned => ids = exists /\ seen = list /\ plan = Entries(list, x, on, wait)
  OBVIOUS
<1>5. ~planned => seen = <<>> /\ plan = <<>>
  OBVIOUS
<1>6. planned /\ ~force /\ ~on /\ x \in Protected => x \notin Listed(list)
  BY DEF Guards, NeedsForce
<1> HIDE DEF pc, ids, seen, plan, todo, planned, refused
<1>7. /\ call'[c].pc = pc /\ call'[c].id = x /\ call'[c].force = force /\ call'[c].on = on
      /\ call'[c].ids = ids /\ call'[c].seen = seen /\ call'[c].entries = entries
      /\ \A d \in Calls \ {c} : call'[d] = call[d]
  BY <1>0, <1>2 DEF Shapes
<1>8. /\ call[c].pc = "idle" /\ wire[c] = {} /\ wire' = wire /\ list' = list /\ power' = power
      /\ lock' = lock /\ hist' = [hist EXCEPT !.woken[c] = {}, !.made[c] = {}]
  BY <1>0 DEF Begin, Planned
<1>9. /\ hist'.last = hist.last /\ hist'.late = hist.late /\ hist'.stale = hist.stale
      /\ hist'.landed = hist.landed
  BY <1>0, <1>8 DEF Observed
<1>10. x \in Ids /\ \A y \in exists : y \in Ids /\ power[y] # "unborn"
  BY DEF exists
<1>11. list \in Lists /\ Listed(list) \subseteq exists
  BY <1>0 DEF Told
<1>12. entries \in Lists /\ seen \in Lists
  <2>1. planned => Entries(list, x, on, wait) \in Lists
    BY <1>10, <1>11, EntriesAre
  <2>2. plan \in Lists /\ seen \in Lists
    BY <1>4, <1>5, <1>11, <2>1, NothingListed
  <2>3. QED
    BY <2>2, InSomeOrderAre
<1>13. Plans(c)'
  <2>1. CASE ~planned
    <3>1. pc \notin Section
      BY <1>3, <2>1 DEF Section
    <3>2. QED
      BY <1>7, <1>12, <3>1 DEF Plans
  <2>2. CASE planned
    <3>1. PlannedOn(c, call[c].seen, call[c].entries)'
      <4>1. /\ on <=> x \in Listed(plan)
            /\ Others(plan, x) = Others(list, x)
        BY <1>4, <1>10, <1>11, <2>2, EntriesAre
      <4>2. plan \in Lists
        BY <1>4, <1>10, <1>11, <2>2, EntriesAre
      <4>3. ToSet(entries) = ToSet(plan) /\ (c \in Ordered => entries = plan)
        BY <4>2, InSomeOrderAre
      <4>4. Listed(entries) = Listed(plan) /\ Others(entries, x) = Others(plan, x)
        BY <4>3 DEF Listed, Others
      <4>5. QED
        BY <1>4, <1>7, <2>2, <4>1, <4>3, <4>4 DEF PlannedOn
    <3>2. Spares(c, call[c].seen)'
      BY <1>4, <1>6, <1>7, <2>2 DEF Spares
    <3>3. QED
      BY <1>4, <1>7, <1>8, <1>10, <1>11, <1>12, <2>2, <3>1, <3>2 DEF Plans
  <2>3. QED
    BY <2>1, <2>2
<1>14. OfCall(c)'
  BY <1>3, <1>7, <1>8, <1>13 DEF OfCall, Wires, AsSent
<1>15. Held'
  BY <1>0, <1>3, <1>7, <1>8, HeldStays DEF Pcs, Holding, Section, Ended
<1>16. Calm(c)
  BY <1>0, <1>7, <1>8, <1>9 DEF Calm, OthersKept, Told
<1>17. QED
  BY <1>14, <1>15, <1>16, CalmKeeps

(* Somebody edits the list, or a container comes, goes, starts or stops.    *)
Edits(c) ==
    /\ list' \in Lists /\ Listed(list') \subseteq exists'
    /\ hist'.late = hist.late /\ hist'.landed = hist.landed /\ hist'.stale = Overtaken(c)
    /\ hist'.last = [x \in Ids |-> hist'.last[x]]
    /\ \A x \in Ids : power'[x] = "unborn" => power[x] = "unborn" /\ hist'.last[x] = {}
    /\ \A x \in exists' : x \in exists \/ power[x] = "unborn"
    /\ \A x \in exists' : hist'.last[x] # {} =>
         /\ x \in exists /\ hist'.last[x] = hist.last[x]
         /\ x \in Listed(list') <=> x \in Listed(list)

LEMMA EditsKeep ==
    ASSUME ListInv, NEW c, Edits(c), \A d \in Calls \ {c} : call'[d] = call[d] /\ wire'[d] = wire[d]
    PROVE  Told' /\ \A d \in Calls \ {c} : OfCall(d)'
<1>0. Told
  BY DEF ListInv
<1>1. Told'
  <2>1. ASSUME ~hist'.late, NEW x \in exists', hist'.last[x] # {}
        PROVE  hist'.last[x] = {(x \in Listed(list'))}
    <3>1. /\ x \in exists /\ hist'.last[x] = hist.last[x] /\ ~hist.late
          /\ x \in Listed(list') <=> x \in Listed(list)
      BY <2>1 DEF Edits
    <3>2. hist.last[x] = {(x \in Listed(list))}
      BY <1>0, <2>1, <3>1 DEF Told
    <3>3. (x \in Listed(list')) = (x \in Listed(list))
      BY <3>1
    <3>4. QED
      BY <3>1, <3>2, <3>3
  <2>2. hist'.landed = [d \in Calls |-> hist'.landed[d]]
    BY <1>0 DEF Edits, Told
  <2>3. QED
    BY <2>1, <2>2 DEF Edits, Told
<1>2. ASSUME NEW d \in Calls \ {c} PROVE OfCall(d)'
  <2>1. /\ call'[d] = call[d] /\ wire'[d] = wire[d] /\ hist'.landed[d] = hist.landed[d]
    BY DEF Edits
  <2>2. \/ wire[d] = {} \/ d \in hist'.stale
        \/ list' = list /\ (d \in hist.stale => d \in hist'.stale)
    BY DEF Edits, Overtaken
  <2>3. /\ \A x \in Ids : power'[x] = "unborn" => power[x] = "unborn"
        /\ \A x \in exists' : x \in exists \/ power[x] = "unborn"
        /\ ~hist'.late => ~hist.late
        /\ \A x \in exists' : hist'.last[x] # {} =>
             /\ x \in exists /\ hist.last[x] # {}
             /\ x \in Listed(list') <=> x \in Listed(list)
    BY DEF Edits
  <2>4. QED
    BY <2>1, <2>2, <2>3, OthersKeep
<1>3. QED
  BY <1>1, <1>2

LEMMA UiListKeeps ==
    ASSUME VerbInv, ListInv, NEW x \in Ids, UiList(x)
    PROVE  ListInv'
<1>0. Observed /\ Held /\ Told
  BY DEF VerbInv, Shapes, ListInv
<1>1. PICK on \in BOOLEAN, wait \in Waits : list' = Entries(list, x, on, wait)
  BY DEF UiList
<1>2. /\ x \in exists /\ power' = power /\ lock' = lock /\ call' = call /\ wire' = wire
      /\ hist' = [hist EXCEPT !.last[x] = {}, !.stale = Overtaken("ui")]
  BY DEF UiList
<1>3. list' \in Lists /\ Listed(list') \ {x} = Listed(list) \ {x}
  BY <1>0, <1>1, EntriesAre DEF Told
<1>4. exists' = exists
  BY <1>2 DEF exists
<1>5. /\ hist'.last = [hist.last EXCEPT ![x] = {}] /\ hist'.stale = Overtaken("ui")
      /\ hist'.landed = hist.landed /\ hist'.late = hist.late
  BY <1>0, <1>2 DEF Observed
<1>6. /\ hist'.last = [y \in Ids |-> hist'.last[y]] /\ hist'.last[x] = {}
      /\ \A y \in Ids \ {x} : hist'.last[y] = hist.last[y]
  BY <1>0, <1>5 DEF Told
<1>7. Edits("ui")
  BY <1>0, <1>2, <1>3, <1>4, <1>5, <1>6 DEF Edits, Told, exists
<1>8. Told' /\ \A d \in Calls : OfCall(d)'
  BY <1>2, <1>7, EditsKeep, ConstantsAssumption
<1>9. Held'
  BY <1>0, <1>2 DEF Held
<1>10. QED
  BY <1>8, <1>9 DEF ListInv

LEMMA UiOrderListKeeps ==
    ASSUME VerbInv, ListInv, UiOrder
    PROVE  ListInv'
<1>0. Shapes /\ Observed /\ Held /\ Told
  BY DEF VerbInv, Shapes, ListInv
<1>1. /\ list' \in Orders(list) /\ power' = power /\ lock' = lock /\ call' = call /\ wire' = wire
      /\ hist' = [hist EXCEPT !.stale = Overtaken("ui")]
  BY DEF UiOrder
<1>2. list' \in Lists /\ Listed(list') = Listed(list)
  BY <1>0, <1>1, OrdersAre DEF Told, Listed
<1>3. exists' = exists
  BY <1>1 DEF exists
<1>4. /\ hist'.last = hist.last /\ hist'.stale = Overtaken("ui")
      /\ hist'.landed = hist.landed /\ hist'.late = hist.late
  BY <1>0, <1>1 DEF Observed
<1>5. Edits("ui")
  BY <1>0, <1>1, <1>2, <1>3, <1>4 DEF Edits, Told
<1>6. Told' /\ \A d \in Calls : OfCall(d)'
  BY <1>1, <1>5, EditsKeep, ConstantsAssumption
<1>7. Held'
  BY <1>0, <1>1 DEF Held
<1>8. QED
  BY <1>6, <1>7 DEF ListInv

LEMMA UiPowerListKeeps ==
    ASSUME VerbInv, ListInv, NEW x \in Ids, UiPower(x)
    PROVE  ListInv'
<1>0. Shapes /\ Observed /\ Held /\ Told
  BY DEF VerbInv, Shapes, ListInv
<1>1. /\ x \in exists /\ list' = list /\ lock' = lock /\ call' = call /\ wire' = wire
      /\ hist' = [hist EXCEPT !.woken = Woken(x), !.acted = Acted(x, "ui")]
  BY DEF UiPower
<1>2. PICK p \in {"running", "exited"} : power' = [power EXCEPT ![x] = p]
  BY DEF UiPower
<1>3. power'[x] = p /\ \A y \in Ids \ {x} : power'[y] = power[y]
  BY <1>0, <1>2 DEF Shapes
<1>4. exists' = exists
  BY <1>1, <1>3 DEF exists
<1>5. /\ hist'.last = hist.last /\ hist'.stale = hist.stale
      /\ hist'.landed = hist.landed /\ hist'.late = hist.late
  BY <1>0, <1>1 DEF Observed
<1>6. Edits("ui")
  BY <1>0, <1>1, <1>3, <1>4, <1>5 DEF Edits, Told, exists, Overtaken
<1>7. Told' /\ \A d \in Calls : OfCall(d)'
  BY <1>1, <1>6, EditsKeep, ConstantsAssumption
<1>8. Held'
  BY <1>0, <1>1 DEF Held
<1>9. QED
  BY <1>7, <1>8 DEF ListInv

LEMMA UiCreateListKeeps ==
    ASSUME VerbInv, ListInv, NEW x \in Ids, UiCreate(x)
    PROVE  ListInv'
<1> DEFINE e == [id |-> x, wait |-> NoWait]
           made == [d \in Calls |-> IF UnderWay(d) THEN hist.made[d] \cup {x} ELSE hist.made[d]]
<1>0. Shapes /\ Observed /\ Held /\ Told
  BY DEF VerbInv, Shapes, ListInv
<1>1. /\ power[x] = "unborn" /\ power' = [power EXCEPT ![x] = "running"]
      /\ list' \in {list, Append(list, e)} /\ lock' = lock /\ call' = call /\ wire' = wire
      /\ hist' = [hist EXCEPT !.woken = Woken(x), !.stale = Overtaken("ui"), !.made = made]
  BY DEF UiCreate
<1>2. power'[x] = "running" /\ \A y \in Ids \ {x} : power'[y] = power[y]
  BY <1>0, <1>1 DEF Shapes
<1>3. exists' = exists \cup {x} /\ x \notin exists
  BY <1>1, <1>2 DEF exists
<1>4. e \in Item /\ e.id = x
  BY DEF Item
<1> HIDE DEF e, made
<1>5. list' \in Lists /\ Listed(list') \subseteq Listed(list) \cup {x}
      /\ Listed(list) \subseteq Listed(list')
  BY <1>0, <1>1, <1>3, <1>4, AppendListed DEF Told
<1>6. /\ hist'.last = hist.last /\ hist'.stale = Overtaken("ui")
      /\ hist'.landed = hist.landed /\ hist'.late = hist.late
  BY <1>0, <1>1 DEF Observed
<1>7. hist.last[x] = {} /\ Listed(list) \subseteq exists
  BY <1>0, <1>1 DEF Told
<1>8. Edits("ui")
  BY <1>0, <1>1, <1>2, <1>3, <1>5, <1>6, <1>7 DEF Edits, Told
<1>9. Told' /\ \A d \in Calls : OfCall(d)'
  BY <1>1, <1>8, EditsKeep, ConstantsAssumption
<1>10. Held'
  BY <1>0, <1>1 DEF Held
<1>11. QED
  BY <1>9, <1>10 DEF ListInv

(* A verb's request lands: remove takes its container off the list.         *)
LEMMA LandsListKeeps ==
    ASSUME VerbInv, ListInv, NEW c \in Calls, NEW op \in DOMAIN After, LandsVerb(c, op)
    PROVE  ListInv'
<1> DEFINE x == call[c].id
<1>0. Shapes /\ Observed /\ Planned(c) /\ Held /\ Told /\ OfCall(c)
  BY DEF VerbInv, Shapes, ListInv
<1>1. /\ x \in exists /\ power' = [power EXCEPT ![x] = After[op]] /\ lock' = lock
      /\ list' = (IF op = "remove" THEN Without(list, x) ELSE list)
      /\ wire' = [wire EXCEPT ![c] = {}] /\ Sent(c, op)
      /\ hist' = [hist EXCEPT !.woken = Woken(x), !.acted = Acted(x, c), !.stale = Overtaken(c)]
  BY DEF LandsVerb, Applicable
<1>2. call[c].pc \notin {"idle", "next", "read"}
  BY <1>0, <1>1 DEF Planned, Sent, OfCall, Wires
<1>3. /\ \A d \in Calls \ {c} : call'[d] = call[d]
      /\ call'[c].id = call[c].id /\ call'[c].force = call[c].force /\ call'[c].on = call[c].on
      /\ call'[c].ids = call[c].ids /\ call'[c].seen = call[c].seen
      /\ call'[c].entries = call[c].entries
      /\ \/ call'[c].pc = call[c].pc
         \/ call'[c].pc = "next" /\ call[c].pc = "waiting"
  <2>1. CASE call[c].pc = "waiting"
    <3>1. call' = [call EXCEPT ![c].pc = "next"]
      BY <2>1 DEF LandsVerb
    <3>2. QED
      BY <1>0, <2>1, <3>1, GoesTo DEF Alike
  <2>2. CASE call[c].pc # "waiting"
    BY <2>2 DEF LandsVerb
  <2>3. QED
    BY <2>1, <2>2
<1>4. wire'[c] = {} /\ \A d \in Calls \ {c} : wire'[d] = wire[d]
  BY <1>0, <1>1 DEF Shapes
<1>5. /\ hist'.last = hist.last /\ hist'.stale = Overtaken(c)
      /\ hist'.landed = hist.landed /\ hist'.late = hist.late
  BY <1>0, <1>1 DEF Observed
<1>6. x \in Ids /\ power[x] # "unborn" /\ After[op] # "unborn" /\ (After[op] = "gone" <=> op = "remove")
  BY <1>1 DEF exists, After
<1> HIDE DEF x
<1>7. power'[x] = After[op] /\ \A y \in Ids \ {x} : power'[y] = power[y]
  BY <1>0, <1>1, <1>6 DEF Shapes
<1>8. exists' = IF op = "remove" THEN exists \ {x} ELSE exists
  BY <1>1, <1>6, <1>7 DEF exists
<1>9. Without(list, x) \in Lists /\ Listed(Without(list, x)) = Listed(list) \ {x}
  BY <1>0, WithoutListed DEF Told
<1>10. Edits(c)
  BY <1>0, <1>1, <1>5, <1>6, <1>7, <1>8, <1>9 DEF Edits, Told
<1>11. Told' /\ \A d \in Calls \ {c} : OfCall(d)'
  BY <1>3, <1>4, <1>10, EditsKeep
<1>12. \A y \in Ids : power'[y] = "unborn" => power[y] = "unborn"
  BY <1>6, <1>7
<1>13. Plans(c)'
  BY <1>0, <1>3, <1>12 DEF OfCall, Plans, PlannedOn, Spares, Section
<1>14. OfCall(c)'
  BY <1>2, <1>3, <1>4, <1>13 DEF OfCall, Wires, AsSent
<1>15. Held'
  BY <1>0, <1>1, <1>3, HeldStays DEF Held, Pcs, Holding, Section
<1>16. QED
  BY <1>11, <1>14, <1>15 DEF ListInv

(* A list lands: but for the target's entry it is the list it replaces, and *)
(* no other call is in the section to be surprised by it.                   *)
LEMMA LandsAutostartKeeps ==
    ASSUME VerbInv, ListInv, NEW c \in Calls, LandsAutostart(c)
    PROVE  ListInv'
<1> DEFINE x == call[c].id
           here == call[c].pc = "sent"
<1>0. Shapes /\ Observed /\ Planned(c) /\ Held /\ Told /\ OfCall(c)
  BY DEF VerbInv, Shapes, ListInv
<1>1. PICK m \in wire[c] : m.op = "autostart" /\ list' = Among(m.entries, exists)
  BY <1>0 DEF LandsAutostart, Sent, OfCall, Wires
<1>2. OnWire(c, m) /\ x \in Ids
  BY <1>0, <1>1 DEF OfCall, Wires, OnWire
<1>3. /\ wire' = [wire EXCEPT ![c] = {}] /\ power' = power /\ lock' = lock
      /\ call' = IF here THEN [call EXCEPT ![c].pc = "read"] ELSE call
      /\ hist' = [hist EXCEPT !.stale = Overtaken(c), !.late = @ \/ ~here,
                              !.landed[c] = IF here THEN list' ELSE <<>>, !.last[x] = {}]
  BY DEF LandsAutostart
<1>4. exists' = exists
  BY <1>3 DEF exists
<1>5. /\ hist'.stale = Overtaken(c) /\ hist'.late = (hist.late \/ ~here)
      /\ hist'.landed = [hist.landed EXCEPT ![c] = IF here THEN list' ELSE <<>>]
      /\ hist'.last = [hist.last EXCEPT ![x] = {}]
  BY <1>0, <1>3 DEF Observed
<1>6. /\ hist'.landed = [d \in Calls |-> hist'.landed[d]]
      /\ hist'.landed[c] = (IF here THEN list' ELSE <<>>)
      /\ \A d \in Calls \ {c} : hist'.landed[d] = hist.landed[d]
      /\ hist'.last = [y \in Ids |-> hist'.last[y]] /\ hist'.last[x] = {}
      /\ \A y \in Ids \ {x} : hist'.last[y] = hist.last[y]
  BY <1>0, <1>2, <1>5 DEF Told
<1>7. list' \in Lists /\ Listed(list') = Listed(m.entries) \cap exists
  BY <1>1, <1>2, AmongListed DEF OnWire
<1>8. wire'[c] = {} /\ \A d \in Calls \ {c} : wire'[d] = wire[d]
  BY <1>0, <1>3 DEF Shapes
<1>9. /\ \A d \in Calls \ {c} : call'[d] = call[d]
      /\ call'[c].id = call[c].id /\ call'[c].force = call[c].force /\ call'[c].on = call[c].on
      /\ call'[c].ids = call[c].ids /\ call'[c].seen = call[c].seen
      /\ call'[c].entries = call[c].entries
      /\ call'[c].pc = IF here THEN "read" ELSE call[c].pc
  <2>1. CASE here
    <3>1. call' = [call EXCEPT ![c].pc = "read"]
      BY <1>3, <2>1
    <3>2. /\ \A d \in Calls \ {c} : call'[d] = call[d]
          /\ call'[c].pc = "read" /\ Alike(call'[c], call[c])
          /\ call'[c].on = call[c].on /\ call'[c].ids = call[c].ids
          /\ call'[c].seen = call[c].seen /\ call'[c].entries = call[c].entries
      BY <1>0, <3>1, GoesTo
    <3>3. QED
      BY <2>1, <3>2 DEF Alike
  <2>2. CASE ~here
    BY <1>3, <2>2
  <2>3. QED
    BY <2>1, <2>2
<1>10. call[c].pc # "read"
  BY <1>0, <1>1 DEF OfCall, Wires
<1>11. here => call[c].pc \in Holding /\ call[c].pc \in Section /\ m.entries = call[c].entries
  BY <1>2 DEF OnWire, Holding, Section
<1>12. ~hist'.late => here /\ ~hist.late
  BY <1>5
<1> HIDE DEF x, here
<1>13. Told'
  <2>1. ASSUME ~hist'.late, NEW y \in exists, hist'.last[y] # {}
        PROVE  hist'.last[y] = {(y \in Listed(list'))}
    <3>1. y \in Ids /\ y # x /\ here /\ ~hist.late
      BY <1>6, <1>12, <2>1 DEF exists
    <3>2. hist'.last[y] = hist.last[y] /\ hist.last[y] # {}
      BY <1>6, <2>1, <3>1
    <3>3. y \in Listed(m.entries) <=> y \in Listed(list)
      BY <1>2, <2>1, <3>1, <3>2 DEF OnWire, x, here
    <3>4. hist.last[y] = {(y \in Listed(list))}
      BY <1>0, <2>1, <3>1, <3>2 DEF Told
    <3>5. (y \in Listed(list')) = (y \in Listed(list))
      BY <1>7, <2>1, <3>3
    <3>6. QED
      BY <3>2, <3>4, <3>5
  <2>2. \A y \in Ids : power'[y] = "unborn" => hist'.last[y] = {}
    BY <1>0, <1>3, <1>6 DEF Told
  <2>3. QED
    BY <1>4, <1>6, <1>7, <2>1, <2>2 DEF Told
<1>14. ASSUME NEW d \in Calls \ {c} PROVE OfCall(d)'
  <2>1. /\ call'[d] = call[d] /\ wire'[d] = wire[d] /\ hist'.landed[d] = hist.landed[d]
    BY <1>6, <1>8, <1>9
  <2>2. \/ wire[d] = {} \/ d \in hist'.stale
        \/ list' = list /\ (d \in hist.stale => d \in hist'.stale)
    BY <1>5 DEF Overtaken
  <2>3. ~hist'.late => call[d].pc # "sent"
    BY <1>0, <1>11, <1>12 DEF Held, Holding, Section
  <2>4. QED
    BY <1>3, <1>4, <2>1, <2>2, <2>3, OthersKeep
<1>15. Plans(c)'
  <2>1. call'[c].pc \in Section => call[c].pc \in Section
    BY <1>9, <1>11
  <2>2. QED
    BY <1>0, <1>3, <1>9, <2>1 DEF OfCall, Plans, PlannedOn, Spares
<1>16. AsSent(c)'
  <2> SUFFICES ASSUME here, call[c].ids \subseteq exists PROVE list' = call[c].entries
    BY <1>4, <1>6, <1>9, <1>10 DEF AsSent
  <2>1. /\ call[c].entries \in Lists /\ call[c].seen \in Lists /\ x \in Ids
        /\ call[c].on \in BOOLEAN /\ PlannedOn(c, call[c].seen, call[c].entries)
        /\ x \in call[c].ids /\ Listed(call[c].seen) \subseteq call[c].ids
    BY <1>0, <1>11 DEF OfCall, Plans, x
  <2>3. Listed(call[c].entries) \ {x} = Listed(call[c].seen) \ {x}
    BY <2>1, OthersListed DEF PlannedOn, x
  <2>4. Listed(call[c].entries) \subseteq exists
    BY <2>1, <2>3
  <2>5. QED
    BY <1>1, <1>11, <2>1, <2>4, AmongListedAll
<1>17. OfCall(c)'
  BY <1>8, <1>15, <1>16 DEF OfCall, Wires
<1>18. Held'
  BY <1>0, <1>3, <1>9, <1>11, HeldStays DEF Held, Pcs, Holding, Section
<1>19. QED
  BY <1>13, <1>14, <1>17, <1>18 DEF ListInv

LEMMA ListInductive == VerbInv /\ ListInv /\ [Next]_vars => ListInv'
<1> SUFFICES ASSUME VerbInv, ListInv, [Next]_vars PROVE ListInv'
  OBVIOUS
<1>1. ASSUME NEW c \in Calls, Begin(c) PROVE ListInv'
  BY <1>1, BeginListKeeps
<1>2. ASSUME NEW c \in Calls, Autostart(c) PROVE ListInv'
  <2>1. CASE TakeLock(c)
    BY <2>1, TakeLockKeeps
  <2>2. CASE CheckFresh(c)
    BY <2>2, CheckFreshKeeps
  <2>3. CASE ReadBack(c)
    BY <2>3, ReadBackKeeps
  <2>4. CASE SectionFails(c) \/ TimesOut(c)
    BY <2>4, EndKeeps DEF SectionFails, TimesOut, Release, Ended
  <2>5. QED
    BY <1>2, <2>1, <2>2, <2>3, <2>4 DEF Autostart
<1>3. ASSUME NEW c \in Calls, Send(c) \/ Lost(c) PROVE ListInv'
  BY <1>3, SendListKeeps, LostKeeps
<1>4. ASSUME NEW c \in Calls, RequestFails(c) PROVE ListInv'
  BY <1>4, EndKeeps DEF RequestFails, Ended, Holding, Section
<1>5. ASSUME NEW c \in Calls, Unraid(c) PROVE ListInv'
  BY <1>5, LandsListKeeps, LandsAutostartKeeps, LostKeeps DEF Unraid
<1>6. ASSUME NEW x \in Ids, UiList(x) \/ UiPower(x) \/ UiCreate(x) PROVE ListInv'
  BY <1>6, UiListKeeps, UiPowerListKeeps, UiCreateListKeeps
<1>7. CASE UiOrder
  BY <1>7, UiOrderListKeeps
<1>8. CASE UNCHANGED vars
  BY <1>8, NothingListKeeps
<1>9. QED
  BY <1>1, <1>2, <1>3, <1>4, <1>5, <1>6, <1>7, <1>8 DEF Next

(* The list starts with distinct containers of the endpoint.                *)
LEMMA SetToSeqIs ==
    ASSUME NEW S, IsFiniteSet(S)
    PROVE  /\ Cardinality(S) \in Nat
           /\ SetToSeq(S) \in [1 .. Cardinality(S) -> S] /\ IsInjective(SetToSeq(S))
<1>1. Cardinality(S) \in Nat /\ ExistsBijection(1 .. Cardinality(S), S)
  BY FS_CardinalityType
<1>2. \E f \in [1 .. Cardinality(S) -> S] : IsInjective(f)
  BY <1>1 DEF ExistsBijection, Bijection, Injection
<1>3. QED
  BY <1>1, <1>2, Zenon DEF SetToSeq

LEMMA ListInit == Init => ListInv
<1> SUFFICES ASSUME Init PROVE ListInv
  OBVIOUS
<1>1. PICK listed \in SUBSET exists :
        list = [i \in 1 .. Cardinality(listed) |-> [id |-> SetToSeq(listed)[i], wait |-> NoWait]]
  BY DEF Init
<1> DEFINE n == Cardinality(listed)
           s == SetToSeq(listed)
<1>2. IsFiniteSet(listed)
  <2>1. listed \subseteq Ids
    BY DEF exists
  <2>2. QED
    BY <2>1, ConstantsAssumption, FS_Subset
<1>3. n \in Nat /\ s \in [1 .. n -> listed] /\ \A i, j \in 1 .. n : s[i] = s[j] => i = j
  BY <1>2, SetToSeqIs DEF IsInjective
<1>4. list = [i \in 1 .. n |-> [id |-> s[i], wait |-> NoWait]]
  BY <1>1
<1>5. \A y \in listed : y \in Ids /\ y \in exists
  BY DEF exists
<1> HIDE DEF n, s
<1>6. list \in Seq(Item) /\ Len(list) = n /\ \A i \in 1 .. n : list[i].id = s[i]
  <2>1. \A i \in 1 .. n : [id |-> s[i], wait |-> NoWait] \in Item
    BY <1>3, <1>5 DEF Item
  <2>2. QED
    BY <1>3, <1>4, <2>1
<1>7. list \in Lists
  <2>1. Distinct(list)
    BY <1>3, <1>6 DEF Distinct
  <2>2. QED
    BY <1>6, <2>1, ListsAre
<1>8. Listed(list) \subseteq exists
  BY <1>3, <1>5, <1>6, <1>7, ListedIs
<1>9. /\ lock = {} /\ hist.last = [x \in Ids |-> {}] /\ hist.landed = [c \in Calls |-> <<>>]
      /\ \A c \in Calls : call[c] = NoCall /\ wire[c] = {}
  BY DEF Init
<1>10. \A c \in Calls : call[c].pc = "idle" /\ call[c].seen = <<>> /\ call[c].entries = <<>>
  BY <1>9 DEF NoCall
<1>11. Held
  BY <1>9, <1>10 DEF Held, Pcs, Holding, Section
<1>12. Told
  BY <1>7, <1>8, <1>9 DEF Told, exists
<1>13. ASSUME NEW c \in Calls PROVE OfCall(c)
  BY <1>9, <1>10, NothingListed DEF OfCall, Plans, Wires, AsSent, Section
<1>14. QED
  BY <1>11, <1>12, <1>13 DEF ListInv

LEMMA ListHolds == Spec => [](VerbInv /\ ListInv)
<1>1. VerbInv /\ ListInv /\ [Next]_vars => (VerbInv /\ ListInv)'
  BY VerbInductive, ListInductive
<1>2. QED
  BY <1>1, VerbInit, ListInit, PTL DEF Spec

(* What an autostart call reported as applied stays so until somebody edits *)
(* that container's entry: write_autostart holds the endpoint's lock from   *)
(* the fresh reading to the reading back, so no other call's list replaces  *)
(* the one it wrote, unless a call gave up on a request that landed.        *)
THEOREM AppliedStays == Spec => []AppliedHolds
<1>1. VerbInv /\ ListInv => AppliedHolds
  <2> SUFFICES ASSUME VerbInv, ListInv PROVE AppliedHolds
    OBVIOUS
  <2>0. Shapes /\ Held /\ Told
    BY DEF VerbInv, ListInv
  <2>1. power \in [Ids -> Up \cup {"exited", "unborn", "gone"}]
    BY <2>0 DEF Shapes, Powers
  <2>2. lock = {} \/ \E c \in Calls : lock = {c} /\ call[c].pc \in {"check", "sent", "read"}
    BY <2>0 DEF Held, Holding, Section
  <2>3. ASSUME NEW c \in Calls
        PROVE  call[c].pc \in {"idle", "lock", "check", "sent", "read", "next", "waiting"} \cup Ended
    BY <2>0 DEF Held, Pcs, Section
  <2>4. QED
    BY <2>0, <2>1, <2>2, <2>3 DEF AppliedHolds, TypeOK, Told
<1>2. QED
  BY <1>1, ListHolds, PTL

(* Only a list that lands puts another in place as its request leaves the   *)
(* wire.                                                                    *)
LEMMA RewritesLands ==
    ASSUME VerbInv, ListInv, [Next]_vars, NEW c \in Calls, Rewrites(c)
    PROVE  LandsAutostart(c)
<1>0. Shapes /\ Planned(c) /\ Wires(c)
  BY DEF VerbInv, ListInv, OfCall
<1>1. wire[c] # {} /\ wire'[c] = {} /\ list' # list
  BY DEF Rewrites, Sent
<1>2. PICK m \in wire[c] : m.op = "autostart"
  BY DEF Rewrites, Sent
<1>3. ASSUME NEW d \in Calls, NEW op \in DOMAIN After, LandsVerb(d, op) PROVE FALSE
  <2>1. wire' = [wire EXCEPT ![d] = {}] /\ Sent(d, op) /\ op # "autostart"
    BY <1>3 DEF LandsVerb, After
  <2>2. d = c
    BY <1>0, <1>1, <2>1 DEF Shapes
  <2>3. QED
    BY <1>0, <1>2, <2>1, <2>2 DEF Sent, Wires
<1>4. ASSUME NEW d \in Calls, LandsAutostart(d) PROVE d = c
  BY <1>0, <1>1, <1>4 DEF LandsAutostart, Shapes
<1>5. ASSUME NEW d \in Calls, Begin(d) \/ Autostart(d) \/ Send(d) \/ RequestFails(d) \/ Lost(d)
      PROVE  FALSE
  BY <1>1, <1>5 DEF Begin, Autostart, TakeLock, CheckFresh, ReadBack, SectionFails, TimesOut,
                    Send, RequestFails, Lost
<1>6. CASE (\E x \in Ids : UiList(x) \/ UiPower(x) \/ UiCreate(x)) \/ UiOrder \/ UNCHANGED vars
  BY <1>1, <1>6 DEF UiList, UiOrder, UiPower, UiCreate, vars
<1>7. QED
  BY <1>3, <1>4, <1>5, <1>6 DEF Next, Unraid

(* A planned list, with what is gone dropped, is the present one but for    *)
(* the target: without its entry the two are the same.                      *)
LEMMA LandedIs ==
    ASSUME NEW l \in Lists, NEW X, Listed(l) \subseteq X, NEW x \in Ids, NEW on \in BOOLEAN,
           NEW wait \in Waits \cup {NoWait}, NEW k, k = Among(Entries(l, x, on, wait), X)
    PROVE  /\ Without(k, x) = Without(l, x)
           /\ Listed(k) = IF on /\ x \in X THEN Listed(l) \cup {x} ELSE Listed(l) \ {x}
<1> DEFINE e == Entries(l, x, on, wait)
           it == [id |-> x, wait |-> wait]
<1>1. /\ e \in Lists /\ Listed(e) \ {x} = Listed(l) \ {x} /\ (on <=> x \in Listed(e))
      /\ Without(e, x) = Without(l, x)
  BY EntriesAre
<1>2. CASE Listed(e) \subseteq X
  <2>1. Among(e, X) = e
    BY <1>1, <1>2, AmongListedAll
  <2>2. x \in Listed(e) => x \in X
    BY <1>2
  <2> HIDE DEF e
  <2>3. Without(Among(e, X), x) = Without(l, x)
    BY <1>1, <2>1
  <2>4. Listed(Among(e, X)) = IF on /\ x \in X THEN Listed(l) \cup {x} ELSE Listed(l) \ {x}
    BY <1>1, <2>1, <2>2
  <2>5. QED
    BY <2>3, <2>4 DEF e
<1>3. CASE ~(Listed(e) \subseteq X)
  <2>1. x \in Listed(e) /\ x \notin X /\ on /\ x \notin Listed(l)
    BY <1>1, <1>3
  <2>2. e = Append(l, it)
    BY <2>1 DEF Entries
  <2>3. it \in Item /\ it.id = x /\ l \in Seq(Item)
    BY ListsAre DEF Item
  <2> HIDE DEF e, it
  <2>4. Among(e, X) = Among(l, X)
    BY <2>1, <2>2, <2>3, AmongAppend
  <2>5. Among(l, X) = l
    BY AmongListedAll
  <2>6. Without(Among(e, X), x) = Without(l, x) /\ Listed(Among(e, X)) = Listed(l) \ {x}
    BY <2>1, <2>4, <2>5
  <2>7. QED
    BY <2>1, <2>6 DEF e
<1>4. QED
  BY <1>2, <1>3

(* A rewrite of the autostart list changes the target's entry and nothing   *)
(* else, not even the order of the others where Unraid reports it, unless   *)
(* the list changed under a request already on the wire; without force it takes no protected         *)
(* container off: autostart_entries plans from the reading that             *)
(* write_autostart compares under the lock, and require_force looked at.    *)
THEOREM OnlyTheTargetChanges == Spec => LeavesOthersAlone
<1>1. ASSUME VerbInv, ListInv, [Next]_vars, NEW c \in Calls, Rewrites(c)
      PROVE  /\ Others(list', call[c].id) = Others(list, call[c].id)
             /\ c \in Ordered => Without(list', call[c].id) = Without(list, call[c].id)
             /\ call[c].force \/ Listed(list) \cap Protected \subseteq Listed(list')
  <2> DEFINE x == call[c].id
  <2>1. LandsAutostart(c)
    BY <1>1, RewritesLands
  <2>2. Wires(c) /\ Told
    BY <1>1 DEF ListInv, OfCall
  <2>3. PICK m \in wire[c] : m.op = "autostart" /\ list' = Among(m.entries, exists)
    BY <2>1, <2>2 DEF LandsAutostart, Sent, Wires
  <2>4. c \notin hist.stale
    BY <1>1 DEF Rewrites
  <2>5. x \in Ids /\ call[c].on \in BOOLEAN /\ PlannedOn(c, list, m.entries) /\ Spares(c, list)
    BY <2>2, <2>3, <2>4 DEF Wires, OnWire
  <2>6. m.entries \in Lists
    BY <2>2, <2>3 DEF Wires, OnWire
  <2>7. list \in Lists /\ Listed(list) \subseteq exists
    BY <2>2 DEF Told
  <2> HIDE DEF x
  <2>a. /\ call[c].on <=> x \in Listed(m.entries)
        /\ Others(m.entries, x) = Others(list, x)
        /\ c \in Ordered =>
             \E wait \in Waits \cup {NoWait} : m.entries = Entries(list, x, call[c].on, wait)
    BY <2>5 DEF PlannedOn, x
  <2>b. Others(list', x) = Others(list, x)
    <3>1. ToSet(list') = {e \in ToSet(m.entries) : e.id \in exists}
      BY <2>3, <2>6, AmongItems
    <3>2. \A e \in Others(list, x) : e.id \in exists
      BY <2>7 DEF Others, Listed
    <3>3. QED
      BY <2>a, <3>1, <3>2 DEF Others
  <2>c. c \in Ordered => Without(list', x) = Without(list, x)
    <3>1. SUFFICES ASSUME c \in Ordered PROVE Without(list', x) = Without(list, x)
      OBVIOUS
    <3>2. PICK wait \in Waits \cup {NoWait} : m.entries = Entries(list, x, call[c].on, wait)
      BY <2>a, <3>1
    <3>3. list' = Among(Entries(list, x, call[c].on, wait), exists)
      BY <2>3, <3>2
    <3>4. ASSUME NEW on \in BOOLEAN, on = call[c].on PROVE Without(list', x) = Without(list, x)
      <4>1. list' = Among(Entries(list, x, on, wait), exists)
        BY <3>3, <3>4
      <4>2. x \in Ids /\ list \in Lists /\ Listed(list) \subseteq exists
        BY <2>5, <2>7
      <4>3. QED
        BY <4>1, <4>2, LandedIs
    <3>5. QED
      BY <2>5, <3>4
  <2>8. /\ Listed(list') \ {x} = Listed(list) \ {x}
        /\ call[c].on /\ x \in exists => x \in Listed(list')
    <3>1. Listed(list') \ {x} = Listed(list) \ {x}
      BY <2>b, OthersListed
    <3>2. Listed(list') = Listed(m.entries) \cap exists
      BY <2>3, <2>6, AmongListed
    <3>3. QED
      BY <2>a, <3>1, <3>2
  <2>9. ASSUME ~call[c].force, NEW y \in Listed(list) \cap Protected PROVE y \in Listed(list')
    <3>1. CASE y # x
      BY <2>8, <2>9, <3>1
    <3>2. CASE y = x
      BY <2>5, <2>7, <2>8, <2>9, <3>2 DEF Spares, x
    <3>3. QED
      BY <3>1, <3>2
  <2>10. QED
    BY <2>b, <2>c, <2>9 DEF x
<1>2. VerbInv /\ ListInv /\ [Next]_vars =>
        [\A c \in Calls : Rewrites(c) =>
           /\ Others(list', call[c].id) = Others(list, call[c].id)
           /\ c \in Ordered => Without(list', call[c].id) = Without(list, call[c].id)
           /\ call[c].force \/ Listed(list) \cap Protected \subseteq Listed(list')]_vars
  BY <1>1
<1>3. QED
  BY <1>2, ListHolds, PTL DEF Spec, LeavesOthersAlone

(* Two lists that agree on the rank of every container have its entries in  *)
(* the same places.                                                         *)
LEMMA SameRanks ==
    ASSUME NEW l \in Lists, NEW k \in Lists, NEW X, Listed(l) \subseteq X, Listed(k) \subseteq X,
           \A x \in X : /\ x \in Listed(l) <=> x \in Listed(k)
                        /\ x \in Listed(l) => Rank(l, x) = Rank(k, x)
    PROVE  Len(l) = Len(k) /\ \A i \in 1 .. Len(l) : l[i].id = k[i].id
<1>1. Len(l) \in Nat /\ Len(k) \in Nat
  BY ListsAre
<1>2. ASSUME NEW i \in 1 .. Len(l) PROVE i \in 1 .. Len(k) /\ l[i].id = k[i].id
  <2>1. l[i].id \in Listed(l)
    BY ListedIs
  <2>2. Rank(l, l[i].id) = i
    BY <2>1, RankIs
  <2>3. l[i].id \in Listed(k) /\ Rank(k, l[i].id) = i
    BY <2>1, <2>2
  <2>4. QED
    BY <2>3, RankIs
<1>3. ASSUME NEW i \in 1 .. Len(k) PROVE i \in 1 .. Len(l)
  <2>1. k[i].id \in Listed(k)
    BY ListedIs
  <2>2. Rank(k, k[i].id) = i
    BY <2>1, RankIs
  <2>3. k[i].id \in Listed(l) /\ Rank(l, k[i].id) = i
    BY <2>1, <2>2
  <2>4. QED
    BY <2>3, RankIs
<1>4. Len(l) = Len(k)
  <2>1. Len(l) > 0 => Len(l) \in 1 .. Len(k)
    BY <1>1, <1>2
  <2>2. Len(k) > 0 => Len(k) \in 1 .. Len(l)
    BY <1>1, <1>3
  <2>3. QED
    BY <1>1, <2>1, <2>2
<1>5. QED
  BY <1>2, <1>4

(* Only the reading back of a call's own section reports it as applied.     *)
LEMMA AppliesInReadBack ==
    ASSUME VerbInv, [Next]_vars, NEW c \in Calls, call[c].pc = "read", call'[c].pc = "applied"
    PROVE  ReadBack(c)
<1>0. Shapes
  BY DEF VerbInv
<1>1. ASSUME NEW d \in Calls, NEW pc, call' = [call EXCEPT ![d].pc = pc], pc # "applied"
      PROVE  FALSE
  <2>1. call'[d].pc = pc /\ \A e \in Calls \ {d} : call'[e] = call[e]
    BY <1>0, <1>1, GoesTo
  <2>2. QED
    BY <1>1, <2>1
<1>2. ASSUME NEW d \in Calls, NEW pc, End(d, pc), d # c \/ pc # "applied"
      PROVE  FALSE
  <2>1. call'[d].pc = pc /\ \A e \in Calls \ {d} : call'[e] = call[e]
    BY <1>0, <1>2, Ends
  <2>2. QED
    BY <1>2, <2>1
<1>3. ASSUME NEW d \in Calls, Begin(d) PROVE FALSE
  <2>1. call[d].pc = "idle" /\ \A e \in Calls \ {d} : call'[e] = call[e]
    BY <1>3, BeginDoes
  <2>2. QED
    BY <2>1
<1>4. ASSUME NEW d \in Calls, Autostart(d), ~ReadBack(c) PROVE FALSE
  <2>1. CASE TakeLock(d)
    BY <1>1, <2>1 DEF TakeLock, At
  <2>2. CASE CheckFresh(d)
    BY <1>1, <1>2, <2>2 DEF CheckFresh, At
  <2>3. CASE ReadBack(d)
    BY <1>2, <1>4, <2>3 DEF ReadBack
  <2>4. CASE SectionFails(d) \/ TimesOut(d)
    BY <1>2, <2>4 DEF SectionFails, TimesOut
  <2>5. QED
    BY <1>4, <2>1, <2>2, <2>3, <2>4 DEF Autostart
<1>5. ASSUME NEW d \in Calls, Send(d) PROVE FALSE
  <2>1. CASE call[d].todo = <<>>
    BY <1>2, <1>5, <2>1 DEF Send
  <2>2. CASE call[d].todo # <<>>
    <3>1. d # c /\ call' = [call EXCEPT ![d].pc = "waiting", ![d].todo = Tail(@)]
      BY <1>5, <2>2 DEF Send
    <3>2. call'[c] = call[c]
      BY <1>0, <3>1 DEF Shapes
    <3>3. QED
      BY <3>2
  <2>3. QED
    BY <2>1, <2>2
<1>6. ASSUME NEW d \in Calls, RequestFails(d) \/ Lost(d) PROVE FALSE
  BY <1>2, <1>6 DEF RequestFails, Lost
<1>7. ASSUME NEW d \in Calls, NEW op \in DOMAIN After, LandsVerb(d, op) PROVE FALSE
  <2>1. call' = call \/ call' = [call EXCEPT ![d].pc = "next"]
    BY <1>7 DEF LandsVerb
  <2>2. QED
    BY <1>1, <2>1
<1>8. ASSUME NEW d \in Calls, LandsAutostart(d) PROVE FALSE
  <2>1. call' = call \/ call' = [call EXCEPT ![d].pc = "read"]
    BY <1>8 DEF LandsAutostart
  <2>2. QED
    BY <1>1, <2>1
<1>9. CASE (\E x \in Ids : UiList(x) \/ UiPower(x) \/ UiCreate(x)) \/ UiOrder \/ UNCHANGED vars
  BY <1>9 DEF UiList, UiOrder, UiPower, UiCreate, vars
<1>10. QED
  BY <1>3, <1>4, <1>5, <1>6, <1>7, <1>8, <1>9 DEF Next, Unraid

(* A call that reports its list as applied, with no other container named,  *)
(* read back the list that landed: the same containers with the waits that  *)
(* were sent, in the same order where Unraid reports it.  verify_autostart  *)
(* compares every container's wait, its rank if the reading holds one, and  *)
(* names those it does not know.                                            *)
THEOREM AppliedIsAsRead == Spec => AppliedMeansUntouched
<1>1. ASSUME VerbInv, ListInv, [Next]_vars, NEW c \in Calls,
             call[c].pc = "read", call'[c].pc = "applied"
      PROVE  /\ SameButUnsent(hist.landed[c], list)
             /\ c \in Ordered => InTheSameOrder(hist.landed[c], list)
  <2> DEFINE sent == call[c].entries
  <2>0. Shapes /\ Told /\ Held /\ OfCall(c) /\ Plans(c) /\ AsSent(c)
    BY <1>1 DEF VerbInv, ListInv, OfCall
  <2>1. ReadBack(c)
    BY <1>1, AppliesInReadBack
  <2>2. Verdict(c) = "applied"
    <3>1. End(c, Verdict(c))
      BY <2>1 DEF ReadBack
    <3>2. call'[c].pc = Verdict(c)
      BY <2>0, <3>1, Ends
    <3>3. QED
      BY <1>1, <3>2
  <2>3. /\ \A x \in call[c].ids : LandedAsSent(c, x)
        /\ exists \subseteq call[c].ids
    BY <2>2 DEF Verdict
  <2>4. /\ sent \in Lists /\ list \in Lists /\ Listed(list) \subseteq exists
        /\ call[c].seen \in Lists /\ call[c].id \in Ids /\ call[c].on \in BOOLEAN
        /\ PlannedOn(c, call[c].seen, sent)
        /\ call[c].id \in call[c].ids /\ Listed(call[c].seen) \subseteq call[c].ids
    BY <1>1, <2>0 DEF Told, Plans, Section
  <2>5. Listed(sent) \subseteq call[c].ids
    <3>1. Listed(sent) \ {call[c].id} = Listed(call[c].seen) \ {call[c].id}
      BY <2>4, OthersListed DEF PlannedOn
    <3>2. QED
      BY <2>4, <3>1
  <2>6. call[c].ids \subseteq exists
    BY <2>3 DEF LandedAsSent
  <2>7. hist.landed[c] = sent
    BY <1>1, <2>0, <2>6 DEF AsSent
  <2>8. \A x \in call[c].ids :
          /\ x \in Listed(sent) <=> x \in Listed(list)
          /\ x \in Listed(sent) => /\ c \in Ordered => Rank(sent, x) = Rank(list, x)
                                   /\ \/ Entry(sent, x).wait = NoWait
                                      \/ Entry(sent, x) = Entry(list, x)
    BY <2>3, Zenon DEF LandedAsSent
  <2> HIDE DEF sent
  <2>9. Listed(list) \subseteq call[c].ids
    BY <2>3, <2>4
  <2>10. SameButUnsent(sent, list)
    <3>1. Listed(sent) = Listed(list)
      BY <2>5, <2>8, <2>9
    <3>2. QED
      BY <2>5, <2>8, <3>1 DEF SameButUnsent
  <2>11. c \in Ordered => InTheSameOrder(sent, list)
    <3>1. SUFFICES ASSUME c \in Ordered PROVE InTheSameOrder(sent, list)
      OBVIOUS
    <3>2. \A x \in call[c].ids : /\ x \in Listed(sent) <=> x \in Listed(list)
                                 /\ x \in Listed(sent) => Rank(sent, x) = Rank(list, x)
      BY <2>8, <3>1
    <3>3. Len(sent) = Len(list) /\ \A i \in 1 .. Len(sent) : sent[i].id = list[i].id
      BY <2>4, <2>5, <2>9, <3>2, SameRanks
    <3>4. DOMAIN sent = 1 .. Len(sent)
      BY <2>4, ListsAre
    <3>5. QED
      BY <3>3, <3>4 DEF InTheSameOrder
  <2>12. QED
    BY <2>7, <2>10, <2>11
<1>2. VerbInv /\ ListInv /\ [Next]_vars =>
        [\A c \in Calls : call[c].pc = "read" /\ call'[c].pc = "applied" =>
           /\ SameButUnsent(hist.landed[c], list)
           /\ c \in Ordered => InTheSameOrder(hist.landed[c], list)]_vars
  BY <1>1
<1>3. QED
  BY <1>2, ListHolds, PTL DEF Spec, AppliedMeansUntouched

-----------------------------------------------------------------------------
(* A verb that reports success has left its container as asked, unless      *)
(* somebody else acted on it since the call began: update_with sends one    *)
(* request after the other and stops at the first that fails.               *)
THEOREM DoneIsAsAsked == Spec => DoneAsAsked
<1>1. ASSUME VerbInv, [Next]_vars, NEW c \in Calls,
             call[c].pc = "next", call'[c].pc = "done", ~hist.acted[c]
      PROVE  power[call[c].id] = Asked[call[c].verb]
  <2>0. Shapes /\ LeftAsAsked(c)
    BY <1>1 DEF VerbInv
  <2>1. call[c].todo = <<>>
    <3>1. ASSUME NEW d \in Calls, QuietStep(d), call[c].todo # <<>> PROVE FALSE
      <4>1. Quiet(d)
        BY <1>1, <3>1, QuietDoes
      <4>2. c = d
        BY <1>1, <4>1 DEF Quiet, OthersKept
      <4>3. LandsAutostart(c) \/ Lost(c)
        BY <1>1, <3>1, <4>2 DEF QuietStep, Autostart, TakeLock, CheckFresh, ReadBack,
                               SectionFails, TimesOut, Timed, RequestFails
      <4>4. call' = call
        BY <1>1, <4>3 DEF LandsAutostart, Lost
      <4>5. QED
        BY <1>1, <4>4
    <3>2. ASSUME NEW d \in Calls, Begin(d) PROVE FALSE
      <4>1. call[d].pc = "idle" /\ \A e \in Calls \ {d} : call'[e] = call[e]
        BY <1>1, <3>2, BeginDoes
      <4>2. QED
        BY <1>1, <4>1
    <3>3. ASSUME NEW d \in Calls, Send(d), call[d].todo # <<>> PROVE FALSE
      <4>1. call' = [call EXCEPT ![d].pc = "waiting", ![d].todo = Tail(@)]
        BY <3>3 DEF Send
      <4>2. c = d
        BY <1>1, <2>0, <4>1 DEF Shapes
      <4>3. call'[c] = [call[c] EXCEPT !.pc = "waiting", !.todo = Tail(@)]
        BY <2>0, <4>1, <4>2 DEF Shapes
      <4>4. call'[c].pc = "waiting"
        BY <2>0, <4>3 DEF Shapes, Shaped
      <4>5. QED
        BY <1>1, <4>4
    <3>4. ASSUME NEW d \in Calls, NEW op \in DOMAIN After, LandsVerb(d, op) PROVE FALSE
      <4>1. CASE call[d].pc # "waiting"
        BY <1>1, <3>4, <4>1 DEF LandsVerb
      <4>2. CASE call[d].pc = "waiting"
        <5>1. call' = [call EXCEPT ![d].pc = "next"]
          BY <3>4, <4>2 DEF LandsVerb
        <5>2. call'[d].pc = "next" /\ \A e \in Calls \ {d} : call'[e] = call[e]
          BY <2>0, <5>1, GoesTo
        <5>3. QED
          BY <1>1, <5>2
      <4>3. QED
        BY <4>1, <4>2
    <3>5. CASE (\E x \in Ids : UiList(x) \/ UiPower(x) \/ UiCreate(x)) \/ UiOrder \/ UNCHANGED vars
      BY <1>1, <3>5 DEF UiList, UiOrder, UiPower, UiCreate, vars
    <3>6. QED
      BY <1>1, <3>1, <3>2, <3>3, <3>4, <3>5 DEF Next, Unraid, QuietStep
  <2>2. QED
    BY <1>1, <2>0, <2>1 DEF LeftAsAsked
<1>2. VerbInv /\ [Next]_vars =>
        [\A c \in Calls : call[c].pc = "next" /\ call'[c].pc = "done" /\ ~hist.acted[c] =>
            power[call[c].id] = Asked[call[c].verb]]_vars
  BY <1>1
<1>3. QED
  BY <1>2, VerbInit, VerbInductive, PTL DEF Spec, DoneAsAsked

(* Without force unraid's remove neither stops nor removes a container that *)
(* ran when the call looked, and takes the image only if every container    *)
(* that shares it was made since: both were checked in one reading, and     *)
(* what changed later is known to have changed (container_delete_in).       *)
THEOREM RemoveIsAsSeen == Spec => RemovesOnlyWhatItSaw
<1>1. ASSUME VerbInv, [Next]_vars, NEW c \in Calls,
             call[c].verb = "remove", wire[c] # {}, wire'[c] = {}, power' # power
      PROVE  /\ call[c].force \/ power[call[c].id] = "exited" \/ call[c].id \in hist.woken[c]
             /\ call[c].image /\ Sent(c, "remove") => Sharers(call[c].id) \subseteq hist.made[c]
  <2>0. Shapes /\ Planned(c) /\ AsSeen(c)
    BY <1>1 DEF VerbInv
  <2>1. PICK op \in DOMAIN After : LandsVerb(c, op)
    <3>1. ASSUME NEW d \in Calls, QuietStep(d) PROVE FALSE
      BY <1>1, <3>1, QuietDoes DEF Quiet
    <3>2. ASSUME NEW d \in Calls, Begin(d) \/ Send(d) PROVE FALSE
      BY <1>1, <3>2 DEF Begin, Send
    <3>3. ASSUME NEW d \in Calls, d # c, NEW op \in DOMAIN After, LandsVerb(d, op) PROVE FALSE
      BY <1>1, <2>0, <3>3 DEF LandsVerb, Shapes
    <3>4. CASE (\E x \in Ids : UiList(x) \/ UiPower(x) \/ UiCreate(x)) \/ UiOrder \/ UNCHANGED vars
      BY <1>1, <3>4 DEF UiList, UiOrder, UiPower, UiCreate, vars
    <3>5. QED
      BY <1>1, <3>1, <3>2, <3>3, <3>4 DEF Next, Unraid, QuietStep
  <2>2. call[c].id \in exists
    BY <2>1 DEF LandsVerb, Applicable
  <2>3. UnderWay(c)
    BY <1>1, <2>0 DEF UnderWay, Planned
  <2>4. QED
    BY <1>1, <2>0, <2>2, <2>3 DEF AsSeen, exists
<1>2. VerbInv /\ [Next]_vars =>
        [\A c \in Calls :
           (call[c].verb = "remove" /\ wire[c] # {} /\ wire'[c] = {} /\ power' # power) =>
             /\ call[c].force \/ power[call[c].id] = "exited" \/ call[c].id \in hist.woken[c]
             /\ call[c].image /\ Sent(c, "remove") => Sharers(call[c].id) \subseteq hist.made[c]]_vars
  BY <1>1
<1>3. QED
  BY <1>2, VerbInit, VerbInductive, PTL DEF Spec, RemovesOnlyWhatItSaw

===============================================================================

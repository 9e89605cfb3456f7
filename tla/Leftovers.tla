----------------------------- MODULE Leftovers ------------------------------
(***************************************************************************)
(* What unraid.docker.adopt removes of a compose project that its          *)
(* container leaves: the project's default network and its stack           *)
(* directory (orphans.rs, the last steps of a plan, RetireStack of         *)
(* privileged.rs).  Each is judged twice, when the run is planned and when *)
(* the step is executed, and compose and docker users act in between.      *)
(*                                                                         *)
(* One project with one stack directory; each container is adopted by a    *)
(* run of its own.  The steps before the rebuild are those of AdoptTxn.    *)
(***************************************************************************)
EXTENDS Naturals, FiniteSets

CONSTANTS
    Ctrs,       \* the containers of the host
    EnvBudget   \* bound: what compose and docker users do

VARIABLES
    ctr,        \* each container: labels, network, state, where it mounts from
    net,        \* does the default network exist
    stack,      \* the stack directory: which one is there, its compose file
    retired,    \* what is at each container's retire target
    site,       \* the stacks root, and the name of the directory in it
    op,         \* the run of each container
    budget

host == <<ctr, net, stack, retired>>
vars == <<host, site, op, budget>>

-----------------------------------------------------------------------------
None == "none"
NoCtr == [there |-> FALSE, proj |-> FALSE, net |-> FALSE, up |-> FALSE, bind |-> None]
NoStack == [id |-> 0, file |-> None]

(* How the stacks root may be: is the directory named after the project, is *)
(* the root (and <root>-retired) root's own, is the configured path a link. *)
Sites == [byDir : BOOLEAN, owned : BOOLEAN, link : BOOLEAN]

(* A bind source, by how it relates to the stack directory.                 *)
Binds == {None, "under", "underByPool", "parent"}

(* share_alias: a pool's path and /mnt/user's name the same directory.      *)
Alias(bind) == IF bind = "underByPool" THEN "under" ELSE bind

UnderUnaliased(o) == ctr[o].bind = "under"
Under(o) == Alias(ctr[o].bind) = "under"
BindsUnder == {o \in Ctrs : ctr[o].there /\ Under(o)}

UsersRunning == {o \in Ctrs : ctr[o].up /\ ctr[o].net}
NetworkUsers == {o \in Ctrs : ctr[o].there /\ ctr[o].net}

Members == {o \in Ctrs : ctr[o].there /\ ctr[o].proj}

(* The first compose file there is, if it or the directory has the name.    *)
ComposeMatches(s) == s.file # None /\ (site.byDir \/ s.file = "mine")

Idle == [pc |-> "idle", net |-> FALSE, retire |-> FALSE, held |-> 0, late |-> {}, changed |-> FALSE]

At(r, pc) == op[r].pc = pc
Goes(r, pc) == op' = [op EXCEPT ![r].pc = pc]

-----------------------------------------------------------------------------
(* The plan, from one snapshot: compose_leftovers, and why root may not     *)
(* retire from that root.                                                   *)
NetworkBlocked(r) == ctr[r].net /\ NetworkUsers \ {r} # {}
MayRetireUnowned(r) == ComposeMatches(stack) /\ Members \ {r} = {} /\ BindsUnder = {}
MayRetire(r) ==
    /\ ComposeMatches(stack)
    /\ Members \ {r} = {} /\ BindsUnder = {}
    /\ site.owned

Plan(r) ==
    /\ At(r, "idle") /\ r \in Members /\ ~NetworkBlocked(r)
    /\ op' = [op EXCEPT ![r].pc = "planned", ![r].net = ctr[r].net, ![r].retire = MayRetire(r)]
    /\ UNCHANGED <<host, site, budget>>

AfterNetwork(r) == IF op[r].retire THEN "stack" ELSE "ended"

(* The container is recreated on the bridge, without compose's labels; a    *)
(* run that fails until then leaves nothing behind.                         *)
Rebuild(r) ==
    /\ At(r, "planned")
    /\ \/ Goes(r, "failed") /\ UNCHANGED ctr
       \/ /\ ctr[r].there
          /\ ctr' = [ctr EXCEPT ![r].proj = FALSE, ![r].net = IF op[r].net THEN FALSE ELSE @]
          /\ Goes(r, IF op[r].net THEN "net" ELSE AfterNetwork(r))
    /\ UNCHANGED <<net, stack, retired, site, budget>>

(* RemoveNetwork: kept while a container in any state is attached.          *)
CheckNetwork(r) ==
    /\ At(r, "net")
    /\ Goes(r, IF NetworkUsers # {} THEN AfterNetwork(r) ELSE "rm")
    /\ UNCHANGED <<host, site, budget>>

(* docker network rm refuses a network only while a running container uses  *)
(* it.                                                                      *)
RemoveNetwork(r) ==
    /\ At(r, "rm")
    /\ IF net /\ UsersRunning = {}
       THEN net' = FALSE /\ Goes(r, AfterNetwork(r))
       ELSE UNCHANGED net /\ Goes(r, "failed")
    /\ UNCHANGED <<ctr, stack, retired, site, budget>>

-----------------------------------------------------------------------------
(* RetireStack, as root: every check again, then the move.  The root must   *)
(* be the resolved path of a configured one.                                *)
OpenStack(r) ==
    /\ At(r, "stack")
    /\ IF ~site.link /\ ComposeMatches(stack)
       THEN op' = [op EXCEPT ![r].pc = "members", ![r].held = stack.id]
       ELSE Goes(r, "refused")
    /\ UNCHANGED <<host, site, budget>>

CheckMembers(r) ==
    /\ At(r, "members")
    /\ Goes(r, IF Members = {} THEN "binds" ELSE "refused")
    /\ UNCHANGED <<host, site, budget>>

CheckBinds(r) ==
    /\ At(r, "binds")
    /\ Goes(r, IF BindsUnder = {} THEN "move" ELSE "refused")
    /\ UNCHANGED <<host, site, budget>>

(* The directory now at that name goes to <root>-retired/<name>-compose-    *)
(* <date>, never over another.                                              *)
RetireStack(r) ==
    /\ At(r, "move")
    /\ IF site.owned /\ stack.id # 0 /\ retired[r] = 0
       THEN /\ retired' = [retired EXCEPT ![r] = stack.id] /\ stack' = NoStack
            /\ op' = [q \in Ctrs |-> IF q = r THEN [op[q] EXCEPT !.pc = "ended"]
                                     ELSE [op[q] EXCEPT !.changed = @ \/ ~At(q, "idle")]]
       ELSE UNCHANGED <<retired, stack>> /\ Goes(r, "refused")
    /\ UNCHANGED <<ctr, net, site, budget>>

-----------------------------------------------------------------------------
(* compose and docker users.  A run notes what it could no longer see.      *)
After(r, check) ==
    op[r].pc \in CASE check = "net" -> {"rm"}
                   [] check = "stack" -> {"members", "binds", "move"}
                   [] check = "member" -> {"binds", "move"}
                   [] check = "bind" -> {"move"}

Acts(kinds) ==
    /\ budget > 0 /\ budget' = budget - 1
    /\ op' = [r \in Ctrs |->
                [op[r] EXCEPT !.late = @ \cup {k \in kinds : After(r, k)},
                              !.changed = @ \/ ~At(r, "idle")]]
    /\ UNCHANGED site

(* docker compose up or create.                                             *)
ComposeUp(o) ==
    /\ stack.id # 0 /\ ~ctr[o].there
    /\ \E up, attached \in BOOLEAN :
         /\ ctr' = [ctr EXCEPT ![o] = [NoCtr EXCEPT !.there = TRUE, !.proj = TRUE,
                                                    !.net = attached, !.up = up]]
         /\ net' = (net \/ attached)
         /\ Acts({"member"} \cup (IF attached THEN {"net"} ELSE {}))
    /\ UNCHANGED <<stack, retired>>

(* docker run or create with a bind mount, or on the network.               *)
DockerRun(o) ==
    /\ ~ctr[o].there
    /\ \E up, attached \in BOOLEAN, bind \in Binds :
         /\ attached => net
         /\ ctr' = [ctr EXCEPT ![o] = [NoCtr EXCEPT !.there = TRUE, !.net = attached,
                                                    !.up = up, !.bind = bind]]
         /\ Acts({"bind"} \cup (IF attached THEN {"net"} ELSE {}))
    /\ UNCHANGED <<net, stack, retired>>

DockerRemove(o) ==
    /\ ctr[o].there
    /\ ctr' = [ctr EXCEPT ![o] = NoCtr]
    /\ Acts({})
    /\ UNCHANGED <<net, stack, retired>>

(* A stack is deployed, or the one there is edited or replaced.             *)
Deploy(file) ==
    /\ \E id \in {stack.id, 1 + Cardinality({r \in Ctrs : retired[r] # 0})} \ {0} :
         stack' = [id |-> id, file |-> file]
    /\ stack' # stack
    /\ Acts({"stack"})
    /\ UNCHANGED <<ctr, net, retired>>

-----------------------------------------------------------------------------
Init ==
    /\ site \in Sites
    /\ net = TRUE
    /\ stack \in [id : {1}, file : {"mine", "other", None}]
    /\ ctr \in [Ctrs -> {NoCtr} \cup [there : {TRUE}, proj : {TRUE}, net : BOOLEAN,
                                      up : BOOLEAN, bind : {None, "underByPool"}]]
    /\ retired = [r \in Ctrs |-> 0]
    /\ op = [r \in Ctrs |-> Idle]
    /\ budget = EnvBudget

RunStep(r) ==
    \/ Plan(r) \/ Rebuild(r) \/ CheckNetwork(r) \/ RemoveNetwork(r)
    \/ OpenStack(r) \/ CheckMembers(r) \/ CheckBinds(r) \/ RetireStack(r)

(* Another run may be started once one is over.                             *)
Again(r) ==
    /\ op[r].pc \in {"ended", "failed", "refused"} /\ budget > 0
    /\ op' = [op EXCEPT ![r] = Idle]
    /\ UNCHANGED <<host, site, budget>>

Next ==
    \/ \E r \in Ctrs : RunStep(r) \/ Again(r)
    \/ \E o \in Ctrs : ComposeUp(o) \/ DockerRun(o) \/ DockerRemove(o)
    \/ \E file \in {"mine", "other", None} : Deploy(file)

Spec == Init /\ [][Next]_vars

-----------------------------------------------------------------------------
TypeOK ==
    /\ \A o \in Ctrs : DOMAIN ctr[o] = DOMAIN NoCtr /\ ctr[o].bind \in Binds
    /\ \A r \in Ctrs : DOMAIN op[r] = DOMAIN Idle
    /\ net \in BOOLEAN /\ budget \in 0 .. EnvBudget

(* What a run removes is of no use to anybody: no container, running or     *)
(* not, is on the network; none of the project exists, none mounts from     *)
(* under the directory, and the directory retired is the one whose compose  *)
(* file was read.  Only what came after the step had looked is excused.     *)
Unused(r) ==
    /\ At(r, "rm") /\ op'[r].pc # "rm" /\ net' # net
         => "net" \in op[r].late \/ \A o \in Ctrs : ~(ctr[o].there /\ ctr[o].net)
    /\ retired'[r] # retired[r] =>
         /\ "stack" \in op[r].late \/ retired'[r] = op[r].held
         /\ "member" \in op[r].late \/ \A o \in Ctrs : ~(ctr[o].there /\ ctr[o].proj)
         /\ "bind" \in op[r].late
              \/ \A o \in Ctrs : ctr[o].bind \notin {"under", "underByPool"}
LeftoversUnused == [][\A r \in Ctrs : Unused(r)]_vars

(* A plan that announces a stack as retired is carried out: root's checks   *)
(* find nothing the plan's did not, unless the host changed in between, the *)
(* configured root is a symbolic link, or the target of that day is taken.  *)
RetireAgrees ==
    /\ TypeOK
    /\ \A r \in Ctrs :
         At(r, "refused") => op[r].changed \/ site.link \/ retired[r] # 0

=============================================================================

------------------------------ MODULE Fidelity ------------------------------
(***************************************************************************)
(* The fidelity gate of unraid.docker.adopt and set_icon: what a container *)
(* looks like to docker inspect is projected onto a RunSpec, the RunSpec   *)
(* onto a dockerMan template, dockerMan renders a command from that, the   *)
(* command is parsed into a RunSpec again, and the two must agree but for  *)
(* the differences moving under dockerMan intends.  Then dockerMan         *)
(* recreates the container from the template, and what docker made is      *)
(* verified against the command that passed the gate.                      *)
(*                                                                         *)
(* The transaction around the rebuild (copies, rollback) is AdoptTxn's.    *)
(* Docker and dockerMan are external: dockerMan may leave out or add any   *)
(* one word of the command a template should give, and the image tag and   *)
(* the daemon's log defaults may change at any time.                       *)
(***************************************************************************)
EXTENDS Naturals, FiniteSets

CONSTANTS
    Containers,     \* what containers look like before any run
    Images,         \* config of each image, by id
    LogDefaults,    \* log options the daemon may give a container by default
    Foreign,        \* words dockerMan may add to a command
    AnonymousNames, \* names of the volumes docker made without being given one
    NewIds,         \* ids docker gives the containers the runs rebuild, in order
    MaxRuns, EnvBudget  \* bounds: runs of the verbs, outside changes

VARIABLES
    ctr,        \* the container, as docker inspect shows it
    tmpl,       \* its dockerMan template, if there is one
    tag,        \* the image its image tag resolves to
    daemon,     \* the daemon's default log options
    run,        \* the run of a verb, if one is under way
    runs,       \* how many there were
    budget,     \* what else may still change outside
    settled     \* is everything as the last successful run left it

vars == <<ctr, tmpl, tag, daemon, run, runs, budget, settled>>

-----------------------------------------------------------------------------
None == "none"
Blank == ""
Url == "url"

(* Finite maps are functions; Merged(f, g) is f where both are defined.     *)
NoMap == [x \in {} |-> x]
Kept(f, D) == [k \in DOMAIN f \cap D |-> f[k]]
Without(f, D) == [k \in DOMAIN f \ D |-> f[k]]
Merged(f, g) ==
    [k \in DOMAIN f \cup DOMAIN g |-> IF k \in DOMAIN f THEN f[k] ELSE g[k]]

UnraidEnv == {"HOST_OS"}
UnraidLabels == {"managed", "icon"}         \* net.unraid.docker.*
ComposeLabels == {"project"}                \* com.docker.compose.*
OwnershipKeys == {"owner"}
ContainerLabels == [k \in OwnershipKeys |-> "unraid"]
ProjectNet == "project_default"
UnraidPidsLimit == 2048
PlainFacets == {"privileged", "tmpfs", "gpus"}

Anonymous(m) == m.kind = "volume" /\ m.src \in AnonymousNames
ConvertedName == "converted"
AppData == "appdata"
Converted(m) == [m EXCEPT !.src = ConvertedName]
Migrated(m) == [m EXCEPT !.kind = "bind", !.src = AppData]

-----------------------------------------------------------------------------
(* What docker inspect can show of a container: it has its image's labels,  *)
(* with its own over them, its image's command unless it was given another  *)
(* or an entrypoint, and a hostname of its own outside the network of       *)
(* somebody else; a volume has no propagation.  One that mounts an          *)
(* anonymous volume in two places is not looked at.                         *)
IsMap(f) == f = [k \in DOMAIN f |-> f[k]]

IsMount(m) ==
    /\ m = [kind |-> m.kind, src |-> m.src, dst |-> m.dst, ro |-> m.ro, prop |-> m.prop]
    /\ m.kind = "volume" => m.prop = Blank

IsContainer(c) ==
    /\ c = [id |-> c.id, image |-> c.image, tag |-> c.tag, net |-> c.net,
            hostname |-> c.hostname, env |-> c.env, ports |-> c.ports, mounts |-> c.mounts,
            logdriver |-> c.logdriver, logopts |-> c.logopts, restart |-> c.restart,
            pids |-> c.pids, labels |-> c.labels, plain |-> c.plain, cmd |-> c.cmd,
            extra |-> c.extra]
    /\ c.id # None
    /\ c.net \notin {"host", "container"} => c.hostname # None
    /\ c.image \in DOMAIN Images
    /\ IsMap(c.env) /\ IsMap(c.labels) /\ IsMap(c.logopts)
    /\ IsMap(c.plain) /\ DOMAIN c.plain = PlainFacets
    /\ DOMAIN Images[c.image].labels \subseteq DOMAIN c.labels
    /\ \A m \in c.mounts : IsMount(m)
    /\ \A m, n \in c.mounts : Anonymous(m) /\ n.src = m.src => n = m
    /\ c.cmd = None /\ c.extra \subseteq {"aliases"} => Images[c.image].cmd = None

(* dockerMan adds no label of its own prefix but those of Command, and no   *)
(* hostname that is none; neither a host path nor a volume the verbs name   *)
(* is an anonymous volume.                                                  *)
ConstantsAssumption ==
    /\ \A c \in Containers : IsContainer(c)
    /\ \A w \in Foreign :
         /\ w = <<w[1], w[2], w[3]>>
         /\ w[1] = "label" => w[2] \notin UnraidLabels
         /\ w[1] = "hostname" => w[3] # None
    /\ AnonymousNames \cap {AppData, ConvertedName} = {}
    /\ MaxRuns \in Nat /\ EnvBudget \in Nat
    /\ \A n \in 1 .. MaxRuns : NewIds[n] # None

ASSUME ConstantsAssumption

-----------------------------------------------------------------------------
(* inspect.rs: the live container as a RunSpec.                             *)

Baked(img) == {<<k, Images[img].env[k]>> : k \in DOMAIN Images[img].env}
Unbaked(env, img) ==
    [k \in {x \in DOMAIN env : <<x, env[x]>> \notin Baked(img)} |-> env[k]]

(* Less what Unraid gives every container; TZ is a field of its own.        *)
Normalized(spec) ==
    [spec EXCEPT !.env = Without(@, UnraidEnv \cup {"TZ"}), !.labels = Without(@, UnraidLabels)]

TzOf(env) == IF "TZ" \in DOMAIN env THEN env["TZ"] ELSE Blank

LiveSpec(c) ==
    LET img == Images[c.image]
        labels == [k \in {x \in DOMAIN c.labels :
                            ~(x \in DOMAIN img.labels /\ img.labels[x] = c.labels[x])}
                     |-> c.labels[k]]
    IN Normalized(
       [image |-> c.tag, network |-> c.net,
        hostname |-> IF c.net = "host" THEN None ELSE c.hostname,
        idname |-> c.net # "host" /\ c.hostname = c.id,
        ports |-> {p \in c.ports : p.host # "random"},
        env |-> Unbaked(c.env, c.image),
        tz |-> TzOf(c.env),
        mounts |-> {m \in c.mounts : m.kind # "other"},
        logdriver |-> c.logdriver, logopts |-> c.logopts,
        restart |-> c.restart, pids |-> c.pids,
        labels |-> Without(labels, ComposeLabels),
        plain |-> c.plain,
        cmd |-> IF c.cmd = img.cmd THEN None ELSE c.cmd,
        other |-> {}])

(* What the operator set and a template cannot carry: what live_spec meets, *)
(* and whatever else inspect shows that the spec has no place for.          *)
(* Compose's network aliases go with its network.                           *)
Unmodelled(c, moving) == {x \in c.extra : ~(x = "aliases" /\ moving)}
Unsupported(c, moving) ==
    {x \in {c.net} : x = "container"}
    \cup {"random port" : p \in {p \in c.ports : p.host = "random"}}
    \cup {"mount" : m \in {m \in c.mounts : m.kind = "other"}}
    \cup Unmodelled(c, moving)

-----------------------------------------------------------------------------
(* spec.rs: a command is the words dockerMan gives itself, those of the     *)
(* template's ExtraParams after them, and the container's own command.  A   *)
(* word is <<flag, key, value>>; of two for one key the later one counts.   *)

WordMap(ws, flag) ==
    [k \in {w[2] : w \in {x \in ws : x[1] = flag}} |->
        (CHOOSE w \in ws : w[1] = flag /\ w[2] = k)[3]]
Args(cmd, flag) == Merged(WordMap(cmd.extra, flag), WordMap(cmd.own, flag))
Arg(cmd, flag, default) ==
    LET m == Args(cmd, flag) IN IF Blank \in DOMAIN m THEN m[Blank] ELSE default
Keys(cmd, flag) == DOMAIN Args(cmd, flag)

ParseCommand(cmd) == Normalized(
    [image |-> cmd.image, network |-> Arg(cmd, "net", "bridge"),
     hostname |-> Arg(cmd, "hostname", None), idname |-> FALSE,
     ports |-> Keys(cmd, "port"),
     env |-> Args(cmd, "env"),
     tz |-> TzOf(Args(cmd, "env")),
     mounts |-> Keys(cmd, "mount"),
     logdriver |-> Arg(cmd, "logdriver", "json-file"), logopts |-> Args(cmd, "logopt"),
     restart |-> Arg(cmd, "restart", None), pids |-> Arg(cmd, "pids", 0),
     labels |-> Args(cmd, "label"),
     plain |-> [f \in PlainFacets |-> Arg(cmd, f, FALSE)],
     cmd |-> cmd.args,
     other |-> Keys(cmd, "other")])

(* What the gate compares with: less what the image brings, and with the    *)
(* log options the daemon adds.                                             *)
FilledNever(got, defaults) == got
Filled(got, defaults) ==
    IF got.logdriver = "json-file"
    THEN [got EXCEPT !.logopts = Merged(@, defaults)] ELSE got
RenderedSpec(cmd, img, defaults) ==
    LET got == ParseCommand(cmd)
    IN Filled([got EXCEPT !.env = Unbaked(@, img)], defaults)

Compared == {"image", "network", "ports", "env", "tz", "mounts", "logdriver", "logopts",
             "labels", "plain", "cmd"}

(* The facets that differ: those moving under dockerMan means, and those    *)
(* that block.                                                              *)
Intended(want, got, mode) ==
    {f \in {"hostname", "restart", "pids"} :
        \/ f = "hostname" /\ want.hostname # None /\ got.hostname = None /\ want.idname
        \/ f = "restart" /\ want.restart # None /\ got.restart = None /\ mode = "set_icon"
        \/ f = "pids" /\ want.pids = 0 /\ got.pids = UnraidPidsLimit}
Unremarkable(want, got) == {f \in {"hostname"} : want.hostname = None /\ got.idname}

Blocking(want, got, mode) ==
    ({f \in Compared \cup {"hostname", "restart", "pids"} : want[f] # got[f]}
        \ (Intended(want, got, mode) \cup Unremarkable(want, got)))
    \cup {f \in {"other"} : got.other # {}}

-----------------------------------------------------------------------------
(* template.rs: a template is its fields, its Config entries (as the words  *)
(* they become) and the words of ExtraParams.  An `&` in ExtraParams is     *)
(* decoded twice, so those of such a template cannot be rewritten.          *)

Words(D, flag) == {<<flag, k, Blank>> : k \in D}
MapWords(f, flag) == {<<flag, k, f[k]>> : k \in DOMAIN f}
Optional(flag, value, default) == {<<flag, Blank, v>> : v \in {value} \ {default}}

HasConfig(m) == m.prop = Blank /\ m.src # ConvertedName

Configs(spec) ==
    Words({p \in spec.ports : p.ip = "any"}, "port")
    \cup Words({m \in spec.mounts : HasConfig(m)}, "mount")
    \cup MapWords(spec.env, "env")
    \cup {<<"env", "TZ", v>> : v \in {spec.tz} \ {Blank}}

ExtraParams(spec) ==
    Words({p \in spec.ports : p.ip # "any"}, "port")
    \cup Words({m \in spec.mounts : ~HasConfig(m)}, "mount")
    \cup Optional("hostname", spec.hostname, None)
    \cup (UNION {Optional(f, spec.plain[f], FALSE) : f \in PlainFacets \ {"privileged"}})
    \cup Optional("logdriver", spec.logdriver, "json-file")
    \cup MapWords(spec.logopts, "logopt")
    \cup Optional("restart", spec.restart, None)
    \cup (Optional("pids", spec.pids, 0) \cap Optional("pids", spec.pids, UnraidPidsLimit))
    \cup MapWords(spec.labels, "label")

FromSpec(spec, icon) ==
    [image |-> spec.image, network |-> spec.network, icon |-> icon, amp |-> FALSE,
     privileged |-> spec.plain["privileged"], args |-> spec.cmd,
     configs |-> Configs(spec), extra |-> ExtraParams(spec)]

(* set_labels: exactly these for the ownership keys.                        *)
SetLabels(t) ==
    [t EXCEPT !.extra =
        {w \in @ : ~(w[1] = "label" /\ w[2] \in OwnershipKeys)}
            \cup MapWords(ContainerLabels, "label")]

(* path_to_mount: the Path entry of an anonymous volume becomes a mount of  *)
(* the volume it is converted to.                                           *)
PathsOf(t, m) == {w \in t.configs : w[1] = "mount" /\ w[2].src = m.src}
PathToMount(t, ms) ==
    [t EXCEPT !.configs = @ \ UNION {PathsOf(t, m) : m \in ms},
              !.extra = @ \cup Words({Converted(m) : m \in ms}, "mount")]

-----------------------------------------------------------------------------
(* dockerMan and docker (external): the command of a template, and what     *)
(* docker makes of a command.                                               *)

Command(t) ==
    [image |-> t.image, args |-> t.args, extra |-> t.extra,
     own |-> t.configs
        \cup {<<"net", Blank, t.network>>, <<"pids", Blank, UnraidPidsLimit>>,
              <<"env", "HOST_OS", "Unraid">>, <<"label", "managed", "dockerman">>}
        \cup {<<"label", "icon", i>> : i \in {t.icon} \ {Blank}}
        \cup (IF \E w \in t.configs : w[1] = "env" /\ w[2] = "TZ" THEN {}
              ELSE {<<"env", "TZ", Blank>>})
        \cup Optional("privileged", t.privileged, FALSE)]

(* dockerMan gives the command the template says, or gets one word of it    *)
(* wrong; its own labels it always gives.                                   *)
Misrendered(t) ==
    LET cmd == Command(t)
    IN {[cmd EXCEPT !.own = @ \ {w}, !.extra = @ \ {w}] :
            w \in {x \in cmd.own : x[1] # "label"} \cup cmd.extra}
       \cup {[cmd EXCEPT !.extra = @ \cup {w}] : w \in Foreign}

Created(cmd, id, img, defaults) ==
    LET driver == Arg(cmd, "logdriver", "json-file")
    IN [id |-> id, image |-> img, tag |-> cmd.image, net |-> Arg(cmd, "net", "bridge"),
        hostname |-> Arg(cmd, "hostname", id),
        env |-> Merged(Args(cmd, "env"), Images[img].env),
        ports |-> Keys(cmd, "port"), mounts |-> Keys(cmd, "mount"),
        logdriver |-> driver,
        logopts |-> Merged(Args(cmd, "logopt"), IF driver = "json-file" THEN defaults ELSE NoMap),
        restart |-> Arg(cmd, "restart", None), pids |-> Arg(cmd, "pids", 0),
        labels |-> Merged(Args(cmd, "label"), Images[img].labels),
        plain |-> [f \in PlainFacets |-> Arg(cmd, f, FALSE)],
        cmd |-> IF cmd.args = None THEN Images[img].cmd ELSE cmd.args,
        extra |-> Keys(cmd, "other")]

-----------------------------------------------------------------------------
(* plan_adopt and set_icon_patch.                                           *)

Moving(c) == "project" \in DOMAIN c.labels /\ c.net = ProjectNet
Managed(c) == "managed" \in DOMAIN c.labels /\ c.labels["managed"] = "dockerman"
IconLabel(c) == IF "icon" \in DOMAIN c.labels THEN c.labels["icon"] ELSE Blank

RelabelledUnder(live) == [live EXCEPT !.labels = Merged(@, ContainerLabels)]
Relabelled(live) == [live EXCEPT !.labels = Merged(ContainerLabels, @)]

AdoptTarget(c, migrate) ==
    LET live == LiveSpec(c)
        moved == {m \in live.mounts : m.kind = "volume" /\ (migrate \/ Anonymous(m))}
    IN [Relabelled(live) EXCEPT
            !.network = IF Moving(c) THEN "bridge" ELSE @,
            !.mounts = (@ \ moved) \cup {IF migrate THEN Migrated(m) ELSE Converted(m) : m \in moved}]

(* The icon of an adopted container: that of a repository, of the template  *)
(* it has, or of its label.                                                 *)
AdoptIcon(repo) ==
    IF repo THEN Url
    ELSE IF \E t \in tmpl : t.icon # Blank THEN (CHOOSE t \in tmpl : TRUE).icon
    ELSE IconLabel(ctr)

(* What set_icon can convert: nothing where ExtraParams cannot be rewritten.*)
Convertible(c, t) ==
    {m \in LiveSpec(c).mounts : ~t.amp /\ Anonymous(m) /\ Cardinality(PathsOf(t, m)) = 1}

SetIconTemplate(c, t) ==
    LET iconed == [t EXCEPT !.icon = Url]
    IN IF t.amp THEN iconed ELSE PathToMount(SetLabels(iconed), Convertible(c, t))

SetIconTarget(c, t) ==
    LET live == LiveSpec(c) IN
    IF t.amp THEN live
    ELSE [Relabelled(live) EXCEPT
            !.mounts = (@ \ Convertible(c, t)) \cup {Converted(m) : m \in Convertible(c, t)}]

(* What the plan says it changes besides what the diff finds intended.      *)
Announced(c, target) ==
    {f \in {"network", "mounts", "labels"} : target[f] # LiveSpec(c)[f]}

-----------------------------------------------------------------------------
(* The runs.                                                                *)

NoRun == [pc |-> "idle"]
Planned(mode, target, template, blocked) ==
    [pc |-> "planned", mode |-> mode, orig |-> ctr, target |-> target, tmpl |-> template,
     announced |-> Announced(ctr, target), intended |-> {}, cmd |-> {}, expect |-> target,
     defaults |-> daemon, blocked |-> blocked, disturbed |-> FALSE,
     compose |-> mode = "adopt" /\ "project" \in DOMAIN ctr.labels,
     unchanged |-> /\ mode = "set_icon" /\ {template} = tmpl
                   /\ Announced(ctr, target) = {} /\ IconLabel(ctr) = Url]

MayRun == run.pc \in {"idle", "refused", "done", "failed"} /\ runs < MaxRuns /\ runs' = runs + 1

(* image_blocker: a rebuild must not switch images.                         *)
ImageBlocker == tag # ctr.image

Adopt(repo, migrate) ==
    /\ MayRun
    /\ LET target == AdoptTarget(ctr, migrate)
       IN run' = Planned("adopt", target, FromSpec(target, AdoptIcon(repo)),
                    \/ Managed(ctr) /\ tmpl # {}
                    \/ ImageBlocker
                    \/ Unsupported(ctr, Moving(ctr)) # {})
    /\ UNCHANGED <<ctr, tmpl, tag, daemon, budget, settled>>

SetIcon ==
    /\ MayRun
    /\ \E t \in tmpl :
         run' = Planned("set_icon", SetIconTarget(ctr, t), SetIconTemplate(ctr, t),
                    ~Managed(ctr) \/ ImageBlocker \/ Unsupported(ctr, FALSE) # {})
    /\ UNCHANGED <<ctr, tmpl, tag, daemon, budget, settled>>

(* dockerMan renders the template, or cannot; only a run that is ready goes *)
(* on, and only one with something to do rebuilds.                          *)
AfterGate(got) ==
    IF run.blocked \/ Blocking(run.target, got, run.mode) # {} THEN "refused"
    ELSE IF run.unchanged THEN "done" ELSE "rebuild"

Gate(cmd) ==
    LET got == RenderedSpec(cmd, run.orig.image, run.defaults)
    IN run' = [run EXCEPT !.pc = AfterGate(got), !.cmd = {cmd}, !.expect = got,
                          !.intended = Intended(run.target, got, run.mode)]

Render ==
    /\ run.pc = "planned"
    /\ \/ run' = [run EXCEPT !.pc = "refused"] /\ UNCHANGED budget
       \/ Gate(Command(run.tmpl)) /\ UNCHANGED budget
       \/ /\ budget > 0 /\ budget' = budget - 1
          /\ \E cmd \in Misrendered(run.tmpl) : Gate(cmd)
    /\ UNCHANGED <<ctr, tmpl, tag, daemon, runs, settled>>

(* The template is written, and rebuild_container makes the container of it *)
(* from whatever its tag and the daemon's defaults are by now.              *)
Rebuild ==
    /\ run.pc = "rebuild"
    /\ tmpl' = {run.tmpl}
    /\ \E cmd \in run.cmd : ctr' = Created(cmd, NewIds[runs], tag, daemon)
    /\ run' = [run EXCEPT !.pc = "verify"] /\ settled' = FALSE
    /\ UNCHANGED <<tag, daemon, runs, budget>>

SameImageUnchecked == TRUE
SameImage == ctr.image = run.orig.image

VerifyManaged ==
    /\ run.pc = "verify"
    /\ LET verified ==
             /\ Managed(ctr) /\ SameImage
             /\ run.tmpl.icon # Blank => IconLabel(ctr) = run.tmpl.icon
             /\ Blocking(run.expect, LiveSpec(ctr), run.mode) = {}
       IN /\ run' = [run EXCEPT !.pc = IF verified THEN "done" ELSE "failed"]
          /\ settled' = (/\ verified /\ ~run.disturbed
                         /\ run.tmpl.icon = Url /\ run.cmd = {Command(run.tmpl)})
    /\ UNCHANGED <<ctr, tmpl, tag, daemon, runs, budget>>

-----------------------------------------------------------------------------
(* unraid.docker.status: what it says of the container, and of its volumes  *)
(* (those a run converts to carry their labels).                            *)
Status ==
    LET icon == IF \E t \in tmpl : t.icon # Blank THEN AdoptIcon(FALSE) ELSE IconLabel(ctr)
    IN [has_template |-> tmpl # {}, managed |-> Managed(ctr), orca_icon |-> icon = Url,
        missing_labels |-> OwnershipKeys \ DOMAIN ctr.labels,
        anonymous |-> {m \in ctr.mounts : Anonymous(m)}]

-----------------------------------------------------------------------------
(* Everybody else.                                                          *)

Disturb ==
    /\ budget > 0 /\ budget' = budget - 1 /\ settled' = FALSE
    /\ run' = IF run.pc = "idle" THEN run ELSE [run EXCEPT !.disturbed = TRUE]
    /\ UNCHANGED <<ctr, runs>>

(* Somebody pulls another image under the tag.                              *)
Retag == Disturb /\ tag' \in DOMAIN Images \ {tag} /\ UNCHANGED <<tmpl, daemon>>

(* Log rotation is set otherwise in Unraid's Docker settings.               *)
SetLogRotation == Disturb /\ daemon' \in LogDefaults \ {daemon} /\ UNCHANGED <<tmpl, tag>>

(* Somebody saves the template with a word less, or with an `&`.            *)
EditTemplate ==
    /\ run.pc \notin {"planned", "rebuild", "verify"} /\ Disturb
    /\ \E t \in tmpl :
         \/ \E w \in t.configs \cup t.extra :
              tmpl' = {[t EXCEPT !.configs = @ \ {w}, !.extra = @ \ {w}]}
         \/ tmpl' = {[t EXCEPT !.amp = TRUE]}
    /\ UNCHANGED <<tag, daemon>>

-----------------------------------------------------------------------------
(* Containers of docker run or compose have no template; others were made   *)
(* by dockerMan of a template somebody wrote in the web UI.                 *)
Init ==
    /\ tag \in {c.image : c \in Containers} /\ daemon \in LogDefaults
    /\ \E c \in Containers :
         \/ ctr = c /\ tmpl = {}
         \/ LET t == FromSpec(LiveSpec(c), Blank)
            IN /\ tmpl = {t} /\ ctr = Created(Command(t), c.id, c.image, daemon)
    /\ run = NoRun /\ runs = 0 /\ budget = EnvBudget /\ settled = FALSE

Next ==
    \/ \E repo, migrate \in BOOLEAN : Adopt(repo, migrate)
    \/ SetIcon \/ Render \/ Rebuild \/ VerifyManaged
    \/ Retag \/ SetLogRotation \/ EditTemplate

Spec == Init /\ [][Next]_vars

-----------------------------------------------------------------------------
Pcs == {"idle", "planned", "refused", "rebuild", "verify", "done", "failed"}

TypeOK ==
    /\ Cardinality(tmpl) <= 1 /\ ctr.image \in DOMAIN Images /\ tag \in DOMAIN Images
    /\ daemon \in LogDefaults /\ run.pc \in Pcs
    /\ runs \in 0 .. MaxRuns /\ budget \in 0 .. EnvBudget /\ settled \in BOOLEAN

(* A run that reports success leaves a container that differs from the one  *)
(* it found in nothing but what it said would change, whatever dockerMan    *)
(* rendered and whatever changed between the gate and the rebuild (mod.rs   *)
(* 10: "every difference is either an intended consequence of moving under  *)
(* dockerMan (reported in `intendedChanges`) or blocks execute"); compose's *)
(* labels go, but for those its build gave the image, and what the          *)
(* container had unset of its image's variables comes back.  A rebuild the  *)
(* gate let pass fails verification only if the tag or the daemon's         *)
(* defaults changed meanwhile, or for what the gate does not see: an image  *)
(* that has orca's ownership label already, which live_spec drops from the  *)
(* new container, or has a TZ where dockerMan gives none.                   *)
Owned == UnraidLabels \cup OwnershipKeys
Place(m) == <<m.dst, m.ro, m.prop>>
SameBut(o, n, said) ==
    /\ n.image = o.image /\ n.tag = o.tag
    /\ n.net = o.net \/ ("network" \in said /\ n.net = "bridge")
    /\ \/ n.hostname = o.hostname
       \/ n.net = "host"
       \/ "hostname" \in said /\ o.hostname = o.id /\ n.hostname = n.id
    /\ LET env == Merged(o.env, Images[o.image].env)
       IN Without(n.env, UnraidEnv \cup {"TZ"}) = Without(env, UnraidEnv \cup {"TZ"})
    /\ TzOf(n.env) = TzOf(o.env)
    /\ n.ports = o.ports
    /\ \/ n.mounts = o.mounts
       \/ /\ "mounts" \in said
          /\ {m \in n.mounts : m.src \notin {AppData, ConvertedName}} \subseteq o.mounts
          /\ {Place(m) : m \in n.mounts} = {Place(m) : m \in o.mounts}
    /\ n.logdriver = o.logdriver /\ n.logopts = o.logopts
    /\ n.restart = o.restart \/ ("restart" \in said /\ n.restart = None)
    /\ n.pids = o.pids \/ ("pids" \in said /\ n.pids = UnraidPidsLimit)
    /\ LET gone == Owned \cup IF "compose" \in said THEN ComposeLabels ELSE {}
       IN Without(n.labels, gone) = Without(o.labels, gone)
    /\ "compose" \in said =>
         Kept(n.labels, ComposeLabels) = Kept(Images[n.image].labels, ComposeLabels)
    /\ "labels" \notin said => Kept(n.labels, OwnershipKeys) = Kept(o.labels, OwnershipKeys)
    /\ n.plain = o.plain /\ n.cmd = o.cmd
    /\ n.extra = o.extra \/ ("network" \in said /\ n.extra = o.extra \ {"aliases"})

ImageInTheWay ==
    LET img == Images[run.orig.image]
    IN \/ \E k \in OwnershipKeys : k \in DOMAIN img.labels /\ img.labels[k] = ContainerLabels[k]
       \/ "TZ" \in DOMAIN img.env /\ \E cmd \in run.cmd : "TZ" \notin Keys(cmd, "env")

FaithfulRebuild ==
    /\ TypeOK
    /\ run.pc = "done" /\ ~run.unchanged =>
         SameBut(run.orig, ctr, run.announced \cup run.intended
                                 \cup IF run.compose THEN {"compose"} ELSE {})
    /\ run.pc = "failed" => run.disturbed \/ ImageInTheWay

(* What a run left needs no other: docker.status misses nothing, unless the *)
(* template could not take labels and volumes, and set_icon of the same     *)
(* icon right after finds nothing to change, and passes its gate ("changes  *)
(* nothing when it already has all of that").                               *)
Complete(s) == /\ s.has_template /\ s.managed /\ s.orca_icon
               /\ \/ s.missing_labels = {} /\ s.anonymous = {}
                  \/ \E t \in tmpl : t.amp
SettlesInOnePass ==
    [][/\ settled => Complete(Status)
       /\ Render /\ settled /\ run.mode = "set_icon" /\ run'.cmd = {Command(run.tmpl)}
            => run.unchanged /\ run'.pc = "done"]_vars

=============================================================================

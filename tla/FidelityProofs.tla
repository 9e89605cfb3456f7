--------------------------- MODULE FidelityProofs ---------------------------
(***************************************************************************)
(* Theorems about Fidelity, for every set of containers docker inspect can  *)
(* show, every image, log default, foreign word and number of runs:         *)
(* FaithfulRebuild and SettlesInOnePass hold.  The lemmas follow a facet    *)
(* through the translations: inspect to spec, target, template, dockerMan's *)
(* command, docker create, and inspect again.  Two comparisons meet in the  *)
(* middle: the gate's, of the target with the command, and verification's,  *)
(* of the command with the new container; together they say what a rebuild  *)
(* kept.  IInv, at the end, says of each moment of a run what of that holds *)
(* by then.                                                                 *)
(***************************************************************************)
EXTENDS Fidelity, FiniteSetTheorems, TLAPS

USE ConstantsAssumption

-----------------------------------------------------------------------------
(* The specs, field by field.                                               *)

(* The labels a container does not have from its image.                     *)
OwnLabels(c) ==
    [k \in {x \in DOMAIN c.labels :
              ~(x \in DOMAIN Images[c.image].labels /\ Images[c.image].labels[x] = c.labels[x])}
        |-> c.labels[k]]

LEMMA LiveFields ==
    ASSUME NEW c
    PROVE  /\ LiveSpec(c).image = c.tag
           /\ LiveSpec(c).network = c.net
           /\ LiveSpec(c).hostname = IF c.net = "host" THEN None ELSE c.hostname
           /\ LiveSpec(c).idname = (c.net # "host" /\ c.hostname = c.id)
           /\ LiveSpec(c).ports = {p \in c.ports : p.host # "random"}
           /\ LiveSpec(c).env = Without(Unbaked(c.env, c.image), UnraidEnv \cup {"TZ"})
           /\ LiveSpec(c).tz = TzOf(c.env)
           /\ LiveSpec(c).mounts = {m \in c.mounts : m.kind # "other"}
           /\ LiveSpec(c).logdriver = c.logdriver
           /\ LiveSpec(c).logopts = c.logopts
           /\ LiveSpec(c).restart = c.restart
           /\ LiveSpec(c).pids = c.pids
           /\ LiveSpec(c).labels = Without(Without(OwnLabels(c), ComposeLabels), UnraidLabels)
           /\ LiveSpec(c).plain = c.plain
           /\ LiveSpec(c).cmd = IF c.cmd = Images[c.image].cmd THEN None ELSE c.cmd
           /\ LiveSpec(c).other = {}
BY DEF LiveSpec, Normalized, OwnLabels

LEMMA RenderedFields ==
    ASSUME NEW cmd, NEW img, NEW d
    PROVE  LET g == RenderedSpec(cmd, img, d) IN
           /\ g.network = Arg(cmd, "net", "bridge")
           /\ g.hostname = Arg(cmd, "hostname", None) /\ g.idname = FALSE
           /\ g.ports = Keys(cmd, "port")
           /\ g.env = Unbaked(Without(Args(cmd, "env"), UnraidEnv \cup {"TZ"}), img)
           /\ g.tz = TzOf(Args(cmd, "env"))
           /\ g.mounts = Keys(cmd, "mount")
<1>1. CASE Arg(cmd, "logdriver", "json-file") = "json-file"
  BY <1>1 DEF RenderedSpec, Filled, ParseCommand, Normalized
<1>2. CASE Arg(cmd, "logdriver", "json-file") # "json-file"
  BY <1>2 DEF RenderedSpec, Filled, ParseCommand, Normalized
<1> QED BY <1>1, <1>2

LEMMA RenderedImage ==
    ASSUME NEW cmd, NEW img, NEW d
    PROVE  RenderedSpec(cmd, img, d).image = cmd.image
<1>1. CASE Arg(cmd, "logdriver", "json-file") = "json-file"
  BY <1>1 DEF RenderedSpec, Filled, ParseCommand, Normalized
<1>2. CASE Arg(cmd, "logdriver", "json-file") # "json-file"
  BY <1>2 DEF RenderedSpec, Filled, ParseCommand, Normalized
<1> QED BY <1>1, <1>2

LEMMA RenderedOptions ==
    ASSUME NEW cmd, NEW img, NEW d
    PROVE  LET g == RenderedSpec(cmd, img, d) IN
           /\ g.logdriver = Arg(cmd, "logdriver", "json-file")
           /\ g.logdriver = "json-file" => g.logopts = Merged(Args(cmd, "logopt"), d)
           /\ g.logdriver # "json-file" => g.logopts = Args(cmd, "logopt")
           /\ g.labels = Without(Args(cmd, "label"), UnraidLabels)
           /\ g.cmd = cmd.args
           /\ g.other = Keys(cmd, "other")
<1>1. CASE Arg(cmd, "logdriver", "json-file") = "json-file"
  BY <1>1 DEF RenderedSpec, Filled, ParseCommand, Normalized
<1>2. CASE Arg(cmd, "logdriver", "json-file") # "json-file"
  BY <1>2 DEF RenderedSpec, Filled, ParseCommand, Normalized
<1> QED BY <1>1, <1>2

LEMMA RenderedLimits ==
    ASSUME NEW cmd, NEW img, NEW d
    PROVE  LET g == RenderedSpec(cmd, img, d) IN
           g.restart = Arg(cmd, "restart", None) /\ g.pids = Arg(cmd, "pids", 0)
<1>1. CASE Arg(cmd, "logdriver", "json-file") = "json-file"
  BY <1>1 DEF RenderedSpec, Filled, ParseCommand, Normalized
<1>2. CASE Arg(cmd, "logdriver", "json-file") # "json-file"
  BY <1>2 DEF RenderedSpec, Filled, ParseCommand, Normalized
<1> QED BY <1>1, <1>2

LEMMA RenderedPlain ==
    ASSUME NEW cmd, NEW img, NEW d
    PROVE  LET s == RenderedSpec(cmd, img, d) IN
           DOMAIN s.plain = PlainFacets /\ IsMap(s.plain)
<1>1. CASE Arg(cmd, "logdriver", "json-file") = "json-file"
  BY <1>1 DEF RenderedSpec, Filled, ParseCommand, Normalized, IsMap
<1>2. CASE Arg(cmd, "logdriver", "json-file") # "json-file"
  BY <1>2 DEF RenderedSpec, Filled, ParseCommand, Normalized, IsMap
<1> QED BY <1>1, <1>2

LEMMA RenderedPlainFacets ==
    ASSUME NEW cmd, NEW img, NEW d, NEW f \in PlainFacets
    PROVE  RenderedSpec(cmd, img, d).plain[f] = Arg(cmd, f, FALSE)
<1>1. CASE Arg(cmd, "logdriver", "json-file") = "json-file"
  BY <1>1 DEF RenderedSpec, Filled, ParseCommand, Normalized
<1>2. CASE Arg(cmd, "logdriver", "json-file") # "json-file"
  BY <1>2 DEF RenderedSpec, Filled, ParseCommand, Normalized
<1> QED BY <1>1, <1>2

(* What the gate's passing means, facet by facet, and when it passes.       *)
LEMMA GatePassed ==
    ASSUME NEW want, NEW got, NEW mode, Blocking(want, got, mode) = {}
    PROVE  /\ want.image = got.image /\ want.network = got.network
           /\ want.ports = got.ports /\ want.env = got.env /\ want.tz = got.tz
           /\ want.mounts = got.mounts /\ want.logdriver = got.logdriver
           /\ want.logopts = got.logopts /\ want.labels = got.labels
           /\ want.plain = got.plain /\ want.cmd = got.cmd
           /\ \/ want.hostname = got.hostname
              \/ want.hostname # None /\ got.hostname = None /\ want.idname
              \/ want.hostname = None /\ got.idname
           /\ \/ want.restart = got.restart
              \/ want.restart # None /\ got.restart = None /\ mode = "set_icon"
           /\ \/ want.pids = got.pids
              \/ want.pids = 0 /\ got.pids = UnraidPidsLimit
           /\ got.other = {}
<1> DEFINE All == Compared \cup {"hostname", "restart", "pids"}
           Diff == {f \in All : want[f] # got[f]}
           Ok == Intended(want, got, mode) \cup Unremarkable(want, got)
<1>1. Diff \subseteq Ok /\ got.other = {}
  BY DEF Blocking
<1>2. ASSUME NEW f \in Compared PROVE want[f] = got[f]
  BY <1>1 DEF Intended, Unremarkable, Compared
<1>3. \/ want.hostname = got.hostname
      \/ want.hostname # None /\ got.hostname = None /\ want.idname
      \/ want.hostname = None /\ got.idname
  BY <1>1 DEF Intended, Unremarkable
<1>4. \/ want.restart = got.restart
      \/ want.restart # None /\ got.restart = None /\ mode = "set_icon"
  BY <1>1 DEF Intended, Unremarkable
<1>5. want.pids = got.pids \/ (want.pids = 0 /\ got.pids = UnraidPidsLimit)
  BY <1>1 DEF Intended, Unremarkable
<1> QED BY <1>1, <1>2, <1>3, <1>4, <1>5 DEF Compared

LEMMA GatePasses ==
    ASSUME NEW want, NEW got, NEW mode,
           want.image = got.image, want.network = got.network,
           want.ports = got.ports, want.env = got.env, want.tz = got.tz,
           want.mounts = got.mounts, want.logdriver = got.logdriver,
           want.logopts = got.logopts, want.labels = got.labels,
           want.plain = got.plain, want.cmd = got.cmd,
           \/ want.hostname = got.hostname
           \/ want.hostname # None /\ got.hostname = None /\ want.idname
           \/ want.hostname = None /\ got.idname,
           want.restart = got.restart, want.pids = got.pids, got.other = {}
    PROVE  Blocking(want, got, mode) = {}
<1>1. \A f \in Compared : want[f] = got[f]
  BY DEF Compared
<1>2. want["hostname"] = got["hostname"]
      \/ "hostname" \in Intended(want, got, mode) \cup Unremarkable(want, got)
  BY DEF Intended, Unremarkable
<1> QED BY <1>1, <1>2 DEF Blocking

-----------------------------------------------------------------------------
(* Maps and the words of a command.                                         *)

LEMMA MergedIsMap ==
    ASSUME NEW f, NEW g
    PROVE  /\ IsMap(Merged(f, g))
           /\ DOMAIN Merged(f, g) = DOMAIN f \cup DOMAIN g
BY DEF Merged, IsMap

LEMMA MergedValues ==
    ASSUME NEW f, NEW g, NEW k
    PROVE  /\ k \in DOMAIN f => Merged(f, g)[k] = f[k]
           /\ k \in DOMAIN g \ DOMAIN f => Merged(f, g)[k] = g[k]
BY DEF Merged

LEMMA WordMapIsOfWords ==
    ASSUME NEW ws, NEW flag
    PROVE  /\ \A w \in ws : w[1] = flag => w[2] \in DOMAIN WordMap(ws, flag)
           /\ \A k \in DOMAIN WordMap(ws, flag) :
                \E w \in ws : w[1] = flag /\ w[2] = k /\ WordMap(ws, flag)[k] = w[3]
<1>1. DOMAIN WordMap(ws, flag) = {w[2] : w \in {x \in ws : x[1] = flag}}
  BY DEF WordMap
<1>2. ASSUME NEW k \in DOMAIN WordMap(ws, flag)
      PROVE  \E w \in ws : w[1] = flag /\ w[2] = k /\ WordMap(ws, flag)[k] = w[3]
  <2> DEFINE c == CHOOSE w \in ws : w[1] = flag /\ w[2] = k
  <2>1. \E w \in ws : w[1] = flag /\ w[2] = k
    BY <1>1, <1>2
  <2>2. c \in ws /\ c[1] = flag /\ c[2] = k
    BY <2>1, Zenon
  <2>3. WordMap(ws, flag)[k] = c[3]
    BY <1>1, <1>2 DEF WordMap
  <2> QED BY <2>2, <2>3
<1>3. \A w \in ws : w[1] = flag => w[2] \in DOMAIN WordMap(ws, flag)
  BY <1>1
<1> QED BY <1>2, <1>3

LEMMA ArgsAreWords ==
    ASSUME NEW cmd, NEW flag
    PROVE  /\ IsMap(Args(cmd, flag))
           /\ DOMAIN Args(cmd, flag) = Keys(cmd, flag)
           /\ \A w \in cmd.own \cup cmd.extra : w[1] = flag => w[2] \in Keys(cmd, flag)
           /\ \A k \in Keys(cmd, flag) :
                \E w \in cmd.own \cup cmd.extra :
                   w[1] = flag /\ w[2] = k /\ w[3] = Args(cmd, flag)[k]
<1> DEFINE E == WordMap(cmd.extra, flag)
           O == WordMap(cmd.own, flag)
<1>1. Args(cmd, flag) = Merged(E, O)
  BY DEF Args
<1>2. /\ \A w \in cmd.extra : w[1] = flag => w[2] \in DOMAIN E
      /\ \A k \in DOMAIN E : \E w \in cmd.extra : w[1] = flag /\ w[2] = k /\ E[k] = w[3]
  BY WordMapIsOfWords
<1>3. /\ \A w \in cmd.own : w[1] = flag => w[2] \in DOMAIN O
      /\ \A k \in DOMAIN O : \E w \in cmd.own : w[1] = flag /\ w[2] = k /\ O[k] = w[3]
  BY WordMapIsOfWords
<1> HIDE DEF E, O
<1>3a. \A k \in DOMAIN E : Merged(E, O)[k] = E[k]
  BY MergedValues
<1>3b. \A k \in DOMAIN O \ DOMAIN E : Merged(E, O)[k] = O[k]
  BY MergedValues
<1>4. /\ IsMap(Merged(E, O)) /\ DOMAIN Merged(E, O) = DOMAIN E \cup DOMAIN O
      /\ \A k \in DOMAIN E : Merged(E, O)[k] = E[k]
      /\ \A k \in DOMAIN O \ DOMAIN E : Merged(E, O)[k] = O[k]
  BY <1>3a, <1>3b, MergedIsMap
<1>5. Keys(cmd, flag) = DOMAIN E \cup DOMAIN O
  BY <1>1, <1>4 DEF Keys
<1>6. ASSUME NEW k \in Keys(cmd, flag)
      PROVE  \E w \in cmd.own \cup cmd.extra :
                w[1] = flag /\ w[2] = k /\ w[3] = Args(cmd, flag)[k]
  <2>1. CASE k \in DOMAIN E
    BY <2>1, <1>1, <1>2, <1>4
  <2>2. CASE k \in DOMAIN O \ DOMAIN E
    BY <2>2, <1>1, <1>3, <1>4
  <2> QED BY <2>1, <2>2, <1>5
<1>7. ASSUME NEW w \in cmd.own \cup cmd.extra, w[1] = flag
      PROVE  w[2] \in Keys(cmd, flag)
  BY <1>2, <1>3, <1>5, <1>7
<1> QED BY <1>1, <1>4, <1>5, <1>6, <1>7

(* Where the words of ExtraParams say nothing of a key, its own words do.   *)
LEMMA OwnWordCounts ==
    ASSUME NEW cmd, NEW flag, NEW k, NEW v,
           <<flag, k, v>> \in cmd.own,
           \A w \in cmd.own : w[1] = flag /\ w[2] = k => w[3] = v,
           \A w \in cmd.extra : ~(w[1] = flag /\ w[2] = k)
    PROVE  k \in DOMAIN Args(cmd, flag) /\ Args(cmd, flag)[k] = v
<1>1. k \in Keys(cmd, flag)
  <2> DEFINE w == <<flag, k, v>>
  <2>1. w[1] = flag /\ w[2] = k /\ w \in cmd.own
    OBVIOUS
  <2> HIDE DEF w
  <2> QED BY <2>1, ArgsAreWords
<1>2. PICK w \in cmd.own \cup cmd.extra :
         w[1] = flag /\ w[2] = k /\ w[3] = Args(cmd, flag)[k]
  BY <1>1, ArgsAreWords
<1>3. DOMAIN Args(cmd, flag) = Keys(cmd, flag)
  BY ArgsAreWords
<1> QED BY <1>1, <1>2, <1>3

LEMMA ArgIsWord ==
    ASSUME NEW cmd, NEW flag, NEW a
    PROVE  \/ Arg(cmd, flag, a) = a
           \/ \E w \in cmd.own \cup cmd.extra : w[1] = flag /\ w[3] = Arg(cmd, flag, a)
<1> DEFINE k == Blank
<1> HIDE DEF k
<1>1. CASE k \in DOMAIN Args(cmd, flag)
  <2>1. k \in Keys(cmd, flag) /\ Arg(cmd, flag, a) = Args(cmd, flag)[k]
    BY <1>1, ArgsAreWords DEF Arg, k
  <2>2. PICK w \in cmd.own \cup cmd.extra :
           w[1] = flag /\ w[2] = k /\ w[3] = Args(cmd, flag)[k]
    BY <2>1, ArgsAreWords
  <2> QED BY <2>1, <2>2
<1>2. CASE k \notin DOMAIN Args(cmd, flag)
  BY <1>2 DEF Arg, k
<1> QED BY <1>1, <1>2

-----------------------------------------------------------------------------
(* What both verbs aim at.                                                  *)

LEMMA MovedMounts ==
    ASSUME NEW m, IsMount(m), m.kind = "volume"
    PROVE  /\ IsMount(Migrated(m)) /\ IsMount(Converted(m))
           /\ Place(Migrated(m)) = Place(m) /\ Place(Converted(m)) = Place(m)
           /\ Migrated(m).kind = "bind" /\ Converted(m).kind = "volume"
           /\ Migrated(m).src = AppData /\ Converted(m).src = ConvertedName
           /\ ~Anonymous(Migrated(m)) /\ ~Anonymous(Converted(m))
<1>1. /\ m = [kind |-> m.kind, src |-> m.src, dst |-> m.dst, ro |-> m.ro, prop |-> m.prop]
      /\ m.prop = Blank
  BY DEF IsMount
<1>2. ASSUME NEW x, x = Migrated(m)
      PROVE  /\ x.kind = "bind" /\ x.src = AppData /\ x.dst = m.dst /\ x.ro = m.ro
             /\ x.prop = m.prop
             /\ x = [kind |-> x.kind, src |-> x.src, dst |-> x.dst, ro |-> x.ro, prop |-> x.prop]
  BY <1>1, <1>2 DEF Migrated
<1>3. ASSUME NEW x, x = Converted(m)
      PROVE  /\ x.kind = "volume" /\ x.src = ConvertedName /\ x.dst = m.dst /\ x.ro = m.ro
             /\ x.prop = m.prop
             /\ x = [kind |-> x.kind, src |-> x.src, dst |-> x.dst, ro |-> x.ro, prop |-> x.prop]
  BY <1>1, <1>3 DEF Converted
<1>4. AppData \notin AnonymousNames /\ ConvertedName \notin AnonymousNames
  BY DEF ConstantsAssumption
<1>5. IsMount(Migrated(m)) /\ IsMount(Converted(m))
  BY <1>1, <1>2, <1>3 DEF IsMount
<1>6. Place(Migrated(m)) = Place(m) /\ Place(Converted(m)) = Place(m)
  BY <1>2, <1>3 DEF Place
<1>7. ~Anonymous(Migrated(m)) /\ ~Anonymous(Converted(m))
  BY <1>2, <1>3, <1>4 DEF Anonymous
<1> QED BY <1>2, <1>3, <1>5, <1>6, <1>7

(* What a target may be of the container's live spec: its volumes moved,    *)
(* its network left, orca's label added; nothing else.                      *)
MovedFrom(m, o) == o.kind = "volume" /\ m \in {Migrated(o), Converted(o)}

TargetOf(s, c) ==
    LET live == LiveSpec(c)
    IN /\ s.image = live.image
       /\ s.network = live.network \/ (Moving(c) /\ s.network = "bridge")
       /\ s.hostname = live.hostname /\ s.idname = live.idname
       /\ s.ports = live.ports /\ s.env = live.env /\ s.tz = live.tz
       /\ \A m \in s.mounts : m \in live.mounts \/ \E o \in live.mounts : MovedFrom(m, o)
       /\ \A o \in live.mounts : o \in s.mounts \/ \E m \in s.mounts : MovedFrom(m, o)
       /\ s.logdriver = live.logdriver /\ s.logopts = live.logopts
       /\ s.restart = live.restart /\ s.pids = live.pids
       /\ s.labels = live.labels \/ s.labels = Merged(ContainerLabels, live.labels)
       /\ s.plain = live.plain /\ s.cmd = live.cmd

(* A mount that adopt moves or converts.                                    *)
MovesAt(m, migrate) == m.kind = "volume" /\ (migrate \/ Anonymous(m))

LEMMA AdoptTargetFields ==
    ASSUME NEW c, NEW migrate
    PROVE  LET s == AdoptTarget(c, migrate)
               live == LiveSpec(c)
           IN /\ s.image = live.image /\ s.hostname = live.hostname /\ s.idname = live.idname
              /\ s.ports = live.ports /\ s.env = live.env /\ s.tz = live.tz
              /\ s.logdriver = live.logdriver /\ s.logopts = live.logopts
              /\ s.restart = live.restart /\ s.pids = live.pids
              /\ s.plain = live.plain /\ s.cmd = live.cmd
              /\ s.labels = Merged(ContainerLabels, live.labels)
              /\ s.network = IF Moving(c) THEN "bridge" ELSE live.network
BY DEF AdoptTarget, Relabelled, LiveSpec, Normalized

LEMMA AdoptTargetMounts ==
    ASSUME NEW c, NEW migrate
    PROVE  LET s == AdoptTarget(c, migrate)
               live == LiveSpec(c)
               To(o) == IF migrate THEN Migrated(o) ELSE Converted(o)
           IN /\ \A m \in s.mounts :
                   \/ m \in live.mounts /\ ~MovesAt(m, migrate)
                   \/ \E o \in live.mounts : MovesAt(o, migrate) /\ m = To(o)
              /\ \A o \in live.mounts :
                   IF MovesAt(o, migrate) THEN To(o) \in s.mounts ELSE o \in s.mounts
<1> DEFINE s == AdoptTarget(c, migrate)
           live == LiveSpec(c)
           moved == {m \in live.mounts : MovesAt(m, migrate)}
           To(o) == IF migrate THEN Migrated(o) ELSE Converted(o)
<1>1. s.mounts = (live.mounts \ moved) \cup {To(m) : m \in moved}
  BY DEF AdoptTarget, Relabelled, LiveSpec, Normalized, MovesAt
<1> HIDE DEF s, live, To
<1>2. /\ \A m \in s.mounts :
           \/ m \in live.mounts /\ ~MovesAt(m, migrate)
           \/ \E o \in live.mounts : MovesAt(o, migrate) /\ m = To(o)
      /\ \A o \in live.mounts :
           IF MovesAt(o, migrate) THEN To(o) \in s.mounts ELSE o \in s.mounts
  BY <1>1
<1> QED BY <1>2 DEF s, live, To

LEMMA SetIconTargetFields ==
    ASSUME NEW c, NEW t
    PROVE  LET s == SetIconTarget(c, t)
               live == LiveSpec(c)
           IN /\ s.image = live.image /\ s.hostname = live.hostname /\ s.idname = live.idname
              /\ s.ports = live.ports /\ s.env = live.env /\ s.tz = live.tz
              /\ s.logdriver = live.logdriver /\ s.logopts = live.logopts
              /\ s.restart = live.restart /\ s.pids = live.pids
              /\ s.plain = live.plain /\ s.cmd = live.cmd
              /\ s.labels = IF t.amp THEN live.labels ELSE Merged(ContainerLabels, live.labels)
              /\ s.network = live.network
              /\ s.mounts = IF t.amp THEN live.mounts
                            ELSE (live.mounts \ Convertible(c, t))
                                   \cup {Converted(m) : m \in Convertible(c, t)}
BY DEF SetIconTarget, Relabelled, LiveSpec, Normalized

LEMMA AdoptAims ==
    ASSUME NEW c, IsContainer(c), NEW migrate
    PROVE  TargetOf(AdoptTarget(c, migrate), c)
<1> DEFINE s == AdoptTarget(c, migrate)
           live == LiveSpec(c)
           To(o) == IF migrate THEN Migrated(o) ELSE Converted(o)
<1>1. /\ s.image = live.image /\ s.hostname = live.hostname /\ s.idname = live.idname
      /\ s.ports = live.ports /\ s.env = live.env /\ s.tz = live.tz
      /\ s.logdriver = live.logdriver /\ s.logopts = live.logopts
      /\ s.restart = live.restart /\ s.pids = live.pids
      /\ s.plain = live.plain /\ s.cmd = live.cmd
      /\ s.labels = Merged(ContainerLabels, live.labels)
      /\ s.network = IF Moving(c) THEN "bridge" ELSE live.network
  BY AdoptTargetFields
<1>2. /\ \A m \in s.mounts :
           \/ m \in live.mounts /\ ~MovesAt(m, migrate)
           \/ \E o \in live.mounts : MovesAt(o, migrate) /\ m = To(o)
      /\ \A o \in live.mounts :
           IF MovesAt(o, migrate) THEN To(o) \in s.mounts ELSE o \in s.mounts
  BY AdoptTargetMounts
<1>3. ASSUME NEW o, MovesAt(o, migrate)
      PROVE  MovedFrom(To(o), o)
  BY <1>3 DEF MovedFrom, MovesAt
<1> HIDE DEF s, live, To
<1>4. \A m \in s.mounts : m \in live.mounts \/ \E o \in live.mounts : MovedFrom(m, o)
  BY <1>2, <1>3
<1>5. \A o \in live.mounts : o \in s.mounts \/ \E m \in s.mounts : MovedFrom(m, o)
  BY <1>2, <1>3
<1> QED BY <1>1, <1>4, <1>5 DEF TargetOf, s, live

LEMMA SetIconAims ==
    ASSUME NEW c, IsContainer(c), NEW t
    PROVE  TargetOf(SetIconTarget(c, t), c)
<1> DEFINE s == SetIconTarget(c, t)
           live == LiveSpec(c)
           moved == Convertible(c, t)
<1>1. /\ s.image = live.image /\ s.hostname = live.hostname /\ s.idname = live.idname
      /\ s.ports = live.ports /\ s.env = live.env /\ s.tz = live.tz
      /\ s.logdriver = live.logdriver /\ s.logopts = live.logopts
      /\ s.restart = live.restart /\ s.pids = live.pids
      /\ s.plain = live.plain /\ s.cmd = live.cmd
      /\ s.labels = IF t.amp THEN live.labels ELSE Merged(ContainerLabels, live.labels)
      /\ s.network = live.network
      /\ s.mounts = IF t.amp THEN live.mounts
                    ELSE (live.mounts \ moved) \cup {Converted(m) : m \in moved}
  BY SetIconTargetFields
<1>2. moved \subseteq live.mounts /\ \A m \in moved : m.kind = "volume"
  BY DEF Convertible, Anonymous
<1> HIDE DEF s, live, moved
<1>3. ASSUME NEW m \in s.mounts
      PROVE  m \in live.mounts \/ \E o \in live.mounts : MovedFrom(m, o)
  BY <1>1, <1>2 DEF MovedFrom
<1>4. ASSUME NEW o \in live.mounts
      PROVE  o \in s.mounts \/ \E m \in s.mounts : MovedFrom(m, o)
  <2>1. CASE ~t.amp /\ o \in moved
    <3>1. Converted(o) \in s.mounts /\ MovedFrom(Converted(o), o)
      BY <1>1, <1>2, <2>1 DEF MovedFrom
    <3> QED BY <3>1
  <2>2. CASE t.amp \/ o \notin moved
    BY <1>1, <2>2
  <2> QED BY <2>1, <2>2
<1> QED BY <1>1, <1>3, <1>4 DEF TargetOf, s, live

LEMMA TargetMounts ==
    ASSUME NEW o, IsContainer(o), NEW s, TargetOf(s, o)
    PROVE  /\ \A m \in s.mounts : IsMount(m) /\ m.kind # "other"
           /\ \A m \in s.mounts : m \in o.mounts \/ m.src \in {AppData, ConvertedName}
           /\ \A m, n \in s.mounts : Anonymous(m) /\ n.src = m.src => n = m
           /\ {Place(m) : m \in s.mounts} = {Place(m) : m \in LiveSpec(o).mounts}
<1> DEFINE L == LiveSpec(o).mounts
<1>1. L = {m \in o.mounts : m.kind # "other"}
  BY LiveFields
<1>2. /\ \A m \in s.mounts : m \in L \/ \E x \in L : MovedFrom(m, x)
      /\ \A x \in L : x \in s.mounts \/ \E m \in s.mounts : MovedFrom(m, x)
  BY DEF TargetOf
<1>3. \A m \in o.mounts : IsMount(m)
  BY DEF IsContainer
<1> HIDE DEF L
<1>4. ASSUME NEW x \in L, NEW m, MovedFrom(m, x)
      PROVE  /\ IsMount(m) /\ m.kind # "other" /\ m.src \in {AppData, ConvertedName}
             /\ Place(m) = Place(x) /\ ~Anonymous(m)
  <2>1. x.kind = "volume" /\ IsMount(x) /\ m \in {Migrated(x), Converted(x)}
    BY <1>1, <1>3, <1>4 DEF MovedFrom
  <2>2. /\ IsMount(Migrated(x)) /\ IsMount(Converted(x))
        /\ Place(Migrated(x)) = Place(x) /\ Place(Converted(x)) = Place(x)
        /\ Migrated(x).kind = "bind" /\ Converted(x).kind = "volume"
        /\ Migrated(x).src = AppData /\ Converted(x).src = ConvertedName
        /\ ~Anonymous(Migrated(x)) /\ ~Anonymous(Converted(x))
    BY <2>1, MovedMounts
  <2> QED BY <2>1, <2>2
<1>5. \A m \in s.mounts : IsMount(m) /\ m.kind # "other"
  BY <1>1, <1>2, <1>3, <1>4
<1>6. \A m \in s.mounts : m \in o.mounts \/ m.src \in {AppData, ConvertedName}
  BY <1>1, <1>2, <1>4
<1>7. ASSUME NEW m \in s.mounts, NEW n \in s.mounts, Anonymous(m), n.src = m.src
      PROVE  n = m
  <2>1. m.src \in AnonymousNames
    BY <1>7 DEF Anonymous
  <2>2. m \in o.mounts /\ n \in o.mounts
    BY <1>6, <1>7, <2>1 DEF ConstantsAssumption
  <2> QED BY <1>7, <2>2 DEF IsContainer
<1>8. {Place(m) : m \in s.mounts} = {Place(m) : m \in L}
  <2>1. ASSUME NEW m \in s.mounts PROVE \E x \in L : Place(m) = Place(x)
    BY <1>2, <1>4
  <2>2. ASSUME NEW x \in L PROVE \E m \in s.mounts : Place(m) = Place(x)
    BY <1>2, <1>4
  <2> QED BY <2>1, <2>2
<1> QED BY <1>5, <1>6, <1>7, <1>8 DEF L

-----------------------------------------------------------------------------
(* What docker makes of a command that passed the gate.                     *)

LEMMA CreatedFields ==
    ASSUME NEW cmd, NEW id, NEW img, NEW d
    PROVE  LET c == Created(cmd, id, img, d) IN
           /\ c.id = id /\ c.image = img /\ c.tag = cmd.image
           /\ c.net = Arg(cmd, "net", "bridge") /\ c.hostname = Arg(cmd, "hostname", id)
           /\ c.env = Merged(Args(cmd, "env"), Images[img].env)
           /\ c.ports = Keys(cmd, "port") /\ c.mounts = Keys(cmd, "mount")
           /\ c.logdriver = Arg(cmd, "logdriver", "json-file")
           /\ c.logdriver = "json-file" => c.logopts = Merged(Args(cmd, "logopt"), d)
           /\ c.logdriver # "json-file" => c.logopts = Merged(Args(cmd, "logopt"), NoMap)
           /\ c.restart = Arg(cmd, "restart", None) /\ c.pids = Arg(cmd, "pids", 0)
           /\ c.labels = Merged(Args(cmd, "label"), Images[img].labels)
           /\ cmd.args = None => c.cmd = Images[img].cmd
           /\ cmd.args # None => c.cmd = cmd.args
           /\ c.extra = Keys(cmd, "other")
BY DEF Created

LEMMA CreatedPlain ==
    ASSUME NEW cmd, NEW id, NEW img, NEW d
    PROVE  LET c == Created(cmd, id, img, d) IN
           DOMAIN c.plain = PlainFacets /\ IsMap(c.plain)
BY DEF Created, IsMap

LEMMA CreatedPlainFacets ==
    ASSUME NEW cmd, NEW id, NEW img, NEW d, NEW f \in PlainFacets
    PROVE  Created(cmd, id, img, d).plain[f] = Arg(cmd, f, FALSE)
BY DEF Created

(* No word of the command gives the container none for a hostname.          *)
Named(cmd) == \A w \in cmd.own \cup cmd.extra : w[1] = "hostname" => w[3] # None

LEMMA CreatedIsContainer ==
    ASSUME NEW cmd, NEW id, NEW img \in DOMAIN Images, NEW d, NEW c,
           c = Created(cmd, id, img, d), id # None, Named(cmd),
           \A m \in Keys(cmd, "mount") : IsMount(m),
           \A m, n \in Keys(cmd, "mount") : Anonymous(m) /\ n.src = m.src => n = m
    PROVE  IsContainer(c) /\ c.hostname # None
<1>1. /\ c.id = id /\ c.image = img /\ c.hostname = Arg(cmd, "hostname", id)
      /\ c.env = Merged(Args(cmd, "env"), Images[img].env)
      /\ c.mounts = Keys(cmd, "mount")
      /\ c.logdriver = "json-file" => c.logopts = Merged(Args(cmd, "logopt"), d)
      /\ c.logdriver # "json-file" => c.logopts = Merged(Args(cmd, "logopt"), NoMap)
      /\ c.labels = Merged(Args(cmd, "label"), Images[img].labels)
      /\ cmd.args = None => c.cmd = Images[img].cmd
      /\ cmd.args # None => c.cmd = cmd.args
  BY CreatedFields
<1>2. c = [id |-> c.id, image |-> c.image, tag |-> c.tag, net |-> c.net,
           hostname |-> c.hostname, env |-> c.env, ports |-> c.ports, mounts |-> c.mounts,
           logdriver |-> c.logdriver, logopts |-> c.logopts, restart |-> c.restart,
           pids |-> c.pids, labels |-> c.labels, plain |-> c.plain, cmd |-> c.cmd,
           extra |-> c.extra]
  BY DEF Created
<1>3. c.hostname # None
  <2> DEFINE flag == "hostname"
  <2>1. /\ \A w \in cmd.own \cup cmd.extra : w[1] = flag => w[3] # None
        /\ c.hostname = Arg(cmd, flag, id)
    BY <1>1 DEF Named
  <2> HIDE DEF flag
  <2> QED BY <2>1, ArgIsWord
<1>4. /\ IsMap(c.env) /\ IsMap(c.labels) /\ IsMap(c.logopts)
      /\ DOMAIN Images[img].labels \subseteq DOMAIN c.labels
  <2>1. IsMap(c.env)
    BY <1>1, MergedIsMap
  <2>2. IsMap(c.labels) /\ DOMAIN Images[img].labels \subseteq DOMAIN c.labels
    <3> DEFINE A == Args(cmd, "label")
               B == Images[img].labels
    <3>1. c.labels = Merged(A, B)
      BY <1>1
    <3> HIDE DEF A
    <3>2. IsMap(c.labels) /\ DOMAIN c.labels = DOMAIN A \cup DOMAIN B
      <4> HIDE DEF B
      <4> QED BY <3>1, MergedIsMap
    <3> QED BY <3>2
  <2>3. IsMap(c.logopts)
    BY <1>1, MergedIsMap
  <2> QED BY <2>1, <2>2, <2>3
<1>5. IsMap(c.plain) /\ DOMAIN c.plain = PlainFacets
  BY CreatedPlain
<1>6. c.cmd = None => Images[img].cmd = None
  BY <1>1
<1> QED BY <1>1, <1>2, <1>3, <1>4, <1>5, <1>6 DEF IsContainer

LEMMA WithoutIsMap ==
    ASSUME NEW f, NEW D
    PROVE  /\ IsMap(Without(f, D)) /\ DOMAIN Without(f, D) = DOMAIN f \ D
BY DEF Without, IsMap

LEMMA WithoutValues ==
    ASSUME NEW f, NEW D, NEW k \in DOMAIN f \ D
    PROVE  Without(f, D)[k] = f[k]
BY DEF Without

(* Neither compose's labels nor dockerMan's are aimed at.                   *)
LEMMA TargetLabels ==
    ASSUME NEW o, NEW s, TargetOf(s, o)
    PROVE  DOMAIN s.labels \cap (ComposeLabels \cup UnraidLabels) = {}
<1> DEFINE L == Without(OwnLabels(o), ComposeLabels)
<1>1. LiveSpec(o).labels = Without(L, UnraidLabels)
  BY LiveFields
<1>2. DOMAIN L = DOMAIN OwnLabels(o) \ ComposeLabels
  BY WithoutIsMap
<1> HIDE DEF L
<1>3. DOMAIN LiveSpec(o).labels = DOMAIN L \ UnraidLabels
  BY <1>1, WithoutIsMap
<1>4. DOMAIN ContainerLabels = {"owner"}
  BY DEF ContainerLabels, OwnershipKeys
<1> DEFINE M == LiveSpec(o).labels
<1>5. s.labels = M \/ s.labels = Merged(ContainerLabels, M)
  BY DEF TargetOf
<1> HIDE DEF M
<1>6. DOMAIN s.labels \subseteq DOMAIN M \cup {"owner"}
  <2>1. DOMAIN Merged(ContainerLabels, M) = DOMAIN ContainerLabels \cup DOMAIN M
    BY MergedIsMap
  <2> QED BY <1>4, <1>5, <2>1
<1> QED BY <1>2, <1>3, <1>6 DEF M, ComposeLabels, UnraidLabels

(* The compose labels it has, it has from its image.                        *)
ComposeFromImage(c) ==
    \A k \in ComposeLabels \cap DOMAIN c.labels :
        /\ k \in DOMAIN Images[c.image].labels
        /\ c.labels[k] = Images[c.image].labels[k]

(* The command passed the gate of a plan for the container.                 *)
Admits(o, s, cmd) ==
    /\ IsContainer(o) /\ TargetOf(s, o) /\ Named(cmd)
    /\ \E moving : Unsupported(o, moving) = {}
    /\ \E i, d, mode : Blocking(s, RenderedSpec(cmd, i, d), mode) = {}

LEMMA RebuiltFromGated ==
    ASSUME NEW o, NEW s, NEW cmd, Admits(o, s, cmd),
           NEW id, id # None, NEW img \in DOMAIN Images, NEW e,
           NEW c, c = Created(cmd, id, img, e)
    PROVE  /\ IsContainer(c) /\ c.hostname # None
           /\ ComposeFromImage(c) /\ Unsupported(c, FALSE) = {}
<1>0. IsContainer(o) /\ TargetOf(s, o) /\ Named(cmd)
  BY DEF Admits
<1>a. PICK moving : Unsupported(o, moving) = {}
  BY DEF Admits
<1>b. PICK i, d, mode : Blocking(s, RenderedSpec(cmd, i, d), mode) = {}
  BY DEF Admits
<1> DEFINE g == RenderedSpec(cmd, i, d)
<1>1. /\ s.network = g.network /\ s.ports = g.ports /\ s.mounts = g.mounts
      /\ s.labels = g.labels /\ g.other = {}
  BY <1>b, GatePassed
<1>2. /\ g.network = Arg(cmd, "net", "bridge") /\ g.ports = Keys(cmd, "port")
      /\ g.mounts = Keys(cmd, "mount") /\ g.other = Keys(cmd, "other")
      /\ g.labels = Without(Args(cmd, "label"), UnraidLabels)
  BY RenderedFields, RenderedOptions
<1> HIDE DEF g
<1>3. /\ c.net = s.network /\ c.ports = s.ports /\ c.mounts = s.mounts /\ c.extra = {}
      /\ c.labels = Merged(Args(cmd, "label"), Images[img].labels) /\ c.image = img
  BY <1>1, <1>2, CreatedFields
<1>4. /\ \A m \in s.mounts : IsMount(m) /\ m.kind # "other"
      /\ \A m, n \in s.mounts : Anonymous(m) /\ n.src = m.src => n = m
  BY <1>0, TargetMounts
<1>5. IsContainer(c) /\ c.hostname # None
  <2>1. Keys(cmd, "mount") = s.mounts
    BY <1>1, <1>2
  <2>2. /\ \A m \in Keys(cmd, "mount") : IsMount(m)
        /\ \A m, n \in Keys(cmd, "mount") : Anonymous(m) /\ n.src = m.src => n = m
    BY <1>4, <2>1
  <2> QED BY <1>0, <2>2, CreatedIsContainer
<1>6. ComposeFromImage(c)
  <2> DEFINE A == Args(cmd, "label")
             B == Images[img].labels
  <2>1. DOMAIN s.labels \cap (ComposeLabels \cup UnraidLabels) = {}
    BY <1>0, TargetLabels
  <2>2. s.labels = Without(A, UnraidLabels)
    BY <1>1, <1>2
  <2>3. c.labels = Merged(A, B)
    BY <1>3
  <2>4. B = Images[c.image].labels
    BY <1>3
  <2> HIDE DEF A, B
  <2>5. DOMAIN s.labels = DOMAIN A \ UnraidLabels
    BY <2>2, WithoutIsMap
  <2>6. DOMAIN A \cap ComposeLabels = {}
    BY <2>1, <2>5 DEF ComposeLabels, UnraidLabels
  <2>7. DOMAIN c.labels = DOMAIN A \cup DOMAIN B
    BY <2>3, MergedIsMap
  <2>8. ASSUME NEW k \in ComposeLabels \cap DOMAIN c.labels
        PROVE  k \in DOMAIN B /\ c.labels[k] = B[k]
    BY <2>3, <2>6, <2>7, <2>8, MergedValues
  <2> QED BY <2>4, <2>8 DEF ComposeFromImage
<1>7. Unsupported(c, FALSE) = {}
  <2>1. c.net # "container"
    <3>1. o.net # "container"
      BY <1>a DEF Unsupported
    <3>2. LiveSpec(o).network = o.net
      BY LiveFields
    <3>3. s.network = o.net \/ s.network = "bridge"
      BY <1>0, <3>2 DEF TargetOf
    <3> QED BY <1>3, <3>1, <3>3
  <2>2. \A p \in c.ports : p.host # "random"
    <3>1. s.ports = LiveSpec(o).ports
      BY <1>0 DEF TargetOf
    <3>2. LiveSpec(o).ports = {p \in o.ports : p.host # "random"}
      BY LiveFields
    <3> QED BY <1>3, <3>1, <3>2
  <2>3. \A m \in c.mounts : m.kind # "other"
    BY <1>3, <1>4
  <2>4. {x \in {c.net} : x = "container"} = {}
    BY <2>1
  <2>5. {"random port" : p \in {p \in c.ports : p.host = "random"}} = {}
    BY <2>2
  <2>6. {"mount" : m \in {m \in c.mounts : m.kind = "other"}} = {}
    BY <2>3
  <2>7. Unmodelled(c, FALSE) = {}
    BY <1>3 DEF Unmodelled
  <2> QED BY <2>4, <2>5, <2>6, <2>7 DEF Unsupported
<1> QED BY <1>5, <1>6, <1>7

-----------------------------------------------------------------------------
(* The container made of a command is the one the command says.             *)

LEMMA TzAgrees ==
    ASSUME NEW A, NEW E, "TZ" \in DOMAIN E => "TZ" \in DOMAIN A
    PROVE  TzOf(Merged(A, E)) = TzOf(A)
<1> DEFINE tz == "TZ"
<1>1. DOMAIN Merged(A, E) = DOMAIN A \cup DOMAIN E
  BY MergedIsMap
<1>2. tz \in DOMAIN A => Merged(A, E)[tz] = A[tz]
  <2> HIDE DEF tz
  <2> QED BY MergedValues
<1> QED BY <1>1, <1>2 DEF TzOf

LEMMA EnvAgrees ==
    ASSUME NEW A, NEW X, NEW img
    PROVE  Unbaked(Without(A, X), img)
             = Without(Unbaked(Merged(A, Images[img].env), img), X)
<1> DEFINE E == Images[img].env
           B == Baked(img)
           M == Merged(A, E)
           W == Without(A, X)
           U == Unbaked(M, img)
<1>1. ASSUME NEW k \in DOMAIN E PROVE <<k, E[k]>> \in B
  BY DEF Baked
<1>2. /\ DOMAIN M = DOMAIN A \cup DOMAIN E
      /\ \A k \in DOMAIN A : M[k] = A[k]
      /\ \A k \in DOMAIN E \ DOMAIN A : M[k] = E[k]
  <2> HIDE DEF E
  <2>1. DOMAIN M = DOMAIN A \cup DOMAIN E
    BY MergedIsMap
  <2>2. \A k \in DOMAIN A : M[k] = A[k]
    BY MergedValues
  <2>3. \A k \in DOMAIN E \ DOMAIN A : M[k] = E[k]
    BY MergedValues
  <2> QED BY <2>1, <2>2, <2>3
<1>3. DOMAIN W = DOMAIN A \ X /\ \A k \in DOMAIN W : W[k] = A[k]
  BY DEF Without
<1>4. /\ DOMAIN U = {k \in DOMAIN M : <<k, M[k]>> \notin B}
      /\ \A k \in DOMAIN U : U[k] = M[k]
  <2> HIDE DEF M
  <2> QED BY DEF Unbaked
<1>5. Unbaked(W, img) = [k \in {x \in DOMAIN W : <<x, W[x]>> \notin B} |-> W[k]]
  <2> HIDE DEF W
  <2> QED BY DEF Unbaked
<1>6. Without(U, X) = [k \in DOMAIN U \ X |-> U[k]]
  <2> HIDE DEF U
  <2> QED BY DEF Without
<1> HIDE DEF E, B, M, W, U
<1>7. {x \in DOMAIN W : <<x, W[x]>> \notin B} = DOMAIN U \ X
  BY <1>1, <1>2, <1>3, <1>4
<1>8. \A k \in DOMAIN U \ X : W[k] = U[k]
  BY <1>1, <1>2, <1>3, <1>4
<1>9. Unbaked(W, img) = Without(U, X)
  BY <1>5, <1>6, <1>7, <1>8
<1> QED BY <1>9 DEF E, M, W, U

LEMMA LabelsAgree ==
    ASSUME NEW c, NEW A, c.labels = Merged(A, Images[c.image].labels),
           DOMAIN A \cap ComposeLabels = {},
           \A k \in DOMAIN A \ UnraidLabels :
              ~(k \in DOMAIN Images[c.image].labels /\ Images[c.image].labels[k] = A[k])
    PROVE  Without(Without(OwnLabels(c), ComposeLabels), UnraidLabels) = Without(A, UnraidLabels)
<1> DEFINE B == Images[c.image].labels
           M == c.labels
           O == OwnLabels(c)
           C == ComposeLabels
           U == UnraidLabels
           V == Without(O, C)
<1>1. /\ DOMAIN M = DOMAIN A \cup DOMAIN B
      /\ \A k \in DOMAIN A : M[k] = A[k]
      /\ \A k \in DOMAIN B \ DOMAIN A : M[k] = B[k]
  <2>0. M = Merged(A, B)
    OBVIOUS
  <2> HIDE DEF B, M
  <2>1. DOMAIN M = DOMAIN A \cup DOMAIN B
    BY <2>0, MergedIsMap
  <2>2. \A k \in DOMAIN A : M[k] = A[k]
    BY <2>0, MergedValues
  <2>3. \A k \in DOMAIN B \ DOMAIN A : M[k] = B[k]
    BY <2>0, MergedValues
  <2> QED BY <2>1, <2>2, <2>3
<1>2. /\ DOMAIN O = {x \in DOMAIN M : ~(x \in DOMAIN B /\ B[x] = M[x])}
      /\ \A k \in DOMAIN O : O[k] = M[k]
  BY DEF OwnLabels
<1>3. /\ DOMAIN A \cap C = {}
      /\ \A k \in DOMAIN A \ U : ~(k \in DOMAIN B /\ B[k] = A[k])
  OBVIOUS
<1> HIDE DEF B, M, O, C, U
<1>4. V = [k \in DOMAIN O \ C |-> O[k]]
  BY DEF Without
<1>5. DOMAIN V = DOMAIN O \ C /\ \A k \in DOMAIN V : V[k] = O[k]
  BY <1>4
<1> HIDE DEF V
<1>6. Without(V, U) = [k \in DOMAIN V \ U |-> V[k]] /\ Without(A, U) = [k \in DOMAIN A \ U |-> A[k]]
  BY DEF Without
<1>7. DOMAIN V \ U = DOMAIN A \ U
  BY <1>1, <1>2, <1>3, <1>5
<1>8. \A k \in DOMAIN A \ U : V[k] = A[k]
  BY <1>1, <1>2, <1>3, <1>5, <1>7
<1>9. Without(V, U) = Without(A, U)
  BY <1>6, <1>7, <1>8
<1> QED BY <1>9 DEF V, O, C, U

(* Outside the host's network, a container without a hostname of its own    *)
(* has its id for one.                                                      *)
LEMMA HostnameAgrees ==
    ASSUME NEW cmd, NEW i, NEW d, Named(cmd), NEW id, id # None, NEW img, NEW e,
           NEW g, g = RenderedSpec(cmd, i, d), NEW c, c = Created(cmd, id, img, e),
           c.net = "host" => g.hostname = None
    PROVE  \/ g.hostname = LiveSpec(c).hostname
           \/ g.hostname = None /\ LiveSpec(c).hostname # None /\ LiveSpec(c).idname
<1>1. g.hostname = Arg(cmd, "hostname", None)
  BY RenderedFields
<1>2. c.hostname = Arg(cmd, "hostname", id) /\ c.id = id
  BY CreatedFields
<1>3. /\ LiveSpec(c).hostname = IF c.net = "host" THEN None ELSE c.hostname
      /\ LiveSpec(c).idname = (c.net # "host" /\ c.hostname = c.id)
  BY LiveFields
<1>4. \/ Arg(cmd, "hostname", None) = Arg(cmd, "hostname", id)
      \/ Arg(cmd, "hostname", None) = None /\ Arg(cmd, "hostname", id) = id
  BY DEF Arg
<1> HIDE DEF None
<1> QED BY <1>1, <1>2, <1>3, <1>4

(* A container on the host's network is not given a hostname.               *)
LEMMA HostHasNoName ==
    ASSUME NEW o, NEW s, TargetOf(s, o), NEW cmd, NEW i, NEW d, NEW mode,
           NEW g, g = RenderedSpec(cmd, i, d), Blocking(s, g, mode) = {},
           g.network = "host"
    PROVE  g.hostname = None
<1>1. /\ s.network = g.network
      /\ \/ s.hostname = g.hostname
         \/ s.hostname # None /\ g.hostname = None /\ s.idname
         \/ s.hostname = None /\ g.idname
  BY GatePassed
<1>2. g.idname = FALSE
  BY RenderedFields
<1>3. s.network = o.net /\ s.hostname = LiveSpec(o).hostname
  <2>1. LiveSpec(o).network = o.net
    BY LiveFields
  <2>2. s.network = LiveSpec(o).network \/ s.network = "bridge"
    BY DEF TargetOf
  <2>3. s.hostname = LiveSpec(o).hostname
    BY DEF TargetOf
  <2> QED BY <1>1, <2>1, <2>2, <2>3
<1>4. s.hostname = None
  <2>1. LiveSpec(o).hostname = IF o.net = "host" THEN None ELSE o.hostname
    BY LiveFields
  <2> QED BY <1>1, <1>3, <2>1
<1> QED BY <1>1, <1>2, <1>4

LEMMA LimitsAgree ==
    ASSUME NEW cmd, NEW i, NEW d, NEW id, NEW img, NEW e,
           NEW g, g = RenderedSpec(cmd, i, d), NEW c, c = Created(cmd, id, img, e)
    PROVE  g.restart = LiveSpec(c).restart /\ g.pids = LiveSpec(c).pids
<1>1. g.restart = Arg(cmd, "restart", None) /\ g.pids = Arg(cmd, "pids", 0)
  BY RenderedLimits
<1>2. c.restart = Arg(cmd, "restart", None) /\ c.pids = Arg(cmd, "pids", 0)
  BY CreatedFields
<1>3. LiveSpec(c).restart = c.restart /\ LiveSpec(c).pids = c.pids
  BY LiveFields
<1> QED BY <1>1, <1>2, <1>3

LEMMA PlainAgrees ==
    ASSUME NEW cmd, NEW i, NEW d, NEW id, NEW img, NEW e,
           NEW g, g = RenderedSpec(cmd, i, d), NEW c, c = Created(cmd, id, img, e)
    PROVE  g.plain = c.plain
<1> DEFINE p == g.plain
           q == c.plain
<1>1. DOMAIN p = PlainFacets /\ IsMap(p)
  BY RenderedPlain
<1>2. DOMAIN q = PlainFacets /\ IsMap(q)
  BY CreatedPlain
<1>3. ASSUME NEW f \in PlainFacets PROVE p[f] = q[f]
  <2>1. p[f] = Arg(cmd, f, FALSE)
    BY RenderedPlainFacets
  <2>2. q[f] = Arg(cmd, f, FALSE)
    BY CreatedPlainFacets
  <2> QED BY <2>1, <2>2
<1> HIDE DEF p, q
<1>4. p = q
  BY <1>1, <1>2, <1>3 DEF IsMap
<1> QED BY <1>4 DEF p, q

LEMMA MergedWithNothing ==
    ASSUME NEW f, IsMap(f)
    PROVE  Merged(f, NoMap) = f
<1>1. DOMAIN NoMap = {}
  BY DEF NoMap
<1>2. DOMAIN Merged(f, NoMap) = DOMAIN f \cup DOMAIN NoMap /\ IsMap(Merged(f, NoMap))
  BY MergedIsMap
<1>3. \A k \in DOMAIN f : Merged(f, NoMap)[k] = f[k]
  BY MergedValues
<1>4. DOMAIN Merged(f, NoMap) = DOMAIN f
  BY <1>1, <1>2
<1> QED BY <1>2, <1>3, <1>4 DEF IsMap

(* The image of a container brings neither orca's ownership label nor a TZ  *)
(* that the command leaves to it.                                           *)
OutOfTheWay(img, cmd) ==
    /\ "TZ" \in DOMAIN Images[img].env => "TZ" \in Keys(cmd, "env")
    /\ \A k \in OwnershipKeys \cap DOMAIN Images[img].labels :
          Images[img].labels[k] # ContainerLabels[k]

(* Of a gated command, and of the image and the daemon's defaults the gate  *)
(* went by, docker makes a container that verifies: there is no need of     *)
(* luck.  What the gate does not see is assumed away.                       *)
LEMMA GatedVerifies ==
    ASSUME NEW o, IsContainer(o), NEW s, TargetOf(s, o),
           NEW cmd, NEW d, NEW g, g = RenderedSpec(cmd, o.image, d),
           NEW mode, Blocking(s, g, mode) = {},
           Named(cmd), NEW id, id # None, NEW c, c = Created(cmd, id, o.image, d),
           OutOfTheWay(o.image, cmd), NEW other
    PROVE  Blocking(g, LiveSpec(c), other) = {}
<1> DEFINE l == LiveSpec(c)
           live == LiveSpec(o)
<1>1. /\ s.ports = g.ports /\ s.mounts = g.mounts /\ s.labels = g.labels /\ s.cmd = g.cmd
      /\ g.other = {}
  BY GatePassed
<1>2. /\ g.image = cmd.image /\ g.network = Arg(cmd, "net", "bridge")
      /\ g.ports = Keys(cmd, "port") /\ g.mounts = Keys(cmd, "mount")
      /\ g.env = Unbaked(Without(Args(cmd, "env"), UnraidEnv \cup {"TZ"}), o.image)
      /\ g.tz = TzOf(Args(cmd, "env"))
  <2> DEFINE i == o.image
             G == RenderedSpec(cmd, i, d)
  <2>1. g = G
    OBVIOUS
  <2> HIDE DEF i
  <2>2. G.image = cmd.image
    BY RenderedImage
  <2>3. /\ G.network = Arg(cmd, "net", "bridge")
        /\ G.ports = Keys(cmd, "port") /\ G.mounts = Keys(cmd, "mount")
        /\ G.env = Unbaked(Without(Args(cmd, "env"), UnraidEnv \cup {"TZ"}), i)
        /\ G.tz = TzOf(Args(cmd, "env"))
    BY RenderedFields
  <2> HIDE DEF G
  <2> QED BY <2>1, <2>2, <2>3 DEF i
<1>3. /\ g.logdriver = Arg(cmd, "logdriver", "json-file")
      /\ g.logdriver = "json-file" => g.logopts = Merged(Args(cmd, "logopt"), d)
      /\ g.logdriver # "json-file" => g.logopts = Args(cmd, "logopt")
      /\ g.labels = Without(Args(cmd, "label"), UnraidLabels)
      /\ g.cmd = cmd.args
  BY RenderedOptions
<1>4. /\ c.id = id /\ c.image = o.image /\ c.tag = cmd.image /\ c.net = Arg(cmd, "net", "bridge")
      /\ c.ports = Keys(cmd, "port") /\ c.mounts = Keys(cmd, "mount")
      /\ c.env = Merged(Args(cmd, "env"), Images[o.image].env)
      /\ c.labels = Merged(Args(cmd, "label"), Images[o.image].labels)
  BY CreatedFields
<1>5. /\ c.logdriver = Arg(cmd, "logdriver", "json-file")
      /\ c.logdriver = "json-file" => c.logopts = Merged(Args(cmd, "logopt"), d)
      /\ c.logdriver # "json-file" => c.logopts = Merged(Args(cmd, "logopt"), NoMap)
      /\ cmd.args = None => c.cmd = Images[o.image].cmd
      /\ cmd.args # None => c.cmd = cmd.args
  BY CreatedFields
<1>6. /\ l.image = c.tag /\ l.network = c.net /\ l.ports = {p \in c.ports : p.host # "random"}
      /\ l.env = Without(Unbaked(c.env, c.image), UnraidEnv \cup {"TZ"})
      /\ l.tz = TzOf(c.env) /\ l.mounts = {m \in c.mounts : m.kind # "other"}
      /\ l.logdriver = c.logdriver /\ l.logopts = c.logopts /\ l.plain = c.plain
      /\ l.labels = Without(Without(OwnLabels(c), ComposeLabels), UnraidLabels)
      /\ l.cmd = IF c.cmd = Images[c.image].cmd THEN None ELSE c.cmd
  BY LiveFields
<1>7. /\ s.ports = live.ports /\ s.cmd = live.cmd
      /\ s.labels = live.labels \/ s.labels = Merged(ContainerLabels, live.labels)
  BY DEF TargetOf
<1>8. /\ live.ports = {p \in o.ports : p.host # "random"}
      /\ live.cmd = IF o.cmd = Images[o.image].cmd THEN None ELSE o.cmd
      /\ live.labels = Without(Without(OwnLabels(o), ComposeLabels), UnraidLabels)
  BY LiveFields
<1> HIDE DEF l, live
<1>a. g.image = l.image /\ g.network = l.network
  BY <1>2, <1>4, <1>6
<1>b. g.ports = l.ports
  <2>1. \A p \in c.ports : p.host # "random"
    BY <1>1, <1>2, <1>4, <1>7, <1>8
  <2> QED BY <1>2, <1>4, <1>6, <2>1
<1>c. g.env = l.env
  BY <1>2, <1>4, <1>6, EnvAgrees
<1>d. g.tz = l.tz
  <2> DEFINE A == Args(cmd, "env")
             E == Images[o.image].env
  <2>1. DOMAIN A = Keys(cmd, "env")
    BY ArgsAreWords
  <2>2. TzOf(Merged(A, E)) = TzOf(A)
    <3>1. "TZ" \in DOMAIN E => "TZ" \in DOMAIN A
      BY <2>1 DEF OutOfTheWay
    <3> HIDE DEF A, E
    <3> QED BY <3>1, TzAgrees
  <2> QED BY <1>2, <1>4, <1>6, <2>2
<1>e. g.mounts = l.mounts
  <2>1. \A m \in s.mounts : m.kind # "other"
    BY TargetMounts
  <2> QED BY <1>1, <1>2, <1>4, <1>6, <2>1
<1>f. g.logdriver = l.logdriver /\ g.logopts = l.logopts
  <2> DEFINE A == Args(cmd, "logopt")
  <2>1. IsMap(A)
    BY ArgsAreWords
  <2>2. Merged(A, NoMap) = A
    <3> HIDE DEF A
    <3> QED BY <2>1, MergedWithNothing
  <2> QED BY <1>3, <1>5, <1>6, <2>2
<1>g. g.labels = l.labels
  <2> DEFINE A == Args(cmd, "label")
             B == Images[o.image].labels
             M == live.labels
             V == Without(OwnLabels(o), ComposeLabels)
             K == ContainerLabels
  <2>1. DOMAIN s.labels \cap (ComposeLabels \cup UnraidLabels) = {}
    BY TargetLabels
  <2>2. s.labels = Without(A, UnraidLabels)
    BY <1>1, <1>3
  <2>3. M = Without(V, UnraidLabels)
    BY <1>8
  <2>4. /\ DOMAIN OwnLabels(o) = {x \in DOMAIN o.labels : ~(x \in DOMAIN B /\ B[x] = o.labels[x])}
        /\ \A k \in DOMAIN OwnLabels(o) : OwnLabels(o)[k] = o.labels[k]
    BY DEF OwnLabels
  <2>5. s.labels = M \/ s.labels = Merged(K, M)
    BY <1>7
  <2>6. /\ c.labels = Merged(A, B) /\ B = Images[c.image].labels
        /\ \A k \in OwnershipKeys \cap DOMAIN B : B[k] # K[k]
    BY <1>4 DEF OutOfTheWay
  <2>7. DOMAIN K = OwnershipKeys
    BY DEF ContainerLabels
  <2>8. DOMAIN V = DOMAIN OwnLabels(o) \ ComposeLabels
    BY WithoutIsMap
  <2>9. \A k \in DOMAIN V : V[k] = OwnLabels(o)[k]
    BY <2>8, WithoutValues
  <2> HIDE DEF A, B, M, V, K
  <2>10. DOMAIN M = DOMAIN V \ UnraidLabels
    BY <2>3, WithoutIsMap
  <2>11. \A k \in DOMAIN M : M[k] = V[k]
    BY <2>3, <2>10, WithoutValues
  <2>12. \A k \in DOMAIN M : ~(k \in DOMAIN B /\ B[k] = M[k])
    BY <2>4, <2>8, <2>9, <2>10, <2>11
  <2>13. \A k \in DOMAIN s.labels : ~(k \in DOMAIN B /\ B[k] = s.labels[k])
    <3>1. CASE s.labels = M
      BY <3>1, <2>12
    <3>2. CASE s.labels = Merged(K, M)
      <4>1. DOMAIN s.labels = DOMAIN K \cup DOMAIN M
        BY <3>2, MergedIsMap
      <4>2. \A k \in DOMAIN K : s.labels[k] = K[k]
        BY <3>2, MergedValues
      <4>3. \A k \in DOMAIN M \ DOMAIN K : s.labels[k] = M[k]
        BY <3>2, MergedValues
      <4> QED BY <4>1, <4>2, <4>3, <2>6, <2>7, <2>12
    <3> QED BY <3>1, <3>2, <2>5
  <2>14. DOMAIN s.labels = DOMAIN A \ UnraidLabels
    BY <2>2, WithoutIsMap
  <2>15. \A k \in DOMAIN s.labels : s.labels[k] = A[k]
    BY <2>2, <2>14, WithoutValues
  <2>16. DOMAIN A \cap ComposeLabels = {}
    BY <2>1, <2>14 DEF ComposeLabels, UnraidLabels
  <2>17. \A k \in DOMAIN A \ UnraidLabels :
            ~(k \in DOMAIN Images[c.image].labels /\ Images[c.image].labels[k] = A[k])
    BY <2>6, <2>13, <2>14, <2>15
  <2>18. c.labels = Merged(A, Images[c.image].labels)
    BY <2>6
  <2>19. l.labels = Without(A, UnraidLabels)
    BY <1>6, <2>16, <2>17, <2>18, LabelsAgree
  <2> QED BY <1>1, <2>2, <2>19
<1>h. g.plain = l.plain
  BY <1>6, PlainAgrees
<1>i. g.cmd = l.cmd
  BY <1>1, <1>3, <1>4, <1>5, <1>6, <1>7, <1>8
<1>j. \/ g.hostname = l.hostname
      \/ g.hostname = None /\ l.hostname # None /\ l.idname
  <2>1. g.network = c.net
    BY <1>2, <1>4
  <2>2. c.net = "host" => g.hostname = None
    BY <2>1, HostHasNoName
  <2> QED BY <2>2, HostnameAgrees DEF l
<1>k. g.restart = l.restart /\ g.pids = l.pids
  BY LimitsAgree DEF l
<1>m. l.other = {}
  BY LiveFields DEF l
<1> QED BY <1>a, <1>b, <1>c, <1>d, <1>e, <1>f, <1>g, <1>h, <1>i, <1>j, <1>k, <1>m,
           GatePasses DEF l

-----------------------------------------------------------------------------
(* Templates: which words are where.                                        *)

(* A word of a Config entry, and of ExtraParams; a template of the verbs.    *)
ConfigWord(w) ==
    /\ w = <<w[1], w[2], w[3]>> /\ w[1] \in {"port", "mount", "env"}
    /\ w[1] = "mount" => w[3] = Blank

ExtraWord(w) ==
    /\ w[1] = "label" => w[2] \notin UnraidLabels
    /\ w[1] = "hostname" => w[3] # None
    /\ w[1] = "mount" => ~Anonymous(w[2])

IsTemplate(t) ==
    /\ t = [image |-> t.image, network |-> t.network, icon |-> t.icon, amp |-> t.amp,
            privileged |-> t.privileged, args |-> t.args, configs |-> t.configs,
            extra |-> t.extra]
    /\ \A w \in t.configs : ConfigWord(w)
    /\ \A w \in t.extra : ExtraWord(w)

(* The words that give the ownership label.                                 *)
Owning(words) == {w \in words : w[1] = "label" /\ w[2] \in OwnershipKeys}

LEMMA LiveIsATarget ==
    ASSUME NEW c
    PROVE  TargetOf(LiveSpec(c), c)
<1> DEFINE l == LiveSpec(c)
<1>1. \A m \in l.mounts : m \in l.mounts
  OBVIOUS
<1> QED BY <1>1 DEF TargetOf

LEMMA NotAnonymous ==
    ASSUME NEW m, IsMount(m), ~HasConfig(m)
    PROVE  ~Anonymous(m)
BY DEF IsMount, HasConfig, Anonymous, ConstantsAssumption

LEMMA FromSpecFields ==
    ASSUME NEW s, NEW icon
    PROVE  LET t == FromSpec(s, icon) IN
           /\ t = [image |-> t.image, network |-> t.network, icon |-> t.icon, amp |-> t.amp,
                   privileged |-> t.privileged, args |-> t.args, configs |-> t.configs,
                   extra |-> t.extra]
BY DEF FromSpec

LEMMA FromSpecParts ==
    ASSUME NEW s, NEW icon
    PROVE  /\ FromSpec(s, icon).configs = Configs(s)
           /\ FromSpec(s, icon).extra = ExtraParams(s)
           /\ FromSpec(s, icon).icon = icon
           /\ FromSpec(s, icon).amp = FALSE
BY DEF FromSpec

LEMMA FromSpecConfigs ==
    ASSUME NEW s, NEW icon, NEW w \in FromSpec(s, icon).configs
    PROVE  \/ w \in Words({p \in s.ports : p.ip = "any"}, "port")
           \/ w \in Words({m \in s.mounts : HasConfig(m)}, "mount")
           \/ w \in MapWords(s.env, "env")
           \/ w \in {<<"env", "TZ", v>> : v \in {s.tz} \ {Blank}}
BY FromSpecParts DEF Configs

LEMMA FromSpecExtra ==
    ASSUME NEW s, NEW icon, NEW w \in FromSpec(s, icon).extra
    PROVE  \/ \/ w \in Words({p \in s.ports : p.ip # "any"}, "port")
              \/ w \in Words({m \in s.mounts : ~HasConfig(m)}, "mount")
              \/ w \in MapWords(s.logopts, "logopt")
           \/ \/ w \in Optional("hostname", s.hostname, None)
              \/ w \in Optional("logdriver", s.logdriver, "json-file")
              \/ w \in Optional("restart", s.restart, None)
              \/ w \in Optional("pids", s.pids, 0)
           \/ \E f \in {"tmpfs", "gpus"} : w \in Optional(f, s.plain[f], FALSE)
           \/ w \in MapWords(s.labels, "label")
<1> DEFINE P == Words({p \in s.ports : p.ip # "any"}, "port")
           M == Words({m \in s.mounts : ~HasConfig(m)}, "mount")
           H == Optional("hostname", s.hostname, None)
           F == {Optional(f, s.plain[f], FALSE) : f \in PlainFacets \ {"privileged"}}
           D == Optional("logdriver", s.logdriver, "json-file")
           O == MapWords(s.logopts, "logopt")
           R == Optional("restart", s.restart, None)
           I == Optional("pids", s.pids, 0)
           J == Optional("pids", s.pids, UnraidPidsLimit)
           L == MapWords(s.labels, "label")
<1>1. FromSpec(s, icon).extra =
        P \cup M \cup H \cup (UNION F) \cup D \cup O \cup R \cup (I \cap J) \cup L
  <2>1. ExtraParams(s) = P \cup M \cup H \cup (UNION F) \cup D \cup O \cup R \cup (I \cap J) \cup L
    BY Zenon DEF ExtraParams
  <2> HIDE DEF P, M, H, F, D, O, R, I, J, L
  <2> QED BY <2>1, FromSpecParts
<1>2. w \in UNION F => \E f \in {"tmpfs", "gpus"} : w \in Optional(f, s.plain[f], FALSE)
  BY DEF PlainFacets
<1> HIDE DEF P, M, H, F, D, O, R, I, J, L
<1>3. \/ w \in P \/ w \in M \/ w \in O \/ w \in H \/ w \in D \/ w \in R \/ w \in I
      \/ w \in UNION F \/ w \in L
  BY <1>1
<1> QED BY <1>2, <1>3 DEF P, M, H, D, O, R, I, L

LEMMA WordsAre ==
    ASSUME NEW D, NEW flag, NEW w \in Words(D, flag)
    PROVE  w = <<w[1], w[2], w[3]>> /\ w[1] = flag /\ w[2] \in D /\ w[3] = Blank
BY DEF Words

LEMMA MapWordsAre ==
    ASSUME NEW f, NEW flag, NEW w \in MapWords(f, flag)
    PROVE  w = <<w[1], w[2], w[3]>> /\ w[1] = flag /\ w[2] \in DOMAIN f /\ w[3] = f[w[2]]
BY DEF MapWords

LEMMA OptionalIs ==
    ASSUME NEW flag, NEW v, NEW d, NEW w \in Optional(flag, v, d)
    PROVE  w[1] = flag /\ w[2] = Blank /\ w[3] = v /\ v # d
BY DEF Optional

LEMMA FromSpecIsTemplate ==
    ASSUME NEW o, IsContainer(o), NEW s, TargetOf(s, o), NEW icon
    PROVE  IsTemplate(FromSpec(s, icon))
<1> DEFINE t == FromSpec(s, icon)
<1>1. (\A m \in s.mounts : IsMount(m)) /\ DOMAIN s.labels \cap UnraidLabels = {}
  BY TargetMounts, TargetLabels
<1>2. ASSUME NEW w \in t.configs PROVE ConfigWord(w)
  <2>1. CASE w \in {<<"env", "TZ", v>> : v \in {s.tz} \ {Blank}}
    BY <2>1 DEF ConfigWord
  <2>2. CASE \/ w \in Words({p \in s.ports : p.ip = "any"}, "port")
             \/ w \in Words({m \in s.mounts : HasConfig(m)}, "mount")
    BY <2>2, WordsAre DEF ConfigWord
  <2>3. CASE w \in MapWords(s.env, "env")
    BY <2>3, MapWordsAre DEF ConfigWord
  <2> QED BY <2>1, <2>2, <2>3, FromSpecConfigs
<1>3. ASSUME NEW w \in t.extra PROVE ExtraWord(w)
  <2>1. CASE \/ w \in Words({p \in s.ports : p.ip # "any"}, "port")
             \/ w \in MapWords(s.logopts, "logopt")
    BY <2>1 DEF ExtraWord, Words, MapWords
  <2>2. CASE w \in Words({m \in s.mounts : ~HasConfig(m)}, "mount")
    BY <1>1, <2>2, NotAnonymous, WordsAre DEF ExtraWord
  <2>3. CASE w \in Optional("hostname", s.hostname, None)
    BY <2>3, OptionalIs DEF ExtraWord
  <2>4. CASE w \in MapWords(s.labels, "label")
    BY <1>1, <2>4, MapWordsAre DEF ExtraWord
  <2>5. CASE \E f \in {"tmpfs", "gpus"} : w \in Optional(f, s.plain[f], FALSE)
    BY <2>5, OptionalIs DEF ExtraWord
  <2>6. CASE \/ w \in Optional("logdriver", s.logdriver, "json-file")
             \/ w \in Optional("restart", s.restart, None)
             \/ w \in Optional("pids", s.pids, 0)
    BY <2>6 DEF ExtraWord, Optional
  <2> QED BY <2>1, <2>2, <2>3, <2>4, <2>5, <2>6, FromSpecExtra
<1> QED BY <1>2, <1>3, FromSpecFields DEF IsTemplate

(* The label an adopted container's template gives it.                      *)
LEMMA FromSpecLabels ==
    ASSUME NEW s, NEW icon
    PROVE  /\ MapWords(s.labels, "label") \subseteq FromSpec(s, icon).extra
           /\ \A w \in FromSpec(s, icon).extra :
                w[1] = "label" => w \in MapWords(s.labels, "label")
<1>1. ASSUME NEW w \in FromSpec(s, icon).extra, w[1] = "label"
      PROVE  w \in MapWords(s.labels, "label")
  <2>1. ~ \/ w \in Words({p \in s.ports : p.ip # "any"}, "port")
          \/ w \in Words({m \in s.mounts : ~HasConfig(m)}, "mount")
          \/ w \in MapWords(s.logopts, "logopt")
    BY <1>1, WordsAre, MapWordsAre
  <2>2. ~ \/ w \in Optional("hostname", s.hostname, None)
          \/ w \in Optional("logdriver", s.logdriver, "json-file")
          \/ w \in Optional("restart", s.restart, None)
          \/ w \in Optional("pids", s.pids, 0)
    BY <1>1 DEF Optional
  <2>3. ~ \E f \in {"tmpfs", "gpus"} : w \in Optional(f, s.plain[f], FALSE)
    BY <1>1, OptionalIs
  <2> QED BY <2>1, <2>2, <2>3, FromSpecExtra
<1>2. MapWords(s.labels, "label") \subseteq FromSpec(s, icon).extra
  <2>1. ASSUME NEW w \in MapWords(s.labels, "label") PROVE w \in ExtraParams(s)
    BY <2>1, Zenon DEF ExtraParams
  <2> QED BY <2>1, FromSpecParts
<1> QED BY <1>1, <1>2

LEMMA FromSpecOwns ==
    ASSUME NEW o, NEW migrate, NEW icon
    PROVE  Owning(FromSpec(AdoptTarget(o, migrate), icon).extra)
             = MapWords(ContainerLabels, "label")
<1> DEFINE s == AdoptTarget(o, migrate)
           t == FromSpec(s, icon)
           M == LiveSpec(o).labels
           K == ContainerLabels
<1>1. s.labels = Merged(K, M)
  BY AdoptTargetFields
<1>2. DOMAIN K = {"owner"} /\ OwnershipKeys = {"owner"}
  BY DEF ContainerLabels, OwnershipKeys
<1> HIDE DEF s, M, K
<1>3. DOMAIN s.labels = DOMAIN K \cup DOMAIN M
  BY <1>1, MergedIsMap
<1>4. \A k \in DOMAIN K : s.labels[k] = K[k]
  BY <1>1, MergedValues
<1>5. /\ MapWords(s.labels, "label") \subseteq t.extra
      /\ \A w \in t.extra : w[1] = "label" => w \in MapWords(s.labels, "label")
  BY FromSpecLabels
<1> HIDE DEF t
<1>6. ASSUME NEW w \in Owning(t.extra) PROVE w \in MapWords(K, "label")
  <2>1. /\ w \in MapWords(s.labels, "label") /\ w[2] \in DOMAIN K
        /\ w = <<w[1], w[2], w[3]>> /\ w[1] = "label" /\ w[3] = s.labels[w[2]]
    BY <1>2, <1>5, <1>6, MapWordsAre DEF Owning
  <2> QED BY <1>4, <2>1 DEF MapWords
<1>7. ASSUME NEW w \in MapWords(K, "label") PROVE w \in Owning(t.extra)
  <2>1. w[1] = "label" /\ w[2] \in OwnershipKeys
    BY <1>2, MapWordsAre
  <2>2. w \in MapWords(s.labels, "label")
    BY <1>3, <1>4 DEF MapWords
  <2> QED BY <1>5, <2>1, <2>2 DEF Owning
<1> QED BY <1>6, <1>7 DEF K, s, t

LEMMA SetIconTemplateFields ==
    ASSUME NEW c, NEW t, IsTemplate(t), NEW u, u = SetIconTemplate(c, t)
    PROVE  /\ u = [image |-> u.image, network |-> u.network, icon |-> u.icon, amp |-> u.amp,
                   privileged |-> u.privileged, args |-> u.args, configs |-> u.configs,
                   extra |-> u.extra]
           /\ u.icon = Url /\ u.amp = t.amp
           /\ t.amp => u.configs = t.configs /\ u.extra = t.extra
           /\ ~t.amp =>
                /\ u.configs = t.configs \ UNION {PathsOf(t, m) : m \in Convertible(c, t)}
                /\ u.extra = {w \in t.extra : ~(w[1] = "label" /\ w[2] \in OwnershipKeys)}
                               \cup MapWords(ContainerLabels, "label")
                               \cup Words({Converted(m) : m \in Convertible(c, t)}, "mount")
<1> DEFINE conv == Convertible(c, t)
<1>1. t = [image |-> t.image, network |-> t.network, icon |-> t.icon, amp |-> t.amp,
           privileged |-> t.privileged, args |-> t.args, configs |-> t.configs,
           extra |-> t.extra]
  BY DEF IsTemplate
<1>2. ASSUME NEW i, i = [t EXCEPT !.icon = Url]
      PROVE  /\ i = [image |-> t.image, network |-> t.network, icon |-> Url, amp |-> t.amp,
                     privileged |-> t.privileged, args |-> t.args, configs |-> t.configs,
                     extra |-> t.extra]
             /\ i.icon = Url /\ i.amp = t.amp /\ i.configs = t.configs /\ i.extra = t.extra
  BY <1>1, <1>2
<1> HIDE DEF conv
<1>3. CASE t.amp
  BY <1>2, <1>3 DEF SetIconTemplate
<1>4. CASE ~t.amp
  <2>1. PICK i : i = [t EXCEPT !.icon = Url]
    OBVIOUS
  <2>2. /\ i = [image |-> t.image, network |-> t.network, icon |-> Url, amp |-> t.amp,
                privileged |-> t.privileged, args |-> t.args, configs |-> t.configs,
                extra |-> t.extra]
        /\ i.icon = Url /\ i.amp = t.amp /\ i.configs = t.configs /\ i.extra = t.extra
    BY <1>2, <2>1
  <2>3. PICK l : l = SetLabels(i)
    OBVIOUS
  <2>4. /\ l = [image |-> l.image, network |-> l.network, icon |-> l.icon, amp |-> l.amp,
                privileged |-> l.privileged, args |-> l.args, configs |-> l.configs,
                extra |-> l.extra]
        /\ l.icon = Url /\ l.amp = t.amp /\ l.configs = t.configs
        /\ l.extra = {w \in t.extra : ~(w[1] = "label" /\ w[2] \in OwnershipKeys)}
                       \cup MapWords(ContainerLabels, "label")
    BY <2>2, <2>3 DEF SetLabels
  <2>5. u = PathToMount(l, conv)
    BY <1>4, <2>1, <2>3 DEF SetIconTemplate, conv
  <2>6. \A m : PathsOf(l, m) = PathsOf(t, m)
    BY <2>4 DEF PathsOf
  <2>7. /\ u = [image |-> u.image, network |-> u.network, icon |-> u.icon, amp |-> u.amp,
                privileged |-> u.privileged, args |-> u.args, configs |-> u.configs,
                extra |-> u.extra]
        /\ u.icon = Url /\ u.amp = t.amp
        /\ u.configs = l.configs \ UNION {PathsOf(l, m) : m \in conv}
        /\ u.extra = l.extra \cup Words({Converted(m) : m \in conv}, "mount")
    BY <2>4, <2>5 DEF PathToMount
  <2>8. UNION {PathsOf(l, m) : m \in conv} = UNION {PathsOf(t, m) : m \in conv}
    BY <2>6
  <2>9. u.configs = t.configs \ UNION {PathsOf(t, m) : m \in conv}
    BY <2>4, <2>7, <2>8
  <2>10. u.extra = {w \in t.extra : ~(w[1] = "label" /\ w[2] \in OwnershipKeys)}
                    \cup MapWords(ContainerLabels, "label")
                    \cup Words({Converted(m) : m \in conv}, "mount")
    BY <2>4, <2>7
  <2> QED BY <1>4, <2>7, <2>9, <2>10 DEF conv
<1> QED BY <1>3, <1>4

LEMMA SetIconTemplateIsTemplate ==
    ASSUME NEW c, IsContainer(c), NEW t, IsTemplate(t)
    PROVE  IsTemplate(SetIconTemplate(c, t))
<1> DEFINE u == SetIconTemplate(c, t)
           conv == Convertible(c, t)
<1>1. /\ u = [image |-> u.image, network |-> u.network, icon |-> u.icon, amp |-> u.amp,
              privileged |-> u.privileged, args |-> u.args, configs |-> u.configs,
              extra |-> u.extra]
      /\ t.amp => u.configs = t.configs /\ u.extra = t.extra
      /\ ~t.amp =>
           /\ u.configs = t.configs \ UNION {PathsOf(t, m) : m \in conv}
           /\ u.extra = {w \in t.extra : ~(w[1] = "label" /\ w[2] \in OwnershipKeys)}
                          \cup MapWords(ContainerLabels, "label")
                          \cup Words({Converted(m) : m \in conv}, "mount")
  BY SetIconTemplateFields
<1>2. ASSUME NEW m \in conv PROVE ~Anonymous(Converted(m))
  <2>1. m \in c.mounts /\ m.kind = "volume"
    BY LiveFields DEF Convertible, Anonymous
  <2> QED BY <2>1, MovedMounts DEF IsContainer
<1> HIDE DEF u, conv
<1>3. \A w \in u.configs : ConfigWord(w)
  BY <1>1 DEF IsTemplate
<1>4. ASSUME NEW w \in u.extra PROVE ExtraWord(w)
  <2>1. CASE w \in t.extra
    BY <2>1 DEF IsTemplate
  <2>2. CASE w \in MapWords(ContainerLabels, "label")
    BY <2>2, MapWordsAre DEF ExtraWord, ContainerLabels, OwnershipKeys, UnraidLabels
  <2>3. CASE w \in Words({Converted(m) : m \in conv}, "mount")
    BY <1>2, <2>3, WordsAre DEF ExtraWord
  <2> QED BY <1>1, <1>4, <2>1, <2>2, <2>3
<1> QED BY <1>1, <1>3, <1>4 DEF IsTemplate, u

LEMMA SetIconOwns ==
    ASSUME NEW c, NEW t, IsTemplate(t), ~t.amp
    PROVE  Owning(SetIconTemplate(c, t).extra) = MapWords(ContainerLabels, "label")
<1> DEFINE u == SetIconTemplate(c, t)
           conv == Convertible(c, t)
           L == MapWords(ContainerLabels, "label")
           M == Words({Converted(m) : m \in conv}, "mount")
           T == {w \in t.extra : ~(w[1] = "label" /\ w[2] \in OwnershipKeys)}
<1>1. u.extra = T \cup L \cup M
  BY SetIconTemplateFields
<1>2. \A w \in L : w[1] = "label" /\ w[2] \in OwnershipKeys
  BY MapWordsAre DEF ContainerLabels
<1>3. \A w \in M : w[1] # "label"
  BY WordsAre
<1>4. \A w \in T : ~(w[1] = "label" /\ w[2] \in OwnershipKeys)
  OBVIOUS
<1> HIDE DEF u, L, M, T
<1> QED BY <1>1, <1>2, <1>3, <1>4 DEF Owning, u, L

(* A template already as set_icon would have it stays what it is.           *)
LEMMA SetIconChangesNothing ==
    ASSUME NEW c, NEW t, IsTemplate(t), t.icon = Url,
           ~t.amp => /\ Owning(t.extra) = MapWords(ContainerLabels, "label")
                     /\ Convertible(c, t) = {}
    PROVE  SetIconTemplate(c, t) = t
<1> DEFINE i == [t EXCEPT !.icon = Url]
<1>1. t = [image |-> t.image, network |-> t.network, icon |-> t.icon, amp |-> t.amp,
           privileged |-> t.privileged, args |-> t.args, configs |-> t.configs,
           extra |-> t.extra]
  BY DEF IsTemplate
<1>2. i = t
  BY <1>1
<1> HIDE DEF i
<1>3. CASE t.amp
  BY <1>2, <1>3 DEF SetIconTemplate, i
<1>4. CASE ~t.amp
  <2>1. {w \in t.extra : ~(w[1] = "label" /\ w[2] \in OwnershipKeys)}
          \cup MapWords(ContainerLabels, "label") = t.extra
    BY <1>4 DEF Owning
  <2>2. SetLabels(t) = t
    BY <1>1, <2>1 DEF SetLabels
  <2>3. PathToMount(t, {}) = t
    <3>1. t.configs \ UNION {PathsOf(t, m) : m \in {}} = t.configs
      OBVIOUS
    <3>2. t.extra \cup Words({Converted(m) : m \in {}}, "mount") = t.extra
      BY DEF Words
    <3> QED BY <1>1, <3>1, <3>2 DEF PathToMount
  <2> QED BY <1>2, <1>4, <2>2, <2>3 DEF SetIconTemplate, i
<1> QED BY <1>3, <1>4

-----------------------------------------------------------------------------
(* Commands: what dockerMan gives of a template, right or with one word     *)
(* wrong.                                                                   *)

Renders(t) == {Command(t)} \cup Misrendered(t)

LEMMA CommandFields ==
    ASSUME NEW t
    PROVE  LET c == Command(t) IN
           /\ c = [image |-> c.image, args |-> c.args, extra |-> c.extra, own |-> c.own]
           /\ c.extra = t.extra
BY DEF Command

(* A word dockerMan adds to those of ExtraParams.                           *)
IsOwnWord(w, t) ==
    \/ w \in t.configs
    \/ w[1] \notin {"hostname", "label", "mount"}
    \/ w = <<"label", "managed", "dockerman">>
    \/ w = <<"label", "icon", t.icon>> /\ t.icon # Blank

LEMMA CommandWords ==
    ASSUME NEW t
    PROVE  /\ \A w \in Command(t).own : IsOwnWord(w, t)
           /\ t.configs \subseteq Command(t).own
           /\ <<"label", "managed", "dockerman">> \in Command(t).own
           /\ t.icon # Blank => <<"label", "icon", t.icon>> \in Command(t).own
<1> DEFINE c == Command(t)
           F == t.configs
           N == {<<"net", Blank, t.network>>, <<"pids", Blank, UnraidPidsLimit>>,
                 <<"env", "HOST_OS", "Unraid">>, <<"label", "managed", "dockerman">>}
           I == {<<"label", "icon", i>> : i \in {t.icon} \ {Blank}}
           Z == IF \E w \in t.configs : w[1] = "env" /\ w[2] = "TZ" THEN {}
                ELSE {<<"env", "TZ", Blank>>}
           P == Optional("privileged", t.privileged, FALSE)
<1>1. c.own = F \cup N \cup I \cup Z \cup P
  BY DEF Command
<1>2. \A w \in N : w[1] \notin {"hostname", "label", "mount"} \/ w = <<"label", "managed", "dockerman">>
  OBVIOUS
<1>3. \A w \in I : w = <<"label", "icon", t.icon>> /\ t.icon # Blank
  OBVIOUS
<1>4. \A w \in Z : w[1] \notin {"hostname", "label", "mount"}
  OBVIOUS
<1>5. \A w \in P : w[1] \notin {"hostname", "label", "mount"}
  <2>1. \A w \in P : w = <<"privileged", Blank, t.privileged>>
    BY Zenon DEF Optional
  <2> HIDE DEF P
  <2> QED BY <2>1
<1>6. t.icon # Blank => <<"label", "icon", t.icon>> \in I
  OBVIOUS
<1>7. <<"label", "managed", "dockerman">> \in N
  OBVIOUS
<1> HIDE DEF c, N, I, Z, P
<1>8. ASSUME NEW w \in c.own PROVE IsOwnWord(w, t)
  BY <1>1, <1>2, <1>3, <1>4, <1>5 DEF IsOwnWord
<1> QED BY <1>1, <1>6, <1>7, <1>8 DEF c

LEMMA RenderedWords ==
    ASSUME NEW t, IsTemplate(t), NEW cmd \in Renders(t)
    PROVE  /\ cmd.own \subseteq Command(t).own
           /\ cmd.extra \subseteq t.extra \cup Foreign
           /\ \A w \in Command(t).own : w \notin t.configs /\ w[1] = "label" => w \in cmd.own
<1> DEFINE c == Command(t)
<1>1. /\ c = [image |-> c.image, args |-> c.args, extra |-> c.extra, own |-> c.own]
      /\ c.extra = t.extra
  BY CommandFields
<1>2. \A w \in c.own : IsOwnWord(w, t)
  BY CommandWords
<1>3. \A w \in t.extra : w[1] = "label" => w[2] \notin {"managed", "icon"}
  BY DEF IsTemplate, ExtraWord, UnraidLabels
<1> HIDE DEF c
<1>4. CASE cmd = c
  BY <1>1, <1>4 DEF c
<1>5. ASSUME NEW x \in {x \in c.own : x[1] # "label"} \cup c.extra,
             cmd = [c EXCEPT !.own = @ \ {x}, !.extra = @ \ {x}]
      PROVE  /\ cmd.own \subseteq Command(t).own
             /\ cmd.extra \subseteq t.extra \cup Foreign
             /\ \A w \in Command(t).own : w \notin t.configs /\ w[1] = "label" => w \in cmd.own
  <2>1. cmd.own = c.own \ {x} /\ cmd.extra = t.extra \ {x}
    BY <1>1, <1>5
  <2>2. ASSUME NEW w \in c.own, w \notin t.configs, w[1] = "label" PROVE w # x
    <3>1. w[2] \in {"managed", "icon"}
      BY <1>2, <2>2 DEF IsOwnWord
    <3> QED BY <1>1, <1>3, <1>5, <2>2, <3>1
  <2> QED BY <2>1, <2>2 DEF c
<1>6. ASSUME NEW x \in Foreign, cmd = [c EXCEPT !.extra = @ \cup {x}]
      PROVE  /\ cmd.own \subseteq Command(t).own
             /\ cmd.extra \subseteq t.extra \cup Foreign
             /\ \A w \in Command(t).own : w \notin t.configs /\ w[1] = "label" => w \in cmd.own
  BY <1>1, <1>6 DEF c
<1>7. \/ cmd = c
      \/ \E x \in {x \in c.own : x[1] # "label"} \cup c.extra :
            cmd = [c EXCEPT !.own = @ \ {x}, !.extra = @ \ {x}]
      \/ \E x \in Foreign : cmd = [c EXCEPT !.extra = @ \cup {x}]
  BY DEF Renders, Misrendered, c
<1> QED BY <1>4, <1>5, <1>6, <1>7

LEMMA RenderedIsNamed ==
    ASSUME NEW t, IsTemplate(t), NEW cmd \in Renders(t)
    PROVE  Named(cmd)
<1>1. ASSUME NEW w \in cmd.own, w[1] = "hostname" PROVE FALSE
  <2>1. w \in Command(t).own
    BY RenderedWords
  <2>2. w \notin t.configs
    BY <1>1 DEF IsTemplate, ConfigWord
  <2>3. IsOwnWord(w, t)
    BY <2>1, CommandWords
  <2> QED BY <1>1, <2>2, <2>3 DEF IsOwnWord
<1>2. ASSUME NEW w \in cmd.extra, w[1] = "hostname" PROVE w[3] # None
  <2>1. w \in t.extra \cup Foreign
    BY RenderedWords
  <2> QED BY <1>2, <2>1 DEF IsTemplate, ExtraWord, ConstantsAssumption
<1> QED BY <1>1, <1>2 DEF Named

(* Whatever dockerMan gets wrong, the container is labelled as its own.     *)
LEMMA OwnLabelGiven ==
    ASSUME NEW t, IsTemplate(t), NEW cmd \in Renders(t), NEW k \in UnraidLabels, NEW v,
           <<"label", k, v>> \in Command(t).own, <<"label", k, v>> \notin t.configs,
           \A w \in Command(t).own : w[1] = "label" /\ w[2] = k => w[3] = v,
           NEW c, NEW id, NEW img, NEW d, c = Created(cmd, id, img, d)
    PROVE  k \in DOMAIN c.labels /\ c.labels[k] = v
<1> DEFINE flag == "label"
           A == Args(cmd, flag)
           B == Images[img].labels
<1>5. c.labels = Merged(A, B)
  BY DEF Created
<1>1. <<flag, k, v>> \in cmd.own
  BY RenderedWords
<1>2. \A w \in cmd.own : w[1] = flag /\ w[2] = k => w[3] = v
  BY RenderedWords
<1>3. \A w \in cmd.extra : ~(w[1] = flag /\ w[2] = k)
  <2>1. cmd.extra \subseteq t.extra \cup Foreign
    BY RenderedWords
  <2> QED BY <2>1 DEF IsTemplate, ExtraWord, ConstantsAssumption
<1> HIDE DEF flag
<1>4. k \in DOMAIN A /\ A[k] = v
  BY <1>1, <1>2, <1>3, OwnWordCounts
<1> HIDE DEF A, B
<1>6. k \in DOMAIN Merged(A, B)
  <2>1. DOMAIN Merged(A, B) = DOMAIN A \cup DOMAIN B
    BY MergedIsMap
  <2> QED BY <1>4, <2>1
<1>7. Merged(A, B)[k] = v
  BY <1>4, MergedValues
<1> QED BY <1>5, <1>6, <1>7

LEMMA CreatedIsManaged ==
    ASSUME NEW t, IsTemplate(t), NEW cmd \in Renders(t),
           NEW c, NEW id, NEW img, NEW d, c = Created(cmd, id, img, d)
    PROVE  Managed(c) /\ (t.icon # Blank => IconLabel(c) = t.icon)
<1>1. \A w \in t.configs : w[1] # "label"
  BY DEF IsTemplate, ConfigWord
<1>2. \A w \in Command(t).own : w[1] = "label" =>
         \/ w = <<"label", "managed", "dockerman">>
         \/ w = <<"label", "icon", t.icon>>
  BY <1>1, CommandWords DEF IsOwnWord
<1>3. Managed(c)
  <2> DEFINE k == "managed"
             v == "dockerman"
  <2>1. <<"label", k, v>> \in Command(t).own
    BY CommandWords
  <2>2. <<"label", k, v>> \notin t.configs
    BY <1>1
  <2>3. \A w \in Command(t).own : w[1] = "label" /\ w[2] = k => w[3] = v
    BY <1>2
  <2>4. k \in UnraidLabels
    BY DEF UnraidLabels
  <2> HIDE DEF k, v
  <2>5. k \in DOMAIN c.labels /\ c.labels[k] = v
    BY <2>1, <2>2, <2>3, <2>4, OwnLabelGiven
  <2> QED BY <2>5 DEF k, v, Managed
<1>4. ASSUME t.icon # Blank PROVE IconLabel(c) = t.icon
  <2> DEFINE k == "icon"
             v == t.icon
  <2>1. <<"label", k, v>> \in Command(t).own
    BY <1>4, CommandWords
  <2>2. <<"label", k, v>> \notin t.configs
    BY <1>1
  <2>3. \A w \in Command(t).own : w[1] = "label" /\ w[2] = k => w[3] = v
    BY <1>2
  <2>4. k \in UnraidLabels
    BY DEF UnraidLabels
  <2> HIDE DEF k, v
  <2>5. k \in DOMAIN c.labels /\ c.labels[k] = v
    BY <2>1, <2>2, <2>3, <2>4, OwnLabelGiven
  <2> QED BY <2>5 DEF k, v, IconLabel
<1> QED BY <1>3, <1>4

-----------------------------------------------------------------------------
(* What differs between the container a run found and the one it made.      *)

(* A plan the verbs make: what it aims at, of the container it found.       *)
IsPlan(o, s, mode, said) ==
    /\ IsContainer(o) /\ TargetOf(s, o)
    /\ Unsupported(o, mode = "adopt" /\ Moving(o)) = {}
    /\ s.network = IF mode = "adopt" /\ Moving(o) THEN "bridge" ELSE o.net
    /\ mode \in {"adopt", "set_icon"}
    /\ mode = "set_icon" => ComposeFromImage(o)
    /\ Announced(o, s) \subseteq said
    /\ "compose" \in said <=> mode = "adopt" /\ "project" \in DOMAIN o.labels

(* A container docker made of a command that passed that plan's gate, and   *)
(* that was verified.                                                       *)
IsVerified(o, s, mode, said, cmd, d, g, n, e) ==
    /\ g = RenderedSpec(cmd, o.image, d) /\ Blocking(s, g, mode) = {}
    /\ Intended(s, g, mode) \subseteq said
    /\ n = Created(cmd, n.id, n.image, e)
    /\ IsContainer(n) /\ n.hostname # None /\ ComposeFromImage(n)
    /\ n.image = o.image /\ Blocking(g, LiveSpec(n), mode) = {}

LEMMA EnvKept ==
    ASSUME NEW f, IsMap(f), NEW h, IsMap(h), NEW img, NEW X,
           DOMAIN Images[img].env \subseteq DOMAIN f, DOMAIN Images[img].env \subseteq DOMAIN h,
           Without(Unbaked(f, img), X) = Without(Unbaked(h, img), X)
    PROVE  Without(f, X) = Without(h, X)
<1> DEFINE B == Baked(img)
           E == Images[img].env
           U(y) == Unbaked(y, img)
           W(y) == Without(U(y), X)
<1>1. \A k, x : <<k, x>> \in B <=> k \in DOMAIN E /\ x = E[k]
  BY DEF Baked
<1>2. \A y : /\ DOMAIN U(y) = {k \in DOMAIN y : <<k, y[k]>> \notin B}
             /\ \A k \in DOMAIN U(y) : U(y)[k] = y[k]
  BY DEF Unbaked
<1> HIDE DEF B, E, U
<1>3. \A y : DOMAIN W(y) = DOMAIN U(y) \ X /\ \A k \in DOMAIN W(y) : W(y)[k] = U(y)[k]
  BY DEF Without
<1>4. /\ W(f) = W(h) /\ DOMAIN E \subseteq DOMAIN f /\ DOMAIN E \subseteq DOMAIN h
  BY DEF E, U
<1> HIDE DEF W
<1>5. ASSUME NEW y, NEW z, W(y) = W(z), DOMAIN E \subseteq DOMAIN z, NEW k \in DOMAIN y \ X
      PROVE  k \in DOMAIN z \ X /\ y[k] = z[k]
  <2>1. CASE <<k, y[k]>> \in B
    <3>0. k \in DOMAIN E /\ y[k] = E[k]
      BY <1>1, <2>1
    <3>0a. DOMAIN U(y) = {x \in DOMAIN y : <<x, y[x]>> \notin B}
      BY <1>2
    <3>1. k \in DOMAIN z /\ y[k] = E[k] /\ k \notin DOMAIN U(y)
      BY <1>5, <2>1, <3>0, <3>0a
    <3>2. k \notin DOMAIN U(z)
      BY <1>3, <1>5, <3>1
    <3>3. <<k, z[k]>> \in B
      BY <1>2, <3>1, <3>2
    <3> QED BY <1>1, <1>5, <3>1, <3>3
  <2>2. CASE <<k, y[k]>> \notin B
    <3>1. k \in DOMAIN W(y) /\ W(y)[k] = y[k]
      BY <1>2, <1>3, <1>5, <2>2
    <3>2. k \in DOMAIN W(z) /\ W(z)[k] = y[k]
      BY <1>5, <3>1
    <3> QED BY <1>2, <1>3, <1>5, <3>2
  <2> QED BY <2>1, <2>2
<1>6. DOMAIN f \ X = DOMAIN h \ X /\ \A k \in DOMAIN f \ X : f[k] = h[k]
  BY <1>4, <1>5
<1> QED BY <1>6 DEF Without

LEMMA LiveLabels ==
    ASSUME NEW c, NEW k
    PROVE  /\ k \in DOMAIN LiveSpec(c).labels <=>
                /\ k \in DOMAIN c.labels /\ k \notin ComposeLabels \cup UnraidLabels
                /\ ~(k \in DOMAIN Images[c.image].labels /\ Images[c.image].labels[k] = c.labels[k])
           /\ k \in DOMAIN LiveSpec(c).labels => LiveSpec(c).labels[k] = c.labels[k]
<1> DEFINE O == OwnLabels(c)
           V == Without(O, ComposeLabels)
           L == LiveSpec(c).labels
<1>1. /\ DOMAIN O = {x \in DOMAIN c.labels : ~(x \in DOMAIN Images[c.image].labels
                                               /\ Images[c.image].labels[x] = c.labels[x])}
      /\ \A x \in DOMAIN O : O[x] = c.labels[x]
  BY DEF OwnLabels
<1>2. L = Without(V, UnraidLabels)
  BY LiveFields
<1> HIDE DEF O, L
<1>3. DOMAIN V = DOMAIN O \ ComposeLabels /\ \A x \in DOMAIN V : V[x] = O[x]
  BY DEF Without
<1> HIDE DEF V
<1>4. DOMAIN L = DOMAIN V \ UnraidLabels /\ \A x \in DOMAIN L : L[x] = V[x]
  BY <1>2 DEF Without
<1>5. /\ k \in DOMAIN L <=>
           /\ k \in DOMAIN c.labels /\ k \notin ComposeLabels \cup UnraidLabels
           /\ ~(k \in DOMAIN Images[c.image].labels /\ Images[c.image].labels[k] = c.labels[k])
      /\ k \in DOMAIN L => L[k] = c.labels[k]
  BY <1>1, <1>3, <1>4
<1> QED BY <1>5 DEF L

(* Two containers of one image that look alike have the same label.         *)
SameKey(f, h, k) ==
    /\ k \in DOMAIN f <=> k \in DOMAIN h
    /\ k \in DOMAIN f => f[k] = h[k]

LEMMA LabelKept ==
    ASSUME NEW o, IsContainer(o), NEW n, IsContainer(n), n.image = o.image,
           NEW k, k \notin ComposeLabels \cup UnraidLabels,
           SameKey(LiveSpec(o).labels, LiveSpec(n).labels, k)
    PROVE  SameKey(o.labels, n.labels, k)
<1>1. /\ k \in DOMAIN LiveSpec(o).labels <=>
           /\ k \in DOMAIN o.labels /\ k \notin ComposeLabels \cup UnraidLabels
           /\ ~(k \in DOMAIN Images[o.image].labels /\ Images[o.image].labels[k] = o.labels[k])
      /\ k \in DOMAIN LiveSpec(o).labels => LiveSpec(o).labels[k] = o.labels[k]
  BY LiveLabels
<1>2. /\ k \in DOMAIN LiveSpec(n).labels <=>
           /\ k \in DOMAIN n.labels /\ k \notin ComposeLabels \cup UnraidLabels
           /\ ~(k \in DOMAIN Images[n.image].labels /\ Images[n.image].labels[k] = n.labels[k])
      /\ k \in DOMAIN LiveSpec(n).labels => LiveSpec(n).labels[k] = n.labels[k]
  BY LiveLabels
<1>3. /\ DOMAIN Images[o.image].labels \subseteq DOMAIN o.labels
      /\ DOMAIN Images[n.image].labels \subseteq DOMAIN n.labels
  BY DEF IsContainer
<1> QED BY <1>1, <1>2, <1>3 DEF SameKey

LEMMA MapsAlike ==
    ASSUME NEW f, NEW h, NEW X, \A k : k \notin X => SameKey(f, h, k)
    PROVE  Without(f, X) = Without(h, X)
<1>1. DOMAIN f \ X = DOMAIN h \ X
  BY DEF SameKey
<1>2. \A k \in DOMAIN f \ X : f[k] = h[k]
  BY DEF SameKey
<1> QED BY <1>1, <1>2 DEF Without

LEMMA MapsAgree ==
    ASSUME NEW f, NEW h, NEW X, \A k \in X : SameKey(f, h, k)
    PROVE  Kept(f, X) = Kept(h, X)
<1>1. DOMAIN f \cap X = DOMAIN h \cap X
  BY DEF SameKey
<1>2. \A k \in DOMAIN f \cap X : f[k] = h[k]
  BY DEF SameKey
<1> QED BY <1>1, <1>2 DEF Kept

LEMMA NetworkKept ==
    ASSUME NEW o, NEW s, NEW mode, NEW said, IsPlan(o, s, mode, said),
           NEW cmd, NEW d, NEW g, NEW n, NEW e, IsVerified(o, s, mode, said, cmd, d, g, n, e)
    PROVE  /\ n.tag = o.tag /\ n.net = s.network
           /\ n.net = o.net \/ ("network" \in said /\ n.net = "bridge" /\ Moving(o) /\ mode = "adopt")
           /\ mode = "adopt" /\ Moving(o) => "network" \in said /\ n.net = "bridge"
<1>1. s.image = g.image /\ s.network = g.network
  BY GatePassed DEF IsVerified
<1>2. /\ g.image = cmd.image /\ g.network = Arg(cmd, "net", "bridge")
  <2> DEFINE i == o.image
  <2>1. g = RenderedSpec(cmd, i, d)
    BY DEF IsVerified
  <2> HIDE DEF i
  <2> QED BY <2>1, RenderedImage, RenderedFields
<1>3. n.tag = cmd.image /\ n.net = Arg(cmd, "net", "bridge")
  <2> DEFINE i == n.id
             m == n.image
  <2>1. n = Created(cmd, i, m, e)
    BY DEF IsVerified
  <2> HIDE DEF i, m
  <2> QED BY <2>1, CreatedFields
<1>4. LiveSpec(o).image = o.tag /\ LiveSpec(o).network = o.net
  BY LiveFields
<1>5. /\ s.image = o.tag
      /\ s.network = o.net \/ (Moving(o) /\ s.network = "bridge")
  BY <1>4 DEF IsPlan, TargetOf
<1>6. s.network # o.net => "network" \in said
  BY <1>4 DEF IsPlan, Announced
<1>7. Moving(o) => o.net = ProjectNet /\ o.net # "bridge"
  BY DEF Moving, ProjectNet
<1>8. s.network = IF mode = "adopt" /\ Moving(o) THEN "bridge" ELSE o.net
  BY DEF IsPlan
<1> QED BY <1>1, <1>2, <1>3, <1>5, <1>6, <1>7, <1>8

LEMMA HostnameKept ==
    ASSUME NEW o, NEW s, NEW mode, NEW said, IsPlan(o, s, mode, said),
           NEW cmd, NEW d, NEW g, NEW n, NEW e, IsVerified(o, s, mode, said, cmd, d, g, n, e)
    PROVE  \/ n.hostname = o.hostname
           \/ n.net = "host"
           \/ "hostname" \in said /\ o.hostname = o.id /\ n.hostname = n.id
<1>1. \/ s.hostname = g.hostname
      \/ s.hostname # None /\ g.hostname = None /\ s.idname
      \/ s.hostname = None /\ g.idname
  BY GatePassed DEF IsVerified
<1>2. g.hostname = Arg(cmd, "hostname", None) /\ g.idname = FALSE
  <2> DEFINE i == o.image
  <2>1. g = RenderedSpec(cmd, i, d)
    BY DEF IsVerified
  <2> HIDE DEF i
  <2> QED BY <2>1, RenderedFields
<1>3. n.hostname = Arg(cmd, "hostname", n.id) /\ n.hostname # None
  <2> DEFINE i == n.id
             m == n.image
  <2>1. n = Created(cmd, i, m, e) /\ n.hostname # None
    BY DEF IsVerified
  <2> HIDE DEF i, m
  <2>2. n.hostname = Arg(cmd, "hostname", i)
    BY <2>1, CreatedFields
  <2> QED BY <2>1, <2>2 DEF i
<1>4. \/ Arg(cmd, "hostname", None) = Arg(cmd, "hostname", n.id)
      \/ Arg(cmd, "hostname", None) = None /\ Arg(cmd, "hostname", n.id) = n.id
  BY DEF Arg
<1>5. /\ LiveSpec(o).hostname = IF o.net = "host" THEN None ELSE o.hostname
      /\ LiveSpec(o).idname = (o.net # "host" /\ o.hostname = o.id)
  BY LiveFields
<1>6. s.hostname = LiveSpec(o).hostname /\ s.idname = LiveSpec(o).idname
  BY DEF IsPlan, TargetOf
<1>7. o.net \notin {"host", "container"} => o.hostname # None
  BY DEF IsPlan, IsContainer
<1>8. o.net # "container"
  BY DEF IsPlan, Unsupported
<1>9. o.net = "host" => n.net = "host"
  <2>1. n.net = o.net \/ (n.net = "bridge" /\ Moving(o))
    BY NetworkKept
  <2> QED BY <2>1 DEF Moving, ProjectNet
<1>10. s.hostname # None /\ g.hostname = None /\ s.idname => "hostname" \in said
  BY DEF IsVerified, Intended
<1> QED BY <1>1, <1>2, <1>3, <1>4, <1>5, <1>6, <1>7, <1>8, <1>9, <1>10

(* A variable the container unset of its image's is not seen in its spec:   *)
(* it looks as if it had the image's.                                       *)
LEMMA UnsetIsUnseen ==
    ASSUME NEW f, IsMap(f), NEW img
    PROVE  Unbaked(Merged(f, Images[img].env), img) = Unbaked(f, img)
<1> DEFINE U == Unbaked(Merged(f, Images[img].env), img)
<1>1. Unbaked(Without(f, {}), img) = Without(U, {})
  BY EnvAgrees
<1>2. Without(f, {}) = f
  BY DEF Without, IsMap
<1>3. Without(U, {}) = U
  <2> DEFINE g == Merged(f, Images[img].env)
  <2>1. U = Unbaked(g, img)
    OBVIOUS
  <2> HIDE DEF g, U
  <2> QED BY <2>1 DEF Without, Unbaked
<1> QED BY <1>1, <1>2, <1>3

LEMMA EnvironmentKept ==
    ASSUME NEW o, NEW s, NEW mode, NEW said, IsPlan(o, s, mode, said),
           NEW cmd, NEW d, NEW g, NEW n, NEW e, IsVerified(o, s, mode, said, cmd, d, g, n, e)
    PROVE  /\ LET env == Merged(o.env, Images[o.image].env)
              IN Without(n.env, UnraidEnv \cup {"TZ"}) = Without(env, UnraidEnv \cup {"TZ"})
           /\ TzOf(n.env) = TzOf(o.env)
<1>1. s.env = g.env /\ s.tz = g.tz
  BY GatePassed DEF IsVerified
<1>2. g.env = LiveSpec(n).env /\ g.tz = LiveSpec(n).tz
  BY GatePassed DEF IsVerified
<1>3. s.env = LiveSpec(o).env /\ s.tz = LiveSpec(o).tz
  BY DEF IsPlan, TargetOf
<1>4. /\ LiveSpec(o).env = Without(Unbaked(o.env, o.image), UnraidEnv \cup {"TZ"})
      /\ LiveSpec(o).tz = TzOf(o.env)
  BY LiveFields
<1>5. /\ LiveSpec(n).env = Without(Unbaked(n.env, n.image), UnraidEnv \cup {"TZ"})
      /\ LiveSpec(n).tz = TzOf(n.env)
  BY LiveFields
<1>6. IsContainer(o) /\ IsContainer(n) /\ n.image = o.image
  BY DEF IsPlan, IsVerified
<1> DEFINE f == n.env
           h == o.env
           img == o.image
           X == UnraidEnv \cup {"TZ"}
           E == Images[img].env
           M == Merged(h, E)
<1>7. IsMap(f) /\ IsMap(h) /\ E = Images[img].env
  BY <1>6 DEF IsContainer
<1>8. Without(Unbaked(f, img), X) = Without(Unbaked(h, img), X)
  BY <1>1, <1>2, <1>3, <1>4, <1>5, <1>6
<1>9. TzOf(f) = TzOf(h)
  BY <1>1, <1>2, <1>3, <1>4, <1>5
<1>a. DOMAIN E \subseteq DOMAIN f
  <2> DEFINE i == n.id
             A == Args(cmd, "env")
  <2>1. n = Created(cmd, i, img, e)
    BY <1>6 DEF IsVerified
  <2> HIDE DEF img
  <2>2. f = Merged(A, E)
    BY <2>1 DEF Created
  <2> HIDE DEF A, E, f
  <2> QED BY <2>2, MergedIsMap
<1> HIDE DEF f, h, img, X
<1>11. Unbaked(M, img) = Unbaked(h, img)
  BY <1>7, UnsetIsUnseen
<1>12. IsMap(M) /\ DOMAIN E \subseteq DOMAIN M
  <2> HIDE DEF E
  <2> QED BY MergedIsMap
<1> HIDE DEF M
<1>10. Without(f, X) = Without(M, X)
  BY <1>7, <1>8, <1>11, <1>12, <1>a, EnvKept
<1> QED BY <1>9, <1>10 DEF f, h, X, M, E, img

LEMMA MountsKept ==
    ASSUME NEW o, NEW s, NEW mode, NEW said, IsPlan(o, s, mode, said),
           NEW cmd, NEW d, NEW g, NEW n, NEW e, IsVerified(o, s, mode, said, cmd, d, g, n, e)
    PROVE  /\ n.ports = o.ports
           /\ n.mounts = s.mounts
           /\ \/ n.mounts = o.mounts
              \/ /\ "mounts" \in said
                 /\ {m \in n.mounts : m.src \notin {AppData, ConvertedName}} \subseteq o.mounts
                 /\ {Place(m) : m \in n.mounts} = {Place(m) : m \in o.mounts}
<1>1. s.ports = g.ports /\ s.mounts = g.mounts
  BY GatePassed DEF IsVerified
<1>2. g.ports = Keys(cmd, "port") /\ g.mounts = Keys(cmd, "mount")
  <2> DEFINE i == o.image
  <2>1. g = RenderedSpec(cmd, i, d)
    BY DEF IsVerified
  <2> HIDE DEF i
  <2> QED BY <2>1, RenderedFields
<1>3. n.ports = Keys(cmd, "port") /\ n.mounts = Keys(cmd, "mount")
  <2> DEFINE i == n.id
             m == n.image
  <2>1. n = Created(cmd, i, m, e)
    BY DEF IsVerified
  <2> HIDE DEF i, m
  <2> QED BY <2>1, CreatedFields
<1>4. /\ LiveSpec(o).ports = {p \in o.ports : p.host # "random"}
      /\ LiveSpec(o).mounts = {m \in o.mounts : m.kind # "other"}
  BY LiveFields
<1>5. LiveSpec(o).ports = o.ports /\ LiveSpec(o).mounts = o.mounts
  <2> DEFINE P == {p \in o.ports : p.host = "random"}
             M == {m \in o.mounts : m.kind = "other"}
  <2>1. {"random port" : p \in P} = {} /\ {"mount" : m \in M} = {}
    BY DEF IsPlan, Unsupported
  <2>2. P = {} /\ M = {}
    BY <2>1
  <2> QED BY <1>4, <2>2
<1>6. s.ports = LiveSpec(o).ports
  BY DEF IsPlan, TargetOf
<1>7. s.mounts # LiveSpec(o).mounts => "mounts" \in said
  BY DEF IsPlan, Announced
<1>8. /\ \A m \in s.mounts : m \in o.mounts \/ m.src \in {AppData, ConvertedName}
      /\ {Place(m) : m \in s.mounts} = {Place(m) : m \in LiveSpec(o).mounts}
  BY TargetMounts DEF IsPlan
<1>9. {m \in s.mounts : m.src \notin {AppData, ConvertedName}} \subseteq o.mounts
  BY <1>8
<1> QED BY <1>1, <1>2, <1>3, <1>5, <1>6, <1>7, <1>8, <1>9

LEMMA OptionsKept ==
    ASSUME NEW o, NEW s, NEW mode, NEW said, IsPlan(o, s, mode, said),
           NEW cmd, NEW d, NEW g, NEW n, NEW e, IsVerified(o, s, mode, said, cmd, d, g, n, e)
    PROVE  /\ n.logdriver = o.logdriver /\ n.logopts = o.logopts
           /\ n.restart = o.restart \/ ("restart" \in said /\ n.restart = None)
           /\ n.pids = o.pids \/ ("pids" \in said /\ n.pids = UnraidPidsLimit)
           /\ n.plain = o.plain
<1>1. /\ s.logdriver = g.logdriver /\ s.logopts = g.logopts /\ s.plain = g.plain
      /\ \/ s.restart = g.restart
         \/ s.restart # None /\ g.restart = None /\ mode = "set_icon"
      /\ \/ s.pids = g.pids
         \/ s.pids = 0 /\ g.pids = UnraidPidsLimit
  BY GatePassed DEF IsVerified
<1>2. g.logdriver = LiveSpec(n).logdriver /\ g.logopts = LiveSpec(n).logopts
  BY GatePassed DEF IsVerified
<1>3. /\ LiveSpec(o).logdriver = o.logdriver /\ LiveSpec(o).logopts = o.logopts
      /\ LiveSpec(o).restart = o.restart /\ LiveSpec(o).pids = o.pids
      /\ LiveSpec(o).plain = o.plain
  BY LiveFields
<1>4. /\ LiveSpec(n).logdriver = n.logdriver /\ LiveSpec(n).logopts = n.logopts
      /\ LiveSpec(n).restart = n.restart /\ LiveSpec(n).pids = n.pids
  BY LiveFields
<1>5. /\ s.logdriver = LiveSpec(o).logdriver /\ s.logopts = LiveSpec(o).logopts
      /\ s.restart = LiveSpec(o).restart /\ s.pids = LiveSpec(o).pids
      /\ s.plain = LiveSpec(o).plain
  BY DEF IsPlan, TargetOf
<1>6. g.restart = LiveSpec(n).restart /\ g.pids = LiveSpec(n).pids /\ g.plain = n.plain
  <2> DEFINE i == n.id
             m == n.image
             j == o.image
  <2>1. n = Created(cmd, i, m, e) /\ g = RenderedSpec(cmd, j, d)
    BY DEF IsVerified
  <2> HIDE DEF i, m, j
  <2>2. g.restart = LiveSpec(n).restart /\ g.pids = LiveSpec(n).pids
    BY <2>1, LimitsAgree
  <2>3. g.plain = n.plain
    BY <2>1, PlainAgrees
  <2> QED BY <2>2, <2>3
<1>7. /\ s.restart # g.restart /\ s.restart # None /\ g.restart = None /\ mode = "set_icon"
           => "restart" \in said
      /\ s.pids # g.pids /\ s.pids = 0 /\ g.pids = UnraidPidsLimit => "pids" \in said
  BY DEF IsVerified, Intended
<1> QED BY <1>1, <1>2, <1>3, <1>4, <1>5, <1>6, <1>7

LEMMA CommandKept ==
    ASSUME NEW o, NEW s, NEW mode, NEW said, IsPlan(o, s, mode, said),
           NEW cmd, NEW d, NEW g, NEW n, NEW e, IsVerified(o, s, mode, said, cmd, d, g, n, e)
    PROVE  /\ n.cmd = o.cmd
           /\ n.extra = o.extra \/ ("network" \in said /\ n.extra = o.extra \ {"aliases"})
<1> DEFINE moving == mode = "adopt" /\ Moving(o)
<1>1. s.cmd = g.cmd /\ g.other = {}
  BY GatePassed DEF IsVerified
<1>2. g.cmd = cmd.args /\ g.other = Keys(cmd, "other")
  <2> DEFINE i == o.image
  <2>1. g = RenderedSpec(cmd, i, d)
    BY DEF IsVerified
  <2> HIDE DEF i
  <2> QED BY <2>1, RenderedOptions
<1>3. /\ n.extra = Keys(cmd, "other")
      /\ cmd.args = None => n.cmd = Images[n.image].cmd
      /\ cmd.args # None => n.cmd = cmd.args
  <2> DEFINE i == n.id
             m == n.image
  <2>1. n = Created(cmd, i, m, e)
    BY DEF IsVerified
  <2> HIDE DEF i, m
  <2>2. /\ n.extra = Keys(cmd, "other")
        /\ cmd.args = None => n.cmd = Images[m].cmd
        /\ cmd.args # None => n.cmd = cmd.args
    BY <2>1, CreatedFields
  <2> QED BY <2>2 DEF m
<1>4. LiveSpec(o).cmd = IF o.cmd = Images[o.image].cmd THEN None ELSE o.cmd
  BY LiveFields
<1>5. s.cmd = LiveSpec(o).cmd
  BY DEF IsPlan, TargetOf
<1>6. \A x \in o.extra : x = "aliases" /\ moving
  BY DEF IsPlan, Unsupported, Unmodelled
<1>7. o.cmd = None => Images[o.image].cmd = None
  <2>1. o.extra \subseteq {"aliases"}
    BY <1>6
  <2> QED BY <2>1 DEF IsPlan, IsContainer
<1>8. n.image = o.image
  BY DEF IsVerified
<1>9. n.extra = {}
  BY <1>1, <1>2, <1>3
<1>10. moving => "network" \in said
  BY NetworkKept
<1>11. n.cmd = o.cmd
  BY <1>1, <1>2, <1>3, <1>4, <1>5, <1>7, <1>8
<1> HIDE DEF moving
<1>12. n.extra = o.extra \/ ("network" \in said /\ n.extra = o.extra \ {"aliases"})
  BY <1>6, <1>9, <1>10
<1> QED BY <1>11, <1>12

LEMMA ComposeKept ==
    ASSUME NEW o, IsContainer(o), NEW n, IsContainer(n), n.image = o.image, ComposeFromImage(n),
           ComposeFromImage(o) \/ "project" \notin DOMAIN o.labels
    PROVE  \A k \in ComposeLabels : SameKey(o.labels, n.labels, k)
<1>1. /\ DOMAIN Images[o.image].labels \subseteq DOMAIN o.labels
      /\ DOMAIN Images[n.image].labels \subseteq DOMAIN n.labels
  BY DEF IsContainer
<1> QED BY <1>1 DEF ComposeFromImage, SameKey, ComposeLabels

LEMMA LabelsKept ==
    ASSUME NEW o, NEW s, NEW mode, NEW said, IsPlan(o, s, mode, said),
           NEW cmd, NEW d, NEW g, NEW n, NEW e, IsVerified(o, s, mode, said, cmd, d, g, n, e)
    PROVE  /\ "compose" \in said =>
                Without(n.labels, Owned \cup ComposeLabels) = Without(o.labels, Owned \cup ComposeLabels)
           /\ "compose" \notin said => Without(n.labels, Owned) = Without(o.labels, Owned)
           /\ "compose" \in said =>
                Kept(n.labels, ComposeLabels) = Kept(Images[n.image].labels, ComposeLabels)
           /\ "labels" \notin said =>
                Kept(n.labels, OwnershipKeys) = Kept(o.labels, OwnershipKeys)
<1> DEFINE L == LiveSpec(o).labels
           M == LiveSpec(n).labels
           K == ContainerLabels
<1>1. s.labels = g.labels /\ g.labels = M
  BY GatePassed DEF IsVerified
<1>2. s.labels = L \/ s.labels = Merged(K, L)
  BY DEF IsPlan, TargetOf
<1>3. /\ IsContainer(o) /\ IsContainer(n) /\ n.image = o.image /\ ComposeFromImage(n)
      /\ mode = "set_icon" => ComposeFromImage(o)
      /\ mode \in {"adopt", "set_icon"}
      /\ "compose" \in said <=> mode = "adopt" /\ "project" \in DOMAIN o.labels
  BY DEF IsPlan, IsVerified
<1>4. s.labels # L => "labels" \in said
  BY DEF IsPlan, Announced
<1>5. DOMAIN K = OwnershipKeys
  BY DEF ContainerLabels
<1> HIDE DEF L, M, K
<1>6. ASSUME NEW k, k \notin OwnershipKeys \/ s.labels = L
      PROVE  SameKey(L, M, k)
  <2>1. CASE M = L
    BY <2>1 DEF SameKey
  <2>2. CASE M = Merged(K, L) /\ k \notin DOMAIN K
    <3>1. DOMAIN M = DOMAIN K \cup DOMAIN L
      BY <2>2, MergedIsMap
    <3>2. k \in DOMAIN L => M[k] = L[k]
      BY <2>2, MergedValues
    <3> QED BY <2>2, <3>1, <3>2 DEF SameKey
  <2> QED BY <1>1, <1>2, <1>5, <1>6, <2>1, <2>2
<1>7. ASSUME NEW k, k \notin ComposeLabels \cup UnraidLabels, k \notin OwnershipKeys \/ s.labels = L
      PROVE  SameKey(o.labels, n.labels, k)
  BY <1>3, <1>6, <1>7, LabelKept DEF L, M
<1>8. ASSUME "compose" \notin said, NEW k \in ComposeLabels
      PROVE  SameKey(o.labels, n.labels, k)
  <2>1. ComposeFromImage(o) \/ "project" \notin DOMAIN o.labels
    BY <1>3, <1>8
  <2> QED BY <1>3, <1>8, <2>1, ComposeKept
<1>9. ASSUME NEW gone, gone = Owned \cup IF "compose" \in said THEN ComposeLabels ELSE {}
      PROVE  Without(n.labels, gone) = Without(o.labels, gone)
  <2>1. \A k : k \notin gone => SameKey(n.labels, o.labels, k)
    BY <1>7, <1>8, <1>9 DEF Owned, SameKey
  <2> QED BY <2>1, MapsAlike
<1>10. Kept(n.labels, ComposeLabels) = Kept(Images[n.image].labels, ComposeLabels)
  <2>1. DOMAIN Images[n.image].labels \subseteq DOMAIN n.labels
    BY <1>3 DEF IsContainer
  <2>2. \A k \in ComposeLabels : SameKey(n.labels, Images[n.image].labels, k)
    BY <1>3, <2>1 DEF ComposeFromImage, SameKey
  <2> QED BY <2>2, MapsAgree
<1>11. ASSUME "labels" \notin said
       PROVE  Kept(n.labels, OwnershipKeys) = Kept(o.labels, OwnershipKeys)
  <2>1. \A k \in OwnershipKeys : k \notin ComposeLabels \cup UnraidLabels
    BY DEF OwnershipKeys, ComposeLabels, UnraidLabels
  <2>2. \A k \in OwnershipKeys : SameKey(n.labels, o.labels, k)
    BY <1>4, <1>7, <1>11, <2>1 DEF SameKey
  <2> QED BY <2>2, MapsAgree
<1>12. "compose" \in said =>
          Without(n.labels, Owned \cup ComposeLabels) = Without(o.labels, Owned \cup ComposeLabels)
  BY <1>9
<1>13. "compose" \notin said => Without(n.labels, Owned) = Without(o.labels, Owned)
  <2>1. Owned = Owned \cup {}
    OBVIOUS
  <2> QED BY <1>9, <2>1
<1> QED BY <1>10, <1>11, <1>12, <1>13

(* So a run that was verified changed nothing but what it said.             *)
LEMMA VerifiedIsTheSame ==
    ASSUME NEW o, NEW s, NEW mode, NEW said, IsPlan(o, s, mode, said),
           NEW cmd, NEW d, NEW g, NEW n, NEW e, IsVerified(o, s, mode, said, cmd, d, g, n, e)
    PROVE  SameBut(o, n, said)
<1>1. n.image = o.image
  BY DEF IsVerified
<1>2. /\ n.tag = o.tag
      /\ n.net = o.net \/ ("network" \in said /\ n.net = "bridge")
  BY NetworkKept
<1>3. \/ n.hostname = o.hostname
      \/ n.net = "host"
      \/ "hostname" \in said /\ o.hostname = o.id /\ n.hostname = n.id
  BY HostnameKept
<1>4. /\ LET env == Merged(o.env, Images[o.image].env)
         IN Without(n.env, UnraidEnv \cup {"TZ"}) = Without(env, UnraidEnv \cup {"TZ"})
      /\ TzOf(n.env) = TzOf(o.env)
  BY EnvironmentKept
<1>5. /\ n.ports = o.ports
      /\ \/ n.mounts = o.mounts
         \/ /\ "mounts" \in said
            /\ {m \in n.mounts : m.src \notin {AppData, ConvertedName}} \subseteq o.mounts
            /\ {Place(m) : m \in n.mounts} = {Place(m) : m \in o.mounts}
  BY MountsKept
<1>6. /\ n.logdriver = o.logdriver /\ n.logopts = o.logopts
      /\ n.restart = o.restart \/ ("restart" \in said /\ n.restart = None)
      /\ n.pids = o.pids \/ ("pids" \in said /\ n.pids = UnraidPidsLimit)
      /\ n.plain = o.plain
  BY OptionsKept
<1>7. "compose" \notin said => Without(n.labels, Owned) = Without(o.labels, Owned)
  BY LabelsKept
<1>10. "compose" \in said =>
          Without(n.labels, Owned \cup ComposeLabels) = Without(o.labels, Owned \cup ComposeLabels)
  BY LabelsKept
<1>11. "labels" \notin said => Kept(n.labels, OwnershipKeys) = Kept(o.labels, OwnershipKeys)
  BY LabelsKept
<1>12. "compose" \in said =>
          Kept(n.labels, ComposeLabels) = Kept(Images[n.image].labels, ComposeLabels)
  BY LabelsKept
<1>8. /\ n.cmd = o.cmd
      /\ n.extra = o.extra \/ ("network" \in said /\ n.extra = o.extra \ {"aliases"})
  BY CommandKept
<1>9. LET gone == Owned \cup IF "compose" \in said THEN ComposeLabels ELSE {}
      IN Without(n.labels, gone) = Without(o.labels, gone)
  <2>1. Owned \cup {} = Owned
    OBVIOUS
  <2> QED BY <1>7, <1>10, <2>1
<1> QED BY <1>1, <1>2, <1>3, <1>4, <1>5, <1>6, <1>7, <1>8, <1>9, <1>11, <1>12 DEF SameBut

-----------------------------------------------------------------------------
(* A run aims at all that another run would: the ownership label, and no    *)
(* anonymous volume that dockerMan will mount.                              *)
AimsAtAll(s, t) ==
    ~t.amp =>
      /\ Owning(t.extra) = MapWords(ContainerLabels, "label")
      /\ Merged(ContainerLabels, s.labels) = s.labels
      /\ Keys(Command(t), "mount") = s.mounts => \A m \in s.mounts : ~Anonymous(m)

LEMMA MergedAgain ==
    ASSUME NEW K, NEW f, NEW g, g = Merged(K, f)
    PROVE  Merged(K, g) = g
<1>1. DOMAIN g = DOMAIN K \cup DOMAIN f /\ IsMap(g)
  BY MergedIsMap
<1>2. \A k \in DOMAIN K : g[k] = K[k]
  BY MergedValues
<1>3. DOMAIN Merged(K, g) = DOMAIN K \cup DOMAIN g /\ IsMap(Merged(K, g))
  BY MergedIsMap
<1>4. \A k \in DOMAIN K : Merged(K, g)[k] = K[k]
  BY MergedValues
<1>5. \A k \in DOMAIN g \ DOMAIN K : Merged(K, g)[k] = g[k]
  BY MergedValues
<1>6. DOMAIN Merged(K, g) = DOMAIN g
  BY <1>1, <1>3
<1>7. \A k \in DOMAIN g : Merged(K, g)[k] = g[k]
  BY <1>2, <1>4, <1>5
<1> QED BY <1>1, <1>3, <1>6, <1>7 DEF IsMap

LEMMA AdoptAimsAtAll ==
    ASSUME NEW o, IsContainer(o), NEW migrate, NEW icon
    PROVE  AimsAtAll(AdoptTarget(o, migrate), FromSpec(AdoptTarget(o, migrate), icon))
<1> DEFINE s == AdoptTarget(o, migrate)
           t == FromSpec(s, icon)
           live == LiveSpec(o)
           To(m) == IF migrate THEN Migrated(m) ELSE Converted(m)
<1>1. Owning(t.extra) = MapWords(ContainerLabels, "label")
  BY FromSpecOwns
<1>2. s.labels = Merged(ContainerLabels, live.labels)
  BY AdoptTargetFields
<1>3. \A m \in s.mounts :
         \/ m \in live.mounts /\ ~MovesAt(m, migrate)
         \/ \E x \in live.mounts : MovesAt(x, migrate) /\ m = To(x)
  BY AdoptTargetMounts
<1>4. ASSUME NEW x \in live.mounts, MovesAt(x, migrate) PROVE ~Anonymous(To(x))
  <2>1. x \in o.mounts /\ x.kind = "volume"
    BY <1>4, LiveFields DEF MovesAt
  <2>2. ~Anonymous(Migrated(x)) /\ ~Anonymous(Converted(x))
    BY <2>1, MovedMounts DEF IsContainer
  <2> QED BY <2>2
<1>5. \A m : Anonymous(m) => MovesAt(m, migrate)
  BY DEF Anonymous, MovesAt
<1> HIDE DEF s, t, live, To
<1>6. Merged(ContainerLabels, s.labels) = s.labels
  BY <1>2, MergedAgain
<1>7. \A m \in s.mounts : ~Anonymous(m)
  BY <1>3, <1>4, <1>5
<1> QED BY <1>1, <1>6, <1>7 DEF AimsAtAll, s, t

(* The mounts of a command are those of its template's words.               *)
LEMMA CommandMounts ==
    ASSUME NEW t, IsTemplate(t)
    PROVE  /\ \A w \in t.configs \cup t.extra : w[1] = "mount" => w[2] \in Keys(Command(t), "mount")
           /\ \A m \in Keys(Command(t), "mount") :
                \E w \in t.configs \cup t.extra : w[1] = "mount" /\ w[2] = m
<1> DEFINE c == Command(t)
           flag == "mount"
<1>1. c.extra = t.extra
  BY CommandFields
<1>2. t.configs \subseteq c.own
  BY CommandWords
<1>3. \A w \in c.own : w[1] = flag => w \in t.configs
  <2>1. \A w \in c.own : IsOwnWord(w, t)
    BY CommandWords
  <2> QED BY <2>1 DEF IsOwnWord
<1> HIDE DEF c, flag
<1>4. \A w \in c.own \cup c.extra : w[1] = flag => w[2] \in Keys(c, flag)
  BY ArgsAreWords
<1>5. \A k \in Keys(c, flag) : \E w \in c.own \cup c.extra : w[1] = flag /\ w[2] = k
  <2> TAKE k \in Keys(c, flag)
  <2>1. \E w \in c.own \cup c.extra : w[1] = flag /\ w[2] = k /\ w[3] = Args(c, flag)[k]
    BY ArgsAreWords
  <2> QED BY <2>1
<1>6. \A w \in t.configs \cup t.extra : w[1] = flag => w[2] \in Keys(c, flag)
  BY <1>1, <1>2, <1>4
<1>7. \A k \in Keys(c, flag) : \E w \in t.configs \cup t.extra : w[1] = flag /\ w[2] = k
  BY <1>1, <1>3, <1>5
<1> QED BY <1>6, <1>7 DEF c, flag

LEMMA SetIconAimsAtAll ==
    ASSUME NEW o, IsContainer(o), NEW t, IsTemplate(t)
    PROVE  AimsAtAll(SetIconTarget(o, t), SetIconTemplate(o, t))
<1> DEFINE s == SetIconTarget(o, t)
           u == SetIconTemplate(o, t)
           live == LiveSpec(o)
           conv == Convertible(o, t)
<1>1. /\ u.amp = t.amp
      /\ ~t.amp =>
           /\ u.configs = t.configs \ UNION {PathsOf(t, m) : m \in conv}
           /\ u.extra = {w \in t.extra : ~(w[1] = "label" /\ w[2] \in OwnershipKeys)}
                          \cup MapWords(ContainerLabels, "label")
                          \cup Words({Converted(m) : m \in conv}, "mount")
  BY SetIconTemplateFields
<1>2. SUFFICES ASSUME ~t.amp
               PROVE  /\ Owning(u.extra) = MapWords(ContainerLabels, "label")
                      /\ Merged(ContainerLabels, s.labels) = s.labels
                      /\ Keys(Command(u), "mount") = s.mounts => \A m \in s.mounts : ~Anonymous(m)
  BY <1>1 DEF AimsAtAll
<1>3. /\ s.labels = Merged(ContainerLabels, live.labels)
      /\ s.mounts = (live.mounts \ conv) \cup {Converted(m) : m \in conv}
  BY <1>2, SetIconTargetFields
<1>4. Owning(u.extra) = MapWords(ContainerLabels, "label")
  BY <1>2, SetIconOwns
<1>5. ASSUME NEW m \in conv PROVE ~Anonymous(Converted(m)) /\ m \in live.mounts /\ Anonymous(m)
  <2>1. m \in o.mounts /\ m.kind = "volume" /\ m \in live.mounts /\ Anonymous(m)
    BY LiveFields DEF Convertible, Anonymous
  <2> QED BY <2>1, MovedMounts DEF IsContainer
<1>6. \A m \in live.mounts : m \in o.mounts
  BY LiveFields
<1>7. \A m \in live.mounts : Anonymous(m) /\ Cardinality(PathsOf(t, m)) = 1 => m \in conv
  BY <1>2 DEF Convertible
<1>8. IsTemplate(u)
  BY SetIconTemplateIsTemplate
<1> HIDE DEF s, u, live, conv
<1>9. Merged(ContainerLabels, s.labels) = s.labels
  BY <1>3, MergedAgain
<1>10. ASSUME Keys(Command(u), "mount") = s.mounts, NEW m \in s.mounts, Anonymous(m)
       PROVE  FALSE
  <2>1. m \in live.mounts /\ m \notin conv
    BY <1>3, <1>5, <1>10
  <2>2. PICK w \in u.configs \cup u.extra : w[1] = "mount" /\ w[2] = m
    BY <1>8, <1>10, CommandMounts
  <2>3. w \in u.configs
    <3>1. w \notin u.extra
      BY <1>8, <1>10, <2>2 DEF IsTemplate, ExtraWord
    <3> QED BY <2>2, <3>1
  <2>4. w \in PathsOf(t, m)
    BY <1>1, <1>2, <2>2, <2>3 DEF PathsOf
  <2>5. PathsOf(t, m) # {w}
    <3>1. Cardinality(PathsOf(t, m)) # 1
      BY <1>7, <1>10, <2>1
    <3>2. Cardinality({w}) = 1
      BY FS_Singleton
    <3> QED BY <3>1, <3>2
  <2>6. PICK x \in PathsOf(t, m) : x # w
    BY <2>4, <2>5
  <2>7. x \in t.configs /\ x[1] = "mount" /\ x[2].src = m.src
    BY <2>6 DEF PathsOf
  <2>8. ASSUME NEW c \in conv, x \in PathsOf(t, c) PROVE FALSE
    <3>1. c.src = m.src
      BY <2>7, <2>8 DEF PathsOf
    <3>2. c \in o.mounts /\ Anonymous(c) /\ m \in o.mounts
      BY <1>5, <1>6, <2>1
    <3>3. m = c
      BY <3>1, <3>2 DEF IsContainer
    <3> QED BY <2>1, <2>8, <3>3
  <2>9. x \in u.configs
    BY <1>1, <1>2, <2>7, <2>8
  <2>10. x[2] \in s.mounts
    BY <1>8, <1>10, <2>7, <2>9, CommandMounts
  <2>11. TargetOf(s, o)
    BY SetIconAims DEF s
  <2>12. x[2] = m
    BY <1>10, <2>7, <2>10, <2>11, TargetMounts
  <2>13. w = <<w[1], w[2], w[3]>> /\ x = <<x[1], x[2], x[3]>> /\ w[3] = Blank /\ x[3] = Blank
    BY <1>8, <2>2, <2>3, <2>7, <2>9 DEF IsTemplate, ConfigWord
  <2> QED BY <2>2, <2>6, <2>7, <2>12, <2>13
<1> QED BY <1>4, <1>9, <1>10 DEF s, u

-----------------------------------------------------------------------------
(* The inductive invariant.  Its parts are of a state of the world and of   *)
(* a run: what a plan is, what passed the gate, what was made of it.        *)

(* A run that was planned, by its fields, and what its plan was.            *)
IsRun(r) ==
    r = [pc |-> r.pc, mode |-> r.mode, orig |-> r.orig, target |-> r.target, tmpl |-> r.tmpl,
         announced |-> r.announced, intended |-> r.intended, cmd |-> r.cmd,
         expect |-> r.expect, defaults |-> r.defaults, blocked |-> r.blocked,
         disturbed |-> r.disturbed, compose |-> r.compose, unchanged |-> r.unchanged]

(* A container that has a template shows no compose label of its own.       *)
Inhabited(c, T) ==
    /\ IsContainer(c)
    /\ \A t \in T : T = {t} /\ IsTemplate(t)
    /\ T # {} => ComposeFromImage(c)

IsPlanned(r) ==
    /\ IsRun(r) /\ r.pc \in Pcs
    /\ IsContainer(r.orig) /\ TargetOf(r.target, r.orig) /\ IsTemplate(r.tmpl)
    /\ r.mode \in {"adopt", "set_icon"}
    /\ r.target.network = IF r.mode = "adopt" /\ Moving(r.orig) THEN "bridge" ELSE r.orig.net
    /\ r.mode = "set_icon" => ComposeFromImage(r.orig)
    /\ r.announced = Announced(r.orig, r.target)
    /\ r.compose <=> r.mode = "adopt" /\ "project" \in DOMAIN r.orig.labels
    /\ ~r.blocked => Unsupported(r.orig, r.mode = "adopt" /\ Moving(r.orig)) = {}
    /\ AimsAtAll(r.target, r.tmpl)
    /\ r.pc = "planned" => r.cmd = {}

(* The gate's verdict on a command dockerMan gave of the run's template.    *)
IsGated(r) ==
    /\ ~r.blocked
    /\ \E cmd \in Renders(r.tmpl) :
          r.cmd = {cmd} /\ r.expect = RenderedSpec(cmd, r.orig.image, r.defaults)
    /\ Blocking(r.target, r.expect, r.mode) = {}
    /\ r.intended = Intended(r.target, r.expect, r.mode)

(* A run that went past the gate to rebuild.                                *)
PastGate(r) == r.pc \in {"rebuild", "verify", "failed"} \/ (r.pc = "done" /\ ~r.unchanged)

(* What the run rebuilt, and has not looked at yet.                         *)
IsRebuilt(r, c, T, img, d) ==
    /\ T = {r.tmpl}
    /\ \E e \in LogDefaults : \A cmd \in r.cmd :
          /\ c = Created(cmd, c.id, c.image, e)
          /\ ~r.disturbed => e = r.defaults /\ d = r.defaults
    /\ ~r.disturbed => c.image = r.orig.image /\ img = r.orig.image
    /\ c.hostname # None /\ ComposeFromImage(c) /\ Unsupported(c, FALSE) = {}

(* What the run said it would change.                                       *)
SaidBy(r) == r.announced \cup r.intended \cup IF r.compose THEN {"compose"} ELSE {}

(* What a run that changed all it aimed at leaves.                          *)
IsSettled(c, t, img, d) ==
    /\ IsTemplate(t) /\ t.icon = Url /\ img = c.image
    /\ Managed(c) /\ IconLabel(c) = Url /\ Unsupported(c, FALSE) = {}
    /\ Blocking(LiveSpec(c), RenderedSpec(Command(t), c.image, d), "set_icon") = {}
    /\ ~t.amp => /\ Owning(t.extra) = MapWords(ContainerLabels, "label")
                 /\ Merged(ContainerLabels, LiveSpec(c).labels) = LiveSpec(c).labels
                 /\ \A m \in c.mounts : ~Anonymous(m)

(* The plan of a set_icon that repeats what is there.                       *)
WillChangeNothing(r) ==
    /\ r.unchanged /\ ~r.blocked
    /\ Blocking(r.target, RenderedSpec(Command(r.tmpl), r.orig.image, r.defaults), r.mode) = {}

Bounds ==
    /\ tag \in DOMAIN Images /\ daemon \in LogDefaults
    /\ runs \in 0 .. MaxRuns /\ budget \in 0 .. EnvBudget /\ settled \in BOOLEAN
    /\ run.pc # "idle" => runs > 0

World == Inhabited(ctr, tmpl)
Plan == run = NoRun \/ (run.pc # "idle" /\ IsPlanned(run))
Gated == PastGate(run) => IsGated(run)
Current == run.pc \in {"planned", "rebuild"} /\ ~run.disturbed /\ ~run.blocked =>
             tag = run.orig.image /\ daemon = run.defaults
Rebuilt == run.pc = "verify" => IsRebuilt(run, ctr, tmpl, tag, daemon)
Same == run.pc = "done" /\ ~run.unchanged => SameBut(run.orig, ctr, SaidBy(run))
Foreseen == run.pc = "failed" => run.disturbed \/ ImageInTheWay
Settled == settled => \E t \in tmpl : tmpl = {t} /\ IsSettled(ctr, t, tag, daemon)
Repeated == run.pc = "planned" /\ settled /\ run.mode = "set_icon" => WillChangeNothing(run)

(* Together they are inductive: FaithfulRebuild is Same and Foreseen, but   *)
(* what a run did is known from the gate (Gated) and the rebuild (Rebuilt)  *)
(* it went through, those from its plan, and the plan from what the host    *)
(* holds before any run (World).  Settled and Repeated are for the second   *)
(* run of the same icon.                                                    *)
IInv == /\ Bounds /\ World /\ Plan /\ Gated /\ Current /\ Rebuilt
        /\ Same /\ Foreseen /\ Settled /\ Repeated

(* A step of a run: its plan stays what it is.                              *)
SamePlan(r, q) ==
    /\ q.mode = r.mode /\ q.orig = r.orig /\ q.target = r.target /\ q.tmpl = r.tmpl
    /\ q.announced = r.announced /\ q.defaults = r.defaults /\ q.blocked = r.blocked
    /\ q.compose = r.compose /\ q.unchanged = r.unchanged

LEMMA RunMoves ==
    ASSUME NEW r, IsRun(r), NEW p, NEW q, q = [r EXCEPT !.pc = p]
    PROVE  /\ IsRun(q) /\ q.pc = p /\ SamePlan(r, q)
           /\ q.cmd = r.cmd /\ q.expect = r.expect /\ q.intended = r.intended
           /\ q.disturbed = r.disturbed
  BY DEF IsRun, SamePlan

LEMMA RunDisturbed ==
    ASSUME NEW r, IsRun(r), NEW q, q = [r EXCEPT !.disturbed = TRUE]
    PROVE  /\ IsRun(q) /\ q.pc = r.pc /\ SamePlan(r, q)
           /\ q.cmd = r.cmd /\ q.expect = r.expect /\ q.intended = r.intended
           /\ q.disturbed = TRUE
  BY DEF IsRun, SamePlan

LEMMA PlannedStays ==
    ASSUME NEW r, IsPlanned(r), NEW q, IsRun(q), SamePlan(r, q), q.pc \in Pcs,
           q.pc = "planned" => q.cmd = {}
    PROVE  IsPlanned(q)
  BY DEF IsPlanned, SamePlan

LEMMA GatedStays ==
    ASSUME NEW r, IsGated(r), NEW q, SamePlan(r, q),
           q.cmd = r.cmd, q.expect = r.expect, q.intended = r.intended
    PROVE  IsGated(q)
  BY DEF IsGated, SamePlan

-----------------------------------------------------------------------------
(* The steps of everybody else.                                             *)

LEMMA DisturbInv ==
    ASSUME IInv, Disturb, tag' \in DOMAIN Images, daemon' \in LogDefaults,
           Inhabited(ctr, tmpl'), run.pc = "verify" => tmpl' = tmpl
    PROVE  IInv'
<1>1. /\ budget' \in 0 .. EnvBudget /\ settled' = FALSE /\ ctr' = ctr /\ runs' = runs
      /\ run' = IF run.pc = "idle" THEN run ELSE [run EXCEPT !.disturbed = TRUE]
  <2>1. EnvBudget \in Nat /\ budget \in 0 .. EnvBudget
    BY DEF IInv, Bounds, ConstantsAssumption
  <2>2. budget > 0 /\ budget' = budget - 1
    BY DEF Disturb
  <2>3. budget' \in 0 .. EnvBudget
    BY <2>1, <2>2
  <2> QED BY <2>3 DEF Disturb
<1>2. Bounds' /\ World' /\ Settled' /\ Repeated'
  <2>1. run'.pc # "idle" => run.pc # "idle"
    BY <1>1
  <2> QED BY <1>1, <2>1 DEF IInv, Bounds, World, Settled, Repeated
<1>3. CASE run = NoRun
  <2>1. run' = NoRun /\ run'.pc = "idle"
    BY <1>1, <1>3 DEF NoRun
  <2> QED BY <1>2, <2>1 DEF IInv, Plan, Gated, PastGate, Current, Rebuilt, Same, Foreseen
<1>4. CASE run.pc # "idle" /\ IsPlanned(run)
  <2>1. run' = [run EXCEPT !.disturbed = TRUE]
    BY <1>1, <1>4
  <2>2. IsRun(run) /\ run.pc \in Pcs /\ (run.pc = "planned" => run.cmd = {})
    BY <1>4 DEF IsPlanned
  <2>3. /\ IsRun(run') /\ run'.pc = run.pc /\ SamePlan(run, run')
        /\ run'.cmd = run.cmd /\ run'.expect = run.expect /\ run'.intended = run.intended
        /\ run'.disturbed = TRUE
    BY <2>1, <2>2, RunDisturbed
  <2>4. IsPlanned(run')
    BY <1>4, <2>2, <2>3, PlannedStays
  <2>5. Plan'
    BY <1>4, <2>3, <2>4 DEF Plan
  <2>6. Gated'
    <3>1. SUFFICES ASSUME PastGate(run') PROVE IsGated(run')
      BY DEF Gated
    <3>2. IsGated(run)
      BY <2>3, <3>1 DEF IInv, Gated, PastGate, SamePlan
    <3> QED BY <2>3, <3>2, GatedStays
  <2>7. Current' /\ Foreseen'
    BY <2>3 DEF Current, Foreseen
  <2>8. Rebuilt'
    <3>1. SUFFICES ASSUME run.pc = "verify" PROVE IsRebuilt(run', ctr, tmpl', tag', daemon')
      BY <1>1, <2>3 DEF Rebuilt
    <3>2. IsRebuilt(run, ctr, tmpl, tag, daemon) /\ tmpl' = tmpl
      BY <3>1 DEF IInv, Rebuilt
    <3>3. run'.tmpl = run.tmpl
      BY <2>3 DEF SamePlan
    <3>4. PICK e \in LogDefaults : \A cmd \in run.cmd : ctr = Created(cmd, ctr.id, ctr.image, e)
      BY <3>2 DEF IsRebuilt
    <3>5. /\ tmpl = {run.tmpl} /\ ctr.hostname # None /\ ComposeFromImage(ctr)
          /\ Unsupported(ctr, FALSE) = {}
      BY <3>2 DEF IsRebuilt
    <3> QED BY <2>3, <3>2, <3>3, <3>4, <3>5 DEF IsRebuilt
  <2>9. Same'
    <3>1. SaidBy(run') = SaidBy(run)
      BY <2>3 DEF SaidBy, SamePlan
    <3> QED BY <1>1, <2>3, <3>1 DEF IInv, Same, SamePlan
  <2> QED BY <1>2, <2>5, <2>6, <2>7, <2>8, <2>9 DEF IInv
<1> QED BY <1>3, <1>4 DEF IInv, Plan

LEMMA RetagInv ==
    ASSUME IInv, Retag
    PROVE  IInv'
  BY DisturbInv DEF Retag, IInv, World, Bounds

LEMMA SetLogRotationInv ==
    ASSUME IInv, SetLogRotation
    PROVE  IInv'
  BY DisturbInv DEF SetLogRotation, IInv, World, Bounds

LEMMA TemplateCut ==
    ASSUME NEW t, IsTemplate(t), NEW a, NEW b, a \subseteq t.configs, b \subseteq t.extra,
           NEW u, u = [t EXCEPT !.configs = a, !.extra = b]
    PROVE  IsTemplate(u)
<1>1. /\ u = [image |-> u.image, network |-> u.network, icon |-> u.icon, amp |-> u.amp,
              privileged |-> u.privileged, args |-> u.args, configs |-> u.configs,
              extra |-> u.extra]
      /\ u.configs = a /\ u.extra = b
  BY DEF IsTemplate
<1> QED BY <1>1 DEF IsTemplate

LEMMA TemplateEscaped ==
    ASSUME NEW t, IsTemplate(t), NEW u, u = [t EXCEPT !.amp = TRUE]
    PROVE  IsTemplate(u)
<1>1. /\ u = [image |-> u.image, network |-> u.network, icon |-> u.icon, amp |-> u.amp,
              privileged |-> u.privileged, args |-> u.args, configs |-> u.configs,
              extra |-> u.extra]
      /\ u.configs = t.configs /\ u.extra = t.extra
  BY DEF IsTemplate
<1> QED BY <1>1 DEF IsTemplate

LEMMA EditTemplateInv ==
    ASSUME IInv, EditTemplate
    PROVE  IInv'
<1>1. /\ Disturb /\ tag' = tag /\ daemon' = daemon /\ run.pc # "verify"
      /\ Inhabited(ctr, tmpl) /\ tag \in DOMAIN Images /\ daemon \in LogDefaults
  BY DEF EditTemplate, IInv, World, Bounds
<1>2. PICK t \in tmpl :
         \/ \E w \in t.configs \cup t.extra :
              tmpl' = {[t EXCEPT !.configs = @ \ {w}, !.extra = @ \ {w}]}
         \/ tmpl' = {[t EXCEPT !.amp = TRUE]}
  BY DEF EditTemplate
<1>3. IsTemplate(t) /\ IsContainer(ctr) /\ ComposeFromImage(ctr)
  BY <1>1 DEF Inhabited
<1>4. PICK u : tmpl' = {u} /\ IsTemplate(u)
  <2>1. CASE \E w \in t.configs \cup t.extra :
              tmpl' = {[t EXCEPT !.configs = @ \ {w}, !.extra = @ \ {w}]}
    <3>1. PICK w : tmpl' = {[t EXCEPT !.configs = @ \ {w}, !.extra = @ \ {w}]}
      BY <2>1
    <3> DEFINE u == [t EXCEPT !.configs = @ \ {w}, !.extra = @ \ {w}]
    <3>2. IsTemplate(u)
      BY <1>3, TemplateCut
    <3> QED BY <3>1, <3>2
  <2>2. CASE tmpl' = {[t EXCEPT !.amp = TRUE]}
    BY <1>3, <2>2, TemplateEscaped
  <2> QED BY <1>2, <2>1, <2>2
<1>5. Inhabited(ctr, tmpl')
  BY <1>3, <1>4 DEF Inhabited
<1> QED BY <1>1, <1>5, DisturbInv

-----------------------------------------------------------------------------
(* What verification finds.                                                 *)

LEMMA PlanIsAPlan ==
    ASSUME NEW r, IsPlanned(r), ~r.blocked,
           r.intended = Intended(r.target, r.expect, r.mode)
    PROVE  IsPlan(r.orig, r.target, r.mode, SaidBy(r))
<1>1. "compose" \notin r.announced /\ "compose" \notin r.intended
  BY DEF IsPlanned, Announced, Intended
<1>2. "compose" \in SaidBy(r) <=> r.compose
  BY <1>1 DEF SaidBy
<1>3. Announced(r.orig, r.target) \subseteq SaidBy(r)
  BY DEF IsPlanned, SaidBy
<1> QED BY <1>2, <1>3 DEF IsPlanned, IsPlan

LEMMA VerifiedSame ==
    ASSUME NEW r, IsPlanned(r), IsGated(r), NEW c, IsContainer(c),
           NEW T, NEW img, NEW d, IsRebuilt(r, c, T, img, d),
           c.image = r.orig.image, Blocking(r.expect, LiveSpec(c), r.mode) = {}
    PROVE  SameBut(r.orig, c, SaidBy(r))
<1>1. PICK cmd \in Renders(r.tmpl) :
         r.cmd = {cmd} /\ r.expect = RenderedSpec(cmd, r.orig.image, r.defaults)
  BY DEF IsGated
<1>2. PICK e \in LogDefaults : c = Created(cmd, c.id, c.image, e)
  BY <1>1 DEF IsRebuilt
<1>3. IsPlan(r.orig, r.target, r.mode, SaidBy(r))
  BY PlanIsAPlan DEF IsGated
<1>4. /\ r.intended \subseteq SaidBy(r) /\ r.intended = Intended(r.target, r.expect, r.mode)
      /\ Blocking(r.target, r.expect, r.mode) = {}
      /\ c.hostname # None /\ ComposeFromImage(c)
  BY DEF SaidBy, IsGated, IsRebuilt
<1> DEFINE o == r.orig
           s == r.target
           mode == r.mode
           said == SaidBy(r)
           g == r.expect
           def == r.defaults
<1>5. IsVerified(o, s, mode, said, cmd, def, g, c, e)
  BY <1>1, <1>2, <1>4 DEF IsVerified
<1>6. IsPlan(o, s, mode, said)
  BY <1>3
<1> HIDE DEF o, s, mode, said, g, def
<1>7. SameBut(o, c, said)
  BY <1>5, <1>6, VerifiedIsTheSame
<1> QED BY <1>7 DEF o, said

(* Undisturbed, what is made of a gated command verifies, but for what the  *)
(* gate does not see.                                                       *)
LEMMA UndisturbedVerifies ==
    ASSUME NEW r, IsPlanned(r), IsGated(r), NEW c, IsContainer(c),
           NEW T, NEW img, NEW d, IsRebuilt(r, c, T, img, d), ~r.disturbed,
           \A cmd \in r.cmd : OutOfTheWay(r.orig.image, cmd)
    PROVE  /\ Managed(c) /\ c.image = r.orig.image
           /\ r.tmpl.icon # Blank => IconLabel(c) = r.tmpl.icon
           /\ Blocking(r.expect, LiveSpec(c), r.mode) = {}
<1>1. PICK cmd \in Renders(r.tmpl) :
         r.cmd = {cmd} /\ r.expect = RenderedSpec(cmd, r.orig.image, r.defaults)
  BY DEF IsGated
<1>2. c = Created(cmd, c.id, c.image, r.defaults) /\ c.image = r.orig.image
  BY <1>1 DEF IsRebuilt
<1> DEFINE t == r.tmpl
           o == r.orig
           s == r.target
           mode == r.mode
           g == r.expect
           def == r.defaults
           i == c.id
<1>3. /\ IsTemplate(t) /\ IsContainer(o) /\ TargetOf(s, o) /\ cmd \in Renders(t)
      /\ Blocking(s, g, mode) = {} /\ i # None
  BY DEF IsPlanned, IsGated, IsContainer
<1>4. c = Created(cmd, i, o.image, def) /\ g = RenderedSpec(cmd, o.image, def)
  BY <1>1, <1>2
<1>5. OutOfTheWay(o.image, cmd)
  BY <1>1
<1> HIDE DEF t, o, s, mode, g, def, i
<1>7. Named(cmd)
  BY <1>3, RenderedIsNamed
<1>8. Managed(c) /\ (t.icon # Blank => IconLabel(c) = t.icon)
  <2> DEFINE m == o.image
  <2>1. c = Created(cmd, i, m, def)
    BY <1>4
  <2> HIDE DEF m
  <2> QED BY <1>3, <2>1, CreatedIsManaged
<1>9. Blocking(g, LiveSpec(c), mode) = {}
  BY <1>3, <1>4, <1>5, <1>7, GatedVerifies
<1> QED BY <1>2, <1>8, <1>9 DEF t, g, mode

(* Between looks that show the same, the gate does not tell.                *)
LEMMA GateTurned ==
    ASSUME NEW cmd, NEW i, NEW d, NEW g, g = RenderedSpec(cmd, i, d), Named(cmd),
           NEW id, id # None, NEW img, NEW e, NEW c, c = Created(cmd, id, img, e),
           NEW o, NEW s, TargetOf(s, o), NEW mode, Blocking(s, g, mode) = {},
           NEW m, Blocking(g, LiveSpec(c), m) = {}, NEW n
    PROVE  Blocking(LiveSpec(c), g, n) = {}
<1> DEFINE l == LiveSpec(c)
<1>1. /\ g.image = l.image /\ g.network = l.network /\ g.ports = l.ports /\ g.env = l.env
      /\ g.tz = l.tz /\ g.mounts = l.mounts /\ g.logdriver = l.logdriver
      /\ g.logopts = l.logopts /\ g.labels = l.labels /\ g.plain = l.plain /\ g.cmd = l.cmd
  BY GatePassed
<1>2. g.restart = l.restart /\ g.pids = l.pids
  BY LimitsAgree
<1>3. l.network = c.net
  BY LiveFields
<1>0. g.other = {}
  <2> HIDE DEF l
  <2> QED BY GatePassed
<1> HIDE DEF l
<1>4. c.net = "host" => g.hostname = None
  BY <1>1, <1>3, HostHasNoName
<1>5. \/ l.hostname = g.hostname
      \/ l.hostname # None /\ g.hostname = None /\ l.idname
  BY <1>4, HostnameAgrees DEF l
<1>6. Blocking(l, g, n) = {}
  BY <1>0, <1>1, <1>2, <1>5, GatePasses
<1> QED BY <1>6 DEF l

LEMMA VerifiedSettles ==
    ASSUME NEW r, IsPlanned(r), IsGated(r), NEW c, IsContainer(c),
           NEW T, NEW img, NEW d, IsRebuilt(r, c, T, img, d), ~r.disturbed,
           Managed(c), IconLabel(c) = Url, r.tmpl.icon = Url, r.cmd = {Command(r.tmpl)},
           Blocking(r.expect, LiveSpec(c), r.mode) = {}
    PROVE  IsSettled(c, r.tmpl, img, d)
<1> DEFINE t == r.tmpl
           o == r.orig
           s == r.target
           mode == r.mode
           g == r.expect
           i == c.id
           m == c.image
           cmd == Command(t)
<1>1. /\ IsTemplate(t) /\ cmd \in Renders(t) /\ IsContainer(o) /\ TargetOf(s, o)
      /\ AimsAtAll(s, t)
  BY DEF IsPlanned, Renders
<1>2. c.image = o.image /\ img = c.image /\ Unsupported(c, FALSE) = {}
  BY DEF IsRebuilt
<1>3. g = RenderedSpec(cmd, m, d)
  <2>1. d = r.defaults
    BY DEF IsRebuilt
  <2>2. g = RenderedSpec(cmd, o.image, r.defaults)
    BY DEF IsGated
  <2> QED BY <1>2, <2>1, <2>2
<1>4. c = Created(cmd, i, m, d)
  BY DEF IsRebuilt
<1>5. Blocking(s, g, mode) = {} /\ Blocking(g, LiveSpec(c), mode) = {} /\ i # None
  BY DEF IsGated, IsContainer
<1> HIDE DEF t, o, s, mode, g, i, m, cmd
<1>6. Named(cmd)
  BY <1>1, RenderedIsNamed
<1>7. Blocking(LiveSpec(c), g, "set_icon") = {}
  BY <1>1, <1>3, <1>4, <1>5, <1>6, GateTurned
<1>8. /\ s.labels = g.labels /\ g.labels = LiveSpec(c).labels
      /\ s.mounts = g.mounts /\ g.mounts = LiveSpec(c).mounts
  BY <1>5, GatePassed
<1>9. g.mounts = Keys(cmd, "mount")
  BY <1>3, RenderedFields
<1>10. LiveSpec(c).mounts = {x \in c.mounts : x.kind # "other"}
  BY LiveFields
<1>11. ASSUME ~t.amp
       PROVE  /\ Owning(t.extra) = MapWords(ContainerLabels, "label")
              /\ Merged(ContainerLabels, LiveSpec(c).labels) = LiveSpec(c).labels
              /\ \A x \in c.mounts : ~Anonymous(x)
  <2>1. /\ Owning(t.extra) = MapWords(ContainerLabels, "label")
        /\ Merged(ContainerLabels, s.labels) = s.labels
        /\ \A x \in s.mounts : ~Anonymous(x)
    BY <1>1, <1>8, <1>9, <1>11 DEF AimsAtAll, cmd
  <2>2. \A x \in c.mounts : Anonymous(x) => x \in LiveSpec(c).mounts
    BY <1>10 DEF Anonymous
  <2> QED BY <1>8, <2>1, <2>2
<1> QED BY <1>1, <1>2, <1>3, <1>7, <1>11 DEF IsSettled, t, g, m, cmd

-----------------------------------------------------------------------------
(* The steps of a run: the gate, the rebuild and its verification.          *)

LEMMA BudgetSpent ==
    ASSUME IInv, budget > 0, budget' = budget - 1
    PROVE  budget' \in 0 .. EnvBudget
<1>1. EnvBudget \in Nat /\ budget \in 0 .. EnvBudget
  BY DEF IInv, Bounds, ConstantsAssumption
<1> QED BY <1>1

LEMMA RunIsPlanned ==
    ASSUME IInv, run.pc # "idle"
    PROVE  IsPlanned(run) /\ IsRun(run) /\ runs \in 1 .. MaxRuns
<1>1. run # NoRun
  BY DEF NoRun
<1>2. runs \in 0 .. MaxRuns /\ runs > 0 /\ MaxRuns \in Nat
  BY DEF IInv, Bounds, ConstantsAssumption
<1> QED BY <1>1, <1>2 DEF IInv, Plan, IsPlanned

LEMMA GateInv ==
    ASSUME IInv, run.pc = "planned", NEW cmd \in Renders(run.tmpl), Gate(cmd),
           budget' \in 0 .. EnvBudget,
           UNCHANGED <<ctr, tmpl, tag, daemon, runs, settled>>
    PROVE  IInv'
<1> DEFINE got == RenderedSpec(cmd, run.orig.image, run.defaults)
           p == AfterGate(got)
<1>1. IsPlanned(run) /\ IsRun(run)
  BY RunIsPlanned
<1>2. run' = [run EXCEPT !.pc = p, !.cmd = {cmd}, !.expect = got,
                         !.intended = Intended(run.target, got, run.mode)]
  BY DEF Gate
<1>3. /\ p \in {"refused", "done", "rebuild"}
      /\ p \in {"done", "rebuild"} => ~run.blocked /\ Blocking(run.target, got, run.mode) = {}
      /\ p = "done" => run.unchanged
  BY DEF AfterGate
<1>4. got = RenderedSpec(cmd, run.orig.image, run.defaults)
  OBVIOUS
<1> HIDE DEF got, p
<1>5. /\ IsRun(run') /\ run'.pc = p /\ SamePlan(run, run')
      /\ run'.cmd = {cmd} /\ run'.expect = got
      /\ run'.intended = Intended(run.target, got, run.mode)
      /\ run'.disturbed = run.disturbed
  BY <1>1, <1>2 DEF IsRun, SamePlan
<1>6. IsPlanned(run')
  BY <1>1, <1>3, <1>5, PlannedStays DEF Pcs
<1>7. Bounds' /\ World' /\ Settled' /\ Repeated' /\ Rebuilt' /\ Foreseen'
  BY <1>3, <1>5 DEF IInv, Bounds, World, Settled, Repeated, Rebuilt, Foreseen
<1>8. Plan'
  BY <1>3, <1>5, <1>6 DEF Plan
<1>9. Gated' /\ Same'
  <2>1. PastGate(run') => p = "rebuild"
    BY <1>3, <1>5 DEF PastGate, SamePlan
  <2>2. p = "rebuild" => IsGated(run')
    BY <1>3, <1>4, <1>5 DEF IsGated, SamePlan
  <2>3. ~(run'.pc = "done" /\ ~run'.unchanged)
    BY <1>3, <1>5 DEF SamePlan
  <2> QED BY <2>1, <2>2, <2>3 DEF Gated, Same
<1>10. Current'
  BY <1>5 DEF IInv, Current, SamePlan
<1> QED BY <1>7, <1>8, <1>9, <1>10 DEF IInv

LEMMA RenderInv ==
    ASSUME IInv, Render
    PROVE  IInv'
<1>1. run.pc = "planned" /\ UNCHANGED <<ctr, tmpl, tag, daemon, runs, settled>>
  BY DEF Render
<1>2. budget \in 0 .. EnvBudget
  BY DEF IInv, Bounds
<1>3. CASE run' = [run EXCEPT !.pc = "refused"] /\ UNCHANGED budget
  <2>1. IsPlanned(run) /\ IsRun(run)
    BY <1>1, RunIsPlanned
  <2>2. IsRun(run') /\ run'.pc = "refused" /\ SamePlan(run, run')
    BY <1>3, <2>1, RunMoves
  <2>3. IsPlanned(run')
    BY <2>1, <2>2, PlannedStays DEF Pcs
  <2>4. Bounds' /\ World' /\ Settled' /\ Repeated' /\ Rebuilt' /\ Foreseen'
    BY <1>1, <1>3, <2>2 DEF IInv, Bounds, World, Settled, Repeated, Rebuilt, Foreseen
  <2>5. Plan' /\ Gated' /\ Same' /\ Current'
    BY <2>2, <2>3 DEF Plan, Gated, PastGate, Same, Current
  <2> QED BY <2>4, <2>5 DEF IInv
<1>4. CASE Gate(Command(run.tmpl)) /\ UNCHANGED budget
  <2>1. Command(run.tmpl) \in Renders(run.tmpl) /\ budget' \in 0 .. EnvBudget
    BY <1>2, <1>4 DEF Renders
  <2> QED BY <1>1, <1>4, <2>1, GateInv
<1>5. CASE /\ budget > 0 /\ budget' = budget - 1
           /\ \E cmd \in Misrendered(run.tmpl) : Gate(cmd)
  <2>1. PICK cmd \in Misrendered(run.tmpl) : Gate(cmd)
    BY <1>5
  <2>2. cmd \in Renders(run.tmpl) /\ budget' \in 0 .. EnvBudget
    BY <1>5, BudgetSpent DEF Renders
  <2> QED BY <1>1, <2>1, <2>2, GateInv
<1>6. \/ run' = [run EXCEPT !.pc = "refused"] /\ UNCHANGED budget
      \/ Gate(Command(run.tmpl)) /\ UNCHANGED budget
      \/ /\ budget > 0 /\ budget' = budget - 1
         /\ \E cmd \in Misrendered(run.tmpl) : Gate(cmd)
  BY Zenon DEF Render
<1> QED BY Zenon, <1>3, <1>4, <1>5, <1>6

LEMMA RebuildInv ==
    ASSUME IInv, Rebuild
    PROVE  IInv'
<1>1. /\ run.pc = "rebuild" /\ tmpl' = {run.tmpl} /\ settled' = FALSE
      /\ run' = [run EXCEPT !.pc = "verify"]
      /\ tag' = tag /\ daemon' = daemon /\ runs' = runs /\ budget' = budget
  BY DEF Rebuild
<1>2. PICK cmd \in run.cmd : ctr' = Created(cmd, NewIds[runs], tag, daemon)
  BY DEF Rebuild
<1>3. IsPlanned(run) /\ IsRun(run) /\ runs \in 1 .. MaxRuns
  BY <1>1, RunIsPlanned
<1>4. IsGated(run)
  BY <1>1 DEF IInv, Gated, PastGate
<1>5. /\ run.cmd = {cmd} /\ cmd \in Renders(run.tmpl)
      /\ run.expect = RenderedSpec(cmd, run.orig.image, run.defaults)
  BY <1>2, <1>4 DEF IsGated
<1>6. NewIds[runs] # None
  BY <1>3 DEF ConstantsAssumption
<1>7. tag \in DOMAIN Images /\ daemon \in LogDefaults
  BY DEF IInv, Bounds
<1>8. /\ IsContainer(ctr') /\ ctr'.hostname # None
      /\ ComposeFromImage(ctr') /\ Unsupported(ctr', FALSE) = {}
  <2> DEFINE o == run.orig
             s == run.target
             moving == (run.mode = "adopt" /\ Moving(o))
             mode == run.mode
             i == o.image
             def == run.defaults
             id == NewIds[runs]
             img == tag
             e == daemon
             c == ctr'
  <2>1. IsContainer(o) /\ TargetOf(s, o) /\ Unsupported(o, moving) = {}
    BY <1>3, <1>4 DEF IsPlanned, IsGated
  <2>2. Blocking(s, RenderedSpec(cmd, i, def), mode) = {}
    BY <1>4, <1>5 DEF IsGated
  <2>3. Named(cmd)
    BY <1>3, <1>5, RenderedIsNamed DEF IsPlanned
  <2>4. id # None /\ c = Created(cmd, id, img, e) /\ img \in DOMAIN Images
    BY <1>2, <1>6, <1>7
  <2> HIDE DEF o, s, moving, mode, i, def, id, img, e, c
  <2>6. Admits(o, s, cmd)
    BY <2>1, <2>2, <2>3 DEF Admits
  <2>5. IsContainer(c) /\ c.hostname # None /\ ComposeFromImage(c) /\ Unsupported(c, FALSE) = {}
    BY <2>4, <2>6, RebuiltFromGated
  <2> QED BY <2>5 DEF c
<1>9. /\ IsRun(run') /\ run'.pc = "verify" /\ SamePlan(run, run')
      /\ run'.cmd = run.cmd /\ run'.expect = run.expect /\ run'.intended = run.intended
      /\ run'.disturbed = run.disturbed
  BY <1>1, <1>3, RunMoves
<1>10. IsPlanned(run') /\ IsGated(run')
  BY <1>3, <1>4, <1>9, PlannedStays, GatedStays DEF Pcs
<1>11. Inhabited(ctr', tmpl')
  BY <1>1, <1>3, <1>8 DEF Inhabited, IsPlanned
<1>12. ctr'.image = tag /\ ctr' = Created(cmd, ctr'.id, ctr'.image, daemon)
  <2> DEFINE id == NewIds[runs]
             c == ctr'
  <2>1. c = Created(cmd, id, tag, daemon)
    BY <1>2
  <2> HIDE DEF id, c
  <2>2. c.id = id /\ c.image = tag
    BY <2>1, CreatedFields
  <2>3. c = Created(cmd, c.id, c.image, daemon)
    BY <2>1, <2>2
  <2> QED BY <2>2, <2>3 DEF c
<1>13. ~run.disturbed => tag = run.orig.image /\ daemon = run.defaults
  BY <1>1, <1>4 DEF IInv, Current, IsGated
<1>14. Rebuilt'
  <2>1. /\ tmpl' = {run'.tmpl} /\ run'.orig = run.orig /\ run'.defaults = run.defaults
        /\ run'.cmd = {cmd}
    BY <1>1, <1>5, <1>9 DEF SamePlan
  <2>2. \A x \in run'.cmd :
           /\ ctr' = Created(x, ctr'.id, ctr'.image, daemon)
           /\ ~run'.disturbed => daemon = run'.defaults /\ daemon' = run'.defaults
    <3>1. daemon' = daemon /\ run'.disturbed = run.disturbed /\ run'.defaults = run.defaults
      BY <1>1, <1>9, <2>1
    <3>2. ctr' = Created(cmd, ctr'.id, ctr'.image, daemon)
      BY <1>12
    <3>3. ~run.disturbed => daemon = run.defaults
      BY <1>13
    <3>4. ~run'.disturbed => daemon = run'.defaults /\ daemon' = run'.defaults
      BY <3>1, <3>3
    <3>5. \A x \in run'.cmd : x = cmd
      BY <2>1
    <3> DEFINE c == ctr'
    <3>6. c = Created(cmd, c.id, c.image, daemon)
      BY <3>2
    <3> HIDE DEF c
    <3>7. \A x \in run'.cmd : c = Created(x, c.id, c.image, daemon)
      BY <3>5, <3>6
    <3> QED BY <3>4, <3>7 DEF c
  <2>3. ~run'.disturbed => ctr'.image = run'.orig.image /\ tag' = run'.orig.image
    BY <1>1, <1>9, <1>12, <1>13, <2>1
  <2> QED BY <1>7, <1>8, <2>1, <2>2, <2>3 DEF Rebuilt, IsRebuilt
<1>15. Bounds' /\ World' /\ Settled' /\ Repeated'
  BY <1>1, <1>3, <1>9, <1>11 DEF IInv, Bounds, World, Settled, Repeated
<1>16. Plan' /\ Gated' /\ Current' /\ Same' /\ Foreseen'
  BY <1>9, <1>10 DEF Plan, Gated, Current, Same, Foreseen
<1> QED BY <1>14, <1>15, <1>16 DEF IInv

LEMMA VerifyManagedInv ==
    ASSUME IInv, VerifyManaged
    PROVE  IInv'
<1> DEFINE verified ==
             /\ Managed(ctr) /\ SameImage
             /\ run.tmpl.icon # Blank => IconLabel(ctr) = run.tmpl.icon
             /\ Blocking(run.expect, LiveSpec(ctr), run.mode) = {}
           p == IF verified THEN "done" ELSE "failed"
<1>1. /\ run.pc = "verify" /\ run' = [run EXCEPT !.pc = p]
      /\ settled' = (/\ verified /\ ~run.disturbed
                     /\ run.tmpl.icon = Url /\ run.cmd = {Command(run.tmpl)})
      /\ UNCHANGED <<ctr, tmpl, tag, daemon, runs, budget>>
  BY DEF VerifyManaged
<1>2. IsPlanned(run) /\ IsRun(run) /\ runs \in 1 .. MaxRuns
  BY <1>1, RunIsPlanned
<1>3. IsGated(run) /\ IsRebuilt(run, ctr, tmpl, tag, daemon) /\ IsContainer(ctr)
  BY <1>1 DEF IInv, Gated, PastGate, Rebuilt, World, Inhabited
<1>4. /\ verified => p = "done"
      /\ ~verified => p = "failed"
  OBVIOUS
<1>5. verified => SameBut(run.orig, ctr, SaidBy(run))
  <2> DEFINE r == run
             c == ctr
  <2>1. SUFFICES ASSUME verified PROVE SameBut(r.orig, c, SaidBy(r))
    OBVIOUS
  <2>2. c.image = r.orig.image /\ Blocking(r.expect, LiveSpec(c), r.mode) = {}
    BY <2>1 DEF SameImage
  <2>3. IsPlanned(r) /\ IsGated(r) /\ IsContainer(c) /\ IsRebuilt(r, c, tmpl, tag, daemon)
    BY <1>2, <1>3
  <2> HIDE DEF r, c, verified
  <2> QED BY <2>2, <2>3, VerifiedSame
<1>6. ASSUME ~verified, ~run.disturbed PROVE ImageInTheWay
  <2> DEFINE r == run
             c == ctr
  <2>1. SUFFICES ASSUME ~ImageInTheWay PROVE verified
    BY <1>6
  <2>2. \A cmd \in r.cmd : OutOfTheWay(r.orig.image, cmd)
    BY <2>1 DEF ImageInTheWay, OutOfTheWay
  <2>3. IsPlanned(r) /\ IsGated(r) /\ IsContainer(c) /\ IsRebuilt(r, c, tmpl, tag, daemon)
    BY <1>2, <1>3
  <2>4. ~r.disturbed
    BY <1>6
  <2> HIDE DEF r, c
  <2>5. /\ Managed(c) /\ c.image = r.orig.image
        /\ r.tmpl.icon # Blank => IconLabel(c) = r.tmpl.icon
        /\ Blocking(r.expect, LiveSpec(c), r.mode) = {}
    BY <2>2, <2>3, <2>4, UndisturbedVerifies
  <2> QED BY <2>5 DEF r, c, SameImage
<1>7. settled' => IsSettled(ctr, run.tmpl, tag, daemon) /\ tmpl = {run.tmpl}
  <2> DEFINE r == run
             c == ctr
  <2>1. SUFFICES ASSUME settled' PROVE IsSettled(c, r.tmpl, tag, daemon) /\ tmpl = {run.tmpl}
    OBVIOUS
  <2>2. verified /\ ~r.disturbed /\ r.tmpl.icon = Url /\ r.cmd = {Command(r.tmpl)}
    BY <1>1, <2>1
  <2>3. Url # Blank
    BY Zenon DEF Url, Blank
  <2>4. Managed(c) /\ IconLabel(c) = Url /\ Blocking(r.expect, LiveSpec(c), r.mode) = {}
    BY <2>2, <2>3
  <2>5. IsPlanned(r) /\ IsGated(r) /\ IsContainer(c) /\ IsRebuilt(r, c, tmpl, tag, daemon)
    BY <1>2, <1>3
  <2>6. tmpl = {run.tmpl}
    BY <1>3 DEF IsRebuilt
  <2> HIDE DEF r, c, verified
  <2> QED BY <2>2, <2>4, <2>5, <2>6, VerifiedSettles
<1>8. settled' \in BOOLEAN
  BY <1>1
<1> HIDE DEF verified, p
<1>9. /\ IsRun(run') /\ run'.pc = p /\ SamePlan(run, run')
      /\ run'.cmd = run.cmd /\ run'.expect = run.expect /\ run'.intended = run.intended
      /\ run'.disturbed = run.disturbed
  BY <1>1, <1>2, RunMoves
<1>10. p \in {"done", "failed"}
  BY <1>4
<1>11. IsPlanned(run') /\ IsGated(run')
  BY <1>2, <1>3, <1>9, <1>10, PlannedStays, GatedStays DEF Pcs
<1>12. Bounds' /\ World' /\ Settled'
  BY <1>1, <1>2, <1>7, <1>8 DEF IInv, Bounds, World, Settled
<1>13. Plan' /\ Gated' /\ Current' /\ Rebuilt' /\ Repeated'
  BY <1>9, <1>10, <1>11 DEF Plan, Gated, Current, Rebuilt, Repeated
<1>14. Same'
  <2>1. SaidBy(run') = SaidBy(run)
    BY <1>9 DEF SaidBy, SamePlan
  <2>2. run'.pc = "done" => verified
    BY <1>4, <1>9
  <2>3. run'.orig = run.orig /\ ctr' = ctr
    BY <1>1, <1>9 DEF SamePlan
  <2> QED BY <1>5, <2>1, <2>2, <2>3 DEF Same
<1>15. Foreseen'
  <2>1. SUFFICES ASSUME run'.pc = "failed" PROVE run'.disturbed \/ ImageInTheWay'
    BY DEF Foreseen
  <2>2. run.disturbed \/ ImageInTheWay
    BY <1>4, <1>6, <1>9, <2>1
  <2>3. run'.orig = run.orig /\ run'.cmd = run.cmd
    BY <1>9 DEF SamePlan
  <2> QED BY <1>9, <2>2, <2>3 DEF ImageInTheWay
<1> QED BY <1>12, <1>13, <1>14, <1>15 DEF IInv

-----------------------------------------------------------------------------
(* The verbs, and what they find of a container settled already.            *)

LEMMA PlanInv ==
    ASSUME IInv, MayRun, UNCHANGED <<ctr, tmpl, tag, daemon, budget, settled>>,
           NEW mode \in {"adopt", "set_icon"}, NEW target, NEW template, NEW blocked \in BOOLEAN,
           run' = Planned(mode, target, template, blocked),
           TargetOf(target, ctr), IsTemplate(template), AimsAtAll(target, template),
           target.network = IF mode = "adopt" /\ Moving(ctr) THEN "bridge" ELSE ctr.net,
           mode = "set_icon" => ComposeFromImage(ctr),
           ~blocked => Unsupported(ctr, mode = "adopt" /\ Moving(ctr)) = {} /\ tag = ctr.image,
           settled /\ mode = "set_icon" => WillChangeNothing(run')
    PROVE  IInv'
<1>1. /\ IsRun(run') /\ run'.pc = "planned" /\ run'.mode = mode /\ run'.orig = ctr
      /\ run'.target = target /\ run'.tmpl = template
      /\ run'.announced = Announced(ctr, target) /\ run'.cmd = {} /\ run'.defaults = daemon
      /\ run'.blocked = blocked
      /\ run'.compose <=> (mode = "adopt" /\ "project" \in DOMAIN ctr.labels)
  BY DEF Planned, IsRun
<1>2. IsContainer(ctr)
  BY DEF IInv, World, Inhabited
<1>3. IsPlanned(run')
  BY <1>1, <1>2 DEF IsPlanned, Pcs
<1>4. Bounds'
  <2>1. runs \in 0 .. MaxRuns /\ MaxRuns \in Nat /\ runs < MaxRuns /\ runs' = runs + 1
    BY DEF IInv, Bounds, MayRun, ConstantsAssumption
  <2>2. runs' \in 0 .. MaxRuns /\ runs' > 0
    BY <2>1
  <2> QED BY <2>2 DEF IInv, Bounds
<1>5. World' /\ Settled'
  BY DEF IInv, World, Settled
<1>6. Plan' /\ Gated' /\ Current' /\ Rebuilt' /\ Same' /\ Foreseen'
  BY <1>1, <1>3 DEF Plan, Gated, PastGate, Current, Rebuilt, Same, Foreseen
<1>7. Repeated'
  BY <1>1 DEF Repeated
<1> QED BY <1>4, <1>5, <1>6, <1>7 DEF IInv

LEMMA AdoptInv ==
    ASSUME IInv, NEW repo, NEW migrate, Adopt(repo, migrate)
    PROVE  IInv'
<1> DEFINE c == ctr
           target == AdoptTarget(c, migrate)
           icon == AdoptIcon(repo)
           template == FromSpec(target, icon)
           blocked == \/ Managed(ctr) /\ tmpl # {}
                      \/ ImageBlocker
                      \/ Unsupported(ctr, Moving(ctr)) # {}
           mode == "adopt"
<1>1. /\ MayRun /\ UNCHANGED <<ctr, tmpl, tag, daemon, budget, settled>>
      /\ run' = Planned(mode, target, template, blocked)
  BY Zenon DEF Adopt
<1>2. IsContainer(c)
  BY DEF IInv, World, Inhabited
<1>3. /\ mode \in {"adopt", "set_icon"} /\ mode # "set_icon" /\ blocked \in BOOLEAN
      /\ ~blocked => Unsupported(c, mode = "adopt" /\ Moving(c)) = {} /\ tag = c.image
  <2>1. (mode = "adopt" /\ Moving(c)) = Moving(c)
    BY DEF Moving
  <2>2. blocked \in BOOLEAN
    OBVIOUS
  <2>3. ~blocked => Unsupported(c, Moving(c)) = {} /\ tag = c.image
    BY DEF ImageBlocker
  <2> HIDE DEF blocked
  <2>4. ~blocked => Unsupported(c, mode = "adopt" /\ Moving(c)) = {}
    BY <2>1, <2>3, Zenon
  <2> QED BY <2>2, <2>3, <2>4
<1>4. TargetOf(target, c)
  <2> HIDE DEF c
  <2> QED BY <1>2, AdoptAims
<1>5. AimsAtAll(target, template)
  <2> HIDE DEF c, icon
  <2> QED BY <1>2, AdoptAimsAtAll
<1>6. IsTemplate(template)
  <2> HIDE DEF c, target, icon
  <2> QED BY <1>2, <1>4, FromSpecIsTemplate
<1>7. target.network = IF mode = "adopt" /\ Moving(c) THEN "bridge" ELSE c.net
  <2>1. LiveSpec(c).network = c.net
    BY LiveFields
  <2>2. target.network = IF Moving(c) THEN "bridge" ELSE LiveSpec(c).network
    <3> HIDE DEF c
    <3> QED BY AdoptTargetFields
  <2> QED BY <2>1, <2>2
<1> HIDE DEF target, template, blocked, mode
<1> QED BY <1>1, <1>3, <1>4, <1>5, <1>6, <1>7, PlanInv DEF c

(* The gate goes by what the two are, not by which two they are.            *)
LEMMA GateSame ==
    ASSUME NEW want, NEW other, NEW got, NEW mode, Blocking(other, got, mode) = {},
           want.image = other.image, want.network = other.network,
           want.ports = other.ports, want.env = other.env, want.tz = other.tz,
           want.mounts = other.mounts, want.logdriver = other.logdriver,
           want.logopts = other.logopts, want.labels = other.labels,
           want.plain = other.plain, want.cmd = other.cmd,
           want.hostname = other.hostname, want.idname = other.idname,
           want.restart = other.restart, want.pids = other.pids
    PROVE  Blocking(want, got, mode) = {}
<1> DEFINE D == Compared \cup {"hostname", "restart", "pids"}
<1>1. \A f \in D : want[f] = other[f]
  BY DEF Compared
<1>2. Intended(want, got, mode) = Intended(other, got, mode)
  BY DEF Intended
<1>3. Unremarkable(want, got) = Unremarkable(other, got)
  BY DEF Unremarkable
<1>4. {f \in D : want[f] # got[f]} = {f \in D : other[f] # got[f]}
  <2> HIDE DEF D
  <2> QED BY <1>1
<1> QED BY <1>2, <1>3, <1>4, Zenon DEF Blocking

LEMMA SettledNeedsNothing ==
    ASSUME NEW c, IsContainer(c), NEW t, NEW img, NEW d, IsSettled(c, t, img, d)
    PROVE  /\ SetIconTemplate(c, t) = t
           /\ Announced(c, SetIconTarget(c, t)) = {}
           /\ Blocking(SetIconTarget(c, t), RenderedSpec(Command(t), c.image, d), "set_icon") = {}
<1> DEFINE s == SetIconTarget(c, t)
           live == LiveSpec(c)
           conv == Convertible(c, t)
           g == RenderedSpec(Command(t), c.image, d)
<1>1. /\ IsTemplate(t) /\ t.icon = Url /\ Blocking(live, g, "set_icon") = {}
      /\ ~t.amp => /\ Owning(t.extra) = MapWords(ContainerLabels, "label")
                   /\ Merged(ContainerLabels, live.labels) = live.labels
                   /\ \A m \in c.mounts : ~Anonymous(m)
  BY DEF IsSettled
<1>2. conv = {}
  <2>1. \A m \in conv : ~t.amp /\ m \in c.mounts /\ Anonymous(m)
    BY LiveFields DEF Convertible
  <2> QED BY <1>1, <2>1
<1>3. SetIconTemplate(c, t) = t
  BY <1>1, <1>2, SetIconChangesNothing
<1>4. /\ s.image = live.image /\ s.hostname = live.hostname /\ s.idname = live.idname
      /\ s.ports = live.ports /\ s.env = live.env /\ s.tz = live.tz
      /\ s.logdriver = live.logdriver /\ s.logopts = live.logopts
      /\ s.restart = live.restart /\ s.pids = live.pids
      /\ s.plain = live.plain /\ s.cmd = live.cmd
      /\ s.network = live.network
  BY SetIconTargetFields
<1>5. /\ s.labels = IF t.amp THEN live.labels ELSE Merged(ContainerLabels, live.labels)
      /\ s.mounts = IF t.amp THEN live.mounts
                    ELSE (live.mounts \ conv) \cup {Converted(m) : m \in conv}
  BY SetIconTargetFields
<1> HIDE DEF s, live, conv, g
<1>6. s.labels = live.labels
  BY <1>1, <1>5
<1>7. s.mounts = live.mounts
  <2>1. {Converted(m) : m \in conv} = {}
    BY <1>2
  <2>2. live.mounts \ conv = live.mounts
    BY <1>2
  <2>3. live.mounts \cup {} = live.mounts
    OBVIOUS
  <2> QED BY <1>5, <2>1, <2>2, <2>3
<1>8. Announced(c, s) = {}
  <2>1. \A f \in {"network", "mounts", "labels"} : s[f] = live[f]
    BY <1>4, <1>6, <1>7
  <2> QED BY <2>1 DEF Announced, live
<1>9. Blocking(s, g, "set_icon") = {}
  <2> DEFINE mode == "set_icon"
  <2>1. Blocking(live, g, mode) = {}
    BY <1>1
  <2> HIDE DEF mode
  <2>2. Blocking(s, g, mode) = {}
    BY <1>4, <1>6, <1>7, <2>1, GateSame
  <2> QED BY <2>2 DEF mode
<1> QED BY <1>3, <1>8, <1>9 DEF s, g

LEMMA SetIconInv ==
    ASSUME IInv, SetIcon
    PROVE  IInv'
<1> DEFINE c == ctr
           target(t) == SetIconTarget(c, t)
           template(t) == SetIconTemplate(c, t)
           blocked == ~Managed(ctr) \/ ImageBlocker \/ Unsupported(ctr, FALSE) # {}
           mode == "set_icon"
<1>1. /\ MayRun /\ UNCHANGED <<ctr, tmpl, tag, daemon, budget, settled>>
      /\ \E t \in tmpl : run' = Planned(mode, target(t), template(t), blocked)
  BY Zenon DEF SetIcon
<1>2. PICK t \in tmpl : run' = Planned(mode, target(t), template(t), blocked)
  BY <1>1
<1>3. IsContainer(c) /\ IsTemplate(t) /\ tmpl = {t} /\ ComposeFromImage(c)
  BY DEF IInv, World, Inhabited
<1>4. /\ mode \in {"adopt", "set_icon"} /\ blocked \in BOOLEAN
      /\ ~blocked => Unsupported(c, mode = "adopt" /\ Moving(c)) = {} /\ tag = c.image
  <2>1. (mode = "adopt" /\ Moving(c)) = FALSE
    OBVIOUS
  <2>2. blocked \in BOOLEAN
    OBVIOUS
  <2>3. ~blocked => Unsupported(c, FALSE) = {} /\ tag = c.image
    BY DEF ImageBlocker
  <2> HIDE DEF blocked
  <2>4. ~blocked => Unsupported(c, mode = "adopt" /\ Moving(c)) = {}
    BY <2>1, <2>3, Zenon
  <2> QED BY <2>2, <2>3, <2>4
<1>5. TargetOf(target(t), c)
  <2> HIDE DEF c
  <2> QED BY <1>3, SetIconAims
<1>6. AimsAtAll(target(t), template(t))
  <2> HIDE DEF c
  <2> QED BY <1>3, SetIconAimsAtAll
<1>7. IsTemplate(template(t))
  <2> HIDE DEF c
  <2> QED BY <1>3, SetIconTemplateIsTemplate
<1>8. target(t).network = IF mode = "adopt" /\ Moving(c) THEN "bridge" ELSE c.net
  <2>1. LiveSpec(c).network = c.net
    BY LiveFields
  <2>2. target(t).network = LiveSpec(c).network
    <3> HIDE DEF c
    <3> QED BY SetIconTargetFields
  <2> QED BY <2>1, <2>2
<1>9. ASSUME settled PROVE WillChangeNothing(run')
  <2>1. IsSettled(c, t, tag, daemon)
    BY <1>3, <1>9 DEF IInv, Settled
  <2>2. /\ template(t) = t /\ Announced(c, target(t)) = {}
        /\ Blocking(target(t), RenderedSpec(Command(t), c.image, daemon), "set_icon") = {}
    <3> DEFINE d == daemon
               img == tag
    <3> HIDE DEF c, d, img
    <3> QED BY <1>3, <2>1, SettledNeedsNothing DEF d, img
  <2>3. Managed(c) /\ IconLabel(c) = Url /\ Unsupported(c, FALSE) = {} /\ tag = c.image
    BY <2>1 DEF IsSettled
  <2>4. ~blocked
    BY <2>3 DEF ImageBlocker
  <2> HIDE DEF target, template, blocked
  <2>5. /\ run'.mode = mode /\ run'.orig = c /\ run'.target = target(t) /\ run'.tmpl = template(t)
        /\ run'.defaults = daemon /\ run'.blocked = blocked
        /\ run'.unchanged <=> /\ {template(t)} = tmpl
                              /\ Announced(c, target(t)) = {} /\ IconLabel(c) = Url
    BY <1>2 DEF Planned
  <2> QED BY <1>3, <2>2, <2>3, <2>4, <2>5 DEF WillChangeNothing
<1> HIDE DEF target, template, blocked, mode
<1> QED BY <1>1, <1>2, <1>3, <1>4, <1>5, <1>6, <1>7, <1>8, <1>9, PlanInv DEF c

-----------------------------------------------------------------------------
(* The first states: a container of its own, or one that dockerMan made of  *)
(* a template somebody wrote.                                               *)

LEMMA FromSpecMounts ==
    ASSUME NEW s, NEW icon, NEW w \in FromSpec(s, icon).configs \cup FromSpec(s, icon).extra,
           w[1] = "mount"
    PROVE  w[2] \in s.mounts
<1>1. CASE w \in FromSpec(s, icon).configs
  <2>1. CASE w \in Words({p \in s.ports : p.ip = "any"}, "port")
    BY <2>1, WordsAre
  <2>2. CASE w \in Words({m \in s.mounts : HasConfig(m)}, "mount")
    BY <2>2, WordsAre
  <2>3. CASE w \in MapWords(s.env, "env")
    BY <2>3, MapWordsAre
  <2>4. CASE w \in {<<"env", "TZ", v>> : v \in {s.tz} \ {Blank}}
    BY <2>4
  <2> QED BY <1>1, <2>1, <2>2, <2>3, <2>4, FromSpecConfigs
<1>2. CASE w \in FromSpec(s, icon).extra
  <2>1. CASE \/ w \in Words({p \in s.ports : p.ip # "any"}, "port")
             \/ w \in Words({m \in s.mounts : ~HasConfig(m)}, "mount")
             \/ w \in MapWords(s.logopts, "logopt")
    <3>1. CASE w \in Words({p \in s.ports : p.ip # "any"}, "port")
      BY <3>1, WordsAre
    <3>2. CASE w \in Words({m \in s.mounts : ~HasConfig(m)}, "mount")
      BY <3>2, WordsAre
    <3>3. CASE w \in MapWords(s.logopts, "logopt")
      BY <3>3, MapWordsAre
    <3> QED BY <2>1, <3>1, <3>2, <3>3
  <2>2. CASE \/ w \in Optional("hostname", s.hostname, None)
             \/ w \in Optional("logdriver", s.logdriver, "json-file")
             \/ w \in Optional("restart", s.restart, None)
             \/ w \in Optional("pids", s.pids, 0)
    <3>1. w[1] \in {"hostname", "logdriver", "restart", "pids"}
      BY <2>2 DEF Optional
    <3> QED BY <3>1
  <2>3. CASE \E f \in {"tmpfs", "gpus"} : w \in Optional(f, s.plain[f], FALSE)
    BY <2>3, OptionalIs
  <2>4. CASE w \in MapWords(s.labels, "label")
    BY <2>4, MapWordsAre
  <2> QED BY <1>2, <2>1, <2>2, <2>3, <2>4, FromSpecExtra
<1> QED BY <1>1, <1>2

LEMMA FirstMade ==
    ASSUME NEW o, IsContainer(o), NEW d, NEW t, t = FromSpec(LiveSpec(o), Blank),
           NEW c, c = Created(Command(t), o.id, o.image, d)
    PROVE  IsContainer(c) /\ ComposeFromImage(c) /\ IsTemplate(t)
<1> DEFINE s == LiveSpec(o)
           cmd == Command(t)
           id == o.id
           img == o.image
<1>1. TargetOf(s, o)
  BY LiveIsATarget
<1>2. t = FromSpec(s, Blank)
  OBVIOUS
<1>3. \A m \in s.mounts : m \in o.mounts
  BY LiveFields
<1>4. c = Created(cmd, id, img, d) /\ id # None /\ img \in DOMAIN Images
  BY DEF IsContainer
<1>5. cmd \in Renders(t)
  BY DEF Renders
<1>6. cmd.extra = t.extra
  BY CommandFields
<1>7. \A w \in cmd.own : IsOwnWord(w, t)
  BY CommandWords
<1> HIDE DEF s, cmd, id, img
<1>8. IsTemplate(t)
  BY <1>1, <1>2, FromSpecIsTemplate
<1>9. Named(cmd)
  BY <1>5, <1>8, RenderedIsNamed
<1>10. ASSUME NEW m \in Keys(cmd, "mount")
       PROVE  m \in o.mounts
  <2>1. PICK w \in t.configs \cup t.extra : w[1] = "mount" /\ w[2] = m
    BY <1>8, <1>10, CommandMounts DEF cmd
  <2>2. w[2] \in s.mounts
    BY <1>2, <2>1, FromSpecMounts
  <2> QED BY <1>3, <2>1, <2>2
<1>11. IsContainer(c)
  <2>1. /\ \A m \in Keys(cmd, "mount") : IsMount(m)
        /\ \A m, n \in Keys(cmd, "mount") : Anonymous(m) /\ n.src = m.src => n = m
    BY <1>10 DEF IsContainer
  <2> QED BY <1>4, <1>9, <2>1, CreatedIsContainer
<1>12. ComposeFromImage(c)
  <2> DEFINE A == Args(cmd, "label")
             B == Images[img].labels
             flag == "label"
  <2>1. c.labels = Merged(A, B) /\ c.image = img
    BY <1>4, CreatedFields
  <2>2. DOMAIN s.labels \cap (ComposeLabels \cup UnraidLabels) = {}
    BY <1>1, TargetLabels
  <2>3. ASSUME NEW k \in ComposeLabels, k \in DOMAIN A PROVE FALSE
    <3>1. PICK w \in cmd.own \cup cmd.extra : w[1] = flag /\ w[2] = k
      <4> HIDE DEF flag
      <4>1. DOMAIN Args(cmd, flag) = Keys(cmd, flag)
        BY ArgsAreWords
      <4>2. k \in Keys(cmd, flag)
        BY <2>3, <4>1 DEF flag
      <4>3. \E w \in cmd.own \cup cmd.extra : w[1] = flag /\ w[2] = k /\ w[3] = Args(cmd, flag)[k]
        BY <4>2, ArgsAreWords
      <4> QED BY <4>3
    <3>2. CASE w \in cmd.own
      <4>1. IsOwnWord(w, t)
        BY <1>7, <3>2
      <4>2. w \notin t.configs
        BY <1>8, <3>1 DEF IsTemplate, ConfigWord
      <4>3. k \in UnraidLabels
        BY <3>1, <4>1, <4>2 DEF IsOwnWord, UnraidLabels
      <4> QED BY <2>3, <4>3 DEF UnraidLabels, ComposeLabels
    <3>3. CASE w \in cmd.extra
      <4>1. w \in MapWords(s.labels, "label")
        BY <1>2, <1>6, <3>1, <3>3, FromSpecLabels
      <4>2. k \in DOMAIN s.labels
        BY <3>1, <4>1, MapWordsAre
      <4> QED BY <2>2, <2>3, <4>2
    <3> QED BY <3>1, <3>2, <3>3
  <2> HIDE DEF A, B
  <2>4. DOMAIN c.labels = DOMAIN A \cup DOMAIN B
    BY <2>1, MergedIsMap
  <2>5. \A k \in DOMAIN B \ DOMAIN A : c.labels[k] = B[k]
    BY <2>1, MergedValues
  <2>6. B = Images[c.image].labels
    BY <2>1 DEF B
  <2> QED BY <2>3, <2>4, <2>5, <2>6 DEF ComposeFromImage
<1> QED BY <1>8, <1>11, <1>12

LEMMA InitInv ==
    ASSUME Init
    PROVE  IInv
<1>1. /\ run = NoRun /\ runs = 0 /\ budget = EnvBudget /\ settled = FALSE
      /\ tag \in {c.image : c \in Containers} /\ daemon \in LogDefaults
  BY DEF Init
<1>2. run.pc = "idle"
  BY <1>1 DEF NoRun
<1>3. \A c \in Containers : IsContainer(c)
  BY DEF ConstantsAssumption
<1>4. Bounds
  <2>1. MaxRuns \in Nat /\ EnvBudget \in Nat
    BY DEF ConstantsAssumption
  <2>2. \A c \in Containers : c.image \in DOMAIN Images
    <3> TAKE c \in Containers
    <3> QED BY <1>3 DEF IsContainer
  <2>3. tag \in DOMAIN Images
    BY <1>1, <2>2
  <2>4. runs \in 0 .. MaxRuns /\ budget \in 0 .. EnvBudget
    BY <1>1, <2>1
  <2>5. settled \in BOOLEAN /\ daemon \in LogDefaults /\ run.pc = "idle"
    BY <1>1, <1>2
  <2> QED BY <2>3, <2>4, <2>5 DEF Bounds
<1>5. World
  <2>1. PICK c \in Containers :
           \/ ctr = c /\ tmpl = {}
           \/ /\ tmpl = {FromSpec(LiveSpec(c), Blank)}
              /\ ctr = Created(Command(FromSpec(LiveSpec(c), Blank)), c.id, c.image, daemon)
    BY DEF Init
  <2>2. IsContainer(c)
    BY <1>3
  <2>3. CASE ctr = c /\ tmpl = {}
    BY <2>2, <2>3 DEF World, Inhabited
  <2>4. CASE /\ tmpl = {FromSpec(LiveSpec(c), Blank)}
             /\ ctr = Created(Command(FromSpec(LiveSpec(c), Blank)), c.id, c.image, daemon)
    <3> DEFINE t == FromSpec(LiveSpec(c), Blank)
    <3>1. ctr = Created(Command(t), c.id, c.image, daemon) /\ tmpl = {t}
      BY <2>4
    <3>2. IsContainer(ctr) /\ ComposeFromImage(ctr) /\ IsTemplate(t)
      BY <2>2, <3>1, FirstMade
    <3> HIDE DEF t
    <3> QED BY <3>1, <3>2 DEF World, Inhabited
  <2> QED BY <2>1, <2>3, <2>4
<1>6. Plan /\ Gated /\ Current /\ Rebuilt /\ Same /\ Foreseen /\ Settled /\ Repeated
  BY <1>1, <1>2 DEF Plan, Gated, PastGate, Current, Rebuilt, Same, Foreseen, Settled, Repeated
<1> QED BY <1>4, <1>5, <1>6 DEF IInv

LEMMA StutterInv ==
    ASSUME IInv, UNCHANGED vars
    PROVE  IInv'
  BY DEF vars, IInv, Bounds, World, Plan, Gated, Current, Rebuilt, Same, Foreseen, ImageInTheWay,
         Settled, Repeated

LEMMA NextInv ==
    ASSUME IInv, [Next]_vars
    PROVE  IInv'
<1>1. ASSUME NEW repo \in BOOLEAN, NEW migrate \in BOOLEAN, Adopt(repo, migrate) PROVE IInv'
  BY <1>1, AdoptInv
<1>2. CASE SetIcon
  BY <1>2, SetIconInv
<1>3. CASE Render
  BY <1>3, RenderInv
<1>4. CASE Rebuild
  BY <1>4, RebuildInv
<1>5. CASE VerifyManaged
  BY <1>5, VerifyManagedInv
<1>6. CASE Retag
  BY <1>6, RetagInv
<1>7. CASE SetLogRotation
  BY <1>7, SetLogRotationInv
<1>8. CASE EditTemplate
  BY <1>8, EditTemplateInv
<1>9. CASE UNCHANGED vars
  BY <1>9, StutterInv
<1> QED BY <1>1, <1>2, <1>3, <1>4, <1>5, <1>6, <1>7, <1>8, <1>9 DEF Next

LEMMA Invariance == Spec => []IInv
  BY InitInv, NextInv, PTL DEF Spec

-----------------------------------------------------------------------------
LEMMA FaithfulOfIInv ==
    ASSUME IInv
    PROVE  FaithfulRebuild
<1>1. TypeOK
  <2>1. Cardinality(tmpl) <= 1
    <3>1. CASE tmpl = {}
      BY <3>1, FS_EmptySet
    <3>2. CASE \E t \in tmpl : TRUE
      <4>1. PICK t \in tmpl : tmpl = {t}
        BY <3>2 DEF IInv, World, Inhabited
      <4>2. Cardinality({t}) = 1
        BY FS_Singleton
      <4> QED BY <4>1, <4>2
    <3> QED BY <3>1, <3>2
  <2>2. ctr.image \in DOMAIN Images
    BY DEF IInv, World, Inhabited, IsContainer
  <2>3. run.pc \in Pcs
    BY DEF IInv, Plan, NoRun, IsPlanned, Pcs
  <2> QED BY <2>1, <2>2, <2>3 DEF TypeOK, IInv, Bounds
<1>2. run.pc = "done" /\ ~run.unchanged => SameBut(run.orig, ctr, SaidBy(run))
  BY DEF IInv, Same
<1>3. run.pc = "failed" => run.disturbed \/ ImageInTheWay
  BY DEF IInv, Foreseen
<1> QED BY <1>1, <1>2, <1>3 DEF FaithfulRebuild, SaidBy

(* A run that reports success left what it found, but for what it said;     *)
(* and verification fails a rebuild that the gate let pass only if the      *)
(* world changed in between, or for what the image has: for whatever        *)
(* containers, images, words dockerMan may get wrong and runs there are.    *)
THEOREM RebuildIsFaithful == Spec => []FaithfulRebuild
  BY Invariance, FaithfulOfIInv, PTL

LEMMA SettledIsComplete ==
    ASSUME IInv, settled
    PROVE  Complete(Status)
<1>1. PICK t \in tmpl : tmpl = {t} /\ IsSettled(ctr, t, tag, daemon)
  BY DEF IInv, Settled
<1>2. t.icon = Url /\ Managed(ctr)
  BY <1>1 DEF IsSettled
<1>3. Url # Blank
  BY Zenon DEF Url, Blank
<1>4. AdoptIcon(FALSE) = Url
  <2>1. (CHOOSE x \in tmpl : TRUE) = t
    BY <1>1
  <2>2. \E x \in tmpl : x.icon # Blank
    BY <1>2, <1>3
  <2> QED BY <1>2, <2>1, <2>2 DEF AdoptIcon
<1>5. /\ Status.has_template /\ Status.managed /\ Status.orca_icon
      /\ Status.missing_labels = OwnershipKeys \ DOMAIN ctr.labels
      /\ Status.anonymous = {m \in ctr.mounts : Anonymous(m)}
  <2>1. \E x \in tmpl : x.icon # Blank
    BY <1>2, <1>3
  <2> QED BY <1>1, <1>2, <1>4, <2>1 DEF Status
<1>6. ASSUME ~t.amp PROVE Status.missing_labels = {} /\ Status.anonymous = {}
  <2>1. /\ Merged(ContainerLabels, LiveSpec(ctr).labels) = LiveSpec(ctr).labels
        /\ \A m \in ctr.mounts : ~Anonymous(m)
    BY <1>1, <1>6 DEF IsSettled
  <2>2. OwnershipKeys \subseteq DOMAIN LiveSpec(ctr).labels
    <3>1. DOMAIN Merged(ContainerLabels, LiveSpec(ctr).labels)
            = DOMAIN ContainerLabels \cup DOMAIN LiveSpec(ctr).labels
      BY MergedIsMap
    <3> QED BY <2>1, <3>1 DEF ContainerLabels
  <2>3. \A k \in DOMAIN LiveSpec(ctr).labels : k \in DOMAIN ctr.labels
    BY LiveLabels
  <2> QED BY <1>5, <2>1, <2>2, <2>3
<1> QED BY <1>5, <1>6 DEF Complete

LEMMA GateGives ==
    ASSUME NEW cmd, Gate(cmd), IsRun(run)
    PROVE  /\ run'.pc = AfterGate(RenderedSpec(cmd, run.orig.image, run.defaults))
           /\ run'.cmd = {cmd}
<1> DEFINE got == RenderedSpec(cmd, run.orig.image, run.defaults)
           p == AfterGate(got)
<1>1. run' = [run EXCEPT !.pc = p, !.cmd = {cmd}, !.expect = got,
                         !.intended = Intended(run.target, got, run.mode)]
  BY DEF Gate
<1> HIDE DEF got, p
<1>2. run'.pc = p /\ run'.cmd = {cmd}
  BY <1>1 DEF IsRun
<1> QED BY <1>2 DEF got, p

LEMMA RepeatedPasses ==
    ASSUME IInv, Render, settled, run.mode = "set_icon", run'.cmd = {Command(run.tmpl)}
    PROVE  run.unchanged /\ run'.pc = "done"
<1>1. run.pc = "planned"
  BY Zenon DEF Render
<1>2. WillChangeNothing(run)
  BY <1>1 DEF IInv, Repeated
<1>3. IsPlanned(run) /\ IsRun(run) /\ run.cmd = {}
  BY <1>1, RunIsPlanned DEF IsPlanned
<1>4. run' # [run EXCEPT !.pc = "refused"]
  <2>1. SUFFICES ASSUME run' = [run EXCEPT !.pc = "refused"] PROVE FALSE
    OBVIOUS
  <2>2. run'.cmd = run.cmd
    BY <1>3, <2>1, RunMoves
  <2> QED BY <1>3, <2>2
<1>5. \/ Gate(Command(run.tmpl))
      \/ \E cmd \in Misrendered(run.tmpl) : Gate(cmd)
  <2>1. \/ run' = [run EXCEPT !.pc = "refused"] /\ UNCHANGED budget
        \/ Gate(Command(run.tmpl)) /\ UNCHANGED budget
        \/ /\ budget > 0 /\ budget' = budget - 1
           /\ \E cmd \in Misrendered(run.tmpl) : Gate(cmd)
    BY Zenon DEF Render
  <2> QED BY Zenon, <1>4, <2>1
<1>6. PICK cmd : Gate(cmd)
  BY <1>5
<1>8. run.unchanged /\ ~run.blocked
      /\ Blocking(run.target, RenderedSpec(Command(run.tmpl), run.orig.image, run.defaults),
                  run.mode) = {}
  BY <1>2 DEF WillChangeNothing
<1>9. run'.pc = AfterGate(RenderedSpec(cmd, run.orig.image, run.defaults)) /\ run'.cmd = {cmd}
  BY <1>3, <1>6, GateGives
<1>10. cmd = Command(run.tmpl)
  BY <1>9
<1>11. run'.pc = "done"
  BY <1>8, <1>9, <1>10 DEF AfterGate
<1> QED BY <1>8, <1>11

(* What a run left needs no other: docker.status misses nothing, and the    *)
(* same icon set again finds nothing to change and passes its gate.         *)
THEOREM OnePassSettles == Spec => SettlesInOnePass
<1>1. IInv /\ [Next]_vars =>
        [/\ settled => Complete(Status)
         /\ Render /\ settled /\ run.mode = "set_icon" /\ run'.cmd = {Command(run.tmpl)}
              => run.unchanged /\ run'.pc = "done"]_vars
  BY SettledIsComplete, RepeatedPasses
<1> QED BY <1>1, Invariance, PTL DEF Spec, SettlesInOnePass

=============================================================================

----------------------------- MODULE MCFidelity -----------------------------
(* Containers that differ from a plain one in one facet, or in two of those *)
(* the code looks at together, and some of an image that docker commit made *)
(* of an adopted container.                                                 *)
EXTENDS Fidelity, TLC

MCImages ==
    [i1 |-> [env |-> "K" :> "1", labels |-> "img" :> "1", cmd |-> "serve"],
     committed |-> [env |-> ("K" :> "2") @@ ("TZ" :> "utc"), cmd |-> "serve",
                    labels |-> ("owner" :> "unraid") @@ ("project" :> "p")]]

MCAnonymousNames == {"anonymous"}

MCNewIds == <<"1", "2">>

MCLogDefaults == {NoMap, "size" :> "50m"}

Plain ==
    [id |-> "0", image |-> "i1", tag |-> "t", net |-> "bridge", hostname |-> "0",
     env |-> "K" :> "1", ports |-> {}, mounts |-> {}, logdriver |-> "json-file",
     logopts |-> NoMap, restart |-> None, pids |-> 0, labels |-> "img" :> "1",
     plain |-> [f \in PlainFacets |-> FALSE], cmd |-> "serve", extra |-> {}]

Port(ip, host) == [ip |-> ip, host |-> host]
Mnt(kind, src, dst, ro, prop) ==
    [kind |-> kind, src |-> src, dst |-> dst, ro |-> ro, prop |-> prop]

Variants ==
    [net |-> {"host", "container", ProjectNet},
     hostname |-> {"web"},
     env |-> {NoMap, "K" :> "2", ("K" :> "1") @@ ("U" :> "1"), ("K" :> "1") @@ ("TZ" :> "utc"),
              ("K" :> "1") @@ ("TZ" :> "") @@ ("HOST_OS" :> "x")},
     ports |-> {{Port("any", "80"), Port("lo", "81")}, {Port("any", "random")}},
     mounts |-> {{Mnt("bind", "/a", "/x", TRUE, ""), Mnt("bind", "/b", "/y", FALSE, "shared")},
                 {Mnt("volume", "named", "/x", TRUE, ""),
                  Mnt("volume", "anonymous", "/y", FALSE, "")},
                 {Mnt("other", "", "/x", FALSE, "")}},
     logdriver |-> {"syslog"},
     logopts |-> {"size" :> "50m", ("size" :> "1m") @@ ("file" :> "3")},
     restart |-> {"always"},
     pids |-> {100, UnraidPidsLimit},
     labels |-> {("img" :> "2") @@ ("owner" :> "docker"),
                 ("img" :> "1") @@ ("user" :> "1") @@ ("owner" :> "unraid"),
                 ("img" :> "1") @@ ("project" :> "p")},
     plain |-> {[f \in PlainFacets |-> f = g] : g \in PlainFacets},
     cmd |-> {"other"},
     extra |-> {{"capadd"}, {"aliases"}}]

(* Of such an image: its labels, which adopt would write, are on it already. *)
Committed ==
    {[Plain EXCEPT !.image = "committed", !.labels = MCImages["committed"].labels @@ l,
                   !.env = ("K" :> "2") @@ ("TZ" :> tz)] :
        tz \in {"", "utc"}, l \in {NoMap, "managed" :> "dockerman"}}

Varied(c, f) == {[c EXCEPT ![f] = v] : v \in Variants[f]}

Coupled == {"net", "hostname", "mounts", "logdriver", "logopts", "labels", "extra"}

MCContainers ==
    {Plain} \cup Committed \cup UNION {Varied(Plain, f) : f \in DOMAIN Variants}
    \cup UNION {UNION {Varied(c, g) : c \in Varied(Plain, f), g \in Coupled} : f \in Coupled}

MCForeign == {<<"other", "capadd", "">>, <<"label", "user", "2">>, <<"env", "U", "2">>,
              <<"pids", "", 100>>, <<"restart", "", "always">>}

=============================================================================

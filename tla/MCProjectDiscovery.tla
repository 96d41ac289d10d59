------------------------- MODULE MCProjectDiscovery -------------------------
(* The projects of the model-checking runs of ProjectDiscovery.             *)
EXTENDS ProjectDiscovery

Yaml == {"absent", "schema", "rooted", "dangling", "future"}

\* A link leads to a directory that is there.
Sane(at) == \A n \in DOMAIN at :
                at[n] \in {"public", "web", "other"} => at[at[n]] = at[n]

Places ==
    {at \in [public : Nowhere \union Directory,
             web : {"absent", "file", "web", "public"},
             other : {"absent", "other", "outside"}] : Sane(at)}

Indexes ==
    [root : Index \ {"outside", "elsewhere"}, public : Index,
     web : {"absent", "here"}, other : {"here"},
     outside : {"here"}]

Declarations == {<<y, "root">> : y \in Yaml \ {"rooted"}}
                    \union {<<"rooted", d>> : d \in Declared}

MCProjects ==
    {[windows |-> w, yaml |-> y[1], declared |-> y[2], at |-> a,
      index |-> i] : w \in BOOLEAN,
        y \in Declarations, a \in Places, i \in Indexes}
=============================================================================

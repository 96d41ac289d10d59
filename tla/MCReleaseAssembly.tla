------------------------- MODULE MCReleaseAssembly -------------------------
(* Recipes and places of the model-checking runs of ReleaseAssembly.        *)
EXTENDS ReleaseAssembly

Plainly(v) == [artifact |-> "first", notices |-> "second", pinned |-> v,
               bundle |-> v, defects |-> {}]

\* A recipe for each way of departing from a well-formed one.
MCDefects == {[Plainly("v1") EXCEPT !.defects = {d}] : d \in Defect}
                 \union {Plainly("v1")}

\* Two releases under the same names, one under exchanged names, names that
\* meet, and some recipes with a defect.
MCRecipes ==
    {Plainly(v) : v \in Versions}
    \union {[r EXCEPT !.artifact = "second", !.notices = "first"] :
               r \in {Plainly("v2")}}
    \union {[r EXCEPT !.notices = n] :
               r \in {Plainly("v1")}, n \in {"first", "manifest", "sums"}}
    \union {r \in MCDefects : r.defects \subseteq
                {"schema", "reservedName", "looseID", "upperDigest",
                 "unlicensed"}}

MCPlaces == {"apart", "first", "second"}

MCApart == {"apart"}
=============================================================================

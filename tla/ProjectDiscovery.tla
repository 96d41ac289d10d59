-------------------------- MODULE ProjectDiscovery --------------------------
(***************************************************************************)
(* How `phite dev' finds the Document Root and the Entrypoint of a PHP     *)
(* Project: internal/devsession/configuration.go.  It writes nothing, so   *)
(* it is an operator on what the project's directory holds: phite.yaml,    *)
(* the names `public', `web' and one that phite.yaml may give, each a      *)
(* directory, a link or something else, and an index.php in every          *)
(* directory.                                                              *)
(*                                                                         *)
(* The directory is taken not to change while it is looked at.             *)
(***************************************************************************)
EXTENDS Naturals, FiniteSets

CONSTANT Projects  \* the projects in which `phite dev' is started

\* Real directories, after links are resolved.  "root" is the project's own.
Directory == {"root", "public", "web", "other", "outside"}

\* What a name is: a directory (itself, or by a link), or none.
Nowhere == {"absent", "dangling", "file", "denied"}

\* What index.php is: "special" is a directory or a pipe, and a regular file
\* lies in the directory itself or, by a link, "elsewhere" in the project.
Index == {"absent", "dangling", "special", "denied",
          "here", "elsewhere", "outside"}

\* phite.yaml: not there, with a schema only, with a document_root, or one of
\* the ways it is wrong ("escaping": a link out of the project).
BadConfiguration == {"dangling", "escaping", "special", "large", "malformed",
                     "several", "unversioned", "future"}

\* A document_root: wrong as text, leaving the project as text, or a path.
Declared == {"unclean", "climbing", "root", "public", "other"}

\* On Windows a path below a file is one that is not there; elsewhere it is
\* an error of its own.
Project ==
    [windows : BOOLEAN,
     yaml : {"absent", "schema", "rooted"} \union BadConfiguration,
     declared : Declared,
     at : [{"public", "web", "other"} -> Directory \union Nowhere],
     index : [Directory -> Index]]

ASSUME DiscoveryAssumption == Projects \subseteq Project

----------------------------------------------------------------------------
\* The directory that a path within the project leads to, if any.
evalSymlinks(t, name) == IF name = "root" THEN "root" ELSE t.at[name]

\* Mistake: only what is written is held against the project's directory.
pathWithinAsWritten(root, candidate) == TRUE

pathWithin(root, candidate) ==
    CASE root = "root" -> candidate # "outside"
      [] OTHER -> candidate = root

\* os.Stat of index.php under a name: is it there, and if not, does
\* os.IsNotExist hold of the error?
statIndex(t, name) ==
    LET directory == evalSymlinks(t, name) IN
    CASE directory \in {"absent", "dangling"} -> "missing"
      [] directory = "file" -> IF t.windows THEN "missing" ELSE "error"
      [] directory = "denied" -> "error"
      [] OTHER -> CASE t.index[directory] \in {"absent", "dangling"} -> "missing"
                    [] t.index[directory] = "denied" -> "error"
                    [] OTHER -> "there"

\* A regular index.php whose real path is within the directory.
validateEntrypoint(t, directory) ==
    CASE t.index[directory] = "here" -> TRUE
      [] t.index[directory] = "elsewhere" -> pathWithin(directory, "root")
      [] OTHER -> FALSE

\* Mistake: a phite.yaml that is a dangling link counts as no phite.yaml.
readProjectConfigurationByStat(t) ==
    CASE t.yaml \in {"absent", "dangling"} -> "none"
      [] t.yaml \in BadConfiguration -> "invalid"
      [] OTHER -> t.yaml

\* phite.yaml is looked for with Lstat, and must be a small regular file of
\* the project with one document of schema 1.
readProjectConfiguration(t) ==
    CASE t.yaml = "absent" -> "none"
      [] t.yaml \in BadConfiguration -> "invalid"
      [] OTHER -> t.yaml

discoverConfiguredProject(t) ==
    LET directory == evalSymlinks(t, t.declared) IN
    IF /\ t.declared \notin {"unclean", "climbing"}
       /\ directory \in Directory
       /\ pathWithin("root", directory)
       /\ validateEntrypoint(t, directory)
    THEN directory ELSE "invalid"

\* Mistake: a candidate that is not there ends the search.
UnusableWhenMissing(t, name) ==
    \/ statIndex(t, name) # "there"
    \/ ~ pathWithin("root", evalSymlinks(t, name))
    \/ ~ validateEntrypoint(t, evalSymlinks(t, name))

\* A candidate that is there and cannot be used ends the search.
Unusable(t, name) ==
    \/ statIndex(t, name) = "error"
    \/ /\ statIndex(t, name) = "there"
       /\ \/ ~ pathWithin("root", evalSymlinks(t, name))
          \/ ~ validateEntrypoint(t, evalSymlinks(t, name))

Candidate == {"public", "web", "root"}

\* Mistake: the first candidate that is found is taken.
discoverFirst(t) ==
    LET matches == {c \in Candidate : statIndex(t, c) = "there"} IN
    CASE \E c \in Candidate : Unusable(t, c) -> "invalid"
      [] matches = {} -> "missing"
      [] OTHER -> evalSymlinks(t, CHOOSE c \in matches : TRUE)

discoverConventionalProject(t) ==
    LET matches == {c \in Candidate : statIndex(t, c) = "there"} IN
    CASE \E c \in Candidate : Unusable(t, c) -> "invalid"
      [] matches = {} -> "missing"
      [] Cardinality(matches) > 1 -> "ambiguous"
      [] OTHER -> evalSymlinks(t, CHOOSE c \in matches : TRUE)

\* The real Document Root, or why there is none.
discoverProject(t) ==
    CASE readProjectConfiguration(t) = "invalid" -> "invalid"
      [] readProjectConfiguration(t) = "rooted" -> discoverConfiguredProject(t)
      [] OTHER -> discoverConventionalProject(t)

----------------------------------------------------------------------------
VARIABLES
    project,  \* what the project's directory holds
    outcome   \* the Document Root, the kind of error, or "none" before

vars == <<project, outcome>>

Init ==
    /\ project \in Projects
    /\ outcome = "none"

Discover ==
    /\ outcome = "none"
    /\ outcome' = discoverProject(project)
    /\ UNCHANGED project

Next == Discover

Spec == Init /\ [][Next]_vars

----------------------------------------------------------------------------
(***************************************************************************)
(* Properties.                                                             *)
(***************************************************************************)
Found == outcome \in Directory

\* The paths of the documentation that lead to an index.php, whatever it is
\* and wherever it lies.
Leads(name) ==
    /\ evalSymlinks(project, name) \in Directory
    /\ project.index[evalSymlinks(project, name)] \notin {"absent", "dangling"}

\* What is served lies in the project after links are resolved, and so does
\* the Entrypoint in its Document Root.
ServedIsContained ==
    Found => /\ outcome # "outside"
             /\ \/ project.index[outcome] = "here"
                \/ project.index[outcome] = "elsewhere" /\ outcome = "root"

\* With no document_root the Document Root is that of the only conventional
\* path there is: no path is preferred silently, not even over one that
\* cannot be used.
ServedIsOnlyEntrypoint ==
    Found /\ project.yaml # "rooted"
        => \E c \in Candidate :
              /\ outcome = evalSymlinks(project, c)
              /\ \A d \in Candidate : Leads(d) => d = c

\* A phite.yaml that is there is obeyed or is an error: it is never passed
\* over for the conventions.
ConfigurationIsObeyed ==
    outcome # "none" /\ project.yaml # "absent" =>
        /\ project.yaml \in BadConfiguration => outcome = "invalid"
        /\ Found /\ project.yaml = "rooted" =>
              /\ project.declared \notin {"unclean", "climbing"}
              /\ outcome = evalSymlinks(project, project.declared)

\* With no document_root, a project in which exactly one of the three paths
\* leads to an index.php, a regular file within its Document Root, is
\* served.
OneEntrypointIsServed ==
    \A c \in Candidate :
        /\ outcome # "none"
        /\ project.yaml \in {"absent", "schema"}
        /\ \A d \in Candidate : /\ evalSymlinks(project, d) # "denied"
                                /\ Leads(d) => d = c
        /\ Leads(c)
        /\ evalSymlinks(project, c) # "outside"
        /\ project.index[evalSymlinks(project, c)] = "here"
        => outcome = evalSymlinks(project, c)

\* The same, when no name of a directory is given to a file, or on Windows.
OneEntrypointIsServedUnlessFile ==
    project.windows \/ (\A d \in Candidate : evalSymlinks(project, d) # "file")
        => OneEntrypointIsServed
=============================================================================

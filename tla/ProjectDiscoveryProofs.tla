----------------------- MODULE ProjectDiscoveryProofs -----------------------
(***************************************************************************)
(* Proofs about ProjectDiscovery, for every set of projects and on every   *)
(* system: what is served is contained, it is the only Entrypoint there    *)
(* is, and a phite.yaml is obeyed.                                         *)
(***************************************************************************)
EXTENDS ProjectDiscovery, FiniteSetTheorems, TLAPS

\* The conventional candidates that os.Stat finds.
Matches(t) == {c \in Candidate : statIndex(t, c) = "there"}

\* Each of the three candidates is a name with a place of its own.
LEMMA CandidatePlace ==
  ASSUME NEW t \in Project, NEW c \in Candidate
  PROVE  evalSymlinks(t, c) \in Directory \union Nowhere
  BY DEF Candidate, evalSymlinks, Project, Directory, Nowhere

\* os.Stat finds an index.php exactly where the path leads to one that may
\* be looked at, when the directory may be.
LEMMA StatFinds ==
  ASSUME NEW t \in Project, NEW c \in Candidate
  PROVE  /\ statIndex(t, c) = "there"
              <=> /\ evalSymlinks(t, c) \in Directory
                  /\ t.index[evalSymlinks(t, c)]
                         \notin {"absent", "dangling", "denied"}
         /\ evalSymlinks(t, c) \in Directory
              /\ t.index[evalSymlinks(t, c)] = "denied"
              => statIndex(t, c) = "error"
  BY CandidatePlace DEF statIndex, Directory, Nowhere

\* The convention finds a root only as the root of the one match, and of the
\* candidates none is unusable.
LEMMA ConventionFinds ==
  ASSUME NEW t \in Project,
         discoverConventionalProject(t) \in Directory
  PROVE  \E c \in Candidate :
            /\ Matches(t) = {c}
            /\ discoverConventionalProject(t) = evalSymlinks(t, c)
            /\ \A d \in Candidate : ~ Unusable(t, d)
<1> DEFINE M == Matches(t)
           found == discoverConventionalProject(t)
<1>1. /\ ~ \E c \in Candidate : Unusable(t, c)
      /\ M # {}
      /\ ~ Cardinality(M) > 1
      /\ found = evalSymlinks(t, CHOOSE c \in M : TRUE)
  BY DEF discoverConventionalProject, Matches, Directory
<1>2. IsFiniteSet(Candidate)
  <2>1. IsFiniteSet({"public"}) /\ IsFiniteSet({"web"}) /\ IsFiniteSet({"root"})
    BY FS_Singleton
  <2>2. IsFiniteSet(({"public"} \union {"web"}) \union {"root"})
    BY <2>1, FS_Union
  <2>3. Candidate = ({"public"} \union {"web"}) \union {"root"}
    BY DEF Candidate
  <2> QED BY <2>2, <2>3
<1>3. IsFiniteSet(M)
  BY <1>2, FS_Subset, M \subseteq Candidate DEF Matches
<1>4. Cardinality(M) \in Nat /\ Cardinality(M) # 0
  BY <1>1, <1>3, FS_CardinalityType, FS_EmptySet
<1>5. Cardinality(M) = 1
  BY <1>1, <1>4
<1>6. PICK c : M = {c}
  BY <1>3, <1>5, FS_Singleton
<1>7. c \in Candidate
  BY <1>6 DEF Matches
<1>8. (CHOOSE d \in M : TRUE) = c
  BY <1>6
<1> QED BY <1>1, <1>6, <1>7, <1>8

\* A candidate that leads to no index.php is missing, unless something on the
\* way may not be looked at.
LEMMA StatMisses ==
  ASSUME NEW t \in Project, NEW c \in Candidate,
         evalSymlinks(t, c) # "denied",
         t.windows \/ evalSymlinks(t, c) # "file",
         evalSymlinks(t, c) \in Directory
            => t.index[evalSymlinks(t, c)] \in {"absent", "dangling"}
  PROVE  statIndex(t, c) = "missing"
  BY CandidatePlace DEF statIndex, Directory, Nowhere

\* The converse of ConventionFinds: a candidate that is found and usable,
\* while the others are missing, is served.
LEMMA ConventionServes ==
  ASSUME NEW t \in Project, NEW c \in Candidate,
         statIndex(t, c) = "there", ~ Unusable(t, c),
         \A d \in Candidate \ {c} : statIndex(t, d) = "missing"
  PROVE  discoverConventionalProject(t) = evalSymlinks(t, c)
<1>1. Matches(t) = {c}
  BY DEF Matches
<1>2. ~ \E d \in Candidate : Unusable(t, d)
  BY DEF Unusable
<1>3. Matches(t) # {} /\ ~ Cardinality(Matches(t)) > 1
  BY <1>1, FS_Singleton
<1>4. (CHOOSE d \in Matches(t) : TRUE) = c
  BY <1>1
<1> QED BY <1>2, <1>3, <1>4 DEF discoverConventionalProject, Matches

\* What discoverProject finds, by either way, is a directory of the project
\* whose index.php validateEntrypoint has accepted.
LEMMA FoundIsAccepted ==
  ASSUME NEW t \in Project, discoverProject(t) \in Directory
  PROVE  /\ discoverProject(t) # "outside"
         /\ validateEntrypoint(t, discoverProject(t))
<1>1. CASE discoverProject(t) = discoverConventionalProject(t)
  <2>1. PICK c \in Candidate :
           /\ Matches(t) = {c}
           /\ discoverConventionalProject(t) = evalSymlinks(t, c)
           /\ ~ Unusable(t, c)
    BY <1>1, ConventionFinds
  <2>2. statIndex(t, c) = "there"
    BY <2>1 DEF Matches
  <2>3. pathWithin("root", evalSymlinks(t, c))
    BY <2>1, <2>2 DEF Unusable
  <2>4. validateEntrypoint(t, evalSymlinks(t, c))
    BY <2>1, <2>2 DEF Unusable
  <2> QED BY <1>1, <2>1, <2>3, <2>4 DEF pathWithin
<1>2. CASE discoverProject(t) = discoverConfiguredProject(t)
  BY <1>2 DEF discoverConfiguredProject, pathWithin, Directory
<1>3. CASE discoverProject(t) = "invalid"
  BY <1>3 DEF Directory
<1> QED BY <1>1, <1>2, <1>3 DEF discoverProject

----------------------------------------------------------------------------
\* The outcome, once there is one, is that of discoverProject.
Outcome == outcome = "none" \/ outcome = discoverProject(project)

Decided == project \in Project /\ Outcome

\* The outcome never is anything but the decision on the project.
LEMMA DecidedAlways == Spec => []Decided
<1>1. Init => Decided
  BY DiscoveryAssumption DEF Init, Decided, Outcome
<1>2. Decided /\ [Next]_vars => Decided'
  BY DEF Decided, Outcome, Next, Discover, vars
<1> QED BY <1>1, <1>2, PTL DEF Spec

\* Containment: the Document Root lies in the project after links are
\* resolved, and the Entrypoint in the Document Root.
THEOREM ServedStaysContained == Spec => []ServedIsContained
<1>1. Decided => ServedIsContained
  <2> SUFFICES ASSUME Decided, Found PROVE ServedIsContained
    BY DEF ServedIsContained
  <2>1. outcome = discoverProject(project) /\ project \in Project
    BY DEF Decided, Outcome, Found, Directory
  <2>2. outcome # "outside" /\ validateEntrypoint(project, outcome)
    BY <2>1, FoundIsAccepted DEF Found
  <2>3. outcome \in Directory
    BY DEF Found
  <2> QED BY <2>2, <2>3
          DEF ServedIsContained, validateEntrypoint, pathWithin, Directory
<1> QED BY <1>1, DecidedAlways, PTL

\* No preference: what the conventions serve is the only one of the three
\* paths that leads to an index.php, usable or not.
THEOREM ServedIsOnlyEntrypointAlways == Spec => []ServedIsOnlyEntrypoint
<1>1. Decided => ServedIsOnlyEntrypoint
  <2> SUFFICES ASSUME Decided, Found, project.yaml # "rooted"
               PROVE  \E c \in Candidate :
                         /\ outcome = evalSymlinks(project, c)
                         /\ \A d \in Candidate : Leads(d) => d = c
    BY DEF ServedIsOnlyEntrypoint
  <2>1. outcome = discoverProject(project) /\ project \in Project
    BY DEF Decided, Outcome, Found, Directory
  <2>2. outcome = discoverConventionalProject(project)
    BY <2>1 DEF discoverProject, readProjectConfiguration, Found, Directory
  <2>3. PICK c \in Candidate :
           /\ Matches(project) = {c}
           /\ outcome = evalSymlinks(project, c)
           /\ \A d \in Candidate : ~ Unusable(project, d)
    BY <2>1, <2>2, ConventionFinds DEF Found
  <2>4. ASSUME NEW d \in Candidate, Leads(d) PROVE d = c
    <3>1. statIndex(project, d) \in {"there", "error"}
      BY <2>1, <2>4, StatFinds DEF Leads
    <3>2. statIndex(project, d) # "error"
      BY <2>3 DEF Unusable
    <3> QED BY <2>3, <3>1, <3>2 DEF Matches
  <2> QED BY <2>3, <2>4
<1> QED BY <1>1, DecidedAlways, PTL

\* A phite.yaml that is there decides: wrong, it ends the search, and with a
\* document_root, what is served is where that leads.
THEOREM ConfigurationIsObeyedAlways == Spec => []ConfigurationIsObeyed
<1>1. Decided => ConfigurationIsObeyed
  <2> SUFFICES ASSUME Decided, outcome # "none", project.yaml # "absent"
               PROVE  /\ project.yaml \in BadConfiguration
                            => outcome = "invalid"
                      /\ Found /\ project.yaml = "rooted" =>
                            /\ project.declared \notin {"unclean", "climbing"}
                            /\ outcome = evalSymlinks(project, project.declared)
    BY DEF ConfigurationIsObeyed
  <2>1. outcome = discoverProject(project)
    BY DEF Decided, Outcome
  <2>2. project.yaml \in BadConfiguration => outcome = "invalid"
    BY <2>1 DEF discoverProject, readProjectConfiguration
  <2>3. ASSUME Found, project.yaml = "rooted"
        PROVE  /\ project.declared \notin {"unclean", "climbing"}
               /\ outcome = evalSymlinks(project, project.declared)
    <3>1. outcome = discoverConfiguredProject(project)
      BY <2>1, <2>3 DEF discoverProject, readProjectConfiguration,
                        BadConfiguration
    <3> QED BY <2>3, <3>1 DEF discoverConfiguredProject, Found, Directory
  <2> QED BY <2>2, <2>3
<1> QED BY <1>1, DecidedAlways, PTL

\* Completeness of the conventions: a project with one Entrypoint that is all
\* right is served, whatever else lies under the other two names, but for a
\* file where Unix looks for a directory.
THEOREM OneEntrypointIsServedAlways == Spec => []OneEntrypointIsServedUnlessFile
<1>1. Decided => OneEntrypointIsServedUnlessFile
  <2> SUFFICES
        ASSUME Decided,
               project.windows
                  \/ \A d \in Candidate : evalSymlinks(project, d) # "file",
               NEW c \in Candidate,
               outcome # "none",
               project.yaml \in {"absent", "schema"},
               \A d \in Candidate : /\ evalSymlinks(project, d) # "denied"
                                    /\ Leads(d) => d = c,
               Leads(c),
               evalSymlinks(project, c) # "outside",
               project.index[evalSymlinks(project, c)] = "here"
        PROVE  outcome = evalSymlinks(project, c)
    BY DEF OneEntrypointIsServedUnlessFile, OneEntrypointIsServed
  <2>1. project \in Project /\ outcome = discoverConventionalProject(project)
    BY DEF Decided, Outcome, discoverProject, readProjectConfiguration,
           BadConfiguration
  <2>2. statIndex(project, c) = "there"
    BY <2>1, StatFinds DEF Leads
  <2>3. ~ Unusable(project, c)
    BY <2>2 DEF Unusable, pathWithin, validateEntrypoint
  <2>4. \A d \in Candidate \ {c} : statIndex(project, d) = "missing"
    BY <2>1, StatMisses DEF Leads
  <2> QED
    BY <2>1, <2>2, <2>3, <2>4, ConventionServes
<1> QED BY <1>1, DecidedAlways, PTL
=============================================================================

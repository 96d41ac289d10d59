------------------------ MODULE ReleaseAssemblyProofs ------------------------
(***************************************************************************)
(* Proofs about ReleaseAssembly, for both producers, all recipes, and any  *)
(* number of runs and downloads: SHA256SUMS is a record of a whole         *)
(* release, and an altered artifact leaves no trace.                       *)
(***************************************************************************)
EXTENDS ReleaseAssembly, FiniteSetTheorems, TLAPS

----------------------------------------------------------------------------
(***************************************************************************)
(* The inductive invariant.                                                *)
(***************************************************************************)

\* The steps after one of the facts of the run has been established.
Digested == {"createSums", "writeSums", "done"}
Described == {"hashAssets"} \union Digested
Noted == {"createManifest", "writeManifest"} \union Described
Copied == {"createNotices", "writeNotices", "hashNotices"} \union Noted
Hashed == {"createArtifact", "copyArtifact"} \union Copied
              \union IF kind = "composer" THEN {"collect"} ELSE {}

\* Of the types, what the proofs need: where things are, and that neither
\* the artifact nor the bundle is taken for a list of checksums.
Types ==
    /\ kind \in Kinds
    /\ pc \in Rest \union {"validate", "hash", "collect"} \union Hashed
    /\ recipe \in Recipes
    /\ place \in Places
    /\ source \in Plain \union {Absent}
    /\ DOMAIN output = Asset
    /\ ~ IsA("sums", bundle)
    /\ disturbed \in BOOLEAN
    /\ doubtful \in BOOLEAN
    /\ runs \in 0 .. MaxRuns
    /\ supplies \in 0 .. MaxSupplies

\* Past "validate" there is nothing that validateRecipe refuses.
Validated ==
    pc \notin {"idle", "refused", "validate"}
        => recipe.defects \intersect Refused = {}

\* An artifact that is none of the files of the run stays the pinned one
\* until the end, when nobody downloads another.
PinnedHeld ==
    pc \in Hashed /\ ~ disturbed /\ place \notin Written(recipe)
        => ArtifactFile = Bytes(recipe.pinned)

\* Whatever is copied as the artifact, it is no list of checksums: it had the
\* pinned checksum, or was downloaded since, or was truncated.
CopiesArtifact ==
    pc \in Hashed \ Copied => ArtifactFile \in Plain \union {Partial}

\* What has been written so far, of a run with four different names that
\* nobody disturbs.
RunFollows ==
    Sound(recipe, place) /\ ~ disturbed =>
        /\ pc \in Copied => output[recipe.artifact] = Bytes(recipe.pinned)
        /\ pc \in Noted => notices = output[recipe.notices]
        /\ pc \in Described => output["manifest"] = Manifest(recipe, notices)
        /\ pc \in Digested =>
              digests = [n \in {recipe.artifact, "manifest", recipe.notices}
                           |-> output[n]]
        /\ pc = "done" => output["sums"] = Sums(digests)

\* SHA256SUMS, whoever has changed the other files since, lists the assets
\* of one release.
SumsListRelease ==
    IsA("sums", output["sums"]) /\ ~ doubtful =>
        \E r \in Recipes :
            LET lines == output["sums"][2] IN
            /\ DOMAIN lines = {r.artifact, "manifest", r.notices}
            /\ lines[r.artifact] = Bytes(r.pinned)
            /\ lines["manifest"] = Manifest(r, lines[r.notices])

IInv ==
    /\ Types /\ Validated /\ PinnedHeld /\ CopiesArtifact /\ RunFollows
    /\ SumsListRelease

----------------------------------------------------------------------------
(***************************************************************************)
(* Lemmas about the operators of the model.                                *)
(***************************************************************************)

\* The constants: a recipe names two assets, and a place is one or "apart".
LEMMA RecipeShape ==
    ASSUME NEW r \in Recipes
    PROVE  /\ r.artifact \in Asset /\ r.notices \in Asset
           /\ r.pinned \in Versions
           /\ Written(r) \subseteq Asset
           /\ "apart" \notin Written(r)
  BY ReleaseAssumption DEF Recipe, Asset, Written

\* Three names are not four.
LEMMA AtMostThree ==
    ASSUME NEW a, NEW b, NEW c
    PROVE  Cardinality({a, b, c}) # 4
  <1>1. /\ IsFiniteSet({a}) /\ Cardinality({a}) = 1
    BY FS_Singleton
  <1>2. {a, b} = {a} \union {b} /\ {a, b, c} = {a, b} \union {c}
    OBVIOUS
  <1>3. IsFiniteSet({a, b}) /\ Cardinality({a, b}) \in {1, 2}
    BY <1>1, <1>2, FS_AddElement
  <1>4. Cardinality({a, b, c}) \in {1, 2, 3}
    BY <1>2, <1>3, FS_AddElement
  <1> QED
    BY <1>4

\* The four files of a sound recipe do not meet.
LEMMA SoundNames ==
    ASSUME NEW r, NEW at, Sound(r, at)
    PROVE  /\ r.artifact # r.notices
           /\ r.artifact \notin {"manifest", "sums"}
           /\ r.notices \notin {"manifest", "sums"}
           /\ at \notin Written(r)
  <1>1. Cardinality({r.artifact, r.notices, "manifest", "sums"}) = 4
    BY DEF Sound, Written
  <1>2. r.artifact # r.notices
    <2> SUFFICES ASSUME r.artifact = r.notices PROVE FALSE
      OBVIOUS
    <2>1. {r.artifact, r.notices, "manifest", "sums"}
              = {r.notices, "manifest", "sums"}
      OBVIOUS
    <2> QED
      BY <1>1, <2>1, AtMostThree
  <1>3. r.artifact \notin {"manifest", "sums"}
    <2> SUFFICES ASSUME r.artifact \in {"manifest", "sums"} PROVE FALSE
      OBVIOUS
    <2>1. {r.artifact, r.notices, "manifest", "sums"}
              = {r.notices, "manifest", "sums"}
      OBVIOUS
    <2> QED
      BY <1>1, <2>1, AtMostThree
  <1>4. r.notices \notin {"manifest", "sums"}
    <2> SUFFICES ASSUME r.notices \in {"manifest", "sums"} PROVE FALSE
      OBVIOUS
    <2>1. {r.artifact, r.notices, "manifest", "sums"}
              = {r.artifact, "manifest", "sums"}
      OBVIOUS
    <2>2. Cardinality({r.artifact, "manifest", "sums"}) # 4
      BY AtMostThree
    <2> QED
      BY <1>1, <2>1, <2>2
  <1> QED
    BY <1>2, <1>3, <1>4 DEF Sound

\* The order of Assemble, step by step.
LEMMA StepOrder ==
    ASSUME NEW from, Step(from), kind \in {"runtime", "composer"}
    PROVE  /\ pc = from
           /\ from = "validate" =>
                 pc' = IF kind = "runtime" THEN "collect" ELSE "hash"
           /\ from = "collect" =>
                 pc' = IF kind = "runtime" THEN "hash" ELSE "createArtifact"
           /\ from = "hash" =>
                 pc' = IF kind = "runtime" THEN "createArtifact" ELSE "collect"
           /\ from = "createArtifact" => pc' = "copyArtifact"
           /\ from = "copyArtifact" => pc' = "createNotices"
           /\ from = "createNotices" => pc' = "writeNotices"
           /\ from = "writeNotices" => pc' = "hashNotices"
           /\ from = "hashNotices" => pc' = "createManifest"
           /\ from = "createManifest" => pc' = "writeManifest"
           /\ from = "writeManifest" => pc' = "hashAssets"
           /\ from = "hashAssets" => pc' = "createSums"
           /\ from = "createSums" => pc' = "writeSums"
           /\ from = "writeSums" => pc' = "done"
  <1>1. CASE kind = "runtime"
    BY <1>1 DEF Step, Order, Checks
  <1>2. CASE kind = "composer"
    BY <1>2 DEF Step, Order, Checks
  <1> QED
    BY <1>1, <1>2

\* The types are kept.
LEMMA TypesStep == IInv /\ [Next]_vars => Types'
  <1> SUFFICES ASSUME IInv, [Next]_vars PROVE Types'
    OBVIOUS
  <1>a. kind \in {"runtime", "composer"}
    BY ReleaseAssumption DEF IInv, Types
  <1> USE <1>a, StepOrder, ReleaseAssumption DEF IInv, counters, Types, Rest,
          Hashed, Copied, Noted, Described, Digested, Plain, IsA, Asset,
          Absent, Bytes, Bundle
  <1>1. ASSUME NEW r \in Recipes, NEW at \in Places, Begin(r, at)
       PROVE  Types'
    <2>1. runs' \in 0 .. MaxRuns /\ pc' = "validate"
      BY <1>1 DEF Begin
    <2>2. ~ IsA("sums", bundle')
      BY <1>1 DEF Begin
    <2>3. /\ recipe' = r /\ place' = at /\ disturbed' = FALSE
          /\ UNCHANGED <<kind, source, output, doubtful, supplies>>
      BY <1>1 DEF Begin
    <2> QED
      BY <2>1, <2>2, <2>3
  <1>2. CASE Validate \/ CollectRuntime \/ CollectComposer \/ Hash \/
              HashNotices \/ HashAssets
    BY <1>2 DEF Validate, Stop, CollectRuntime, CollectComposer, Hash,
       HashNotices, HashAssets
  <1>3. CASE CopyArtifact \/ WriteNotices \/ WriteManifest \/ WriteSums
    BY <1>3 DEF CopyArtifact, Create, Fill, WriteNotices, WriteManifest,
       WriteSums
  <1>4. CASE Fail \/ UNCHANGED vars
    BY <1>4 DEF Fail, vars
  <1>5. ASSUME NEW at \in Places, NEW v \in Versions, Supply(at, v)
       PROVE  Types'
    BY <1>5 DEF Supply
  <1> QED
    BY <1>1, <1>2, <1>3, <1>4, <1>5 DEF Next, AssembleStep

\* Nothing gets past "validate" that is refused there.
LEMMA ValidatedStep == IInv /\ [Next]_vars => Validated'
  <1> SUFFICES ASSUME IInv, [Next]_vars PROVE Validated'
    OBVIOUS
  <1>a. kind \in {"runtime", "composer"}
    BY ReleaseAssumption DEF IInv, Types
  <1> USE <1>a, StepOrder, ReleaseAssumption DEF IInv, counters, Types,
          Validated, Rest, Hashed, Copied, Noted, Described, Digested,
          Refused
  <1>1. ASSUME NEW r \in Recipes, NEW at \in Places, Begin(r, at)
       PROVE  Validated'
    BY <1>1 DEF Begin
  <1>2. CASE Validate
    BY <1>2 DEF Validate, Stop
  <1>3. CASE CollectRuntime \/ CollectComposer \/ Hash
    BY <1>3 DEF CollectRuntime, Stop, CollectComposer, Hash
  <1>4. CASE CopyArtifact \/ WriteNotices \/ HashNotices \/ WriteManifest \/
              HashAssets \/ WriteSums
    BY <1>4 DEF CopyArtifact, Create, Fill, WriteNotices, HashNotices,
       WriteManifest, HashAssets, WriteSums
  <1>5. ASSUME Fail \/ (\E at \in Places, v \in Versions : Supply(at, v)) \/
              UNCHANGED vars
       PROVE  Validated'
    BY <1>5 DEF Fail, Supply, vars
  <1> QED
    BY <1>1, <1>2, <1>3, <1>4, <1>5 DEF Next, AssembleStep

\* The files of the run are not the artifact.
LEMMA PinnedStep == IInv /\ [Next]_vars => PinnedHeld'
  <1> SUFFICES ASSUME IInv, [Next]_vars PROVE PinnedHeld'
    OBVIOUS
  <1>a. kind \in {"runtime", "composer"}
    BY ReleaseAssumption DEF IInv, Types
  <1>b. /\ recipe.artifact \in Asset /\ recipe.notices \in Asset
        /\ recipe.pinned \in Versions /\ Written(recipe) \subseteq Asset
        /\ "apart" \notin Written(recipe)
    BY RecipeShape DEF IInv, Types
  <1> USE <1>a, <1>b, StepOrder, ReleaseAssumption DEF IInv, counters, Types,
          PinnedHeld, Rest, ArtifactFile, Written, Hashed, Copied, Noted,
          Described, Digested
  <1>1. ASSUME NEW r \in Recipes, NEW at \in Places, Begin(r, at)
       PROVE  PinnedHeld'
    BY <1>1 DEF Begin
  <1>2. CASE Validate \/ CollectRuntime \/ CollectComposer
    BY <1>2 DEF Validate, Stop, CollectRuntime, CollectComposer
  <1>3. CASE Hash
    BY <1>3 DEF Hash, Stop
  <1>4. CASE CopyArtifact \/ WriteNotices \/ WriteManifest \/ WriteSums
    BY <1>4 DEF CopyArtifact, Create, Fill, WriteNotices, WriteManifest,
       WriteSums
  <1>5. CASE HashNotices \/ HashAssets \/ Fail \/ UNCHANGED vars
    BY <1>5 DEF HashNotices, HashAssets, Fail, vars
  <1>6. ASSUME NEW at \in Places, NEW v \in Versions, Supply(at, v)
       PROVE  PinnedHeld'
    BY <1>6 DEF Supply
  <1> QED
    BY <1>1, <1>2, <1>3, <1>4, <1>5, <1>6 DEF Next, AssembleStep

\* What is copied had the pinned checksum, was supplied since, or was
\* truncated.
LEMMA CopiesStep == IInv /\ [Next]_vars => CopiesArtifact'
  <1> SUFFICES ASSUME IInv, [Next]_vars PROVE CopiesArtifact'
    OBVIOUS
  <1>a. kind \in {"runtime", "composer"}
    BY ReleaseAssumption DEF IInv, Types
  <1>b. /\ recipe.artifact \in Asset /\ recipe.notices \in Asset
        /\ recipe.pinned \in Versions /\ Written(recipe) \subseteq Asset
        /\ "apart" \notin Written(recipe)
    BY RecipeShape DEF IInv, Types
  <1> USE <1>a, <1>b, StepOrder, ReleaseAssumption DEF IInv, counters, Types,
          CopiesArtifact, ArtifactFile, Plain, Rest, Hashed, Copied, Noted,
          Described, Digested
  <1>1. ASSUME NEW r \in Recipes, NEW at \in Places, Begin(r, at)
       PROVE  CopiesArtifact'
    BY <1>1 DEF Begin
  <1>2. CASE Validate \/ CollectRuntime \/ CollectComposer
    BY <1>2 DEF Validate, Stop, CollectRuntime, CollectComposer
  <1>3. CASE Hash
    BY <1>3 DEF Hash, Stop
  <1>4. CASE CopyArtifact
    BY <1>4 DEF CopyArtifact, Create, Fill
  <1>5. CASE WriteNotices \/ HashNotices \/ WriteManifest \/ HashAssets \/
              WriteSums
    BY <1>5 DEF WriteNotices, Create, Fill, HashNotices, WriteManifest,
       HashAssets, WriteSums
  <1>6. CASE Fail \/ UNCHANGED vars
    BY <1>6 DEF Fail, vars
  <1>7. ASSUME NEW at \in Places, NEW v \in Versions, Supply(at, v)
       PROVE  CopiesArtifact'
    BY <1>7 DEF Supply
  <1> QED
    BY <1>1, <1>2, <1>3, <1>4, <1>5, <1>6, <1>7 DEF Next, AssembleStep

\* Later steps of a sound run leave alone what it has written.
LEMMA FollowsStep == IInv /\ [Next]_vars => RunFollows'
  <1> SUFFICES ASSUME IInv, [Next]_vars PROVE RunFollows'
    OBVIOUS
  <1>a. kind \in {"runtime", "composer"}
    BY ReleaseAssumption DEF IInv, Types
  <1>b. /\ recipe.artifact \in Asset /\ recipe.notices \in Asset
        /\ recipe.pinned \in Versions /\ Written(recipe) \subseteq Asset
        /\ "apart" \notin Written(recipe)
    BY RecipeShape DEF IInv, Types
  <1>c. Sound(recipe, place)
          => /\ recipe.artifact # recipe.notices
             /\ recipe.artifact \notin {"manifest", "sums"}
             /\ recipe.notices \notin {"manifest", "sums"}
             /\ place \notin Written(recipe)
    BY SoundNames
  <1> USE <1>a, <1>b, <1>c, StepOrder, ReleaseAssumption DEF IInv, counters,
          Types, RunFollows, PinnedHeld, Asset, Rest, Hashed, Copied, Noted,
          Described, Digested
  <1>1. ASSUME NEW r \in Recipes, NEW at \in Places, Begin(r, at)
       PROVE  RunFollows'
    BY <1>1 DEF Begin
  <1>2. CASE Validate \/ CollectRuntime \/ CollectComposer \/ Hash
    BY <1>2 DEF Validate, Stop, CollectRuntime, CollectComposer, Hash
  <1>3. CASE CopyArtifact
    BY <1>3 DEF CopyArtifact, Create, Fill
  <1>4. CASE WriteNotices
    BY <1>4 DEF WriteNotices, Create, Fill
  <1>5. CASE HashNotices
    BY <1>5 DEF HashNotices
  <1>6. CASE WriteManifest
    BY <1>6 DEF WriteManifest, Create, Fill
  <1>7. CASE HashAssets
    BY <1>7 DEF HashAssets
  <1>8. CASE WriteSums
    BY <1>8 DEF WriteSums, Create, Fill
  <1>9. CASE Fail \/ UNCHANGED vars
    BY <1>9 DEF Fail, vars
  <1>10. ASSUME NEW at \in Places, NEW v \in Versions, Supply(at, v)
       PROVE  RunFollows'
    BY <1>10 DEF Supply
  <1> QED
    BY <1>1, <1>2, <1>3, <1>4, <1>5, <1>6, <1>7, <1>8, <1>9, <1>10 DEF Next,
       AssembleStep

\* Only writeChecksums writes a list of checksums, and after a sound run it
\* is one of the run's release.
LEMMA SumsStep == IInv /\ [Next]_vars => SumsListRelease'
  <1> SUFFICES ASSUME IInv, [Next]_vars PROVE SumsListRelease'
    OBVIOUS
  <1>a. kind \in {"runtime", "composer"}
    BY ReleaseAssumption DEF IInv, Types
  <1>b. /\ recipe.artifact \in Asset /\ recipe.notices \in Asset
        /\ recipe.pinned \in Versions /\ Written(recipe) \subseteq Asset
        /\ "apart" \notin Written(recipe)
    BY RecipeShape DEF IInv, Types
  <1>c. Sound(recipe, place)
          => /\ recipe.artifact # recipe.notices
             /\ recipe.artifact \notin {"manifest", "sums"}
             /\ recipe.notices \notin {"manifest", "sums"}
             /\ place \notin Written(recipe)
    BY SoundNames
  <1> USE <1>a, <1>b, <1>c, StepOrder, ReleaseAssumption DEF IInv, counters,
          Types, SumsListRelease, RunFollows, CopiesArtifact, IsA, Plain,
          Bytes, Partial, Absent, Asset, Hashed, Copied, Noted, Described,
          Digested
  <1>1. ASSUME NEW r \in Recipes, NEW at \in Places, Begin(r, at)
       PROVE  SumsListRelease'
    BY <1>1 DEF Begin
  <1>2. CASE Validate \/ CollectRuntime \/ CollectComposer \/ Hash \/
              HashNotices \/ HashAssets \/ Fail \/ UNCHANGED vars
    BY <1>2 DEF Validate, Stop, CollectRuntime, CollectComposer, Hash,
       HashNotices, HashAssets, Fail, vars
  <1>3. CASE CopyArtifact
    BY <1>3 DEF CopyArtifact, Create, Fill
  <1>4. CASE WriteNotices
    BY <1>4 DEF WriteNotices, Create, Fill
  <1>5. CASE WriteManifest
    BY <1>5 DEF WriteManifest, Create, Fill
  <1>6. CASE WriteSums
    <2>1. CASE Create("createSums", "sums")
      BY <2>1 DEF Create
    <2>2. CASE /\ Fill("writeSums", "sums", Sums(digests))
               /\ doubtful' = (disturbed \/ ~ Sound(recipe, place))
      <3> SUFFICES ASSUME ~ doubtful' PROVE SumsListRelease'
        OBVIOUS
      <3>1. output'["sums"] = Sums(digests) /\ recipe' = recipe
        BY <2>2 DEF Fill
      <3>2. /\ digests = [n \in {recipe.artifact, "manifest", recipe.notices}
                            |-> output[n]]
            /\ output["manifest"] = Manifest(recipe, output[recipe.notices])
            /\ output[recipe.artifact] = Bytes(recipe.pinned)
        BY <2>2 DEF Fill
      <3>3. output'["sums"][2] = digests
        BY <3>1 DEF Sums
      <3>4. /\ DOMAIN digests = {recipe.artifact, "manifest", recipe.notices}
            /\ digests[recipe.artifact] = Bytes(recipe.pinned)
            /\ digests["manifest"] = Manifest(recipe, digests[recipe.notices])
        BY <3>2
      <3>5. recipe \in Recipes
        OBVIOUS
      <3> QED
        BY <3>3, <3>4, <3>5
    <2> QED
      BY <1>6, <2>1, <2>2 DEF WriteSums
  <1>7. ASSUME NEW at \in Places, NEW v \in Versions, Supply(at, v)
       PROVE  SumsListRelease'
    BY <1>7 DEF Supply
  <1> QED
    BY <1>1, <1>2, <1>3, <1>4, <1>5, <1>6, <1>7 DEF Next, AssembleStep

----------------------------------------------------------------------------
(***************************************************************************)
(* The theorems.                                                           *)
(***************************************************************************)
\* Before the first run the directory is empty and nothing is promised.
LEMMA InitIInv == Init => IInv
  <1> SUFFICES ASSUME Init PROVE IInv
    OBVIOUS
  <1> USE ReleaseAssumption DEF Init, Rest, Hashed, Copied, Noted, Described,
          Digested
  <1>1. Types
    <2>1. ~ IsA("sums", bundle)
      BY DEF IsA, Absent
    <2>2. runs \in 0 .. MaxRuns /\ supplies \in 0 .. MaxSupplies
      OBVIOUS
    <2>3. pc \in Rest /\ DOMAIN output = Asset
      OBVIOUS
    <2> QED
      BY <2>1, <2>2, <2>3 DEF Types
  <1>2. Validated /\ PinnedHeld /\ CopiesArtifact /\ RunFollows
    BY DEF Validated, PinnedHeld, CopiesArtifact, RunFollows
  <1>3. SumsListRelease
    BY DEF SumsListRelease, IsA, Absent, Asset
  <1> QED
    BY <1>1, <1>2, <1>3 DEF IInv

\* The inductive invariant holds in every reachable state.
LEMMA Invariance == Spec => []IInv
  <1>1. IInv /\ [Next]_vars => IInv'
    BY TypesStep, ValidatedStep, PinnedStep, CopiesStep, FollowsStep, SumsStep
       DEF IInv
  <1> QED
    BY InitIInv, <1>1, PTL DEF Spec

\* A run that succeeds, with four different names and an artifact nobody
\* changes meanwhile, leaves files, manifest and checksums that agree,
\* whatever failed runs of this and of other recipes had left.
THEOREM AssembledAgreesAlways == Spec => []AssembledAgrees
  <1>1. IInv => AssembledAgrees
    <2> SUFFICES ASSUME IInv, pc = "done", Sound(recipe, place), ~ disturbed
                 PROVE  SumsVerify /\ ManifestMatches
      BY DEF AssembledAgrees
    <2>1. /\ output[recipe.artifact] = Bytes(recipe.pinned)
          /\ output["manifest"] = Manifest(recipe, output[recipe.notices])
          /\ output["sums"] = Sums(digests)
          /\ digests = [n \in {recipe.artifact, "manifest", recipe.notices}
                          |-> output[n]]
      BY DEF IInv, RunFollows, Copied, Noted, Described, Digested
    <2>2. SumsVerify
      BY <2>1 DEF SumsVerify, IsA, Sums
    <2>3. ManifestMatches
      BY <2>1 DEF ManifestMatches, IsA, ManifestOf, Manifest
    <2> QED
      BY <2>2, <2>3
  <1> QED
    BY <1>1, Invariance, PTL

\* SHA256SUMS is the commit record of a release: when it verifies, the
\* manifest fits the files as well, whichever run died in between.
THEOREM VerifiedIsReleaseAlways == Spec => []VerifiedIsRelease
  <1>1. IInv => VerifiedIsRelease
    <2> SUFFICES ASSUME IInv, SumsVerify, ~ doubtful PROVE ManifestMatches
      BY DEF VerifiedIsRelease
    <2> DEFINE lines == output["sums"][2]
    <2>1. PICK r \in Recipes :
             /\ DOMAIN lines = {r.artifact, "manifest", r.notices}
             /\ lines[r.artifact] = Bytes(r.pinned)
             /\ lines["manifest"] = Manifest(r, lines[r.notices])
      BY DEF IInv, SumsListRelease, SumsVerify
    <2>2. \A n \in {r.artifact, "manifest", r.notices} : output[n] = lines[n]
      BY <2>1 DEF SumsVerify
    <2> HIDE DEF lines
    <2>3. /\ output["manifest"] = Manifest(r, output[r.notices])
          /\ output[r.artifact] = Bytes(r.pinned)
      BY <2>1, <2>2
    <2> QED
      BY <2>3 DEF ManifestMatches, IsA, ManifestOf, Manifest
  <1> QED
    BY <1>1, Invariance, PTL

\* Whatever the producers publish, phite's manifest readers accept, but for
\* what runtimepack overlooks.
THEOREM PublishedIsAcceptedAlways == Spec => []PublishedIsAccepted
  <1>1. IInv => PublishedIsAccepted
    BY DEF IInv, Validated, PublishedIsAccepted, Overlooked, Refused,
           RefusedByRuntimepack, RefusedByComposerpack, RefusedIdentity,
           NotPortable, Rejected, RejectedNames, RejectedByRuntimeManifest,
           RejectedByComposerManifest
  <1> QED
    BY <1>1, Invariance, PTL

\* An artifact that does not have the pinned checksum leaves no file.
THEOREM AlteredLeavesNoTraceAlways == Spec => AlteredLeavesNoTrace
  <1> DEFINE Step1 == output' # output /\ pc \notin Rest /\ place = "apart"
                        /\ ~ disturbed' => source = Bytes(recipe.pinned)
  <1>1. IInv /\ [Next]_vars => Step1
    <2> SUFFICES ASSUME IInv, [Next]_vars, output' # output, pc \notin Rest,
                        place = "apart", ~ disturbed'
                 PROVE  source = Bytes(recipe.pinned)
      OBVIOUS
    <2>1. CopyArtifact \/ WriteNotices \/ WriteManifest \/ WriteSums
      BY DEF Next, AssembleStep, Begin, Validate, CollectRuntime,
             CollectComposer, Hash, HashNotices, HashAssets, Fail, Supply,
             vars
    <2>2. pc \in Hashed /\ ~ disturbed
      BY <2>1, StepOrder DEF CopyArtifact, WriteNotices, WriteManifest,
             WriteSums, Create, Fill, Step, Hashed, Copied, Noted, Described,
             Digested
    <2>3. place \notin Written(recipe)
      BY RecipeShape DEF IInv, Types
    <2> QED
      BY <2>2, <2>3 DEF IInv, PinnedHeld, ArtifactFile
  <1> QED
    BY <1>1, Invariance, PTL DEF Spec, AlteredLeavesNoTrace
=============================================================================

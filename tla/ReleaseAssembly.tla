-------------------------- MODULE ReleaseAssembly --------------------------
(***************************************************************************)
(* The assembly of a release directory: internal/runtimepack and           *)
(* internal/composerpack copy a pinned artifact into a directory, write    *)
(* the Third-party Notice Bundle, the manifest that phite embeds, and      *)
(* SHA256SUMS.  Nothing is written through a temporary file: a run that    *)
(* fails or dies leaves what it had written, and the next run, for the     *)
(* same recipe or for another, starts from there.                          *)
(*                                                                         *)
(* A file is represented by its content, and so is a digest.  The artifact *)
(* path and the output directory are both given on the command line: the   *)
(* artifact may lie in the output directory.                               *)
(***************************************************************************)
EXTENDS Sequences, FiniteSets, Naturals

CONSTANTS
    Kinds,     \* "runtime" (runtimepack), "composer" (composerpack), or both
    Recipes,   \* the recipes a maintainer assembles
    Places,    \* where the artifact lies: "apart" or a name in the output
    Versions,  \* contents of upstream artifacts
    MaxRuns,   \* bound on the assemblies of a behaviour
    MaxSupplies \* bound on the downloads of an artifact

Asset == {"first", "second", "manifest", "sums"}

\* The ways a recipe departs from a well-formed one that the validations of
\* the producers and of the manifests' readers tell apart.
Defect == {"schema", "blank", "support", "noExtensions", "twinExtensions",
           "directories", "reservedName", "looseID", "plainHTTP",
           "loopbackHTTP", "badDigest", "upperDigest",
           "noNotices", "twinNotice", "unlicensed"}

Recipe == [artifact : Asset, notices : Asset, pinned : Versions,
           bundle : Versions, defects : SUBSET Defect]

ASSUME ReleaseAssumption ==
    /\ Kinds \subseteq {"runtime", "composer"}
    /\ Recipes \subseteq Recipe
    /\ Places \subseteq Asset \union {"apart"}
    /\ MaxRuns \in Nat /\ MaxSupplies \in Nat

VARIABLES
    kind,      \* the producer whose output directory this is
    pc,        \* the step of the current or last run
    recipe,    \* its recipe
    place,     \* where its artifact lies
    source,    \* the artifact file that lies apart
    output,    \* output[n]: what the output directory has under the name n
    bundle,    \* the notice entries the run has collected
    notices,   \* the digest of the notice bundle
    digests,   \* the lines of SHA256SUMS
    disturbed, \* history: somebody changed the artifact file during the run
    doubtful,  \* history: the run that wrote SHA256SUMS was no sound run
    runs,      \* number of assemblies so far
    supplies   \* number of downloads so far

vars == <<kind, pc, recipe, place, source, output, bundle, notices, digests,
          disturbed, doubtful, runs, supplies>>

counters == <<kind, runs, supplies>>

Absent == <<"absent">>
Partial == <<"partial">>    \* created, and not completely written
Bytes(v) == <<"bytes", v>>
Bundle(v, artifact) == <<"bundle", v, artifact>>
Manifest(r, digest) == <<"manifest", r, digest>>
Sums(lines) == <<"sums", lines>>

ManifestOf(file) == file[2]
IsA(tag, file) == file[1] = tag

\* Complete files that are neither manifests nor checksums.
Plain == {Bytes(v) : v \in Versions}

Rest == {"idle", "done", "refused"}

\* The steps that come before the output directory is written to.  runtimepack
\* collects the notices, some of them out of the artifact, before it compares
\* the artifact's checksum.
Checks == IF kind = "runtime" THEN <<"validate", "collect", "hash">>
                              ELSE <<"validate", "hash", "collect">>

\* Mistake: SHA256SUMS is written before the manifest.
OrderSumsFirst ==
    Checks \o <<"createArtifact", "copyArtifact", "createNotices", "writeNotices",
         "hashNotices", "hashAssets", "createSums", "writeSums",
         "createManifest", "writeManifest", "done">>

\* Mistake: the artifact is copied before its checksum is compared.
OrderHashLate ==
    <<"validate", "collect", "createArtifact", "copyArtifact", "hash",
      "createNotices", "writeNotices", "hashNotices", "createManifest",
      "writeManifest", "hashAssets", "createSums", "writeSums", "done">>

\* The order of Assemble.
Order ==
    Checks \o <<"createArtifact", "copyArtifact", "createNotices", "writeNotices",
         "hashNotices", "createManifest", "writeManifest", "hashAssets",
         "createSums", "writeSums", "done">>

Step(from) ==
    /\ pc = from
    /\ \E i \in 1 .. Len(Order) - 1 : Order[i] = from /\ pc' = Order[i + 1]

Stop(from) == pc = from /\ pc' = "refused"

\* The names a recipe makes Assemble write.
Written(r) == {r.artifact, r.notices, "manifest", "sums"}

\* Four different files, and the artifact is not one of them.
Sound(r, at) == Cardinality(Written(r)) = 4 /\ at \notin Written(r)

Init ==
    /\ kind \in Kinds
    /\ pc = "idle"
    /\ recipe \in Recipes
    /\ place \in Places
    /\ source \in Plain \union {Absent}
    /\ output = [n \in Asset |-> Absent]
    /\ bundle = Absent
    /\ notices = Absent
    /\ digests = [n \in {} |-> Absent]
    /\ disturbed = FALSE
    /\ doubtful = FALSE
    /\ runs = 0
    /\ supplies = 0

----------------------------------------------------------------------------
\* What os.Open(artifactPath) opens.
ArtifactFile == IF place = "apart" THEN source ELSE output[place]

\* Names that portable.Name refuses.
NotPortable == {"reservedName", "looseID", "directories"}

\* What validatePortableRecipeIdentity refuses.
RefusedIdentity == NotPortable

\* What validateRecipe refuses: that of runtimepack only looks for
\* directories in a name, and takes a digest in upper case.
RefusedByRuntimepack ==
    {"schema", "blank", "support", "noExtensions", "directories",
     "plainHTTP", "loopbackHTTP", "badDigest", "noNotices"}

RefusedByComposerpack ==
    RefusedIdentity
    \union {"schema", "blank", "badDigest", "upperDigest",
            "plainHTTP", "loopbackHTTP", "noNotices"}

\* Mistake: the names of a recipe are not held against portable.Name.
RefusedNames ==
    IF kind = "runtime" THEN RefusedByRuntimepack
    ELSE RefusedByComposerpack \ {"reservedName", "looseID"}

Refused == IF kind = "runtime" THEN RefusedByRuntimepack
                               ELSE RefusedByComposerpack

\* What collectNoticeEntries refuses: runtimepack passes over a notice file
\* that is listed twice.
Unlicensed == {"unlicensed"}
Uncollected ==
    Unlicensed \union IF kind = "runtime" THEN {} ELSE {"twinNotice"}

\* Names that the Runtime Manifest's reader refuses, by a rule of its own.
RejectedNames == {"reservedName", "looseID", "directories"}

\* What the readers of the manifests in phite refuse.
RejectedByRuntimeManifest ==
    RejectedNames
    \union {"schema", "blank", "support", "noExtensions", "twinExtensions",
            "plainHTTP", "badDigest", "upperDigest"}

RejectedByComposerManifest ==
    NotPortable \union {"schema", "blank", "plainHTTP", "badDigest",
                        "upperDigest"}

Rejected == IF kind = "runtime" THEN RejectedByRuntimeManifest
                                ELSE RejectedByComposerManifest

----------------------------------------------------------------------------
\* A maintainer starts phite-runtime-pack or phite-composer-pack.
Begin(r, at) ==
    /\ pc \in Rest
    /\ runs < MaxRuns
    /\ pc' = "validate"
    /\ runs' = runs + 1
    /\ recipe' = r
    /\ place' = at
    /\ disturbed' = FALSE
    /\ bundle' = Absent
    /\ notices' = Absent
    /\ digests' = [n \in {} |-> Absent]
    /\ UNCHANGED <<kind, source, output, doubtful, supplies>>

Validate ==
    /\ \/ recipe.defects \intersect Refused = {} /\ Step("validate")
       \/ recipe.defects \intersect Refused # {} /\ Stop("validate")
    /\ UNCHANGED <<recipe, place, source, output, bundle, notices, digests,
                   disturbed, doubtful, counters>>

\* The entries, sorted and with a fixed time, are a function of the notice
\* files and of the notices inside the artifact, which must be a ZIP archive
\* that has them ...
CollectRuntime ==
    /\ kind = "runtime"
    /\ \/ /\ recipe.defects \intersect Uncollected = {}
          /\ ArtifactFile \in Plain
          /\ Step("collect")
          /\ bundle' = Bundle(recipe.bundle, ArtifactFile)
       \/ /\ \/ recipe.defects \intersect Uncollected # {}
             \/ ArtifactFile # Bytes(recipe.pinned)
          /\ Stop("collect")
          /\ UNCHANGED bundle
    /\ UNCHANGED <<recipe, place, source, output, notices, digests,
                   disturbed, doubtful, counters>>

\* ... or, for Composer, of the notice files alone.
CollectComposer ==
    /\ kind = "composer"
    /\ \/ /\ recipe.defects \intersect Uncollected = {}
          /\ Step("collect")
          /\ bundle' = Bundle(recipe.bundle, Absent)
       \/ /\ recipe.defects \intersect Uncollected # {}
          /\ Stop("collect")
          /\ UNCHANGED bundle
    /\ UNCHANGED <<recipe, place, source, output, notices, digests,
                   disturbed, doubtful, counters>>

\* Mistake: the digest is computed and not compared.
HashUnread ==
    /\ Step("hash")
    /\ UNCHANGED <<recipe, place, source, output, bundle, notices, digests,
                   disturbed, doubtful, counters>>

\* The checksum of the artifact against the recipe's.
Hash ==
    /\ \/ ArtifactFile = Bytes(recipe.pinned) /\ Step("hash")
       \/ ArtifactFile # Bytes(recipe.pinned) /\ Stop("hash")
    /\ UNCHANGED <<recipe, place, source, output, bundle, notices, digests,
                   disturbed, doubtful, counters>>

\* os.Create, or the opening of os.WriteFile: the file is there, and empty.
Create(step, name) ==
    /\ Step(step)
    /\ output' = [output EXCEPT ![name] = Partial]
    /\ UNCHANGED <<recipe, place, source, bundle, notices, digests,
                   disturbed, doubtful, counters>>

Fill(step, name, content) ==
    /\ Step(step)
    /\ output' = [output EXCEPT ![name] = content]
    /\ UNCHANGED <<recipe, place, source, bundle, notices, digests,
                   disturbed, counters>>

\* copyFile opens the artifact a second time and does not compare again.
\* The destination has been truncated by then, also when it is the source.
CopyArtifact ==
    \/ Create("createArtifact", recipe.artifact)
    \/ /\ Fill("copyArtifact", recipe.artifact, ArtifactFile)
       /\ UNCHANGED doubtful

WriteNotices ==
    \/ Create("createNotices", recipe.notices)
    \/ Fill("writeNotices", recipe.notices, bundle) /\ UNCHANGED doubtful

HashNotices ==
    /\ Step("hashNotices")
    /\ notices' = output[recipe.notices]
    /\ UNCHANGED <<recipe, place, source, output, bundle, digests,
                   disturbed, doubtful, counters>>

\* The manifest has the artifact's digest from the recipe, and the digest of
\* the notice bundle from the file.
WriteManifest ==
    \/ Create("createManifest", "manifest")
    \/ /\ Fill("writeManifest", "manifest", Manifest(recipe, notices))
       /\ UNCHANGED doubtful

\* writeChecksums reads all the assets again before it creates its file.
HashAssets ==
    /\ Step("hashAssets")
    /\ digests' = [n \in {recipe.artifact, "manifest", recipe.notices}
                     |-> output[n]]
    /\ UNCHANGED <<recipe, place, source, output, bundle, notices,
                   disturbed, doubtful, counters>>

WriteSums ==
    \/ Create("createSums", "sums")
    \/ /\ Fill("writeSums", "sums", Sums(digests))
       /\ doubtful' = (disturbed \/ ~ Sound(recipe, place))

\* An error of the file system, or the death of the process, at any step:
\* what has been written stays.
Fail ==
    /\ pc \notin Rest
    /\ pc' = "refused"
    /\ UNCHANGED <<recipe, place, source, output, bundle, notices, digests,
                   disturbed, doubtful, counters>>

\* Somebody downloads an artifact, before a run or in the middle of one.
Supply(at, v) ==
    /\ supplies < MaxSupplies
    /\ IF at = "apart"
       THEN source' = Bytes(v) /\ UNCHANGED output
       ELSE output' = [output EXCEPT ![at] = Bytes(v)] /\ UNCHANGED source
    /\ pc' = IF pc \in Rest THEN "idle" ELSE pc
    /\ disturbed' = TRUE
    /\ supplies' = supplies + 1
    /\ UNCHANGED <<kind, recipe, place, bundle, notices, digests, doubtful,
                   runs>>

AssembleStep ==
    \/ Validate \/ CollectRuntime \/ CollectComposer \/ Hash \/ CopyArtifact \/ WriteNotices
    \/ HashNotices \/ WriteManifest \/ HashAssets \/ WriteSums \/ Fail

Next ==
    \/ \E r \in Recipes, at \in Places : Begin(r, at)
    \/ AssembleStep
    \/ \E at \in Places, v \in Versions : Supply(at, v)

Spec == Init /\ [][Next]_vars

----------------------------------------------------------------------------
(***************************************************************************)
(* Properties.                                                             *)
(***************************************************************************)
\* `sha256sum -c SHA256SUMS' succeeds.
SumsVerify ==
    /\ IsA("sums", output["sums"])
    /\ \A n \in DOMAIN output["sums"][2] : output[n] = output["sums"][2][n]

\* The manifest is there, and the artifact and the notices under the names
\* it gives have the digests it gives.
ManifestMatches ==
    /\ IsA("manifest", output["manifest"])
    /\ LET r == ManifestOf(output["manifest"]) IN
          /\ output[r.artifact] = Bytes(r.pinned)
          /\ output[r.notices] = output["manifest"][3]

\* A run that succeeds, with four names that differ and an artifact nobody
\* changes meanwhile, leaves a release whose three records agree, whatever
\* earlier runs had left in the directory.
AssembledAgrees ==
    pc = "done" /\ Sound(recipe, place) /\ ~ disturbed
        => SumsVerify /\ ManifestMatches

\* SHA256SUMS is the commit record: whenever it verifies, the manifest fits
\* the files too.  A run that failed in the middle, of the same release or of
\* another, is never taken for a release.
VerifiedIsRelease == SumsVerify /\ ~ doubtful => ManifestMatches

\* No asset is written before the artifact was found to be the pinned one:
\* an altered artifact leaves the output directory as it was.
AlteredLeavesNoTrace ==
    [][output' # output /\ pc \notin Rest /\ place = "apart" /\ ~ disturbed'
           => source = Bytes(recipe.pinned)]_vars

\* portable/name.go:1: "Package portable defines path-component invariants
\* shared by artifact producers and consumers across supported operating
\* systems."  So the files of a published release have names that portable.Name
\* takes: no directories in them, and none that Windows reserves.
PublishedNamesArePortable ==
    pc = "done" => recipe.defects \intersect {"reservedName", "directories"} = {}

\* What the reader of the Runtime Manifest refuses and runtimepack does not
\* look at; the readers and composerpack use portable.Name alike.
Overlooked ==
    IF kind = "runtime"
    THEN {"reservedName", "looseID", "twinExtensions", "upperDigest"} ELSE {}

\* Whatever the producers publish, the phite that embeds the manifest
\* accepts, unless it is one of the things runtimepack overlooks.
PublishedIsAccepted ==
    pc = "done" => recipe.defects \intersect Rejected \subseteq Overlooked
=============================================================================

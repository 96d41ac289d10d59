---------------------------- MODULE RuntimeCache ----------------------------
(***************************************************************************)
(* The Runtime Cache of internal/managedruntime: the artifact protocol of  *)
(* ArtifactCache, and under the same lock the extraction directory         *)
(* `runtime' with its marker verified.json, the generated php.ini and the  *)
(* empty scan directory.  A process whose Acquire succeeded gives back the *)
(* lock and only then starts PHP or FrankenPHP from these files.           *)
(*                                                                         *)
(* While pc[p] is "ready" (Acquire) or "found" (Installed), rpc[p] is the  *)
(* step of p in ensureExtracted and ensurePHPConfiguration.                *)
(***************************************************************************)
EXTENDS ArtifactCache

CONSTANTS
    Windows,           \* BOOLEAN: files of a running program cannot be removed
    SharedExtensions,  \* BOOLEAN: the identity names extensions to load
    IniTampers         \* what outsiders may make of the php.ini file

ASSUME RuntimeCacheAssumption ==
    /\ Windows \in BOOLEAN
    /\ SharedExtensions \in BOOLEAN
    /\ SharedExtensions => Windows
    /\ IniTampers \subseteq {"absent", "altered", "unreadable"}

VARIABLES
    rpc,      \* rpc[p]: the next step of p on the runtime
    tree,     \* the directory `runtime': its marker and its content
    ini,      \* the generated php.ini
    scan,     \* the PHP scan directory
    staging,  \* staging[p]: the temporary extraction of p
    draft,    \* draft[p]: has p written a temporary php.ini?
    litter,   \* temporary extractions and php.ini left by dead processes
    orphaned, \* Windows: does a php.exe whose phite died still run?
    placed    \* history: number of renames onto `runtime'

\* What dead processes leave; no living one changes it.
leftBehind == <<litter, orphaned>>

runtimeVars == <<rpc, tree, ini, scan, staging, draft, leftBehind, placed>>
vars == <<artifactVars, runtimeVars>>

\* What the published directory holds.  "altered": the names and bytes of
\* regular files differ from the archive's; "irregular": some entry is not a
\* regular file, or `runtime' itself is not a directory.
Tree == {t \in [marker  : {"absent", "valid", "invalid", "unreadable"},
                content : {"gone", "partial", "altered", "irregular", "exact"}] :
            t.content = "gone" => t.marker = "absent"}

Gone == [marker |-> "absent", content |-> "gone"]
Exact == [marker |-> "valid", content |-> "exact"]

Ini == {"absent", "good", "altered", "unreadable"}
Scan == {"absent", "empty", "dirty"}
Staging == {"none", "partial", "altered", "exact"}

\* The steps of ensureExtracted after "check", and of ensurePHPConfiguration.
Extracting == {"clear", "stage", "unpack", "compare", "place"}
Configuring == {"scan", "configure", "unlink", "relink", "modules"}
Building == {"check"} \union Extracting \union Configuring

RuntimeTypeOK ==
    /\ TypeOK
    /\ rpc \in [Proc -> Building \union {"installed", "broken", "running"}]
    /\ tree \in Tree
    /\ ini \in Ini
    /\ scan \in Scan
    /\ staging \in [Proc -> Staging]
    /\ draft \in [Proc -> BOOLEAN]
    /\ litter \in Nat
    /\ orphaned \in BOOLEAN
    /\ placed \in Nat

RuntimeInit ==
    /\ Init
    /\ rpc = [p \in Proc |-> "check"]
    /\ tree = Gone
    /\ ini = "absent"
    /\ scan = "absent"
    /\ staging = [p \in Proc |-> "none"]
    /\ draft = [p \in Proc |-> FALSE]
    /\ litter = 0
    /\ orphaned = FALSE
    /\ placed = 0

----------------------------------------------------------------------------
\* p is in Acquire, past ensureArtifact, and goes from one step to another.
RGoto(p, from, to) ==
    /\ pc[p] = "ready"
    /\ rpc[p] = from
    /\ rpc' = [rpc EXCEPT ![p] = to]

\* Mistake: the marker alone decides, the files are not compared.
ExtractionByMarker ==
    IF tree.marker = "unreadable" THEN {"error"}
    ELSE IF tree.marker # "valid" THEN {"invalid"}
    ELSE {"valid"}

\* The outcomes of validExtraction: the marker first, then php, then the
\* comparison of the whole directory with the archive.
Extraction ==
    IF tree.marker = "unreadable" THEN {"error"}
    ELSE IF tree.marker # "valid" THEN {"invalid"}
    ELSE IF tree = Exact /\ artifact = "verified" THEN {"valid"}
    ELSE IF artifact = "verified" /\ tree.content # "irregular" THEN {"invalid"}
    ELSE IF tree.content = "altered" /\ artifact = "corrupt"
         THEN {"valid", "invalid", "error"}
    ELSE {"invalid", "error"}

\* Mistake: the remains of an invalid extraction are not removed.
CheckTreeKeepingRemains(p) ==
    /\ \/ "valid" \in Extraction   /\ RGoto(p, "check", "scan")
       \/ "invalid" \in Extraction /\ RGoto(p, "check", "stage")
       \/ "error" \in Extraction   /\ RGoto(p, "check", "broken")
    /\ UNCHANGED <<artifactVars, tree, ini, scan, staging, draft, leftBehind,
                   placed>>

\* Mistake: every Acquire extracts anew.
CheckTreeAlways(p) ==
    /\ \/ "error" \notin Extraction /\ RGoto(p, "check", "clear")
       \/ "error" \in Extraction    /\ RGoto(p, "check", "broken")
    /\ UNCHANGED <<artifactVars, tree, ini, scan, staging, draft, leftBehind,
                   placed>>

CheckTree(p) ==
    /\ \/ "valid" \in Extraction   /\ RGoto(p, "check", "scan")
       \/ "invalid" \in Extraction /\ RGoto(p, "check", "clear")
       \/ "error" \in Extraction   /\ RGoto(p, "check", "broken")
    /\ UNCHANGED <<artifactVars, tree, ini, scan, staging, draft, leftBehind,
                   placed>>

InUse(p) ==
    Windows /\ (orphaned \/ \E q \in Proc \ {p} : rpc[q] = "running")

\* os.RemoveAll removes entry by entry, in no order that matters to us ...
ClearSome(p) ==
    /\ RGoto(p, "clear", "clear")
    /\ tree.content \notin {"gone", "partial"}
    /\ tree' \in {[marker |-> m, content |-> "partial"] :
                      m \in {tree.marker, "absent"}}
    /\ UNCHANGED <<artifactVars, ini, scan, staging, draft, leftBehind,
                   placed>>

\* ... until the directory itself is gone.
ClearAll(p) ==
    /\ ~InUse(p)
    /\ RGoto(p, "clear", "stage")
    /\ tree' = Gone
    /\ UNCHANGED <<artifactVars, ini, scan, staging, draft, leftBehind,
                   placed>>

\* Windows refuses to remove an executable that runs, for another process or
\* after the process that started it has died.
ClearBlocked(p) ==
    /\ InUse(p)
    /\ RGoto(p, "clear", "broken")
    /\ faulted' = faulted \union {p}
    /\ UNCHANGED <<pc, lock, directory, artifact, temp, published,
                   unchangedHistory>>
    /\ UNCHANGED <<tree, ini, scan, staging, draft, leftBehind, placed>>

Stage(p) ==
    /\ RGoto(p, "stage", "unpack")
    /\ staging' = [staging EXCEPT ![p] = "partial"]
    /\ UNCHANGED <<artifactVars, tree, ini, scan, draft, leftBehind, placed>>

\* extractZIP reads the archive by its name: whatever is there now.
Unpack(p) ==
    /\ \/ /\ artifact = "verified"
          /\ RGoto(p, "unpack", "compare")
          /\ staging' = [staging EXCEPT ![p] = "exact"]
       \/ /\ artifact = "corrupt"
          /\ RGoto(p, "unpack", "compare")
          /\ staging' = [staging EXCEPT ![p] = "altered"]
       \/ /\ artifact # "verified"
          /\ RGoto(p, "unpack", "broken")
          /\ UNCHANGED staging
    /\ UNCHANGED <<artifactVars, tree, ini, scan, draft, leftBehind, placed>>

\* extractionMatchesArtifact, and the marker written when it agrees.
Compare(p) ==
    /\ \/ /\ \/ staging[p] = "exact"   /\ artifact = "verified"
             \/ staging[p] = "altered" /\ artifact = "corrupt"
          /\ RGoto(p, "compare", "place")
       \/ /\ artifact # "verified"
          /\ RGoto(p, "compare", "broken")
    /\ UNCHANGED <<artifactVars, tree, ini, scan, staging, draft, leftBehind,
                   placed>>

\* Mistake: the temporary directory is removed before it is renamed.
PlaceCleaned(p) ==
    /\ tree = Gone
    /\ RGoto(p, "place", "scan")
    /\ tree' = [marker |-> "valid", content |-> "none"]
    /\ staging' = [staging EXCEPT ![p] = "none"]
    /\ placed' = placed + 1
    /\ UNCHANGED <<artifactVars, ini, scan, draft, leftBehind>>

\* The rename onto `runtime' needs the name to be free.
Place(p) ==
    /\ \/ /\ tree = Gone
          /\ RGoto(p, "place", "scan")
          /\ tree' = [marker |-> "valid", content |-> staging[p]]
          /\ staging' = [staging EXCEPT ![p] = "none"]
          /\ placed' = placed + 1
       \/ /\ tree # Gone
          /\ RGoto(p, "place", "broken")
          /\ UNCHANGED <<tree, staging, placed>>
    /\ UNCHANGED <<artifactVars, ini, scan, draft, leftBehind>>

\* ensureEmptyScanDirectory
ScanDirectory(p) ==
    /\ \/ /\ scan \in {"absent", "empty"}
          /\ RGoto(p, "scan", "configure")
          /\ scan' = "empty"
       \/ /\ scan = "dirty"
          /\ RGoto(p, "scan", "broken")
          /\ UNCHANGED scan
    /\ UNCHANGED <<artifactVars, tree, ini, staging, draft, leftBehind,
                   placed>>

Configured == IF SharedExtensions THEN "modules" ELSE "installed"

\* phpConfiguration computes the text (and, with shared extensions, fails
\* when a library has gone), then the file there is compared with it.
Configure(p) ==
    /\ \/ /\ ini = "good"
          /\ RGoto(p, "configure", Configured)
          /\ UNCHANGED draft
       \/ /\ ini \in {"absent", "altered"}
          /\ RGoto(p, "configure", "unlink")
          /\ draft' = [draft EXCEPT ![p] = TRUE]
       \/ /\ \/ ini = "unreadable"
             \/ SharedExtensions /\ tree # Exact
          /\ RGoto(p, "configure", "broken")
          /\ UNCHANGED draft
    /\ UNCHANGED <<artifactVars, tree, ini, scan, staging, leftBehind, placed>>

\* replaceConfiguration: os.Remove of the old php.ini ...
Unlink(p) ==
    /\ \/ /\ RGoto(p, "unlink", "relink")
          /\ ini' = "absent"
       \/ /\ ini = "unreadable"
          /\ RGoto(p, "unlink", "broken")
          /\ UNCHANGED ini
    /\ UNCHANGED <<artifactVars, tree, scan, staging, draft, leftBehind,
                   placed>>

\* ... and only then os.Rename of the new one.
Relink(p) ==
    /\ \/ /\ RGoto(p, "relink", Configured)
          /\ ini' = "good"
          /\ draft' = [draft EXCEPT ![p] = FALSE]
       \/ /\ ini = "unreadable"
          /\ RGoto(p, "relink", "broken")
          /\ UNCHANGED <<ini, draft>>
    /\ UNCHANGED <<artifactVars, tree, scan, staging, leftBehind, placed>>

\* verifyPHPModules runs `php -m' under the lock, with no time limit.
VerifyModules(p) ==
    /\ \/ RGoto(p, "modules", "installed")
       \/ /\ tree # Exact \/ ini # "good" \/ scan # "empty"
          /\ RGoto(p, "modules", "broken")
    /\ UNCHANGED <<artifactVars, tree, ini, scan, staging, draft, leftBehind,
                   placed>>

\* Any other error on the way: no space, no permission, ...
RuntimeFail(p) ==
    /\ pc[p] = "ready"
    /\ rpc[p] \in Building
    /\ rpc' = [rpc EXCEPT ![p] = "broken"]
    /\ faulted' = faulted \union {p}
    /\ UNCHANGED <<pc, lock, directory, artifact, temp, published,
                   unchangedHistory>>
    /\ UNCHANGED <<tree, ini, scan, staging, draft, leftBehind, placed>>

\* Mistake: an error path that leaves the temporary extraction.
RuntimeReturnLittering(p) ==
    /\ rpc[p] \in {"installed", "broken"}
    /\ Return(p)
    /\ draft' = [draft EXCEPT ![p] = FALSE]
    /\ UNCHANGED <<rpc, tree, ini, scan, staging, leftBehind, placed>>

\* The deferred calls: remove the temporary directory and file, unlock.
RuntimeReturn(p) ==
    /\ rpc[p] \in {"installed", "broken"}
    /\ Return(p)
    /\ staging' = [staging EXCEPT ![p] = "none"]
    /\ draft' = [draft EXCEPT ![p] = FALSE]
    /\ UNCHANGED <<rpc, tree, ini, scan, leftBehind, placed>>

\* runChild and devsession.Run start the executable, without the lock.
Start(p) ==
    /\ pc[p] = "acquired"
    /\ rpc[p] = "installed"
    /\ rpc' = [rpc EXCEPT ![p] = "running"]
    /\ UNCHANGED <<artifactVars, tree, ini, scan, staging, draft, leftBehind,
                   placed>>

RuntimeExit(p) ==
    /\ Exit(p)
    /\ rpc' = [rpc EXCEPT ![p] = "check"]
    /\ UNCHANGED <<tree, ini, scan, staging, draft, leftBehind, placed>>

----------------------------------------------------------------------------
\* Installed: validExtraction, then the answer; php.ini is not looked at.
LookTree(p) ==
    /\ pc[p] = "found"
    /\ rpc[p] = "check"
    /\ \/ "valid" \in Extraction   /\ rpc' = [rpc EXCEPT ![p] = "installed"]
       \/ Extraction # {"valid"}   /\ rpc' = [rpc EXCEPT ![p] = "broken"]
    /\ UNCHANGED <<artifactVars, tree, ini, scan, staging, draft, leftBehind,
                   placed>>

RuntimeAnswer(p) ==
    /\ pc[p] = "found" => rpc[p] \in {"installed", "broken"}
    /\ Answer(p)
    /\ rpc' = [rpc EXCEPT ![p] = "check"]
    /\ UNCHANGED <<tree, ini, scan, staging, draft, leftBehind, placed>>

----------------------------------------------------------------------------
\* The process dies; the program it has started runs on.
RuntimeCrash(p) ==
    /\ Crash(p)
    /\ rpc' = [rpc EXCEPT ![p] = "check"]
    /\ staging' = [staging EXCEPT ![p] = "none"]
    /\ draft' = [draft EXCEPT ![p] = FALSE]
    /\ litter' = IF staging[p] # "none" \/ draft[p] THEN litter + 1 ELSE litter
    /\ orphaned' = (orphaned \/ (Windows /\ rpc[p] = "running"))
    /\ UNCHANGED <<tree, ini, scan, placed>>

\* The programs that dead processes have started end, too.
OrphansEnd ==
    /\ orphaned
    /\ orphaned' = FALSE
    /\ UNCHANGED <<artifactVars, rpc, tree, ini, scan, staging, draft, litter,
                   placed>>

\* Something outside phite alters one of the files of the entry.
OutsideChange ==
    /\ directory
    /\ tampers < MaxTampers
    /\ tampers' = tampers + 1
    /\ faulted' = faulted \union {p \in Proc : pc[p] # "idle"}
    /\ UNCHANGED <<pc, lock, directory, artifact, temp, orphans, published,
                   crashes>>
    /\ UNCHANGED <<rpc, staging, draft, leftBehind, placed>>

TamperTree ==
    /\ OutsideChange
    /\ tree' \in Tree \ {Exact, tree}
    /\ UNCHANGED <<ini, scan>>

TamperConfiguration ==
    /\ OutsideChange
    /\ \/ ini' \in IniTampers \ {ini} /\ UNCHANGED scan
       \/ scan' = "dirty"             /\ UNCHANGED ini
    /\ UNCHANGED tree

----------------------------------------------------------------------------
\* ensureArtifact and the lock, as in ArtifactCache.
ArtifactStep(p) ==
    /\ \/ Begin(p) \/ Lock(p) \/ Inspect(p) \/ Remove(p) \/ Request(p)
       \/ Receive(p) \/ Publish(p) \/ Fail(p) \/ Refuse(p)
       \/ Ask(p) \/ AskLock(p) \/ Look(p)
    /\ UNCHANGED runtimeVars

ExtractionStep(p) ==
    \/ CheckTree(p) \/ ClearSome(p) \/ ClearAll(p) \/ ClearBlocked(p)
    \/ Stage(p) \/ Unpack(p) \/ Compare(p) \/ Place(p)

ConfigurationStep(p) ==
    \/ ScanDirectory(p) \/ Configure(p) \/ Unlink(p) \/ Relink(p)
    \/ VerifyModules(p)

EndStep(p) ==
    RuntimeFail(p) \/ RuntimeReturn(p) \/ LookTree(p) \/ RuntimeAnswer(p)

RuntimeNext ==
    \/ \E p \in Proc :
          \/ ArtifactStep(p) \/ ExtractionStep(p) \/ ConfigurationStep(p)
          \/ EndStep(p) \/ Start(p) \/ RuntimeExit(p) \/ RuntimeCrash(p)
    \/ OrphansEnd
    \/ Tamper /\ UNCHANGED runtimeVars
    \/ TamperTree
    \/ TamperConfiguration

RuntimeSpec == RuntimeInit /\ [][RuntimeNext]_vars

\* A process that can run does run; the client's ten-minute timeout ends
\* every download, and `php -m' ends.  No order among the processes blocked
\* on the lock is assumed, and nobody has to start, to die or to tamper.
RuntimeFairSpec ==
    /\ RuntimeSpec
    /\ \A p \in Proc :
          WF_vars(\/ pc[p] \notin {"idle"} /\ ArtifactStep(p)
                  \/ ExtractionStep(p) \/ ConfigurationStep(p) \/ EndStep(p))

----------------------------------------------------------------------------
(***************************************************************************)
(* Properties.                                                             *)
(***************************************************************************)

Intact ==
    artifact = "verified" /\ tree = Exact /\ scan = "empty" /\ ini = "good"

\* What Acquire hands out is exactly the pinned runtime with its own php.ini
\* and nothing to scan, and it still is when the executable is started and
\* while it runs: no other process of phite disturbs it.
AcquiredIsIntact ==
    \A p \in Proc :
        pc[p] \in {"ready", "acquired"} /\ rpc[p] \in {"installed", "running"}
        /\ p \notin faulted
            => Intact

\* Installed never reports an entry that is not the pinned runtime.
ReportedIsExact ==
    \A p \in Proc :
        pc[p] = "found" /\ rpc[p] = "installed" /\ p \notin faulted
            => artifact = "verified" /\ tree = Exact

\* Whatever dead processes left half removed, half extracted or half
\* configured, the next Acquire repairs it.  What it never repairs is named:
\* entries that are not regular files, a scan directory with something in
\* it, and a php.ini that cannot be read.
BrokenNeedsFault ==
    \A p \in Proc :
        rpc[p] = "broken" /\ pc[p] = "ready" /\ p \notin faulted
            => \/ tree.marker = "unreadable" \/ tree.content = "irregular"
               \/ scan = "dirty"
               \/ ini = "unreadable"

\* Of all the processes that run together, one extracts the runtime.  An
\* outside change costs at most two further extractions: two, when the
\* archive is altered between the check of its hash and its extraction, so
\* that an altered tree is published and has to be replaced later.
FewExtractions == placed <= 1 + 2 * tampers

\* A process that is alive and not in Acquire has no temporary file; only
\* processes that died left any.
RuntimeLeftoversNeedCrash ==
    /\ orphans + litter <= crashes
    /\ \A p \in Proc :
          temp[p] # "none" \/ staging[p] # "none" \/ draft[p] => lock = p

\* No step of phite disturbs an entry that is intact.
IntactIsKept == [][Intact /\ ~Intact' => tampers' = tampers + 1]_vars

\* "Environment returns a child environment isolated from host PHP ini
\* paths" (config.go:36): no child is started while there is no managed
\* php.ini for PHPRC to name.
ChildFindsManagedIni ==
    [][\A p \in Proc : rpc[p] = "installed" /\ rpc'[p] = "running"
           => ini # "absent"]_vars

\* RuntimeCache implements VerifiedStore as well, with the whole entry for
\* the store: a call is granted or denied when Acquire unlocks.
RuntimeCall ==
    [p \in Proc |->
        CASE pc[p] \in Working \union {"ready", "failed"} -> "trying"
          [] pc[p] = "acquired" /\ rpc[p] \in {"installed", "running"} -> "granted"
          [] pc[p] = "acquired" /\ rpc[p] = "broken" -> "denied"
          [] pc[p] = "refused" -> "denied"
          [] OTHER -> "out"]

RuntimePromise == INSTANCE VerifiedStore WITH
    store <- IF Intact THEN "intact" ELSE "lost",
    call <- RuntimeCall,
    disturbed <- {p \in faulted : RuntimeCall[p] # "out"}

RuntimeImplementsPromise == RuntimePromise!StoreSpec

----------------------------------------------------------------------------
(***************************************************************************)
(* The inductive invariant of the proofs.                                  *)
(***************************************************************************)

\* Where a process is in Acquire or Installed bounds where it is on the
\* runtime: it comes to the runtime with nothing done.
StepsFollow ==
    \A p \in Proc :
        /\ pc[p] = "ready" => rpc[p] # "running"
        /\ pc[p] = "acquired" => rpc[p] \in {"installed", "broken", "running"}
        /\ pc[p] = "found" => rpc[p] \in {"check", "installed", "broken"}
        /\ pc[p] \notin {"ready", "acquired", "found"} => rpc[p] = "check"

\* What is renamed onto `runtime' is a complete extraction, and nobody but
\* the process under the lock has temporary files.
StagingOwner ==
    \A p \in Proc :
        /\ staging[p] # "none" \/ draft[p] => pc[p] = "ready"
        /\ pc[p] = "ready" /\ rpc[p] \in {"compare", "place"}
              => staging[p] \in {"altered", "exact"}

\* A process replaces only what is not intact, whatever has happened since
\* it looked: the lock keeps the others from repairing it first.
ReplacesLost ==
    \A p \in Proc : pc[p] = "ready" =>
        /\ rpc[p] \in Extracting => tree # Exact \/ artifact # "verified"
        /\ rpc[p] \in {"unlink", "relink"} => ini # "good"

\* What a process that nobody disturbs has established, step by step.
Established ==
    \A p \in Proc : pc[p] = "ready" /\ p \notin faulted =>
        /\ rpc[p] \in Extracting \ {"clear"} => tree = Gone
        /\ rpc[p] \in {"compare", "place"} => staging[p] = "exact"
        /\ rpc[p] \in Configuring => tree = Exact
        /\ rpc[p] \in Configuring \ {"scan"} => scan = "empty"
        /\ rpc[p] = "modules" => ini = "good"

FoundIsVerified ==
    \A p \in Proc : pc[p] = "found" /\ p \notin faulted => artifact = "verified"

RuntimeIInv ==
    /\ IInv /\ RuntimeTypeOK /\ StepsFollow /\ StagingOwner /\ ReplacesLost
    /\ Established /\ FoundIsVerified
    /\ AcquiredIsIntact /\ ReportedIsExact /\ BrokenNeedsFault
=============================================================================

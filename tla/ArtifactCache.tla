--------------------------- MODULE ArtifactCache ---------------------------
(***************************************************************************)
(* The cache entry of one pinned download, shared by every phite process   *)
(* of a developer: the file lock `.acquire.lock`, the artifact file, and   *)
(* the temporary downloads.  internal/managedruntime/cache.go and          *)
(* internal/managedcomposer/cache.go follow the same protocol:             *)
(*                                                                         *)
(*   MkdirAll; lock; hash the cached artifact; when it is wrong remove it; *)
(*   download into a temporary file; compare; rename; unlock.              *)
(*                                                                         *)
(* A process is one run of the CLI.  It may die at any step (Ctrl+C during *)
(* Acquire kills it, no handler is installed yet); the operating system    *)
(* then frees its lock and leaves its temporary file.  Somebody else may   *)
(* alter the cached file at any time, which the lock does not prevent.     *)
(*                                                                         *)
(* `Asking' is the read-only Installed operation of managedruntime.        *)
(***************************************************************************)
EXTENDS Naturals

CONSTANTS
    Proc,         \* the phite processes that use the cache entry
    None,         \* nobody holds the lock
    MaxCrashes,   \* bound on the process deaths of a behaviour
    MaxTampers    \* bound on the alterations of the artifact file

ASSUME ArtifactCacheAssumption ==
    /\ None \notin Proc
    /\ MaxCrashes \in Nat
    /\ MaxTampers \in Nat

VARIABLES
    pc,         \* pc[p]: the next step of process p
    lock,       \* the process that holds `.acquire.lock', or None
    directory,  \* has the directory of the entry been created?
    artifact,   \* what the file at the artifact's name is
    temp,       \* temp[p]: the temporary download of p
    orphans,    \* number of temporary downloads left by dead processes
    published,  \* history: number of renames onto the artifact's name
    crashes,    \* number of process deaths so far
    tampers,    \* number of alterations of the artifact so far
    faulted     \* history: processes that met a fault since they got the lock

artifactVars == <<pc, lock, directory, artifact, temp, orphans, published,
                  crashes, tampers, faulted>>

\* "unreadable": something that cannot be hashed, such as a directory.
Content == {"absent", "verified", "corrupt", "unreadable"}

\* "partial": being written; "wrong": complete, with another checksum.
Download == {"none", "partial", "verified", "wrong"}

\* The steps of ensureArtifact, all of them taken under the lock.
Working == {"inspect", "remove", "request", "receive", "publish"}

\* The steps at which a process holds the lock.
Holding == Working \union {"ready", "failed", "looking", "found", "missing"}

Resting == {"idle", "waiting", "asking", "acquired", "refused"}

TypeOK ==
    /\ pc \in [Proc -> Holding \union Resting]
    /\ lock \in Proc \union {None}
    /\ directory \in BOOLEAN
    /\ artifact \in Content
    /\ temp \in [Proc -> Download]
    /\ orphans \in Nat
    /\ published \in Nat
    /\ crashes \in 0 .. MaxCrashes
    /\ tampers \in 0 .. MaxTampers
    /\ faulted \in SUBSET Proc

Init ==
    /\ pc = [p \in Proc |-> "idle"]
    /\ lock = None
    /\ directory = FALSE
    /\ artifact = "absent"
    /\ temp = [p \in Proc |-> "none"]
    /\ orphans = 0
    /\ published = 0
    /\ crashes = 0
    /\ tampers = 0
    /\ faulted = {}

----------------------------------------------------------------------------
Goto(p, from, to) == pc[p] = from /\ pc' = [pc EXCEPT ![p] = to]

\* What most steps leave alone: the history of faults and of the entry.
unchangedHistory == <<orphans, crashes, tampers>>

\* Mistake: a lock that excludes nobody.
TakeLockShared(p) ==
    /\ lock' = p
    /\ faulted' = faulted \ {p}

TakeLock(p) ==
    /\ lock = None
    /\ lock' = p
    /\ faulted' = faulted \ {p}

\* Acquire: create the directory and open the lock file, then block on it.
\* Either may fail; Acquire then returns without having had the lock.
Begin(p) ==
    /\ \/ /\ Goto(p, "idle", "waiting")
          /\ directory' = TRUE
          /\ faulted' = faulted \ {p}
       \/ /\ Goto(p, "idle", "refused")
          /\ faulted' = faulted \union {p}
          /\ directory' \in {directory, TRUE}
    /\ UNCHANGED <<lock, artifact, temp, published, unchangedHistory>>

Lock(p) ==
    /\ Goto(p, "waiting", "inspect")
    /\ TakeLock(p)
    /\ UNCHANGED <<directory, artifact, temp, published, unchangedHistory>>

\* Mistake: a cached file is taken for the artifact because it is there.
InspectUnverified(p) ==
    /\ \/ artifact \in {"verified", "corrupt"} /\ Goto(p, "inspect", "ready")
       \/ artifact = "absent"     /\ Goto(p, "inspect", "request")
       \/ artifact = "unreadable" /\ Goto(p, "inspect", "failed")
    /\ UNCHANGED <<lock, directory, artifact, temp, published, faulted,
                   unchangedHistory>>

\* Mistake: a corrupt file is an error instead of being replaced.
InspectStrict(p) ==
    /\ \/ artifact = "verified" /\ Goto(p, "inspect", "ready")
       \/ artifact = "absent"   /\ Goto(p, "inspect", "request")
       \/ artifact \in {"corrupt", "unreadable"} /\ Goto(p, "inspect", "failed")
    /\ UNCHANGED <<lock, directory, artifact, temp, published, faulted,
                   unchangedHistory>>

\* ensureArtifact hashes the cached file: a match ends the download part.
Inspect(p) ==
    /\ \/ artifact = "verified"   /\ Goto(p, "inspect", "ready")
       \/ artifact = "corrupt"    /\ Goto(p, "inspect", "remove")
       \/ artifact = "absent"     /\ Goto(p, "inspect", "request")
       \/ artifact = "unreadable" /\ Goto(p, "inspect", "failed")
    /\ UNCHANGED <<lock, directory, artifact, temp, published, faulted,
                   unchangedHistory>>

\* os.Remove of the file found corrupt, which fails when it has gone since,
\* and may fail when it has become something else, as a full directory.
Remove(p) ==
    /\ \/ /\ artifact # "absent"
          /\ Goto(p, "remove", "request")
          /\ artifact' = "absent"
       \/ /\ artifact \in {"absent", "unreadable"}
          /\ Goto(p, "remove", "failed")
          /\ UNCHANGED artifact
    /\ UNCHANGED <<lock, directory, temp, published, faulted,
                   unchangedHistory>>

\* The server answers 200 and the temporary file is created.
Request(p) ==
    /\ Goto(p, "request", "receive")
    /\ temp' = [temp EXCEPT ![p] = "partial"]
    /\ UNCHANGED <<lock, directory, artifact, published, faulted,
                   unchangedHistory>>

\* The whole body is copied, flushed and closed.  The bytes are the pinned
\* ones or, when the server or the way to it is at fault, others.
Receive(p) ==
    /\ Goto(p, "receive", "publish")
    /\ \/ /\ temp' = [temp EXCEPT ![p] = "verified"]
          /\ UNCHANGED faulted
       \/ /\ temp' = [temp EXCEPT ![p] = "wrong"]
          /\ faulted' = faulted \union {p}
    /\ UNCHANGED <<lock, directory, artifact, published, unchangedHistory>>

\* The checksum of what was received decides between the rename onto the
\* artifact's name (which fails onto a directory) and an error.
Publish(p) ==
    /\ \/ /\ temp[p] = "verified"
          /\ Goto(p, "publish", "ready")
          /\ artifact' = "verified"
          /\ temp' = [temp EXCEPT ![p] = "none"]
          /\ published' = published + 1
       \/ /\ temp[p] = "wrong" \/ artifact = "unreadable"
          /\ Goto(p, "publish", "failed")
          /\ UNCHANGED <<artifact, temp, published>>
    /\ UNCHANGED <<lock, directory, faulted, unchangedHistory>>

\* Any other error of a step of ensureArtifact: the request fails or its
\* status is not 200, the copy is cut or times out, the disk is full, ...
Fail(p) ==
    /\ pc[p] \in Working
    /\ pc' = [pc EXCEPT ![p] = "failed"]
    /\ faulted' = faulted \union {p}
    /\ UNCHANGED <<lock, directory, artifact, temp, published,
                   unchangedHistory>>

\* Mistake: an error path that returns without removing its download.
RefuseLeavingDownload(p) ==
    /\ Goto(p, "failed", "refused")
    /\ lock' = None
    /\ UNCHANGED <<directory, artifact, temp, published, faulted,
                   unchangedHistory>>

\* The deferred calls of an Acquire that fails: remove the temporary file,
\* then unlock.
Refuse(p) ==
    /\ Goto(p, "failed", "refused")
    /\ temp' = [temp EXCEPT ![p] = "none"]
    /\ lock' = None
    /\ UNCHANGED <<directory, artifact, published, faulted, unchangedHistory>>

\* Mistake: the lock is kept while the process runs what it acquired.
ReturnKeepingLock(p) ==
    /\ Goto(p, "ready", "acquired")
    /\ UNCHANGED <<lock, directory, artifact, temp, published, faulted,
                   unchangedHistory>>

\* The deferred unlock of an Acquire whose artifact is verified.
Return(p) ==
    /\ Goto(p, "ready", "acquired")
    /\ lock' = None
    /\ UNCHANGED <<directory, artifact, temp, published, faulted,
                   unchangedHistory>>

\* The CLI process ends (after it ran what it acquired, or with an error),
\* and the system closes whatever it still has open.
Exit(p) ==
    /\ pc[p] \in {"acquired", "refused"}
    /\ pc' = [pc EXCEPT ![p] = "idle"]
    /\ lock' = IF lock = p THEN None ELSE lock
    /\ UNCHANGED <<directory, artifact, temp, published, faulted,
                   unchangedHistory>>

----------------------------------------------------------------------------
\* Installed: nothing to lock while the directory does not exist.
Ask(p) ==
    /\ directory
    /\ Goto(p, "idle", "asking")
    /\ UNCHANGED <<lock, directory, artifact, temp, published, faulted,
                   unchangedHistory>>

AskLock(p) ==
    /\ Goto(p, "asking", "looking")
    /\ TakeLock(p)
    /\ UNCHANGED <<directory, artifact, temp, published, unchangedHistory>>

Look(p) ==
    /\ \/ artifact = "verified" /\ Goto(p, "looking", "found")
       \/ artifact # "verified" /\ Goto(p, "looking", "missing")
    /\ UNCHANGED <<lock, directory, artifact, temp, published, faulted,
                   unchangedHistory>>

Answer(p) ==
    /\ \/ Goto(p, "found", "idle")
       \/ Goto(p, "missing", "idle")
    /\ lock' = None
    /\ UNCHANGED <<directory, artifact, temp, published, faulted,
                   unchangedHistory>>

----------------------------------------------------------------------------
\* The process dies.  The system closes the lock file, nobody removes the
\* temporary download.
Crash(p) ==
    /\ crashes < MaxCrashes
    /\ pc[p] # "idle"
    /\ pc' = [pc EXCEPT ![p] = "idle"]
    /\ lock' = IF lock = p THEN None ELSE lock
    /\ temp' = [temp EXCEPT ![p] = "none"]
    /\ orphans' = IF temp[p] = "none" THEN orphans ELSE orphans + 1
    /\ crashes' = crashes + 1
    /\ UNCHANGED <<directory, artifact, published, tampers, faulted>>

\* Something outside phite alters the artifact file.  Every process that is
\* running may be affected.
Tamper ==
    /\ directory
    /\ tampers < MaxTampers
    /\ artifact' \in Content \ {"verified", artifact}
    /\ tampers' = tampers + 1
    /\ faulted' = faulted \union {p \in Proc : pc[p] # "idle"}
    /\ UNCHANGED <<pc, lock, directory, temp, orphans, published, crashes>>

----------------------------------------------------------------------------
\* The steps a process goes on to take by itself once it has begun.
AcquireStep(p) ==
    \/ Lock(p) \/ Inspect(p) \/ Remove(p) \/ Request(p) \/ Receive(p)
    \/ Publish(p) \/ Fail(p) \/ Refuse(p) \/ Return(p)

AskStep(p) == AskLock(p) \/ Look(p) \/ Answer(p)

Next ==
    \/ \E p \in Proc :
          \/ Begin(p) \/ AcquireStep(p) \/ Exit(p)
          \/ Ask(p) \/ AskStep(p)
          \/ Crash(p)
    \/ Tamper

Spec == Init /\ [][Next]_artifactVars

----------------------------------------------------------------------------
(***************************************************************************)
(* Properties.                                                             *)
(***************************************************************************)

\* An Acquire that succeeded has the pinned bytes at the artifact's name:
\* still after it has given back the lock, and whatever the other processes
\* do meanwhile, as long as nobody outside phite touched the file since this
\* process locked it.
AcquiredIsVerified ==
    \A p \in Proc : pc[p] \in {"ready", "acquired"} /\ p \notin faulted
                        => artifact = "verified"

\* An Acquire is refused only for a fault during that very Acquire or for a
\* file that cannot be read at all: whatever dead processes have left, and
\* whatever a file of the wrong content holds, the entry repairs itself.
RefusalNeedsFault ==
    \A p \in Proc : pc[p] \in {"failed", "refused"} /\ p \notin faulted
                        => artifact = "unreadable"

\* However many processes start together, the artifact is published once,
\* and again only after it was lost.
OnePublicationPerLoss == published <= 1 + tampers

\* Only a process that died leaves a temporary download behind.
LeftoversNeedCrash ==
    /\ orphans <= crashes
    /\ \A p \in Proc : temp[p] # "none" => lock = p

\* No step of phite removes or replaces an artifact with the pinned bytes.
VerifiedIsKept ==
    [][artifact = "verified" /\ artifact' # "verified"
           => tampers' = tampers + 1]_artifactVars

\* The lock has no time limit (lock_unix.go:11), so that a wait ends only if
\* whoever holds the lock gives it back: on every path, when it dies, and
\* before it starts a program that may run for hours.  The one excuse is that
\* the others take the lock again and again for ever; a holder that never
\* gives it back is none.
WaitEnds ==
    \A p \in Proc :
        <>[][\A q \in Proc \ {p} : lock' = q => lock = q]_artifactVars
            => (pc[p] \in {"waiting", "asking"}
                    ~> pc[p] \in {"acquired", "refused", "idle"})

\* ArtifactCache implements VerifiedStore.  A call is "trying" from the lock
\* to the unlock; the processes that only ask, or wait, are outside.
PromisedStore == IF artifact = "verified" THEN "intact" ELSE "lost"

PromisedCall ==
    [p \in Proc |->
        CASE pc[p] \in Working \union {"ready", "failed"} -> "trying"
          [] pc[p] = "acquired" -> "granted"
          [] pc[p] = "refused" -> "denied"
          [] OTHER -> "out"]

Promise == INSTANCE VerifiedStore WITH
    store <- PromisedStore,
    call <- PromisedCall,
    disturbed <- {p \in faulted : PromisedCall[p] # "out"}

ImplementsPromise == Promise!StoreSpec

----------------------------------------------------------------------------
(***************************************************************************)
(* The inductive invariant of the proofs.                                  *)
(***************************************************************************)

\* The steps at which a process replaces the artifact.
Repairing == {"remove", "request", "receive", "publish"}

\* The lock belongs to the process that is at a step under it, and to no
\* other: what one process has read of the entry, no other changes.
LockOwner == \A p \in Proc : pc[p] \in Holding <=> lock = p

\* An artifact is replaced only while it is not verified, and what was found
\* corrupt is still corrupt unless somebody outside touched it.
RepairsLost ==
    \A p \in Proc :
        /\ pc[p] \in Repairing => artifact # "verified"
        /\ pc[p] = "remove" /\ p \notin faulted => artifact = "corrupt"

\* A download with the wrong bytes is a fault, and only the process that
\* downloads has a temporary file.
DownloadOwner ==
    \A p \in Proc :
        /\ temp[p] # "none" => pc[p] \in {"receive", "publish", "failed"}
        /\ pc[p] = "publish" => temp[p] \in {"verified", "wrong"}
        /\ temp[p] = "wrong" => p \in faulted

\* Nobody repairs what an undisturbed process was refused for.
RefusedStays ==
    \A p, q \in Proc :
        pc[p] = "refused" /\ pc[q] \in Repairing => p \in faulted

\* An artifact that is not there may still have to be published once.
PublicationCount ==
    published + (IF artifact = "verified" THEN 0 ELSE 1) <= 1 + tampers

IInv ==
    /\ TypeOK /\ LockOwner /\ RepairsLost /\ DownloadOwner /\ RefusedStays
    /\ PublicationCount /\ AcquiredIsVerified /\ RefusalNeedsFault
    /\ orphans <= crashes
=============================================================================

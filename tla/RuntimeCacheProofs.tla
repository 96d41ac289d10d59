------------------------- MODULE RuntimeCacheProofs -------------------------
(***************************************************************************)
(* Proofs about RuntimeCache, for every set of processes and every bound,  *)
(* on Unix and on Windows.  They rest on the proofs about ArtifactCache,   *)
(* whose actions RuntimeCache takes together with its own variables.       *)
(***************************************************************************)
EXTENDS RuntimeCache, ArtifactCacheProofs

USE DEF artifactVars, unchangedHistory, Goto, TakeLock, leftBehind

\* A fault of one process, or an outside change of another file, keeps the
\* invariant of the artifact: it only adds to the history.
LEMMA HistoryGrows ==
    ASSUME IInv, faulted \subseteq faulted', faulted' \in SUBSET Proc,
           tampers' \in 0 .. MaxTampers, tampers <= tampers',
           UNCHANGED <<pc, lock, directory, artifact, temp, orphans,
                       published, crashes>>
    PROVE  IInv'
  <1> USE RuntimeCacheAssumption, ArtifactCacheAssumption
  <1>1. TypeOK'
    BY DEF IInv, TypeOK
  <1>2. /\ LockOwner' /\ RepairsLost' /\ DownloadOwner' /\ RefusedStays'
        /\ AcquiredIsVerified' /\ RefusalNeedsFault'
    BY DEF IInv, TypeOK, LockOwner, RepairsLost, DownloadOwner, RefusedStays,
           AcquiredIsVerified, RefusalNeedsFault
  <1>3. /\ published \in Nat /\ tampers \in Nat /\ tampers' \in Nat
        /\ PublicationCount /\ orphans <= crashes
    BY DEF IInv, TypeOK
  <1>4. PublicationCount'
    <2>1. ASSUME NEW m \in Nat, NEW n \in Nat, NEW k \in Nat, n <= k,
                 m + (IF artifact = "verified" THEN 0 ELSE 1) <= 1 + n
          PROVE  m + (IF artifact = "verified" THEN 0 ELSE 1) <= 1 + k
      BY <2>1
    <2> QED
      BY <1>3, <2>1 DEF PublicationCount
  <1>5. (orphans <= crashes)'
    BY <1>3
  <1> QED
    BY <1>1, <1>2, <1>4, <1>5 DEF IInv

\* What the steps on the runtime leave of the artifact, or add to its
\* history.
LEMMA ArtifactPart == IInv /\ [RuntimeNext]_vars => IInv'
  <1> SUFFICES ASSUME IInv, [RuntimeNext]_vars PROVE IInv'
    OBVIOUS
  <1>1. ASSUME [Next]_artifactVars PROVE IInv'
    BY <1>1, IInvStep
  <1>2. ASSUME NEW p \in Proc, ArtifactStep(p) PROVE IInv'
    <2>1. Next
      BY <1>2 DEF ArtifactStep, Next, AcquireStep, AskStep
    <2> QED
      BY <1>1, <2>1
  <1>3. ASSUME NEW p \in Proc,
               \/ CheckTree(p) \/ ClearSome(p) \/ ClearAll(p) \/ Stage(p)
               \/ Unpack(p) \/ Compare(p) \/ Place(p) \/ ConfigurationStep(p)
               \/ LookTree(p) \/ Start(p)
        PROVE  IInv'
    <2>1. UNCHANGED artifactVars
      BY <1>3 DEF CheckTree, ClearSome, ClearAll, Stage, Unpack, Compare, Place,
                  ConfigurationStep, ScanDirectory, Configure, Unlink, Relink,
                  VerifyModules, LookTree, Start
    <2> QED
      BY <1>1, <2>1
  <1>4. ASSUME NEW p \in Proc, RuntimeReturn(p) \/ RuntimeAnswer(p)
                                \/ RuntimeExit(p) \/ RuntimeCrash(p)
        PROVE  IInv'
    <2>1. Next
      BY <1>4 DEF RuntimeReturn, RuntimeAnswer, RuntimeExit, RuntimeCrash, Next,
                  AcquireStep, AskStep
    <2> QED
      BY <1>1, <2>1
  <1>5. ASSUME NEW p \in Proc, ClearBlocked(p) \/ RuntimeFail(p)
        PROVE  IInv'
    BY <1>5, HistoryGrows DEF ClearBlocked, RuntimeFail, IInv, TypeOK
  <1>6. CASE Tamper /\ UNCHANGED runtimeVars
    <2>1. Next
      BY <1>6 DEF Next
    <2> QED
      BY <1>1, <2>1
  <1>7. CASE OutsideChange
    <2>1. /\ tampers' \in 0 .. MaxTampers /\ tampers <= tampers'
          /\ faulted \subseteq faulted' /\ faulted' \in SUBSET Proc
      BY <1>7, ArtifactCacheAssumption DEF OutsideChange, IInv, TypeOK
    <2> QED
      BY <1>7, <2>1, HistoryGrows DEF OutsideChange
  <1>8. CASE OrphansEnd \/ UNCHANGED vars
    BY <1>1, <1>8 DEF OrphansEnd, vars
  <1> QED
    BY <1>2, <1>3, <1>4, <1>5, <1>6, <1>7, <1>8
       DEF RuntimeNext, ExtractionStep, EndStep, TamperTree,
           TamperConfiguration
----------------------------------------------------------------------------
\* An empty cache satisfies the inductive invariant.
LEMMA RuntimeInitially == RuntimeInit => RuntimeIInv
  <1> SUFFICES ASSUME RuntimeInit PROVE RuntimeIInv
    OBVIOUS
  <1> USE DEF RuntimeInit, Init
  <1>1. IInv
    BY InitIInv
  <1>2. RuntimeTypeOK
    BY <1>1 DEF IInv, RuntimeTypeOK, Building, Tree, Gone, Ini, Scan, Staging
  <1>3. StepsFollow /\ StagingOwner /\ FoundIsVerified /\ ReplacesLost
    BY DEF StepsFollow, StagingOwner, FoundIsVerified, ReplacesLost
  <1>4. Established /\ AcquiredIsIntact /\ ReportedIsExact /\ BrokenNeedsFault
    BY DEF Established, AcquiredIsIntact, ReportedIsExact, BrokenNeedsFault
  <1> QED
    BY <1>1, <1>2, <1>3, <1>4 DEF RuntimeIInv

\* The types of the runtime's own variables.
RuntimeTypes ==
    /\ rpc \in [Proc -> Building \union {"installed", "broken", "running"}]
    /\ tree \in Tree
    /\ ini \in Ini
    /\ scan \in Scan
    /\ staging \in [Proc -> Staging]
    /\ draft \in [Proc -> BOOLEAN]
    /\ litter \in Nat
    /\ orphaned \in BOOLEAN
    /\ placed \in Nat

\* Every action keeps the types.
LEMMA RuntimeTypeStep ==
    RuntimeIInv /\ [RuntimeNext]_vars => RuntimeTypes'
  <1> SUFFICES ASSUME RuntimeIInv, [RuntimeNext]_vars PROVE RuntimeTypes'
    OBVIOUS
  <1>0. RuntimeTypes
    BY DEF RuntimeIInv, RuntimeTypeOK, RuntimeTypes
  <1> USE <1>0, RuntimeCacheAssumption
      DEF RuntimeTypes, Building, Extracting, Configuring, Ini, Scan, Staging
  <1>1. ASSUME NEW p \in Proc, ArtifactStep(p) PROVE RuntimeTypes'
    BY <1>1 DEF ArtifactStep, runtimeVars
  <1>2. ASSUME NEW p \in Proc, CheckTree(p) \/ ClearBlocked(p) \/ Stage(p)
                                \/ Unpack(p) \/ Compare(p)
        PROVE  RuntimeTypes'
    BY <1>2 DEF CheckTree, ClearBlocked, Stage, Unpack, Compare, RGoto
  <1>3. ASSUME NEW p \in Proc, ClearSome(p) \/ ClearAll(p)
        PROVE  RuntimeTypes'
    <2>1. tree' \in Tree
      BY <1>3 DEF ClearSome, ClearAll, Tree, Gone
    <2> QED
      BY <1>3, <2>1 DEF ClearSome, ClearAll, RGoto
  <1>4. ASSUME NEW p \in Proc, Place(p) PROVE RuntimeTypes'
    <2>1. tree' \in Tree
      BY <1>4 DEF Place, RGoto, Tree, RuntimeIInv, StagingOwner
    <2> QED
      BY <1>4, <2>1 DEF Place, RGoto
  <1>5. ASSUME NEW p \in Proc, ConfigurationStep(p) PROVE RuntimeTypes'
    BY <1>5 DEF ConfigurationStep, ScanDirectory, Configure, Unlink, Relink,
                VerifyModules, Configured, RGoto
  <1>6. ASSUME NEW p \in Proc, EndStep(p) \/ Start(p) \/ RuntimeExit(p)
        PROVE  RuntimeTypes'
    BY <1>6 DEF EndStep, RuntimeFail, RuntimeReturn, LookTree, RuntimeAnswer,
                Start, RuntimeExit
  <1>7. ASSUME NEW p \in Proc, RuntimeCrash(p) PROVE RuntimeTypes'
    BY <1>7 DEF RuntimeCrash
  <1>8. CASE Tamper /\ UNCHANGED runtimeVars
    BY <1>8 DEF runtimeVars
  <1>9. CASE TamperTree \/ TamperConfiguration
    BY <1>9 DEF TamperTree, TamperConfiguration, OutsideChange
  <1>10. CASE OrphansEnd \/ UNCHANGED vars
    BY <1>10 DEF OrphansEnd, vars, runtimeVars
  <1> QED
    BY <1>1, <1>2, <1>3, <1>4, <1>5, <1>6, <1>7, <1>8, <1>9, <1>10
       DEF RuntimeNext, ExtractionStep
----------------------------------------------------------------------------
\* The rest of the invariant.
RuntimeRest ==
    /\ StepsFollow /\ StagingOwner /\ ReplacesLost /\ Established
    /\ FoundIsVerified /\ AcquiredIsIntact /\ ReportedIsExact
    /\ BrokenNeedsFault

\* What Begin changes, of the process that begins and of the others.
LEMMA BeginFrame ==
    ASSUME TypeOK, NEW p \in Proc, Begin(p), UNCHANGED runtimeVars
    PROVE  /\ pc[p] = "idle"
           /\ \A q \in Proc \ {p} : pc'[q] = pc[q]
           /\ pc'[p] \in {"waiting", "refused"}
           /\ \A q \in Proc \ {p} : q \in faulted' <=> q \in faulted
           /\ UNCHANGED <<artifact, tree, ini, scan, rpc, staging, draft>>
  <1>1. CASE Goto(p, "idle", "waiting") /\ faulted' = faulted \ {p}
    BY <1>1 DEF Begin, TypeOK, runtimeVars
  <1>2. CASE Goto(p, "idle", "refused") /\ faulted' = faulted \union {p}
    BY <1>2 DEF Begin, TypeOK, runtimeVars
  <1> QED
    BY <1>1, <1>2 DEF Begin

\* Every action keeps the parts of the invariant that speak of the runtime.
LEMMA RuntimeRestStep ==
    RuntimeIInv /\ [RuntimeNext]_vars => RuntimeRest'
  <1> SUFFICES ASSUME RuntimeIInv, [RuntimeNext]_vars PROVE RuntimeRest'
    OBVIOUS
  <1>a. /\ TypeOK /\ LockOwner /\ RepairsLost /\ AcquiredIsVerified
        /\ RuntimeTypes /\ RuntimeRest
    BY DEF RuntimeIInv, RuntimeTypeOK, RuntimeTypes, RuntimeRest, IInv
  <1>b. RuntimeTypes'
    BY RuntimeTypeStep
  <1>c. TypeOK' /\ LockOwner' /\ AcquiredIsVerified'
    BY ArtifactPart DEF RuntimeIInv, IInv
  <1> USE <1>a, <1>b, <1>c, RuntimeCacheAssumption, ArtifactCacheAssumption
      DEF TypeOK, LockOwner, Holding, Working, Resting, RuntimeTypes, Building,
          Extracting, Configuring, RuntimeRest, StepsFollow, StagingOwner,
          ReplacesLost, Established, FoundIsVerified, AcquiredIsIntact,
          ReportedIsExact, BrokenNeedsFault, Intact, AcquiredIsVerified
  <1>1. ASSUME NEW p \in Proc, Begin(p) \/ Lock(p) \/ Inspect(p),
               UNCHANGED runtimeVars
        PROVE  RuntimeRest'
    <2>1. CASE Begin(p)
      <3>1. /\ pc[p] = "idle"
            /\ \A q \in Proc \ {p} : pc'[q] = pc[q]
            /\ pc'[p] \in {"waiting", "refused"}
            /\ \A q \in Proc \ {p} : q \in faulted' <=> q \in faulted
            /\ UNCHANGED <<artifact, tree, ini, scan, rpc, staging, draft>>
        BY <1>1, <2>1, BeginFrame
      <3>2. StepsFollow' /\ StagingOwner' /\ ReplacesLost'
        BY <3>1
      <3>3. Established' /\ FoundIsVerified' /\ AcquiredIsIntact'
        BY <3>1
      <3>4. ReportedIsExact' /\ BrokenNeedsFault'
        BY <3>1
      <3> QED
        BY <3>2, <3>3, <3>4
    <2>2. CASE Lock(p)
      BY <1>1, <2>2 DEF Lock, runtimeVars
    <2>3. CASE Inspect(p)
      BY <1>1, <2>3 DEF Inspect, runtimeVars
    <2> QED
      BY <1>1, <2>1, <2>2, <2>3
  <1>2. ASSUME NEW p \in Proc, Remove(p) \/ Request(p) \/ Receive(p),
               UNCHANGED runtimeVars
        PROVE  RuntimeRest'
    BY <1>2 DEF Remove, Request, Receive, runtimeVars, RepairsLost, Repairing
  <1>3. ASSUME NEW p \in Proc, Publish(p) \/ Fail(p) \/ Refuse(p),
               UNCHANGED runtimeVars
        PROVE  RuntimeRest'
    BY <1>3 DEF Publish, Fail, Refuse, runtimeVars, RepairsLost, Repairing
  <1>4. ASSUME NEW p \in Proc, Ask(p) \/ AskLock(p) \/ Look(p),
               UNCHANGED runtimeVars
        PROVE  RuntimeRest'
    BY <1>4 DEF Ask, AskLock, Look, runtimeVars
  <1>5. ASSUME NEW p \in Proc, CheckTree(p) PROVE RuntimeRest'
    BY <1>5 DEF CheckTree, RGoto, Extraction, Exact
  <1>6. ASSUME NEW p \in Proc, ClearSome(p) \/ ClearAll(p) PROVE RuntimeRest'
    BY <1>6 DEF ClearSome, ClearAll, RGoto, Gone, Exact
  <1>7. ASSUME NEW p \in Proc, ClearBlocked(p) \/ RuntimeFail(p)
        PROVE  RuntimeRest'
    BY <1>7 DEF ClearBlocked, RuntimeFail, RGoto
  <1>8. ASSUME NEW p \in Proc, Stage(p) \/ Unpack(p) \/ Compare(p)
        PROVE  RuntimeRest'
    <2>1. CASE Stage(p)
      BY <2>1 DEF Stage, RGoto, Gone, Exact
    <2>2. CASE Unpack(p)
      BY <2>2 DEF Unpack, RGoto, Gone, Exact
    <2>3. CASE Compare(p)
      BY <2>3 DEF Compare, RGoto, Gone, Exact
    <2> QED
      BY <1>8, <2>1, <2>2, <2>3
  <1>9. ASSUME NEW p \in Proc, Place(p) PROVE RuntimeRest'
    BY <1>9 DEF Place, RGoto, Gone, Exact
  <1>10. ASSUME NEW p \in Proc, ScanDirectory(p) \/ Configure(p)
         PROVE  RuntimeRest'
    BY <1>10 DEF ScanDirectory, Configure, Configured, RGoto
  <1>11. ASSUME NEW p \in Proc, Unlink(p) \/ Relink(p) PROVE RuntimeRest'
    BY <1>11 DEF Unlink, Relink, Configured, RGoto
  <1>12. ASSUME NEW p \in Proc, VerifyModules(p) PROVE RuntimeRest'
    BY <1>12 DEF VerifyModules, RGoto
  <1>13. ASSUME NEW p \in Proc, RuntimeReturn(p) \/ Start(p) \/ RuntimeExit(p)
         PROVE  RuntimeRest'
    BY <1>13 DEF RuntimeReturn, Return, Start, RuntimeExit, Exit
  <1>14. ASSUME NEW p \in Proc, LookTree(p) \/ RuntimeAnswer(p)
         PROVE  RuntimeRest'
    BY <1>14 DEF LookTree, RuntimeAnswer, Answer, Extraction
  <1>15. ASSUME NEW p \in Proc, RuntimeCrash(p) PROVE RuntimeRest'
    BY <1>15 DEF RuntimeCrash, Crash
  <1>16. CASE Tamper /\ UNCHANGED runtimeVars
    BY <1>16 DEF Tamper, runtimeVars
  <1>17. CASE TamperTree
    BY <1>17 DEF TamperTree, OutsideChange
  <1>18. CASE TamperConfiguration
    BY <1>18 DEF TamperConfiguration, OutsideChange
  <1>19. CASE OrphansEnd \/ UNCHANGED vars
    BY <1>19 DEF OrphansEnd, vars, runtimeVars
  <1> QED
    BY <1>1, <1>2, <1>3, <1>4, <1>5, <1>6, <1>7, <1>8, <1>9, <1>10, <1>11,
       <1>12, <1>13, <1>14, <1>15, <1>16, <1>17, <1>18, <1>19
       DEF RuntimeNext, ArtifactStep, ExtractionStep, ConfigurationStep, EndStep

\* The inductive invariant holds in every reachable state.
LEMMA RuntimeInvariance == RuntimeSpec => []RuntimeIInv
  <1>1. RuntimeIInv /\ [RuntimeNext]_vars => RuntimeIInv'
    BY ArtifactPart, RuntimeTypeStep, RuntimeRestStep
       DEF RuntimeIInv, IInv, RuntimeTypeOK, RuntimeTypes, RuntimeRest
  <1> QED
    BY <1>1, RuntimeInitially, PTL DEF RuntimeSpec

\* RuntimeCache is type correct.
THEOREM RuntimeTypeCorrect == RuntimeSpec => []RuntimeTypeOK
  <1>1. RuntimeIInv => RuntimeTypeOK
    BY DEF RuntimeIInv
  <1> QED
    BY <1>1, RuntimeInvariance, PTL

\* What an undisturbed Acquire hands out is intact when the executable is
\* started and while it runs, whatever the other processes do.
THEOREM AcquiredStaysIntact == RuntimeSpec => []AcquiredIsIntact
  <1>1. RuntimeIInv => AcquiredIsIntact
    BY DEF RuntimeIInv
  <1> QED
    BY <1>1, RuntimeInvariance, PTL

\* Installed reports only the pinned runtime.
THEOREM ReportIsExact == RuntimeSpec => []ReportedIsExact
  <1>1. RuntimeIInv => ReportedIsExact
    BY DEF RuntimeIInv
  <1> QED
    BY <1>1, RuntimeInvariance, PTL

\* Acquire repairs whatever dead processes have left of the runtime.
THEOREM BrokenHasCause == RuntimeSpec => []BrokenNeedsFault
  <1>1. RuntimeIInv => BrokenNeedsFault
    BY DEF RuntimeIInv
  <1> QED
    BY <1>1, RuntimeInvariance, PTL

----------------------------------------------------------------------------
\* An entry that is intact is disturbed from outside only: a process comes
\* to a step that removes something only when it has found it wrong, and by
\* the invariant it still is.
LEMMA IntactStep ==
    RuntimeIInv /\ [RuntimeNext]_vars
        => [Intact /\ ~Intact' => tampers' = tampers + 1]_vars
  <1> SUFFICES ASSUME RuntimeIInv, RuntimeNext, Intact,
                      tampers' # tampers + 1
               PROVE  Intact'
    BY DEF vars
  <1>a. TypeOK /\ RepairsLost /\ RuntimeTypes /\ ReplacesLost
    BY DEF RuntimeIInv, RuntimeTypeOK, RuntimeTypes, IInv
  <1> USE <1>a DEF Intact, Extracting
  <1>1. ASSUME NEW p \in Proc, ArtifactStep(p) PROVE Intact'
    BY <1>1 DEF ArtifactStep, Begin, Lock, Inspect, Remove, Request, Receive,
                Publish, Fail, Refuse, Ask, AskLock, Look, runtimeVars,
                RepairsLost, Repairing
  <1>2. ASSUME NEW p \in Proc, ExtractionStep(p) PROVE Intact'
    BY <1>2 DEF ExtractionStep, CheckTree, ClearSome, ClearAll, ClearBlocked,
                Stage, Unpack, Compare, Place, RGoto, ReplacesLost
  <1>3. ASSUME NEW p \in Proc, ConfigurationStep(p) PROVE Intact'
    BY <1>3 DEF ConfigurationStep, ScanDirectory, Configure, Unlink, Relink,
                VerifyModules, RGoto, ReplacesLost
  <1>4. ASSUME NEW p \in Proc, EndStep(p) \/ Start(p) \/ RuntimeExit(p)
        PROVE  Intact'
    BY <1>4 DEF EndStep, RuntimeFail, RuntimeReturn, Return, LookTree,
                RuntimeAnswer, Answer, Start, RuntimeExit, Exit
  <1>5. ASSUME NEW p \in Proc, RuntimeCrash(p) PROVE Intact'
    BY <1>5 DEF RuntimeCrash, Crash
  <1>6. CASE OrphansEnd
    BY <1>6 DEF OrphansEnd
  <1>7. ~(Tamper \/ TamperTree \/ TamperConfiguration)
    BY DEF Tamper, TamperTree, TamperConfiguration, OutsideChange
  <1> QED
    BY <1>1, <1>2, <1>3, <1>4, <1>5, <1>6, <1>7 DEF RuntimeNext

\* No step of phite disturbs an entry that is intact.
THEOREM IntactIsKeptAlways == RuntimeSpec => IntactIsKept
  <1>1. RuntimeSpec
            => [][Intact /\ ~Intact' => tampers' = tampers + 1]_vars
    BY IntactStep, RuntimeInvariance, PTL DEF RuntimeSpec
  <1> QED
    BY <1>1 DEF IntactIsKept
----------------------------------------------------------------------------
(***************************************************************************)
(* RuntimeCache implements VerifiedStore.                                  *)
(***************************************************************************)
LEMMA RuntimeStoreInitially == RuntimeInit => RuntimePromise!StoreInit
  BY DEF RuntimeInit, Init, RuntimePromise!StoreInit, Intact, RuntimeCall,
         Working

\* A step that moves the call of one process changes the function there.
LEMMA CallChanges ==
    ASSUME NEW p \in Proc, NEW v, RuntimeCall'[p] = v,
           \A q \in Proc \ {p} : RuntimeCall'[q] = RuntimeCall[q]
    PROVE  RuntimeCall' = [RuntimeCall EXCEPT ![p] = v]
  <1>1. RuntimeCall = [q \in Proc |-> RuntimeCall[q]]
    BY DEF RuntimeCall
  <1>2. RuntimeCall' = [q \in Proc |-> RuntimeCall'[q]]
    BY DEF RuntimeCall
  <1> QED
    BY <1>1, <1>2

\* Where a process is decides what its call is to the callers.
LEMMA CallDepends ==
    ASSUME NEW q \in Proc, pc'[q] = pc[q], rpc'[q] = rpc[q]
    PROVE  RuntimeCall'[q] = RuntimeCall[q]
  BY DEF RuntimeCall

\* A step of the Runtime Cache is a step of VerifiedStore, or a stutter.
LEMMA RuntimeStoreStep ==
    RuntimeIInv /\ [RuntimeNext]_vars
        => [RuntimePromise!StoreNext]_(RuntimePromise!storeVars)
  <1> SUFFICES ASSUME RuntimeIInv, [RuntimeNext]_vars
               PROVE  \/ RuntimePromise!StoreNext
                      \/ UNCHANGED RuntimePromise!storeVars
    OBVIOUS
  <1>a. /\ TypeOK /\ RepairsLost /\ RefusalNeedsFault /\ LockOwner
        /\ RuntimeTypes /\ RuntimeRest
    BY DEF RuntimeIInv, RuntimeTypeOK, RuntimeTypes, RuntimeRest, IInv
  <1> USE <1>a, RuntimeCacheAssumption
      DEF TypeOK, Holding, Working, Resting, RuntimeTypes, Building, Extracting,
          Configuring, RuntimeRest, StepsFollow, RuntimeCall,
          RuntimePromise!storeVars
  <1>1. ASSUME NEW p \in Proc, Begin(p), UNCHANGED runtimeVars
        PROVE  RuntimePromise!Reject(p) \/ UNCHANGED RuntimePromise!storeVars
    <2>1. CASE Goto(p, "idle", "waiting") /\ faulted' = faulted \ {p}
      BY <1>1, <2>1 DEF Begin, runtimeVars, Intact
    <2>2. CASE Goto(p, "idle", "refused") /\ faulted' = faulted \union {p}
      <3>1. \A q \in Proc \ {p} : RuntimeCall'[q] = RuntimeCall[q]
        BY <1>1, <2>2, CallDepends DEF runtimeVars
      <3>2. RuntimeCall[p] = "out" /\ RuntimeCall'[p] = "denied"
        BY <2>2
      <3>3. RuntimeCall' = [RuntimeCall EXCEPT ![p] = "denied"]
        BY <3>1, <3>2, CallChanges
      <3>4. {q \in faulted' : RuntimeCall'[q] # "out"}
              = {q \in faulted : RuntimeCall[q] # "out"} \union {p}
        BY <2>2, <3>1, <3>2
      <3>5. Intact' = Intact
        BY <1>1 DEF Begin, Intact, runtimeVars
      <3> QED
        BY <3>2, <3>3, <3>4, <3>5 DEF RuntimePromise!Reject
    <2> QED
      BY <1>1, <2>1, <2>2 DEF Begin
  <1>2. ASSUME NEW p \in Proc, Lock(p), UNCHANGED runtimeVars
        PROVE  RuntimePromise!Try(p)
    <2>1. \A q \in Proc \ {p} : RuntimeCall'[q] = RuntimeCall[q]
      BY <1>2, CallDepends DEF Lock, Goto, runtimeVars
    <2>2. RuntimeCall[p] = "out" /\ RuntimeCall'[p] = "trying"
      BY <1>2 DEF Lock, Goto
    <2>3. RuntimeCall' = [RuntimeCall EXCEPT ![p] = "trying"]
      BY <2>1, <2>2, CallChanges
    <2>4. {q \in faulted' : RuntimeCall'[q] # "out"}
            = {q \in faulted : RuntimeCall[q] # "out"}
      BY <1>2, <2>1, <2>2 DEF Lock
    <2>5. Intact' = Intact
      BY <1>2 DEF Lock, Intact, runtimeVars
    <2> QED
      BY <2>2, <2>3, <2>4, <2>5 DEF RuntimePromise!Try
  <1>3. ASSUME NEW p \in Proc, Inspect(p) \/ Request(p) \/ Remove(p),
               UNCHANGED runtimeVars
        PROVE  UNCHANGED RuntimePromise!storeVars
    BY <1>3 DEF Inspect, Request, Remove, RepairsLost, Repairing, runtimeVars,
                Intact
  <1>4. ASSUME NEW p \in Proc, Receive(p) \/ Fail(p), UNCHANGED runtimeVars
        PROVE  RuntimePromise!Fault(p) \/ UNCHANGED RuntimePromise!storeVars
    BY <1>4 DEF Receive, Fail, RuntimePromise!Fault, runtimeVars, Intact
  <1>5. ASSUME NEW p \in Proc, Publish(p), UNCHANGED runtimeVars
        PROVE  RuntimePromise!Repair(p) \/ UNCHANGED RuntimePromise!storeVars
    BY <1>5 DEF Publish, RuntimePromise!Repair, RepairsLost, Repairing,
                runtimeVars, Intact
  <1>6. ASSUME NEW p \in Proc, Refuse(p), UNCHANGED runtimeVars
        PROVE  RuntimePromise!Deny(p)
    <2>1. \A q \in Proc \ {p} : RuntimeCall'[q] = RuntimeCall[q]
      BY <1>6, CallDepends DEF Refuse, runtimeVars
    <2>2. RuntimeCall[p] = "trying" /\ RuntimeCall'[p] = "denied"
      BY <1>6 DEF Refuse
    <2>3. RuntimeCall' = [RuntimeCall EXCEPT ![p] = "denied"]
      BY <2>1, <2>2, CallChanges
    <2>4. {q \in faulted' : RuntimeCall'[q] # "out"}
            = {q \in faulted : RuntimeCall[q] # "out"}
      BY <1>6, <2>1, <2>2 DEF Refuse
    <2>5. Intact' = Intact
      BY <1>6 DEF Refuse, Intact, runtimeVars
    <2>6. p \in faulted \/ ~Intact
      BY <1>6 DEF Refuse, RefusalNeedsFault, Intact
    <2> QED
      BY <2>2, <2>3, <2>4, <2>5, <2>6 DEF RuntimePromise!Deny
  <1>7. ASSUME NEW p \in Proc, Ask(p) \/ AskLock(p) \/ Look(p),
               UNCHANGED runtimeVars
        PROVE  UNCHANGED RuntimePromise!storeVars
    BY <1>7 DEF Ask, AskLock, Look, runtimeVars, Intact
  <1>8. ASSUME NEW p \in Proc,
               \/ CheckTree(p) \/ ClearSome(p) \/ ClearAll(p) \/ Stage(p)
               \/ Unpack(p) \/ Compare(p)
        PROVE  UNCHANGED RuntimePromise!storeVars
    <2>1. CASE CheckTree(p) \/ ClearSome(p) \/ ClearAll(p)
      BY <2>1 DEF CheckTree, ClearSome, ClearAll, RGoto, ReplacesLost, Intact,
                  Gone, Exact
    <2>2. CASE Stage(p) \/ Unpack(p) \/ Compare(p)
      BY <2>2 DEF Stage, Unpack, Compare, RGoto, Intact
    <2> QED
      BY <1>8, <2>1, <2>2
  <1>9. ASSUME NEW p \in Proc, ClearBlocked(p) \/ RuntimeFail(p)
        PROVE  RuntimePromise!Fault(p) \/ UNCHANGED RuntimePromise!storeVars
    BY <1>9 DEF ClearBlocked, RuntimeFail, RGoto, RuntimePromise!Fault, Intact
  <1>10. ASSUME NEW p \in Proc,
                \/ Place(p) \/ ScanDirectory(p) \/ Configure(p)
                \/ Unlink(p) \/ Relink(p) \/ VerifyModules(p)
         PROVE  RuntimePromise!Repair(p) \/ UNCHANGED RuntimePromise!storeVars
    <2>1. pc[p] = "ready" /\ pc' = pc /\ faulted' = faulted
      BY <1>10 DEF Place, ScanDirectory, Configure, Unlink, Relink,
                   VerifyModules, RGoto, artifactVars, unchangedHistory
    <2>2. /\ rpc[p] \notin {"running"}
          /\ rpc'[p] \notin {"running"}
          /\ \A q \in Proc \ {p} : rpc'[q] = rpc[q]
      <3>1. CASE Place(p)
        BY <3>1 DEF Place, RGoto
      <3>2. CASE ScanDirectory(p)
        BY <3>2 DEF ScanDirectory, RGoto
      <3>3. CASE Configure(p)
        BY <3>3 DEF Configure, Configured, RGoto
      <3>4. CASE Unlink(p)
        BY <3>4 DEF Unlink, RGoto
      <3>5. CASE Relink(p)
        BY <3>5 DEF Relink, Configured, RGoto
      <3>6. CASE VerifyModules(p)
        BY <3>6 DEF VerifyModules, RGoto
      <3> QED
        BY <1>10, <3>1, <3>2, <3>3, <3>4, <3>5, <3>6
    <2>3. RuntimeCall' = RuntimeCall
      BY <2>1, <2>2
    <2>4. Intact => Intact'
      <3>1. CASE Place(p)
        BY <3>1 DEF Place, RGoto, ReplacesLost, Intact, artifactVars
      <3>2. CASE ScanDirectory(p)
        BY <3>2 DEF ScanDirectory, RGoto, Intact, artifactVars
      <3>3. CASE Configure(p) \/ VerifyModules(p)
        BY <3>3 DEF Configure, VerifyModules, RGoto, Intact, artifactVars
      <3>4. CASE Unlink(p) \/ Relink(p)
        BY <3>4 DEF Unlink, Relink, RGoto, ReplacesLost, Intact, artifactVars
      <3> QED
        BY <1>10, <3>1, <3>2, <3>3, <3>4
    <2>5. RuntimeCall[p] = "trying"
      BY <2>1
    <2> QED
      BY <2>1, <2>3, <2>4, <2>5 DEF RuntimePromise!Repair
  <1>11. ASSUME NEW p \in Proc, RuntimeReturn(p)
         PROVE  RuntimePromise!Grant(p) \/ RuntimePromise!Deny(p)
    <2>1. CASE rpc[p] = "installed"
      <3>1. \A q \in Proc \ {p} : RuntimeCall'[q] = RuntimeCall[q]
        BY <1>11, CallDepends DEF RuntimeReturn, Return
      <3>2. RuntimeCall[p] = "trying" /\ RuntimeCall'[p] = "granted"
        BY <1>11, <2>1 DEF RuntimeReturn, Return
      <3>3. RuntimeCall' = [RuntimeCall EXCEPT ![p] = "granted"]
        BY <3>1, <3>2, CallChanges
      <3>4. {q \in faulted' : RuntimeCall'[q] # "out"}
              = {q \in faulted : RuntimeCall[q] # "out"}
        BY <1>11, <3>1, <3>2 DEF RuntimeReturn, Return
      <3>5. Intact' = Intact
        BY <1>11 DEF RuntimeReturn, Return, Intact
      <3>6. pc[p] = "ready"
        BY <1>11 DEF RuntimeReturn, Return
      <3>7. p \in faulted \/ Intact
        BY <2>1, <3>6 DEF AcquiredIsIntact
      <3> QED
        BY <3>2, <3>3, <3>4, <3>5, <3>7 DEF RuntimePromise!Grant
    <2>2. CASE rpc[p] = "broken"
      <3>1. \A q \in Proc \ {p} : RuntimeCall'[q] = RuntimeCall[q]
        BY <1>11, CallDepends DEF RuntimeReturn, Return
      <3>2. RuntimeCall[p] = "trying" /\ RuntimeCall'[p] = "denied"
        BY <1>11, <2>2 DEF RuntimeReturn, Return
      <3>3. RuntimeCall' = [RuntimeCall EXCEPT ![p] = "denied"]
        BY <3>1, <3>2, CallChanges
      <3>4. {q \in faulted' : RuntimeCall'[q] # "out"}
              = {q \in faulted : RuntimeCall[q] # "out"}
        BY <1>11, <3>1, <3>2 DEF RuntimeReturn, Return
      <3>5. Intact' = Intact
        BY <1>11 DEF RuntimeReturn, Return, Intact
      <3>6. p \in faulted \/ ~Intact
        BY <1>11, <2>2 DEF RuntimeReturn, Return, BrokenNeedsFault, Intact,
                           Exact
      <3> QED
        BY <3>2, <3>3, <3>4, <3>5, <3>6 DEF RuntimePromise!Deny
    <2> QED
      BY <1>11, <2>1, <2>2 DEF RuntimeReturn
  <1>12. ASSUME NEW p \in Proc, RuntimeExit(p) PROVE RuntimePromise!Leave(p)
    <2>1. \A q \in Proc \ {p} : RuntimeCall'[q] = RuntimeCall[q]
      BY <1>12, CallDepends DEF RuntimeExit, Exit
    <2>2. RuntimeCall[p] # "out" /\ RuntimeCall'[p] = "out"
      BY <1>12 DEF RuntimeExit, Exit
    <2>3. RuntimeCall' = [RuntimeCall EXCEPT ![p] = "out"]
      BY <2>1, <2>2, CallChanges
    <2>4. {q \in faulted' : RuntimeCall'[q] # "out"}
            = {q \in faulted : RuntimeCall[q] # "out"} \ {p}
      BY <1>12, <2>1, <2>2 DEF RuntimeExit, Exit
    <2>5. Intact' = Intact
      BY <1>12 DEF RuntimeExit, Exit, Intact
    <2> QED
      BY <2>2, <2>3, <2>4, <2>5 DEF RuntimePromise!Leave
  <1>13. ASSUME NEW p \in Proc, Start(p) \/ LookTree(p) \/ RuntimeAnswer(p)
         PROVE  UNCHANGED RuntimePromise!storeVars
    BY <1>13 DEF Start, LookTree, RuntimeAnswer, Answer, Intact
  <1>14. ASSUME NEW p \in Proc, RuntimeCrash(p)
         PROVE  RuntimePromise!Leave(p) \/ UNCHANGED RuntimePromise!storeVars
    <2>1. \A q \in Proc \ {p} : RuntimeCall'[q] = RuntimeCall[q]
      BY <1>14, CallDepends DEF RuntimeCrash, Crash
    <2>2. RuntimeCall'[p] = "out"
      BY <1>14 DEF RuntimeCrash, Crash
    <2>3. RuntimeCall' = [RuntimeCall EXCEPT ![p] = "out"]
      BY <2>1, <2>2, CallChanges
    <2>4. {q \in faulted' : RuntimeCall'[q] # "out"}
            = {q \in faulted : RuntimeCall[q] # "out"} \ {p}
      BY <1>14, <2>1, <2>2 DEF RuntimeCrash, Crash
    <2>5. Intact' = Intact
      BY <1>14 DEF RuntimeCrash, Crash, Intact
    <2>6. CASE RuntimeCall[p] # "out"
      BY <2>3, <2>4, <2>5, <2>6 DEF RuntimePromise!Leave
    <2>7. CASE RuntimeCall[p] = "out"
      <3>1. RuntimeCall' = RuntimeCall
        BY <2>1, <2>2, <2>7
      <3>2. {q \in faulted : RuntimeCall[q] # "out"} \ {p}
              = {q \in faulted : RuntimeCall[q] # "out"}
        BY <2>7
      <3> QED
        BY <2>4, <2>5, <3>1, <3>2
    <2> QED
      BY <2>6, <2>7
  <1>15. CASE Tamper /\ UNCHANGED runtimeVars
    BY <1>15 DEF Tamper, RuntimePromise!Lose, RuntimePromise!StoreNext,
                 runtimeVars, Intact
  <1>16. CASE TamperTree
    BY <1>16 DEF TamperTree, OutsideChange, RuntimePromise!Lose,
                 RuntimePromise!StoreNext, Intact
  <1>17. CASE TamperConfiguration
    BY <1>17 DEF TamperConfiguration, OutsideChange, RuntimePromise!Lose,
                 RuntimePromise!StoreNext, Intact
  <1>18. CASE OrphansEnd \/ UNCHANGED vars
    BY <1>18 DEF OrphansEnd, vars, runtimeVars, Intact
  <1> QED
    BY <1>1, <1>2, <1>3, <1>4, <1>5, <1>6, <1>7, <1>8, <1>9, <1>10, <1>11,
       <1>12, <1>13, <1>14, <1>15, <1>16, <1>17, <1>18
       DEF RuntimeNext, ArtifactStep, ExtractionStep, ConfigurationStep,
           EndStep, RuntimePromise!StoreNext

\* Downloading, extracting and configuring under one lock keep the promise
\* of VerifiedStore for the whole entry.
THEOREM RuntimePromiseKept == RuntimeSpec => RuntimeImplementsPromise
  BY RuntimeInvariance, RuntimeStoreInitially, RuntimeStoreStep, PTL
     DEF RuntimeSpec, RuntimeImplementsPromise, RuntimePromise!StoreSpec
----------------------------------------------------------------------------
(***************************************************************************)
(* How often the runtime is extracted, and what dead processes leave.      *)
(***************************************************************************)

\* p is about to publish what it extracted from an altered archive, which
\* will have to be replaced again.
Misled(p) ==
    /\ pc[p] = "ready"
    /\ \/ rpc[p] \in {"check", "clear", "stage", "unpack"}
          /\ artifact = "corrupt"
       \/ rpc[p] \in {"compare", "place"} /\ staging[p] = "altered"

\* p may remove a tree that is exact, because the archive it is compared
\* with has been altered since its checksum was taken.
Threatens(p) ==
    /\ pc[p] = "ready"
    /\ rpc[p] \in {"check"} \union Extracting
    /\ artifact # "verified"

Replaces == tree # Exact \/ \E p \in Proc : Threatens(p)

\* The extractions that may follow without another outside change.
Due == IF \E p \in Proc : Misled(p) THEN 2 ELSE IF Replaces THEN 1 ELSE 0

ExtractionCount == placed + Due <= 1 + 2 * tampers

\* A process has either a temporary download or a temporary extraction, so
\* that its death leaves one of them behind.
LitterCount == orphans + litter <= crashes

\* No process of phite but one that dies leaves temporary files, and it
\* leaves those of one step.
LEMMA LitterStep ==
    RuntimeIInv /\ LitterCount /\ [RuntimeNext]_vars => LitterCount'
  <1> SUFFICES ASSUME RuntimeIInv, LitterCount, [RuntimeNext]_vars
               PROVE  LitterCount'
    OBVIOUS
  <1>1. /\ orphans \in Nat /\ litter \in Nat /\ crashes \in Nat
        /\ orphans + litter <= crashes
    BY DEF RuntimeIInv, IInv, TypeOK, RuntimeTypeOK, LitterCount
  <1>2. ASSUME NEW p \in Proc, RuntimeCrash(p) PROVE LitterCount'
    <2>1. temp[p] = "none" \/ ~ (staging[p] # "none" \/ draft[p])
      BY DEF RuntimeIInv, IInv, DownloadOwner, StagingOwner
    <2>2. /\ crashes' = crashes + 1
          /\ orphans' = IF temp[p] = "none" THEN orphans ELSE orphans + 1
          /\ litter' = IF staging[p] # "none" \/ draft[p]
                       THEN litter + 1 ELSE litter
      BY <1>2 DEF RuntimeCrash, Crash
    <2> QED
      BY <1>1, <2>1, <2>2 DEF LitterCount
  <1>3. CASE UNCHANGED <<orphans, litter, crashes>>
    BY <1>1, <1>3 DEF LitterCount
  <1>4. ASSUME NEW p \in Proc, ArtifactStep(p)
        PROVE  UNCHANGED <<orphans, litter, crashes>>
    BY <1>4 DEF ArtifactStep, Begin, Lock, Inspect, Remove, Request, Receive,
                Publish, Fail, Refuse, Ask, AskLock, Look, runtimeVars
  <1>5. ASSUME NEW p \in Proc, ExtractionStep(p)
        PROVE  UNCHANGED <<orphans, litter, crashes>>
    BY <1>5 DEF ExtractionStep, CheckTree, ClearSome, ClearAll, ClearBlocked,
                Stage, Unpack, Compare, Place
  <1>6. ASSUME NEW p \in Proc, ConfigurationStep(p)
        PROVE  UNCHANGED <<orphans, litter, crashes>>
    BY <1>6 DEF ConfigurationStep, ScanDirectory, Configure, Unlink, Relink,
                VerifyModules
  <1>7. ASSUME NEW p \in Proc, EndStep(p) \/ Start(p) \/ RuntimeExit(p)
        PROVE  UNCHANGED <<orphans, litter, crashes>>
    BY <1>7 DEF EndStep, RuntimeFail, RuntimeReturn, Return, LookTree,
                RuntimeAnswer, Answer, Start, RuntimeExit, Exit
  <1>8. CASE \/ Tamper /\ UNCHANGED runtimeVars
             \/ TamperTree \/ TamperConfiguration \/ OrphansEnd
             \/ UNCHANGED vars
    BY <1>3, <1>8 DEF Tamper, TamperTree, TamperConfiguration, OutsideChange,
                      OrphansEnd, runtimeVars, vars
  <1> QED
    BY <1>2, <1>3, <1>4, <1>5, <1>6, <1>7, <1>8 DEF RuntimeNext

\* A step that publishes nothing owes no more extractions than before.
LEMMA OwesNoMore ==
    ASSUME RuntimeIInv, ExtractionCount, placed' = placed,
           tampers' = tampers,
           (\E p \in Proc : Misled(p))' => \E p \in Proc : Misled(p),
           Replaces' => Replaces \/ \E p \in Proc : Misled(p)
    PROVE  ExtractionCount'
  <1>1. placed \in Nat /\ tampers \in Nat
    BY DEF RuntimeIInv, RuntimeTypeOK, TypeOK
  <1>2. Due \in 0 .. 2 /\ Due' \in 0 .. 2 /\ Due' <= Due
    BY DEF Due
  <1>3. ASSUME NEW n \in Nat, NEW m \in Nat, NEW d \in 0 .. 2, NEW e \in 0 .. 2,
               n + d <= 1 + 2 * m, e <= d
        PROVE  n + e <= 1 + 2 * m
    BY <1>3
  <1> QED
    BY <1>1, <1>2, <1>3 DEF ExtractionCount

\* An extraction that is published was due.
LEMMA OwesLess ==
    ASSUME RuntimeIInv, ExtractionCount, placed' = placed + 1,
           tampers' = tampers, Replaces,
           ~ (\E p \in Proc : Misled(p))',
           Replaces' => \E p \in Proc : Misled(p)
    PROVE  ExtractionCount'
  <1>1. placed \in Nat /\ tampers \in Nat
    BY DEF RuntimeIInv, RuntimeTypeOK, TypeOK
  <1>2. Due \in 0 .. 2 /\ Due' \in 0 .. 2 /\ Due' + 1 <= Due
    BY DEF Due
  <1>3. ASSUME NEW n \in Nat, NEW m \in Nat, NEW d \in 0 .. 2, NEW e \in 0 .. 2,
               n + d <= 1 + 2 * m, e + 1 <= d
        PROVE  n + 1 + e <= 1 + 2 * m
    BY <1>3
  <1> QED
    BY <1>1, <1>2, <1>3 DEF ExtractionCount

\* An outside change makes at most two further extractions necessary.
LEMMA OwesTwoMore ==
    ASSUME RuntimeIInv, ExtractionCount, placed' = placed,
           tampers' = tampers + 1
    PROVE  ExtractionCount'
  <1>1. placed \in Nat /\ tampers \in Nat
    BY DEF RuntimeIInv, RuntimeTypeOK, TypeOK
  <1>2. Due \in 0 .. 2 /\ Due' \in 0 .. 2
    BY DEF Due
  <1>3. ASSUME NEW n \in Nat, NEW m \in Nat, NEW d \in 0 .. 2, NEW e \in 0 .. 2,
               n + d <= 1 + 2 * m
        PROVE  n + e <= 1 + 2 * (m + 1)
    BY <1>3
  <1> QED
    BY <1>1, <1>2, <1>3 DEF ExtractionCount

\* Every extraction was due.
LEMMA ExtractionCountStep ==
    RuntimeIInv /\ ExtractionCount /\ [RuntimeNext]_vars => ExtractionCount'
  <1> SUFFICES ASSUME RuntimeIInv, ExtractionCount, [RuntimeNext]_vars
               PROVE  ExtractionCount'
    OBVIOUS
  <1>a. TypeOK /\ LockOwner /\ RuntimeTypes /\ StagingOwner /\ ReplacesLost
    BY DEF RuntimeIInv, RuntimeTypeOK, RuntimeTypes, IInv
  <1>b. StepsFollow
    BY DEF RuntimeIInv
  <1> DEFINE NoMore ==
        /\ placed' = placed /\ tampers' = tampers
        /\ (\E p \in Proc : Misled(p))' => \E p \in Proc : Misled(p)
        /\ Replaces' => Replaces \/ \E p \in Proc : Misled(p)
  <1>c. NoMore => ExtractionCount'
    BY OwesNoMore
  <1> HIDE DEF NoMore
  <1> USE <1>a, <1>b DEF TypeOK, LockOwner, Holding, Working, RuntimeTypes,
          Building, Extracting, Configuring, StagingOwner, ReplacesLost,
          StepsFollow, Misled, Threatens, Replaces, NoMore
  <1>1. ASSUME NEW p \in Proc, Begin(p) \/ Lock(p) \/ Inspect(p),
               UNCHANGED runtimeVars
        PROVE  NoMore
    <2>1. CASE Begin(p)
      <3>1. /\ pc[p] = "idle"
            /\ \A q \in Proc \ {p} : pc'[q] = pc[q]
            /\ pc'[p] \in {"waiting", "refused"}
            /\ UNCHANGED <<artifact, tree, rpc, staging>>
        BY <1>1, <2>1, BeginFrame
      <3>2. UNCHANGED <<placed, tampers>>
        BY <1>1, <2>1 DEF Begin, runtimeVars
      <3> QED
        BY <3>1, <3>2
    <2>2. CASE Lock(p) \/ Inspect(p)
      BY <1>1, <2>2 DEF Lock, Inspect, runtimeVars
    <2> QED
      BY <1>1, <2>1, <2>2
  <1>2. ASSUME NEW p \in Proc, Remove(p) \/ Request(p) \/ Receive(p),
               UNCHANGED runtimeVars
        PROVE  NoMore
    BY <1>2 DEF Remove, Request, Receive, runtimeVars
  <1>3. ASSUME NEW p \in Proc, Publish(p),
               UNCHANGED runtimeVars
        PROVE  NoMore
    BY <1>3 DEF Publish, runtimeVars
  <1>4. ASSUME NEW p \in Proc, Fail(p) \/ Refuse(p) \/ Ask(p),
               UNCHANGED runtimeVars
        PROVE  NoMore
    BY <1>4 DEF Fail, Refuse, Ask, runtimeVars
  <1>5. ASSUME NEW p \in Proc, AskLock(p) \/ Look(p),
               UNCHANGED runtimeVars
        PROVE  NoMore
    BY <1>5 DEF AskLock, Look, runtimeVars
  <1>6. ASSUME NEW p \in Proc, CheckTree(p) PROVE NoMore
    BY <1>6 DEF CheckTree, RGoto, Extraction, Exact
  <1>7. ASSUME NEW p \in Proc, ClearSome(p) \/ ClearAll(p) PROVE NoMore
    BY <1>7 DEF ClearSome, ClearAll, RGoto, Exact, Gone
  <1>8. ASSUME NEW p \in Proc, ClearBlocked(p) \/ RuntimeFail(p) PROVE NoMore
    BY <1>8 DEF ClearBlocked, RuntimeFail, RGoto
  <1>9. ASSUME NEW p \in Proc, Stage(p) PROVE NoMore
    BY <1>9 DEF Stage, RGoto
  <1>10. ASSUME NEW p \in Proc, Unpack(p) PROVE NoMore
    BY <1>10 DEF Unpack, RGoto
  <1>11. ASSUME NEW p \in Proc, Compare(p) PROVE NoMore
    BY <1>11 DEF Compare, RGoto
  <1>12. ASSUME NEW p \in Proc, Place(p) PROVE ExtractionCount'
    <2>1. CASE tree = Gone
      <3>1. /\ placed' = placed + 1 /\ tampers' = tampers
            /\ pc' = pc /\ artifact' = artifact /\ pc[p] = "ready"
            /\ rpc[p] = "place" /\ rpc' = [rpc EXCEPT ![p] = "scan"]
            /\ staging' = [staging EXCEPT ![p] = "none"]
            /\ tree' = [marker |-> "valid", content |-> staging[p]]
        BY <1>12, <2>1 DEF Place, RGoto, Gone
      <3>2. \A q \in Proc \ {p} : pc[q] # "ready"
        BY <3>1
      <3>3. ~ (\E q \in Proc : Misled(q))' /\ ~ (\E q \in Proc : Threatens(q))'
        BY <3>1, <3>2
      <3>4. CASE staging[p] = "altered"
        <4>1. Misled(p) /\ Replaces
          BY <2>1, <3>1, <3>4 DEF Gone, Exact
        <4> QED
          BY <3>1, <3>3, <4>1, OwesLess
      <3>5. CASE staging[p] = "exact"
        <4>1. Replaces /\ ~ Replaces'
          BY <2>1, <3>1, <3>3, <3>5 DEF Gone, Exact
        <4> QED
          BY <3>1, <3>3, <4>1, OwesLess
      <3> QED
        BY <3>1, <3>4, <3>5
    <2>2. CASE tree # Gone
      BY <1>12, <1>c, <2>2 DEF Place, RGoto
    <2> QED
      BY <2>1, <2>2
  <1>13. ASSUME NEW p \in Proc, ScanDirectory(p) \/ Configure(p) \/ Unlink(p)
                                \/ Relink(p) \/ VerifyModules(p)
        PROVE  NoMore
    BY <1>13 DEF ScanDirectory, Configure, Unlink, Relink, VerifyModules,
                 RGoto, Configured
  <1>14. ASSUME NEW p \in Proc, RuntimeReturn(p) \/ Start(p) \/ RuntimeExit(p)
        PROVE  NoMore
    BY <1>14 DEF RuntimeReturn, Return, Start, RuntimeExit, Exit
  <1>15. ASSUME NEW p \in Proc, LookTree(p) \/ RuntimeAnswer(p) PROVE NoMore
    BY <1>15 DEF LookTree, RuntimeAnswer, Answer
  <1>16. ASSUME NEW p \in Proc, RuntimeCrash(p) PROVE NoMore
    BY <1>16 DEF RuntimeCrash, Crash
  <1>17. CASE \/ Tamper /\ UNCHANGED runtimeVars
              \/ TamperTree \/ TamperConfiguration
    BY <1>17, OwesTwoMore DEF Tamper, TamperTree, TamperConfiguration,
       OutsideChange, runtimeVars
  <1>18. CASE OrphansEnd \/ UNCHANGED vars
    BY <1>18, <1>c DEF OrphansEnd, vars, runtimeVars
  <1> QED
    BY <1>c, <1>1, <1>2, <1>3, <1>4, <1>5, <1>6, <1>7, <1>8, <1>9, <1>10,
       <1>11, <1>12, <1>13, <1>14, <1>15, <1>16, <1>17, <1>18 DEF
       RuntimeNext, ArtifactStep, ExtractionStep, ConfigurationStep, EndStep

\* Both counts hold in every reachable state.
LEMMA CountInvariance == RuntimeSpec => [](LitterCount /\ ExtractionCount)
  <1>1. RuntimeInit => LitterCount /\ ExtractionCount
    <2> SUFFICES ASSUME RuntimeInit PROVE LitterCount /\ ExtractionCount
      OBVIOUS
    <2>1. orphans = 0 /\ litter = 0 /\ crashes = 0 /\ placed = 0 /\ tampers = 0
      BY DEF RuntimeInit, Init
    <2>2. Due \in 0 .. 1
      BY DEF RuntimeInit, Init, Due, Misled
    <2> QED
      BY <2>1, <2>2 DEF LitterCount, ExtractionCount
  <1> QED
    BY <1>1, RuntimeInvariance, LitterStep, ExtractionCountStep, PTL
       DEF RuntimeSpec

\* Only a process that died leaves temporary files, one per death: whoever is
\* alive and has some holds the lock.
THEOREM RuntimeLeftoversHaveCause == RuntimeSpec => []RuntimeLeftoversNeedCrash
  <1>1. RuntimeIInv /\ LitterCount => RuntimeLeftoversNeedCrash
    BY DEF RuntimeIInv, IInv, LitterCount, LockOwner, DownloadOwner,
           StagingOwner, RuntimeLeftoversNeedCrash, Holding, Working
  <1> QED
    BY <1>1, RuntimeInvariance, CountInvariance, PTL

\* However many processes run together, the runtime is extracted once, and at
\* most twice more for every outside change.
THEOREM ExtractedOnce == RuntimeSpec => []FewExtractions
  <1>1. RuntimeIInv /\ ExtractionCount => FewExtractions
    <2> SUFFICES ASSUME RuntimeIInv, ExtractionCount PROVE FewExtractions
      OBVIOUS
    <2>1. placed \in Nat /\ tampers \in Nat
      BY DEF RuntimeIInv, RuntimeTypeOK, TypeOK
    <2>2. Due \in 0 .. 2
      BY DEF Due
    <2> QED
      BY <2>1, <2>2 DEF ExtractionCount, FewExtractions
  <1> QED
    BY <1>1, RuntimeInvariance, CountInvariance, PTL
=============================================================================

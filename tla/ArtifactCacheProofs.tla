------------------------- MODULE ArtifactCacheProofs -------------------------
(***************************************************************************)
(* Proofs about ArtifactCache, for every set of processes and every bound. *)
(***************************************************************************)
EXTENDS ArtifactCache, TLAPS

USE DEF artifactVars, unchangedHistory, Goto, TakeLock

\* What a step of an operation of p does to the parts of the invariant is
\* proved operation by operation.
LEMMA InitIInv == Init => IInv
  <1> SUFFICES ASSUME Init PROVE IInv
    OBVIOUS
  <1> USE ArtifactCacheAssumption DEF Init
  <1>1. TypeOK
    <2>1. pc \in [Proc -> Holding \union Resting]
      BY DEF Holding, Resting
    <2>2. temp \in [Proc -> Download]
      BY DEF Download
    <2>3. artifact \in Content /\ directory \in BOOLEAN
      BY DEF Content
    <2>4. /\ lock \in Proc \union {None}
          /\ orphans \in Nat /\ published \in Nat
          /\ crashes \in 0 .. MaxCrashes /\ tampers \in 0 .. MaxTampers
      OBVIOUS
    <2>5. faulted \in SUBSET Proc
      OBVIOUS
    <2> QED
      BY <2>1, <2>2, <2>3, <2>4, <2>5 DEF TypeOK
  <1>2. LockOwner
    BY DEF LockOwner, Working, Holding
  <1>3. RepairsLost /\ RefusedStays /\ AcquiredIsVerified /\ RefusalNeedsFault
    BY DEF RepairsLost, RefusedStays, AcquiredIsVerified, RefusalNeedsFault,
           Repairing
  <1>4. DownloadOwner
    BY DEF DownloadOwner
  <1>5. PublicationCount /\ orphans <= crashes
    BY DEF PublicationCount
  <1> QED
    BY <1>1, <1>2, <1>3, <1>4, <1>5 DEF IInv

\* Type correctness is preserved by every step on its own.
LEMMA TypeStep == TypeOK /\ [Next]_artifactVars => TypeOK'
  <1> SUFFICES ASSUME TypeOK, [Next]_artifactVars PROVE TypeOK'
    OBVIOUS
  <1> USE ArtifactCacheAssumption
      DEF TypeOK, Content, Download, Working, Holding, Resting
  <1>1. ASSUME NEW p \in Proc, Begin(p) PROVE TypeOK'
    BY <1>1 DEF Begin
  <1>2. ASSUME NEW p \in Proc, Lock(p) PROVE TypeOK'
    BY <1>2 DEF Lock
  <1>3. ASSUME NEW p \in Proc, Inspect(p) PROVE TypeOK'
    BY <1>3 DEF Inspect
  <1>4. ASSUME NEW p \in Proc, Remove(p) PROVE TypeOK'
    BY <1>4 DEF Remove
  <1>5. ASSUME NEW p \in Proc, Request(p) PROVE TypeOK'
    BY <1>5 DEF Request
  <1>6. ASSUME NEW p \in Proc, Receive(p) PROVE TypeOK'
    BY <1>6 DEF Receive
  <1>7. ASSUME NEW p \in Proc, Publish(p) PROVE TypeOK'
    BY <1>7 DEF Publish
  <1>8. ASSUME NEW p \in Proc, Fail(p) PROVE TypeOK'
    BY <1>8 DEF Fail
  <1>9. ASSUME NEW p \in Proc, Refuse(p) PROVE TypeOK'
    BY <1>9 DEF Refuse
  <1>10. ASSUME NEW p \in Proc, Return(p) PROVE TypeOK'
    BY <1>10 DEF Return
  <1>11. ASSUME NEW p \in Proc, Exit(p) PROVE TypeOK'
    BY <1>11 DEF Exit
  <1>12. ASSUME NEW p \in Proc, Ask(p) \/ AskStep(p) PROVE TypeOK'
    BY <1>12 DEF Ask, AskStep, AskLock, Look, Answer
  <1>13. ASSUME NEW p \in Proc, Crash(p) PROVE TypeOK'
    BY <1>13 DEF Crash
  <1>14. CASE Tamper
    BY <1>14 DEF Tamper
  <1>15. CASE UNCHANGED artifactVars
    BY <1>15
  <1> QED
    BY <1>1, <1>2, <1>3, <1>4, <1>5, <1>6, <1>7, <1>8, <1>9, <1>10, <1>11,
       <1>12, <1>13, <1>14, <1>15 DEF Next, AcquireStep

\* ArtifactCache is type correct.
THEOREM TypeCorrect == Spec => []TypeOK
  <1>1. Init => TypeOK
    BY InitIInv DEF IInv
  <1> QED
    BY <1>1, TypeStep, PTL DEF Spec

\* The rest of the invariant: IInv is inductive.
Rest ==
    /\ LockOwner /\ RepairsLost /\ DownloadOwner /\ RefusedStays
    /\ PublicationCount /\ AcquiredIsVerified /\ RefusalNeedsFault
    /\ orphans <= crashes

\* Every action keeps the inductive invariant.
LEMMA IInvStep == IInv /\ [Next]_artifactVars => IInv'
  <1> SUFFICES ASSUME IInv, [Next]_artifactVars PROVE Rest'
    BY TypeStep DEF IInv, Rest
  <1>0. TypeOK'
    BY TypeStep DEF IInv
  <1> USE ArtifactCacheAssumption
      DEF IInv, Rest, TypeOK, Content, Download, Working, Holding, Resting,
          Repairing, LockOwner, RepairsLost, DownloadOwner, RefusedStays,
          PublicationCount, AcquiredIsVerified, RefusalNeedsFault
  <1>1. ASSUME NEW p \in Proc, Begin(p) PROVE Rest'
    <2>0. UNCHANGED <<lock, artifact, temp, published, unchangedHistory>>
      BY <1>1 DEF Begin
    <2>1. CASE Goto(p, "idle", "waiting") /\ faulted' = faulted \ {p}
      BY <2>0, <2>1 DEF unchangedHistory
    <2>2. CASE Goto(p, "idle", "refused") /\ faulted' = faulted \union {p}
      BY <1>1, <2>2 DEF Begin
    <2> QED
      BY <1>1, <2>1, <2>2 DEF Begin
  <1>2. ASSUME NEW p \in Proc, Lock(p) PROVE Rest'
    BY <1>2 DEF Lock
  <1>3. ASSUME NEW p \in Proc, Inspect(p) PROVE Rest'
    BY <1>3 DEF Inspect
  <1>4. ASSUME NEW p \in Proc, Remove(p) PROVE Rest'
    BY <1>4 DEF Remove
  <1>5. ASSUME NEW p \in Proc, Request(p) PROVE Rest'
    BY <1>5 DEF Request
  <1>6. ASSUME NEW p \in Proc, Receive(p) PROVE Rest'
    BY <1>6 DEF Receive
  <1>7. ASSUME NEW p \in Proc, Publish(p) PROVE Rest'
    BY <1>7 DEF Publish
  <1>8. ASSUME NEW p \in Proc, Fail(p) PROVE Rest'
    BY <1>8 DEF Fail
  <1>9. ASSUME NEW p \in Proc, Refuse(p) PROVE Rest'
    BY <1>9 DEF Refuse
  <1>10. ASSUME NEW p \in Proc, Return(p) PROVE Rest'
    BY <1>10 DEF Return
  <1>11. ASSUME NEW p \in Proc, Exit(p) PROVE Rest'
    BY <1>11 DEF Exit
  <1>12. ASSUME NEW p \in Proc, Ask(p) PROVE Rest'
    BY <1>12 DEF Ask
  <1>13. ASSUME NEW p \in Proc, AskStep(p) PROVE Rest'
    BY <1>13 DEF AskStep, AskLock, Look, Answer
  <1>14. ASSUME NEW p \in Proc, Crash(p) PROVE Rest'
    BY <1>14 DEF Crash
  <1>15. CASE Tamper
    BY <1>15 DEF Tamper
  <1>16. CASE UNCHANGED artifactVars
    BY <1>16
  <1> QED
    BY <1>1, <1>2, <1>3, <1>4, <1>5, <1>6, <1>7, <1>8, <1>9, <1>10, <1>11,
       <1>12, <1>13, <1>14, <1>15, <1>16 DEF Next, AcquireStep

\* The inductive invariant holds in every reachable state.
LEMMA Invariance == Spec => []IInv
  BY InitIInv, IInvStep, PTL DEF Spec

\* What an undisturbed Acquire returned stays verified after the unlock.
THEOREM AcquiredStaysVerified == Spec => []AcquiredIsVerified
  <1>1. IInv => AcquiredIsVerified
    BY DEF IInv
  <1> QED
    BY <1>1, Invariance, PTL

\* The entry repairs itself: only a fault or an unreadable file refuses.
THEOREM RefusalHasCause == Spec => []RefusalNeedsFault
  <1>1. IInv => RefusalNeedsFault
    BY DEF IInv
  <1> QED
    BY <1>1, Invariance, PTL

\* Processes that start together download once.
THEOREM PublishedOnce == Spec => []OnePublicationPerLoss
  <1>1. IInv => OnePublicationPerLoss
    BY DEF IInv, TypeOK, PublicationCount, OnePublicationPerLoss
  <1> QED
    BY <1>1, Invariance, PTL

\* Only dead processes leave temporary downloads behind.
THEOREM LeftoversHaveCause == Spec => []LeftoversNeedCrash
  <1>1. IInv => LeftoversNeedCrash
    BY DEF IInv, TypeOK, DownloadOwner, LockOwner, LeftoversNeedCrash, Holding,
           Working
  <1> QED
    BY <1>1, Invariance, PTL

----------------------------------------------------------------------------
\* No step of phite removes or replaces a verified artifact.  Only Remove,
\* Publish and Tamper write the file: the first needs it not verified, the
\* second leaves it verified, the third is counted.
THEOREM VerifiedIsKeptAlways == Spec => VerifiedIsKept
  <1> DEFINE Kept == artifact = "verified" /\ artifact' # "verified"
                         => tampers' = tampers + 1
  <1>1. IInv /\ [Next]_artifactVars => [Kept]_artifactVars
    <2> SUFFICES ASSUME IInv, Next, artifact = "verified",
                        artifact' # "verified"
                 PROVE  tampers' = tampers + 1
      BY DEF artifactVars
    <2>1. ASSUME NEW p \in Proc, Remove(p) PROVE FALSE
      BY <2>1 DEF Remove, IInv, RepairsLost, Repairing
    <2>2. ASSUME NEW p \in Proc, Publish(p) PROVE FALSE
      BY <2>2 DEF Publish
    <2>3. ASSUME NEW p \in Proc,
                 \/ Begin(p) \/ Lock(p) \/ Inspect(p) \/ Request(p)
                 \/ Receive(p) \/ Fail(p) \/ Refuse(p) \/ Return(p)
                 \/ Exit(p) \/ Ask(p) \/ AskStep(p) \/ Crash(p)
          PROVE  FALSE
      BY <2>3 DEF Begin, Lock, Inspect, Request, Receive, Fail, Refuse, Return,
                  Exit, Ask, AskStep, AskLock, Look, Answer, Crash
    <2>4. CASE Tamper
      BY <2>4 DEF Tamper
    <2> QED
      BY <2>1, <2>2, <2>3, <2>4 DEF Next, AcquireStep
  <1>2. Spec => [][Kept]_artifactVars
    BY <1>1, Invariance, PTL DEF Spec
  <1> QED
    BY <1>2 DEF VerifiedIsKept
----------------------------------------------------------------------------
(***************************************************************************)
(* ArtifactCache implements VerifiedStore.                                 *)
(***************************************************************************)
LEMMA StoreInitially == Init => Promise!StoreInit
  BY DEF Init, Promise!StoreInit, PromisedStore, PromisedCall, Working

\* A step that moves the call of one process changes the function there.
LEMMA PromisedCallChanges ==
    ASSUME NEW p \in Proc, NEW v, PromisedCall'[p] = v,
           \A q \in Proc \ {p} : PromisedCall'[q] = PromisedCall[q]
    PROVE  PromisedCall' = [PromisedCall EXCEPT ![p] = v]
  <1>1. PromisedCall = [q \in Proc |-> PromisedCall[q]]
    BY DEF PromisedCall
  <1>2. PromisedCall' = [q \in Proc |-> PromisedCall'[q]]
    BY DEF PromisedCall
  <1> QED
    BY <1>1, <1>2

\* Where a process is decides what its call is.
LEMMA PromisedCallDepends ==
    ASSUME NEW q \in Proc, pc'[q] = pc[q]
    PROVE  PromisedCall'[q] = PromisedCall[q]
  BY DEF PromisedCall

\* A step of the file protocol is a step of VerifiedStore, or a stutter.
LEMMA StoreStep ==
    IInv /\ [Next]_artifactVars
        => [Promise!StoreNext]_(Promise!storeVars)
  <1> SUFFICES ASSUME IInv, [Next]_artifactVars
               PROVE  Promise!StoreNext \/ UNCHANGED Promise!storeVars
    OBVIOUS
  <1> USE DEF IInv, TypeOK, Content, Download, Working, Holding, Resting,
              Repairing, PromisedStore, PromisedCall, Promise!storeVars
  <1>1. ASSUME NEW p \in Proc, Begin(p)
        PROVE  Promise!Reject(p) \/ UNCHANGED Promise!storeVars
    <2>1. CASE Goto(p, "idle", "waiting") /\ faulted' = faulted \ {p}
      BY <1>1, <2>1 DEF Begin
    <2>2. CASE Goto(p, "idle", "refused") /\ faulted' = faulted \union {p}
      <3>1. \A q \in Proc \ {p} : PromisedCall'[q] = PromisedCall[q]
        BY <2>2, PromisedCallDepends DEF Goto
      <3>2. PromisedCall[p] = "out" /\ PromisedCall'[p] = "denied"
        BY <2>2 DEF Goto
      <3>3. PromisedCall' = [PromisedCall EXCEPT ![p] = "denied"]
        BY <3>1, <3>2, PromisedCallChanges
      <3>4. {q \in faulted' : PromisedCall'[q] # "out"}
              = {q \in faulted : PromisedCall[q] # "out"} \union {p}
        BY <2>2, <3>1, <3>2
      <3> QED
        BY <1>1, <3>2, <3>3, <3>4 DEF Begin, Promise!Reject
    <2> QED
      BY <1>1, <2>1, <2>2 DEF Begin
  <1>2. ASSUME NEW p \in Proc, Lock(p) PROVE Promise!Try(p)
    <2>1. \A q \in Proc \ {p} : PromisedCall'[q] = PromisedCall[q]
      BY <1>2, PromisedCallDepends DEF Lock, Goto
    <2>2. PromisedCall[p] = "out" /\ PromisedCall'[p] = "trying"
      BY <1>2 DEF Lock, Goto
    <2>3. PromisedCall' = [PromisedCall EXCEPT ![p] = "trying"]
      BY <2>1, <2>2, PromisedCallChanges
    <2>4. {q \in faulted' : PromisedCall'[q] # "out"}
            = {q \in faulted : PromisedCall[q] # "out"}
      BY <1>2, <2>1, <2>2 DEF Lock, Goto
    <2> QED
      BY <1>2, <2>2, <2>3, <2>4 DEF Lock, Promise!Try
  <1>3. ASSUME NEW p \in Proc, Inspect(p) \/ Request(p) \/ Remove(p)
        PROVE  UNCHANGED Promise!storeVars
    BY <1>3 DEF Inspect, Request, Remove, RepairsLost
  <1>4. ASSUME NEW p \in Proc, Receive(p) \/ Fail(p)
        PROVE  Promise!Fault(p) \/ UNCHANGED Promise!storeVars
    BY <1>4 DEF Receive, Fail, Promise!Fault
  <1>5. ASSUME NEW p \in Proc, Publish(p)
        PROVE  Promise!Repair(p) \/ UNCHANGED Promise!storeVars
    BY <1>5 DEF Publish, Promise!Repair, RepairsLost
  <1>6. ASSUME NEW p \in Proc, Refuse(p) PROVE Promise!Deny(p)
    <2>1. \A q \in Proc \ {p} : PromisedCall'[q] = PromisedCall[q]
      BY <1>6, PromisedCallDepends DEF Refuse
    <2>2. PromisedCall[p] = "trying" /\ PromisedCall'[p] = "denied"
      BY <1>6 DEF Refuse
    <2>3. PromisedCall' = [PromisedCall EXCEPT ![p] = "denied"]
      BY <2>1, <2>2, PromisedCallChanges
    <2>4. {q \in faulted' : PromisedCall'[q] # "out"}
            = {q \in faulted : PromisedCall[q] # "out"}
      BY <1>6, <2>1, <2>2 DEF Refuse
    <2>5. p \in faulted \/ artifact # "verified"
      BY <1>6 DEF Refuse, RefusalNeedsFault
    <2> QED
      BY <1>6, <2>2, <2>3, <2>4, <2>5 DEF Refuse, Promise!Deny
  <1>7. ASSUME NEW p \in Proc, Return(p) PROVE Promise!Grant(p)
    <2>1. \A q \in Proc \ {p} : PromisedCall'[q] = PromisedCall[q]
      BY <1>7, PromisedCallDepends DEF Return
    <2>2. PromisedCall[p] = "trying" /\ PromisedCall'[p] = "granted"
      BY <1>7 DEF Return
    <2>3. PromisedCall' = [PromisedCall EXCEPT ![p] = "granted"]
      BY <2>1, <2>2, PromisedCallChanges
    <2>4. {q \in faulted' : PromisedCall'[q] # "out"}
            = {q \in faulted : PromisedCall[q] # "out"}
      BY <1>7, <2>1, <2>2 DEF Return
    <2>5. p \in faulted \/ artifact = "verified"
      BY <1>7 DEF Return, AcquiredIsVerified
    <2> QED
      BY <1>7, <2>2, <2>3, <2>4, <2>5 DEF Return, Promise!Grant
  <1>8. ASSUME NEW p \in Proc, Exit(p) PROVE Promise!Leave(p)
    <2>1. \A q \in Proc \ {p} : PromisedCall'[q] = PromisedCall[q]
      BY <1>8, PromisedCallDepends DEF Exit
    <2>2. PromisedCall[p] # "out" /\ PromisedCall'[p] = "out"
      BY <1>8 DEF Exit
    <2>3. PromisedCall' = [PromisedCall EXCEPT ![p] = "out"]
      BY <2>1, <2>2, PromisedCallChanges
    <2>4. {q \in faulted' : PromisedCall'[q] # "out"}
            = {q \in faulted : PromisedCall[q] # "out"} \ {p}
      BY <1>8, <2>1, <2>2 DEF Exit
    <2> QED
      BY <1>8, <2>2, <2>3, <2>4 DEF Exit, Promise!Leave
  <1>9. ASSUME NEW p \in Proc, Ask(p) \/ AskStep(p)
        PROVE  UNCHANGED Promise!storeVars
    BY <1>9 DEF Ask, AskStep, AskLock, Look, Answer
  <1>10. ASSUME NEW p \in Proc, Crash(p)
         PROVE  Promise!Leave(p) \/ UNCHANGED Promise!storeVars
    <2>1. \A q \in Proc \ {p} : PromisedCall'[q] = PromisedCall[q]
      BY <1>10, PromisedCallDepends DEF Crash
    <2>2. PromisedCall'[p] = "out"
      BY <1>10 DEF Crash
    <2>3. PromisedCall' = [PromisedCall EXCEPT ![p] = "out"]
      BY <2>1, <2>2, PromisedCallChanges
    <2>4. {q \in faulted' : PromisedCall'[q] # "out"}
            = {q \in faulted : PromisedCall[q] # "out"} \ {p}
      BY <1>10, <2>1, <2>2 DEF Crash
    <2>5. artifact' = artifact
      BY <1>10 DEF Crash
    <2>6. CASE PromisedCall[p] # "out"
      BY <2>3, <2>4, <2>5, <2>6 DEF Promise!Leave
    <2>7. CASE PromisedCall[p] = "out"
      <3>1. PromisedCall' = PromisedCall
        BY <2>1, <2>2, <2>7
      <3>2. {q \in faulted : PromisedCall[q] # "out"} \ {p}
              = {q \in faulted : PromisedCall[q] # "out"}
        BY <2>7
      <3> QED
        BY <2>4, <2>5, <3>1, <3>2
    <2> QED
      BY <2>6, <2>7
  <1>11. CASE Tamper
    BY <1>11 DEF Tamper, Promise!Lose, Promise!StoreNext
  <1>12. CASE UNCHANGED artifactVars
    BY <1>12
  <1> QED
    BY <1>1, <1>2, <1>3, <1>4, <1>5, <1>6, <1>7, <1>8, <1>9, <1>10, <1>11,
       <1>12 DEF Next, AcquireStep, Promise!StoreNext

\* The protocol of the file lock, the hash, the temporary file and the
\* rename keeps the promise of VerifiedStore.
THEOREM PromiseKept == Spec => ImplementsPromise
  <1>1. Spec => []IInv
    BY Invariance
  <1> QED
    BY <1>1, StoreInitially, StoreStep, PTL
       DEF Spec, ImplementsPromise, Promise!StoreSpec
=============================================================================

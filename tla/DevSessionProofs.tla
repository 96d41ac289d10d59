-------------------------- MODULE DevSessionProofs --------------------------
(***************************************************************************)
(* Proofs about DevSession, for every set of sessions and of ports, on     *)
(* every system: a session that has ended has stopped what it started, and *)
(* DevSession implements SessionLifecycle.                                 *)
(***************************************************************************)
EXTENDS DevSession, TLAPS

----------------------------------------------------------------------------
(***************************************************************************)
(* The inductive invariant.                                                *)
(***************************************************************************)

\* Run has a child exactly from command.Start on, and state.done is closed
\* only for a child that has stopped.
ChildFollows ==
    \A s \in Session :
        /\ main[s] \in {"idle", "probing", "starting"} => child[s] = "none"
        /\ main[s] \in (Running \ {"probing", "starting"}) => child[s] # "none"
        /\ done[s] => child[s] = "dead"

\* Only the session that looks for a port, or its child, listens for it, and
\* nowhere but on the port that was picked.
ListenerOwned ==
    \A s \in Session, n \in Port :
        listener[n] = s
            => port[s] = n /\ (main[s] = "probing" \/ child[s] = "listening")

IInv ==
    TypeOK /\ ChildFollows /\ ListenerOwned /\ EndedMeansStopped

\* Every action keeps the invariant: Run has no child before command.Start
\* and lets go of it only past its end, and whoever stops listening gives up
\* the port.
LEMMA IInvStep == IInv /\ [Next]_vars => IInv'
  <1> SUFFICES ASSUME IInv, [Next]_vars PROVE IInv'
    OBVIOUS
  <1> USE DevSessionAssumption DEF IInv, TypeOK, ChildFollows, ListenerOwned,
          EndedMeansStopped, Starting, Serving, Stopping, Running, Over, Alive,
          fixed, childState, requests, signals
  <1>1. ASSUME NEW s \in Session, Pick(s) PROVE IInv'
    <2>1. CASE \E n \in Port : listener[n] = Free /\ Step(s, "idle", "probing")
                    /\ port' = [port EXCEPT ![s] = n]
                    /\ listener' = [listener EXCEPT ![n] = s]
      <3>1. PICK n \in Port :
               /\ listener[n] = Free /\ main[s] = "idle"
               /\ main' = [main EXCEPT ![s] = "probing"]
               /\ port' = [port EXCEPT ![s] = n]
               /\ listener' = [listener EXCEPT ![n] = s]
               /\ UNCHANGED <<child, done, interrupted, expired, typed,
                              asked, kills, system>>
        BY <1>1, <2>1 DEF Pick, Step
      <3>2. \A m \in Port : listener[m] # s
        BY <3>1
      <3>3. TypeOK'
        BY <3>1
      <3>4. ChildFollows'
        BY <3>1
      <3>5. ListenerOwned'
        BY <3>1, <3>2
      <3>6. EndedMeansStopped'
        BY <3>1
      <3> QED
        BY <3>3, <3>4, <3>5, <3>6
    <2>2. CASE Step(s, "idle", "ended") /\ UNCHANGED <<port, listener>>
      BY <1>1, <2>2 DEF Pick, Step
    <2> QED
      BY <1>1, <2>1, <2>2 DEF Pick
  <1>2. ASSUME NEW s \in Session, Unlisten(s) PROVE IInv'
    BY <1>2 DEF Unlisten, Step, Hangup
  <1>3. ASSUME NEW s \in Session, StartChild(s) PROVE IInv'
    BY <1>3 DEF StartChild, Step
  <1>4. ASSUME NEW s \in Session, Dial(s) PROVE IInv'
    BY <1>4 DEF Dial
  <1>5. ASSUME NEW s \in Session, WaitTick(s) \/ Announce(s) \/ Opened(s)
        PROVE  IInv'
    BY <1>5 DEF WaitTick, Announce, Opened, Step
  <1>6. ASSUME NEW s \in Session, WaitFails(s) PROVE IInv'
    BY <1>6 DEF WaitFails, Step
  <1>7. ASSUME NEW s \in Session, ServeInterrupted(s) PROVE IInv'
    BY <1>7 DEF ServeInterrupted, Step
  <1>8. ASSUME NEW s \in Session, ServeStopped(s) PROVE IInv'
    BY <1>8 DEF ServeStopped, Step
  <1>9. ASSUME NEW s \in Session, Interrupt(s) \/ Expire(s) \/ Type(s)
       PROVE  IInv'
    <2>1. TypeOK'
      <3>1. CASE Interrupt(s)
        BY <3>1 DEF Interrupt
      <3>2. CASE Expire(s)
        BY <3>2 DEF Expire
      <3>3. CASE Type(s)
        BY <3>3 DEF Type
      <3> QED
        BY <1>9, <3>1, <3>2, <3>3
    <2>2. UNCHANGED <<main, port, listener, child, done, system>>
      BY <1>9 DEF Interrupt, Expire, Type
    <2>3. ChildFollows' /\ ListenerOwned'
      BY <2>2
    <2>4. EndedMeansStopped'
      BY <2>2
    <2> QED
      BY <2>1, <2>3, <2>4
  <1>10. ASSUME NEW s \in Session, Check(s) \/ Terminated(s) PROVE IInv'
    BY <1>10 DEF Check, Terminated, Step
  <1>11. ASSUME NEW s \in Session, Signal(s) PROVE IInv'
    BY <1>11 DEF Signal, Step, Destroy, Hangup
  <1>12. ASSUME NEW s \in Session, ForceStop(s) PROVE IInv'
    BY <1>12 DEF ForceStop, Step, Destroy, Hangup
  <1>13. ASSUME NEW s \in Session, Killed(s) PROVE IInv'
    BY <1>13 DEF Killed, Step
  <1>14. ASSUME NEW s \in Session, Reap(s) PROVE IInv'
    BY <1>14 DEF Reap
  <1>15. ASSUME NEW s \in Session, Bind(s) PROVE IInv'
    BY <1>15 DEF Bind
  <1>16. ASSUME NEW s \in Session, ChildStops(s) PROVE IInv'
    BY <1>16 DEF ChildStops, Destroy, Hangup
  <1>17. ASSUME NEW s \in Session, ServeOpen(s) PROVE IInv'
    BY <1>17 DEF ServeOpen, Step
  <1>18. ASSUME NEW s \in Session, Die(s) PROVE IInv'
    BY <1>18 DEF Die, Hangup
  <1>19. ASSUME NEW n \in Port, Outside(n) PROVE IInv'
    BY <1>19 DEF Outside
  <1>20. CASE UNCHANGED vars
    BY <1>20 DEF vars
  <1> QED
    BY <1>1, <1>2, <1>3, <1>4, <1>5, <1>6, <1>7, <1>8, <1>9, <1>10, <1>11,
       <1>12, <1>13, <1>14, <1>15, <1>16, <1>17, <1>18, <1>19, <1>20 DEF Next,
       MainStep, Select, ChildStep, Environment

----------------------------------------------------------------------------
(***************************************************************************)
(* The theorems.                                                           *)
(***************************************************************************)
\* Nobody listens, and no child runs, before the first step.
LEMMA InitIInv == Init => IInv
  BY DevSessionAssumption
     DEF Init, IInv, TypeOK, ChildFollows, ListenerOwned, EndedMeansStopped,
         Starting, Serving, Stopping, Running, Over, Alive

\* The inductive invariant holds in every reachable state.
LEMMA Invariance == Spec => []IInv
  BY InitIInv, IInvStep, PTL DEF Spec

\* DevSession is type correct.
THEOREM TypeCorrect == Spec => []TypeOK
  <1>1. IInv => TypeOK
    BY DEF IInv
  <1> QED
    BY <1>1, Invariance, PTL

\* When Run returns, FrankenPHP is not running and the Local Endpoint is
\* closed, whatever Ctrl+C, the startup timer and the child do meanwhile and
\* whichever kill fails; or else Run says that it gave up.
THEOREM EndedStaysStopped == Spec => []EndedMeansStopped
  <1>1. IInv => EndedMeansStopped
    BY DEF IInv
  <1> QED
    BY <1>1, Invariance, PTL

----------------------------------------------------------------------------
(***************************************************************************)
(* DevSession implements SessionLifecycle.                                 *)
(***************************************************************************)
\* Before the first step every session is out.
LEMMA LifecycleInitially == Init => Lifecycle!LifecycleInit
  BY DEF Init, Lifecycle!LifecycleInit, Phase, Process, Alive

\* The phase of a session depends on its own Run.
LEMMA PhaseDepends ==
    ASSUME NEW s \in Session, main'[s] = main[s]
    PROVE  Phase'[s] = Phase[s]
  BY DEF Phase

\* Its process depends on its own child.
LEMMA ProcessDepends ==
    ASSUME NEW s \in Session, child'[s] = child[s]
    PROVE  Process'[s] = Process[s]
  BY DEF Process

\* A step of one Run moves the phase of its session, or none.
LEMMA PhaseChanges ==
    ASSUME NEW s \in Session, NEW v, Phase'[s] = v,
           \A r \in Session \ {s} : main'[r] = main[r]
    PROVE  Phase' = [Phase EXCEPT ![s] = v]
  <1>1. \A r \in Session \ {s} : Phase'[r] = Phase[r]
    BY PhaseDepends
  <1>2. DOMAIN Phase = Session /\ DOMAIN Phase' = Session
    BY DEF Phase
  <1>3. Phase' = [r \in Session |-> Phase'[r]]
    BY DEF Phase
  <1>4. [Phase EXCEPT ![s] = v]
            = [r \in Session |-> IF r = s THEN v ELSE Phase[r]]
    BY <1>2
  <1> QED
    BY <1>1, <1>3, <1>4

\* The same of the child and the process.
LEMMA ProcessChanges ==
    ASSUME NEW s \in Session, NEW v, Process'[s] = v,
           \A r \in Session \ {s} : child'[r] = child[r]
    PROVE  Process' = [Process EXCEPT ![s] = v]
  <1>1. \A r \in Session \ {s} : Process'[r] = Process[r]
    BY ProcessDepends
  <1>2. DOMAIN Process = Session /\ DOMAIN Process' = Session
    BY DEF Process
  <1>3. Process' = [r \in Session |-> Process'[r]]
    BY DEF Process
  <1>4. [Process EXCEPT ![s] = v]
            = [r \in Session |-> IF r = s THEN v ELSE Process[r]]
    BY <1>2
  <1> QED
    BY <1>1, <1>3, <1>4

\* Steps within a phase, of a child that stays what it is, are not seen.
LEMMA LifecycleStutters ==
    ASSUME \A s \in Session : Phase'[s] = Phase[s] /\ Process'[s] = Process[s],
           port' = port
    PROVE  UNCHANGED Lifecycle!lifecycleVars
  <1>1. /\ Phase = [s \in Session |-> Phase[s]]
        /\ Phase' = [s \in Session |-> Phase'[s]]
    BY DEF Phase
  <1>2. /\ Process = [s \in Session |-> Process[s]]
        /\ Process' = [s \in Session |-> Process'[s]]
    BY DEF Process
  <1> QED
    BY <1>1, <1>2 DEF Lifecycle!lifecycleVars

\* A step of one Run alone moves its session as the step of its phase.
LEMMA RunAdvances ==
    ASSUME TypeOK, NEW s \in Session, NEW to, NEW source, NEW v,
           main' = [main EXCEPT ![s] = to],
           child' = child, port' = port,
           Phase[s] \in source, Phase'[s] = v
    PROVE  Lifecycle!Advance(s, source, v) /\ UNCHANGED <<Process, port>>
  <1>1. \A r \in Session \ {s} : main'[r] = main[r]
    BY DEF TypeOK
  <1>2. Phase' = [Phase EXCEPT ![s] = v]
    BY <1>1, PhaseChanges
  <1>3. Process' = Process
    BY DEF Process
  <1> QED
    BY <1>2, <1>3 DEF Lifecycle!Advance

\* The end of one child is the end of the process of its session.
LEMMA ChildEnds ==
    ASSUME TypeOK, NEW s \in Session, child[s] \in Alive,
           child' = [child EXCEPT ![s] = "dead"], port' = port,
           \A r \in Session : Phase'[r] = Phase[r]
    PROVE  Lifecycle!Stops(s)
  <1>1. \A r \in Session \ {s} : child'[r] = child[r]
    BY DEF TypeOK
  <1>2. Process[s] = "running" /\ Process'[s] = "stopped"
    BY DEF Process, TypeOK, Alive
  <1>3. Process' = [Process EXCEPT ![s] = "stopped"]
    BY <1>1, <1>2, ProcessChanges
  <1>4. Phase' = Phase
    BY DEF Phase
  <1> QED
    BY <1>2, <1>3, <1>4 DEF Lifecycle!Stops

\* Every step of DevSession is one of SessionLifecycle, or is not seen there.
LEMMA LifecycleStep ==
    IInv /\ [Next]_vars
        => [Lifecycle!LifecycleNext]_(Lifecycle!lifecycleVars)
  <1> SUFFICES ASSUME IInv, [Next]_vars
               PROVE  \/ Lifecycle!LifecycleNext
                      \/ UNCHANGED Lifecycle!lifecycleVars
    OBVIOUS
  <1>a. TypeOK /\ ChildFollows
    BY DEF IInv
  <1> USE <1>a DEF TypeOK, ChildFollows, Phase, Process, Starting, Serving,
          Stopping, Running, Over, Alive, fixed, childState, requests, signals,
          Step
  <1>1. ASSUME NEW s \in Session, Pick(s) PROVE Lifecycle!LifecycleNext
    <2>1. CASE Step(s, "idle", "ended") /\ UNCHANGED <<port, listener>>
      <3>1. Lifecycle!Advance(s, {"out"}, "over") /\ UNCHANGED <<Process, port>>
        BY <1>1, <2>1, RunAdvances DEF Pick
      <3> QED
        BY <3>1 DEF Lifecycle!LifecycleNext, Lifecycle!TurnAway
    <2>2. ASSUME NEW n \in Port, Step(s, "idle", "probing"),
                 port' = [port EXCEPT ![s] = n]
          PROVE  Lifecycle!LifecycleNext
      <3>1. \A r \in Session \ {s} : main'[r] = main[r]
        BY <2>2
      <3>2. Phase[s] = "out" /\ Phase'[s] = "starting"
        BY <2>2
      <3>3. Phase' = [Phase EXCEPT ![s] = "starting"]
        BY <3>1, <3>2, PhaseChanges
      <3>4. Process' = Process
        BY <1>1 DEF Pick
      <3> QED
        BY <2>2, <3>2, <3>3, <3>4
           DEF Lifecycle!LifecycleNext, Lifecycle!Enter, Lifecycle!Advance
    <2> QED
      BY <1>1, <2>1, <2>2 DEF Pick
  <1>2. ASSUME NEW s \in Session, StartChild(s) PROVE Lifecycle!LifecycleNext
    <2>1. CASE Step(s, "starting", "ended") /\ UNCHANGED child
      <3>1. /\ Lifecycle!Advance(s, Lifecycle!Open, "over")
            /\ UNCHANGED <<Process, port>>
        BY <1>2, <2>1, RunAdvances DEF StartChild, Lifecycle!Open
      <3> QED
        BY <2>1, <3>1 DEF Lifecycle!LifecycleNext, Lifecycle!Finish
    <2>2. CASE /\ Step(s, "starting", "dialing")
               /\ child' = [child EXCEPT ![s] = "loading"]
      <3>1. \A r \in Session \ {s} : child'[r] = child[r]
        BY <2>2
      <3>2. /\ Process[s] = "none" /\ Process'[s] = "running"
            /\ Phase[s] = "starting"
        BY <2>2
      <3>3. Process' = [Process EXCEPT ![s] = "running"]
        BY <3>1, <3>2, ProcessChanges
      <3>4. Phase' = Phase
        BY <2>2
      <3> QED
        BY <1>2, <3>2, <3>3, <3>4
           DEF StartChild, Lifecycle!LifecycleNext, Lifecycle!Launch
    <2> QED
      BY <1>2, <2>1, <2>2 DEF StartChild
  <1>3. ASSUME NEW s \in Session, Announce(s) PROVE Lifecycle!LifecycleNext
    <2>1. /\ Lifecycle!Advance(s, {"starting"}, "serving")
          /\ UNCHANGED <<Process, port>>
      BY <1>3, RunAdvances DEF Announce
    <2>2. Process[s] # "none"
      BY <1>3 DEF Announce
    <2> QED
      BY <2>1, <2>2 DEF Lifecycle!LifecycleNext, Lifecycle!Announce
  <1>4. ASSUME NEW s \in Session, WaitFails(s) \/ ServeInterrupted(s)
        PROVE  Lifecycle!LifecycleNext
    <2>1. /\ Lifecycle!Advance(s, {"starting", "serving"}, "stopping")
          /\ UNCHANGED <<Process, port>>
      <3>1. main[s] \in {"waiting", "serving"}
        BY <1>4 DEF WaitFails, ServeInterrupted
      <3>2. /\ main' = [main EXCEPT ![s] = "checking"]
            /\ child' = child /\ port' = port
        BY <1>4 DEF WaitFails, ServeInterrupted
      <3> QED
        BY <3>1, <3>2, RunAdvances
    <2>2. Process[s] # "none"
      BY <1>4 DEF WaitFails, ServeInterrupted
    <2> QED
      BY <2>1, <2>2 DEF Lifecycle!LifecycleNext, Lifecycle!Halt
  <1>5. ASSUME NEW s \in Session, main[s] \in Running,
               child[s] \in {"none", "dead"},
               main' = [main EXCEPT ![s] = "ended"], UNCHANGED <<child, port>>
        PROVE  Lifecycle!LifecycleNext
    <2>1. /\ Lifecycle!Advance(s, Lifecycle!Open, "over")
          /\ UNCHANGED <<Process, port>>
      BY <1>5, RunAdvances DEF Lifecycle!Open
    <2> QED
      BY <1>5, <2>1 DEF Lifecycle!LifecycleNext, Lifecycle!Finish
  <1>6. ASSUME NEW s \in Session, ServeStopped(s) PROVE Lifecycle!LifecycleNext
    BY <1>5, <1>6 DEF ServeStopped
  <1>7. ASSUME NEW s \in Session, Check(s) \/ Terminated(s) \/ Killed(s)
                                   \/ Unlisten(s)
        PROVE  Lifecycle!LifecycleNext \/ UNCHANGED Lifecycle!lifecycleVars
    <2>1. CASE main' = [main EXCEPT ![s] = "ended"]
      BY <1>5, <1>7, <2>1 DEF Check, Terminated, Killed, Unlisten
    <2>2. CASE main' = [main EXCEPT ![s] = "stuck"]
      <3>1. main[s] = "killing" /\ child' = child /\ port' = port
        BY <1>7, <2>2 DEF Check, Terminated, Killed, Unlisten
      <3>2. /\ Lifecycle!Advance(s, {"stopping"}, "abandoned")
            /\ UNCHANGED <<Process, port>>
        BY <2>2, <3>1, RunAdvances
      <3> QED
        BY <3>2 DEF Lifecycle!LifecycleNext, Lifecycle!GiveUp
    <2>3. CASE /\ main' # [main EXCEPT ![s] = "ended"]
               /\ main' # [main EXCEPT ![s] = "stuck"]
      BY <1>7, <2>3, LifecycleStutters DEF Check, Terminated, Killed, Unlisten
    <2> QED
      BY <2>1, <2>2, <2>3
  <1>8. ASSUME NEW s \in Session, Signal(s) \/ ForceStop(s)
        PROVE  Lifecycle!LifecycleNext \/ UNCHANGED Lifecycle!lifecycleVars
    <2>1. (\A r \in Session : Phase'[r] = Phase[r]) /\ port' = port
      BY <1>8 DEF Signal, ForceStop, Destroy
    <2>2. CASE child[s] \in Alive /\ child' = [child EXCEPT ![s] = "dead"]
      BY <2>1, <2>2, ChildEnds DEF Lifecycle!LifecycleNext
    <2>3. CASE \A r \in Session : child'[r] = child[r]
      BY <2>1, <2>3, LifecycleStutters
    <2> QED
      BY <1>8, <2>2, <2>3 DEF Signal, ForceStop, Destroy
  <1>9. ASSUME NEW s \in Session, Bind(s) \/ ChildStops(s)
        PROVE  Lifecycle!LifecycleNext \/ UNCHANGED Lifecycle!lifecycleVars
    <2>1. (\A r \in Session : Phase'[r] = Phase[r]) /\ port' = port
      BY <1>9 DEF Bind, ChildStops, Destroy
    <2>2. CASE child[s] \in Alive /\ child' = [child EXCEPT ![s] = "dead"]
      BY <2>1, <2>2, ChildEnds DEF Lifecycle!LifecycleNext
    <2>3. CASE /\ child[s] = "loading"
               /\ child' = [child EXCEPT ![s] = "listening"]
      BY <2>1, <2>3, LifecycleStutters
    <2> QED
      BY <1>9, <2>2, <2>3 DEF Bind, ChildStops, Destroy
  <1>10. ASSUME NEW s \in Session, Die(s) PROVE Lifecycle!LifecycleNext
    <2>1. /\ Lifecycle!Advance(s, Lifecycle!Open, "killed")
          /\ UNCHANGED <<Process, port>>
      BY <1>10, RunAdvances DEF Die, Lifecycle!Open
    <2> QED
      BY <2>1 DEF Lifecycle!LifecycleNext, Lifecycle!Kill
  <1>11. ASSUME NEW s \in Session,
                Dial(s) \/ WaitTick(s) \/ ServeOpen(s) \/ Opened(s)
         PROVE  UNCHANGED Lifecycle!lifecycleVars
    BY <1>11, LifecycleStutters DEF Dial, WaitTick, ServeOpen, Opened
  <1>12. CASE UNCHANGED <<main, child, port>>
    BY <1>12, LifecycleStutters
  <1>13. ASSUME NEW s \in Session,
                Reap(s) \/ Interrupt(s) \/ Expire(s) \/ Type(s)
         PROVE  UNCHANGED <<main, child, port>>
    BY <1>13 DEF Reap, Interrupt, Expire, Type
  <1>14. ASSUME NEW n \in Port, Outside(n) PROVE UNCHANGED <<main, child, port>>
    BY <1>14 DEF Outside
  <1>15. CASE UNCHANGED vars
    BY <1>12, <1>15 DEF vars
  <1> QED
    BY <1>1, <1>2, <1>3, <1>4, <1>6, <1>7, <1>8, <1>9, <1>10, <1>11, <1>12,
       <1>13, <1>14, <1>15 DEF Next, MainStep, Select, ChildStep, Environment

\* Whatever the threads of a session, the timers and the other programs do,
\* to the developer it is a session of SessionLifecycle.
THEOREM LifecycleKept == Spec => ImplementsLifecycle
  BY Invariance, LifecycleInitially, LifecycleStep, PTL
     DEF Spec, ImplementsLifecycle, Lifecycle!LifecycleSpec
=============================================================================

----------------------------- MODULE DevSession -----------------------------
(***************************************************************************)
(* The Development Sessions of internal/devsession on one machine: each is *)
(* one `phite dev' process whose Run picks a loopback port, starts         *)
(* FrankenPHP as a child, waits until something accepts connections there, *)
(* announces the Local Endpoint and supervises the child until Ctrl+C or   *)
(* until the child stops.  Of what Run returns only the failure to end the *)
(* child is kept apart.                                                    *)
(*                                                                         *)
(* Per session there are three threads: Run itself (main), the goroutine   *)
(* that waits for the child and closes state.done, and the goroutine that  *)
(* reads the terminal.  Beside them act the child with the processes it    *)
(* starts, the developer, the timers, and other programs of the machine    *)
(* that take and free ports.                                               *)
(***************************************************************************)
EXTENDS Naturals, FiniteSets

CONSTANTS
    Session,   \* the `phite dev' processes of the machine
    Port,      \* the loopback ports
    Free,      \* a port nobody listens on
    Outsider,  \* any other program that listens on a port
    NoPort,    \* no port picked yet
    Systems,   \* process_unix.go, process_windows.go, or either
    MaxKills   \* bound on the phite processes that are killed themselves

ASSUME DevSessionAssumption ==
    /\ Session \intersect {Free, Outsider} = {}
    /\ Free # Outsider
    /\ NoPort \notin Port
    /\ Systems \subseteq {"unix", "windows"}
    /\ MaxKills \in Nat

VARIABLES
    main,         \* main[s]: the next step of Run
    port,         \* port[s]: the port of the Local Endpoint
    listener,     \* listener[n]: who accepts connections on port n
    child,        \* child[s]: the FrankenPHP process
    done,         \* done[s]: has the child been waited for (state.done)?
    interrupted,  \* interrupted[s]: is the context cancelled (Ctrl+C)?
    expired,      \* expired[s]: has the startup timer fired?
    typed,        \* typed[s]: the one-place channel openRequests
    asked,        \* history: was `o' typed since the browser was last opened?
    kills,        \* number of phite processes killed so far
    system        \* the system of the machine

vars == <<main, port, listener, child, done, interrupted, expired, typed,
          asked, kills, system>>

fixed == <<kills, system>>

Starting == {"probing", "starting", "dialing", "waiting", "ready"}
Stopping == {"checking", "signalling", "terminating", "forcing", "killing"}
Serving == {"serving", "opening"}
Running == Starting \union Serving \union Stopping

\* Run returned; it returned that FrankenPHP did not exit after forced
\* termination; phite was killed.
Over == {"ended", "stuck", "gone"}

Alive == {"loading", "listening"}

TypeOK ==
    /\ main \in [Session -> {"idle"} \union Running \union Over]
    /\ port \in [Session -> Port \union {NoPort}]
    /\ listener \in [Port -> Session \union {Free, Outsider}]
    /\ child \in [Session -> Alive \union {"none", "dead"}]
    /\ done \in [Session -> BOOLEAN]
    /\ interrupted \in [Session -> BOOLEAN]
    /\ expired \in [Session -> BOOLEAN]
    /\ typed \in [Session -> BOOLEAN]
    /\ asked \in [Session -> BOOLEAN]
    /\ kills \in 0 .. MaxKills
    /\ system \in Systems
    /\ \A s \in Session : main[s] \in Running => port[s] # NoPort

Init ==
    /\ main = [s \in Session |-> "idle"]
    /\ port = [s \in Session |-> NoPort]
    /\ listener = [n \in Port |-> Free]
    /\ child = [s \in Session |-> "none"]
    /\ done = [s \in Session |-> FALSE]
    /\ interrupted = [s \in Session |-> FALSE]
    /\ expired = [s \in Session |-> FALSE]
    /\ typed = [s \in Session |-> FALSE]
    /\ asked = [s \in Session |-> FALSE]
    /\ kills = 0
    /\ system \in Systems

----------------------------------------------------------------------------
Step(s, from, to) == main[s] = from /\ main' = [main EXCEPT ![s] = to]

\* s no longer listens anywhere.
Hangup(s) ==
    listener' = [n \in Port |-> IF listener[n] = s THEN Free ELSE listener[n]]

childState == <<child, done>>
requests == <<typed, asked>>
signals == <<interrupted, expired, requests>>

\* Mistake: the address the system chose is not read from the listener.
PickUnread(s) ==
    /\ \E n \in Port :
          /\ listener[n] = Free
          /\ Step(s, "idle", "probing")
          /\ listener' = [listener EXCEPT ![n] = s]
    /\ UNCHANGED <<port, childState, signals, fixed>>

\* availableEndpoint: the system picks a free port for a listener ...
Pick(s) ==
    /\ \/ \E n \in Port :
             /\ listener[n] = Free
             /\ Step(s, "idle", "probing")
             /\ port' = [port EXCEPT ![s] = n]
             /\ listener' = [listener EXCEPT ![n] = s]
       \/ /\ \A n \in Port : listener[n] # Free
          /\ Step(s, "idle", "ended")
          /\ UNCHANGED <<port, listener>>
    /\ UNCHANGED <<childState, signals, fixed>>

\* ... which is closed before the port is handed to the child.  When the
\* close reports an error Run ends.
Unlisten(s) ==
    /\ Step(s, "probing", "starting") \/ Step(s, "probing", "ended")
    /\ Hangup(s)
    /\ UNCHANGED <<port, childState, signals, fixed>>

\* command.Start, which may fail; the waiting goroutine and the startup
\* timer start with it.
StartChild(s) ==
    /\ \/ /\ Step(s, "starting", "dialing")
          /\ child' = [child EXCEPT ![s] = "loading"]
       \/ /\ Step(s, "starting", "ended")
          /\ UNCHANGED child
    /\ UNCHANGED <<port, listener, done, signals, fixed>>

\* waitUntilReady: one attempt to connect.  Whoever listens there answers,
\* and a cancelled context lets no attempt succeed.
Dial(s) ==
    /\ main[s] = "dialing"
    /\ main' = [main EXCEPT ![s] =
                    IF listener[port[s]] # Free /\ ~interrupted[s]
                    THEN "ready" ELSE "waiting"]
    /\ UNCHANGED <<port, listener, childState, signals, fixed>>

\* The select after a failed attempt; the runtime picks at random among the
\* cases that are ready, and the 25 ms ticker is ready again and again.
WaitTick(s) ==
    /\ Step(s, "waiting", "dialing")
    /\ UNCHANGED <<port, listener, childState, signals, fixed>>

\* Mistake: startup gives up without stopping the child.
WaitFailsAtOnce(s) ==
    /\ interrupted[s] \/ done[s] \/ expired[s]
    /\ Step(s, "waiting", "ended")
    /\ UNCHANGED <<port, listener, childState, signals, fixed>>

\* Mistake: startup has no time limit.
WaitFailsUntimed(s) ==
    /\ interrupted[s] \/ done[s]
    /\ Step(s, "waiting", "checking")
    /\ UNCHANGED <<port, listener, childState, signals, fixed>>

\* Mistake: a child that stopped, its port being taken, is started again.
WaitFailsRetrying(s) ==
    /\ \/ done[s] /\ Step(s, "waiting", "starting")
       \/ /\ interrupted[s] \/ expired[s]
          /\ Step(s, "waiting", "checking")
    /\ UNCHANGED <<port, listener, childState, signals, fixed>>

WaitFails(s) ==
    /\ interrupted[s] \/ done[s] \/ expired[s]
    /\ Step(s, "waiting", "checking")
    /\ UNCHANGED <<port, listener, childState, signals, fixed>>

\* The Local Endpoint is printed and the terminal is read from now on.
Announce(s) ==
    /\ Step(s, "ready", "serving")
    /\ UNCHANGED <<port, listener, childState, signals, fixed>>

\* Mistake: the end of the child is noticed only with Ctrl+C.
ServeStoppedLate(s) ==
    /\ done[s]
    /\ interrupted[s]
    /\ Step(s, "serving", "ended")
    /\ UNCHANGED <<port, listener, childState, signals, fixed>>

\* The main loop of Run: the three cases of its select.
ServeInterrupted(s) ==
    /\ interrupted[s]
    /\ Step(s, "serving", "checking")
    /\ UNCHANGED <<port, listener, childState, signals, fixed>>

ServeStopped(s) ==
    /\ done[s]
    /\ Step(s, "serving", "ended")
    /\ UNCHANGED <<port, listener, childState, signals, fixed>>

\* OpenBrowser is called in the loop itself ...
ServeOpen(s) ==
    /\ typed[s]
    /\ Step(s, "serving", "opening")
    /\ typed' = [typed EXCEPT ![s] = FALSE]
    /\ asked' = [asked EXCEPT ![s] = FALSE]
    /\ UNCHANGED <<port, listener, childState, interrupted, expired, fixed>>

\* ... and returns when the command that opens it was started, or failed to.
Opened(s) ==
    /\ Step(s, "opening", "serving")
    /\ UNCHANGED <<port, listener, childState, signals, fixed>>

\* stopAndWait: nothing to do for a child that has been waited for.
Check(s) ==
    /\ \/ done[s]  /\ Step(s, "checking", "ended")
       \/ ~done[s] /\ Step(s, "checking", "signalling")
    /\ UNCHANGED <<port, listener, childState, signals, fixed>>

\* The system ends the child.
Destroy(s) ==
    /\ child' = [child EXCEPT ![s] = "dead"]
    /\ Hangup(s)

\* stopProcess: SIGTERM to the group, which the child may ignore, so that
\* nothing changes yet; Windows kills the child, unless that fails: the error
\* is not looked at.
Signal(s) ==
    /\ Step(s, "signalling", "terminating")
    /\ \/ system = "windows" /\ Destroy(s)
       \/ UNCHANGED <<child, listener>>
    /\ UNCHANGED <<port, done, signals, fixed>>

\* The child has been waited for, or three seconds have passed.
Terminated(s) ==
    /\ \/ done[s] /\ Step(s, "terminating", "ended")
       \/ Step(s, "terminating", "forcing")
    /\ UNCHANGED <<port, listener, childState, signals, fixed>>

\* forceStopProcess: SIGKILL to the group, or on Windows the kill once more.
\* It may fail, and its error is not looked at either.
ForceStop(s) ==
    /\ Step(s, "forcing", "killing")
    /\ Destroy(s) \/ UNCHANGED <<child, listener>>
    /\ UNCHANGED <<port, done, signals, fixed>>

\* Mistake: Run waits for the killed child without a limit.
KilledUntimed(s) ==
    /\ done[s] /\ Step(s, "killing", "ended")
    /\ UNCHANGED <<port, listener, childState, signals, fixed>>

\* The child has been waited for, or Run gives up on it.
Killed(s) ==
    /\ \/ done[s] /\ Step(s, "killing", "ended")
       \/ Step(s, "killing", "stuck")
    /\ UNCHANGED <<port, listener, childState, signals, fixed>>

\* The waiting goroutine: command.Wait returns and state.done is closed.
Reap(s) ==
    /\ main[s] \notin Over
    /\ child[s] = "dead"
    /\ ~done[s]
    /\ done' = [done EXCEPT ![s] = TRUE]
    /\ UNCHANGED <<main, port, listener, child, signals, fixed>>

----------------------------------------------------------------------------
\* FrankenPHP binds the port it was given, or stops when it is taken.
Bind(s) ==
    /\ child[s] = "loading"
    /\ IF listener[port[s]] = Free
       THEN /\ child' = [child EXCEPT ![s] = "listening"]
            /\ listener' = [listener EXCEPT ![port[s]] = s]
       ELSE /\ child' = [child EXCEPT ![s] = "dead"]
            /\ UNCHANGED listener
    /\ UNCHANGED <<main, port, done, signals, fixed>>

\* It may stop at any time: obeying a signal, or on a failure of its own.
ChildStops(s) ==
    /\ child[s] \in Alive
    /\ Destroy(s)
    /\ UNCHANGED <<main, port, done, signals, fixed>>

\* Ctrl+C.  It reaches phite only: the child is in a group of its own.
Interrupt(s) ==
    /\ main[s] \in Running
    /\ ~interrupted[s]
    /\ interrupted' = [interrupted EXCEPT ![s] = TRUE]
    /\ UNCHANGED <<main, port, listener, childState, expired, requests, fixed>>

Expire(s) ==
    /\ main[s] \in {"dialing", "waiting"}
    /\ ~expired[s]
    /\ expired' = [expired EXCEPT ![s] = TRUE]
    /\ UNCHANGED <<main, port, listener, childState, interrupted, requests,
                   fixed>>

\* Mistake: the channel has no place, so that a request is dropped unless Run
\* is at its select just then.
TypeUnbuffered(s) ==
    /\ main[s] \in Serving \union Stopping
    /\ asked' = [asked EXCEPT ![s] = TRUE]
    /\ typed' = [typed EXCEPT ![s] = typed[s] \/ main[s] = "serving"]
    /\ UNCHANGED <<main, port, listener, childState, interrupted, expired,
                   fixed>>

\* `o' and Enter: a request, which is dropped when the channel is full.
Type(s) ==
    /\ main[s] \in Serving \union Stopping
    /\ asked' = [asked EXCEPT ![s] = TRUE]
    /\ typed' = [typed EXCEPT ![s] = TRUE]
    /\ UNCHANGED <<main, port, listener, childState, interrupted, expired,
                   fixed>>

\* phite itself is killed: its child goes on.
Die(s) ==
    /\ kills < MaxKills
    /\ main[s] \in Running
    /\ main' = [main EXCEPT ![s] = "gone"]
    /\ IF main[s] = "probing" THEN Hangup(s) ELSE UNCHANGED listener
    /\ kills' = kills + 1
    /\ UNCHANGED <<port, childState, signals, system>>

\* Other programs take and free ports.
Outside(n) ==
    /\ \/ listener[n] = Free     /\ listener' = [listener EXCEPT ![n] = Outsider]
       \/ listener[n] = Outsider /\ listener' = [listener EXCEPT ![n] = Free]
    /\ UNCHANGED <<main, port, childState, signals, fixed>>

----------------------------------------------------------------------------
\* The steps Run takes whenever it can, save for the cases of its selects.
MainStep(s) ==
    \/ Unlisten(s) \/ StartChild(s) \/ Dial(s) \/ WaitTick(s) \/ Announce(s)
    \/ Opened(s) \/ Check(s) \/ Signal(s) \/ Terminated(s) \/ ForceStop(s)
    \/ Killed(s)

Select(s) ==
    WaitFails(s) \/ ServeInterrupted(s) \/ ServeStopped(s) \/ ServeOpen(s)

ChildStep(s) == Bind(s) \/ ChildStops(s)

Environment(s) == Interrupt(s) \/ Expire(s) \/ Type(s) \/ Die(s)

Next ==
    \/ \E s \in Session :
          \/ Pick(s) \/ MainStep(s) \/ Select(s) \/ Reap(s)
          \/ ChildStep(s) \/ Environment(s)
    \/ \E n \in Port : Outside(n)

Spec == Init /\ [][Next]_vars

\* Goroutines that can run do; a timer that runs fires; and a select whose
\* case is ready again and again takes it in the end, because it chooses at
\* random among the ready ones.  Nobody has to press Ctrl+C, and a child may
\* load for ever, serve for ever, or ignore SIGTERM.
Fairness ==
    \A s \in Session :
        /\ WF_vars(MainStep(s))
        /\ WF_vars(Reap(s))
        /\ WF_vars(Expire(s))
        /\ SF_vars(WaitFails(s))
        /\ SF_vars(ServeInterrupted(s))
        /\ SF_vars(ServeStopped(s))
        /\ SF_vars(ServeOpen(s))

FairSpec == Spec /\ Fairness

----------------------------------------------------------------------------
(***************************************************************************)
(* Properties.                                                             *)
(***************************************************************************)

\* When Run returns, FrankenPHP is not running any more, the Local Endpoint
\* is closed and the child, if there was one, has been waited for, whatever
\* the order of Ctrl+C, readiness, the startup timer, the kills that fail and
\* the exit of the child; or else Run says that it gave up on it.
EndedMeansStopped ==
    \A s \in Session : main[s] = "ended"
        => /\ child[s] \notin Alive /\ \A n \in Port : listener[n] # s
           /\ done[s] \/ child[s] = "none"

\* Ctrl+C ends every session: while it starts, while the developer keeps
\* asking for the browser, and with a child that no kill reaches.
InterruptEnds == \A s \in Session : interrupted[s] ~> main[s] \in Over

\* Startup ends: with an announcement or with an error.
StartupEnds ==
    \A s \in Session : main[s] = "dialing" ~> main[s] \in Serving \union Over

\* When the child does not load for ever, it gets to listen after the
\* announcement or the session ends: an endpoint that was announced for a
\* foreign listener does not stay.
AnnouncedSettles ==
    \A s \in Session :
        (child[s] = "loading" ~> child[s] # "loading")
            => (main[s] = "serving"
                    ~> child[s] = "listening" \/ main[s] \in Over)

\* No request to open the browser is lost: after the last `o' the browser is
\* opened once more, unless the session ends.  The channel is what keeps a
\* request that comes while Run is busy with the one before.
RequestIsServed ==
    \A s \in Session :
        asked[s] ~> ~asked[s] \/ main[s] \in Stopping \union Over

\* DevSession implements SessionLifecycle: Run is in one of its phases, and
\* the child is one process whether it listens or not.
Phase ==
    [s \in Session |->
        IF main[s] = "idle" THEN "out"
        ELSE IF main[s] \in Starting THEN "starting"
        ELSE IF main[s] \in Stopping THEN "stopping"
        ELSE IF main[s] = "ended" THEN "over"
        ELSE IF main[s] = "stuck" THEN "abandoned"
        ELSE IF main[s] = "gone" THEN "killed" ELSE "serving"]

Process ==
    [s \in Session |->
        IF child[s] \in Alive THEN "running"
        ELSE IF child[s] = "dead" THEN "stopped" ELSE "none"]

Lifecycle == INSTANCE SessionLifecycle WITH
    Endpoint <- Port, NoEndpoint <- NoPort,
    phase <- Phase, process <- Process, endpoint <- port

ImplementsLifecycle == Lifecycle!LifecycleSpec

\* README.md:18: "Phite starts FrankenPHP in classic mode on an available
\* `127.0.0.1` port and prints the Local Endpoint after it is ready."  So no
\* endpoint is printed before the child has come to listen.
AnnouncedAfterReady ==
    [][\A s \in Session : main[s] = "ready" /\ main'[s] = "serving"
           => child[s] # "loading"]_vars
=============================================================================

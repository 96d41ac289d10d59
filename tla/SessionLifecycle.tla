-------------------------- MODULE SessionLifecycle --------------------------
(***************************************************************************)
(* What a Development Session promises the developer, without ports that   *)
(* others take, signals, timers or goroutines: it has one Local Endpoint   *)
(* and starts FrankenPHP at most once; it announces the endpoint at most   *)
(* once, after FrankenPHP was started; and when it is over FrankenPHP does *)
(* not run any more.  Only a session that is killed leaves it behind, or   *)
(* one that says that it could not be stopped.                             *)
(***************************************************************************)
CONSTANTS
    Session,   \* the sessions
    Endpoint,  \* the endpoints they may have
    NoEndpoint \* a session that has none yet

VARIABLES
    phase,     \* phase[s]: how far the session has come
    process,   \* process[s]: its FrankenPHP process
    endpoint   \* endpoint[s]: its Local Endpoint

lifecycleVars == <<phase, process, endpoint>>

Open == {"starting", "serving", "stopping"}

LifecycleTypeOK ==
    /\ phase \in [Session -> Open \union {"out", "over", "abandoned", "killed"}]
    /\ process \in [Session -> {"none", "running", "stopped"}]
    /\ endpoint \in [Session -> Endpoint \union {NoEndpoint}]

LifecycleInit ==
    /\ phase = [s \in Session |-> "out"]
    /\ process = [s \in Session |-> "none"]
    /\ endpoint = [s \in Session |-> NoEndpoint]

Advance(s, from, to) ==
    /\ phase[s] \in from
    /\ phase' = [phase EXCEPT ![s] = to]

Enter(s) ==
    /\ Advance(s, {"out"}, "starting")
    /\ \E e \in Endpoint : endpoint' = [endpoint EXCEPT ![s] = e]
    /\ UNCHANGED process

\* There is no endpoint to have.
TurnAway(s) ==
    /\ Advance(s, {"out"}, "over")
    /\ UNCHANGED <<process, endpoint>>

Launch(s) ==
    /\ phase[s] = "starting"
    /\ process[s] = "none"
    /\ process' = [process EXCEPT ![s] = "running"]
    /\ UNCHANGED <<phase, endpoint>>

Announce(s) ==
    /\ process[s] # "none"
    /\ Advance(s, {"starting"}, "serving")
    /\ UNCHANGED <<process, endpoint>>

Halt(s) ==
    /\ process[s] # "none"
    /\ Advance(s, {"starting", "serving"}, "stopping")
    /\ UNCHANGED <<process, endpoint>>

\* FrankenPHP stops, whether it was told to or not.
Stops(s) ==
    /\ process[s] = "running"
    /\ process' = [process EXCEPT ![s] = "stopped"]
    /\ UNCHANGED <<phase, endpoint>>

Finish(s) ==
    /\ process[s] # "running"
    /\ Advance(s, Open, "over")
    /\ UNCHANGED <<process, endpoint>>

\* FrankenPHP does not stop, and the developer is told so.
GiveUp(s) ==
    /\ Advance(s, {"stopping"}, "abandoned")
    /\ UNCHANGED <<process, endpoint>>

\* The session is killed; FrankenPHP is not.
Kill(s) ==
    /\ Advance(s, Open, "killed")
    /\ UNCHANGED <<process, endpoint>>

LifecycleNext ==
    \E s \in Session :
        \/ Enter(s) \/ TurnAway(s) \/ Launch(s) \/ Announce(s) \/ Halt(s)
        \/ Stops(s) \/ Finish(s) \/ GiveUp(s) \/ Kill(s)

LifecycleSpec == LifecycleInit /\ [][LifecycleNext]_lifecycleVars
=============================================================================

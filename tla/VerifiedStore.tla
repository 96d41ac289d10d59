--------------------------- MODULE VerifiedStore ---------------------------
(***************************************************************************)
(* What Acquire of internal/managedruntime and of internal/managedcomposer *)
(* promises the processes that call it, without files, locks or downloads: *)
(* a store that is either intact or lost.  A call is granted when the      *)
(* store is intact, may be denied when it is not, and may make it intact;  *)
(* nothing the calls do ever loses it.                                     *)
(*                                                                         *)
(* Somebody outside may lose the store at any moment.  A call during which *)
(* that happens, or during which the network or the disk fails, is         *)
(* disturbed: it is promised nothing.                                      *)
(***************************************************************************)
CONSTANT Proc

VARIABLES
    store,     \* is what the store holds the pinned content?
    call,      \* call[p]: where p is in its call
    disturbed  \* the calls that met a fault

storeVars == <<store, call, disturbed>>

StoreTypeOK ==
    /\ store \in {"intact", "lost"}
    /\ call \in [Proc -> {"out", "trying", "granted", "denied"}]
    /\ disturbed \subseteq Proc

StoreInit ==
    /\ store = "lost"
    /\ call = [p \in Proc |-> "out"]
    /\ disturbed = {}

Try(p) ==
    /\ call[p] = "out"
    /\ call' = [call EXCEPT ![p] = "trying"]
    /\ UNCHANGED <<store, disturbed>>

\* A call that is refused at once, by a fault of its own.
Reject(p) ==
    /\ call[p] = "out"
    /\ call' = [call EXCEPT ![p] = "denied"]
    /\ disturbed' = disturbed \union {p}
    /\ UNCHANGED store

Repair(p) ==
    /\ call[p] = "trying"
    /\ store = "lost"
    /\ store' = "intact"
    /\ UNCHANGED <<call, disturbed>>

Grant(p) ==
    /\ call[p] = "trying"
    /\ store = "intact" \/ p \in disturbed
    /\ call' = [call EXCEPT ![p] = "granted"]
    /\ UNCHANGED <<store, disturbed>>

Deny(p) ==
    /\ call[p] = "trying"
    /\ store = "lost" \/ p \in disturbed
    /\ call' = [call EXCEPT ![p] = "denied"]
    /\ UNCHANGED <<store, disturbed>>

\* The end of the calling process, whatever the reason.
Leave(p) ==
    /\ call[p] # "out"
    /\ call' = [call EXCEPT ![p] = "out"]
    /\ disturbed' = disturbed \ {p}
    /\ UNCHANGED store

Fault(p) ==
    /\ call[p] = "trying"
    /\ disturbed' = disturbed \union {p}
    /\ UNCHANGED <<store, call>>

Lose ==
    /\ store' \in {store, "lost"}
    /\ disturbed' = disturbed \union {p \in Proc : call[p] # "out"}
    /\ UNCHANGED call

StoreNext ==
    \/ \E p \in Proc :
          \/ Try(p) \/ Reject(p) \/ Repair(p) \/ Grant(p) \/ Deny(p)
          \/ Leave(p) \/ Fault(p)
    \/ Lose

StoreSpec == StoreInit /\ [][StoreNext]_storeVars
============================================================================

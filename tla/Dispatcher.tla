----------------------------- MODULE Dispatcher -----------------------------
(***************************************************************************)
(* What the concurrency gates of PqcHttpClient promise (config.rs,         *)
(* max_inflight_total and max_inflight_per_host): a call enters only when  *)
(* the number of calls in flight, over all hosts and on its own host, is   *)
(* below the configured cap, and it counts until it leaves.                *)
(***************************************************************************)
EXTENDS Naturals, FiniteSets

CONSTANTS Calls,      \* the callers of request(), one call at a time each
          Targets,    \* what a call can be addressed to
          Nowhere,    \* the target of a call that is not in flight
          TotalCap,   \* max_inflight_total, where it is set
          HostCap     \* max_inflight_per_host, where it is set

VARIABLES gates,    \* which of the two caps the config sets
          running   \* the target each call is in flight to, or Nowhere

InFlight == {c \in Calls : running[c] # Nowhere}
InFlightTo(h) == {c \in Calls : running[c] = h}

Init ==
    /\ gates \in SUBSET {"total", "host"}
    /\ running = [c \in Calls |-> Nowhere]

Enter(c, h) ==
    /\ running[c] = Nowhere
    /\ "total" \in gates => Cardinality(InFlight) < TotalCap
    /\ "host" \in gates => Cardinality(InFlightTo(h)) < HostCap
    /\ running' = [running EXCEPT ![c] = h]
    /\ UNCHANGED gates

Leave(c) ==
    /\ running[c] # Nowhere
    /\ running' = [running EXCEPT ![c] = Nowhere]
    /\ UNCHANGED gates

Next == \E c \in Calls : Leave(c) \/ \E h \in Targets : Enter(c, h)

Spec == Init /\ [][Next]_<<gates, running>>
=============================================================================

---------------------------- MODULE InflightGate ----------------------------
(***************************************************************************)
(* The two concurrency gates of PqcHttpClient::request (client.rs) and the *)
(* life of the permits it acquires: a global semaphore, then a per-host    *)
(* semaphore found in or added to a map, then the early returns of request,*)
(* then the PqcResponse the permits move into, until cancel() or Drop.     *)
(*                                                                         *)
(* A semaphore is tokio's: a count of free permits and a FIFO queue of     *)
(* waiters.  A released permit goes to the head of the queue, which owns   *)
(* it before its task runs again; acquire takes a free permit at once.     *)
(*                                                                         *)
(* A caller makes one call after another: pc goes back to "idle" when      *)
(* request returns an error or its response is dropped.                    *)
(***************************************************************************)
EXTENDS Naturals, Sequences, FiniteSets

CONSTANTS Calls,      \* callers of request()
          Hosts,      \* URL hosts
          BadUrl,     \* stands for a URL reqwest cannot parse
          NoHost,     \* the host of a caller that has no call
          Total,      \* names the global semaphore among the gates
          TotalCap,   \* max_inflight_total, where it is set
          HostCap     \* max_inflight_per_host, where it is set

ASSUME GateAssumption ==
    /\ IsFiniteSet(Calls)
    /\ Total \notin Hosts \cup {BadUrl, NoHost}
    /\ BadUrl \notin Hosts
    /\ NoHost \notin Hosts \cup {BadUrl}
    /\ TotalCap \in Nat /\ HostCap \in Nat

VARIABLES gates,  \* which of the two limits the client's config sets
          pc,     \* where each call is
          host,   \* the host of its URL
          map,    \* the hosts that have a semaphore (PerHostInflight.map)
          free,   \* free permits of each semaphore
          queue,  \* FIFO of the calls parked on each semaphore
          hold    \* the permits each call owns

vars == <<gates, pc, host, map, free, queue, hold>>

\* max_inflight_total, max_inflight_per_host is Some.
TotalGate == "total" \in gates
HostGate == "host" \in gates

Gates == Hosts \cup {Total}

Queued == {"total", "lookup", "host"}
InFlight == {"build", "sending", "open", "drained"}
Places == {"idle", "cancelled"} \cup Queued \cup InFlight

\* The permits a call has once it is past a gate.
TotalPermit == IF TotalGate THEN {Total} ELSE {}
HostPermit(c) == IF HostGate THEN {host[c]} ELSE {}

Init ==
    /\ gates \in SUBSET {"total", "host"}
    /\ pc = [c \in Calls |-> "idle"]
    /\ host = [c \in Calls |-> NoHost]
    /\ map = {}
    /\ free = [g \in Gates |-> IF g = Total THEN TotalCap ELSE 0]
    /\ queue = [g \in Gates |-> <<>>]
    /\ hold = [c \in Calls |-> {}]

-----------------------------------------------------------------------------
(* Semaphores.                                                             *)

\* Mutant: a permit is taken whether or not one is free.
AcquireUnchecked(c, g, f) ==
    /\ free' = [f EXCEPT ![g] = @ - 1]
    /\ hold' = [hold EXCEPT ![c] = @ \cup {g}]
    /\ UNCHANGED queue

\* acquire_owned() polled for the first time, with f the free permits.
Acquire(c, g, f) ==
    \/ /\ f[g] > 0
       /\ free' = [f EXCEPT ![g] = @ - 1]
       /\ hold' = [hold EXCEPT ![c] = @ \cup {g}]
       /\ UNCHANGED queue
    \/ /\ f[g] = 0
       /\ queue' = [queue EXCEPT ![g] = Append(@, c)]
       /\ free' = f
       /\ UNCHANGED hold

\* The call that a permit of g goes to when c gives it back.
Heir(c, g, d) == g \in hold[c] /\ queue[g] # <<>> /\ Head(queue[g]) = d

\* Drop of the permits of c: each goes to the head of its queue, or is free.
Release(c) ==
    /\ free' = [g \in Gates |->
                  IF g \in hold[c] /\ queue[g] = <<>> THEN free[g] + 1 ELSE free[g]]
    /\ queue' = [g \in Gates |->
                  IF g \in hold[c] /\ queue[g] # <<>> THEN Tail(queue[g]) ELSE queue[g]]
    /\ hold' = [d \in Calls |->
                  (IF d = c THEN {} ELSE hold[d]) \cup {g \in Gates : Heir(c, g, d)}]

-----------------------------------------------------------------------------
(* PqcHttpClient::request.                                                 *)

Request(c, h) ==
    /\ pc[c] = "idle"
    /\ host' = [host EXCEPT ![c] = h]
    /\ UNCHANGED <<gates, map>>
    /\ \/ /\ TotalGate
          /\ pc' = [pc EXCEPT ![c] = "total"]
          /\ Acquire(c, Total, free)
       \/ /\ ~TotalGate
          /\ pc' = [pc EXCEPT ![c] = "lookup"]
          /\ UNCHANGED <<free, queue, hold>>

\* The await on the global semaphore returns.
PassTotal(c) ==
    /\ pc[c] = "total" /\ Total \in hold[c]
    /\ pc' = [pc EXCEPT ![c] = "lookup"]
    /\ UNCHANGED <<gates, host, map, free, queue, hold>>

\* request returns an error: the permits it holds are dropped.
Fail(c) ==
    /\ Release(c)
    /\ pc' = [pc EXCEPT ![c] = "idle"]
    /\ host' = [host EXCEPT ![c] = NoHost]
    /\ UNCHANGED <<gates, map>>

\* The URL is parsed only for the host gate, with the global permit held.
RejectUrl(c) ==
    /\ pc[c] = "lookup" /\ HostGate /\ host[c] = BadUrl
    /\ Fail(c)

\* Mutant: insert in place of or_insert_with.
AfterLookupInsert(h) == [free EXCEPT ![h] = HostCap]

\* The permits after the lookup: a host seen for the first time gets a
\* semaphore of its own, an old one keeps the semaphore it has.
AfterLookup(h) == IF h \in map THEN free ELSE [free EXCEPT ![h] = HostCap]

FindHost(c) ==
    /\ pc[c] = "lookup" /\ HostGate /\ host[c] # BadUrl
    /\ map' = map \cup {host[c]}
    /\ Acquire(c, host[c], AfterLookup(host[c]))
    /\ pc' = [pc EXCEPT ![c] = "host"]
    /\ UNCHANGED <<gates, host>>

SkipHost(c) ==
    /\ pc[c] = "lookup" /\ ~HostGate
    /\ pc' = [pc EXCEPT ![c] = "build"]
    /\ UNCHANGED <<gates, host, map, free, queue, hold>>

\* Mutant: the future of acquire_owned is made and never awaited.
PassHostUnawaited(c) ==
    /\ pc[c] = "host"
    /\ pc' = [pc EXCEPT ![c] = "build"]
    /\ UNCHANGED <<gates, host, map, free, queue, hold>>

\* The await on the host semaphore returns.
PassHost(c) ==
    /\ pc[c] = "host" /\ host[c] \in hold[c]
    /\ pc' = [pc EXCEPT ![c] = "build"]
    /\ UNCHANGED <<gates, host, map, free, queue, hold>>

\* body and body_stream both set, or a header name or value that is invalid.
BuildFails(c) == pc[c] = "build" /\ Fail(c)

Send(c) ==
    /\ pc[c] = "build"
    /\ pc' = [pc EXCEPT ![c] = "sending"]
    /\ UNCHANGED <<gates, host, map, free, queue, hold>>

\* A transport, TLS, pin or middleware error, the timeout, or a URL that
\* nothing parsed before because the host gate is off.
SendFails(c) == pc[c] = "sending" /\ Fail(c)

\* The head arrived: the permits move into the PqcResponse.
HeadArrives(c) ==
    /\ pc[c] = "sending" /\ host[c] # BadUrl
    /\ pc' = [pc EXCEPT ![c] = "open"]
    /\ UNCHANGED <<gates, host, map, free, queue, hold>>

-----------------------------------------------------------------------------
(* PqcResponse.                                                            *)

\* read_chunk returned None or an error, or bytes returned: the body is gone,
\* the permits are not.
ReadToEnd(c) ==
    /\ pc[c] = "open"
    /\ pc' = [pc EXCEPT ![c] = "drained"]
    /\ UNCHANGED <<gates, host, map, free, queue, hold>>

\* Mutant: cancel() leaves the permits to Drop, as it did before 02d591d.
CancelKeepsPermits(c) ==
    /\ pc[c] \in {"open", "drained", "cancelled"}
    /\ pc' = [pc EXCEPT ![c] = "cancelled"]
    /\ UNCHANGED <<gates, host, map, free, queue, hold>>

\* cancel(): permits.take(), while the caller still has the object.
Cancel(c) ==
    /\ pc[c] \in {"open", "drained", "cancelled"}
    /\ Release(c)
    /\ pc' = [pc EXCEPT ![c] = "cancelled"]
    /\ UNCHANGED <<gates, host, map>>

\* The last reference to the object goes away, on Android when the Cleaner runs.
Drop(c) ==
    /\ pc[c] \in {"open", "drained", "cancelled"}
    /\ Fail(c)

-----------------------------------------------------------------------------
Next == \E c \in Calls :
    \/ \E h \in Hosts \cup {BadUrl} : Request(c, h)
    \/ PassTotal(c) \/ RejectUrl(c) \/ FindHost(c) \/ SkipHost(c) \/ PassHost(c)
    \/ BuildFails(c) \/ Send(c) \/ SendFails(c) \/ HeadArrives(c)
    \/ ReadToEnd(c) \/ Cancel(c) \/ Drop(c)

\* The executor polls every woken task, the transport answers or times out and
\* the bridges call cancel() on a response they are done with; nothing promises
\* that a new call is made, a body read to its end or a handle collected.
Fairness == \A c \in Calls :
    /\ WF_vars(PassTotal(c))
    /\ WF_vars(RejectUrl(c) \/ FindHost(c) \/ SkipHost(c))
    /\ WF_vars(PassHost(c))
    /\ WF_vars(BuildFails(c) \/ Send(c))
    /\ WF_vars(SendFails(c) \/ HeadArrives(c))
    /\ WF_vars(Cancel(c))

Spec == Init /\ [][Next]_vars
FairSpec == Spec /\ Fairness

-----------------------------------------------------------------------------
TypeOK ==
    /\ gates \subseteq {"total", "host"}
    /\ pc \in [Calls -> Places]
    /\ host \in [Calls -> Hosts \cup {BadUrl, NoHost}]
    /\ map \subseteq Hosts
    /\ free \in [Gates -> Nat]
    /\ queue \in [Gates -> Seq(Calls)]
    /\ hold \in [Calls -> SUBSET Gates]
    /\ \A c \in Calls : pc[c] = "idle" <=> host[c] = NoHost

Holders(g) == {c \in Calls : g \in hold[c]}
CapOf(g) == IF g = Total THEN TotalCap ELSE IF g \in map THEN HostCap ELSE 0

\* Whatever calls fail, are cancelled twice or are dropped, every semaphore has
\* its whole capacity: a permit is free or is owned by exactly one call.
\* (client.rs: acquire_owned, the early returns of request, cancel, Drop)
PermitsConserved == \A g \in Gates : free[g] + Cardinality(Holders(g)) = CapOf(g)

\* A call owns exactly the permits of the gates it is past, and none once it
\* failed or its response was cancelled, although the caller may keep the
\* response object (client.rs:453-457, the Android holder pattern).
HoldsWhatItPassed == \A c \in Calls :
    /\ pc[c] \in {"idle", "cancelled"} => hold[c] = {}
    /\ pc[c] = "total" => TotalGate /\ hold[c] \subseteq {Total}
    /\ pc[c] = "lookup" => hold[c] = TotalPermit
    /\ pc[c] = "host" =>
          HostGate /\ TotalPermit \subseteq hold[c] /\ hold[c] \subseteq TotalPermit \cup {host[c]}
    /\ pc[c] \in InFlight => hold[c] = TotalPermit \cup HostPermit(c)

\* The calls parked on a semaphore, with or without their permit handed over.
Waits(c, g) == IF g = Total THEN pc[c] = "total" ELSE pc[c] = "host" /\ host[c] = g

\* The queue of a semaphore has exactly the calls that wait for its permit,
\* each once, and no permit is idle while a call waits: no wakeup is lost,
\* and none is left in the queue of a semaphore that the map lost.
\* (client.rs: PerHostInflight and the two acquire_owned().await)
QueuesAreWaiters == \A g \in Gates :
    /\ queue[g] # <<>> => free[g] = 0 /\ g \in map \cup {Total}
    /\ \A i \in DOMAIN queue[g] : Waits(queue[g][i], g) /\ g \notin hold[queue[g][i]]
    /\ \A i, j \in DOMAIN queue[g] : queue[g][i] = queue[g][j] => i = j
    /\ \A c \in Calls : Waits(c, g) /\ g \notin hold[c] =>
          \E i \in DOMAIN queue[g] : queue[g][i] = c

-----------------------------------------------------------------------------
\* A call is in flight from the moment it is past both gates until its response
\* is cancelled or dropped, or request fails.
Running == [c \in Calls |-> IF pc[c] \in InFlight THEN host[c] ELSE NoHost]

D == INSTANCE Dispatcher WITH
        Targets <- Hosts \cup {BadUrl},
        Nowhere <- NoHost,
        running <- Running

\* The two gates never let more calls be in flight, over all hosts or on one
\* host, than config.rs promises, through every error, cancel and Drop
\* (client.rs, request and PqcResponse).
CapsHold == D!Spec

\* A call that waits for a permit, on either gate, gets past both or fails, as
\* long as responses are closed: a handle that outlives its cancel() does not
\* stall a gate (client.rs:453-457).
QueuedIsAdmitted == \A c \in Calls : pc[c] \in Queued ~> pc[c] \notin Queued
=============================================================================

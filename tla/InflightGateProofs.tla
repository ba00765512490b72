------------------------- MODULE InflightGateProofs -------------------------
(***************************************************************************)
(* For every set of callers and hosts and all caps: the permits of every   *)
(* semaphore are conserved, a call holds exactly the permits of the gates  *)
(* it is past, and InflightGate implements Dispatcher.                     *)
(*                                                                         *)
(* The four invariants are inductive together, none of them alone: that a  *)
(* release conserves permits needs the head of the queue to hold no permit *)
(* of that semaphore yet (QueuesAreWaiters), and that in turn needs a      *)
(* caller to join a queue only when it holds nothing there                 *)
(* (HoldsWhatItPassed).                                                    *)
(***************************************************************************)
EXTENDS InflightGate, FiniteSetTheorems, TLAPS

GateInv == TypeOK /\ PermitsConserved /\ HoldsWhatItPassed /\ QueuesAreWaiters

\* The holders of a semaphore are finitely many.
LEMMA HoldersFinite ==
    ASSUME NEW g
    PROVE  /\ IsFiniteSet(Holders(g))
           /\ Cardinality(Holders(g)) \in Nat
  BY GateAssumption, FS_Subset, FS_CardinalityType DEF Holders

\* A step that moves no permit conserves them.
LEMMA QuietConserves ==
    ASSUME PermitsConserved, UNCHANGED <<map, free, hold>>
    PROVE  PermitsConserved'
  <1>1. \A g \in Gates : Holders(g)' = Holders(g) /\ CapOf(g)' = CapOf(g)
    BY DEF Holders, CapOf
  <1>. QED BY <1>1 DEF PermitsConserved

-----------------------------------------------------------------------------
(* Acquire.                                                                *)

\* acquire_owned on a semaphore whose permits f are accounted for keeps the
\* account, whether the call gets a permit or joins the queue.
LEMMA AcquireConserves ==
    ASSUME TypeOK, NEW c \in Calls, NEW g \in Gates, g \notin hold[c],
           NEW f \in [Gates -> Nat],
           \A k \in Gates : f[k] + Cardinality(Holders(k)) = CapOf(k)',
           Acquire(c, g, f)
    PROVE  PermitsConserved'
  <1>. SUFFICES ASSUME NEW k \in Gates
                PROVE  free'[k] + Cardinality(Holders(k)') = CapOf(k)'
    BY DEF PermitsConserved
  <1>1. CASE f[g] = 0
    <2>1. free' = f /\ hold' = hold
      BY <1>1 DEF Acquire
    <2>2. Holders(k)' = Holders(k)
      BY <2>1 DEF Holders
    <2>. QED BY <2>1, <2>2
  <1>2. CASE f[g] > 0
    <2>1. /\ free' = [f EXCEPT ![g] = @ - 1]
          /\ hold' = [hold EXCEPT ![c] = @ \cup {g}]
      BY <1>2 DEF Acquire
    <2>2. CASE k = g
      <3>1. Holders(k)' = Holders(k) \cup {c}
        BY <2>1, <2>2 DEF Holders, TypeOK
      <3>2. c \notin Holders(k)
        BY <2>2 DEF Holders
      <3>3. Cardinality(Holders(k)') = Cardinality(Holders(k)) + 1
        BY <3>1, <3>2, HoldersFinite, FS_AddElement
      <3>4. free'[k] = f[k] - 1
        BY <2>1, <2>2
      <3>. QED BY <3>3, <3>4, HoldersFinite
    <2>3. CASE k # g
      <3>1. Holders(k)' = Holders(k)
        BY <2>1, <2>3 DEF Holders, TypeOK
      <3>. QED BY <2>1, <2>3, <3>1
    <2>. QED BY <2>2, <2>3
  <1>. QED BY <1>1, <1>2

-----------------------------------------------------------------------------
(* Release.                                                                *)

\* Tail of a queue: what is left, and at which index.
LEMMA TailOfQueue ==
    ASSUME NEW S, NEW q \in Seq(S), q # <<>>
    PROVE  /\ Tail(q) \in Seq(S)
           /\ Head(q) = q[1]
           /\ 1 \in DOMAIN q
           /\ DOMAIN q = 1 .. Len(q) /\ Len(q) \in Nat
           /\ DOMAIN Tail(q) = 1 .. (Len(q) - 1)
           /\ \A i \in DOMAIN Tail(q) : Tail(q)[i] = q[i + 1] /\ i + 1 \in DOMAIN q
  OBVIOUS

\* The call a permit goes to has none of that semaphore and is not the giver.
LEMMA HeirIsWaiter ==
    ASSUME TypeOK, QueuesAreWaiters, NEW c \in Calls, NEW g \in Gates,
           g \in hold[c], queue[g] # <<>>
    PROVE  /\ Head(queue[g]) \in Calls
           /\ Head(queue[g]) # c
           /\ g \notin hold[Head(queue[g])]
  <1>1. queue[g] \in Seq(Calls)
    BY DEF TypeOK
  <1>2. 1 \in DOMAIN queue[g] /\ Head(queue[g]) = queue[g][1]
    BY <1>1, TailOfQueue
  <1>3. g \notin hold[queue[g][1]]
    BY <1>2 DEF QueuesAreWaiters
  <1>4. queue[g][1] \in Calls
    BY <1>1, <1>2
  <1>. QED BY <1>2, <1>3, <1>4

\* Dropping the permits of a call keeps every semaphore's capacity whole.
LEMMA ReleaseConserves ==
    ASSUME TypeOK, QueuesAreWaiters, PermitsConserved, NEW c \in Calls,
           Release(c), UNCHANGED map
    PROVE  PermitsConserved'
  <1>. SUFFICES ASSUME NEW g \in Gates
                PROVE  free'[g] + Cardinality(Holders(g)') = CapOf(g)
    BY DEF PermitsConserved, CapOf
  <1>1. free[g] + Cardinality(Holders(g)) = CapOf(g)
    BY DEF PermitsConserved
  <1>2. free[g] \in Nat
    BY DEF TypeOK
  <1>3. \A d \in Calls : g \in hold'[d] <=> ((d # c /\ g \in hold[d]) \/ Heir(c, g, d))
    BY DEF Release
  <1>4. CASE g \notin hold[c]
    <2>1. Holders(g)' = Holders(g)
      BY <1>3, <1>4 DEF Holders, Heir
    <2>2. free'[g] = free[g]
      BY <1>4 DEF Release
    <2>. QED BY <1>1, <2>1, <2>2
  <1>5. CASE g \in hold[c] /\ queue[g] = <<>>
    <2>1. Holders(g)' = Holders(g) \ {c}
      BY <1>3, <1>5 DEF Holders, Heir
    <2>2. c \in Holders(g)
      BY <1>5 DEF Holders
    <2>3. Cardinality(Holders(g)') = Cardinality(Holders(g)) - 1
      BY <2>1, <2>2, HoldersFinite, FS_RemoveElement
    <2>4. free'[g] = free[g] + 1
      BY <1>5 DEF Release
    <2>. QED BY <1>1, <1>2, <2>3, <2>4, HoldersFinite
  <1>6. CASE g \in hold[c] /\ queue[g] # <<>>
    <2>. DEFINE d == Head(queue[g])
    <2>1. d \in Calls /\ d # c /\ g \notin hold[d]
      BY <1>6, HeirIsWaiter
    <2>2. Holders(g)' = (Holders(g) \ {c}) \cup {d}
      BY <1>3, <1>6, <2>1 DEF Holders, Heir
    <2>3. c \in Holders(g) /\ d \notin Holders(g) \ {c}
      BY <1>6, <2>1 DEF Holders
    <2>4. /\ IsFiniteSet(Holders(g) \ {c})
          /\ Cardinality(Holders(g) \ {c}) = Cardinality(Holders(g)) - 1
      BY <2>3, HoldersFinite, FS_RemoveElement
    <2>5. Cardinality(Holders(g)') = Cardinality(Holders(g) \ {c}) + 1
      BY <2>2, <2>3, <2>4, FS_AddElement
    <2>6. free'[g] = free[g]
      BY <1>6 DEF Release
    <2>. QED BY <1>1, <1>2, <2>4, <2>5, <2>6, HoldersFinite
  <1>. QED BY <1>4, <1>5, <1>6

-----------------------------------------------------------------------------
(* The queues.                                                             *)

\* A step that changes neither a queue nor who waits in one.
LEMMA QuietKeepsQueues ==
    ASSUME TypeOK, QueuesAreWaiters, UNCHANGED <<map, free, queue, hold>>,
           \A d \in Calls, k \in Gates : k \notin hold[d] => Waits(d, k)' = Waits(d, k)
    PROVE  QueuesAreWaiters'
  <1>. SUFFICES ASSUME NEW g \in Gates
                PROVE  /\ queue[g] # <<>> => free[g] = 0 /\ g \in map \cup {Total}
                       /\ \A i \in DOMAIN queue[g] : Waits(queue[g][i], g)' /\ g \notin hold[queue[g][i]]
                       /\ \A i, j \in DOMAIN queue[g] : queue[g][i] = queue[g][j] => i = j
                       /\ \A c \in Calls : Waits(c, g)' /\ g \notin hold[c] =>
                             \E i \in DOMAIN queue[g] : queue[g][i] = c
    BY DEF QueuesAreWaiters, Waits
  <1>1. \A i \in DOMAIN queue[g] : queue[g][i] \in Calls
    BY DEF TypeOK
  <1>. QED BY <1>1 DEF QueuesAreWaiters

\* A call that was parked nowhere joins the queue of g, or gets a permit of g.
LEMMA AcquireKeepsQueues ==
    ASSUME TypeOK, QueuesAreWaiters, NEW c \in Calls, NEW g \in Gates,
           NEW f \in [Gates -> Nat], \A k \in Gates : queue[k] # <<>> => f[k] = 0,
           Acquire(c, g, f), g \in map' \cup {Total}, map \subseteq map', g \notin hold[c],
           \A k \in Gates : ~Waits(c, k) /\ (Waits(c, k)' <=> k = g),
           \A d \in Calls, k \in Gates : d # c => Waits(d, k)' = Waits(d, k)
    PROVE  QueuesAreWaiters'
  <1>. SUFFICES ASSUME NEW k \in Gates
                PROVE  /\ queue'[k] # <<>> => free'[k] = 0 /\ k \in map' \cup {Total}
                       /\ \A i \in DOMAIN queue'[k] :
                             Waits(queue[k][i], k)' /\ k \notin hold'[queue'[k][i]]
                       /\ \A i, j \in DOMAIN queue'[k] : queue'[k][i] = queue'[k][j] => i = j
                       /\ \A d \in Calls : Waits(d, k)' /\ k \notin hold'[d] =>
                             \E i \in DOMAIN queue'[k] : queue'[k][i] = d
    BY DEF QueuesAreWaiters, Waits
  <1>1. /\ queue[k] \in Seq(Calls) /\ DOMAIN queue[k] = 1 .. Len(queue[k])
        /\ Len(queue[k]) \in Nat /\ \A i \in DOMAIN queue[k] : queue[k][i] \in Calls
    BY DEF TypeOK
  <1>2. \A i \in DOMAIN queue[k] : queue[k][i] # c
    BY DEF QueuesAreWaiters
  <1>3. CASE f[g] = 0
    <2>1. free' = f /\ hold' = hold /\ queue' = [queue EXCEPT ![g] = Append(@, c)]
      BY <1>3 DEF Acquire
    <2>2. CASE k # g
      <3>1. queue'[k] = queue[k]
        BY <2>1, <2>2 DEF TypeOK
      <3>2. \A i \in DOMAIN queue[k] : Waits(queue[k][i], k)' = Waits(queue[k][i], k)
        BY <1>1, <1>2, <3>1
      <3>. QED BY <1>1, <1>2, <2>1, <2>2, <3>1, <3>2 DEF QueuesAreWaiters, Waits
    <2>3. CASE k = g
      <3>1. queue'[k] = Append(queue[k], c)
        BY <2>1, <2>3 DEF TypeOK
      <3>2. /\ DOMAIN queue'[k] = 1 .. (Len(queue[k]) + 1)
            /\ \A i \in DOMAIN queue[k] : queue'[k][i] = queue[k][i]
            /\ queue'[k][Len(queue[k]) + 1] = c
        BY <1>1, <3>1
      <3>3. \A i \in DOMAIN queue'[k] :
              i \in DOMAIN queue[k] \/ (i = Len(queue[k]) + 1 /\ i \notin DOMAIN queue[k])
        BY <1>1, <3>2
      <3>4. \A i \in DOMAIN queue'[k] : Waits(queue[k][i], k)' /\ k \notin hold'[queue'[k][i]]
        <4>. SUFFICES ASSUME NEW i \in DOMAIN queue'[k]
                      PROVE  Waits(queue[k][i], k)' /\ k \notin hold'[queue'[k][i]]
          OBVIOUS
        <4>1. CASE i \in DOMAIN queue[k]
          <5>1. Waits(queue[k][i], k) /\ k \notin hold[queue[k][i]]
            BY <4>1 DEF QueuesAreWaiters
          <5>2. queue[k][i] \in Calls /\ queue[k][i] # c /\ queue'[k][i] = queue[k][i]
            BY <1>1, <1>2, <3>2, <4>1
          <5>. QED BY <5>1, <5>2, <2>1 DEF Waits
        <4>2. CASE i = Len(queue[k]) + 1
          <5>1. queue'[k][i] = c
            BY <3>2, <4>2
          <5>. QED BY <5>1, <2>1, <2>3 DEF Waits
        <4>. QED BY <3>3, <4>1, <4>2
      <3>5. \A i, j \in DOMAIN queue'[k] : queue'[k][i] = queue'[k][j] => i = j
        BY <1>2, <3>2, <3>3 DEF QueuesAreWaiters
      <3>6. \A d \in Calls : Waits(d, k)' /\ k \notin hold'[d] =>
              \E i \in DOMAIN queue'[k] : queue'[k][i] = d
        <4>. SUFFICES ASSUME NEW d \in Calls, Waits(d, k)', k \notin hold'[d]
                      PROVE  \E i \in DOMAIN queue'[k] : queue'[k][i] = d
          OBVIOUS
        <4>1. CASE d = c
          <5>1. Len(queue[k]) + 1 \in DOMAIN queue'[k]
            BY <1>1, <3>2
          <5>. QED BY <3>2, <4>1, <5>1
        <4>2. CASE d # c
          <5>1. PICK i \in DOMAIN queue[k] : queue[k][i] = d
            BY <2>1, <4>2 DEF QueuesAreWaiters
          <5>2. i \in DOMAIN queue'[k]
            BY <1>1, <3>2
          <5>. QED BY <3>2, <5>1, <5>2
        <4>. QED BY <4>1, <4>2
      <3>. QED BY <1>3, <2>1, <2>3, <3>4, <3>5, <3>6
    <2>. QED BY <2>2, <2>3
  <1>4. CASE f[g] > 0
    <2>1. /\ queue' = queue /\ free' = [f EXCEPT ![g] = @ - 1]
          /\ hold' = [hold EXCEPT ![c] = @ \cup {g}]
      BY <1>4 DEF Acquire
    <2>2. queue[g] = <<>>
      BY <1>4
    <2>3. queue[k] # <<>> => k # g /\ free'[k] = 0
      BY <2>1, <2>2
    <2>4. \A i \in DOMAIN queue[k] : Waits(queue[k][i], k)' /\ hold'[queue[k][i]] = hold[queue[k][i]]
      BY <1>1, <1>2, <2>1 DEF QueuesAreWaiters, TypeOK
    <2>5. \A d \in Calls : Waits(d, k)' /\ k \notin hold'[d] => Waits(d, k) /\ k \notin hold[d]
      BY <2>1 DEF TypeOK
    <2>. QED BY <2>1, <2>3, <2>4, <2>5 DEF QueuesAreWaiters, Waits
  <1>. QED BY <1>3, <1>4

\* A call that is parked nowhere gives its permits back.
LEMMA ReleaseKeepsQueues ==
    ASSUME TypeOK, QueuesAreWaiters, NEW c \in Calls, Release(c), UNCHANGED map,
           \A k \in Gates : ~Waits(c, k) /\ ~Waits(c, k)',
           \A d \in Calls, k \in Gates : d # c => Waits(d, k)' = Waits(d, k)
    PROVE  QueuesAreWaiters'
  <1>. SUFFICES ASSUME NEW k \in Gates
                PROVE  /\ queue'[k] # <<>> => free'[k] = 0 /\ k \in map \cup {Total}
                       /\ \A i \in DOMAIN queue'[k] :
                             Waits(queue[k][i], k)' /\ k \notin hold'[queue'[k][i]]
                       /\ \A i, j \in DOMAIN queue'[k] : queue'[k][i] = queue'[k][j] => i = j
                       /\ \A d \in Calls : Waits(d, k)' /\ k \notin hold'[d] =>
                             \E i \in DOMAIN queue'[k] : queue'[k][i] = d
    BY DEF QueuesAreWaiters, Waits
  <1>1. /\ queue[k] \in Seq(Calls) /\ DOMAIN queue[k] = 1 .. Len(queue[k])
        /\ Len(queue[k]) \in Nat /\ \A i \in DOMAIN queue[k] : queue[k][i] \in Calls
    BY DEF TypeOK
  <1>2. \A i \in DOMAIN queue[k] : queue[k][i] # c
    BY DEF QueuesAreWaiters
  <1>3. \A d \in Calls : k \in hold'[d] <=> ((d # c /\ k \in hold[d]) \/ Heir(c, k, d))
    BY DEF Release
  <1>4. CASE k \notin hold[c]
    <2>1. queue'[k] = queue[k] /\ free'[k] = free[k]
      BY <1>4 DEF Release
    <2>2. \A d \in Calls : d # c => (k \in hold'[d] <=> k \in hold[d])
      BY <1>3, <1>4 DEF Heir
    <2>3. \A i \in DOMAIN queue[k] : Waits(queue[k][i], k)' /\ k \notin hold'[queue[k][i]]
      <3>. SUFFICES ASSUME NEW i \in DOMAIN queue[k]
                    PROVE  Waits(queue[k][i], k)' /\ k \notin hold'[queue[k][i]]
        OBVIOUS
      <3>. DEFINE d == queue[k][i]
      <3>1. d \in Calls /\ d # c /\ queue'[k][i] = d
        BY <1>1, <1>2, <2>1
      <3>2. Waits(d, k) /\ k \notin hold[d]
        BY DEF QueuesAreWaiters
      <3>3. k \notin hold'[d]
        BY <2>2, <3>1, <3>2
      <3>. QED BY <3>1, <3>2, <3>3 DEF Waits
    <2>. QED BY <2>1, <2>2, <2>3 DEF QueuesAreWaiters, Waits
  <1>5. CASE k \in hold[c] /\ queue[k] = <<>>
    <2>1. queue'[k] = <<>>
      BY <1>5 DEF Release
    <2>2. \A d \in Calls : d # c => (k \in hold'[d] <=> k \in hold[d])
      BY <1>3, <1>5 DEF Heir
    <2>3. \A d \in Calls : Waits(d, k)' /\ k \notin hold'[d] => Waits(d, k) /\ k \notin hold[d]
      BY <2>2
    <2>4. \A d \in Calls : ~(Waits(d, k) /\ k \notin hold[d])
      BY <1>5 DEF QueuesAreWaiters
    <2>. QED BY <2>1, <2>3, <2>4
  <1>6. CASE k \in hold[c] /\ queue[k] # <<>>
    <2>1. queue'[k] = Tail(queue[k]) /\ free'[k] = free[k]
      BY <1>6 DEF Release
    <2>2. /\ Head(queue[k]) = queue[k][1] /\ 1 \in DOMAIN queue[k]
          /\ DOMAIN queue'[k] = 1 .. (Len(queue[k]) - 1)
          /\ \A i \in DOMAIN queue'[k] : queue'[k][i] = queue[k][i + 1] /\ i + 1 \in DOMAIN queue[k]
      BY <1>1, <1>6, <2>1, TailOfQueue
    <2>3. \A d \in Calls : d # c => (k \in hold'[d] <=> (k \in hold[d] \/ d = queue[k][1]))
      BY <1>3, <1>6, <2>2 DEF Heir
    <2>4. \A i \in DOMAIN queue'[k] : i + 1 # 1 /\ queue'[k][i] # queue[k][1]
      BY <1>1, <2>2 DEF QueuesAreWaiters
    <2>5. \A i \in DOMAIN queue'[k] : Waits(queue[k][i], k)' /\ k \notin hold'[queue'[k][i]]
      <3>. SUFFICES ASSUME NEW i \in DOMAIN queue'[k]
                    PROVE  Waits(queue[k][i], k)' /\ k \notin hold'[queue'[k][i]]
        OBVIOUS
      <3>. DEFINE d == queue[k][i + 1]
      <3>1. queue'[k][i] = d /\ d \in Calls /\ d # c /\ d # queue[k][1]
        BY <1>1, <1>2, <2>2, <2>4
      <3>2. Waits(d, k) /\ k \notin hold[d]
        BY <2>2 DEF QueuesAreWaiters
      <3>3. k \notin hold'[d]
        BY <2>3, <3>1, <3>2
      <3>. QED BY <3>1, <3>2, <3>3 DEF Waits
    <2>6. \A i, j \in DOMAIN queue'[k] : queue'[k][i] = queue'[k][j] => i = j
      <3>. SUFFICES ASSUME NEW i \in DOMAIN queue'[k], NEW j \in DOMAIN queue'[k],
                           queue'[k][i] = queue'[k][j]
                    PROVE  i = j
        OBVIOUS
      <3>1. i + 1 = j + 1
        BY <2>2 DEF QueuesAreWaiters
      <3>. QED BY <1>1, <2>2, <3>1
    <2>7. \A d \in Calls : Waits(d, k)' /\ k \notin hold'[d] =>
            \E i \in DOMAIN queue'[k] : queue'[k][i] = d
      <3>. SUFFICES ASSUME NEW d \in Calls, Waits(d, k)', k \notin hold'[d]
                    PROVE  \E i \in DOMAIN queue'[k] : queue'[k][i] = d
        OBVIOUS
      <3>1. d # c /\ Waits(d, k) /\ k \notin hold[d] /\ d # queue[k][1]
        BY <2>3
      <3>2. PICK i \in DOMAIN queue[k] : queue[k][i] = d
        BY <3>1 DEF QueuesAreWaiters
      <3>3. i # 1
        BY <3>1, <3>2
      <3>4. i - 1 \in DOMAIN queue'[k] /\ queue'[k][i - 1] = queue[k][(i - 1) + 1] /\ (i - 1) + 1 = i
        BY <1>1, <2>2, <3>3
      <3>. QED BY <3>2, <3>4
    <2>8. queue[k] # <<>> => free[k] = 0 /\ k \in map \cup {Total}
      BY DEF QueuesAreWaiters
    <2>. QED BY <1>6, <2>1, <2>5, <2>6, <2>7, <2>8
  <1>. QED BY <1>4, <1>5, <1>6

-----------------------------------------------------------------------------
(* The steps of a call.                                                    *)

\* A step of c in which no permit and no queue moves, and which neither starts
\* nor ends an unfinished wait.
Moves(c, from, to) ==
    /\ pc[c] = from
    /\ pc' = [pc EXCEPT ![c] = to]
    /\ UNCHANGED <<gates, host, map, free, queue, hold>>

\* What the permits of c must be at a place, as HoldsWhatItPassed says it.
Owns(c, at) ==
    /\ at \in {"idle", "cancelled"} => hold[c] = {}
    /\ at = "total" => TotalGate /\ hold[c] \subseteq {Total}
    /\ at = "lookup" => hold[c] = TotalPermit
    /\ at = "host" =>
          HostGate /\ TotalPermit \subseteq hold[c] /\ hold[c] \subseteq TotalPermit \cup {host[c]}
    /\ at \in InFlight => hold[c] = TotalPermit \cup HostPermit(c)

LEMMA MoveKeepsInv ==
    ASSUME GateInv, NEW c \in Calls, NEW from \in Places \ {"idle"}, NEW to \in Places \ {"idle"},
           Moves(c, from, to), to \notin {"total", "host"}, Owns(c, to),
           from = "total" => Total \in hold[c],
           from = "host" => host[c] \in hold[c]
    PROVE  GateInv'
  <1>. USE DEF GateInv
  <1>1. TypeOK'
    BY DEF Moves, TypeOK
  <1>2. PermitsConserved'
    BY QuietConserves DEF Moves
  <1>3. HoldsWhatItPassed'
    BY DEF Moves, HoldsWhatItPassed, Owns, TypeOK, HostPermit, TotalPermit, TotalGate, HostGate
  <1>4. \A d \in Calls, k \in Gates : k \notin hold[d] => Waits(d, k)' = Waits(d, k)
    BY DEF Moves, Waits, TypeOK
  <1>5. QueuesAreWaiters'
    BY <1>4, QuietKeepsQueues DEF Moves
  <1>. QED BY <1>1, <1>2, <1>3, <1>5

\* What Release does to the permits of each call.
LEMMA ReleaseHolds ==
    ASSUME TypeOK, QueuesAreWaiters, NEW c \in Calls, Release(c)
    PROVE  /\ free' \in [Gates -> Nat]
           /\ queue' \in [Gates -> Seq(Calls)]
           /\ hold' \in [Calls -> SUBSET Gates]
           /\ hold'[c] = {}
           /\ \A d \in Calls, g \in Gates : d # c /\ g \in hold'[d] =>
                 g \in hold[d] \/ Waits(d, g)
           /\ \A d \in Calls : d # c => hold[d] \subseteq hold'[d]
  <1>1. free' \in [Gates -> Nat]
    BY DEF Release, TypeOK
  <1>2. queue' \in [Gates -> Seq(Calls)]
    <2>. SUFFICES ASSUME NEW g \in Gates PROVE queue'[g] \in Seq(Calls)
      BY DEF Release
    <2>1. queue[g] \in Seq(Calls)
      BY DEF TypeOK
    <2>2. queue[g] # <<>> => Tail(queue[g]) \in Seq(Calls)
      BY <2>1, TailOfQueue
    <2>. QED BY <2>1, <2>2 DEF Release
  <1>3. \A d \in Calls, g \in Gates :
          g \in hold'[d] <=> ((d # c /\ g \in hold[d]) \/ Heir(c, g, d))
    BY DEF Release, TypeOK
  <1>4. hold' \in [Calls -> SUBSET Gates]
    BY DEF Release, TypeOK
  <1>5. ASSUME NEW d \in Calls, NEW g \in Gates, Heir(c, g, d)
        PROVE  d # c /\ Waits(d, g)
    <2>1. queue[g] \in Seq(Calls) /\ queue[g] # <<>> /\ Head(queue[g]) = d /\ g \in hold[c]
      BY <1>5 DEF Heir, TypeOK
    <2>2. queue[g][1] = d /\ 1 \in DOMAIN queue[g]
      BY <2>1, TailOfQueue
    <2>. QED BY <2>1, <2>2, HeirIsWaiter DEF QueuesAreWaiters
  <1>6. hold'[c] = {}
    BY <1>3, <1>4, <1>5
  <1>7. \A d \in Calls : d # c => hold[d] \subseteq hold'[d]
    BY <1>3 DEF TypeOK
  <1>. QED BY <1>1, <1>2, <1>3, <1>4, <1>5, <1>6, <1>7

\* A call past its gates, or refused at the lookup, gives its permits back.
LEMMA GiveUpKeepsInv ==
    ASSUME GateInv, NEW c \in Calls, NEW to \in {"idle", "cancelled"},
           pc[c] \in InFlight \cup {"lookup", "cancelled"},
           Release(c), UNCHANGED <<gates, map>>, pc' = [pc EXCEPT ![c] = to],
           host' = IF to = "idle" THEN [host EXCEPT ![c] = NoHost] ELSE host
    PROVE  GateInv'
  <1>. USE DEF GateInv
  <1>1. pc' \in [Calls -> Places] /\ host' \in [Calls -> Hosts \cup {BadUrl, NoHost}]
    BY DEF TypeOK, Places
  <1>2. \A d \in Calls : pc'[d] = "idle" <=> host'[d] = NoHost
    BY DEF TypeOK, InFlight
  <1>3. TypeOK'
    BY <1>1, <1>2, ReleaseHolds DEF TypeOK
  <1>4. PermitsConserved'
    BY ReleaseConserves
  <1>5. HoldsWhatItPassed'
    <2>. SUFFICES ASSUME NEW d \in Calls PROVE Owns(d, pc[d])'
      BY DEF HoldsWhatItPassed, Owns
    <2>1. CASE d = c
      BY <2>1, ReleaseHolds DEF TypeOK, Owns, InFlight
    <2>2. CASE d # c
      <3>1. pc'[d] = pc[d] /\ host'[d] = host[d]
        BY <2>2 DEF TypeOK
      <3>2. Owns(d, pc[d])
        BY DEF HoldsWhatItPassed, Owns
      <3>3. /\ hold[d] \subseteq hold'[d] /\ hold'[d] \subseteq Gates
            /\ \A g \in Gates : g \in hold'[d] => g \in hold[d] \/ Waits(d, g)
        BY <2>2, ReleaseHolds
      <3>4. CASE pc[d] \notin {"total", "host"}
        <4>1. hold'[d] = hold[d]
          BY <3>3, <3>4 DEF Waits
        <4>. QED BY <3>1, <3>2, <3>4, <4>1 DEF Owns, HostPermit, TotalPermit, TotalGate, HostGate
      <3>5. CASE pc[d] = "total"
        BY <3>1, <3>2, <3>3, <3>5 DEF Owns, Waits, InFlight, TotalGate
      <3>6. CASE pc[d] = "host"
        <4>1. \A g \in hold'[d] : g \in hold[d] \/ g = host[d]
          BY <3>3, <3>6 DEF Waits
        <4>. QED BY <3>1, <3>2, <3>3, <3>6, <4>1 DEF Owns, InFlight, TotalPermit, TotalGate, HostGate
      <3>. QED BY <3>4, <3>5, <3>6
    <2>. QED BY <2>1, <2>2
  <1>6. QueuesAreWaiters'
    <2>1. \A k \in Gates : ~Waits(c, k) /\ ~Waits(c, k)'
      BY DEF Waits, TypeOK, InFlight
    <2>2. \A d \in Calls, k \in Gates : d # c => Waits(d, k)' = Waits(d, k)
      BY DEF Waits, TypeOK
    <2>. QED BY <2>1, <2>2, ReleaseKeepsQueues
  <1>. QED BY <1>3, <1>4, <1>5, <1>6

\* A call that is parked nowhere acquires g: from request for the global gate,
\* from the lookup for a host.
LEMMA ParkKeepsInv ==
    ASSUME GateInv, NEW c \in Calls, NEW g \in Gates,
           NEW to \in {"total", "host"}, NEW f \in [Gates -> Nat],
           pc[c] \in {"idle", "lookup"}, pc' = [pc EXCEPT ![c] = to],
           host' \in [Calls -> Hosts \cup {BadUrl, NoHost}], host'[c] # NoHost,
           \A d \in Calls : d # c => host'[d] = host[d],
           UNCHANGED gates, map' \subseteq Hosts, map \subseteq map', g \in map' \cup {Total},
           to = "total" => g = Total /\ TotalGate /\ pc[c] = "idle",
           to = "host" => g = host'[c] /\ g # Total /\ HostGate /\ pc[c] = "lookup",
           Acquire(c, g, f),
           \A k \in Gates : queue[k] # <<>> => f[k] = 0,
           \A k \in Gates : f[k] + Cardinality(Holders(k)) = CapOf(k)'
    PROVE  GateInv'
  <1>. USE DEF GateInv
  <1>1. g \notin hold[c]
    BY DEF HoldsWhatItPassed, TotalPermit
  <1>2. /\ hold' \in [Calls -> SUBSET Gates]
        /\ hold[c] \subseteq hold'[c] /\ hold'[c] \subseteq hold[c] \cup {g}
        /\ \A d \in Calls : d # c => hold'[d] = hold[d]
    <2>1. hold' = hold \/ hold' = [hold EXCEPT ![c] = hold[c] \cup {g}]
      BY DEF Acquire
    <2>2. hold \in [Calls -> SUBSET Gates]
      BY DEF TypeOK
    <2>. QED BY <2>1, <2>2
  <1>3. free' \in [Gates -> Nat]
    BY DEF Acquire
  <1>4. queue' \in [Gates -> Seq(Calls)]
    <2>1. queue' = queue \/ queue' = [queue EXCEPT ![g] = Append(queue[g], c)]
      BY DEF Acquire
    <2>2. queue \in [Gates -> Seq(Calls)] /\ Append(queue[g], c) \in Seq(Calls)
      BY DEF TypeOK
    <2>. QED BY <2>1, <2>2
  <1>5. TypeOK'
    <2>1. pc' \in [Calls -> Places]
      BY DEF TypeOK, Places, Queued
    <2>2. \A d \in Calls : pc'[d] = "idle" <=> host'[d] = NoHost
      BY DEF TypeOK
    <2>. QED BY <1>2, <1>3, <1>4, <2>1, <2>2 DEF TypeOK
  <1>6. PermitsConserved'
    BY <1>1, AcquireConserves
  <1>7. HoldsWhatItPassed'
    <2>. SUFFICES ASSUME NEW d \in Calls PROVE Owns(d, pc[d])'
      BY DEF HoldsWhatItPassed, Owns
    <2>1. CASE d = c
      <3>1. pc'[c] = to
        BY DEF TypeOK
      <3>2. pc[c] = "idle" => hold[c] = {}
        BY DEF HoldsWhatItPassed
      <3>3. pc[c] = "lookup" => hold[c] = TotalPermit
        BY DEF HoldsWhatItPassed
      <3>. QED BY <1>2, <2>1, <3>1, <3>2, <3>3 DEF Owns, InFlight, TotalPermit, TotalGate, HostGate
    <2>2. CASE d # c
      <3>1. pc'[d] = pc[d] /\ host'[d] = host[d] /\ hold'[d] = hold[d]
        BY <1>2, <2>2 DEF TypeOK
      <3>2. Owns(d, pc[d])
        BY DEF HoldsWhatItPassed, Owns
      <3>. QED BY <3>1, <3>2 DEF Owns, HostPermit, TotalPermit, TotalGate, HostGate
    <2>. QED BY <2>1, <2>2
  <1>8. QueuesAreWaiters'
    <2>1. \A k \in Gates : ~Waits(c, k) /\ (Waits(c, k)' <=> k = g)
      BY GateAssumption DEF Waits, TypeOK
    <2>2. \A d \in Calls, k \in Gates : d # c => Waits(d, k)' = Waits(d, k)
      BY DEF Waits, TypeOK
    <2>. QED BY <1>1, <2>1, <2>2, AcquireKeepsQueues
  <1>. QED BY <1>5, <1>6, <1>7, <1>8

LEMMA RequestKeepsInv ==
    ASSUME GateInv, NEW c \in Calls, NEW h \in Hosts \cup {BadUrl}, Request(c, h)
    PROVE  GateInv'
  <1>. USE DEF GateInv
  <1>1. /\ host' \in [Calls -> Hosts \cup {BadUrl, NoHost}] /\ host'[c] = h
        /\ h # NoHost /\ \A d \in Calls : d # c => host'[d] = host[d]
    BY GateAssumption DEF Request, TypeOK
  <1>2. CASE TotalGate
    <2>1. Total \in Gates /\ free \in [Gates -> Nat]
      BY DEF Gates, TypeOK
    <2>2. \A k \in Gates : free[k] + Cardinality(Holders(k)) = CapOf(k)'
      BY DEF PermitsConserved, CapOf, Request
    <2>3. \A k \in Gates : queue[k] # <<>> => free[k] = 0
      BY DEF QueuesAreWaiters
    <2>4. /\ pc[c] = "idle" /\ pc' = [pc EXCEPT ![c] = "total"] /\ map' = map
          /\ Acquire(c, Total, free) /\ map \subseteq Hosts /\ gates' = gates
      BY <1>2 DEF Request, TypeOK
    <2>. QED BY <1>1, <1>2, <2>1, <2>2, <2>3, <2>4, ParkKeepsInv
  <1>3. CASE ~TotalGate
    <2>1. /\ pc[c] = "idle" /\ pc' = [pc EXCEPT ![c] = "lookup"]
          /\ UNCHANGED <<gates, map, free, queue, hold>>
      BY <1>3 DEF Request
    <2>2. TypeOK'
      BY <1>1, <2>1 DEF TypeOK, Places, Queued
    <2>3. PermitsConserved'
      BY <2>1, QuietConserves
    <2>4. HoldsWhatItPassed'
      BY <1>1, <1>3, <2>1 DEF HoldsWhatItPassed, TypeOK, TotalPermit, HostPermit, InFlight,
                                     TotalGate, HostGate
    <2>5. \A d \in Calls, k \in Gates : Waits(d, k)' = Waits(d, k)
      BY <1>1, <2>1 DEF Waits, TypeOK
    <2>. QED BY <2>1, <2>2, <2>3, <2>4, <2>5, QuietKeepsQueues
  <1>. QED BY <1>2, <1>3

LEMMA FindHostKeepsInv ==
    ASSUME GateInv, NEW c \in Calls, FindHost(c)
    PROVE  GateInv'
  <1>. USE DEF GateInv
  <1>. DEFINE h == host[c]
              f == AfterLookup(h)
  <1>1. h \in Hosts /\ h \in Gates /\ h # Total
    BY GateAssumption DEF FindHost, TypeOK, Gates
  <1>2. f \in [Gates -> Nat]
    BY <1>1, GateAssumption DEF AfterLookup, TypeOK
  <1>3. map' = map \cup {h}
    BY DEF FindHost
  <1>4. \A k \in Gates : f[k] + Cardinality(Holders(k)) = CapOf(k)'
    <2>. SUFFICES ASSUME NEW k \in Gates
                  PROVE  f[k] + Cardinality(Holders(k)) = CapOf(k)'
      OBVIOUS
    <2>1. free[k] + Cardinality(Holders(k)) = CapOf(k) /\ free[k] \in Nat
      BY DEF PermitsConserved, TypeOK
    <2>2. CASE k = h /\ h \notin map
      <3>1. CapOf(k) = 0 /\ CapOf(k)' = HostCap /\ f[k] = HostCap
        BY <1>1, <1>3, <2>2 DEF CapOf, AfterLookup, TypeOK
      <3>2. Cardinality(Holders(k)) = 0
        BY <2>1, <3>1, HoldersFinite
      <3>. QED BY <3>1, <3>2, GateAssumption
    <2>3. CASE ~(k = h /\ h \notin map)
      <3>1. f[k] = free[k] /\ CapOf(k)' = CapOf(k)
        BY <1>1, <1>3, <2>3 DEF CapOf, AfterLookup, TypeOK
      <3>. QED BY <2>1, <3>1
    <2>. QED BY <2>2, <2>3
  <1>5. \A k \in Gates : queue[k] # <<>> => f[k] = 0
    BY <1>1 DEF QueuesAreWaiters, AfterLookup, TypeOK
  <1>6. /\ pc[c] = "lookup" /\ HostGate /\ pc' = [pc EXCEPT ![c] = "host"]
        /\ Acquire(c, h, f) /\ host' = host /\ map \subseteq Hosts /\ gates' = gates
    BY DEF FindHost, TypeOK
  <1>7. host \in [Calls -> Hosts \cup {BadUrl, NoHost}] /\ h # NoHost
    BY <1>1, GateAssumption DEF TypeOK
  <1>. QED BY <1>1, <1>2, <1>3, <1>4, <1>5, <1>6, <1>7, ParkKeepsInv

LEMMA InitHolds == Init => GateInv
  <1>. SUFFICES ASSUME Init PROVE GateInv
    OBVIOUS
  <1>1. TypeOK
    BY GateAssumption DEF Init, TypeOK, Places
  <1>2. \A g : Holders(g) = {}
    BY DEF Init, Holders
  <1>3. PermitsConserved
    <2>. SUFFICES ASSUME NEW g \in Gates PROVE free[g] + Cardinality(Holders(g)) = CapOf(g)
      BY DEF PermitsConserved
    <2>1. Cardinality(Holders(g)) = 0
      BY <1>2, FS_EmptySet
    <2>2. free[g] = CapOf(g) /\ CapOf(g) \in Nat
      BY GateAssumption DEF Init, CapOf
    <2>. QED BY <2>1, <2>2
  <1>4. HoldsWhatItPassed
    BY DEF Init, HoldsWhatItPassed, InFlight
  <1>5. QueuesAreWaiters
    BY DEF Init, QueuesAreWaiters, Waits
  <1>. QED BY <1>1, <1>3, <1>4, <1>5 DEF GateInv

\* Every step of the gates keeps the four invariants.
LEMMA StepKeepsInv == GateInv /\ [Next]_vars => GateInv'
  <1>. SUFFICES ASSUME GateInv, [Next]_vars PROVE GateInv'
    OBVIOUS
  <1>1. CASE UNCHANGED vars
    BY <1>1 DEF vars, GateInv, TypeOK, PermitsConserved, HoldsWhatItPassed,
                QueuesAreWaiters, Holders, CapOf, Waits, HostPermit, TotalPermit,
                TotalGate, HostGate
  <1>2. ASSUME NEW c \in Calls, NEW h \in Hosts \cup {BadUrl}, Request(c, h) PROVE GateInv'
    BY <1>2, RequestKeepsInv
  <1>3. ASSUME NEW c \in Calls, PassTotal(c) PROVE GateInv'
    <2>1. Moves(c, "total", "lookup") /\ Total \in hold[c]
      BY <1>3 DEF PassTotal, Moves
    <2>2. Owns(c, "lookup")
      BY <1>3, <2>1 DEF PassTotal, Owns, GateInv, HoldsWhatItPassed, TotalPermit, InFlight
    <2>. QED BY <2>1, <2>2, MoveKeepsInv DEF Places, Queued
  <1>4. ASSUME NEW c \in Calls, RejectUrl(c) \/ BuildFails(c) \/ SendFails(c) \/ Drop(c)
        PROVE  GateInv'
    <2>1. /\ Release(c) /\ UNCHANGED <<gates, map>> /\ pc' = [pc EXCEPT ![c] = "idle"]
          /\ host' = [host EXCEPT ![c] = NoHost]
      BY <1>4 DEF RejectUrl, BuildFails, SendFails, Drop, Fail
    <2>2. pc[c] \in InFlight \cup {"lookup", "cancelled"}
      BY <1>4 DEF RejectUrl, BuildFails, SendFails, Drop, InFlight
    <2>. QED BY <2>1, <2>2, GiveUpKeepsInv
  <1>5. ASSUME NEW c \in Calls, FindHost(c) PROVE GateInv'
    BY <1>5, FindHostKeepsInv
  <1>6. ASSUME NEW c \in Calls, SkipHost(c) PROVE GateInv'
    <2>1. Moves(c, "lookup", "build")
      BY <1>6 DEF SkipHost, Moves
    <2>2. Owns(c, "build")
      BY <1>6 DEF SkipHost, Owns, GateInv, HoldsWhatItPassed, HostPermit, InFlight
    <2>. QED BY <2>1, <2>2, MoveKeepsInv DEF Places, Queued, InFlight
  <1>7. ASSUME NEW c \in Calls, PassHost(c) PROVE GateInv'
    <2>1. Moves(c, "host", "build") /\ host[c] \in hold[c]
      BY <1>7 DEF PassHost, Moves
    <2>2. Owns(c, "build")
      BY <1>7, <2>1 DEF PassHost, Owns, GateInv, HoldsWhatItPassed, HostPermit, InFlight
    <2>. QED BY <2>1, <2>2, MoveKeepsInv DEF Places, Queued, InFlight
  <1>8. ASSUME NEW c \in Calls, Send(c) \/ HeadArrives(c) \/ ReadToEnd(c) PROVE GateInv'
    <2>1. PICK from \in InFlight, to \in InFlight : Moves(c, from, to)
      BY <1>8 DEF Send, HeadArrives, ReadToEnd, Moves, InFlight
    <2>2. Owns(c, to)
      BY <2>1 DEF Moves, Owns, GateInv, HoldsWhatItPassed, InFlight
    <2>. QED BY <2>1, <2>2, MoveKeepsInv DEF Places, InFlight
  <1>9. ASSUME NEW c \in Calls, Cancel(c) PROVE GateInv'
    <2>1. /\ Release(c) /\ UNCHANGED <<gates, host, map>> /\ pc' = [pc EXCEPT ![c] = "cancelled"]
          /\ pc[c] \in InFlight \cup {"lookup", "cancelled"}
      BY <1>9 DEF Cancel, InFlight
    <2>. QED BY <2>1, GiveUpKeepsInv
  <1>. QED BY <1>1, <1>2, <1>3, <1>4, <1>5, <1>6, <1>7, <1>8, <1>9 DEF Next

\* The inductive invariant.
LEMMA InvHolds == Spec => []GateInv
  BY InitHolds, StepKeepsInv, PTL DEF Spec

\* Type correctness of the gates, for all callers, hosts and caps
\* (client.rs, PerHostInflight, request and PqcResponse).
THEOREM TypeCorrect == Spec => []TypeOK
  BY InvHolds, PTL DEF GateInv

\* No permit is lost or given back twice, on any error path, cancel or Drop
\* (client.rs, request and PqcResponse::cancel).
THEOREM Conservation == Spec => []PermitsConserved
  BY InvHolds, PTL DEF GateInv

\* A call that failed, or whose response was cancelled, owns no permit, and a
\* call in flight owns one of each enabled gate (client.rs:453-457).
THEOREM Ownership == Spec => []HoldsWhatItPassed
  BY InvHolds, PTL DEF GateInv

\* No permit is free while a call waits for it, and every waiter is queued once.
THEOREM NoLostWaiter == Spec => []QueuesAreWaiters
  BY InvHolds, PTL DEF GateInv

-----------------------------------------------------------------------------
(* InflightGate implements Dispatcher.                                     *)

LEMMA SameCardinality == ASSUME NEW S PROVE D!Cardinality(S) = Cardinality(S)
  BY DEF D!Cardinality, Cardinality

\* A call that holds the permits of both gates and is not in flight yet finds
\* the number of calls in flight below both caps.
LEMMA RoomToEnter ==
    ASSUME GateInv, NEW c \in Calls, pc[c] \notin InFlight,
           TotalPermit \cup HostPermit(c) \subseteq hold[c]
    PROVE  /\ TotalGate => Cardinality(D!InFlight) < TotalCap
           /\ HostGate => Cardinality(D!InFlightTo(host[c])) < HostCap
  <1>. USE DEF GateInv
  <1>1. \A d \in Calls : pc[d] \in InFlight => hold[d] = TotalPermit \cup HostPermit(d)
    BY DEF HoldsWhatItPassed
  <1>2. \A d \in Calls : pc[d] \in InFlight => host[d] # NoHost
    BY DEF TypeOK, InFlight
  <1>3. ASSUME NEW g \in Gates, NEW S \in SUBSET Holders(g), c \in Holders(g), c \notin S,
               NEW cap \in Nat, CapOf(g) <= cap
        PROVE  Cardinality(S) < cap
    <2>1. IsFiniteSet(S) /\ Cardinality(S) \in Nat
      BY HoldersFinite, FS_Subset, FS_CardinalityType
    <2>2. Cardinality(S \cup {c}) = Cardinality(S) + 1
      BY <1>3, <2>1, FS_AddElement
    <2>3. Cardinality(S \cup {c}) <= Cardinality(Holders(g))
      BY <1>3, HoldersFinite, FS_Subset
    <2>4. free[g] + Cardinality(Holders(g)) = CapOf(g) /\ free[g] \in Nat
      BY DEF PermitsConserved, TypeOK
    <2>5. CapOf(g) \in Nat
      BY GateAssumption DEF CapOf
    <2>. QED BY <1>3, <2>1, <2>2, <2>3, <2>4, <2>5, HoldersFinite
  <1>4. ASSUME TotalGate PROVE Cardinality(D!InFlight) < TotalCap
    <2>1. D!InFlight \subseteq Holders(Total) /\ c \notin D!InFlight
      BY <1>1, <1>4 DEF D!InFlight, Running, Holders, TotalPermit
    <2>2. c \in Holders(Total) /\ Total \in Gates
      BY <1>4 DEF Holders, TotalPermit, Gates
    <2>3. CapOf(Total) <= TotalCap /\ TotalCap \in Nat
      BY GateAssumption DEF CapOf
    <2>. QED BY <1>3, <2>1, <2>2, <2>3
  <1>5. ASSUME HostGate PROVE Cardinality(D!InFlightTo(host[c])) < HostCap
    <2>1. host[c] \in hold[c] /\ host[c] \in Gates
      BY <1>5 DEF HostPermit, TypeOK
    <2>2. host[c] # Total /\ host[c] # NoHost
      BY <2>1, GateAssumption DEF TypeOK, Gates
    <2>3. D!InFlightTo(host[c]) \subseteq Holders(host[c]) /\ c \notin D!InFlightTo(host[c])
      BY <1>1, <1>5, <2>2 DEF D!InFlightTo, Running, Holders, HostPermit
    <2>4. c \in Holders(host[c])
      BY <2>1 DEF Holders
    <2>5. CapOf(host[c]) <= HostCap /\ HostCap \in Nat
      BY <2>2, GateAssumption DEF CapOf
    <2>. QED BY <1>3, <2>1, <2>3, <2>4, <2>5
  <1>. QED BY <1>4, <1>5

\* A call that becomes in flight, with its permits, is an Enter of Dispatcher.
LEMMA EnterMaps ==
    ASSUME GateInv, NEW c \in Calls, pc[c] \in {"lookup", "host"},
           pc' = [pc EXCEPT ![c] = "build"], UNCHANGED <<gates, host>>,
           TotalPermit \cup HostPermit(c) \subseteq hold[c]
    PROVE  D!Next
  <1>1. PICK h \in Hosts \cup {BadUrl} : h = host[c]
    BY DEF GateInv, TypeOK
  <1>2. Running[c] = NoHost
    BY DEF Running, InFlight
  <1>3. Running' = [Running EXCEPT ![c] = h]
    BY <1>1 DEF Running, GateInv, TypeOK, InFlight
  <1>4. /\ TotalGate => D!Cardinality(D!InFlight) < TotalCap
        /\ HostGate => D!Cardinality(D!InFlightTo(h)) < HostCap
    <2>1. pc[c] \notin InFlight
      BY DEF InFlight
    <2>2. /\ TotalGate => Cardinality(D!InFlight) < TotalCap
          /\ HostGate => Cardinality(D!InFlightTo(h)) < HostCap
      BY <1>1, <2>1, RoomToEnter DEF D!InFlightTo
    <2>. QED BY <2>2, SameCardinality
  <1>5. D!Enter(c, h)
    BY <1>2, <1>3, <1>4 DEF D!Enter, TotalGate, HostGate
  <1>. QED BY <1>5 DEF D!Next

\* A call that fails, is cancelled or is dropped leaves, or was not in flight.
LEMMA LeaveMaps ==
    ASSUME TypeOK, NEW c \in Calls, NEW to \in {"idle", "cancelled"},
           pc' = [pc EXCEPT ![c] = to],
           \A d \in Calls : d # c => host'[d] = host[d], UNCHANGED gates
    PROVE  D!Next \/ UNCHANGED <<gates, Running>>
  <1>1. Running \in [Calls -> Hosts \cup {BadUrl, NoHost}]
    BY DEF Running, TypeOK
  <1>2. Running' = [Running EXCEPT ![c] = NoHost]
    BY DEF Running, TypeOK, InFlight
  <1>3. CASE Running[c] = NoHost
    BY <1>1, <1>2, <1>3
  <1>4. CASE Running[c] # NoHost
    <2>1. D!Leave(c)
      BY <1>2, <1>4 DEF D!Leave
    <2>. QED BY <2>1 DEF D!Next
  <1>. QED BY <1>3, <1>4

\* The global and the per-host cap of config.rs hold for every set of callers
\* and hosts and every cap: the gates implement the dispatcher they promise.
THEOREM Refinement == Spec => CapsHold
  <1>1. Init => D!Init
    BY DEF Init, D!Init, Running, InFlight
  <1>2. GateInv /\ [Next]_vars => [D!Next]_<<gates, Running>>
    <2>. SUFFICES ASSUME GateInv, [Next]_vars PROVE [D!Next]_<<gates, Running>>
      OBVIOUS
    <2>. USE DEF GateInv
    <2>1. CASE UNCHANGED vars
      BY <2>1 DEF vars, Running
    <2>2. ASSUME NEW c \in Calls, NEW h \in Hosts \cup {BadUrl}, Request(c, h) PROVE UNCHANGED <<gates, Running>>
      BY <2>2 DEF Running, Request, TypeOK, InFlight
    <2>3. ASSUME NEW c \in Calls, PassTotal(c) PROVE UNCHANGED <<gates, Running>>
      BY <2>3 DEF Running, PassTotal, TypeOK, InFlight
    <2>4. ASSUME NEW c \in Calls, RejectUrl(c) \/ BuildFails(c) \/ SendFails(c) \/ Drop(c)
          PROVE  [D!Next]_<<gates, Running>>
      <3>1. /\ pc' = [pc EXCEPT ![c] = "idle"] /\ gates' = gates
            /\ \A d \in Calls : d # c => host'[d] = host[d]
        BY <2>4 DEF RejectUrl, BuildFails, SendFails, Drop, Fail, TypeOK
      <3>. QED BY <3>1, LeaveMaps
    <2>5. ASSUME NEW c \in Calls, FindHost(c) PROVE UNCHANGED <<gates, Running>>
      BY <2>5 DEF Running, FindHost, TypeOK, InFlight
    <2>6. ASSUME NEW c \in Calls, SkipHost(c) PROVE D!Next
      <3>1. TotalPermit \cup HostPermit(c) \subseteq hold[c]
        BY <2>6 DEF SkipHost, HoldsWhatItPassed, HostPermit
      <3>. QED BY <2>6, <3>1, EnterMaps DEF SkipHost
    <2>7. ASSUME NEW c \in Calls, PassHost(c) PROVE D!Next
      <3>1. TotalPermit \cup HostPermit(c) \subseteq hold[c]
        BY <2>7 DEF PassHost, HoldsWhatItPassed, HostPermit
      <3>. QED BY <2>7, <3>1, EnterMaps DEF PassHost
    <2>8. ASSUME NEW c \in Calls, Send(c) \/ HeadArrives(c) \/ ReadToEnd(c) PROVE UNCHANGED <<gates, Running>>
      BY <2>8 DEF Running, Send, HeadArrives, ReadToEnd, TypeOK, InFlight
    <2>9. ASSUME NEW c \in Calls, Cancel(c) PROVE [D!Next]_<<gates, Running>>
      <3>1. /\ pc' = [pc EXCEPT ![c] = "cancelled"] /\ gates' = gates
            /\ \A d \in Calls : d # c => host'[d] = host[d]
        BY <2>9 DEF Cancel
      <3>. QED BY <3>1, LeaveMaps
    <2>. QED BY <2>1, <2>2, <2>3, <2>4, <2>5, <2>6, <2>7, <2>8, <2>9 DEF Next
  <1>. QED BY <1>1, <1>2, InvHolds, PTL DEF Spec, CapsHold, D!Spec
=============================================================================

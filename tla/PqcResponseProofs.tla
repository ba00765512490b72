------------------------- MODULE PqcResponseProofs --------------------------
(***************************************************************************)
(* For any number of concurrent readers and cancellers and any body: the   *)
(* chunks come out in order, and a cancel lets through at most one read.   *)
(*                                                                         *)
(* Neither is inductive.  Both rest on mutual exclusion: a reader past the *)
(* lock owns the mutex, up to its return.  For the order, the chunks handed*)
(* out are those taken off the wire as long as the response is in the      *)
(* Option and nobody has a result in hand; a result is thrown away only    *)
(* together with the response.                                             *)
(***************************************************************************)
EXTENDS PqcResponse, TLAPS

Inside == {"pull", "drain", "check", "return"}

Mutex == \A r \in Readers : pc[r] \in Inside => owner = r

LateInv ==
    /\ late \in {0, 1}
    /\ late = 1 => cancelled /\ \A r \in Readers : pc[r] # "return"

OrderInv ==
    /\ Len(got) <= pulled
    /\ \A r \in Readers :
          /\ pc[r] \in {"pull", "drain"} => Len(got) = pulled
          /\ pc[r] \in {"check", "return"} => Len(got) = base[r] /\ base[r] <= pulled
          /\ pc[r] \in {"check", "return"} /\ res[r] # "data" => base[r] = pulled
    /\ body = "live" /\ (\A r \in Readers : pc[r] \notin {"check", "return"}) => Len(got) = pulled

ResponseInv == TypeOK /\ Mutex /\ LateInv /\ OrderInv /\ InOrder

LEMMA UnlockTypes ==
    ASSUME owner \in Readers \cup {NoOne}, waiters \in Seq(Readers), Unlock
    PROVE  owner' \in Readers \cup {NoOne} /\ waiters' \in Seq(Readers)
  <1>1. CASE waiters = <<>> /\ owner' = NoOne /\ UNCHANGED waiters
    BY <1>1
  <1>2. CASE waiters # <<>> /\ owner' = Head(waiters) /\ waiters' = Tail(waiters)
    <2>1. Head(waiters) \in Readers /\ Tail(waiters) \in Seq(Readers)
      BY <1>2
    <2>. QED BY <1>2, <2>1
  <1>. QED BY <1>1, <1>2 DEF Unlock

\* What the history becomes when a result of n chunks follows b chunks.
LEMMA Extend ==
    ASSUME NEW g \in Seq(Nat), NEW b \in Nat, NEW n \in Nat, Len(g) = b,
           \A i \in 1 .. Len(g) : g[i] = i
    PROVE  LET h == g \o [i \in 1 .. n |-> b + i] IN
           h \in Seq(Nat) /\ Len(h) = b + n /\ \A i \in 1 .. Len(h) : h[i] = i
  <1>. DEFINE t == [i \in 1 .. n |-> b + i]
              h == g \o t
  <1>1. t \in Seq(Nat) /\ Len(t) = n
    OBVIOUS
  <1>2. h \in Seq(Nat) /\ Len(h) = b + n
    BY <1>1
  <1>3. ASSUME NEW i \in 1 .. Len(h) PROVE h[i] = i
    <2>1. CASE i <= b
      BY <1>1, <1>2, <2>1
    <2>2. CASE i > b
      <3>1. h[i] = t[i - b] /\ i - b \in 1 .. n
        BY <1>1, <1>2, <2>2
      <3>. QED BY <3>1
    <2>. QED BY <2>1, <2>2, <1>2
  <1>. QED BY <1>2, <1>3

LEMMA InitHolds == Init => ResponseInv
  <1>. SUFFICES ASSUME Init PROVE ResponseInv
    OBVIOUS
  <1>1. TypeOK
    <2>1. waiters \in Seq(Readers) /\ got \in Seq(Nat)
      BY DEF Init
    <2>2. pulled \in 0 .. N /\ late \in Nat
      BY ResponseAssumption DEF Init
    <2>. QED BY <2>1, <2>2 DEF Init, TypeOK, ReaderPlaces, Results
  <1>2. Mutex
    BY DEF Init, Mutex, Inside
  <1>3. LateInv
    BY DEF Init, LateInv
  <1>4. Len(got) = 0 /\ pulled = 0
    BY DEF Init
  <1>5. OrderInv /\ InOrder
    BY <1>4 DEF Init, OrderInv, InOrder
  <1>. QED BY <1>1, <1>2, <1>3, <1>5 DEF ResponseInv

LEMMA ReturnKeepsInv ==
    ASSUME ResponseInv, NEW r \in Readers, Return(r)
    PROVE  ResponseInv'
  <1>. USE ResponseAssumption DEF ResponseInv
  <1>1. pc[r] = "return" /\ pc' = [pc EXCEPT ![r] = "idle"] /\ owner = r
    BY DEF Return, At, Mutex, Inside
  <1>2. \A q \in Readers : pc'[q] \notin Inside
    BY <1>1 DEF Mutex, TypeOK, Inside
  <1>3. Len(got) = base[r] /\ base[r] <= pulled /\ base[r] \in Nat /\ pulled \in Nat
    BY <1>1 DEF OrderInv, TypeOK
  <1>4. got' \in Seq(Nat) /\ InOrder' /\ (res[r] = "data" => Len(got') = pulled)
        /\ (res[r] # "data" => got' = got)
    <2>1. CASE res[r] = "data"
      <3>1. got' = got \o [i \in 1 .. pulled - base[r] |-> base[r] + i]
        BY <2>1 DEF Return
      <3>2. pulled - base[r] \in Nat /\ base[r] + (pulled - base[r]) = pulled
        BY <1>3
      <3>. QED BY <1>3, <2>1, <3>1, <3>2, Extend DEF TypeOK, InOrder
    <2>2. CASE res[r] # "data"
      BY <2>2 DEF Return, TypeOK, InOrder
    <2>. QED BY <2>1, <2>2
  <1>5. late' \in {0, 1} /\ (late' = 1 => cancelled)
    BY <1>1 DEF Return, LateInv
  <1>6. TypeOK'
    <2>1. owner' \in Readers \cup {NoOne} /\ waiters' \in Seq(Readers)
      BY UnlockTypes DEF Return, TypeOK
    <2>2. last' \in [Readers -> Results] /\ pc' \in [Readers -> ReaderPlaces]
      BY <1>1 DEF Return, TypeOK, Results, ReaderPlaces
    <2>3. late' \in Nat /\ body' \in {"live", "none"}
      BY <1>5 DEF Return, TypeOK
    <2>. QED BY <1>4, <2>1, <2>2, <2>3 DEF Return, TypeOK
  <1>7. Mutex' /\ LateInv'
    BY <1>2, <1>5 DEF Mutex, LateInv, Inside, Return
  <1>8. OrderInv'
    <2>1. pulled' = pulled /\ (body' = "live" => res[r] = "data")
      BY DEF Return
    <2>2. Len(got') <= pulled
      BY <1>3, <1>4
    <2>. QED BY <1>2, <1>4, <2>1, <2>2 DEF OrderInv, Inside
  <1>. QED BY <1>4, <1>6, <1>7, <1>8

LEMMA StepKeepsInv == ResponseInv /\ [Next]_vars => ResponseInv'
  <1>. SUFFICES ASSUME ResponseInv, [Next]_vars PROVE ResponseInv'
    OBVIOUS
  <1>. USE ResponseAssumption DEF ResponseInv, Inside
  <1>1. CASE UNCHANGED vars
    <2>1. /\ UNCHANGED <<cancelled, body, permits, owner, waiters, pc, op, res>>
          /\ UNCHANGED <<base, last, pulled, cpc, obj, got, late>>
      BY <1>1 DEF vars, readVars
    <2>2. TypeOK' /\ Mutex'
      BY <2>1 DEF TypeOK, Mutex
    <2>3. LateInv' /\ OrderInv' /\ InOrder'
      BY <2>1 DEF LateInv, OrderInv, InOrder
    <2>. QED BY <2>2, <2>3
  <1>2. ASSUME NEW r \in Readers, NEW o \in {"chunk", "bytes"}, Begin(r, o) PROVE ResponseInv'
    <2>1. TypeOK'
      BY <1>2 DEF Begin, TypeOK, ReaderPlaces, Results
    <2>2. /\ UNCHANGED <<cancelled, body, owner, res, base, pulled, got, late>>
          /\ \A q \in Readers : pc'[q] = pc[q] \/ (pc[q] = "idle" /\ pc'[q] = "lock")
      BY <1>2 DEF Begin, TypeOK
    <2>3. Mutex' /\ LateInv' /\ InOrder'
      BY <2>2 DEF Mutex, LateInv, InOrder
    <2>4. OrderInv'
      BY <2>2 DEF OrderInv
    <2>. QED BY <2>1, <2>3, <2>4
  <1>3. ASSUME NEW r \in Readers, Lock(r) PROVE ResponseInv'
    <2>1. waiters' \in Seq(Readers) /\ owner' \in Readers \cup {NoOne}
      <3>1. owner \in Readers \cup {NoOne} /\ waiters \in Seq(Readers)
        BY DEF TypeOK
      <3>2. Append(waiters, r) \in Seq(Readers)
        BY <3>1
      <3>. HIDE DEF ResponseInv
      <3>. QED BY <1>3, <3>1, <3>2 DEF Lock
    <2>2. TypeOK'
      BY <1>3, <2>1 DEF Lock, At, TypeOK, ReaderPlaces
    <2>. QED BY <1>3, <2>2 DEF Lock, At, TypeOK, Mutex, LateInv, OrderInv, InOrder
  <1>4. ASSUME NEW r \in Readers, FindNothing(r) PROVE ResponseInv'
    <2>1. waiters' \in Seq(Readers) /\ owner' \in Readers \cup {NoOne}
      BY <1>4, UnlockTypes DEF FindNothing, TypeOK
    <2>2. TypeOK'
      BY <1>4, <2>1 DEF FindNothing, At, TypeOK, ReaderPlaces, Results
    <2>. QED BY <1>4, <2>2 DEF FindNothing, At, TypeOK, Mutex, LateInv, OrderInv, InOrder
  <1>5. ASSUME NEW r \in Readers, FindBody(r) PROVE ResponseInv'
    <2>1. TypeOK'
      BY <1>5 DEF FindBody, At, TypeOK, ReaderPlaces
    <2>2. \A q \in Readers : pc[q] \notin {"check", "return"}
      BY <1>5 DEF FindBody, At, Mutex
    <2>3. Len(got) = pulled
      BY <1>5, <2>2 DEF FindBody, OrderInv
    <2>4. /\ UNCHANGED <<cancelled, owner, res, base, pulled, got, late>> /\ owner = r
          /\ body' = "live" => body = "live"
          /\ \A q \in Readers : q # r => pc'[q] = pc[q]
          /\ pc'[r] \in {"pull", "drain"}
      BY <1>5 DEF FindBody, At, TypeOK
    <2>5. Mutex' /\ InOrder'
      BY <2>4 DEF Mutex, InOrder
    <2>6. LateInv'
      BY <2>2, <2>4 DEF LateInv
    <2>7. OrderInv'
      BY <2>2, <2>3, <2>4 DEF OrderInv
    <2>. QED BY <2>1, <2>5, <2>6, <2>7
  <1>6. ASSUME NEW r \in Readers, Pull(r) \/ Drain(r) PROVE ResponseInv'
    <2>1. TypeOK'
      <3>1. pulled \in Nat /\ pulled' \in 0 .. N
        BY <1>6 DEF Pull, Drain, TypeOK
      <3>2. base' \in [Readers -> Nat]
        BY <1>6, <3>1 DEF Pull, Drain, TypeOK
      <3>3. res' \in [Readers -> Results] /\ pc' \in [Readers -> ReaderPlaces]
        BY <1>6 DEF Pull, Drain, At, TypeOK, ReaderPlaces, Results
      <3>4. UNCHANGED <<cancelled, body, permits, owner, waiters, op, last, cpc, obj, got, late>>
        BY <1>6 DEF Pull, Drain
      <3>. QED BY <3>1, <3>2, <3>3, <3>4 DEF TypeOK
    <2>2. /\ owner = r /\ pc' = [pc EXCEPT ![r] = "check"] /\ base' = [base EXCEPT ![r] = pulled]
          /\ UNCHANGED <<cancelled, body, owner, got, late>> /\ Len(got) = pulled
          /\ pulled <= pulled' /\ pulled' \in Nat /\ pulled \in Nat
          /\ (res'[r] # "data" => pulled' = pulled)
      BY <1>6 DEF Pull, Drain, At, Mutex, OrderInv, TypeOK
    <2>3. \A q \in Readers : q # r => pc'[q] \notin Inside
      BY <2>2 DEF Mutex, TypeOK
    <2>4. pc'[r] = "check" /\ base'[r] = pulled
      BY <2>2 DEF TypeOK
    <2>5. Mutex' /\ LateInv' /\ InOrder'
      BY <2>2, <2>3, <2>4 DEF Mutex, LateInv, InOrder
    <2>6. OrderInv'
      BY <2>2, <2>3, <2>4 DEF OrderInv
    <2>. QED BY <2>1, <2>5, <2>6
  <1>7. ASSUME NEW r \in Readers, Check(r) PROVE ResponseInv'
    <2>1. CASE cancelled
      <3>1. waiters' \in Seq(Readers) /\ owner' \in Readers \cup {NoOne}
        BY <1>7, <2>1, UnlockTypes DEF Check, TypeOK
      <3>2. TypeOK'
        BY <1>7, <2>1, <3>1 DEF Check, At, TypeOK, ReaderPlaces, Results
      <3>3. \A q \in Readers : pc'[q] \notin Inside
        BY <1>7, <2>1 DEF Check, At, Mutex, TypeOK
      <3>. QED BY <1>7, <2>1, <3>2, <3>3 DEF Check, Mutex, LateInv, OrderInv, InOrder
    <2>2. CASE ~cancelled
      <3>1. TypeOK'
        BY <1>7, <2>2 DEF Check, At, TypeOK, ReaderPlaces
      <3>. QED BY <1>7, <2>2, <3>1 DEF Check, At, TypeOK, Mutex, LateInv, OrderInv, InOrder
    <2>. QED BY <2>1, <2>2
  <1>8. ASSUME NEW r \in Readers, Return(r) PROVE ResponseInv'
    BY <1>8, ReturnKeepsInv
  <1>9. ASSUME NEW k \in Cancellers, CancelStore(k) \/ CancelPermits(k) \/ CancelTry(k)
        PROVE  ResponseInv'
    <2>1. TypeOK'
      BY <1>9 DEF CancelStore, CancelPermits, CancelTry, CancelAt, TypeOK, readVars
    <2>2. /\ UNCHANGED <<owner, pc, res, base, pulled, got, late>>
          /\ cancelled => cancelled'
          /\ body' = "live" => body = "live"
      BY <1>9 DEF CancelStore, CancelPermits, CancelTry, CancelAt, TypeOK, readVars
    <2>. QED BY <2>1, <2>2 DEF Mutex, LateInv, OrderInv, InOrder
  <1>10. ASSUME Drop PROVE ResponseInv'
    BY <1>10 DEF Drop, readVars, TypeOK, Mutex, LateInv, OrderInv, InOrder
  <1>11. CASE Gone
    BY <1>11, <1>1 DEF Gone
  <1>. QED BY <1>1, <1>2, <1>3, <1>4, <1>5, <1>6, <1>7, <1>8, <1>9, <1>10, <1>11 DEF Next

\* The inductive invariant.
LEMMA InvHolds == Spec => []ResponseInv
  BY InitHolds, StepKeepsInv, PTL DEF Spec

\* Type correctness of the response object (client.rs, PqcResponse).
THEOREM TypeCorrect == Spec => []TypeOK
  BY InvHolds, PTL DEF ResponseInv

\* Chunks come out in network order, none twice and none left out, for any
\* number of concurrent read_chunk, bytes and cancel calls (client.rs:446-448).
THEOREM ChunksInOrder == Spec => []InOrder
  BY InvHolds, PTL DEF ResponseInv

\* The invariant counts the late chunks.
LEMMA InvBoundsLate == ResponseInv => AtMostOneLate
  BY DEF ResponseInv, LateInv, AtMostOneLate

\* At most one read returns data after a cancel (client.rs, the load after each
\* await of read_chunk and bytes).
THEOREM CancelStopsReads == Spec => []AtMostOneLate
  BY InvHolds, InvBoundsLate, PTL

\* The permits go in the step after the store, and nothing brings them back.
PermitsGo == cancelled /\ (\A k \in Cancellers : cpc[k] # "permits") => ~permits

\* A response that stays behind a cancel stays behind a late chunk.
BodyGoes ==
    cancelled /\ (\A k \in Cancellers : cpc[k] = "idle") /\ owner = NoOne /\ body = "live"
    => late = 1

LEMMA PermitsStep == TypeOK /\ PermitsGo /\ [Next]_vars => PermitsGo'
  <1>. SUFFICES ASSUME TypeOK, PermitsGo, [Next]_vars PROVE PermitsGo'
    OBVIOUS
  <1>. USE DEF PermitsGo
  <1>1. CASE UNCHANGED <<cancelled, permits, cpc>>
    BY <1>1
  <1>2. ASSUME NEW k \in Cancellers, CancelStore(k) PROVE PermitsGo'
    <2>1. cpc'[k] = "permits"
      BY <1>2 DEF CancelStore, CancelAt, TypeOK
    <2>. QED BY <2>1
  <1>3. ASSUME NEW k \in Cancellers, CancelPermits(k) PROVE PermitsGo'
    BY <1>3 DEF CancelPermits
  <1>4. ASSUME NEW k \in Cancellers, CancelTry(k) PROVE PermitsGo'
    <2>1. UNCHANGED <<cancelled, permits>> /\ \A j \in Cancellers : cpc[j] = "permits" => cpc'[j] = "permits"
      BY <1>4 DEF CancelTry, CancelAt, TypeOK
    <2>. QED BY <2>1
  <1>5. ASSUME NEW r \in Readers, NEW o \in {"chunk", "bytes"},
               \/ Begin(r, o) \/ Lock(r) \/ FindNothing(r) \/ FindBody(r)
               \/ Pull(r) \/ Drain(r) \/ Check(r) \/ Return(r)
        PROVE  UNCHANGED <<cancelled, permits, cpc>>
    BY <1>5 DEF Begin, Lock, FindNothing, FindBody, Pull, Drain, Check, Return
  <1>6. ASSUME Drop PROVE PermitsGo'
    BY <1>6 DEF Drop
  <1>7. ASSUME Gone \/ UNCHANGED vars PROVE UNCHANGED <<cancelled, permits, cpc>>
    BY <1>7 DEF Gone, vars
  <1>. QED BY <1>1, <1>2, <1>3, <1>4, <1>5, <1>6, <1>7 DEF Next

LEMMA BodyStep == ResponseInv /\ BodyGoes /\ [Next]_vars => BodyGoes'
  <1>. SUFFICES ASSUME ResponseInv, BodyGoes, [Next]_vars PROVE BodyGoes'
    OBVIOUS
  <1>. USE DEF BodyGoes
  <1>1. CASE UNCHANGED <<cancelled, body, owner, cpc, late>>
    BY <1>1
  <1>2. CASE body' = "none"
    BY <1>2
  <1>3. ASSUME NEW r \in Readers, Begin(r, "chunk") \/ Begin(r, "bytes")
        PROVE  UNCHANGED <<cancelled, body, owner, cpc, late>>
    BY <1>3 DEF Begin
  <1>4. ASSUME NEW r \in Readers, Lock(r) PROVE BodyGoes'
    <2>1. owner' # NoOne
      BY <1>4, ResponseAssumption DEF Lock
    <2>. QED BY <2>1
  <1>5. ASSUME NEW r \in Readers, FindNothing(r) PROVE body' = "none"
    BY <1>5 DEF FindNothing
  <1>6. ASSUME NEW r \in Readers, FindBody(r) PROVE BodyGoes'
    <2>1. owner' # NoOne
      BY <1>6, ResponseAssumption DEF FindBody
    <2>. QED BY <2>1
  <1>7. ASSUME NEW r \in Readers, Pull(r) \/ Drain(r)
        PROVE  UNCHANGED <<cancelled, body, owner, cpc, late>>
    BY <1>7 DEF Pull, Drain
  <1>8. ASSUME NEW r \in Readers, Check(r) PROVE BodyGoes'
    <2>1. CASE cancelled
      BY <1>8, <2>1 DEF Check
    <2>2. CASE ~cancelled
      BY <1>8, <2>2 DEF Check
    <2>. QED BY <2>1, <2>2
  \* A result that leaves the response there is data, and late if it comes after a
  \* cancel: the invariant bounds the count.
  <1>9. ASSUME NEW r \in Readers, Return(r) PROVE BodyGoes'
    <2>1. cancelled /\ body' = "live" => res[r] = "data" /\ late' = late + 1
      BY <1>9 DEF Return
    <2>2. late \in {0, 1} /\ late' \in {0, 1}
      BY <1>9, ReturnKeepsInv DEF ResponseInv, LateInv
    <2>3. cancelled' = cancelled
      BY <1>9 DEF Return
    <2>. QED BY <2>1, <2>2, <2>3
  <1>10. ASSUME NEW k \in Cancellers, CancelStore(k) \/ CancelPermits(k) PROVE BodyGoes'
    <2>1. cpc'[k] # "idle"
      BY <1>10 DEF CancelStore, CancelPermits, CancelAt, ResponseInv, TypeOK
    <2>. QED BY <2>1
  <1>11. ASSUME NEW k \in Cancellers, CancelTry(k) PROVE BodyGoes'
    BY <1>11 DEF CancelTry, readVars
  <1>12. CASE Drop
    BY <1>12 DEF Drop
  <1>13. ASSUME Gone \/ UNCHANGED vars PROVE UNCHANGED <<cancelled, body, owner, cpc, late>>
    BY <1>13 DEF Gone, vars, readVars
  <1>. QED BY <1>1, <1>2, <1>3, <1>4, <1>5, <1>6, <1>7, <1>8, <1>9, <1>10, <1>11, <1>12, <1>13 DEF Next

\* When a cancel() has returned the gate has its permits back, and the response is gone
\* when its readers are, but for the one late chunk: for any number of overlapping
\* cancels and readers (client.rs, cancel).
THEOREM CancelsRelease == Spec => []CancelReleases
  <1>1. Init => PermitsGo /\ BodyGoes
    BY DEF Init, PermitsGo, BodyGoes
  <1>2. ResponseInv => TypeOK
    BY DEF ResponseInv
  <1>3. PermitsGo /\ BodyGoes => CancelReleases
    BY DEF PermitsGo, BodyGoes, CancelReleases
  <1>. QED BY <1>1, <1>2, <1>3, PermitsStep, BodyStep, InvHolds, PTL DEF Spec
=============================================================================

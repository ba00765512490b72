------------------------- MODULE UrlProtocolProofs --------------------------
(***************************************************************************)
(* Proofs about UrlProtocol, for any finite set of loads, any length of    *)
(* the bodies and any limit: its types, that a load nobody stopped         *)
(* finishes only with its whole body, and that the loads of a subclass     *)
(* stay within the limit of their client.                                  *)
(***************************************************************************)
EXTENDS UrlProtocol, FiniteSetTheorems, TLAPS

USE DEF Task

-----------------------------------------------------------------------------
(* The invariant.                                                          *)

\* A load has its response in hand and has not seen its end.
Flowing == {"store", "emit", "read", "reading", "deliver"}

\* Told is what was pulled, but for the chunk in hand.
ToldInv(l) == pulled[l] = IF task[l] = "deliver" THEN told[l] + 1 ELSE told[l]

\* The client knows of the response before it hears of data or the end.
HeadInv(l) ==
    task[l] \in {"read", "reading", "deliver", "cancel", "finish"} \/ end[l] = "finished" => head[l]

\* Only a stop takes the response away from a load that still reads it.
OpenInv(l) == task[l] \in Flowing /\ stop[l] \notin {"stopped", "gone"} => resp[l] = "open"

\* The loop ends by itself only at the end of the body.
EndInv(l) ==
    /\ stop[l] = "no" /\ (task[l] \in {"cancel", "finish"} \/ end[l] = "finished") => pulled[l] = N
    /\ end[l] # "none" => task[l] = "over"
    /\ stop[l] = "gone" => task[l] = "over"

\* Every load that is past clientFor has the one client there is.
ClientInv(l) ==
    /\ using[l] \in {0, clientCache}
    /\ task[l] \in {"build", "admit", "sending"} \/ resp[l] = "open" => using[l] # 0

LoadInv(l) == ToldInv(l) /\ HeadInv(l) /\ OpenInv(l) /\ EndInv(l) /\ ClientInv(l)

UrlInv == TypeOK /\ (\A l \in Loads : LoadInv(l)) /\ LoadsWithinCap

USE DEF ToldInv, HeadInv, OpenInv, EndInv, ClientInv, LoadInv, Flowing
USE LoadAssumption

-----------------------------------------------------------------------------
(* The types.                                                              *)

\* The loads start and go on with values of their types.
LEMMA TypesHold == UrlInv /\ [Next]_vars => TypeOK'
<1> SUFFICES ASSUME UrlInv, TypeOK, [Next]_vars PROVE TypeOK'
  BY DEF UrlInv
<1> USE DEF TypeOK, vars, client, clients, rust, stopping
<1>1. CASE UNCHANGED vars
  BY <1>1
<1>2. ASSUME NEW l \in Loads, Start(l) PROVE TypeOK'
  BY <1>2 DEF Start
<1>3. ASSUME NEW l \in Loads, NoUrl(l) PROVE TypeOK'
  BY <1>3 DEF NoUrl
<1>4. ASSUME NEW l \in Loads, ClientFor(l) PROVE TypeOK'
  BY <1>4 DEF ClientFor
<1>5. ASSUME NEW l \in Loads, BuildRequest(l) PROVE TypeOK'
  BY <1>5 DEF BuildRequest
<1>6. ASSUME NEW l \in Loads, Admit(l) PROVE TypeOK'
  BY <1>6 DEF Admit
<1>7. ASSUME NEW l \in Loads, Answer(l) PROVE TypeOK'
  BY <1>7 DEF Answer
<1>8. ASSUME NEW l \in Loads, RequestFails(l) PROVE TypeOK'
  BY <1>8 DEF RequestFails
<1>9. ASSUME NEW l \in Loads, Store(l) PROVE TypeOK'
  BY <1>9 DEF Store
<1>10. ASSUME NEW l \in Loads, Emit(l) PROVE TypeOK'
  BY <1>10 DEF Emit
<1>11. ASSUME NEW l \in Loads, Read(l) PROVE TypeOK'
  BY <1>11 DEF Read
<1>12. ASSUME NEW l \in Loads, ReadReturns(l) PROVE TypeOK'
  BY <1>12 DEF ReadReturns
<1>13. ASSUME NEW l \in Loads, Deliver(l) PROVE TypeOK'
  BY <1>13 DEF Deliver, UrlInv
<1>14. ASSUME NEW l \in Loads, CancelAtEnd(l) PROVE TypeOK'
  BY <1>14 DEF CancelAtEnd
<1>15. ASSUME NEW l \in Loads, Finish(l) PROVE TypeOK'
  BY <1>15 DEF Finish
<1>16. ASSUME NEW l \in Loads, FailLoad(l) PROVE TypeOK'
  BY <1>16 DEF FailLoad
<1>17. ASSUME NEW l \in Loads, StopTake(l) PROVE TypeOK'
  BY <1>17 DEF StopTake
<1>18. ASSUME NEW l \in Loads, StopClear(l) PROVE TypeOK'
  BY <1>18 DEF StopClear
<1>19. ASSUME NEW l \in Loads, StopCancel(l) PROVE TypeOK'
  BY <1>19 DEF StopCancel
<1>20. ASSUME NEW l \in Loads, Release(l) PROVE TypeOK'
  BY <1>20 DEF Release
<1> QED
  BY <1>1, <1>2, <1>3, <1>4, <1>5, <1>6, <1>7, <1>8, <1>9, <1>10, <1>11, <1>12, <1>13,
     <1>14, <1>15, <1>16, <1>17, <1>18, <1>19, <1>20 DEF Next, TaskStep, StopStep, Over

-----------------------------------------------------------------------------
(* What each load knows.                                                   *)

\* A step of one load keeps what holds of it and of every other.
LEMMA LoadsHold == UrlInv /\ [Next]_vars => \A m \in Loads : LoadInv(m)'
<1> SUFFICES ASSUME UrlInv, [Next]_vars, NEW m \in Loads PROVE LoadInv(m)'
  OBVIOUS
<1> USE DEF UrlInv, TypeOK, vars, client, clients, rust, stopping
<1>1. CASE UNCHANGED vars
  BY <1>1
<1>2. ASSUME NEW l \in Loads, Start(l) PROVE LoadInv(m)'
  BY <1>2 DEF Start
<1>3. ASSUME NEW l \in Loads, NoUrl(l) PROVE LoadInv(m)'
  BY <1>3 DEF NoUrl
<1>4. ASSUME NEW l \in Loads, ClientFor(l) PROVE LoadInv(m)'
  BY <1>4 DEF ClientFor
<1>5. ASSUME NEW l \in Loads, BuildRequest(l) PROVE LoadInv(m)'
  BY <1>5 DEF BuildRequest
<1>6. ASSUME NEW l \in Loads, Admit(l) PROVE LoadInv(m)'
  BY <1>6 DEF Admit
<1>7. ASSUME NEW l \in Loads, Answer(l) PROVE LoadInv(m)'
  BY <1>7 DEF Answer
<1>8. ASSUME NEW l \in Loads, RequestFails(l) PROVE LoadInv(m)'
  BY <1>8 DEF RequestFails
<1>9. ASSUME NEW l \in Loads, Store(l) PROVE LoadInv(m)'
  BY <1>9 DEF Store
<1>10. ASSUME NEW l \in Loads, Emit(l) PROVE LoadInv(m)'
  BY <1>10 DEF Emit
<1>11. ASSUME NEW l \in Loads, Read(l) PROVE LoadInv(m)'
  BY <1>11 DEF Read
<1>12. ASSUME NEW l \in Loads, ReadReturns(l) PROVE LoadInv(m)'
  BY <1>12 DEF ReadReturns
<1>13. ASSUME NEW l \in Loads, Deliver(l) PROVE LoadInv(m)'
  BY <1>13 DEF Deliver
<1>14. ASSUME NEW l \in Loads, CancelAtEnd(l) PROVE LoadInv(m)'
  BY <1>14 DEF CancelAtEnd
<1>15. ASSUME NEW l \in Loads, Finish(l) PROVE LoadInv(m)'
  BY <1>15 DEF Finish
<1>16. ASSUME NEW l \in Loads, FailLoad(l) PROVE LoadInv(m)'
  BY <1>16 DEF FailLoad
<1>17. ASSUME NEW l \in Loads, StopTake(l) PROVE LoadInv(m)'
  BY <1>17 DEF StopTake
<1>18. ASSUME NEW l \in Loads, StopClear(l) PROVE LoadInv(m)'
  BY <1>18 DEF StopClear
<1>19. ASSUME NEW l \in Loads, StopCancel(l) PROVE LoadInv(m)'
  BY <1>19 DEF StopCancel
<1>20. ASSUME NEW l \in Loads, Release(l) PROVE LoadInv(m)'
  BY <1>20 DEF Release
<1> QED
  BY <1>1, <1>2, <1>3, <1>4, <1>5, <1>6, <1>7, <1>8, <1>9, <1>10, <1>11, <1>12, <1>13,
     <1>14, <1>15, <1>16, <1>17, <1>18, <1>19, <1>20 DEF Next, TaskStep, StopStep, Over
-----------------------------------------------------------------------------
(* The limit.                                                              *)

\* Every load in flight is so on the one client there is.
LEMMA OneGate == UrlInv => InFlight = InFlightOn(clientCache)
  BY DEF UrlInv, TypeOK, InFlight, InFlightOn

\* Only Admit lets one more load in flight, and only below the limit.
LEMMA CapHolds == UrlInv /\ [Next]_vars => LoadsWithinCap'
<1> SUFFICES ASSUME UrlInv, [Next]_vars PROVE LoadsWithinCap'
  OBVIOUS
<1>1. IsFiniteSet(InFlight) /\ Cardinality(InFlight) \in Nat
  BY FS_Subset, FS_CardinalityType DEF InFlight
<1>2. ASSUME InFlight' \subseteq InFlight PROVE LoadsWithinCap'
  <2>1. Cardinality(InFlight') <= Cardinality(InFlight) /\ Cardinality(InFlight') \in Nat
    BY <1>1, <1>2, FS_Subset, FS_CardinalityType
  <2> QED
    BY <1>1, <2>1 DEF UrlInv, LoadsWithinCap
<1>3. ASSUME NEW l \in Loads, Admit(l) PROVE LoadsWithinCap'
  <2>1. using[l] = clientCache
    BY <1>3 DEF UrlInv, TypeOK, Admit
  <2>2. Cardinality(InFlight) < Cap
    BY <1>3, <2>1, OneGate DEF Admit
  <2>3. InFlight' \subseteq InFlight \cup {l}
    BY <1>3 DEF UrlInv, TypeOK, Admit, InFlight, rust
  <2>4. IsFiniteSet(InFlight \cup {l}) /\ Cardinality(InFlight \cup {l}) <= Cardinality(InFlight) + 1
    BY <1>1, FS_AddElement
  <2>5. Cardinality(InFlight') <= Cardinality(InFlight \cup {l}) /\ Cardinality(InFlight') \in Nat
        /\ Cardinality(InFlight \cup {l}) \in Nat
    BY <2>3, <2>4, FS_Subset, FS_CardinalityType
  <2> QED
    BY <1>1, <2>2, <2>4, <2>5 DEF LoadsWithinCap
<1> USE DEF UrlInv, TypeOK, InFlight, vars, client, clients, rust, stopping
<1>4. CASE UNCHANGED vars
  <2> QED
    BY <1>2, <1>4
<1>5. ASSUME NEW l \in Loads, Start(l) PROVE InFlight' \subseteq InFlight
  BY <1>5 DEF Start
<1>6. ASSUME NEW l \in Loads, NoUrl(l) PROVE InFlight' \subseteq InFlight
  BY <1>6 DEF NoUrl
<1>7. ASSUME NEW l \in Loads, ClientFor(l) PROVE InFlight' \subseteq InFlight
  BY <1>7 DEF ClientFor
<1>8. ASSUME NEW l \in Loads, BuildRequest(l) PROVE InFlight' \subseteq InFlight
  BY <1>8 DEF BuildRequest
<1>9. ASSUME NEW l \in Loads, Answer(l) PROVE InFlight' \subseteq InFlight
  BY <1>9 DEF Answer
<1>10. ASSUME NEW l \in Loads, RequestFails(l) PROVE InFlight' \subseteq InFlight
  BY <1>10 DEF RequestFails
<1>11. ASSUME NEW l \in Loads, Store(l) PROVE InFlight' \subseteq InFlight
  BY <1>11 DEF Store
<1>12. ASSUME NEW l \in Loads, Emit(l) PROVE InFlight' \subseteq InFlight
  BY <1>12 DEF Emit
<1>13. ASSUME NEW l \in Loads, Read(l) PROVE InFlight' \subseteq InFlight
  BY <1>13 DEF Read
<1>14. ASSUME NEW l \in Loads, ReadReturns(l) PROVE InFlight' \subseteq InFlight
  BY <1>14 DEF ReadReturns
<1>15. ASSUME NEW l \in Loads, Deliver(l) PROVE InFlight' \subseteq InFlight
  BY <1>15 DEF Deliver
<1>16. ASSUME NEW l \in Loads, CancelAtEnd(l) PROVE InFlight' \subseteq InFlight
  BY <1>16 DEF CancelAtEnd
<1>17. ASSUME NEW l \in Loads, Finish(l) PROVE InFlight' \subseteq InFlight
  BY <1>17 DEF Finish
<1>18. ASSUME NEW l \in Loads, FailLoad(l) PROVE InFlight' \subseteq InFlight
  BY <1>18 DEF FailLoad
<1>19. ASSUME NEW l \in Loads, StopTake(l) PROVE InFlight' \subseteq InFlight
  BY <1>19 DEF StopTake
<1>20. ASSUME NEW l \in Loads, StopClear(l) PROVE InFlight' \subseteq InFlight
  BY <1>20 DEF StopClear
<1>21. ASSUME NEW l \in Loads, StopCancel(l) PROVE InFlight' \subseteq InFlight
  BY <1>21 DEF StopCancel
<1>22. ASSUME NEW l \in Loads, Release(l) PROVE InFlight' \subseteq InFlight
  BY <1>22 DEF Release
<1> QED
  BY <1>1, <1>2, <1>3, <1>4, <1>5, <1>6, <1>7, <1>8, <1>9, <1>10, <1>11, <1>12, <1>13,
     <1>14, <1>15, <1>16, <1>17, <1>18, <1>19, <1>20, <1>21, <1>22 DEF Next, TaskStep, StopStep, Over

-----------------------------------------------------------------------------
(* The theorems.                                                           *)

\* The first state has nothing in flight.
LEMMA InitHolds == Init => UrlInv
<1> SUFFICES ASSUME Init PROVE UrlInv
  OBVIOUS
<1>1. InFlight = {}
  BY DEF Init, InFlight
<1>2. LoadsWithinCap
  BY <1>1, FS_EmptySet DEF LoadsWithinCap
<1> QED
  BY <1>2 DEF Init, UrlInv, TypeOK

\* UrlInv is inductive.
LEMMA Invariance == Spec => []UrlInv
<1>1. UrlInv /\ [Next]_vars => UrlInv'
  BY TypesHold, LoadsHold, CapHolds DEF UrlInv
<1> QED
  BY InitHolds, <1>1, PTL DEF Spec

\* Whatever loads start, fail, and are stopped in whatever order, the bridge's state
\* keeps its types: no load is told of more chunks than it has.
THEOREM TypeCorrect == Spec => []TypeOK
<1>1. UrlInv => TypeOK
  BY DEF UrlInv
<1> QED
  BY Invariance, <1>1, PTL

\* A load that nobody stopped finishes only with its whole body, for any bodies
\* (PqcURLProtocol.swift:226-232).
THEOREM WholeLoads == Spec => []FinishMeansWhole
<1>1. UrlInv => FinishMeansWhole
  BY DEF UrlInv, TypeOK, FinishMeansWhole
<1> QED
  BY Invariance, <1>1, PTL

\* The loads of a subclass stay within the limit of its config, for any loads and any
\* limit (PqcURLProtocol.swift:74-90).
THEOREM WithinCap == Spec => []LoadsWithinCap
<1>1. UrlInv => LoadsWithinCap
  BY DEF UrlInv
<1> QED
  BY Invariance, <1>1, PTL
=============================================================================

-------------------------- MODULE DiskCacheProofs ---------------------------
(***************************************************************************)
(* Proofs about DiskCache, for any keys, bodies and limits.  For any       *)
(* number of calls, with faults and restarts: who has evict_lock, that a   *)
(* hit is whole, and the types.  For one call at a time and no faults: the *)
(* counter, the budget and the order of eviction, from what each step adds *)
(* to the bytes of the index (the lemmas on BytesOf) and takes from them.  *)
(***************************************************************************)
EXTENDS DiskCache, SumsProofs

-----------------------------------------------------------------------------
(* The lock.                                                               *)

\* Between the lock and its release, and with those that wait for it.
Critical == {"restore", "recheck", "total", "sweep", "sweepblob", "clearstore"}
Locking == Critical \cup {"seeding", "resync", "clearing"}

In(p, s) == \E i \in 1 .. Len(s) : s[i] = p

\* The queue has each call that waits or holds, once, and the holder in front.
QueueInv ==
    /\ evictLock \in Seq(Procs)
    /\ \A i, j \in 1 .. Len(evictLock) : evictLock[i] = evictLock[j] => i = j
    /\ \A p \in Procs : pc[p] \in Locking <=> In(p, evictLock)
    /\ \A p \in Procs : pc[p] \in Critical => Held(p)
LockInv == pc \in [Procs -> Places] /\ QueueInv

USE DEF Critical, Locking, LockInv

\* A call moves on, and stays with the lock or without.
LEMMA MoveKeepsLock ==
    ASSUME LockInv, NEW p \in Procs, NEW x \in Places,
           pc' = [pc EXCEPT ![p] = x], UNCHANGED evictLock,
           x \in Locking <=> pc[p] \in Locking,
           x \in Critical => pc[p] \in Critical \/ Held(p)
    PROVE  LockInv'
  BY DEF QueueInv, In, Held

\* A call goes behind the others.
LEMMA JoinKeepsLock ==
    ASSUME LockInv, NEW p \in Procs, NEW x \in Locking \ Critical, x \in Places,
           pc' = [pc EXCEPT ![p] = x], pc[p] \notin Locking, Join(p)
    PROVE  LockInv'
<1>1. /\ evictLock \in Seq(Procs) /\ evictLock' = Append(evictLock, p)
      /\ Len(evictLock) \in Nat /\ ~In(p, evictLock)
  BY DEF QueueInv, Join
<1>2. /\ evictLock' \in Seq(Procs) /\ Len(evictLock') = Len(evictLock) + 1
      /\ evictLock'[Len(evictLock) + 1] = p
      /\ \A i \in 1 .. Len(evictLock) : evictLock'[i] = evictLock[i]
  BY <1>1
<1>3. \A i, j \in 1 .. Len(evictLock') : evictLock'[i] = evictLock'[j] => i = j
  BY <1>1, <1>2 DEF QueueInv, In
<1>4. \A q \in Procs : In(q, evictLock') <=> q = p \/ In(q, evictLock)
  BY <1>1, <1>2 DEF In
<1>5. \A q \in Procs : Held(q) => evictLock' # <<>> /\ Head(evictLock') = q
  BY <1>1, <1>2 DEF Held
<1> QED
  BY <1>2, <1>3, <1>4, <1>5 DEF QueueInv, Held

\* The holder gives the lock to whoever waits behind it.
LEMMA ReleaseKeepsLock ==
    ASSUME LockInv, NEW p \in Procs, NEW x \in Places \ Locking,
           pc' = [pc EXCEPT ![p] = x], Held(p), Release
    PROVE  LockInv'
<1>1. /\ evictLock \in Seq(Procs) /\ evictLock' = Tail(evictLock)
      /\ Len(evictLock) \in Nat /\ Len(evictLock) > 0 /\ evictLock[1] = p
  BY DEF QueueInv, Release, Held
<1>2. /\ evictLock' \in Seq(Procs) /\ Len(evictLock') = Len(evictLock) - 1
      /\ \A i \in 1 .. Len(evictLock') : evictLock'[i] = evictLock[i + 1]
  BY <1>1
<1>3. \A i, j \in 1 .. Len(evictLock') : evictLock'[i] = evictLock'[j] => i = j
  BY <1>1, <1>2 DEF QueueInv
<1>4. ~In(p, evictLock')
  BY <1>1, <1>2 DEF QueueInv, In
<1>5. ASSUME NEW q \in Procs, q # p PROVE In(q, evictLock') <=> In(q, evictLock)
  <2>1. ASSUME NEW i \in 1 .. Len(evictLock), evictLock[i] = q
        PROVE  i - 1 \in 1 .. Len(evictLock') /\ evictLock'[i - 1] = q
    BY <1>1, <1>2, <1>5, <2>1
  <2>2. ASSUME NEW i \in 1 .. Len(evictLock'), evictLock'[i] = q
        PROVE  i + 1 \in 1 .. Len(evictLock) /\ evictLock[i + 1] = q
    BY <1>1, <1>2, <2>2
  <2> QED
    BY <2>1, <2>2 DEF In
<1>6. \A q \in Procs : pc[q] \in Critical => q = p
  BY <1>1 DEF QueueInv, Held
<1> QED
  BY <1>2, <1>3, <1>4, <1>5, <1>6 DEF QueueInv

\* Every step of a call does one of these, or nothing, to the lock.
LEMMA LockSteps == LockInv /\ [Next]_vars => LockInv'
<1> SUFFICES ASSUME LockInv, [Next]_vars PROVE LockInv'
  OBVIOUS
<1>1. CASE UNCHANGED vars
  BY <1>1 DEF vars, control, QueueInv, Held
<1>2. ASSUME NEW p \in Procs, Begin(p) PROVE LockInv'
  BY <1>2, MoveKeepsLock DEF Begin, Enter, Places
<1>3. ASSUME NEW p \in Procs, SeedLoad(p) PROVE LockInv'
  BY <1>3, JoinKeepsLock, MoveKeepsLock DEF SeedLoad, Goto, AfterSeed, Places
<1>4. ASSUME NEW p \in Procs, SeedWalk(p) PROVE LockInv'
  BY <1>4, ReleaseKeepsLock, MoveKeepsLock DEF SeedWalk, Goto, AfterSeed, Places
<1>5. ASSUME NEW p \in Procs, SeedStore(p) PROVE LockInv'
  BY <1>5, ReleaseKeepsLock DEF SeedStore, Goto, AfterSeed, Places, QueueInv
<1>6. ASSUME NEW p \in Procs, GetMeta(p) PROVE LockInv'
  BY <1>6, MoveKeepsLock DEF GetMeta, Goto, Finish, Places
<1>7. ASSUME NEW p \in Procs, GetMem(p) PROVE LockInv'
  BY <1>7, MoveKeepsLock DEF GetMem, Goto, Finish, Places
<1>8. ASSUME NEW p \in Procs, GetOpen(p) PROVE LockInv'
  BY <1>8, MoveKeepsLock DEF GetOpen, Finish, Places
<1>9. ASSUME NEW p \in Procs, PutPass(p) PROVE LockInv'
  BY <1>9, MoveKeepsLock DEF PutPass, Finish, Places
<1>10. ASSUME NEW p \in Procs, PutBroken(p) PROVE LockInv'
  BY <1>10, MoveKeepsLock DEF PutBroken, Finish, Places
<1>11. ASSUME NEW p \in Procs, PutBuffered(p) PROVE LockInv'
  BY <1>11, MoveKeepsLock DEF PutBuffered, Enter, Places
<1>12. ASSUME NEW p \in Procs, PutTee(p) PROVE LockInv'
  BY <1>12, MoveKeepsLock DEF PutTee, Finish, Enter, Places
<1>13. ASSUME NEW p \in Procs, Commit(p) PROVE LockInv'
  BY <1>13, MoveKeepsLock DEF Commit, Goto, Finish, Places
<1>14. ASSUME NEW p \in Procs, TeeCommit(p) PROVE LockInv'
  BY <1>14, MoveKeepsLock DEF TeeCommit, Goto, Finish, Places
<1>15. ASSUME NEW p \in Procs, TeeReinsert(p) PROVE LockInv'
  BY <1>15, MoveKeepsLock DEF TeeReinsert, Goto, Places
<1>16. ASSUME NEW p \in Procs, TeeUnpublish(p) PROVE LockInv'
  BY <1>16, MoveKeepsLock DEF TeeUnpublish, Goto, Places
<1>17. ASSUME NEW p \in Procs, TeeUnblob(p) PROVE LockInv'
  BY <1>17, MoveKeepsLock DEF TeeUnblob, Finish, Places
<1>18. ASSUME NEW p \in Procs, Add(p) PROVE LockInv'
  BY <1>18, MoveKeepsLock DEF Add, Goto, Places
<1>19. ASSUME NEW p \in Procs, MemPut(p) PROVE LockInv'
  BY <1>19, MoveKeepsLock DEF MemPut, Goto, Finish, Places
<1>20. ASSUME NEW p \in Procs, EvictLoad(p) PROVE LockInv'
  BY <1>20, JoinKeepsLock, MoveKeepsLock DEF EvictLoad, Goto, AfterEvict, Finish, Places
<1>21. ASSUME NEW p \in Procs, EvictWalk(p) PROVE LockInv'
  BY <1>21, MoveKeepsLock DEF EvictWalk, Goto, Places
<1>22. ASSUME NEW p \in Procs, EvictStore(p) PROVE LockInv'
  BY <1>22, MoveKeepsLock DEF EvictStore, Goto, Places
<1>23. ASSUME NEW p \in Procs, EvictRecheck(p) PROVE LockInv'
  BY <1>23, ReleaseKeepsLock, MoveKeepsLock DEF EvictRecheck, Goto, AfterEvict,
     Finish, Places, QueueInv
<1>24. ASSUME NEW p \in Procs, EvictTotal(p) PROVE LockInv'
  BY <1>24, MoveKeepsLock DEF EvictTotal, Goto, Places
<1>25. ASSUME NEW p \in Procs, Sweep(p) PROVE LockInv'
  BY <1>25, MoveKeepsLock DEF Sweep, Goto, Places
<1>26. ASSUME NEW p \in Procs, SweepBlob(p) PROVE LockInv'
  BY <1>26, MoveKeepsLock DEF SweepBlob, Goto, Places
<1>27. ASSUME NEW p \in Procs, SweepEnd(p) PROVE LockInv'
  BY <1>27, ReleaseKeepsLock DEF SweepEnd, AfterEvict, Goto, Finish, Places, QueueInv
<1>28. ASSUME NEW p \in Procs, DelMem(p) PROVE LockInv'
  BY <1>28, MoveKeepsLock DEF DelMem, Goto, Finish, Places
<1>29. ASSUME NEW p \in Procs, DelMeta(p) PROVE LockInv'
  BY <1>29, MoveKeepsLock DEF DelMeta, Goto, Finish, Places
<1>30. ASSUME NEW p \in Procs, DelKey(p) PROVE LockInv'
  BY <1>30, MoveKeepsLock DEF DelKey, Goto, Places
<1>31. ASSUME NEW p \in Procs, DelBlob(p) PROVE LockInv'
  BY <1>31, MoveKeepsLock DEF DelBlob, Goto, Places
<1>32. ASSUME NEW p \in Procs, DelSub(p) PROVE LockInv'
  BY <1>32, MoveKeepsLock DEF DelSub, Finish, Places
<1>33. ASSUME NEW p \in Procs, ClearMem(p) PROVE LockInv'
  BY <1>33, JoinKeepsLock, MoveKeepsLock DEF ClearMem, Goto, Finish, Places
<1>34. ASSUME NEW p \in Procs, ClearDisk(p) PROVE LockInv'
  BY <1>34, MoveKeepsLock DEF ClearDisk, Goto, Places
<1>35. ASSUME NEW p \in Procs, ClearStore(p) PROVE LockInv'
  BY <1>35, ReleaseKeepsLock DEF ClearStore, Finish, Places, QueueInv
<1>36. ASSUME NEW k \in Keys, MemEvicts(k) PROVE LockInv'
  BY <1>36 DEF MemEvicts, control, QueueInv, Held
<1>37. CASE Restart
  BY <1>37 DEF Restart, QueueInv, In, Held, Places
<1> QED
  BY <1>1, <1>2, <1>3, <1>4, <1>5, <1>6, <1>7, <1>8, <1>9, <1>10, <1>11,
     <1>12, <1>13, <1>14, <1>15, <1>16, <1>17, <1>18, <1>19, <1>20, <1>21,
     <1>22, <1>23, <1>24, <1>25, <1>26, <1>27, <1>28, <1>29, <1>30, <1>31,
     <1>32, <1>33, <1>34, <1>35, <1>36, <1>37 DEF Next, Step

\* It begins with nobody.
LEMMA LockStarts == Init => LockInv
  BY DEF Init, QueueInv, In, Held, Places

\* One call at a time is between the lock and its release, and the lock is never left
\* with a call that neither waits for it nor works under it: whatever path eviction,
\* seeding and clear return by, however many calls there are (cache.rs:719-788,
\* 244-261).
THEOREM LockIsNeverLeft ==
    Spec => [](/\ \A p, q \in Procs : pc[p] \in Critical /\ pc[q] \in Critical => p = q
               /\ evictLock # <<>> => pc[Head(evictLock)] \in Locking)
<1>1. Init => LockInv
  BY LockStarts
<1>2. LockInv => /\ \A p, q \in Procs : pc[p] \in Critical /\ pc[q] \in Critical => p = q
                 /\ evictLock # <<>> => pc[Head(evictLock)] \in Locking
  BY DEF QueueInv, In, Held
<1> QED
  BY <1>1, <1>2, LockSteps, PTL DEF Spec

HIDE DEF Critical, Locking, LockInv

-----------------------------------------------------------------------------
(* The hits.                                                               *)

\* A get that goes on has read an entry that is done.
HitInv ==
    /\ pc \in [Procs -> Places] /\ DOMAIN todo = Procs /\ DOMAIN result = Procs
    /\ \A p \in Procs : pc[p] \in {"readmem", "open"} => Head(todo[p]).done
    /\ HitsAreWhole

\* Only a get's own steps bring it there, and only a guarded one.
LEMMA HitSteps == HitInv /\ [Next]_vars => HitInv'
<1> SUFFICES ASSUME HitInv, [Next]_vars PROVE HitInv'
  OBVIOUS
<1> USE DEF HitInv, HitsAreWhole, Places, Is
<1>1. CASE UNCHANGED vars
  BY <1>1 DEF vars, control, scan
<1>2. ASSUME NEW p \in Procs, Begin(p) PROVE HitInv'
  BY <1>2 DEF Begin, Enter, scan
<1>3. ASSUME NEW p \in Procs, SeedLoad(p) PROVE HitInv'
  BY <1>3 DEF SeedLoad, Goto, AfterSeed, scan
<1>4. ASSUME NEW p \in Procs, SeedWalk(p) PROVE HitInv'
  BY <1>4 DEF SeedWalk, Goto, AfterSeed
<1>5. ASSUME NEW p \in Procs, SeedStore(p) PROVE HitInv'
  BY <1>5 DEF SeedStore, Goto, AfterSeed
<1>6. ASSUME NEW p \in Procs, GetMeta(p) PROVE HitInv'
  BY <1>6 DEF GetMeta, Goto, Finish
<1>7. ASSUME NEW p \in Procs, GetMem(p) PROVE HitInv'
  BY <1>7 DEF GetMem, Goto, Finish, Hit
<1>8. ASSUME NEW p \in Procs, GetOpen(p) PROVE HitInv'
  BY <1>8 DEF GetOpen, Finish, Hit, EntrySize
<1>9. ASSUME NEW p \in Procs, PutPass(p) PROVE HitInv'
  BY <1>9 DEF PutPass, Finish, scan
<1>10. ASSUME NEW p \in Procs, PutBroken(p) PROVE HitInv'
  BY <1>10 DEF PutBroken, Finish, scan
<1>11. ASSUME NEW p \in Procs, PutBuffered(p) PROVE HitInv'
  BY <1>11 DEF PutBuffered, Enter, scan
<1>12. ASSUME NEW p \in Procs, PutTee(p) PROVE HitInv'
  BY <1>12 DEF PutTee, Finish, Enter, scan
<1>13. ASSUME NEW p \in Procs, Commit(p) PROVE HitInv'
  <2>1. (Goto(p, "add") \/ Finish(p, Is("failed"))) /\ UNCHANGED scan
    BY <1>13 DEF Commit
  <2> QED
    BY <2>1 DEF Goto, Finish, scan
<1>14. ASSUME NEW p \in Procs, TeeCommit(p) PROVE HitInv'
  <2>1. (Goto(p, "reinsert") \/ Finish(p, Is("failed"))) /\ UNCHANGED scan
    BY <1>14 DEF TeeCommit
  <2> QED
    BY <2>1 DEF Goto, Finish, scan
<1>15. ASSUME NEW p \in Procs, TeeReinsert(p) PROVE HitInv'
  <2>1. (Goto(p, "add") \/ Goto(p, "unpublish")) /\ UNCHANGED scan
    BY <1>15 DEF TeeReinsert
  <2> QED
    BY <2>1 DEF Goto, scan
<1>16. ASSUME NEW p \in Procs, TeeUnpublish(p) PROVE HitInv'
  BY <1>16 DEF TeeUnpublish, Goto, scan
<1>17. ASSUME NEW p \in Procs, TeeUnblob(p) PROVE HitInv'
  BY <1>17 DEF TeeUnblob, Finish, scan
<1>18. ASSUME NEW p \in Procs, Add(p) PROVE HitInv'
  BY <1>18 DEF Add, Goto, scan
<1>19. ASSUME NEW p \in Procs, MemPut(p) PROVE HitInv'
  BY <1>19 DEF MemPut, Goto, Finish, scan
<1>20. ASSUME NEW p \in Procs, EvictLoad(p) PROVE HitInv'
  BY <1>20 DEF EvictLoad, Goto, AfterEvict, Finish, scan
<1>21. ASSUME NEW p \in Procs, EvictWalk(p) PROVE HitInv'
  BY <1>21 DEF EvictWalk, Goto
<1>22. ASSUME NEW p \in Procs, EvictStore(p) PROVE HitInv'
  BY <1>22 DEF EvictStore, Goto, scan
<1>23. ASSUME NEW p \in Procs, EvictRecheck(p) PROVE HitInv'
  BY <1>23 DEF EvictRecheck, Goto, AfterEvict, Finish
<1>24. ASSUME NEW p \in Procs, EvictTotal(p) PROVE HitInv'
  BY <1>24 DEF EvictTotal, Goto
<1>25. ASSUME NEW p \in Procs, Sweep(p) PROVE HitInv'
  BY <1>25 DEF Sweep, Goto, scan
<1>26. ASSUME NEW p \in Procs, SweepBlob(p) PROVE HitInv'
  BY <1>26 DEF SweepBlob, Goto
<1>27. ASSUME NEW p \in Procs, SweepEnd(p) PROVE HitInv'
  BY <1>27 DEF SweepEnd, AfterEvict, Goto, Finish
<1>28. ASSUME NEW p \in Procs, DelMem(p) PROVE HitInv'
  BY <1>28 DEF DelMem, Goto, Finish, scan
<1>29. ASSUME NEW p \in Procs, DelMeta(p) PROVE HitInv'
  BY <1>29 DEF DelMeta, Goto, Finish
<1>30. ASSUME NEW p \in Procs, DelKey(p) PROVE HitInv'
  BY <1>30 DEF DelKey, Goto, scan
<1>31. ASSUME NEW p \in Procs, DelBlob(p) PROVE HitInv'
  BY <1>31 DEF DelBlob, Goto, scan
<1>32. ASSUME NEW p \in Procs, DelSub(p) PROVE HitInv'
  BY <1>32 DEF DelSub, Finish
<1>33. ASSUME NEW p \in Procs, ClearMem(p) PROVE HitInv'
  BY <1>33 DEF ClearMem, Goto, Finish, scan
<1>34. ASSUME NEW p \in Procs, ClearDisk(p) PROVE HitInv'
  BY <1>34 DEF ClearDisk, Goto, scan
<1>35. ASSUME NEW p \in Procs, ClearStore(p) PROVE HitInv'
  BY <1>35 DEF ClearStore, Finish, scan
<1>36. ASSUME NEW k \in Keys, MemEvicts(k) PROVE HitInv'
  BY <1>36 DEF MemEvicts, control, scan
<1>37. CASE Restart
  BY <1>37 DEF Restart
<1> QED
  BY <1>1, <1>2, <1>3, <1>4, <1>5, <1>6, <1>7, <1>8, <1>9, <1>10, <1>11,
     <1>12, <1>13, <1>14, <1>15, <1>16, <1>17, <1>18, <1>19, <1>20, <1>21,
     <1>22, <1>23, <1>24, <1>25, <1>26, <1>27, <1>28, <1>29, <1>30, <1>31,
     <1>32, <1>33, <1>34, <1>35, <1>36, <1>37 DEF Next, Step

\* A get answers with a whole body or not at all, and from disk with the body of its
\* head, for any calls around it, any faults and any restarts (cache.rs:555-567,
\* 583-595).
THEOREM WholeHits == Spec => []HitsAreWhole
<1>1. Init => HitInv
  BY DEF Init, HitInv, HitsAreWhole, Places, Is
<1> QED
  BY <1>1, HitSteps, PTL DEF Spec, HitInv

-----------------------------------------------------------------------------
(* The index and its bytes.                                                *)

Sizes(s) == [i \in DOMAIN s |-> EntrySize(s[i])]

\* What an entry counts is a number.
LEMMA SizesTyped ==
    ASSUME NEW s \in Seq(Entry)
    PROVE  /\ Sizes(s) \in Seq(Nat) /\ Len(Sizes(s)) = Len(s)
           /\ \A i \in 1 .. Len(s) : Sizes(s)[i] = EntrySize(s[i]) /\ EntrySize(s[i]) \in Nat
           /\ BytesOf(s) = Total(Sizes(s)) /\ BytesOf(s) \in Nat
<1>1. DOMAIN s = 1 .. Len(s) /\ Len(s) \in Nat /\ \A i \in 1 .. Len(s) : s[i] \in Entry
  OBVIOUS
<1>2. \A e \in Entry : EntrySize(e) \in Nat
  BY CacheAssumption DEF Entry, EntrySize
<1>3. Sizes(s) = [i \in 1 .. Len(s) |-> EntrySize(s[i])]
  BY <1>1 DEF Sizes
<1>4. Sizes(s) \in Seq(Nat) /\ Len(Sizes(s)) = Len(s)
  BY <1>1, <1>2, <1>3
<1>5. BytesOf(s) = Total(Sizes(s))
  BY DEF BytesOf, Sizes
<1>6. Total(Sizes(s)) \in Nat
  BY <1>4, TotalTyped
<1> QED
  BY <1>1, <1>2, <1>3, <1>4, <1>5, <1>6

\* No entries, no bytes.
LEMMA NoBytes == BytesOf(<<>>) = 0
<1>1. <<>> \in Seq(Entry) /\ Len(<<>>) = 0
  OBVIOUS
<1>2. BytesOf(<<>>) = Total(Sizes(<<>>)) /\ Sizes(<<>>) \in Seq(Nat) /\ Len(Sizes(<<>>)) = 0
  BY <1>1, SizesTyped
<1>3. Sizes(<<>>) = <<>>
  BY <1>2
<1> QED
  BY <1>2, <1>3, TotalTyped

\* An entry at the end counts.
LEMMA BytesAppend ==
    ASSUME NEW s \in Seq(Entry), NEW e \in Entry
    PROVE  Append(s, e) \in Seq(Entry) /\ BytesOf(Append(s, e)) = BytesOf(s) + EntrySize(e)
<1> DEFINE t == Append(s, e)
<1>1. t \in Seq(Entry) /\ Len(t) = Len(s) + 1 /\ t[Len(s) + 1] = e /\ Len(s) \in Nat
      /\ \A i \in 1 .. Len(s) : t[i] = s[i]
  OBVIOUS
<1> HIDE DEF t
<1>2. /\ Sizes(s) \in Seq(Nat) /\ Len(Sizes(s)) = Len(s) /\ BytesOf(s) = Total(Sizes(s))
      /\ \A i \in 1 .. Len(s) : Sizes(s)[i] = EntrySize(s[i])
  BY SizesTyped
<1>3. /\ Sizes(t) \in Seq(Nat) /\ Len(Sizes(t)) = Len(t) /\ BytesOf(t) = Total(Sizes(t))
      /\ \A i \in 1 .. Len(t) : Sizes(t)[i] = EntrySize(t[i]) /\ EntrySize(t[i]) \in Nat
  BY <1>1, SizesTyped
<1>4. EntrySize(e) \in Nat
  <2>1. Len(s) + 1 \in 1 .. Len(t)
    BY <1>1
  <2> QED
    BY <1>1, <1>3, <2>1
<1>5. Sizes(t) = Append(Sizes(s), EntrySize(e))
  <2>1. Append(Sizes(s), EntrySize(e)) \in Seq(Nat)
    BY <1>2, <1>4
  <2>2. Len(Append(Sizes(s), EntrySize(e))) = Len(s) + 1
    BY <1>2
  <2>3. ASSUME NEW i \in 1 .. Len(s) + 1
        PROVE  Append(Sizes(s), EntrySize(e))[i] = Sizes(t)[i]
    BY <1>1, <1>2, <1>3, <1>4
  <2> HIDE DEF Sizes
  <2> QED
    BY <1>1, <1>3, <2>1, <2>2, <2>3
<1>6. Total(Append(Sizes(s), EntrySize(e))) = Total(Sizes(s)) + EntrySize(e)
  BY <1>2, <1>4, TotalAppend, Zenon
<1> QED
  BY <1>1, <1>2, <1>3, <1>5, <1>6 DEF t

\* t is s without its place n.
Less(s, t, n) ==
    /\ t \in Seq(Entry) /\ Len(t) = Len(s) - 1
    /\ \A i \in 1 .. Len(t) : t[i] = IF i < n THEN s[i] ELSE s[i + 1]

\* An entry taken out no longer counts.
LEMMA BytesLess ==
    ASSUME NEW s \in Seq(Entry), NEW n \in 1 .. Len(s), NEW t, Less(s, t, n)
    PROVE  BytesOf(t) + EntrySize(s[n]) = BytesOf(s)
<1>1. t \in Seq(Entry) /\ Len(t) = Len(s) - 1 /\ Len(t) \in Nat /\ Len(s) \in Nat
  BY DEF Less
<1>2. /\ Sizes(s) \in Seq(Nat) /\ Len(Sizes(s)) = Len(s) /\ BytesOf(s) = Total(Sizes(s))
      /\ \A i \in 1 .. Len(s) : Sizes(s)[i] = EntrySize(s[i])
  BY SizesTyped
<1>3. /\ Sizes(t) \in Seq(Nat) /\ Len(Sizes(t)) = Len(t) /\ BytesOf(t) = Total(Sizes(t))
      /\ \A i \in 1 .. Len(t) : Sizes(t)[i] = EntrySize(t[i])
  BY <1>1, SizesTyped
<1>4. ASSUME NEW i \in 1 .. Len(Sizes(t))
      PROVE  Sizes(t)[i] = IF i < n THEN Sizes(s)[i] ELSE Sizes(s)[i + 1]
  <2>1. i \in 1 .. Len(t) /\ i \in 1 .. Len(s) /\ i + 1 \in 1 .. Len(s)
    BY <1>1, <1>3
  <2>2. t[i] = IF i < n THEN s[i] ELSE s[i + 1]
    BY <2>1 DEF Less
  <2> QED
    BY <1>2, <1>3, <2>1, <2>2
<1>5. n \in 1 .. Len(Sizes(s)) /\ Len(Sizes(t)) = Len(Sizes(s)) - 1
  BY <1>1, <1>2, <1>3
<1> HIDE DEF Sizes
<1>6. Total(Sizes(t)) + Sizes(s)[n] = Total(Sizes(s))
  BY <1>2, <1>3, <1>4, <1>5, TotalRemove
<1> QED
  BY <1>2, <1>3, <1>6

\* Without its first, and without one in the middle.
LEMMA Leaves ==
    ASSUME NEW s \in Seq(Entry)
    PROVE  /\ s # <<>> => Less(s, Tail(s), 1)
           /\ \A n \in 1 .. Len(s) : Less(s, RemoveAt(s, n), n)
<1>1. s # <<>> => Less(s, Tail(s), 1)
  BY DEF Less
<1>2. ASSUME NEW n \in 1 .. Len(s) PROVE Less(s, RemoveAt(s, n), n)
  <2> DEFINE a == SubSeq(s, 1, n - 1)
             b == SubSeq(s, n + 1, Len(s))
  <2>1. /\ a \in Seq(Entry) /\ Len(a) = n - 1 /\ \A i \in 1 .. n - 1 : a[i] = s[i]
        /\ Len(s) \in Nat
    OBVIOUS
  <2>2. b \in Seq(Entry) /\ Len(b) = Len(s) - n /\ \A i \in 1 .. Len(s) - n : b[i] = s[n + i]
    <3>1. n + 1 \in Int /\ Len(s) \in Int /\ \A i \in n + 1 .. Len(s) : s[i] \in Entry
      OBVIOUS
    <3> QED
      BY <3>1
  <2>3. RemoveAt(s, n) = a \o b
    BY DEF RemoveAt
  <2> HIDE DEF a, b
  <2>4. /\ a \o b \in Seq(Entry) /\ Len(a \o b) = Len(s) - 1
        /\ \A i \in 1 .. Len(s) - 1 : (a \o b)[i] = IF i < n THEN s[i] ELSE s[i + 1]
    <3>1. a \o b \in Seq(Entry) /\ Len(a \o b) = Len(s) - 1
      <4>1. a \o b \in Seq(Entry)
        BY <2>1, <2>2
      <4>2. Len(a \o b) = Len(a) + Len(b)
        <5>1. a \in Seq(Entry) /\ b \in Seq(Entry)
          BY <2>1, <2>2
        <5> QED
          BY <5>1
      <4> QED
        BY <2>1, <2>2, <4>1, <4>2
    <3>2. ASSUME NEW i \in 1 .. Len(s) - 1
          PROVE  (a \o b)[i] = IF i < n THEN s[i] ELSE s[i + 1]
      <4>1. CASE i < n
        BY <2>1, <2>2, <4>1
      <4>2. CASE ~(i < n)
        <5>1. (a \o b)[i] = b[i - (n - 1)] /\ i - (n - 1) \in 1 .. Len(s) - n
          BY <2>1, <2>2, <4>2
        <5>2. b[i - (n - 1)] = s[n + (i - (n - 1))] /\ n + (i - (n - 1)) = i + 1
          BY <2>1, <2>2, <5>1
        <5> QED
          BY <4>2, <5>1, <5>2
      <4> QED
        BY <4>1, <4>2
    <3> QED
      BY <3>1, <3>2
  <2> QED
    BY <2>3, <2>4 DEF Less
<1> QED
  BY <1>1, <1>2

-----------------------------------------------------------------------------
(* Find, Without and Insert.                                               *)

\* One live entry per key, as cacache has it.
OneEach(s) == s \in Seq(Entry) /\ \A i, j \in 1 .. Len(s) : s[i].key = s[j].key => i = j

\* A search says where the key is.
LEMMA Finds ==
    ASSUME index \in Seq(Entry), NEW k
    PROVE  /\ Find(k) \in 0 .. Len(index)
           /\ Find(k) # 0 => index[Find(k)].key = k /\ index[Find(k)] \in Entry
           /\ Find(k) = 0 => \A i \in 1 .. Len(index) : index[i].key # k
<1> DEFINE I == {i \in 1 .. Len(index) : index[i].key = k}
<1>1. Find(k) = IF I # {} THEN Min(I) ELSE 0
  BY DEF Find, SelectInSeq
<1>2. Len(index) \in Nat /\ \A i \in 1 .. Len(index) : index[i] \in Entry
  OBVIOUS
<1>3. I \in SUBSET Nat /\ \A i \in I : i \in 1 .. Len(index) /\ index[i].key = k
  BY <1>2
<1>4. I = {} => \A i \in 1 .. Len(index) : index[i].key # k
  OBVIOUS
<1> HIDE DEF I
<1>5. CASE I = {}
  BY <1>1, <1>2, <1>4, <1>5
<1>6. CASE I # {}
  <2>1. \E x \in I : \A y \in I : x <= y
    BY <1>3, <1>6, Least
  <2>2. Min(I) \in I
    BY <2>1 DEF Min
  <2>3. Find(k) \in 1 .. Len(index) /\ index[Find(k)].key = k
    BY <1>1, <1>3, <1>6, <2>2
  <2> QED
    BY <1>2, <2>3
<1> QED
  BY <1>5, <1>6

\* The index without a key, whose entry no longer counts.
LEMMA Takes ==
    ASSUME index \in Seq(Entry), NEW k
    PROVE  /\ Without(k) \in Seq(Entry)
           /\ Find(k) # 0 => BytesOf(Without(k)) + EntrySize(index[Find(k)]) = BytesOf(index)
           /\ BytesOf(Without(k)) <= BytesOf(index)
           /\ OneEach(index) => /\ OneEach(Without(k))
                              /\ \A i \in 1 .. Len(Without(k)) : Without(k)[i].key # k
<1> DEFINE n == Find(k)
           t == Without(k)
<1>1. /\ n \in 0 .. Len(index) /\ Len(index) \in Nat
      /\ n # 0 => index[n].key = k
      /\ n = 0 => \A i \in 1 .. Len(index) : index[i].key # k
  BY Finds
<1>2. BytesOf(index) \in Nat /\ \A i \in 1 .. Len(index) : EntrySize(index[i]) \in Nat
  BY SizesTyped
<1>3. CASE n = 0
  <2>1. t = index
    BY <1>3 DEF Without
  <2> QED
    BY <1>1, <1>2, <1>3, <2>1
<1>4. CASE n # 0
  <2>1. t = RemoveAt(index, n) /\ n \in 1 .. Len(index)
    BY <1>1, <1>4 DEF Without
  <2> HIDE DEF n, t
  <2>2. Less(index, t, n)
    BY <2>1, Leaves
  <2>3. BytesOf(t) + EntrySize(index[n]) = BytesOf(index)
    BY <2>1, <2>2, BytesLess
  <2>4. /\ t \in Seq(Entry) /\ Len(t) = Len(index) - 1 /\ BytesOf(t) \in Nat
        /\ \A i \in 1 .. Len(t) : t[i] = IF i < n THEN index[i] ELSE index[i + 1]
    BY <2>2, SizesTyped DEF Less
  <2>5. BytesOf(t) <= BytesOf(index)
    BY <1>2, <2>1, <2>3, <2>4
  <2>6. ASSUME OneEach(index) PROVE OneEach(t) /\ \A i \in 1 .. Len(t) : t[i].key # k
    <3>1. \A i, j \in 1 .. Len(index) : index[i].key = index[j].key => i = j
      BY <2>6 DEF OneEach
    <3> DEFINE at(i) == IF i < n THEN i ELSE i + 1
    <3>2. \A i \in 1 .. Len(t) : at(i) \in 1 .. Len(index) /\ at(i) # n /\ t[i] = index[at(i)]
      BY <1>1, <2>1, <2>4
    <3>3. \A i, j \in 1 .. Len(t) : at(i) = at(j) => i = j
      BY <1>1, <2>1, <2>4
    <3> HIDE DEF at
    <3>4. \A i, j \in 1 .. Len(t) : t[i].key = t[j].key => i = j
      BY <3>1, <3>2, <3>3
    <3>5. index[n].key = k
      BY <1>1, <1>4
    <3>6. \A i \in 1 .. Len(t) : t[i].key # k
      BY <2>1, <3>1, <3>2, <3>5
    <3> QED
      BY <2>4, <3>4, <3>6 DEF OneEach
  <2> QED
    BY <2>3, <2>4, <2>5, <2>6 DEF n, t
<1> QED
  BY <1>3, <1>4

\* A new entry at the end, in place of its key's.
LEMMA Inserts ==
    ASSUME index \in Seq(Entry), NEW k \in Keys, NEW b \in Bodies, NEW done \in BOOLEAN
    PROVE  /\ Insert(k, b, done) \in Seq(Entry)
           /\ BytesOf(Insert(k, b, done)) <= BytesOf(index) + (IF done THEN Size[b] ELSE 0)
           /\ OneEach(index) => OneEach(Insert(k, b, done))
<1> DEFINE e == [key |-> k, body |-> b, done |-> done]
           t == Without(k)
           u == Append(t, e)
<1>1. e \in Entry /\ e.key = k /\ EntrySize(e) = IF done THEN Size[b] ELSE 0
  BY DEF Entry, EntrySize
<1>2. /\ t \in Seq(Entry) /\ BytesOf(t) <= BytesOf(index)
      /\ OneEach(index) => OneEach(t) /\ \A i \in 1 .. Len(t) : t[i].key # k
  BY Takes
<1>3. Insert(k, b, done) = u
  BY DEF Insert
<1> HIDE DEF e, t
<1>4. u \in Seq(Entry) /\ BytesOf(u) = BytesOf(t) + EntrySize(e)
  BY <1>1, <1>2, BytesAppend
<1>5. BytesOf(t) \in Nat /\ BytesOf(index) \in Nat /\ Size[b] \in Nat
  BY <1>2, SizesTyped, CacheAssumption
<1>6. ASSUME OneEach(index) PROVE OneEach(u)
  <2>1. /\ Len(u) = Len(t) + 1 /\ u[Len(t) + 1] = e /\ Len(t) \in Nat
        /\ \A i \in 1 .. Len(t) : u[i] = t[i]
    BY <1>1, <1>2
  <2>2. /\ \A i, j \in 1 .. Len(t) : t[i].key = t[j].key => i = j
        /\ \A i \in 1 .. Len(t) : t[i].key # k
    BY <1>2, <1>6 DEF OneEach
  <2> HIDE DEF u
  <2>3. ASSUME NEW i \in 1 .. Len(u), NEW j \in 1 .. Len(u), u[i].key = u[j].key PROVE i = j
    <3>1. (i \in 1 .. Len(t) \/ i = Len(t) + 1) /\ (j \in 1 .. Len(t) \/ j = Len(t) + 1)
      BY <2>1
    <3> QED
      BY <1>1, <2>1, <2>2, <2>3, <3>1
  <2> QED
    BY <1>4, <2>3 DEF OneEach
<1> HIDE DEF u
<1> QED
  BY <1>1, <1>3, <1>4, <1>2, <1>5, <1>6

\* Without the oldest key, the index is the rest.
LEMMA TakesOldest ==
    ASSUME OneEach(index), index # <<>>
    PROVE  /\ Head(index) \in Entry /\ Without(Head(index).key) = Tail(index)
           /\ OneEach(Tail(index))
           /\ BytesOf(Tail(index)) + EntrySize(Head(index)) = BytesOf(index)
<1> DEFINE k == Head(index).key
           t == Tail(index)
<1>1. /\ index \in Seq(Entry) /\ Len(index) \in Nat /\ 1 \in 1 .. Len(index)
      /\ Head(index) = index[1] /\ Head(index) \in Entry
  BY DEF OneEach
<1>2. Find(k) = 1
  <2>1. /\ Find(k) \in 0 .. Len(index) /\ (Find(k) # 0 => index[Find(k)].key = k)
        /\ Find(k) = 0 => \A i \in 1 .. Len(index) : index[i].key # k
    BY <1>1, Finds
  <2>2. Find(k) # 0
    BY <1>1, <2>1
  <2>3. Find(k) \in 1 .. Len(index) /\ index[Find(k)].key = index[1].key
    BY <1>1, <2>1, <2>2
  <2> QED
    BY <1>1, <2>3 DEF OneEach
<1>3. Without(k) = RemoveAt(index, 1)
  BY <1>2 DEF Without
<1>4. Less(index, t, 1) /\ Less(index, RemoveAt(index, 1), 1)
  BY <1>1, Leaves
<1>5. RemoveAt(index, 1) = t
  <2> DEFINE r == RemoveAt(index, 1)
  <2> HIDE DEF t, r
  <2>1. /\ r \in Seq(Entry) /\ t \in Seq(Entry) /\ Len(r) = Len(t)
        /\ \A i \in 1 .. Len(t) : r[i] = t[i]
    BY <1>4 DEF Less, r
  <2>2. r = t
    BY <2>1
  <2> QED
    BY <2>2 DEF r
<1>6. BytesOf(t) + EntrySize(index[1]) = BytesOf(index)
  BY <1>1, <1>4, BytesLess
<1>7. OneEach(t)
  BY <1>1, <1>3, <1>5, Takes
<1> QED
  BY <1>1, <1>3, <1>5, <1>6, <1>7

-----------------------------------------------------------------------------
(* Types.                                                                  *)

Calls == [op : Ops, key : Keys \cup {Nil}, body : Bodies \cup {Nil}]
Results == [as : Outcomes, head : Bodies \cup {Nil}, body : Bodies \cup {Nil}, len : Nat]

\* What a call is about, by what it is.
Proper(c) ==
    /\ c \in Calls
    /\ c.op \in {"get", "put", "buffered", "tee", "delete"} => c.key \in Keys
    /\ c.op \in {"put", "buffered", "tee"} => c.body \in Bodies

\* Where a call may be.
At(op, place) ==
    \/ op = "none" /\ place = "idle"
    \/ op = "get" /\ place \in {"seed", "seeding", "restore", "meta", "readmem", "open"}
    \/ op = "put" /\ place \in {"seed", "seeding", "restore", "put"}
    \/ op = "tee" /\ place \in {"teecommit", "reinsert", "unpublish", "unblob"}
    \/ op = "buffered" /\ place = "commit"
    \/ /\ op \in {"buffered", "tee"}
       /\ place \in {"add", "memput", "evict", "resync", "restore", "recheck", "total",
                     "sweep", "sweepblob"}
    \/ op = "delete" /\ place \in {"delmem", "delmeta", "delkey", "delblob", "delsub"}
    \/ op = "clear" /\ place \in {"clearmem", "clearing", "clearstore"}

\* Those that have read an entry.
Reading == {"readmem", "open", "sweepblob", "delkey", "delblob", "delsub"}

StoreTyped ==
    /\ index \in Seq(Entry) /\ blobs \subseteq Bodies
    /\ mem \in [Keys -> Bodies \cup {Nil}]
    /\ bytes \in Nat /\ seeded \in BOOLEAN
CallTyped ==
    /\ pc \in [Procs -> Places] /\ call \in [Procs -> Calls]
    /\ \A p \in Procs : Proper(call[p]) /\ At(call[p].op, pc[p])
ScanTyped ==
    /\ todo \in [Procs -> Seq(Entry)] /\ sum \in [Procs -> Nat]
    /\ \A p \in Procs : pc[p] \in Reading => todo[p] # <<>>
ResultTyped == result \in [Procs -> Results]

TypeInv == StoreTyped /\ CallTyped /\ ScanTyped /\ ResultTyped

\* A call goes to a place of its kind.
LEMMA GotoTyped ==
    ASSUME CallTyped, NEW p \in Procs, NEW x \in Places, Goto(p, x), At(call[p].op, x)
    PROVE  CallTyped'
  BY DEF CallTyped, Goto

\* A call ends.
LEMMA FinishTyped ==
    ASSUME CallTyped, NEW p \in Procs, NEW r, Finish(p, r)
    PROVE  CallTyped'
<1>1. Proper(NoCall) /\ NoCall \in Calls /\ NoCall.op = "none" /\ "idle" \in Places
  BY DEF Proper, NoCall, Calls, Ops, Places
<1>2. At(NoCall.op, "idle")
  BY <1>1 DEF At
<1>3. /\ pc' = [pc EXCEPT ![p] = "idle"] /\ call' = [call EXCEPT ![p] = NoCall]
  BY DEF Finish
<1> QED
  BY <1>1, <1>2, <1>3 DEF CallTyped

\* A call begins, or turns into another.
LEMMA EnterTyped ==
    ASSUME CallTyped, NEW p \in Procs, NEW c, Proper(c), NEW x \in Places, At(c.op, x),
           Enter(p, c, x)
    PROVE  CallTyped'
<1>1. c \in Calls /\ pc' = [pc EXCEPT ![p] = x] /\ call' = [call EXCEPT ![p] = c]
  BY DEF Proper, Enter
<1> QED
  BY <1>1 DEF CallTyped

\* Every step leaves each call where one of its kind may be.
LEMMA CallSteps == CallTyped /\ [Next]_vars => CallTyped'
<1> SUFFICES ASSUME CallTyped, [Next]_vars PROVE CallTyped'
  OBVIOUS
<1> DEFINE Fits(p) == Proper(call[p]) /\ At(call[p].op, pc[p])
<1>1. \A p \in Procs : Fits(p)
  BY DEF CallTyped
<1>2. CASE UNCHANGED vars
  BY <1>2 DEF vars, control, CallTyped
<1>3. ASSUME NEW p \in Procs, Begin(p) PROVE CallTyped'
  <2>1. CASE \E k \in Keys : Enter(p, [op |-> "get", key |-> k, body |-> Nil], "seed")
    <3>1. PICK k \in Keys : Enter(p, [op |-> "get", key |-> k, body |-> Nil], "seed")
      BY <2>1
    <3> DEFINE c == [op |-> "get", key |-> k, body |-> Nil]
    <3>2. Proper(c) /\ At(c.op, "seed") /\ "seed" \in Places
      BY DEF Proper, Calls, Ops, At, Places
    <3> QED
      BY <3>1, <3>2, EnterTyped
  <2>2. CASE \E k \in Keys, b \in Bodies : Enter(p, [op |-> "put", key |-> k, body |-> b], "seed")
    <3>1. PICK k \in Keys, b \in Bodies : Enter(p, [op |-> "put", key |-> k, body |-> b], "seed")
      BY <2>2
    <3> DEFINE c == [op |-> "put", key |-> k, body |-> b]
    <3>2. Proper(c) /\ At(c.op, "seed") /\ "seed" \in Places
      BY DEF Proper, Calls, Ops, At, Places
    <3> QED
      BY <3>1, <3>2, EnterTyped
  <2>3. CASE \E k \in Keys : Enter(p, [op |-> "delete", key |-> k, body |-> Nil], "delmem")
    <3>1. PICK k \in Keys : Enter(p, [op |-> "delete", key |-> k, body |-> Nil], "delmem")
      BY <2>3
    <3> DEFINE c == [op |-> "delete", key |-> k, body |-> Nil]
    <3>2. Proper(c) /\ At(c.op, "delmem") /\ "delmem" \in Places
      BY DEF Proper, Calls, Ops, At, Places
    <3> QED
      BY <3>1, <3>2, EnterTyped
  <2>4. CASE Enter(p, [op |-> "clear", key |-> Nil, body |-> Nil], "clearmem")
    <3> DEFINE c == [op |-> "clear", key |-> Nil, body |-> Nil]
    <3>1. Proper(c) /\ At(c.op, "clearmem") /\ "clearmem" \in Places
      BY DEF Proper, Calls, Ops, At, Places
    <3> QED
      BY <2>4, <3>1, EnterTyped
  <2> QED
    BY <1>3, <2>1, <2>2, <2>3, <2>4 DEF Begin
<1>4. ASSUME NEW p \in Procs, SeedLoad(p) PROVE CallTyped'
  BY <1>1, <1>4, GotoTyped DEF SeedLoad, AfterSeed, At, Places
<1>5. ASSUME NEW p \in Procs, SeedWalk(p) PROVE CallTyped'
  BY <1>1, <1>5, GotoTyped DEF SeedWalk, AfterSeed, At, Places
<1>6. ASSUME NEW p \in Procs, SeedStore(p) PROVE CallTyped'
  BY <1>1, <1>6, GotoTyped DEF SeedStore, AfterSeed, At, Places
<1>7. ASSUME NEW p \in Procs, GetMeta(p) PROVE CallTyped'
  BY <1>1, <1>7, GotoTyped, FinishTyped DEF GetMeta, At, Places
<1>8. ASSUME NEW p \in Procs, GetMem(p) PROVE CallTyped'
  BY <1>1, <1>8, GotoTyped, FinishTyped DEF GetMem, At, Places
<1>9. ASSUME NEW p \in Procs, GetOpen(p) PROVE CallTyped'
  BY <1>1, <1>9, FinishTyped DEF GetOpen, At, Places
<1>10. ASSUME NEW p \in Procs, PutPass(p) PROVE CallTyped'
  BY <1>1, <1>10, FinishTyped DEF PutPass, At, Places
<1>11. ASSUME NEW p \in Procs, PutBroken(p) PROVE CallTyped'
  BY <1>1, <1>11, FinishTyped DEF PutBroken, At, Places
<1>12. ASSUME NEW p \in Procs, PutBuffered(p) PROVE CallTyped'
  <2>1. call[p].op = "put" /\ Proper([call[p] EXCEPT !.op = "buffered"])
    BY <1>1, <1>12 DEF PutBuffered, At, Proper, Calls, Ops
  <2>2. PICK x \in {"commit", "memput"} : Enter(p, [call[p] EXCEPT !.op = "buffered"], x)
    BY <1>12 DEF PutBuffered
  <2>3. [call[p] EXCEPT !.op = "buffered"].op = "buffered"
    BY <1>1 DEF Proper, Calls
  <2> QED
    BY <2>1, <2>2, <2>3, EnterTyped DEF At, Places
<1>13. ASSUME NEW p \in Procs, PutTee(p) PROVE CallTyped'
  <2>1. Proper([call[p] EXCEPT !.op = "tee"]) /\ [call[p] EXCEPT !.op = "tee"].op = "tee"
    BY <1>1, <1>13 DEF PutTee, At, Proper, Calls, Ops
  <2>2. Enter(p, [call[p] EXCEPT !.op = "tee"], "teecommit") \/ Finish(p, Is("passed"))
    BY <1>13 DEF PutTee
  <2> QED
    BY <2>1, <2>2, EnterTyped, FinishTyped DEF At, Places
<1>14. ASSUME NEW p \in Procs, Commit(p) PROVE CallTyped'
  BY <1>1, <1>14, GotoTyped, FinishTyped DEF Commit, At, Places
<1>15. ASSUME NEW p \in Procs, TeeCommit(p) PROVE CallTyped'
  BY <1>1, <1>15, GotoTyped, FinishTyped DEF TeeCommit, At, Places
<1>16. ASSUME NEW p \in Procs, TeeReinsert(p) PROVE CallTyped'
  BY <1>1, <1>16, GotoTyped DEF TeeReinsert, At, Places
<1>17. ASSUME NEW p \in Procs, TeeUnpublish(p) PROVE CallTyped'
  BY <1>1, <1>17, GotoTyped DEF TeeUnpublish, At, Places
<1>18. ASSUME NEW p \in Procs, TeeUnblob(p) PROVE CallTyped'
  BY <1>1, <1>18, FinishTyped DEF TeeUnblob, At, Places
<1>19. ASSUME NEW p \in Procs, Add(p) PROVE CallTyped'
  BY <1>1, <1>19, GotoTyped DEF Add, At, Places
<1>20. ASSUME NEW p \in Procs, MemPut(p) PROVE CallTyped'
  BY <1>1, <1>20, GotoTyped, FinishTyped DEF MemPut, At, Places
<1>21. ASSUME NEW p \in Procs, EvictLoad(p) PROVE CallTyped'
  BY <1>1, <1>21, GotoTyped, FinishTyped DEF EvictLoad, AfterEvict, At, Places
<1>22. ASSUME NEW p \in Procs, EvictWalk(p) PROVE CallTyped'
  BY <1>1, <1>22, GotoTyped DEF EvictWalk, At, Places
<1>23. ASSUME NEW p \in Procs, EvictStore(p) PROVE CallTyped'
  BY <1>1, <1>23, GotoTyped DEF EvictStore, At, Places
<1>24. ASSUME NEW p \in Procs, EvictRecheck(p) PROVE CallTyped'
  BY <1>1, <1>24, GotoTyped, FinishTyped DEF EvictRecheck, AfterEvict, At, Places
<1>25. ASSUME NEW p \in Procs, EvictTotal(p) PROVE CallTyped'
  BY <1>1, <1>25, GotoTyped DEF EvictTotal, At, Places
<1>26. ASSUME NEW p \in Procs, Sweep(p) PROVE CallTyped'
  BY <1>1, <1>26, GotoTyped DEF Sweep, At, Places
<1>27. ASSUME NEW p \in Procs, SweepBlob(p) PROVE CallTyped'
  BY <1>1, <1>27, GotoTyped DEF SweepBlob, At, Places
<1>28. ASSUME NEW p \in Procs, SweepEnd(p) PROVE CallTyped'
  BY <1>1, <1>28, GotoTyped, FinishTyped DEF SweepEnd, AfterEvict, At, Places
<1>29. ASSUME NEW p \in Procs, DelMem(p) PROVE CallTyped'
  BY <1>1, <1>29, GotoTyped, FinishTyped DEF DelMem, At, Places
<1>30. ASSUME NEW p \in Procs, DelMeta(p) PROVE CallTyped'
  BY <1>1, <1>30, GotoTyped, FinishTyped DEF DelMeta, At, Places
<1>31. ASSUME NEW p \in Procs, DelKey(p) PROVE CallTyped'
  BY <1>1, <1>31, GotoTyped DEF DelKey, At, Places
<1>32. ASSUME NEW p \in Procs, DelBlob(p) PROVE CallTyped'
  BY <1>1, <1>32, GotoTyped DEF DelBlob, At, Places
<1>33. ASSUME NEW p \in Procs, DelSub(p) PROVE CallTyped'
  BY <1>1, <1>33, FinishTyped DEF DelSub, At, Places
<1>34. ASSUME NEW p \in Procs, ClearMem(p) PROVE CallTyped'
  BY <1>1, <1>34, GotoTyped, FinishTyped DEF ClearMem, At, Places
<1>35. ASSUME NEW p \in Procs, ClearDisk(p) PROVE CallTyped'
  BY <1>1, <1>35, GotoTyped DEF ClearDisk, At, Places
<1>36. ASSUME NEW p \in Procs, ClearStore(p) PROVE CallTyped'
  BY <1>1, <1>36, FinishTyped DEF ClearStore, At, Places
<1>37. ASSUME NEW k \in Keys, MemEvicts(k) PROVE CallTyped'
  BY <1>37 DEF MemEvicts, control, CallTyped
<1>38. CASE Restart
  <2>1. NoCall \in Calls /\ Proper(NoCall) /\ At(NoCall.op, "idle") /\ "idle" \in Places
    BY DEF NoCall, Proper, Calls, Ops, At, Places
  <2> QED
    BY <1>38, <2>1 DEF Restart, CallTyped
<1> QED
  BY <1>2, <1>3, <1>4, <1>5, <1>6, <1>7, <1>8, <1>9, <1>10, <1>11, <1>12, <1>13,
     <1>14, <1>15, <1>16, <1>17, <1>18, <1>19, <1>20, <1>21, <1>22, <1>23, <1>24,
     <1>25, <1>26, <1>27, <1>28, <1>29, <1>30, <1>31, <1>32, <1>33, <1>34, <1>35,
     <1>36, <1>37, <1>38 DEF Next, Step

\* Every step leaves the store of its type.
LEMMA StoreSteps == TypeInv /\ [Next]_vars => StoreTyped'
<1> SUFFICES ASSUME TypeInv, [Next]_vars PROVE StoreTyped'
  OBVIOUS
<1>1. /\ index \in Seq(Entry) /\ blobs \subseteq Bodies
      /\ mem \in [Keys -> Bodies \cup {Nil}] /\ bytes \in Nat /\ seeded \in BOOLEAN
      /\ sum \in [Procs -> Nat] /\ todo \in [Procs -> Seq(Entry)]
  BY DEF TypeInv, StoreTyped, ScanTyped
<1>2. ASSUME NEW p \in Procs
      PROVE  /\ call[p].op \in {"put", "buffered", "tee", "delete"} => call[p].key \in Keys
             /\ call[p].op \in {"put", "buffered", "tee"} => call[p].body \in Bodies
             /\ At(call[p].op, pc[p])
  BY <1>2 DEF TypeInv, CallTyped, Proper
<1>3. ASSUME NEW b \in Bodies PROVE Size[b] \in Nat
  BY CacheAssumption
<1>4. ASSUME UNCHANGED <<disk, mem, counter>> PROVE StoreTyped'
  BY <1>1, <1>4 DEF StoreTyped, disk, counter
<1>5. ASSUME NEW p \in Procs,
             \/ Begin(p) \/ SeedLoad(p) \/ SeedWalk(p) \/ GetMeta(p) \/ GetMem(p) \/ GetOpen(p)
             \/ PutPass(p) \/ PutBroken(p) \/ PutBuffered(p) \/ PutTee(p)
             \/ EvictLoad(p) \/ EvictWalk(p) \/ EvictRecheck(p) \/ EvictTotal(p) \/ DelMeta(p)
      PROVE  StoreTyped'
  BY <1>4, <1>5 DEF Begin, SeedLoad, SeedWalk, GetMeta, GetMem, GetOpen, PutPass, PutBroken,
     PutBuffered, PutTee, EvictLoad, EvictWalk, EvictRecheck, EvictTotal, DelMeta
<1>6. CASE UNCHANGED vars
  BY <1>4, <1>6 DEF vars
<1>7. ASSUME NEW p \in Procs, SeedStore(p) PROVE StoreTyped'
  BY <1>1, <1>7 DEF SeedStore, StoreTyped, disk
<1>8. ASSUME NEW p \in Procs, Commit(p) PROVE StoreTyped'
  <2>1. call[p].key \in Keys /\ call[p].body \in Bodies
    BY <1>2, <1>8 DEF Commit, At
  <2>2. Insert(call[p].key, call[p].body, TRUE) \in Seq(Entry)
    BY <1>1, <2>1, Inserts
  <2> QED
    BY <1>1, <1>8, <2>1, <2>2 DEF Commit, StoreTyped, counter
<1>9. ASSUME NEW p \in Procs, TeeCommit(p) PROVE StoreTyped'
  <2>1. call[p].key \in Keys /\ call[p].body \in Bodies
    BY <1>2, <1>9 DEF TeeCommit, At
  <2>2. Insert(call[p].key, call[p].body, FALSE) \in Seq(Entry)
    BY <1>1, <2>1, Inserts
  <2> QED
    BY <1>1, <1>9, <2>1, <2>2 DEF TeeCommit, StoreTyped, counter
<1>10. ASSUME NEW p \in Procs, TeeReinsert(p) PROVE StoreTyped'
  <2>1. call[p].key \in Keys /\ call[p].body \in Bodies
    BY <1>2, <1>10 DEF TeeReinsert, At
  <2>2. Insert(call[p].key, call[p].body, TRUE) \in Seq(Entry)
    BY <1>1, <2>1, Inserts
  <2> QED
    BY <1>1, <1>10, <2>2 DEF TeeReinsert, StoreTyped, counter
<1>11. ASSUME NEW p \in Procs, TeeUnpublish(p) PROVE StoreTyped'
  <2>1. Without(call[p].key) \in Seq(Entry)
    BY <1>1, Takes
  <2> QED
    BY <1>1, <1>11, <2>1 DEF TeeUnpublish, RemoveKey, StoreTyped, counter
<1>12. ASSUME NEW p \in Procs, TeeUnblob(p) PROVE StoreTyped'
  BY <1>1, <1>12 DEF TeeUnblob, RemoveHash, StoreTyped, counter
<1>13. ASSUME NEW p \in Procs, Add(p) PROVE StoreTyped'
  <2>1. SizeOf(p) \in Nat
    BY <1>2, <1>3, <1>13 DEF Add, At, SizeOf
  <2> QED
    BY <1>1, <1>13, <2>1 DEF Add, StoreTyped, disk
<1>14. ASSUME NEW p \in Procs, MemPut(p) PROVE StoreTyped'
  <2>1. call[p].key \in Keys /\ call[p].body \in Bodies
    BY <1>2, <1>14 DEF MemPut, At
  <2> QED
    BY <1>1, <1>14, <2>1 DEF MemPut, StoreTyped, disk, counter
<1>15. ASSUME NEW p \in Procs, EvictStore(p) PROVE StoreTyped'
  BY <1>1, <1>15 DEF EvictStore, StoreTyped, disk
<1>16. ASSUME NEW p \in Procs, Sweep(p) PROVE StoreTyped'
  <2>1. Without(Head(todo[p]).key) \in Seq(Entry)
    BY <1>1, Takes
  <2> QED
    BY <1>1, <1>16, <2>1 DEF Sweep, RemoveKey, StoreTyped, counter
<1>17. ASSUME NEW p \in Procs, SweepBlob(p) PROVE StoreTyped'
  BY <1>1, <1>17 DEF SweepBlob, RemoveHash, StoreTyped, counter
<1>18. ASSUME NEW p \in Procs, SweepEnd(p) PROVE StoreTyped'
  BY <1>1, <1>18 DEF SweepEnd, StoreTyped, disk
<1>19. ASSUME NEW p \in Procs, DelMem(p) PROVE StoreTyped'
  BY <1>1, <1>19 DEF DelMem, StoreTyped, disk, counter
<1>20. ASSUME NEW p \in Procs, DelKey(p) PROVE StoreTyped'
  <2>1. Without(call[p].key) \in Seq(Entry)
    BY <1>1, Takes
  <2> QED
    BY <1>1, <1>20, <2>1 DEF DelKey, RemoveKey, StoreTyped, counter
<1>21. ASSUME NEW p \in Procs, DelBlob(p) PROVE StoreTyped'
  BY <1>1, <1>21 DEF DelBlob, RemoveHash, StoreTyped, counter
<1>22. ASSUME NEW p \in Procs, DelSub(p) PROVE StoreTyped'
  <2>1. EntrySize(Head(todo[p])) \in Nat
    <3>1. todo[p] # <<>> /\ todo[p] \in Seq(Entry)
      BY <1>1, <1>22 DEF DelSub, TypeInv, ScanTyped, Reading
    <3>2. 1 \in 1 .. Len(todo[p]) /\ Head(todo[p]) = todo[p][1]
      BY <3>1
    <3> QED
      BY <3>1, <3>2, SizesTyped
  <2> QED
    BY <1>1, <1>22, <2>1 DEF DelSub, StoreTyped, disk
<1>23. ASSUME NEW p \in Procs, ClearMem(p) PROVE StoreTyped'
  BY <1>1, <1>23 DEF ClearMem, StoreTyped, disk, counter
<1>24. ASSUME NEW p \in Procs, ClearDisk(p) PROVE StoreTyped'
  <2>1. index' \in Seq(Entry) /\ blobs' \subseteq Bodies
    <3>1. (index' = <<>> /\ blobs' = {}) \/ (index' = index /\ blobs' = blobs)
      BY <1>24 DEF ClearDisk, disk
    <3>2. <<>> \in Seq(Entry) /\ {} \subseteq Bodies
      OBVIOUS
    <3>3. index \in Seq(Entry) /\ blobs \subseteq Bodies
      BY <1>1
    <3> QED
      BY <3>1, <3>2, <3>3, Zenon
  <2> QED
    BY <1>1, <1>24, <2>1 DEF ClearDisk, StoreTyped, counter
<1>25. ASSUME NEW p \in Procs, ClearStore(p) PROVE StoreTyped'
  BY <1>1, <1>25 DEF ClearStore, StoreTyped, disk
<1>26. ASSUME NEW k \in Keys, MemEvicts(k) PROVE StoreTyped'
  BY <1>1, <1>26 DEF MemEvicts, StoreTyped, disk, counter
<1>27. CASE Restart
  BY <1>1, <1>27 DEF Restart, StoreTyped, disk
<1> QED
  BY <1>5, <1>6, <1>7, <1>8, <1>9, <1>10, <1>11, <1>12, <1>13, <1>14, <1>15, <1>16,
     <1>17, <1>18, <1>19, <1>20, <1>21, <1>22, <1>23, <1>24, <1>25, <1>26, <1>27
     DEF Next, Step

\* Every step leaves what a call has read of its type, and a place that works on an
\* entry with one.
LEMMA ScanSteps == TypeInv /\ [Next]_vars => ScanTyped'
<1> SUFFICES ASSUME TypeInv, [Next]_vars PROVE ScanTyped'
  OBVIOUS
<1>1. /\ index \in Seq(Entry) /\ bytes \in Nat
      /\ todo \in [Procs -> Seq(Entry)] /\ sum \in [Procs -> Nat] /\ pc \in [Procs -> Places]
      /\ \A p \in Procs : pc[p] \in Reading => todo[p] # <<>>
  BY DEF TypeInv, StoreTyped, ScanTyped, CallTyped
<1>2. BytesOf(index) \in Nat
  BY <1>1, SizesTyped
<1>3. ASSUME NEW p \in Procs, todo[p] # <<>>
      PROVE  /\ Head(todo[p]) \in Entry /\ Tail(todo[p]) \in Seq(Entry)
             /\ EntrySize(Head(todo[p])) \in Nat
  <2>1. todo[p] \in Seq(Entry) /\ 1 \in 1 .. Len(todo[p]) /\ Head(todo[p]) = todo[p][1]
    BY <1>1, <1>3
  <2> QED
    BY <2>1, <1>3, SizesTyped
<1>4. ASSUME NEW k, Find(k) # 0 PROVE <<index[Find(k)]>> \in Seq(Entry) /\ <<index[Find(k)]>> # <<>>
  <2>1. index[Find(k)] \in Entry
    BY <1>1, <1>4, Finds
  <2> QED
    BY <2>1
<1>5. ASSUME NEW p \in Procs, NEW x \in Places, pc' = [pc EXCEPT ![p] = x], UNCHANGED scan,
             x \notin Reading \/ pc[p] \in Reading
      PROVE  ScanTyped'
  BY <1>1, <1>5 DEF ScanTyped, scan
<1>6. ASSUME NEW p \in Procs, NEW x \in Places \ Reading, pc' = [pc EXCEPT ![p] = x],
             UNCHANGED todo, NEW n \in Nat, sum' = [sum EXCEPT ![p] = n]
      PROVE  ScanTyped'
  BY <1>1, <1>6 DEF ScanTyped
<1>7. ASSUME NEW p \in Procs, NEW x \in Places, pc' = [pc EXCEPT ![p] = x],
             NEW s \in Seq(Entry), todo' = [todo EXCEPT ![p] = s],
             sum' \in [Procs -> Nat], x \notin Reading \/ s # <<>>
      PROVE  ScanTyped'
  BY <1>1, <1>7 DEF ScanTyped
<1>8. {"seeding", "meta", "put", "restore", "idle", "seed", "delmem", "clearmem", "commit", "memput",
       "teecommit", "add", "reinsert", "unpublish", "unblob", "evict", "resync", "recheck", "total",
       "sweep", "delmeta", "clearing", "clearstore"} \subseteq Places \ Reading
  BY DEF Places, Reading
<1>9. CASE UNCHANGED vars
  BY <1>1, <1>9 DEF vars, control, scan, ScanTyped
<1>10. ASSUME NEW p \in Procs, Begin(p) PROVE ScanTyped'
  BY <1>5, <1>8, <1>10 DEF Begin, Enter
<1>11. ASSUME NEW p \in Procs, SeedLoad(p) PROVE ScanTyped'
  BY <1>5, <1>8, <1>11 DEF SeedLoad, Goto, AfterSeed
<1>12. ASSUME NEW p \in Procs, PutPass(p) PROVE ScanTyped'
  BY <1>5, <1>8, <1>12 DEF PutPass, Finish
<1>13. ASSUME NEW p \in Procs, PutBroken(p) PROVE ScanTyped'
  BY <1>5, <1>8, <1>13 DEF PutBroken, Finish
<1>14. ASSUME NEW p \in Procs, PutBuffered(p) PROVE ScanTyped'
  BY <1>5, <1>8, <1>14 DEF PutBuffered, Enter
<1>15. ASSUME NEW p \in Procs, PutTee(p) PROVE ScanTyped'
  BY <1>5, <1>8, <1>15 DEF PutTee, Enter, Finish
<1>16. ASSUME NEW p \in Procs, Commit(p) PROVE ScanTyped'
  <2>1. UNCHANGED scan /\ (Goto(p, "add") \/ Finish(p, Is("failed")))
    BY <1>16 DEF Commit
  <2> QED
    BY <1>5, <1>8, <2>1 DEF Goto, Finish
<1>17. ASSUME NEW p \in Procs, TeeCommit(p) PROVE ScanTyped'
  <2>1. UNCHANGED scan /\ (Goto(p, "reinsert") \/ Finish(p, Is("failed")))
    BY <1>17 DEF TeeCommit
  <2> QED
    BY <1>5, <1>8, <2>1 DEF Goto, Finish
<1>18. ASSUME NEW p \in Procs, TeeReinsert(p) PROVE ScanTyped'
  BY <1>5, <1>8, <1>18 DEF TeeReinsert, Goto
<1>19. ASSUME NEW p \in Procs, TeeUnpublish(p) PROVE ScanTyped'
  BY <1>5, <1>8, <1>19 DEF TeeUnpublish, Goto
<1>20. ASSUME NEW p \in Procs, TeeUnblob(p) PROVE ScanTyped'
  BY <1>5, <1>8, <1>20 DEF TeeUnblob, Finish
<1>21. ASSUME NEW p \in Procs, Add(p) PROVE ScanTyped'
  BY <1>5, <1>8, <1>21 DEF Add, Goto
<1>22. ASSUME NEW p \in Procs, MemPut(p) PROVE ScanTyped'
  BY <1>5, <1>8, <1>22 DEF MemPut, Goto, Finish
<1>23. ASSUME NEW p \in Procs, EvictLoad(p) PROVE ScanTyped'
  BY <1>5, <1>8, <1>23 DEF EvictLoad, AfterEvict, Goto, Finish
<1>24. ASSUME NEW p \in Procs, EvictStore(p) PROVE ScanTyped'
  BY <1>5, <1>8, <1>24 DEF EvictStore, Goto
<1>25. ASSUME NEW p \in Procs, Sweep(p) PROVE ScanTyped'
  <2>1. todo[p] # <<>> /\ UNCHANGED scan /\ pc' = [pc EXCEPT ![p] = "sweepblob"]
    BY <1>25 DEF Sweep, Goto
  <2> QED
    BY <1>1, <2>1 DEF ScanTyped, scan, Places
<1>26. ASSUME NEW p \in Procs, DelMem(p) PROVE ScanTyped'
  BY <1>5, <1>8, <1>26 DEF DelMem, Goto, Finish
<1>27. ASSUME NEW p \in Procs, DelKey(p) PROVE ScanTyped'
  BY <1>5, <1>27 DEF DelKey, Goto, Places, Reading
<1>28. ASSUME NEW p \in Procs, DelBlob(p) PROVE ScanTyped'
  BY <1>5, <1>28 DEF DelBlob, Goto, Places, Reading
<1>29. ASSUME NEW p \in Procs, ClearMem(p) PROVE ScanTyped'
  BY <1>5, <1>8, <1>29 DEF ClearMem, Goto, Finish
<1>30. ASSUME NEW p \in Procs, ClearDisk(p) PROVE ScanTyped'
  BY <1>5, <1>8, <1>30 DEF ClearDisk, Goto
<1>31. ASSUME NEW p \in Procs, ClearStore(p) PROVE ScanTyped'
  BY <1>5, <1>8, <1>31 DEF ClearStore, Finish
<1>32. ASSUME NEW p \in Procs, SeedWalk(p) PROVE ScanTyped'
  <2>1. CASE seeded
    BY <1>5, <1>8, <1>32, <2>1 DEF SeedWalk, Goto, AfterSeed, scan
  <2>2. CASE ~seeded
    BY <1>2, <1>6, <1>8, <1>32, <2>2 DEF SeedWalk, Goto
  <2> QED
    BY <2>1, <2>2
<1>33. ASSUME NEW p \in Procs, SeedStore(p) PROVE ScanTyped'
  BY <1>6, <1>8, <1>33 DEF SeedStore, Goto, AfterSeed
<1>34. ASSUME NEW p \in Procs, GetMeta(p) PROVE ScanTyped'
  <2>1. CASE HasDisk /\ Find(call[p].key) # 0 /\ index[Find(call[p].key)].done
    <3>1. /\ todo' = [todo EXCEPT ![p] = <<index[Find(call[p].key)]>>] /\ UNCHANGED sum
          /\ pc' = [pc EXCEPT ![p] = "readmem"] /\ "readmem" \in Places
      BY <1>34, <2>1 DEF GetMeta, Goto, Places
    <3> QED
      BY <1>1, <1>4, <1>7, <2>1, <3>1
  <2>2. CASE ~(HasDisk /\ Find(call[p].key) # 0 /\ index[Find(call[p].key)].done)
    BY <1>5, <1>8, <1>34, <2>2 DEF GetMeta, Finish, scan
  <2> QED
    BY <2>1, <2>2
<1>35. ASSUME NEW p \in Procs, GetMem(p) PROVE ScanTyped'
  <2>1. CASE mem[call[p].key] # Nil
    <3>1. <<>> \in Seq(Entry)
      OBVIOUS
    <3> QED
      BY <1>1, <1>7, <1>8, <1>35, <2>1, <3>1 DEF GetMem, Finish
  <2>2. CASE ~(mem[call[p].key] # Nil)
    BY <1>5, <1>35, <2>2 DEF GetMem, Goto, Places, Reading, scan
  <2> QED
    BY <2>1, <2>2
<1>36. ASSUME NEW p \in Procs, GetOpen(p) PROVE ScanTyped'
  <2>1. <<>> \in Seq(Entry)
    OBVIOUS
  <2> QED
    BY <1>1, <1>7, <1>8, <1>36, <2>1 DEF GetOpen, Finish
<1>37. ASSUME NEW p \in Procs, EvictWalk(p) PROVE ScanTyped'
  BY <1>2, <1>6, <1>8, <1>37 DEF EvictWalk, Goto
<1>38. ASSUME NEW p \in Procs, EvictRecheck(p) PROVE ScanTyped'
  <2>1. CASE bytes <= MaxBytes
    BY <1>6, <1>8, <1>38, <2>1 DEF EvictRecheck, AfterEvict, Goto, Finish
  <2>2. CASE ~(bytes <= MaxBytes)
    BY <1>1, <1>7, <1>8, <1>38, <2>2 DEF EvictRecheck, Goto
  <2> QED
    BY <2>1, <2>2
<1>39. ASSUME NEW p \in Procs, EvictTotal(p) PROVE ScanTyped'
  BY <1>1, <1>6, <1>8, <1>39 DEF EvictTotal, Goto
<1>40. ASSUME NEW p \in Procs, SweepBlob(p) PROVE ScanTyped'
  <2> DEFINE e == Head(todo[p])
  <2>1. todo[p] # <<>>
    BY <1>1, <1>40 DEF SweepBlob, Reading
  <2>2. e \in Entry /\ EntrySize(e) \in Nat /\ Tail(todo[p]) \in Seq(Entry) /\ sum[p] \in Nat
    BY <1>1, <1>3, <2>1
  <2>3. /\ pc' = [pc EXCEPT ![p] = "sweep"] /\ todo' = [todo EXCEPT ![p] = Tail(todo[p])]
        /\ sum' = [sum EXCEPT ![p] = IF sum[p] > EntrySize(e) THEN sum[p] - EntrySize(e) ELSE 0]
    BY <1>40 DEF SweepBlob, Goto
  <2> HIDE DEF e
  <2>4. sum' \in [Procs -> Nat]
    BY <1>1, <2>2, <2>3
  <2> QED
    BY <1>7, <1>8, <2>2, <2>3, <2>4
<1>41. ASSUME NEW p \in Procs, SweepEnd(p) PROVE ScanTyped'
  <2>1. <<>> \in Seq(Entry) /\ sum' \in [Procs -> Nat]
    BY <1>1, <1>41 DEF SweepEnd
  <2> QED
    BY <1>7, <1>8, <1>41, <2>1 DEF SweepEnd, AfterEvict, Goto, Finish
<1>42. ASSUME NEW p \in Procs, DelMeta(p) PROVE ScanTyped'
  <2>1. CASE Find(call[p].key) # 0
    <3>1. /\ todo' = [todo EXCEPT ![p] = <<index[Find(call[p].key)]>>] /\ UNCHANGED sum
          /\ pc' = [pc EXCEPT ![p] = "delkey"] /\ "delkey" \in Places
      BY <1>42, <2>1 DEF DelMeta, Goto, Places
    <3> QED
      BY <1>1, <1>4, <1>7, <2>1, <3>1
  <2>2. CASE ~(Find(call[p].key) # 0)
    BY <1>5, <1>8, <1>42, <2>2 DEF DelMeta, Finish, scan
  <2> QED
    BY <2>1, <2>2
<1>43. ASSUME NEW p \in Procs, DelSub(p) PROVE ScanTyped'
  <2>1. <<>> \in Seq(Entry)
    OBVIOUS
  <2> QED
    BY <1>1, <1>7, <1>8, <1>43, <2>1 DEF DelSub, Finish
<1>44. ASSUME NEW k \in Keys, MemEvicts(k) PROVE ScanTyped'
  BY <1>1, <1>44 DEF MemEvicts, control, scan, ScanTyped
<1>45. CASE Restart
  <2>1. <<>> \in Seq(Entry) /\ "idle" \notin Reading
    BY DEF Reading
  <2> QED
    BY <1>45, <2>1 DEF Restart, ScanTyped
<1> QED
  BY <1>9, <1>10, <1>11, <1>12, <1>13, <1>14, <1>15, <1>16, <1>17, <1>18, <1>19, <1>20,
     <1>21, <1>22, <1>23, <1>24, <1>25, <1>26, <1>27, <1>28, <1>29, <1>30, <1>31,
     <1>32, <1>33, <1>34, <1>35, <1>36, <1>37, <1>38, <1>39, <1>40, <1>41, <1>42,
     <1>43, <1>44, <1>45 DEF Next, Step

\* Every step leaves each call with a result of its type.
LEMMA ResultSteps == TypeInv /\ [Next]_vars => ResultTyped'
<1> SUFFICES ASSUME TypeInv, [Next]_vars PROVE ResultTyped'
  OBVIOUS
<1>1. result \in [Procs -> Results]
  BY DEF TypeInv, ResultTyped
<1>2. \A o \in Outcomes : Is(o) \in Results
  BY DEF Is, Results
<1>3. ASSUME NEW p \in Procs, NEW r \in Results, result' = [result EXCEPT ![p] = r]
      PROVE  ResultTyped'
  BY <1>1, <1>3 DEF ResultTyped
<1>4. CASE UNCHANGED result
  BY <1>1, <1>4 DEF ResultTyped
<1>5. ASSUME NEW p \in Procs, NEW o \in Outcomes, Finish(p, Is(o)) PROVE ResultTyped'
  BY <1>2, <1>3, <1>5 DEF Finish
<1>6. CASE UNCHANGED vars
  BY <1>4, <1>6 DEF vars, control
<1>7. ASSUME NEW p \in Procs, Begin(p) \/ PutBuffered(p) \/ PutTee(p) PROVE ResultTyped'
  <2>1. Is("none") \in Results /\ "passed" \in Outcomes
    BY <1>2 DEF Outcomes
  <2>2. result' = [result EXCEPT ![p] = Is("none")] \/ Finish(p, Is("passed"))
    BY <1>7 DEF Begin, PutBuffered, PutTee, Enter
  <2> QED
    BY <1>3, <1>5, <2>1, <2>2
<1>8. ASSUME NEW p \in Procs,
             \/ SeedLoad(p) \/ SeedWalk(p) \/ SeedStore(p) \/ TeeReinsert(p) \/ TeeUnpublish(p)
             \/ Add(p) \/ EvictWalk(p) \/ EvictStore(p) \/ EvictTotal(p) \/ Sweep(p) \/ SweepBlob(p)
             \/ DelKey(p) \/ DelBlob(p) \/ ClearDisk(p)
      PROVE  ResultTyped'
  <2>1. UNCHANGED result
    BY <1>8 DEF SeedLoad, SeedWalk, SeedStore, TeeReinsert, TeeUnpublish, Add, EvictWalk,
       EvictStore, EvictTotal, Sweep, SweepBlob, DelKey, DelBlob, ClearDisk, Goto
  <2> QED
    BY <1>4, <2>1
<1>9. ASSUME NEW p \in Procs,
             \/ GetMeta(p) \/ PutPass(p) \/ PutBroken(p) \/ Commit(p) \/ TeeCommit(p) \/ TeeUnblob(p)
             \/ MemPut(p) \/ EvictLoad(p) \/ EvictRecheck(p) \/ SweepEnd(p) \/ DelMem(p) \/ DelMeta(p)
             \/ DelSub(p) \/ ClearMem(p) \/ ClearStore(p)
      PROVE  ResultTyped'
  <2>1. {"miss", "passed", "failed", "stored", "kept", "done"} \subseteq Outcomes
    BY DEF Outcomes
  <2> DEFINE Ends == \E o \in {"miss", "passed", "failed", "stored", "kept", "done"} : Finish(p, Is(o))
  <2>2. UNCHANGED result \/ Ends
    <3>1. ASSUME GetMeta(p) \/ DelMem(p) \/ DelMeta(p) \/ ClearMem(p) \/ PutPass(p) \/ PutBroken(p)
          PROVE  UNCHANGED result \/ Ends
      BY <3>1 DEF GetMeta, DelMem, DelMeta, ClearMem, PutPass, PutBroken, Goto
    <3>2. ASSUME EvictLoad(p) \/ EvictRecheck(p) \/ SweepEnd(p) \/ MemPut(p)
          PROVE  UNCHANGED result \/ Ends
      BY <3>2 DEF EvictLoad, EvictRecheck, SweepEnd, MemPut, AfterEvict, Goto
    <3>3. ASSUME Commit(p) \/ TeeCommit(p) PROVE UNCHANGED result \/ Ends
      BY <3>3 DEF Commit, TeeCommit, Goto
    <3>4. ASSUME TeeUnblob(p) \/ DelSub(p) \/ ClearStore(p) PROVE UNCHANGED result \/ Ends
      BY <3>4 DEF TeeUnblob, DelSub, ClearStore
    <3> QED
      BY <1>9, <3>1, <3>2, <3>3, <3>4
  <2> QED
    BY <1>4, <1>5, <2>1, <2>2
<1>10. ASSUME NEW p \in Procs, GetMem(p) PROVE ResultTyped'
  <2>1. CASE mem[call[p].key] # Nil
    <3>1. Head(todo[p]).body \in Bodies
      <4>1. todo[p] \in Seq(Entry) /\ todo[p] # <<>>
        BY <1>10 DEF GetMem, TypeInv, ScanTyped, Reading
      <4>2. Head(todo[p]) \in Entry
        BY <4>1
      <4> QED
        BY <4>2 DEF Entry
    <3>2. call[p].key \in Keys /\ mem \in [Keys -> Bodies \cup {Nil}]
      BY <1>10 DEF GetMem, TypeInv, CallTyped, StoreTyped, Proper, At
    <3>3. mem[call[p].key] \in Bodies /\ Size[mem[call[p].key]] \in Nat
      BY <2>1, <3>2, CacheAssumption
    <3>4. Hit("mem", Head(todo[p]).body, mem[call[p].key], Size[mem[call[p].key]]) \in Results
      BY <3>1, <3>3 DEF Hit, Results, Outcomes
    <3> QED
      BY <1>3, <1>10, <2>1, <3>4 DEF GetMem, Finish
  <2>2. CASE ~(mem[call[p].key] # Nil)
    BY <1>4, <1>10, <2>2 DEF GetMem, Goto
  <2> QED
    BY <2>1, <2>2
<1>11. ASSUME NEW p \in Procs, GetOpen(p) PROVE ResultTyped'
  <2> DEFINE e == Head(todo[p])
  <2>1. e.body \in Bodies /\ EntrySize(e) \in Nat
    <3>1. todo[p] \in Seq(Entry) /\ todo[p] # <<>>
      BY <1>11 DEF GetOpen, TypeInv, ScanTyped, Reading
    <3>2. e \in Entry /\ e = todo[p][1] /\ 1 \in 1 .. Len(todo[p])
      BY <3>1
    <3>3. EntrySize(e) \in Nat
      BY <3>1, <3>2, SizesTyped
    <3> QED
      BY <3>2, <3>3 DEF Entry
  <2>2. Hit("disk", e.body, e.body, EntrySize(e)) \in Results /\ Is("miss") \in Results
    BY <1>2, <2>1 DEF Hit, Results, Outcomes
  <2>3. Finish(p, IF e.body \in blobs THEN Hit("disk", e.body, e.body, EntrySize(e)) ELSE Is("miss"))
    BY <1>11 DEF GetOpen
  <2> HIDE DEF e
  <2> QED
    BY <1>3, <2>2, <2>3 DEF Finish
<1>12. ASSUME NEW k \in Keys, MemEvicts(k) PROVE ResultTyped'
  BY <1>4, <1>12 DEF MemEvicts, control
<1>13. CASE Restart
  <2>1. Is("none") \in Results
    BY <1>2 DEF Outcomes
  <2> QED
    BY <1>13, <2>1 DEF Restart, ResultTyped
<1> QED
  BY <1>6, <1>7, <1>8, <1>9, <1>10, <1>11, <1>12, <1>13 DEF Next, Step

\* The first state is of its types.
LEMMA InitTyped == Init => TypeInv
<1> SUFFICES ASSUME Init PROVE TypeInv
  OBVIOUS
<1>1. <<>> \in Seq(Entry)
  OBVIOUS
<1>2. NoCall \in Calls /\ Proper(NoCall) /\ At(NoCall.op, "idle") /\ "idle" \in Places \ Reading
  BY DEF NoCall, Proper, Calls, Ops, At, Places, Reading
<1>3. Is("none") \in Results
  BY DEF Is, Results, Outcomes
<1>4. StoreTyped /\ CallTyped /\ ScanTyped /\ ResultTyped
  BY <1>1, <1>2, <1>3 DEF Init, StoreTyped, CallTyped, ScanTyped, ResultTyped
<1> QED
  BY <1>4 DEF TypeInv

\* And every step leaves them.
LEMMA TypeSteps == TypeInv /\ [Next]_vars => TypeInv'
  BY StoreSteps, CallSteps, ScanSteps, ResultSteps DEF TypeInv

\* Every variable keeps its type, whatever calls, faults and restarts there are: the
\* counter is a number that no sequence of subtractions takes below zero
\* (cache.rs:229-231, the saturating sub), a call that works on an entry has read one,
\* and the lock's queue has calls in it.
THEOREM TypeCorrect == Spec => []TypeOK
<1>1. Init => LockInv
  BY LockStarts
<1>2. TypeInv /\ LockInv => TypeOK
  BY DEF TypeInv, StoreTyped, CallTyped, ScanTyped, ResultTyped, LockInv, QueueInv, TypeOK,
     Calls, Results
<1> QED
  BY <1>1, <1>2, InitTyped, TypeSteps, LockSteps, PTL DEF Spec

-----------------------------------------------------------------------------
(* One call at a time.                                                     *)

\* What a put has stored and not counted yet, and what a delete has taken and still
\* counts.
Owed(p) == IF pc[p] = "add" THEN SizeOf(p) ELSE 0
Taken(p) == IF pc[p] \in {"delblob", "delsub"} THEN EntrySize(Head(todo[p])) ELSE 0

\* Once seeded, the counter covers the index but for that.
Covers(p) == seeded => bytes + Owed(p) >= BytesOf(index) + Taken(p)

\* A put goes to the disk with the counter seeded, and its commit does not fail.
Ready(p) ==
    /\ pc[p] \notin {"unpublish", "unblob"}
    /\ pc[p] = "put" => seeded \/ ~HasDisk
    /\ pc[p] \in {"commit", "teecommit", "reinsert", "add", "evict", "resync", "recheck",
                  "total", "sweep", "sweepblob"} => seeded
    /\ pc[p] \in {"restore", "memput"} /\ call[p].op = "tee" => seeded
    /\ pc[p] = "restore" /\ call[p].op = "buffered" => seeded
    /\ pc[p] = "memput" /\ call[p].op = "buffered" /\ FitsDisk(call[p].body)
       => BytesOf(index) <= MaxBytes

\* What a call has read is still so.
Fresh(p) ==
    /\ pc[p] = "restore" => sum[p] = BytesOf(index)
    /\ pc[p] \in {"recheck", "total"} => bytes = BytesOf(index)
    /\ pc[p] \in {"total", "sweep"} => todo[p] = index
    /\ pc[p] = "sweep" => sum[p] = BytesOf(index)
    /\ pc[p] = "sweepblob" => /\ index = Tail(todo[p])
                              /\ sum[p] = BytesOf(index) + EntrySize(Head(todo[p]))
    /\ pc[p] = "delkey" => \E i \in 1 .. Len(index) : /\ index[i].key = call[p].key
                                                     /\ todo[p] = <<index[i]>>
    /\ pc[p] = "clearstore" => index = <<>>

\* A put that stored has left the index within the budget.
Stored(p) == result[p].as = "stored" => pc[p] = "idle" /\ BytesOf(index) <= MaxBytes

Alone(p) == OneEach(index) /\ Covers(p) /\ Ready(p) /\ Fresh(p) /\ Stored(p)

\* A step of the only call, no call to cacache failing.
LEMMA AloneSteps ==
    ASSUME NEW me, Procs = {me}, ~Faults, TypeInv, Alone(me), [Next]_vars
    PROVE  Alone(me)'
<1> DEFINE S == BytesOf(index)
<1>1. /\ index \in Seq(Entry) /\ bytes \in Nat /\ seeded \in BOOLEAN
      /\ todo \in [Procs -> Seq(Entry)] /\ sum \in [Procs -> Nat] /\ pc \in [Procs -> Places]
      /\ pc[me] \in Reading => todo[me] # <<>>
      /\ call \in [Procs -> Calls] /\ result \in [Procs -> Results]
  BY DEF TypeInv, StoreTyped, ScanTyped, CallTyped, ResultTyped
<1>2. /\ call[me].op \in {"put", "buffered", "tee", "delete"} => call[me].key \in Keys
      /\ call[me].op \in {"put", "buffered", "tee"} => call[me].body \in Bodies
      /\ At(call[me].op, pc[me])
  BY DEF TypeInv, CallTyped, Proper
<1>3. /\ S \in Nat /\ MaxBytes \in Nat
      /\ OneEach(index) /\ Covers(me) /\ Ready(me) /\ Fresh(me) /\ Stored(me)
  BY <1>1, SizesTyped, CacheAssumption DEF Alone
<1> USE DEF Alone, Covers, Ready, Fresh, Stored, Owed, Taken, SizeOf, disk, counter, scan
<1>4. CASE UNCHANGED <<disk, counter, control, scan>>
  BY <1>3, <1>4 DEF control
<1>5. ASSUME Begin(me) PROVE Alone(me)'
  BY <1>1, <1>3, <1>5 DEF Begin, Enter, Is
<1>6. ASSUME SeedLoad(me) PROVE Alone(me)'
  BY <1>1, <1>2, <1>3, <1>6 DEF SeedLoad, AfterSeed, Goto, At
<1>7. ASSUME SeedWalk(me) PROVE Alone(me)'
  BY <1>1, <1>2, <1>3, <1>7 DEF SeedWalk, AfterSeed, Goto, At
<1>8. ASSUME SeedStore(me) PROVE Alone(me)'
  BY <1>1, <1>2, <1>3, <1>8 DEF SeedStore, AfterSeed, Goto, At
<1>9. ASSUME GetMeta(me) PROVE Alone(me)'
  BY <1>1, <1>2, <1>3, <1>9 DEF GetMeta, Goto, Finish, Is, Hit, NoCall, At
<1>10. ASSUME GetMem(me) PROVE Alone(me)'
  BY <1>1, <1>2, <1>3, <1>10 DEF GetMem, Goto, Finish, Is, Hit, NoCall, At
<1>11. ASSUME GetOpen(me) PROVE Alone(me)'
  BY <1>1, <1>2, <1>3, <1>11 DEF GetOpen, Goto, Finish, Is, Hit, NoCall, At
<1>12. ASSUME PutPass(me) PROVE Alone(me)'
  BY <1>1, <1>2, <1>3, <1>12 DEF PutPass, Goto, Finish, Is, Hit, NoCall, At
<1>13. ASSUME PutBroken(me) PROVE Alone(me)'
  BY <1>1, <1>2, <1>3, <1>13 DEF PutBroken, Goto, Finish, Is, Hit, NoCall, At
<1>14. ASSUME PutBuffered(me) PROVE Alone(me)'
  BY <1>1, <1>2, <1>3, <1>14 DEF PutBuffered, Enter, Is, FitsDisk, TooBig, At, Calls
<1>15. ASSUME PutTee(me) PROVE Alone(me)'
  BY <1>1, <1>2, <1>3, <1>15 DEF PutTee, Enter, Finish, Is, NoCall, At, Calls
<1>16. ASSUME Commit(me) PROVE Alone(me)'
  <2> DEFINE t == Insert(call[me].key, call[me].body, TRUE)
  <2>1. call[me].key \in Keys /\ call[me].body \in Bodies /\ Size[call[me].body] \in Nat
    BY <1>2, <1>16, CacheAssumption DEF Commit, At
  <2>2. t \in Seq(Entry) /\ BytesOf(t) <= S + Size[call[me].body] /\ OneEach(t)
    BY <1>1, <1>3, <2>1, Inserts
  <2>3. BytesOf(t) \in Nat
    BY <2>2, SizesTyped
  <2>4. index' = t /\ Goto(me, "add") /\ UNCHANGED <<mem, counter, evictLock, scan>>
    BY <1>16 DEF Commit
  <2> HIDE DEF t, S
  <2> QED
    BY <1>1, <1>3, <1>16, <2>1, <2>2, <2>3, <2>4 DEF Commit, Goto, S
<1>17. ASSUME TeeCommit(me) PROVE Alone(me)'
  <2> DEFINE t == Insert(call[me].key, call[me].body, FALSE)
  <2>1. call[me].key \in Keys /\ call[me].body \in Bodies
    BY <1>2, <1>17 DEF TeeCommit, At
  <2>2. t \in Seq(Entry) /\ BytesOf(t) <= S + 0 /\ OneEach(t)
    BY <1>1, <1>3, <2>1, Inserts
  <2>3. BytesOf(t) \in Nat
    BY <2>2, SizesTyped
  <2>4. index' = t /\ Goto(me, "reinsert") /\ UNCHANGED <<mem, counter, evictLock, scan>>
    BY <1>17 DEF TeeCommit
  <2> HIDE DEF t, S
  <2> QED
    BY <1>1, <1>3, <1>17, <2>1, <2>2, <2>3, <2>4 DEF TeeCommit, Goto, S
<1>18. ASSUME TeeReinsert(me) PROVE Alone(me)'
  <2> DEFINE t == Insert(call[me].key, call[me].body, TRUE)
  <2>1. call[me].key \in Keys /\ call[me].body \in Bodies /\ Size[call[me].body] \in Nat
    BY <1>2, <1>18, CacheAssumption DEF TeeReinsert, At
  <2>2. t \in Seq(Entry) /\ BytesOf(t) <= S + Size[call[me].body] /\ OneEach(t)
    BY <1>1, <1>3, <2>1, Inserts
  <2>3. BytesOf(t) \in Nat
    BY <2>2, SizesTyped
  <2>4. index' = t /\ Goto(me, "add") /\ UNCHANGED <<blobs, mem, counter, evictLock, scan>>
    BY <1>18 DEF TeeReinsert
  <2> HIDE DEF t, S
  <2> QED
    BY <1>1, <1>3, <1>18, <2>1, <2>2, <2>3, <2>4 DEF TeeReinsert, Goto, S
<1>19. ASSUME TeeUnpublish(me) PROVE Alone(me)'
  BY <1>3, <1>19 DEF TeeUnpublish, Ready
<1>20. ASSUME TeeUnblob(me) PROVE Alone(me)'
  BY <1>3, <1>20 DEF TeeUnblob, Ready
<1>21. ASSUME Add(me) PROVE Alone(me)'
  <2>1. SizeOf(me) \in Nat
    BY <1>2, <1>21, CacheAssumption DEF Add, At, SizeOf
  <2> QED
    BY <1>1, <1>2, <1>3, <1>21, <2>1 DEF Add, Goto, At
<1>22. ASSUME MemPut(me) PROVE Alone(me)'
  BY <1>1, <1>2, <1>3, <1>22 DEF MemPut, Goto, Finish, Is, NoCall, At
<1>23. ASSUME EvictLoad(me) PROVE Alone(me)'
  BY <1>1, <1>2, <1>3, <1>23 DEF EvictLoad, AfterEvict, Goto, Finish, Is, NoCall, At
<1>24. ASSUME EvictWalk(me) PROVE Alone(me)'
  BY <1>1, <1>2, <1>3, <1>24 DEF EvictWalk, Goto, At
<1>25. ASSUME EvictStore(me) PROVE Alone(me)'
  BY <1>1, <1>2, <1>3, <1>25 DEF EvictStore, Goto, At
<1>26. ASSUME EvictRecheck(me) PROVE Alone(me)'
  BY <1>1, <1>2, <1>3, <1>26 DEF EvictRecheck, AfterEvict, Goto, Finish, Is, NoCall, At
<1>27. ASSUME EvictTotal(me) PROVE Alone(me)'
  BY <1>1, <1>2, <1>3, <1>27 DEF EvictTotal, Goto, At
<1>28. ASSUME Sweep(me) PROVE Alone(me)'
  <2>1. todo[me] = index /\ index # <<>> /\ seeded
    BY <1>3, <1>28 DEF Sweep, Fresh, Ready
  <2>2. /\ Head(index) \in Entry /\ Without(Head(index).key) = Tail(index) /\ OneEach(Tail(index))
        /\ BytesOf(Tail(index)) + EntrySize(Head(index)) = S
    BY <1>3, <2>1, TakesOldest
  <2>3. BytesOf(Tail(index)) \in Nat /\ EntrySize(Head(index)) \in Nat
    <3>1. Tail(index) \in Seq(Entry) /\ 1 \in 1 .. Len(index) /\ Head(index) = index[1]
      BY <1>1, <2>1
    <3> QED
      BY <1>1, <3>1, SizesTyped
  <2>4. index' = Tail(index) /\ Goto(me, "sweepblob") /\ UNCHANGED <<blobs, mem, counter, evictLock, scan>>
    BY <1>28, <2>1, <2>2 DEF Sweep, RemoveKey
  <2> QED
    BY <1>1, <1>2, <1>3, <1>28, <2>1, <2>2, <2>3, <2>4 DEF Sweep, Goto, At
<1>29. ASSUME SweepBlob(me) PROVE Alone(me)'
  <2>1. EntrySize(Head(todo[me])) \in Nat
    <3>1. todo[me] \in Seq(Entry) /\ 1 \in 1 .. Len(todo[me]) /\ Head(todo[me]) = todo[me][1]
      BY <1>1, <1>29 DEF SweepBlob, Reading
    <3> QED
      BY <3>1, SizesTyped
  <2> QED
    BY <1>1, <1>2, <1>3, <1>29, <2>1 DEF SweepBlob, Goto, At
<1>30. ASSUME SweepEnd(me) PROVE Alone(me)'
  <2>1. S <= MaxBytes /\ sum[me] = S
    BY <1>1, <1>3, <1>30, NoBytes DEF SweepEnd, Fresh
  <2> QED
    BY <1>1, <1>2, <1>3, <1>30, <2>1 DEF SweepEnd, AfterEvict, Goto, Finish, Is, NoCall, At
<1>31. ASSUME DelMem(me) PROVE Alone(me)'
  BY <1>1, <1>2, <1>3, <1>31 DEF DelMem, Goto, Finish, Is, NoCall, At
<1>32. ASSUME DelMeta(me) PROVE Alone(me)'
  <2>1. CASE Find(call[me].key) # 0
    <3> DEFINE i == Find(call[me].key)
    <3>1. i \in 1 .. Len(index) /\ index[i].key = call[me].key
      BY <1>1, <2>1, Finds
    <3>2. /\ Goto(me, "delkey") /\ todo' = [todo EXCEPT ![me] = <<index[i]>>]
          /\ UNCHANGED <<disk, counter, sum>>
      BY <1>32, <2>1 DEF DelMeta
    <3> HIDE DEF i
    <3>3. /\ pc'[me] = "delkey" /\ todo'[me] = <<index[i]>> /\ index' = index /\ bytes' = bytes
          /\ seeded' = seeded /\ sum' = sum /\ call' = call /\ result' = result
      BY <1>1, <3>2 DEF Goto
    <3>4. Fresh(me)'
      <4>1. \E j \in 1 .. Len(index') : index'[j].key = call'[me].key /\ todo'[me] = <<index'[j]>>
        BY <3>1, <3>3
      <4> QED
        BY <3>3, <4>1
    <3>5. Covers(me)' /\ Ready(me)' /\ Stored(me)' /\ OneEach(index)'
      BY <1>3, <1>32, <3>3 DEF DelMeta
    <3> QED
      BY <3>4, <3>5
  <2>2. CASE ~(Find(call[me].key) # 0)
    BY <1>1, <1>2, <1>3, <1>32, <2>2 DEF DelMeta, Finish, Is, NoCall
  <2> QED
    BY <2>1, <2>2
<1>33. ASSUME DelKey(me) PROVE Alone(me)'
  <2> DEFINE k == call[me].key
             t == Without(k)
  <2>1. PICK i \in 1 .. Len(index) : index[i].key = k /\ todo[me] = <<index[i]>>
    BY <1>3, <1>33 DEF DelKey, Fresh
  <2>2. /\ Find(k) \in 0 .. Len(index) /\ (Find(k) # 0 => index[Find(k)].key = k)
        /\ Find(k) = 0 => \A j \in 1 .. Len(index) : index[j].key # k
    BY <1>1, Finds
  <2>3. Find(k) = i /\ Find(k) # 0
    BY <1>1, <1>3, <2>1, <2>2 DEF OneEach
  <2>4. t \in Seq(Entry) /\ OneEach(t) /\ BytesOf(t) + EntrySize(index[i]) = S
    BY <1>1, <1>3, <2>3, Takes
  <2>5. BytesOf(t) \in Nat /\ EntrySize(index[i]) \in Nat
    BY <1>1, <2>1, <2>4, SizesTyped
  <2>6. Head(todo[me]) = index[i]
    BY <2>1
  <2>7. index' = t /\ Goto(me, "delblob") /\ UNCHANGED <<blobs, mem, counter, evictLock, scan>>
    BY <1>33 DEF DelKey, RemoveKey
  <2> HIDE DEF k, t
  <2> QED
    BY <1>1, <1>2, <1>3, <1>33, <2>4, <2>5, <2>6, <2>7 DEF DelKey, Goto, At
<1>34. ASSUME DelBlob(me) PROVE Alone(me)'
  BY <1>1, <1>2, <1>3, <1>34 DEF DelBlob, Goto, At
<1>35. ASSUME DelSub(me) PROVE Alone(me)'
  <2>1. EntrySize(Head(todo[me])) \in Nat
    <3>1. todo[me] \in Seq(Entry) /\ 1 \in 1 .. Len(todo[me]) /\ Head(todo[me]) = todo[me][1]
      BY <1>1, <1>35 DEF DelSub, Reading
    <3> QED
      BY <3>1, SizesTyped
  <2> QED
    BY <1>1, <1>2, <1>3, <1>35, <2>1 DEF DelSub, Finish, Is, NoCall, At
<1>36. ASSUME ClearMem(me) PROVE Alone(me)'
  BY <1>1, <1>2, <1>3, <1>36 DEF ClearMem, Goto, Finish, Is, NoCall, At
<1>37. ASSUME ClearDisk(me) PROVE Alone(me)'
  <2>1. OneEach(<<>>) /\ BytesOf(<<>>) = 0
    BY NoBytes DEF OneEach
  <2>2. index' = <<>>
    BY <1>37 DEF ClearDisk
  <2> QED
    BY <1>1, <1>2, <1>3, <1>37, <2>1, <2>2 DEF ClearDisk, Goto, At
<1>38. ASSUME ClearStore(me) PROVE Alone(me)'
  <2>1. index = <<>> /\ S = 0
    BY <1>3, <1>38, NoBytes DEF ClearStore, Fresh
  <2> QED
    BY <1>1, <1>2, <1>3, <1>38, <2>1 DEF ClearStore, Finish, Is, NoCall, At
<1>39. ASSUME NEW k \in Keys, MemEvicts(k) PROVE Alone(me)'
  BY <1>4, <1>39 DEF MemEvicts
<1>40. CASE Restart
  BY <1>1, <1>3, <1>40 DEF Restart, Is, NoCall
<1>41. CASE UNCHANGED vars
  BY <1>4, <1>41 DEF vars
<1> QED
  BY <1>5, <1>6, <1>7, <1>8, <1>9, <1>10, <1>11, <1>12, <1>13, <1>14, <1>15, <1>16,
     <1>17, <1>18, <1>19, <1>20, <1>21, <1>22, <1>23, <1>24, <1>25, <1>26, <1>27,
     <1>28, <1>29, <1>30, <1>31, <1>32, <1>33, <1>34, <1>35, <1>36, <1>37, <1>38,
     <1>39, <1>40, <1>41 DEF Next, Step

\* The only call starts well, with its types.
LEMMA AloneStarts == ASSUME NEW me, Procs = {me}, Init PROVE TypeInv /\ Alone(me)
<1>1. TypeInv
  BY InitTyped
<1>2. OneEach(<<>>) /\ BytesOf(<<>>) = 0
  BY NoBytes DEF OneEach
<1> QED
  BY <1>1, <1>2 DEF Init, Is, NoCall, Alone, Covers, Ready, Fresh, Stored, Owed, Taken

\* So it is after any number of calls.
LEMMA AloneAlways == ASSUME NEW me, Procs = {me}, ~Faults PROVE Spec => [](TypeInv /\ Alone(me))
<1>1. Init => TypeInv /\ Alone(me)
  BY AloneStarts
<1>2. TypeInv /\ Alone(me) /\ [Next]_vars => (TypeInv /\ Alone(me))'
  BY AloneSteps, TypeSteps
<1> QED
  BY <1>1, <1>2, PTL DEF Spec

\* One call at a time, no call to cacache failing: between calls the counter covers what
\* the index holds, whatever puts, tees, gets, deletes, clears and restarts came before,
\* for any keys, bodies and limits (cache.rs:175-179).
THEOREM CounterIsEnough ==
    ASSUME NEW me, Procs = {me}, ~Faults PROVE Spec => []CounterCovers
<1>1. TypeInv /\ Alone(me) => CounterCovers
  <2> SUFFICES ASSUME TypeInv, Alone(me), Quiet, seeded PROVE bytes >= BytesOf(index)
    BY DEF CounterCovers
  <2>1. bytes + 0 >= BytesOf(index) + 0
    BY DEF Alone, Covers, Owed, Taken, Quiet
  <2>2. bytes \in Nat /\ BytesOf(index) \in Nat
    BY SizesTyped DEF TypeInv, StoreTyped
  <2> QED
    BY <2>1, <2>2
<1> QED
  BY <1>1, AloneAlways, PTL

\* One call at a time, no call to cacache failing: a put that stored leaves the index
\* within max_cache_bytes, whatever calls and restarts came before: its eviction starts
\* from a fresh walk, so that no error of the counter outlives it (cache.rs:703-788,
\* config.rs:179-181).
THEOREM PutsKeepBudget ==
    ASSUME NEW me, Procs = {me}, ~Faults PROVE Spec => []BudgetAfterPut
<1>1. Alone(me) => BudgetAfterPut
  BY DEF Alone, Stored, BudgetAfterPut
<1> QED
  BY <1>1, AloneAlways, PTL

\* One call at a time, no call to cacache failing: each entry that eviction takes is the
\* oldest, and it is taken while the index is over budget (cache.rs:736-780).
THEOREM SweepTakesOldest ==
    ASSUME NEW me, Procs = {me}, ~Faults PROVE Spec => SweepsOldest
<1>1. TypeInv /\ Alone(me) /\ [Next]_vars
      => [\A p \in Procs : pc[p] = "sweep" /\ index' # index =>
             index' = Tail(index) /\ BytesOf(index) > MaxBytes]_vars
  <2> SUFFICES ASSUME Alone(me), Next, pc[me] = "sweep", index' # index
               PROVE  index' = Tail(index) /\ BytesOf(index) > MaxBytes
    BY DEF vars
  <2>1. Sweep(me)
    <3>1. Begin(me) \/ Step(me) \/ UNCHANGED index
      BY DEF Next, MemEvicts, Restart, disk
    <3>2. ~Begin(me)
      BY DEF Begin
    <3>3. Step(me) => Sweep(me) \/ SweepEnd(me)
      BY DEF Step, SeedLoad, SeedWalk, SeedStore, GetMeta, GetMem, GetOpen, PutPass,
         PutBroken,
         PutBuffered, PutTee, Commit, TeeCommit, TeeReinsert, TeeUnpublish, TeeUnblob, Add, MemPut,
         EvictLoad, EvictWalk, EvictStore, EvictRecheck, EvictTotal, SweepBlob, DelMem, DelMeta,
         DelKey, DelBlob, DelSub, ClearMem, ClearDisk, ClearStore
    <3>4. ~SweepEnd(me)
      BY DEF SweepEnd, disk
    <3> QED
      BY <3>1, <3>2, <3>3, <3>4
  <2>2. /\ OneEach(index) /\ todo[me] = index /\ index # <<>>
        /\ sum[me] = BytesOf(index) /\ sum[me] > MaxBytes
    BY <2>1 DEF Alone, Fresh, Sweep
  <2>3. Without(Head(index).key) = Tail(index)
    BY <2>2, TakesOldest
  <2> QED
    BY <2>1, <2>2, <2>3 DEF Sweep, RemoveKey
<1> QED
  BY <1>1, AloneAlways, PTL DEF Spec, SweepsOldest
=============================================================================

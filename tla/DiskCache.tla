----------------------------- MODULE DiskCache ------------------------------
(***************************************************************************)
(* PqcStreamingCacheManager (cache.rs): the disk tier (a cacache index and  *)
(* its content-addressed blobs), the moka memory tier in front of it, the  *)
(* running byte counter and the eviction lock, under concurrent get, put,  *)
(* delete and clear, and across restarts of the process.                   *)
(*                                                                         *)
(* A step is one access to shared state: an index or blob operation of     *)
(* cacache, a moka operation, a load or store of the counter, the lock.    *)
(* A body is known by its content; a put is handed a key and a body.  The  *)
(* streaming half of put_tee is TeeStream's; here its task starts where it *)
(* commits.                                                                *)
(***************************************************************************)
EXTENDS Naturals, Sequences, FiniteSets, SequencesExt, Sums

CONSTANTS Procs,      \* concurrent calls (for a put, its tee task too)
          Keys, Bodies,
          Size,       \* the length of each body
          MaxBytes,   \* max_cache_bytes
          EntryDisk,  \* per_entry_disk
          EntryMem,   \* per_entry_mem, 0 without a memory tier
          Inline,     \* INLINE_BUFFERED_THRESHOLD
          HasDisk,    \* cache_dir is set
          Faults,     \* cacache calls may fail
          Nil

ASSUME CacheAssumption ==
    /\ Size \in [Bodies -> Nat \ {0}]
    /\ MaxBytes \in Nat /\ EntryDisk \in Nat /\ EntryMem \in Nat /\ Inline \in Nat
    /\ HasDisk \in BOOLEAN /\ Faults \in BOOLEAN
    /\ Nil \notin Bodies /\ Nil \notin Keys

VARIABLES index,      \* the live index entries, oldest first
          blobs,      \* the contents on disk
          mem,        \* the memory tier
          bytes,      \* DiskTier.bytes
          seeded,     \* DiskTier.seeded
          evictLock,  \* FIFO of evict_lock: its head holds it
          pc, call,   \* where each call is, and what it is
          todo,       \* the index entries it has read
          sum,        \* the total it has read
          result      \* what its last call gave

disk == <<index, blobs>>
counter == <<bytes, seeded>>
scan == <<todo, sum>>
control == <<pc, call, result>>
vars == <<disk, mem, counter, evictLock, control, scan>>

Entry == [key : Keys, body : Bodies, done : BOOLEAN]
Ops == {"none", "get", "put", "buffered", "tee", "delete", "clear"}
Places == {"idle", "seed", "seeding", "meta", "readmem", "open", "put", "commit",
           "teecommit", "reinsert", "unpublish", "unblob", "add", "memput",
           "evict", "resync", "restore", "recheck", "total", "sweep", "sweepblob",
           "delmem", "delmeta", "delkey", "delblob", "delsub",
           "clearmem", "clearing", "clearstore"}
Outcomes == {"none", "miss", "mem", "disk", "stored", "kept", "passed", "failed", "done"}

NoCall == [op |-> "none", key |-> Nil, body |-> Nil]
Is(o) == [as |-> o, head |-> Nil, body |-> Nil, len |-> 0]
Hit(tier, h, b, n) == [as |-> tier, head |-> h, body |-> b, len |-> n]

Init ==
    /\ index = <<>> /\ blobs = {}
    /\ mem = [k \in Keys |-> Nil]
    /\ bytes = 0 /\ seeded = FALSE /\ evictLock = <<>>
    /\ pc = [p \in Procs |-> "idle"]
    /\ call = [p \in Procs |-> NoCall]
    /\ todo = [p \in Procs |-> <<>>]
    /\ sum = [p \in Procs |-> 0]
    /\ result = [p \in Procs |-> Is("none")]

-----------------------------------------------------------------------------
(* The index, and the ends of a step.                                      *)

\* CacheMetadata.body_size: Some(len), or None for the sentinel of a tee, whose
\* entry has size 0.
EntrySize(e) == IF e.done THEN Size[e.body] ELSE 0
BytesOf(s) == Total([i \in DOMAIN s |-> EntrySize(s[i])])

\* Where the one live entry of a key is, 0 without one.
Find(k) == SelectInSeq(index, LAMBDA e : e.key = k)
Without(k) == IF Find(k) = 0 THEN index ELSE RemoveAt(index, Find(k))
Insert(k, b, done) == Append(Without(k), [key |-> k, body |-> b, done |-> done])

\* cacache::remove and remove_hash, whose errors are ignored.
RemoveKey(k) == index' = Without(k) \/ (Faults /\ UNCHANGED index)
RemoveHash(b) == blobs' = blobs \ {b} \/ (Faults /\ UNCHANGED blobs)

Held(p) == evictLock # <<>> /\ Head(evictLock) = p
Join(p) == evictLock' = Append(evictLock, p)
Release == evictLock' = Tail(evictLock)

SizeOf(p) == Size[call[p].body]
TooBig(b) == (~HasDisk \/ Size[b] > EntryDisk \/ Size[b] > MaxBytes) /\ Size[b] > EntryMem
FitsDisk(b) == HasDisk /\ Size[b] <= EntryDisk /\ Size[b] <= MaxBytes

Goto(p, place) == pc' = [pc EXCEPT ![p] = place] /\ UNCHANGED <<call, result>>
Finish(p, r) ==
    /\ pc' = [pc EXCEPT ![p] = "idle"]
    /\ call' = [call EXCEPT ![p] = NoCall]
    /\ result' = [result EXCEPT ![p] = r]
\* A call starts at a place, or a put turns into a buffered put or a tee there.
Enter(p, c, place) ==
    /\ pc' = [pc EXCEPT ![p] = place]
    /\ call' = [call EXCEPT ![p] = c]
    /\ result' = [result EXCEPT ![p] = Is("none")]

-----------------------------------------------------------------------------
Begin(p) ==
    /\ pc[p] = "idle"
    /\ \/ \E k \in Keys : Enter(p, [op |-> "get", key |-> k, body |-> Nil], "seed")
       \/ \E k \in Keys, b \in Bodies : Enter(p, [op |-> "put", key |-> k, body |-> b], "seed")
       \/ \E k \in Keys : Enter(p, [op |-> "delete", key |-> k, body |-> Nil], "delmem")
       \/ Enter(p, [op |-> "clear", key |-> Nil, body |-> Nil], "clearmem")
    /\ UNCHANGED <<disk, mem, counter, evictLock, scan>>

(* ensure_seeded, with resync_from_disk in it.                             *)
AfterSeed(p) == IF call[p].op = "get" THEN "meta" ELSE "put"

SeedLoad(p) ==
    /\ pc[p] = "seed"
    /\ IF HasDisk /\ ~seeded
       THEN Join(p) /\ Goto(p, "seeding")
       ELSE Goto(p, AfterSeed(p)) /\ UNCHANGED evictLock
    /\ UNCHANGED <<disk, mem, counter, scan>>

\* Mutant: the index is not walked when the process starts.
SeedWalkNothing(p) ==
    /\ pc[p] = "seeding" /\ Held(p)
    /\ seeded' = TRUE /\ Release /\ Goto(p, AfterSeed(p))
    /\ UNCHANGED <<disk, mem, bytes, scan>>

\* With the lock, unless another call has done it by now.
SeedWalk(p) ==
    /\ pc[p] = "seeding" /\ Held(p)
    /\ IF seeded
       THEN Release /\ Goto(p, AfterSeed(p)) /\ UNCHANGED sum
       ELSE sum' = [sum EXCEPT ![p] = BytesOf(index)] /\ Goto(p, "restore") /\ UNCHANGED evictLock
    /\ UNCHANGED <<disk, mem, counter, todo>>

\* The store of the walk's total, which overwrites whatever was added since.
SeedStore(p) ==
    /\ pc[p] = "restore" /\ call[p].op \in {"get", "put"}
    /\ bytes' = sum[p] /\ seeded' = TRUE
    /\ sum' = [sum EXCEPT ![p] = 0]
    /\ Release /\ Goto(p, AfterSeed(p))
    /\ UNCHANGED <<disk, mem, todo>>

-----------------------------------------------------------------------------
(* get.                                                                    *)

\* Mutant: an entry that a tee has not finished counts as an entry.
GetMetaUnguarded(p) ==
    /\ pc[p] = "meta"
    /\ IF HasDisk /\ Find(call[p].key) # 0
       THEN todo' = [todo EXCEPT ![p] = <<index[Find(call[p].key)]>>] /\ Goto(p, "readmem")
       ELSE Finish(p, Is("miss")) /\ UNCHANGED todo
    /\ UNCHANGED <<disk, mem, counter, evictLock, sum>>

\* The head: no entry, or one with body_size None, is a miss.
GetMeta(p) ==
    /\ pc[p] = "meta"
    /\ IF HasDisk /\ Find(call[p].key) # 0 /\ index[Find(call[p].key)].done
       THEN todo' = [todo EXCEPT ![p] = <<index[Find(call[p].key)]>>] /\ Goto(p, "readmem")
       ELSE Finish(p, Is("miss")) /\ UNCHANGED todo
    /\ UNCHANGED <<disk, mem, counter, evictLock, sum>>

\* The body: the memory tier first.
GetMem(p) ==
    /\ pc[p] = "readmem"
    /\ LET b == mem[call[p].key] IN
       IF b # Nil
       THEN /\ Finish(p, Hit("mem", Head(todo[p]).body, b, Size[b]))
            /\ todo' = [todo EXCEPT ![p] = <<>>]
       ELSE Goto(p, "open") /\ UNCHANGED todo
    /\ UNCHANGED <<disk, mem, counter, evictLock, sum>>

\* open_hash on the integrity read before: `remaining` is the body_size read
\* before too.
GetOpen(p) ==
    /\ pc[p] = "open"
    /\ LET e == Head(todo[p]) IN
       Finish(p, IF e.body \in blobs THEN Hit("disk", e.body, e.body, EntrySize(e)) ELSE Is("miss"))
    /\ todo' = [todo EXCEPT ![p] = <<>>]
    /\ UNCHANGED <<disk, mem, counter, evictLock, sum>>

-----------------------------------------------------------------------------
(* put: passed through, buffered, or teed.                                 *)

\* Content-Length says that no tier takes it.
PutPass(p) ==
    /\ pc[p] = "put" /\ TooBig(call[p].body)
    /\ Finish(p, Is("passed"))
    /\ UNCHANGED <<disk, mem, counter, evictLock, scan>>

\* The upstream body fails, or the reader of a tee goes away: nothing is stored.
PutBroken(p) ==
    /\ pc[p] = "put"
    /\ Finish(p, Is("failed"))
    /\ UNCHANGED <<disk, mem, counter, evictLock, scan>>

PutBuffered(p) ==
    /\ pc[p] = "put"
    /\ ~HasDisk \/ (SizeOf(p) <= Inline /\ ~TooBig(call[p].body))
    /\ Enter(p, [call[p] EXCEPT !.op = "buffered"], IF FitsDisk(call[p].body) THEN "commit" ELSE "memput")
    /\ UNCHANGED <<disk, mem, counter, evictLock, scan>>

\* A body of unknown length, or a long one; past per_entry_disk it is only
\* handed on.
PutTee(p) ==
    /\ pc[p] = "put" /\ HasDisk
    /\ IF SizeOf(p) <= EntryDisk
       THEN Enter(p, [call[p] EXCEPT !.op = "tee"], "teecommit")
       ELSE Finish(p, Is("passed"))
    /\ UNCHANGED <<disk, mem, counter, evictLock, scan>>

\* The buffered commit: entry and blob, or neither, or a blob that no entry names.
Commit(p) ==
    /\ pc[p] = "commit"
    /\ \/ /\ index' = Insert(call[p].key, call[p].body, TRUE)
          /\ blobs' = blobs \cup {call[p].body}
          /\ Goto(p, "add")
       \/ /\ Faults
          /\ blobs' \in {blobs, blobs \cup {call[p].body}}
          /\ Finish(p, Is("failed"))
          /\ UNCHANGED index
    /\ UNCHANGED <<mem, counter, evictLock, scan>>

\* The tee's commit, with the sentinel in the entry.
TeeCommit(p) ==
    /\ pc[p] = "teecommit"
    /\ \/ /\ index' = Insert(call[p].key, call[p].body, FALSE)
          /\ blobs' = blobs \cup {call[p].body}
          /\ Goto(p, "reinsert")
       \/ /\ Faults
          /\ blobs' \in {blobs, blobs \cup {call[p].body}}
          /\ Finish(p, Is("failed"))
          /\ UNCHANGED index
    /\ UNCHANGED <<mem, counter, evictLock, scan>>

\* index::insert_async with body_size Some(total).
TeeReinsert(p) ==
    /\ pc[p] = "reinsert"
    /\ \/ /\ index' = Insert(call[p].key, call[p].body, TRUE)
          /\ Goto(p, "add")
       \/ /\ Faults
          /\ Goto(p, "unpublish")
          /\ UNCHANGED index
    /\ UNCHANGED <<blobs, mem, counter, evictLock, scan>>

TeeUnpublish(p) ==
    /\ pc[p] = "unpublish"
    /\ RemoveKey(call[p].key)
    /\ Goto(p, "unblob")
    /\ UNCHANGED <<blobs, mem, counter, evictLock, scan>>

TeeUnblob(p) ==
    /\ pc[p] = "unblob"
    /\ RemoveHash(call[p].body)
    /\ Finish(p, Is("failed"))
    /\ UNCHANGED <<index, mem, counter, evictLock, scan>>

\* Mutant: a tee does not count what it stored.
AddBufferedOnly(p) ==
    /\ pc[p] = "add"
    /\ bytes' = IF call[p].op = "tee" THEN bytes ELSE bytes + SizeOf(p)
    /\ Goto(p, IF call[p].op = "tee" THEN "memput" ELSE "evict")
    /\ UNCHANGED <<disk, mem, seeded, evictLock, scan>>

\* fetch_add; then a tee fills the memory tier and evicts, a buffered put
\* evicts and fills the memory tier.
Add(p) ==
    /\ pc[p] = "add"
    /\ bytes' = bytes + SizeOf(p)
    /\ Goto(p, IF call[p].op = "tee" THEN "memput" ELSE "evict")
    /\ UNCHANGED <<disk, mem, seeded, evictLock, scan>>

\* A body that the disk does not take is kept in memory only, if there.
MemPut(p) ==
    /\ pc[p] = "memput"
    /\ mem' = IF SizeOf(p) <= EntryMem THEN [mem EXCEPT ![call[p].key] = call[p].body] ELSE mem
    /\ IF call[p].op = "tee" THEN Goto(p, "evict")
       ELSE Finish(p, Is(IF FitsDisk(call[p].body) THEN "stored" ELSE "kept"))
    /\ UNCHANGED <<disk, counter, evictLock, scan>>

-----------------------------------------------------------------------------
(* evict_if_over_budget.                                                   *)

AfterEvict(p) == IF call[p].op = "tee" THEN Finish(p, Is("stored")) ELSE Goto(p, "memput")

EvictLoad(p) ==
    /\ pc[p] = "evict"
    /\ IF bytes <= MaxBytes
       THEN AfterEvict(p) /\ UNCHANGED evictLock
       ELSE Join(p) /\ Goto(p, "resync")
    /\ UNCHANGED <<disk, mem, counter, scan>>

\* resync_from_disk: the walk, then the store.
EvictWalk(p) ==
    /\ pc[p] = "resync" /\ Held(p)
    /\ sum' = [sum EXCEPT ![p] = BytesOf(index)]
    /\ Goto(p, "restore")
    /\ UNCHANGED <<disk, mem, counter, evictLock, todo>>

EvictStore(p) ==
    /\ pc[p] = "restore" /\ call[p].op \in {"buffered", "tee"}
    /\ bytes' = sum[p]
    /\ Goto(p, "recheck")
    /\ UNCHANGED <<disk, mem, seeded, evictLock, scan>>

\* Mutant: the early return keeps the lock.
EvictRecheckHolds(p) ==
    /\ pc[p] = "recheck"
    /\ IF bytes <= MaxBytes
       THEN /\ sum' = [sum EXCEPT ![p] = 0]
            /\ AfterEvict(p) /\ UNCHANGED <<evictLock, todo>>
       ELSE /\ todo' = [todo EXCEPT ![p] = index]
            /\ Goto(p, "total") /\ UNCHANGED <<evictLock, sum>>
    /\ UNCHANGED <<disk, mem, counter>>

\* Mutant: sorted the wrong way round.
EvictRecheckNewest(p) ==
    /\ pc[p] = "recheck"
    /\ IF bytes <= MaxBytes
       THEN /\ sum' = [sum EXCEPT ![p] = 0]
            /\ Release /\ AfterEvict(p) /\ UNCHANGED todo
       ELSE /\ todo' = [todo EXCEPT ![p] = Reverse(index)]
            /\ Goto(p, "total") /\ UNCHANGED <<evictLock, sum>>
    /\ UNCHANGED <<disk, mem, counter>>

\* Under budget after all, or the list of the entries by age.
EvictRecheck(p) ==
    /\ pc[p] = "recheck"
    /\ IF bytes <= MaxBytes
       THEN /\ sum' = [sum EXCEPT ![p] = 0]
            /\ Release /\ AfterEvict(p) /\ UNCHANGED todo
       ELSE /\ todo' = [todo EXCEPT ![p] = index]
            /\ Goto(p, "total") /\ UNCHANGED <<evictLock, sum>>
    /\ UNCHANGED <<disk, mem, counter>>

EvictTotal(p) ==
    /\ pc[p] = "total"
    /\ sum' = [sum EXCEPT ![p] = bytes]
    /\ Goto(p, "sweep")
    /\ UNCHANGED <<disk, mem, counter, evictLock, todo>>

\* The loop: the oldest key goes while the total is over budget.
Sweep(p) ==
    /\ pc[p] = "sweep" /\ todo[p] # <<>> /\ sum[p] > MaxBytes
    /\ RemoveKey(Head(todo[p]).key)
    /\ Goto(p, "sweepblob")
    /\ UNCHANGED <<blobs, mem, counter, evictLock, scan>>

SweepBlob(p) ==
    /\ pc[p] = "sweepblob"
    /\ RemoveHash(Head(todo[p]).body)
    /\ sum' = [sum EXCEPT ![p] = IF @ > EntrySize(Head(todo[p])) THEN @ - EntrySize(Head(todo[p])) ELSE 0]
    /\ todo' = [todo EXCEPT ![p] = Tail(@)]
    /\ Goto(p, "sweep")
    /\ UNCHANGED <<index, mem, counter, evictLock>>

\* The end of the loop: the total is stored and the lock released.
SweepEnd(p) ==
    /\ pc[p] = "sweep" /\ (todo[p] = <<>> \/ sum[p] <= MaxBytes)
    /\ bytes' = sum[p]
    /\ sum' = [sum EXCEPT ![p] = 0] /\ todo' = [todo EXCEPT ![p] = <<>>]
    /\ Release /\ AfterEvict(p)
    /\ UNCHANGED <<disk, mem, seeded>>

-----------------------------------------------------------------------------
(* delete, with remove_entry in it.                                        *)

DelMem(p) ==
    /\ pc[p] = "delmem"
    /\ mem' = [mem EXCEPT ![call[p].key] = Nil]
    /\ IF HasDisk THEN Goto(p, "delmeta") ELSE Finish(p, Is("done"))
    /\ UNCHANGED <<disk, counter, evictLock, scan>>

DelMeta(p) ==
    /\ pc[p] = "delmeta"
    /\ IF Find(call[p].key) # 0
       THEN todo' = [todo EXCEPT ![p] = <<index[Find(call[p].key)]>>] /\ Goto(p, "delkey")
       ELSE Finish(p, Is("done")) /\ UNCHANGED todo
    /\ UNCHANGED <<disk, mem, counter, evictLock, sum>>

DelKey(p) ==
    /\ pc[p] = "delkey"
    /\ RemoveKey(call[p].key)
    /\ Goto(p, "delblob")
    /\ UNCHANGED <<blobs, mem, counter, evictLock, scan>>

DelBlob(p) ==
    /\ pc[p] = "delblob"
    /\ RemoveHash(Head(todo[p]).body)
    /\ Goto(p, "delsub")
    /\ UNCHANGED <<index, mem, counter, evictLock, scan>>

\* Mutant: the counter wraps (here it leaves Nat).
DelSubWraps(p) ==
    /\ pc[p] = "delsub"
    /\ bytes' = IF bytes < EntrySize(Head(todo[p])) THEN Nil ELSE bytes - EntrySize(Head(todo[p]))
    /\ todo' = [todo EXCEPT ![p] = <<>>]
    /\ Finish(p, Is("done"))
    /\ UNCHANGED <<disk, mem, seeded, evictLock, sum>>

DelSub(p) ==
    /\ pc[p] = "delsub"
    /\ bytes' = IF bytes > EntrySize(Head(todo[p])) THEN bytes - EntrySize(Head(todo[p])) ELSE 0
    /\ todo' = [todo EXCEPT ![p] = <<>>]
    /\ Finish(p, Is("done"))
    /\ UNCHANGED <<disk, mem, seeded, evictLock, sum>>

-----------------------------------------------------------------------------
(* clear.                                                                  *)

ClearMem(p) ==
    /\ pc[p] = "clearmem"
    /\ mem' = [k \in Keys |-> Nil]
    /\ IF HasDisk
       THEN Join(p) /\ Goto(p, "clearing")
       ELSE Finish(p, Is("done")) /\ UNCHANGED evictLock
    /\ UNCHANGED <<disk, counter, scan>>

\* cacache::clear, whose error is logged.
ClearDisk(p) ==
    /\ pc[p] = "clearing" /\ Held(p)
    /\ \/ index' = <<>> /\ blobs' = {}
       \/ Faults /\ UNCHANGED disk
    /\ Goto(p, "clearstore")
    /\ UNCHANGED <<mem, counter, evictLock, scan>>

ClearStore(p) ==
    /\ pc[p] = "clearstore"
    /\ bytes' = 0 /\ seeded' = TRUE
    /\ Release /\ Finish(p, Is("done"))
    /\ UNCHANGED <<disk, mem, scan>>

-----------------------------------------------------------------------------
\* moka drops an entry to stay under its capacity.
MemEvicts(k) ==
    /\ mem[k] # Nil
    /\ mem' = [mem EXCEPT ![k] = Nil]
    /\ UNCHANGED <<disk, counter, evictLock, control, scan>>

\* The process ends and a new one starts: only the disk stays.
Restart ==
    /\ seeded \/ \E p \in Procs : pc[p] # "idle"
    /\ mem' = [k \in Keys |-> Nil]
    /\ bytes' = 0 /\ seeded' = FALSE /\ evictLock' = <<>>
    /\ pc' = [p \in Procs |-> "idle"] /\ call' = [p \in Procs |-> NoCall]
    /\ todo' = [p \in Procs |-> <<>>] /\ sum' = [p \in Procs |-> 0]
    /\ result' = [p \in Procs |-> Is("none")]
    /\ UNCHANGED disk

Step(p) ==
    \/ SeedLoad(p) \/ SeedWalk(p) \/ SeedStore(p)
    \/ GetMeta(p) \/ GetMem(p) \/ GetOpen(p)
    \/ PutPass(p) \/ PutBroken(p) \/ PutBuffered(p) \/ PutTee(p)
    \/ Commit(p) \/ TeeCommit(p) \/ TeeReinsert(p) \/ TeeUnpublish(p) \/ TeeUnblob(p)
    \/ Add(p) \/ MemPut(p)
    \/ EvictLoad(p) \/ EvictWalk(p) \/ EvictStore(p) \/ EvictRecheck(p)
    \/ EvictTotal(p) \/ Sweep(p) \/ SweepBlob(p) \/ SweepEnd(p)
    \/ DelMem(p) \/ DelMeta(p) \/ DelKey(p) \/ DelBlob(p) \/ DelSub(p)
    \/ ClearMem(p) \/ ClearDisk(p) \/ ClearStore(p)

Next ==
    \/ \E p \in Procs : Begin(p) \/ Step(p)
    \/ \E k \in Keys : MemEvicts(k)
    \/ Restart

\* A call in progress runs on; calls, restarts and moka's evictions need not come.
Spec == Init /\ [][Next]_vars
FairSpec == Spec /\ \A p \in Procs : WF_vars(Step(p))

-----------------------------------------------------------------------------
TypeOK ==
    /\ index \in Seq(Entry) /\ blobs \subseteq Bodies
    /\ mem \in [Keys -> Bodies \cup {Nil}]
    /\ bytes \in Nat /\ seeded \in BOOLEAN
    /\ evictLock \in Seq(Procs)
    /\ pc \in [Procs -> Places]
    /\ call \in [Procs -> [op : Ops, key : Keys \cup {Nil}, body : Bodies \cup {Nil}]]
    /\ todo \in [Procs -> Seq(Entry)] /\ sum \in [Procs -> Nat]
    /\ result \in [Procs -> [as : Outcomes, head : Bodies \cup {Nil},
                             body : Bodies \cup {Nil}, len : Nat]]

\* A get answers with a whole body or not at all, and from disk with the body
\* the head belongs to, whatever puts, tees, deletes, clears and sweeps run
\* between its reads (cache.rs:555-567, the body_size guard; 583-595).
HitsAreWhole ==
    \A p \in Procs :
        /\ result[p].as \in {"mem", "disk"} => result[p].len = Size[result[p].body]
        /\ result[p].as = "disk" => result[p].body = result[p].head

Quiet == \A p \in Procs : pc[p] = "idle"

\* One call at a time: the counter covers what the index holds (cache.rs:175-179,
\* the running logical-size counter).
CounterCovers == Quiet /\ seeded => bytes >= BytesOf(index)

\* One call at a time: a put that stored leaves the index within max_cache_bytes
\* (config.rs:179-181), after any mix of puts, deletes, clears and restarts.
BudgetAfterPut ==
    Quiet /\ (\E p \in Procs : result[p].as = "stored") => BytesOf(index) <= MaxBytes

\* One call at a time: eviction takes the oldest entry, and only while the index
\* is over budget (cache.rs:736-740, "a flat oldest-first sweep").
SweepsOldest ==
    [][\A p \in Procs : pc[p] = "sweep" /\ index' # index =>
          index' = Tail(index) /\ BytesOf(index) > MaxBytes]_vars

\* Every call returns: the eviction lock is never left behind and no call waits
\* for itself (cache.rs, the early returns under evict_lock).
OpsReturn == \A p \in Procs : pc[p] # "idle" ~> pc[p] = "idle"

\* cache.rs:39-41, "Responses above the cap skip the memory tier and live on disk
\* only": a hit on such a response is served from disk.
LargeLivesOnDisk ==
    \A p \in Procs : result[p].as = "mem" => Size[result[p].head] <= EntryMem

\* config.rs:179-180, "Hard ceiling on the on-disk cache in bytes": the contents
\* on disk fit it when a put has stored and evicted.
HardCeiling ==
    Quiet /\ (\E p \in Procs : result[p].as = "stored")
    => SumFunctionOnSet(Size, blobs) <= MaxBytes
=============================================================================

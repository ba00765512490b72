---------------------------- MODULE PqcResponse -----------------------------
(***************************************************************************)
(* One PqcResponse (client.rs): read_chunk and bytes called concurrently,  *)
(* cancel() from any thread, and Drop.  The body is an Option behind a     *)
(* tokio mutex, which is fair: a released lock goes to the head of its     *)
(* queue, and try_lock fails while anybody owns it.                        *)
(*                                                                         *)
(* The steps are the points between which another thread can run: the load *)
(* of `cancelled` before the lock, the lock, each await on the response,   *)
(* the load after it, and the return that drops the guard; cancel() is a   *)
(* store, the take of the permits and a try_lock.                          *)
(***************************************************************************)
EXTENDS Naturals, Sequences

CONSTANTS Readers,     \* callers of read_chunk and bytes
          Cancellers,  \* callers of cancel
          NoOne,       \* nobody owns the mutex
          N            \* chunks in the body

ASSUME ResponseAssumption == NoOne \notin Readers /\ N \in Nat

VARIABLES cancelled,  \* the AtomicBool
          body,       \* the Option: "live" is Some(response), "none" is None
          permits,    \* the permits are still here
          owner,      \* who owns the body mutex
          waiters,    \* FIFO of its waiters
          pc, op,     \* where each reader is, and in which method
          res,        \* what its await on the response gave
          base,       \* the chunks taken off the wire before that await
          last,       \* what its last call returned
          pulled,     \* chunks taken off the wire
          cpc,        \* where each canceller is
          obj,        \* "held" until the last reference is gone
          got,        \* every chunk handed to the caller, in order (history)
          late        \* calls that returned data though cancelled was set (history)

readVars == <<owner, waiters, pc, op, res, base, last>>
vars == <<cancelled, body, permits, readVars, pulled, cpc, obj, got, late>>

ReaderPlaces == {"idle", "lock", "wait", "pull", "drain", "check", "return"}
Results == {"none", "data", "eof", "err"}

Init ==
    /\ cancelled = FALSE /\ body = "live" /\ permits = TRUE
    /\ owner = NoOne /\ waiters = <<>>
    /\ pc = [r \in Readers |-> "idle"]
    /\ op = [r \in Readers |-> "chunk"]
    /\ res = [r \in Readers |-> "none"]
    /\ base = [r \in Readers |-> 0]
    /\ last = [r \in Readers |-> "data"]
    /\ pulled = 0
    /\ cpc = [k \in Cancellers |-> "idle"]
    /\ obj = "held" /\ got = <<>> /\ late = 0

-----------------------------------------------------------------------------
(* read_chunk ("chunk") and bytes ("bytes").                               *)

At(r, from, to) == pc[r] = from /\ pc' = [pc EXCEPT ![r] = to]

\* The guard is dropped: the mutex goes to the next waiter.
Unlock ==
    \/ /\ waiters = <<>>
       /\ owner' = NoOne
       /\ UNCHANGED waiters
    \/ /\ waiters # <<>>
       /\ owner' = Head(waiters)
       /\ waiters' = Tail(waiters)

\* The call, up to the load that comes before the lock.
Begin(r, o) ==
    /\ obj = "held" /\ pc[r] = "idle"
    /\ \/ /\ cancelled
          /\ last' = [last EXCEPT ![r] = "none"]
          /\ UNCHANGED <<pc, op>>
       \/ /\ ~cancelled
          /\ pc' = [pc EXCEPT ![r] = "lock"]
          /\ op' = [op EXCEPT ![r] = o]
          /\ UNCHANGED last
    /\ UNCHANGED <<cancelled, body, permits, owner, waiters, res, base, pulled, cpc, obj, got, late>>

Lock(r) ==
    /\ At(r, "lock", "wait")
    /\ \/ /\ owner = NoOne
          /\ owner' = r
          /\ UNCHANGED waiters
       \/ /\ owner # NoOne
          /\ waiters' = Append(waiters, r)
          /\ UNCHANGED owner
    /\ UNCHANGED <<cancelled, body, permits, op, res, base, last, pulled, cpc, obj, got, late>>

\* The lock is there and the Option is None: Ok(None), or empty bytes.
FindNothing(r) ==
    /\ At(r, "wait", "idle") /\ owner = r /\ body = "none"
    /\ Unlock
    /\ last' = [last EXCEPT ![r] = "none"]
    /\ UNCHANGED <<cancelled, body, permits, op, res, base, pulled, cpc, obj, got, late>>

\* Mutant: the Option is looked at without the lock.
FindBodyUnlocked(r) ==
    /\ body = "live" /\ op[r] = "chunk" /\ At(r, "wait", "pull")
    /\ UNCHANGED <<cancelled, body, permits, owner, waiters, op, res, base, last, pulled, cpc, obj, got, late>>

\* The lock is there and so is the response: read_chunk borrows it, bytes takes
\* it out of the Option.
FindBody(r) ==
    /\ owner = r /\ body = "live"
    /\ \/ /\ op[r] = "chunk" /\ At(r, "wait", "pull")
          /\ UNCHANGED body
       \/ /\ op[r] = "bytes" /\ At(r, "wait", "drain")
          /\ body' = "none"
    /\ UNCHANGED <<cancelled, permits, owner, waiters, op, res, base, last, pulled, cpc, obj, got, late>>

\* resp.chunk().await: the next chunk, the end, or an error of the transport.
Pull(r) ==
    /\ At(r, "pull", "check")
    /\ base' = [base EXCEPT ![r] = pulled]
    /\ \/ /\ pulled < N
          /\ pulled' = pulled + 1
          /\ res' = [res EXCEPT ![r] = "data"]
       \/ /\ pulled = N
          /\ res' = [res EXCEPT ![r] = "eof"]
          /\ UNCHANGED pulled
       \/ /\ res' = [res EXCEPT ![r] = "err"]
          /\ UNCHANGED pulled
    /\ UNCHANGED <<cancelled, body, permits, owner, waiters, op, last, cpc, obj, got, late>>

\* Mutant: bytes reads the whole body again after some chunks were read.
DrainFromStart(r) ==
    /\ At(r, "drain", "check")
    /\ base' = [base EXCEPT ![r] = pulled]
    /\ pulled' = pulled + N
    /\ res' = [res EXCEPT ![r] = "data"]
    /\ UNCHANGED <<cancelled, body, permits, owner, waiters, op, last, cpc, obj, got, late>>

\* resp.bytes().await: all that is left, or an error.
Drain(r) ==
    /\ At(r, "drain", "check")
    /\ base' = [base EXCEPT ![r] = pulled]
    /\ \/ /\ pulled' = N
          /\ res' = [res EXCEPT ![r] = "data"]
       \/ /\ res' = [res EXCEPT ![r] = "err"]
          /\ UNCHANGED pulled
    /\ UNCHANGED <<cancelled, body, permits, owner, waiters, op, last, cpc, obj, got, late>>

\* Mutant: the load after the await is left out.
CheckNothing(r) ==
    /\ At(r, "check", "return")
    /\ UNCHANGED <<cancelled, body, permits, owner, waiters, op, res, base, last, pulled, cpc, obj, got, late>>

\* Mutant: what arrived is thrown away, the response stays.
CheckKeepsBody(r) ==
    /\ \/ /\ ~cancelled
          /\ At(r, "check", "return")
          /\ UNCHANGED <<owner, waiters, last>>
       \/ /\ cancelled
          /\ At(r, "check", "idle")
          /\ Unlock
          /\ last' = [last EXCEPT ![r] = "none"]
    /\ UNCHANGED <<cancelled, body, permits, op, res, base, pulled, cpc, obj, got, late>>

\* The load after the await: once cancelled, what arrived is thrown away and so
\* is the response.
Check(r) ==
    /\ \/ /\ ~cancelled
          /\ At(r, "check", "return")
          /\ UNCHANGED <<body, owner, waiters, last>>
       \/ /\ cancelled
          /\ At(r, "check", "idle")
          /\ body' = "none"
          /\ Unlock
          /\ last' = [last EXCEPT ![r] = "none"]
    /\ UNCHANGED <<cancelled, permits, op, res, base, pulled, cpc, obj, got, late>>

\* Mutant: the guard is forgotten.
ReturnKeepsLock(r) ==
    /\ At(r, "return", "idle")
    /\ body' = IF res[r] = "data" THEN body ELSE "none"
    /\ last' = [last EXCEPT ![r] = IF res[r] = "eof" THEN "none" ELSE res[r]]
    /\ UNCHANGED <<cancelled, permits, owner, waiters, op, res, base, pulled, cpc, obj, got, late>>

\* The result is returned and the guard dropped; at the end of the body, or on
\* an error, the response is dropped with it.
Return(r) ==
    /\ At(r, "return", "idle")
    /\ body' = IF res[r] = "data" THEN body ELSE "none"
    /\ got' = IF res[r] = "data" THEN got \o [i \in 1 .. pulled - base[r] |-> base[r] + i] ELSE got
    /\ late' = IF res[r] = "data" /\ cancelled THEN late + 1 ELSE late
    /\ last' = [last EXCEPT ![r] = IF res[r] = "eof" THEN "none" ELSE res[r]]
    /\ Unlock
    /\ UNCHANGED <<cancelled, permits, op, res, base, pulled, cpc, obj>>

-----------------------------------------------------------------------------
(* cancel and Drop.                                                        *)

CancelAt(k, from, to) == cpc[k] = from /\ cpc' = [cpc EXCEPT ![k] = to]

CancelStore(k) ==
    /\ obj = "held" /\ CancelAt(k, "idle", "permits")
    /\ cancelled' = TRUE
    /\ UNCHANGED <<body, permits, readVars, pulled, obj, got, late>>

CancelPermits(k) ==
    /\ CancelAt(k, "permits", "try")
    /\ permits' = FALSE
    /\ UNCHANGED <<cancelled, body, readVars, pulled, obj, got, late>>

\* try_lock: with the mutex free the response is dropped here.
CancelTry(k) ==
    /\ CancelAt(k, "try", "idle")
    /\ body' = IF owner = NoOne THEN "none" ELSE body
    /\ UNCHANGED <<cancelled, permits, readVars, pulled, obj, got, late>>

\* The last reference goes away: no call is running, for a call holds one.
Drop ==
    /\ obj = "held"
    /\ \A r \in Readers : pc[r] = "idle"
    /\ \A k \in Cancellers : cpc[k] = "idle"
    /\ obj' = "dropped" /\ body' = "none" /\ permits' = FALSE
    /\ UNCHANGED <<cancelled, readVars, pulled, cpc, got, late>>

Gone == obj = "dropped" /\ UNCHANGED vars

-----------------------------------------------------------------------------
Next ==
    \/ \E r \in Readers :
          \/ \E o \in {"chunk", "bytes"} : Begin(r, o)
          \/ Lock(r) \/ FindNothing(r) \/ FindBody(r)
          \/ Pull(r) \/ Drain(r) \/ Check(r) \/ Return(r)
    \/ \E k \in Cancellers : CancelStore(k) \/ CancelPermits(k) \/ CancelTry(k)
    \/ Drop \/ Gone

\* Every call that began runs on, and the transport answers or times out;
\* nobody has to begin a call, to cancel, or to drop the object.
Fairness ==
    /\ \A r \in Readers : WF_vars(Lock(r) \/ FindNothing(r) \/ FindBody(r)
                                  \/ Pull(r) \/ Drain(r) \/ Check(r) \/ Return(r))
    /\ \A k \in Cancellers : WF_vars(CancelPermits(k) \/ CancelTry(k))

Spec == Init /\ [][Next]_vars
FairSpec == Spec /\ Fairness

-----------------------------------------------------------------------------
TypeOK ==
    /\ cancelled \in BOOLEAN /\ permits \in BOOLEAN
    /\ body \in {"live", "none"} /\ obj \in {"held", "dropped"}
    /\ owner \in Readers \cup {NoOne} /\ waiters \in Seq(Readers)
    /\ pc \in [Readers -> ReaderPlaces] /\ op \in [Readers -> {"chunk", "bytes"}]
    /\ res \in [Readers -> Results] /\ last \in [Readers -> Results]
    /\ base \in [Readers -> Nat] /\ pulled \in 0 .. N
    /\ cpc \in [Cancellers -> {"idle", "permits", "try"}]
    /\ got \in Seq(Nat) /\ late \in Nat

\* Chunks come out in network order, each once and with none left out, whoever
\* reads them and whichever reads a cancel throws away (client.rs:446-448,
\* "chunks have to come out in order").
InOrder == \A i \in 1 .. Len(got) : got[i] = i

\* A cancel that races reads lets through at most the one read that had already
\* made its check: later reads, and reads that were queued on the mutex, return
\* no data (client.rs, the load after each await).
AtMostOneLate == late <= 1

\* When a cancel() has returned the gate's permits are gone, whatever a reader is
\* doing with the body and however many cancels overlap.  When no reader has the body
\* either, the response is gone too, whichever of them had to drop it, save behind the
\* one late chunk: then it stays for the next cancel or Drop, though client.rs:556-558
\* would have the reader drop it (client.rs:540-597).
CancelReleases ==
    /\ cancelled /\ (\A k \in Cancellers : cpc[k] # "permits") => ~permits
    /\ cancelled /\ (\A k \in Cancellers : cpc[k] = "idle") /\ owner = NoOne /\ body = "live"
       => late = 1

\* A call of read_chunk or bytes returns, cancelled or not: no reader is left
\* on the mutex (client.rs, read_chunk and bytes).
ReadsReturn == \A r \in Readers : pc[r] # "idle" ~> pc[r] = "idle"
=============================================================================

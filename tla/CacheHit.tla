------------------------------ MODULE CacheHit ------------------------------
(***************************************************************************)
(* A get of the key that a tee is storing (cache.rs, get and               *)
(* PqcCachedBody::poll_frame): it reads the index entry, looks in the      *)
(* memory tier, opens the content and hands the body out chunk by chunk,   *)
(* while the tee goes on, other calls remove the key and its content, and  *)
(* the process may end.                                                    *)
(*                                                                         *)
(* An open content stays readable when it is removed.  A file system that  *)
(* loses a part of it is the one fault here that the code does not see.    *)
(***************************************************************************)
EXTENDS TeeStream

CONSTANT Chunk        \* STREAM_CHUNK_SIZE

ASSUME ChunkAssumption == Chunk \in Nat \ {0}

VARIABLES get,          \* where the get, and then its body, is
          remaining,    \* body_size, then what is still to come
          given,        \* bytes handed out
          keyed,        \* nobody has removed the key
          linked,       \* nobody has removed the content
          cut           \* the file system lost a part of it

hit == <<get, remaining, given>>
store == <<keyed, linked, cut>>
hitVars == <<vars, hit, store>>

HitInit ==
    /\ Init
    /\ get = "none" /\ remaining = 0 /\ given = 0
    /\ keyed = TRUE /\ linked = TRUE /\ cut = FALSE

Get(from, to) == get = from /\ get' = to
Lesser(m, n) == IF m < n THEN m ELSE n

-----------------------------------------------------------------------------
(* get.                                                                    *)

\* Mutant: the sentinel is taken for an entry, whose size cacache has as 0.
LookupUnguarded ==
    /\ IF entry # "none" /\ keyed
       THEN Get("none", "head") /\ remaining' = (IF entry = "sized" THEN total ELSE 0)
       ELSE Get("none", "miss") /\ UNCHANGED remaining
    /\ UNCHANGED <<vars, given, store>>

\* The head: no entry, or one with body_size None, is a miss.
Lookup ==
    /\ IF entry = "sized" /\ keyed
       THEN Get("none", "head") /\ remaining' = total
       ELSE Get("none", "miss") /\ UNCHANGED remaining
    /\ UNCHANGED <<vars, given, store>>

\* The memory tier first; moka may have dropped what it had.
LookInMemory ==
    /\ \/ inMem /\ Get("head", "mem") /\ remaining' = Length(memEntry)
       \/ Get("head", "blob") /\ UNCHANGED remaining
    /\ UNCHANGED <<vars, given, store>>

\* open_hash: a content that is not there is a miss.
OpenContent ==
    /\ IF linked THEN Get("blob", "disk") ELSE Get("blob", "miss")
    /\ UNCHANGED <<vars, remaining, given, store>>

-----------------------------------------------------------------------------
(* poll_frame.                                                             *)

Give(n) == given' = given + n /\ remaining' = remaining - n

\* Buffered: a chunk is split off while there is one.
PollBuffered ==
    /\ IF remaining > 0
       THEN Get("mem", "mem") /\ Give(Lesser(Chunk, remaining))
       ELSE Get("mem", "eof") /\ UNCHANGED <<remaining, given>>
    /\ UNCHANGED <<vars, store>>

\* Cached: some of the next chunk, never past `remaining`; nothing, which ends
\* the body; or an error, which is the last of it.
PollCached ==
    /\ \/ \E n \in 1 .. Lesser(Lesser(Chunk, remaining), Length(blob) - given) :
             Give(n) /\ Get("disk", IF remaining' = 0 THEN "done" ELSE "disk")
       \/ /\ remaining = 0 \/ given = Length(blob) \/ cut
          /\ Get("disk", "eof") /\ UNCHANGED <<remaining, given>>
       \/ Get("disk", "err") /\ UNCHANGED <<remaining, given>>
    /\ UNCHANGED <<vars, store>>

PollDone == Get("done", "eof") /\ UNCHANGED <<vars, remaining, given, store>>

Reading == {"mem", "disk", "done"}
DropHit == get \in Reading /\ get' = "left" /\ UNCHANGED <<vars, remaining, given, store>>

-----------------------------------------------------------------------------
(* Around it: a delete, an eviction or a clear, the system's own cleaning  *)
(* of the cache directory, and the end of the process.                     *)

RemoveKey ==
    /\ entry = "sized" /\ keyed
    /\ keyed' = FALSE
    /\ UNCHANGED <<vars, hit, linked, cut>>

RemoveContent ==
    /\ entry = "sized" /\ linked
    /\ linked' = FALSE
    /\ UNCHANGED <<vars, hit, keyed, cut>>

CutContent ==
    /\ entry = "sized" /\ linked /\ ~cut
    /\ cut' = TRUE
    /\ UNCHANGED <<vars, hit, keyed, linked>>

\* What is asked after a crash is a new process's get.
HitDies ==
    /\ get' = IF get \in Reading \cup {"head", "blob"} THEN "left" ELSE get
    /\ UNCHANGED <<remaining, given, store>>

Aside == UNCHANGED <<hit, store>>

HitNext ==
    \/ (Open /\ Aside) \/ (PullData /\ Aside) \/ (PullTrailer /\ Aside)
    \/ (PullError /\ Aside) \/ (PullEnd /\ Aside)
    \/ (Send /\ Aside) \/ (SendError /\ Aside) \/ (SendNowhere /\ Aside) \/ (Write /\ Aside)
    \/ (Commit /\ Aside) \/ (Reinsert /\ Aside) \/ (Remember /\ Aside) \/ (Evict /\ Aside)
    \/ (Receive /\ Aside) \/ (ReceiveEnd /\ Aside) \/ (Leave /\ Aside) \/ (Crash /\ HitDies)
    \/ Lookup \/ LookInMemory \/ OpenContent
    \/ PollBuffered \/ PollCached \/ PollDone \/ DropHit
    \/ RemoveKey \/ RemoveContent \/ CutContent
    \/ (Over /\ Aside)

\* TeeStream's fairness; nobody has to ask for the body, nor to read it on.
HitSpec == HitInit /\ [][HitNext]_hitVars
FairHitSpec ==
    /\ HitSpec
    /\ WF_hitVars(TaskStep /\ Aside) /\ WF_hitVars((Receive \/ ReceiveEnd) /\ Aside)

-----------------------------------------------------------------------------
HitTypeOK ==
    /\ TypeOK
    /\ get \in {"none", "miss", "head", "blob", "eof", "err", "left"} \cup Reading
    /\ remaining \in Nat /\ given \in Nat
    /\ keyed \in BOOLEAN /\ linked \in BOOLEAN /\ cut \in BOOLEAN

\* A hit ends cleanly only with every byte of the response that was stored, be it
\* asked for while the tee is between its two index entries, and be its key and its
\* content removed while it is read (cache.rs:555-567, 320-391).
DeliveredWhole ==
    /\ given <= Length(Body)
    /\ get = "eof" /\ ~cut => given = Length(Body)
=============================================================================

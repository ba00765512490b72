----------------------------- MODULE TeeStream ------------------------------
(***************************************************************************)
(* The tee of one cache miss (cache.rs, put_tee): a task pulls the frames  *)
(* of the upstream body, sends each through a bounded channel to the       *)
(* reader and writes it to the cache.  At the end it commits an entry that *)
(* carries the sentinel, inserts it again with its size, fills the memory  *)
(* tier, evicts, and drops its sender: the end for the reader.  A step is  *)
(* what the task does up to its next await.                                *)
(***************************************************************************)
EXTENDS Naturals, Sequences, Sums

CONSTANTS Upstreams, \* bodies: the length of each frame, 0 for a trailer
          Depth,     \* TEE_CHANNEL_DEPTH
          EntryDisk, EntryMem

ASSUME TeeAssumption ==
    /\ Upstreams \subseteq Seq(Nat)
    /\ Depth \in Nat \ {0} /\ EntryDisk \in Nat /\ EntryMem \in Nat

VARIABLES task,                 \* where the task is
          frames,               \* the upstream body
          pulled, total,        \* frames taken off the upstream, and their bytes
          writing, written,     \* there is a writer, and the frames in it
          buffering, memBuf,    \* there is a mem_buf, and the frames in it
          channel,              \* sent and not received
          reader, heard, end,   \* the receiver, what it got, and what ended it
          entry, blob,          \* the index entry, and the content it names
          inMem, memEntry       \* the memory tier's entry

input == <<frames, pulled, total>>
sinks == <<writing, written, buffering, memBuf>>
out == <<channel, reader, heard, end>>
stored == <<entry, blob, inMem, memEntry>>
vars == <<task, input, sinks, out, stored>>

Places == {"open", "pull", "send", "fail", "write", "commit", "reinsert", "remember",
           "evict", "gone"}
Error == 0   \* in the channel: the upstream's error
IsData(f) == frames[f] > 0
\* The data among the first n frames; and all of it.
Data[n \in 0 .. Len(frames)] ==
    IF n = 0 THEN <<>> ELSE IF IsData(n) THEN Append(Data[n - 1], n) ELSE Data[n - 1]
Body == Data[Len(frames)]
Length(s) == Total([i \in DOMAIN s |-> frames[s[i]]])

Init ==
    /\ frames \in Upstreams
    /\ task = "open" /\ pulled = 0 /\ total = 0
    /\ writing = FALSE /\ written = <<>>
    /\ buffering = (EntryMem > 0) /\ memBuf = <<>>
    /\ channel = <<>> /\ reader = "held" /\ heard = <<>> /\ end = "open"
    /\ entry = "none" /\ blob = <<>> /\ inMem = FALSE /\ memEntry = <<>>

-----------------------------------------------------------------------------
(* The task.                                                               *)

Task(from, to) == task = from /\ task' = to
NoWriter == writing' = FALSE /\ written' = <<>>
NoBuffer == buffering' = FALSE /\ memBuf' = <<>>

Open ==
    /\ Task("open", "pull")
    /\ writing' \in BOOLEAN
    /\ UNCHANGED <<input, written, buffering, memBuf, out, stored>>

\* Mutant: the caps are compared with what came before this frame.
PullDataLate ==
    /\ Task("pull", "send") /\ pulled < Len(frames) /\ IsData(pulled + 1)
    /\ pulled' = pulled + 1 /\ total' = total + frames[pulled + 1]
    /\ LET full == writing /\ total > EntryDisk IN
       /\ IF full THEN NoWriter ELSE UNCHANGED <<writing, written>>
       /\ IF buffering /\ ~full /\ Length(memBuf) + frames[pulled + 1] <= EntryMem
          THEN memBuf' = Append(memBuf, pulled + 1) /\ UNCHANGED buffering
          ELSE NoBuffer
    /\ UNCHANGED <<frames, out, stored>>

\* Data: past per_entry_disk there is no more caching; past per_entry_mem, none
\* in memory.
PullData ==
    /\ Task("pull", "send") /\ pulled < Len(frames) /\ IsData(pulled + 1)
    /\ pulled' = pulled + 1 /\ total' = total + frames[pulled + 1]
    /\ LET full == writing /\ total' > EntryDisk IN
       /\ IF full THEN NoWriter ELSE UNCHANGED <<writing, written>>
       /\ IF buffering /\ ~full /\ Length(memBuf) + frames[pulled + 1] <= EntryMem
          THEN memBuf' = Append(memBuf, pulled + 1) /\ UNCHANGED buffering
          ELSE NoBuffer
    /\ UNCHANGED <<frames, out, stored>>

\* Mutant: the end of the body is not looked for.
PullTrailerPastEnd ==
    /\ Task("pull", "send")
    /\ pulled' = pulled + 1
    /\ UNCHANGED <<frames, total, sinks, out, stored>>

PullTrailer ==
    /\ Task("pull", "send") /\ pulled < Len(frames) /\ ~IsData(pulled + 1)
    /\ pulled' = pulled + 1
    /\ UNCHANGED <<frames, total, sinks, out, stored>>

\* Mutant: an error ends the loop like the end of the body does.
PullErrorBreaks ==
    /\ Task("pull", IF writing THEN "commit" ELSE "gone")
    /\ UNCHANGED <<input, sinks, out, stored>>

PullError ==
    /\ Task("pull", "fail")
    /\ UNCHANGED <<input, sinks, out, stored>>

\* Mutant: a task with nothing to commit keeps its sender.
PullEndKeepsSender ==
    /\ Task("pull", IF writing THEN "commit" ELSE "kept") /\ pulled = Len(frames)
    /\ UNCHANGED <<input, sinks, out, stored>>

PullEnd ==
    /\ Task("pull", IF writing THEN "commit" ELSE "gone") /\ pulled = Len(frames)
    /\ UNCHANGED <<input, sinks, out, stored>>

\* Mutant: the channel has no bound.
SendUnbounded ==
    /\ Task("send", IF writing /\ IsData(pulled) THEN "write" ELSE "pull")
    /\ reader = "held"
    /\ channel' = Append(channel, pulled)
    /\ UNCHANGED <<input, sinks, reader, heard, end, stored>>

\* tx.send(..).await waits for room.
Send ==
    /\ Task("send", IF writing /\ IsData(pulled) THEN "write" ELSE "pull")
    /\ reader = "held" /\ Len(channel) < Depth
    /\ channel' = Append(channel, pulled)
    /\ UNCHANGED <<input, sinks, reader, heard, end, stored>>

\* The error is handed on if it can be, and the writer dropped.
SendError ==
    /\ Task("fail", "gone")
    /\ reader = "held" /\ Len(channel) < Depth
    /\ channel' = Append(channel, Error)
    /\ NoWriter
    /\ UNCHANGED <<input, buffering, memBuf, reader, heard, end, stored>>

\* The receiver is gone: the task returns and the writer is dropped.
SendNowhere ==
    /\ task \in {"send", "fail"} /\ task' = "gone"
    /\ reader = "dropped"
    /\ NoWriter
    /\ UNCHANGED <<input, buffering, memBuf, out, stored>>

\* Mutant: a failed write is logged and the writer kept.
WriteAnyway ==
    /\ Task("write", "pull")
    /\ \/ written' = Append(written, pulled) \/ UNCHANGED written
    /\ UNCHANGED <<input, writing, buffering, memBuf, out, stored>>

Write ==
    /\ Task("write", "pull")
    /\ \/ /\ written' = Append(written, pulled)
          /\ UNCHANGED <<writing, buffering, memBuf>>
       \/ NoWriter /\ NoBuffer
    /\ UNCHANGED <<input, out, stored>>

Commit ==
    /\ \/ /\ Task("commit", "reinsert")
          /\ entry' = "unsized" /\ blob' = written
       \/ Task("commit", "gone") /\ UNCHANGED <<entry, blob>>
    /\ NoWriter
    /\ UNCHANGED <<input, buffering, memBuf, out, inMem, memEntry>>

\* body_size Some(total) goes into the index, or entry and content are removed.
Reinsert ==
    /\ \/ Task("reinsert", "remember") /\ entry' = "sized" /\ UNCHANGED blob
       \/ Task("reinsert", "gone") /\ entry' = "none" /\ blob' = <<>>
    /\ UNCHANGED <<input, sinks, out, inMem, memEntry>>

Remember ==
    /\ Task("remember", "evict")
    /\ inMem' = (buffering /\ total <= EntryMem)
    /\ memEntry' = IF inMem' THEN memBuf ELSE memEntry
    /\ UNCHANGED <<input, sinks, out, entry, blob>>

\* evict_if_over_budget, and the end of the task.
Evict == Task("evict", "gone") /\ UNCHANGED <<input, sinks, out, stored>>

-----------------------------------------------------------------------------
(* The reader, and the end of the process.                                 *)

Receive ==
    /\ reader = "held" /\ end = "open" /\ channel # <<>>
    /\ channel' = Tail(channel)
    /\ IF Head(channel) = Error
       THEN end' = "err" /\ UNCHANGED heard
       ELSE heard' = Append(heard, Head(channel)) /\ UNCHANGED end
    /\ UNCHANGED <<task, input, sinks, reader, stored>>

\* Every sender is gone.
ReceiveEnd ==
    /\ reader = "held" /\ end = "open" /\ channel = <<>> /\ task = "gone"
    /\ end' = "eof"
    /\ UNCHANGED <<task, input, sinks, channel, reader, heard, stored>>

Leave ==
    /\ reader = "held"
    /\ reader' = "dropped" /\ channel' = <<>> /\ end' = "left"
    /\ UNCHANGED <<task, input, sinks, heard, stored>>

\* The process ends between two steps: only the disk stays.
Crash ==
    /\ task # "gone"
    /\ task' = "gone" /\ NoWriter /\ NoBuffer
    /\ reader' = "dropped" /\ channel' = <<>> /\ end' = "left"
    /\ inMem' = FALSE /\ memEntry' = <<>>
    /\ UNCHANGED <<input, heard, entry, blob>>

Over == task = "gone" /\ end # "open" /\ UNCHANGED vars

-----------------------------------------------------------------------------
TaskStep ==
    \/ Open \/ PullData \/ PullTrailer \/ PullError \/ PullEnd
    \/ Send \/ SendError \/ SendNowhere \/ Write
    \/ Commit \/ Reinsert \/ Remember \/ Evict

Next == TaskStep \/ Receive \/ ReceiveEnd \/ Leave \/ Crash \/ Over

\* The runtime runs the task and the upstream answers or times out; the reader
\* that stays goes on reading.
Spec == Init /\ [][Next]_vars
FairSpec == Spec /\ WF_vars(TaskStep) /\ WF_vars(Receive \/ ReceiveEnd)

-----------------------------------------------------------------------------
TypeOK ==
    /\ task \in Places /\ frames \in Upstreams
    /\ pulled \in 0 .. Len(frames) /\ total \in Nat
    /\ writing \in BOOLEAN /\ written \in Seq(1 .. Len(frames))
    /\ buffering \in BOOLEAN /\ memBuf \in Seq(1 .. Len(frames))
    /\ channel \in Seq(0 .. Len(frames)) /\ reader \in {"held", "dropped"}
    /\ heard \in Seq(1 .. Len(frames)) /\ end \in {"open", "eof", "err", "left"}
    /\ entry \in {"none", "unsized", "sized"} /\ blob \in Seq(1 .. Len(frames))
    /\ inMem \in BOOLEAN /\ memEntry \in Seq(1 .. Len(frames))

\* What a get can find, on disk or in memory, is the whole body in order: not a
\* body cut short by an upstream error, a failed write, a reader that left or a
\* crash (cache.rs:870-878).
WholeOrNothing ==
    /\ entry = "sized" => blob = Body
    /\ inMem => memEntry = Body

\* The task is never further ahead of the reader than the channel and the frame in
\* hand, and its memory buffer stays within the per-entry cap (cache.rs:866-868,
\* 969-972).
Backpressure ==
    /\ reader = "held" /\ end = "open" => pulled <= Len(heard) + Depth + 1
    /\ Length(memBuf) <= EntryMem

\* A body past a cap is not kept in that tier, though its length came to light only
\* while it streamed (cache.rs:877-878, 969-972).
TooLongNotKept ==
    /\ Length(Body) > EntryDisk => entry = "none"
    /\ Length(Body) > EntryMem => ~inMem

BodyFrames == Len(frames)
Heard == Len(heard)
Published == entry = "sized"

\* The tee keeps TeePromise (cache.rs:859-878).
P == INSTANCE TeePromise WITH length <- BodyFrames, heard <- Heard, published <- Published
PromiseKept == P!Spec

\* A reader that goes on reading hears an end (cache.rs, put_tee: every return
\* drops the sender).
ReaderHearsEnd == <>(end # "open")
=============================================================================

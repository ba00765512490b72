----------------------------- MODULE BodyUpload -----------------------------
(***************************************************************************)
(* One streaming upload: the request that owns it, the BodyProviderStream  *)
(* that reqwest polls (client.rs), the blocking task of the chunk in       *)
(* flight, and the Android BodyProvider (PqcInterceptor.kt,                *)
(* OkHttpBodyProviderAdapter): a writer thread that pushes into a bounded  *)
(* okio.Pipe and nextChunk that pulls from it.  A dropped stream calls     *)
(* cancel() while its task may still run: the task is detached.  The iOS   *)
(* provider is InputStreamUpload's, the call around it OkHttpCall's.       *)
(***************************************************************************)
EXTENDS Naturals

CONSTANTS N,      \* chunks of the body
          Pipe,   \* PIPE_BUFFER, in chunks
          Chunk   \* CHUNK_SIZE, in chunks

ASSUME UploadAssumption == N \in Nat /\ Pipe \in Nat \ {0} /\ Chunk \in Nat \ {0}

VARIABLES req,          \* the request
          stream,       \* the BodyProviderStream
          job, given,   \* the blocking task, and what next_chunk returned
          taken, sent,  \* chunks read off the pipe, chunks given to reqwest
          outcome,      \* how the body ended for reqwest
          cancel,       \* how far cancel() is
          writer,       \* the writer thread
          pipe, pushed, \* chunks in the pipe, chunks ever pushed
          sinkClosed, writeError

rust == <<req, stream, sent, outcome, cancel>>
task == <<job, given>>
okio == <<pipe, pushed, sinkClosed, writeError>>
vars == <<rust, task, taken, writer, okio>>

Init ==
    /\ req = "building" /\ stream = "none" /\ job = "none" /\ given = 0
    /\ taken = 0 /\ sent = 0 /\ outcome = "open" /\ cancel = "no"
    /\ writer = "none" /\ pipe = 0 /\ pushed = 0 /\ sinkClosed = FALSE /\ writeError = FALSE

-----------------------------------------------------------------------------
(* The request.                                                            *)

\* A URL that does not parse, two bodies or a bad header: the provider was never
\* wrapped.
BuildFails ==
    /\ req = "building" /\ req' = "failed"
    /\ UNCHANGED <<stream, sent, outcome, cancel, task, taken, writer, okio>>

Build ==
    /\ req = "building" /\ req' = "sending" /\ stream' = "open"
    /\ UNCHANGED <<sent, outcome, cancel, task, taken, writer, okio>>

\* The head arrives, maybe before the body is out; or the connection, its
\* handshake or the deadline fails.
SendEnds ==
    /\ req = "sending" /\ req' \in {"answered", "failed"}
    /\ UNCHANGED <<stream, sent, outcome, cancel, task, taken, writer, okio>>

\* Mutant: there is no Drop that tells the provider.
DropStreamSilent ==
    /\ req \in {"answered", "failed"} /\ stream \in {"open", "done"}
    /\ stream' = "dropped"
    /\ job' = IF job \in {"given", "failed"} THEN "none" ELSE job
    /\ UNCHANGED <<req, sent, outcome, cancel, given, taken, writer, okio>>

\* reqwest lets go of the body; Drop calls the provider's cancel.
DropStream ==
    /\ req \in {"answered", "failed"} /\ stream \in {"open", "done"}
    /\ stream' = "dropped" /\ cancel' = "set"
    /\ job' = IF job \in {"given", "failed"} THEN "none" ELSE job
    /\ UNCHANGED <<req, sent, outcome, given, taken, writer, okio>>

-----------------------------------------------------------------------------
(* BodyProviderStream::poll_next.                                          *)

\* Mutant: a poll starts a task whether one is in flight or not.
PollSpawnAgain ==
    /\ stream = "open" /\ req = "sending" /\ job \in {"none", "given"}
    /\ job' = "check"
    /\ UNCHANGED <<rust, given, taken, writer, okio>>

PollSpawn ==
    /\ stream = "open" /\ req = "sending" /\ job = "none"
    /\ job' = "check"
    /\ UNCHANGED <<rust, given, taken, writer, okio>>

\* The provider failed: reqwest aborts the upload.
PollError ==
    /\ stream = "open" /\ job = "failed" /\ job' = "none"
    /\ stream' = "done" /\ outcome' = "err"
    /\ UNCHANGED <<req, sent, cancel, given, taken, writer, okio>>

\* A chunk, or None (0) at the end.
PollReady ==
    /\ stream = "open" /\ job = "given" /\ job' = "none"
    /\ \/ /\ given > 0
          /\ sent' = sent + given
          /\ UNCHANGED <<stream, outcome>>
       \/ /\ given = 0
          /\ stream' = "done" /\ outcome' = "eof"
          /\ UNCHANGED sent
    /\ UNCHANGED <<req, cancel, given, taken, writer, okio>>

-----------------------------------------------------------------------------
(* nextChunk, on a blocking thread, to its end even when nobody waits.     *)

Gives(n) ==
    /\ job' = IF stream = "dropped" THEN "none" ELSE "given"
    /\ given' = n

JobCheck ==
    /\ job = "check"
    /\ IF cancel = "no" THEN job' = "start" /\ UNCHANGED given ELSE Gives(0)
    /\ UNCHANGED <<rust, taken, writer, okio>>

\* ensureWriterStarted.
JobStart ==
    /\ job = "start" /\ job' = "read"
    /\ writer' = IF writer = "none" THEN "running" ELSE writer
    /\ UNCHANGED <<rust, given, taken, okio>>

Take ==
    /\ cancel # "closed" /\ pipe > 0
    /\ \E n \in 1 .. Chunk :
          /\ n <= pipe
          /\ pipe' = pipe - n /\ taken' = taken + n
          /\ Gives(n)

\* A read of a closed source throws; an empty pipe parks the reader until there is
\* more or its sink is closed (the close of the source does not wake it).
JobRead ==
    /\ \/ job \in {"read", "parked"} /\ Take
       \/ /\ \/ job = "read" /\ cancel = "closed"
             \/ job \in {"read", "parked"} /\ pipe = 0 /\ sinkClosed
          /\ job' = "end"
          /\ UNCHANGED <<pipe, taken, given>>
       \/ /\ job = "read" /\ cancel # "closed" /\ pipe = 0 /\ ~sinkClosed
          /\ job' = "parked"
          /\ UNCHANGED <<pipe, taken, given>>
    /\ UNCHANGED <<rust, writer, pushed, sinkClosed, writeError>>

JobEnd ==
    /\ job = "end"
    /\ \/ /\ writeError
          /\ job' = IF stream = "dropped" THEN "none" ELSE "failed"
          /\ UNCHANGED given
       \/ ~writeError /\ Gives(0)
    /\ UNCHANGED <<rust, taken, writer, okio>>

\* cancel(): source.close(), which throws away what the pipe holds.
CancelCloses ==
    /\ cancel = "set" /\ cancel' = "closed"
    /\ pipe' = 0
    /\ UNCHANGED <<req, stream, sent, outcome, task, taken, writer, pushed, sinkClosed, writeError>>

-----------------------------------------------------------------------------
(* The writer thread.                                                      *)

\* Mutant: the pipe takes what it is given.
WritePastBound ==
    /\ writer = "running" /\ pushed < N /\ cancel # "closed"
    /\ pipe' = pipe + 1 /\ pushed' = pushed + 1
    /\ UNCHANGED <<rust, task, taken, writer, sinkClosed, writeError>>

\* sink.write parks while the pipe is full.
Write ==
    /\ writer = "running" /\ pushed < N /\ cancel # "closed" /\ pipe < Pipe
    /\ pipe' = pipe + 1 /\ pushed' = pushed + 1
    /\ UNCHANGED <<rust, task, taken, writer, sinkClosed, writeError>>

\* writeTo throws of itself, or because the source is closed.
WriteThrows ==
    /\ writer = "running"
    /\ writer' = "failing"
    /\ UNCHANGED <<rust, task, taken, okio>>

WriteEnds ==
    /\ writer = "running" /\ pushed = N
    /\ writer' = "closing"
    /\ UNCHANGED <<rust, task, taken, okio>>

\* Mutant: the sink is closed before the error is kept.
WriteCatchLate ==
    /\ writer = "failing" /\ writer' = "closing"
    /\ sinkClosed' = TRUE
    /\ UNCHANGED <<rust, task, taken, pipe, pushed, writeError>>

WriteCatch ==
    /\ writer = "failing" /\ writer' = "closing"
    /\ writeError' = TRUE
    /\ UNCHANGED <<rust, task, taken, pipe, pushed, sinkClosed>>

WriteCloses ==
    /\ writer = "closing" /\ writer' = "gone"
    /\ sinkClosed' = TRUE
    /\ UNCHANGED <<rust, task, taken, pipe, pushed, writeError>>

-----------------------------------------------------------------------------
\* The request is over, whatever threads it left behind.
Over ==
    /\ req \in {"answered", "failed"} /\ stream \in {"none", "dropped"}
    /\ UNCHANGED vars

Job == JobCheck \/ JobStart \/ JobRead \/ JobEnd

-----------------------------------------------------------------------------
TypeOK ==
    /\ req \in {"building", "sending", "answered", "failed"}
    /\ stream \in {"none", "open", "done", "dropped"}
    /\ job \in {"none", "check", "start", "read", "parked", "end", "given", "failed"}
    /\ given \in 0 .. Chunk
    /\ taken \in 0 .. N /\ sent \in 0 .. N /\ outcome \in {"open", "eof", "err"}
    /\ cancel \in {"no", "set", "closed"}
    /\ writer \in {"none", "running", "failing", "closing", "gone"}
    /\ pipe \in 0 .. Pipe /\ pushed \in 0 .. N
    /\ sinkClosed \in BOOLEAN /\ writeError \in BOOLEAN

\* The body ends cleanly for the server only when all of it was sent: a source that
\* fails half way never looks like the end (PqcInterceptor.kt:362-371).
EndMeansWhole == outcome = "eof" => sent = N

\* Nothing is lost between the pipe and reqwest: what was taken off the pipe was
\* sent or is the chunk in hand, unless the stream is gone.
NothingLost ==
    stream = "open" => taken = sent + (IF job = "given" THEN given ELSE 0)
=============================================================================

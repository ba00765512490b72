------------------------------ MODULE Uploads -------------------------------
(***************************************************************************)
(* A call on either platform: on Android OkHttpCall around the upload out  *)
(* of a pipe, on iOS the upload out of an InputStream.                     *)
(***************************************************************************)
EXTENDS OkHttpCall, InputStreamUpload

VARIABLE platform

all == <<vars, call, input, platform>>

UploadsInit ==
    /\ platform \in {"android", "ios"}
    /\ Init /\ CallInit /\ InputInit
    /\ platform = "ios" => route = "stream"

OnApp == platform = "android" /\ UNCHANGED <<input, platform>>
OnPipe == OnApp /\ route = "stream" /\ app # "routing" /\ UNCHANGED call
OnIOS == platform = "ios" /\ UNCHANGED <<call, platform>>
OnInput == OnIOS /\ UNCHANGED input

Ended ==
    \/ platform = "android" /\ (app = "failed" \/ closed) /\ UNCHANGED all
    \/ platform = "ios" /\ Over /\ UNCHANGED all

UploadsNext ==
    \/ (OnApp /\ Route) \/ (OnApp /\ SendPlain) \/ (OnApp /\ RequestReturns)
    \/ (OnApp /\ SourceRead) \/ (OnApp /\ ReadNothing) \/ (OnApp /\ ReadPasses)
    \/ (OnApp /\ ReadReturnsChunk) \/ (OnApp /\ Close)
    \/ (OnPipe /\ BuildFails) \/ (OnPipe /\ Build) \/ (OnPipe /\ SendEnds) \/ (OnPipe /\ DropStream)
    \/ (OnPipe /\ PollSpawn) \/ (OnPipe /\ PollError) \/ (OnPipe /\ PollReady)
    \/ (OnPipe /\ JobCheck) \/ (OnPipe /\ JobStart) \/ (OnPipe /\ JobRead) \/ (OnPipe /\ JobEnd)
    \/ (OnPipe /\ CancelCloses)
    \/ (OnPipe /\ Write) \/ (OnPipe /\ WriteThrows) \/ (OnPipe /\ WriteEnds)
    \/ (OnPipe /\ WriteCatch) \/ (OnPipe /\ WriteCloses)
    \/ (OnInput /\ BuildFails) \/ (OnInput /\ Build) \/ (OnInput /\ SendEnds) \/ (OnInput /\ DropStream)
    \/ (OnInput /\ PollSpawn) \/ (OnInput /\ PollError) \/ (OnInput /\ PollReady)
    \/ (OnIOS /\ NextChunk) \/ (OnIOS /\ ReadReturns) \/ (OnIOS /\ CancelLocked)
    \/ Ended

\* Threads run; a request ends (it has a deadline) and lets go of its body; a
\* writer whose source is closed throws at its next write, which it comes to; an
\* InputStream answers, in the end, the read it was asked, and so does a transport.
\* Nobody has to read or to close.
Fairness ==
    /\ WF_all(OnApp /\ (Route \/ SendPlain \/ RequestReturns \/ Reading))
    /\ WF_all(OnPipe /\ (BuildFails \/ Build \/ SendEnds \/ DropStream))
    /\ WF_all(OnPipe /\ CancelCloses) /\ WF_all(OnPipe /\ Job)
    /\ WF_all(OnPipe /\ cancel = "closed" /\ WriteThrows)
    /\ WF_all(OnPipe /\ (WriteEnds \/ WriteCatch \/ WriteCloses))
    /\ WF_all(OnInput /\ (BuildFails \/ Build \/ SendEnds \/ DropStream))
    /\ WF_all(OnIOS /\ (NextChunk \/ ReadReturns)) /\ WF_all(OnIOS /\ CancelLocked)

Spec == UploadsInit /\ [][UploadsNext]_all
FairSpec == Spec /\ Fairness

-----------------------------------------------------------------------------
UploadTypeOK ==
    /\ TypeOK
    /\ platform \in {"android", "ios"}
    /\ lock \in {"free", "job"} /\ file \in {"new", "open", "closed"} /\ shut \in BOOLEAN
    /\ route \in {"none", "inline", "stream"}
    /\ app \in {"routing", "request", "failed", "open", "reading", "data", "empty", "error", "end"}
    /\ response \in {"none", "live", "gone"} /\ permits \in BOOLEAN
    /\ left \in 0 .. Reply /\ closed \in BOOLEAN
    /\ heard \in {"nothing", "data", "end", "error"}
    /\ broken \in BOOLEAN /\ hollow \in BOOLEAN

\* A dropped upload frees what it holds: on Android the writer thread and the
\* blocking thread, on iOS the blocking thread, the runtime thread in cancel() and
\* the InputStream, however the cancel races the nextChunk in flight, its check of
\* `cancelled` and the start of the writer (client.rs:853-859,
\* PqcInterceptor.kt:377-389, PqcURLProtocol.swift:300-310).
DropFreesAll ==
    stream = "dropped"
    ~> job = "none" /\ writer \in {"none", "gone"} /\ cancel = "closed" /\ file # "open"

\* A body that was closed, by whatever thread and in the middle of whatever read,
\* leaves neither permits nor a live connection, although cancel() alone can miss a
\* reader past its last look at `cancelled` (PqcInterceptor.kt:210-217).
CloseLeavesNothing == closed ~> response = "gone" /\ ~permits
=============================================================================

--------------------------- MODULE UploadsProofs ----------------------------
(***************************************************************************)
(* Proofs about Uploads, for any length of the bodies, any pipe and any    *)
(* size of the chunks, on either platform: types, and the safety of the    *)
(* upload, of the InputStream and of the source of the response.           *)
(***************************************************************************)
EXTENDS Uploads, TLAPS

USE UploadAssumption, ReplyAssumption
USE DEF vars, rust, task, okio, call, reply, input

-----------------------------------------------------------------------------
(* The invariant.                                                          *)

\* The provider is told of a drop and of nothing else; a chunk of no bytes in hand
\* means that the source has ended.
StreamInv ==
    /\ req = "building" => stream = "none"
    /\ stream = "none" => job = "none" /\ taken = 0 /\ sent = 0 /\ outcome = "open"
    /\ stream # "dropped" => cancel = "no"
    /\ stream = "open" /\ job = "given" /\ given = 0 => taken = N
    /\ outcome = "eof" => stream # "open"
    /\ NothingLost /\ EndMeansWhole

\* What the pipe holds; a sink closes after the whole body or after the error is kept.
PipeInv ==
    /\ platform = "android" /\ cancel # "closed" => taken + pipe = pushed
    /\ writer = "closing" /\ ~writeError => pushed = N
    /\ sinkClosed => writer = "gone" /\ (~writeError => pushed = N)
    /\ stream = "open" /\ job = "end" => pipe = 0 /\ sinkClosed
    /\ platform = "ios" => job \notin {"start", "parked", "end"}

\* The lock is held for a read and for nothing else, and only an upload that is over
\* shuts the InputStream.
InputInv ==
    /\ (lock = "job") <=> (platform = "ios" /\ job = "read")
    /\ ~shut => file # "closed"
    /\ stream = "none" => ~shut
    /\ platform = "ios" /\ shut /\ stream = "open"
       => job = "failed" \/ (job = "given" /\ given = 0)
    /\ ReadsOpenStream

\* A response that nobody closed is gone only after its end or an error.
CallInv ==
    /\ app = "end" => left = 0
    /\ app = "data" => left > 0
    /\ response = "gone" /\ ~closed => left = 0 \/ broken
    /\ EndOfSourceIsTrue

UploadInv == UploadTypeOK /\ StreamInv /\ PipeInv /\ InputInv /\ CallInv

USE DEF UploadTypeOK, TypeOK, StreamInv, PipeInv, InputInv, CallInv
USE DEF NothingLost, EndMeansWhole, ReadsOpenStream, EndOfSourceIsTrue

-----------------------------------------------------------------------------
(* Every step keeps it.                                                    *)

\* Chunks are counted within the body and the pipe within its bound.
LEMMA TypesHold == UploadInv /\ [UploadsNext]_all => UploadTypeOK'
<1> SUFFICES ASSUME UploadInv, [UploadsNext]_all PROVE UploadTypeOK'
  OBVIOUS
<1> USE DEF UploadInv, all
<1>1. CASE UNCHANGED all
  BY <1>1
<1>2. CASE OnApp /\ Route
  BY <1>2 DEF Route, OnApp
<1>3. CASE OnApp /\ SendPlain
  BY <1>3 DEF SendPlain, OnApp
<1>4. CASE OnApp /\ RequestReturns
  <2>1. TypeOK' /\ platform' \in {"android", "ios"} /\ left' \in 0 .. Reply
    BY <1>4 DEF RequestReturns, OnApp
  <2>2. response' \in {"none", "live", "gone"} /\ app' \in {"open", "failed"}
    BY <1>4 DEF RequestReturns, OnApp
  <2>3. permits' \in BOOLEAN
    BY <1>4, Zenon DEF RequestReturns, OnApp
  <2> QED
    BY <2>1, <2>2, <2>3, <1>4 DEF RequestReturns, OnApp
<1>5. CASE OnApp /\ SourceRead
  BY <1>5 DEF SourceRead, OnApp
<1>6. CASE OnApp /\ ReadNothing
  BY <1>6 DEF ReadNothing, OnApp, Hears
<1>7. CASE OnApp /\ ReadPasses
  BY <1>7 DEF ReadPasses, OnApp
<1>8. CASE OnApp /\ ReadReturnsChunk
  BY <1>8 DEF ReadReturnsChunk, OnApp, Hears
<1>9. CASE OnApp /\ Close
  <2>1. TypeOK' /\ platform' \in {"android", "ios"} /\ left' \in 0 .. Reply
    BY <1>9 DEF Close, OnApp
  <2>2. response' \in {"none", "live", "gone"}
    BY <1>9 DEF Close, OnApp
  <2>3. permits' \in BOOLEAN /\ closed' \in BOOLEAN
    BY <1>9, Zenon DEF Close, OnApp
  <2> QED
    BY <2>1, <2>2, <2>3, <1>9 DEF Close, OnApp
<1>10. CASE OnPipe /\ BuildFails
  BY <1>10 DEF BuildFails, OnPipe, OnApp
<1>11. CASE OnPipe /\ Build
  BY <1>11 DEF Build, OnPipe, OnApp
<1>12. CASE OnPipe /\ SendEnds
  BY <1>12 DEF SendEnds, OnPipe, OnApp
<1>13. CASE OnPipe /\ DropStream
  BY <1>13 DEF DropStream, OnPipe, OnApp
<1>14. CASE OnPipe /\ PollSpawn
  BY <1>14 DEF PollSpawn, OnPipe, OnApp
<1>15. CASE OnPipe /\ PollError
  BY <1>15 DEF PollError, OnPipe, OnApp
<1>16. CASE OnPipe /\ PollReady
  BY <1>16 DEF PollReady, OnPipe, OnApp
<1>17. CASE OnPipe /\ JobCheck
  BY <1>17 DEF JobCheck, OnPipe, OnApp, Gives
<1>18. CASE OnPipe /\ JobStart
  BY <1>18 DEF JobStart, OnPipe, OnApp
<1>19. CASE OnPipe /\ JobRead
  BY <1>19 DEF JobRead, OnPipe, OnApp, Take, Gives
<1>20. CASE OnPipe /\ JobEnd
  BY <1>20 DEF JobEnd, OnPipe, OnApp, Gives
<1>21. CASE OnPipe /\ CancelCloses
  BY <1>21 DEF CancelCloses, OnPipe, OnApp
<1>22. CASE OnPipe /\ Write
  BY <1>22 DEF Write, OnPipe, OnApp
<1>23. CASE OnPipe /\ WriteThrows
  BY <1>23 DEF WriteThrows, OnPipe, OnApp
<1>24. CASE OnPipe /\ WriteEnds
  BY <1>24 DEF WriteEnds, OnPipe, OnApp
<1>25. CASE OnPipe /\ WriteCatch
  BY <1>25 DEF WriteCatch, OnPipe, OnApp
<1>26. CASE OnPipe /\ WriteCloses
  BY <1>26 DEF WriteCloses, OnPipe, OnApp
<1>27. CASE OnInput /\ BuildFails
  BY <1>27 DEF BuildFails, OnInput, OnIOS
<1>28. CASE OnInput /\ Build
  BY <1>28 DEF Build, OnInput, OnIOS
<1>29. CASE OnInput /\ SendEnds
  BY <1>29 DEF SendEnds, OnInput, OnIOS
<1>30. CASE OnInput /\ DropStream
  BY <1>30 DEF DropStream, OnInput, OnIOS
<1>31. CASE OnInput /\ PollSpawn
  BY <1>31 DEF PollSpawn, OnInput, OnIOS
<1>32. CASE OnInput /\ PollError
  BY <1>32 DEF PollError, OnInput, OnIOS
<1>33. CASE OnInput /\ PollReady
  BY <1>33 DEF PollReady, OnInput, OnIOS
<1>34. CASE OnIOS /\ NextChunk
  BY <1>34 DEF NextChunk, OnIOS, Gives
<1>35. CASE OnIOS /\ ReadReturns
  <2>1. taken' \in 0 .. N /\ given' \in 0 .. Chunk
    BY <1>35 DEF ReadReturns, OnIOS, Gives, CloseIfOpen
  <2>2. job' \in {"none", "given", "failed"}
    BY <1>35 DEF ReadReturns, OnIOS, Gives, CloseIfOpen
  <2>3. file' \in {"new", "open", "closed"}
    BY <1>35 DEF ReadReturns, OnIOS, Gives, CloseIfOpen
  <2>4. shut' \in BOOLEAN
    BY <1>35, Zenon DEF ReadReturns, OnIOS, Gives, CloseIfOpen
  <2> QED
    BY <2>1, <2>2, <2>3, <2>4, <1>35 DEF ReadReturns, OnIOS, Gives, CloseIfOpen
<1>36. CASE OnIOS /\ CancelLocked
  BY <1>36 DEF CancelLocked, OnIOS, CloseIfOpen
<1> QED
  BY <1>1, <1>2, <1>3, <1>4, <1>5, <1>6, <1>7, <1>8, <1>9, <1>10, <1>11, <1>12,
     <1>13, <1>14, <1>15, <1>16, <1>17, <1>18, <1>19, <1>20, <1>21, <1>22, <1>23,
     <1>24, <1>25, <1>26, <1>27, <1>28, <1>29, <1>30, <1>31, <1>32, <1>33, <1>34,
     <1>35, <1>36
  DEF UploadsNext, Ended, Over

\* What reqwest was given.
LEMMA StreamHolds == UploadInv /\ [UploadsNext]_all => StreamInv'
<1> SUFFICES ASSUME UploadInv, [UploadsNext]_all PROVE StreamInv'
  OBVIOUS
<1> USE DEF UploadInv, all
<1>1. CASE UNCHANGED <<req, stream, job, given, taken, sent, outcome, cancel>>
  BY <1>1
<1>2. CASE OnApp /\ SendPlain
  BY <1>2 DEF SendPlain, OnApp
<1>3. CASE OnPipe /\ BuildFails
  BY <1>3 DEF BuildFails, OnPipe, OnApp
<1>4. CASE OnPipe /\ Build
  BY <1>4 DEF Build, OnPipe, OnApp
<1>5. CASE OnPipe /\ SendEnds
  BY <1>5 DEF SendEnds, OnPipe, OnApp
<1>6. CASE OnPipe /\ DropStream
  BY <1>6 DEF DropStream, OnPipe, OnApp
<1>7. CASE OnPipe /\ PollSpawn
  BY <1>7 DEF PollSpawn, OnPipe, OnApp
<1>8. CASE OnPipe /\ PollError
  BY <1>8 DEF PollError, OnPipe, OnApp
<1>9. CASE OnPipe /\ PollReady
  BY <1>9 DEF PollReady, OnPipe, OnApp
<1>10. CASE OnPipe /\ JobCheck
  BY <1>10 DEF JobCheck, OnPipe, OnApp, Gives
<1>11. CASE OnPipe /\ JobStart
  BY <1>11 DEF JobStart, OnPipe, OnApp
<1>12. CASE OnPipe /\ JobRead
  BY <1>12 DEF JobRead, OnPipe, OnApp, Take, Gives
<1>13. CASE OnPipe /\ JobEnd
  BY <1>13 DEF JobEnd, OnPipe, OnApp, Gives
<1>14. CASE OnPipe /\ CancelCloses
  BY <1>14 DEF CancelCloses, OnPipe, OnApp
<1>15. CASE OnInput /\ BuildFails
  BY <1>15 DEF BuildFails, OnInput, OnIOS
<1>16. CASE OnInput /\ Build
  BY <1>16 DEF Build, OnInput, OnIOS
<1>17. CASE OnInput /\ SendEnds
  BY <1>17 DEF SendEnds, OnInput, OnIOS
<1>18. CASE OnInput /\ DropStream
  BY <1>18 DEF DropStream, OnInput, OnIOS
<1>19. CASE OnInput /\ PollSpawn
  BY <1>19 DEF PollSpawn, OnInput, OnIOS
<1>20. CASE OnInput /\ PollError
  BY <1>20 DEF PollError, OnInput, OnIOS
<1>21. CASE OnInput /\ PollReady
  BY <1>21 DEF PollReady, OnInput, OnIOS
<1>22. CASE OnIOS /\ NextChunk
  BY <1>22 DEF NextChunk, OnIOS, Gives
<1>23. CASE OnIOS /\ ReadReturns
  BY <1>23 DEF ReadReturns, OnIOS, Gives, CloseIfOpen
<1>24. CASE OnIOS /\ CancelLocked
  BY <1>24 DEF CancelLocked, OnIOS, CloseIfOpen
<1> QED
  BY <1>1, <1>2, <1>3, <1>4, <1>5, <1>6, <1>7, <1>8, <1>9, <1>10, <1>11, <1>12,
     <1>13, <1>14, <1>15, <1>16, <1>17, <1>18, <1>19, <1>20, <1>21, <1>22, <1>23,
     <1>24
  DEF UploadsNext, Ended, Over, Route, OnApp, RequestReturns, SourceRead,
     ReadNothing, Hears, ReadPasses, ReadReturnsChunk, Close, Write, OnPipe,
     WriteThrows, WriteEnds, WriteCatch, WriteCloses

\* What the writer and the pipe hold.
LEMMA PipeHolds == UploadInv /\ [UploadsNext]_all => PipeInv'
<1> SUFFICES ASSUME UploadInv, [UploadsNext]_all PROVE PipeInv'
  OBVIOUS
<1> USE DEF UploadInv, all
<1>1. CASE UNCHANGED <<platform, stream, job, cancel, taken, writer, pipe, pushed, sinkClosed, writeError>>
  BY <1>1
<1>2. CASE OnPipe /\ Build
  BY <1>2 DEF Build, OnPipe, OnApp
<1>3. CASE OnPipe /\ DropStream
  BY <1>3 DEF DropStream, OnPipe, OnApp
<1>4. CASE OnPipe /\ PollSpawn
  BY <1>4 DEF PollSpawn, OnPipe, OnApp
<1>5. CASE OnPipe /\ PollError
  BY <1>5 DEF PollError, OnPipe, OnApp
<1>6. CASE OnPipe /\ PollReady
  BY <1>6 DEF PollReady, OnPipe, OnApp
<1>7. CASE OnPipe /\ JobCheck
  BY <1>7 DEF JobCheck, OnPipe, OnApp, Gives
<1>8. CASE OnPipe /\ JobStart
  BY <1>8 DEF JobStart, OnPipe, OnApp
<1>9. CASE OnPipe /\ JobRead
  BY <1>9 DEF JobRead, OnPipe, OnApp, Take, Gives
<1>10. CASE OnPipe /\ JobEnd
  BY <1>10 DEF JobEnd, OnPipe, OnApp, Gives
<1>11. CASE OnPipe /\ CancelCloses
  BY <1>11 DEF CancelCloses, OnPipe, OnApp
<1>12. CASE OnPipe /\ Write
  BY <1>12 DEF Write, OnPipe, OnApp
<1>13. CASE OnPipe /\ WriteThrows
  BY <1>13 DEF WriteThrows, OnPipe, OnApp
<1>14. CASE OnPipe /\ WriteEnds
  BY <1>14 DEF WriteEnds, OnPipe, OnApp
<1>15. CASE OnPipe /\ WriteCatch
  BY <1>15 DEF WriteCatch, OnPipe, OnApp
<1>16. CASE OnPipe /\ WriteCloses
  BY <1>16 DEF WriteCloses, OnPipe, OnApp
<1>17. CASE OnInput /\ Build
  BY <1>17 DEF Build, OnInput, OnIOS
<1>18. CASE OnInput /\ DropStream
  BY <1>18 DEF DropStream, OnInput, OnIOS
<1>19. CASE OnInput /\ PollSpawn
  BY <1>19 DEF PollSpawn, OnInput, OnIOS
<1>20. CASE OnInput /\ PollError
  BY <1>20 DEF PollError, OnInput, OnIOS
<1>21. CASE OnInput /\ PollReady
  BY <1>21 DEF PollReady, OnInput, OnIOS
<1>22. CASE OnIOS /\ NextChunk
  BY <1>22 DEF NextChunk, OnIOS, Gives
<1>23. CASE OnIOS /\ ReadReturns
  BY <1>23 DEF ReadReturns, OnIOS, Gives, CloseIfOpen
<1>24. CASE OnIOS /\ CancelLocked
  BY <1>24 DEF CancelLocked, OnIOS, CloseIfOpen
<1> QED
  BY <1>1, <1>2, <1>3, <1>4, <1>5, <1>6, <1>7, <1>8, <1>9, <1>10, <1>11, <1>12,
     <1>13, <1>14, <1>15, <1>16, <1>17, <1>18, <1>19, <1>20, <1>21, <1>22, <1>23,
     <1>24
  DEF UploadsNext, Ended, Over, Route, OnApp, SendPlain, RequestReturns, SourceRead,
     ReadNothing, Hears, ReadPasses, ReadReturnsChunk, Close, BuildFails, OnPipe,
     SendEnds, OnInput, OnIOS

\* Who uses the InputStream.
LEMMA InputHolds == UploadInv /\ [UploadsNext]_all => InputInv'
<1> SUFFICES ASSUME UploadInv, [UploadsNext]_all PROVE InputInv'
  OBVIOUS
<1> USE DEF UploadInv, all
<1>1. CASE UNCHANGED <<platform, stream, job, given, lock, file, shut>>
  BY <1>1
<1>2. CASE OnPipe /\ Build
  BY <1>2 DEF Build, OnPipe, OnApp
<1>3. CASE OnPipe /\ DropStream
  BY <1>3 DEF DropStream, OnPipe, OnApp
<1>4. CASE OnPipe /\ PollSpawn
  BY <1>4 DEF PollSpawn, OnPipe, OnApp
<1>5. CASE OnPipe /\ PollError
  BY <1>5 DEF PollError, OnPipe, OnApp
<1>6. CASE OnPipe /\ PollReady
  BY <1>6 DEF PollReady, OnPipe, OnApp
<1>7. CASE OnPipe /\ JobCheck
  BY <1>7 DEF JobCheck, OnPipe, OnApp, Gives
<1>8. CASE OnPipe /\ JobStart
  BY <1>8 DEF JobStart, OnPipe, OnApp
<1>9. CASE OnPipe /\ JobRead
  BY <1>9 DEF JobRead, OnPipe, OnApp, Take, Gives
<1>10. CASE OnPipe /\ JobEnd
  BY <1>10 DEF JobEnd, OnPipe, OnApp, Gives
<1>11. CASE OnPipe /\ CancelCloses
  BY <1>11 DEF CancelCloses, OnPipe, OnApp
<1>12. CASE OnInput /\ Build
  BY <1>12 DEF Build, OnInput, OnIOS
<1>13. CASE OnInput /\ DropStream
  BY <1>13 DEF DropStream, OnInput, OnIOS
<1>14. CASE OnInput /\ PollSpawn
  BY <1>14 DEF PollSpawn, OnInput, OnIOS
<1>15. CASE OnInput /\ PollError
  BY <1>15 DEF PollError, OnInput, OnIOS
<1>16. CASE OnInput /\ PollReady
  BY <1>16 DEF PollReady, OnInput, OnIOS
<1>17. CASE OnIOS /\ NextChunk
  BY <1>17 DEF NextChunk, OnIOS, Gives
<1>18. CASE OnIOS /\ ReadReturns
  BY <1>18 DEF ReadReturns, OnIOS, Gives, CloseIfOpen
<1>19. CASE OnIOS /\ CancelLocked
  BY <1>19 DEF CancelLocked, OnIOS, CloseIfOpen
<1> QED
  BY <1>1, <1>2, <1>3, <1>4, <1>5, <1>6, <1>7, <1>8, <1>9, <1>10, <1>11, <1>12,
     <1>13, <1>14, <1>15, <1>16, <1>17, <1>18, <1>19
  DEF UploadsNext, Ended, Over, Route, OnApp, SendPlain, RequestReturns, SourceRead,
     ReadNothing, Hears, ReadPasses, ReadReturnsChunk, Close, BuildFails, OnPipe,
     SendEnds, Write, WriteThrows, WriteEnds, WriteCatch, WriteCloses, OnInput,
     OnIOS

\* What the source of the response has told.
LEMMA CallHolds == UploadInv /\ [UploadsNext]_all => CallInv'
<1> SUFFICES ASSUME UploadInv, [UploadsNext]_all PROVE CallInv'
  OBVIOUS
<1> USE DEF UploadInv, all
<1>1. CASE UNCHANGED <<call>>
  BY <1>1
<1>2. CASE OnApp /\ Route
  BY <1>2 DEF Route, OnApp
<1>3. CASE OnApp /\ RequestReturns
  BY <1>3 DEF RequestReturns, OnApp
<1>4. CASE OnApp /\ SourceRead
  BY <1>4 DEF SourceRead, OnApp
<1>5. CASE OnApp /\ ReadNothing
  BY <1>5 DEF ReadNothing, OnApp, Hears
<1>6. CASE OnApp /\ ReadPasses
  BY <1>6 DEF ReadPasses, OnApp
<1>7. CASE OnApp /\ ReadReturnsChunk
  <2>1. app' = "open"
    BY <1>7 DEF ReadReturnsChunk, OnApp, Hears
  <2>2. CASE app = "data"
    BY <2>2, <1>7 DEF ReadReturnsChunk, OnApp, Hears
  <2>3. CASE app = "empty"
    BY <2>3, <1>7 DEF ReadReturnsChunk, OnApp, Hears
  <2>4. CASE app = "error"
    BY <2>4, <1>7 DEF ReadReturnsChunk, OnApp, Hears
  <2>5. CASE app = "end"
    BY <2>5, <1>7 DEF ReadReturnsChunk, OnApp, Hears
  <2> QED
    BY <2>2, <2>3, <2>4, <2>5, <1>7 DEF ReadReturnsChunk
<1>8. CASE OnApp /\ Close
  BY <1>8 DEF Close, OnApp
<1> QED
  BY <1>1, <1>2, <1>3, <1>4, <1>5, <1>6, <1>7, <1>8
  DEF UploadsNext, Ended, Over, SendPlain, OnApp, BuildFails, OnPipe, Build,
     SendEnds, DropStream, PollSpawn, PollError, PollReady, JobCheck, Gives,
     JobStart, JobRead, Take, JobEnd, CancelCloses, Write, WriteThrows, WriteEnds,
     WriteCatch, WriteCloses, OnInput, OnIOS, NextChunk, ReadReturns, CloseIfOpen,
     CancelLocked

-----------------------------------------------------------------------------
(* The theorems.                                                           *)

\* UploadInv is inductive.
LEMMA Invariance == Spec => []UploadInv
<1>1. UploadsInit => UploadInv
  <2> SUFFICES ASSUME UploadsInit PROVE UploadInv
    OBVIOUS
  <2> USE DEF UploadsInit, Init, CallInit, InputInit
  <2>1. TypeOK
    <3>1. sinkClosed \in BOOLEAN /\ writeError \in BOOLEAN
      BY Zenon
    <3>2. given \in 0 .. Chunk /\ taken \in 0 .. N /\ sent \in 0 .. N
          /\ pipe \in 0 .. Pipe /\ pushed \in 0 .. N
      OBVIOUS
    <3> QED
      BY <3>1, <3>2
  <2>2. permits \in BOOLEAN /\ closed \in BOOLEAN /\ broken \in BOOLEAN /\ hollow \in BOOLEAN
    BY Zenon
  <2>3. shut \in BOOLEAN
    BY Zenon
  <2>4. UploadTypeOK
    BY <2>1, <2>2, <2>3
  <2>5. StreamInv /\ PipeInv
    OBVIOUS
  <2>6. InputInv
    OBVIOUS
  <2>7. CallInv
    OBVIOUS
  <2> QED
    BY <2>4, <2>5, <2>6, <2>7 DEF UploadInv
<1>2. UploadInv /\ [UploadsNext]_all => UploadInv'
  BY TypesHold, StreamHolds, PipeHolds, InputHolds, CallHolds DEF UploadInv
<1> QED
  BY <1>1, <1>2, PTL DEF Spec

\* The state of a call keeps its types: the pipe never holds more than PIPE_BUFFER.
\* (PqcInterceptor.kt:293-297).
THEOREM TypeCorrect == Spec => []UploadTypeOK
<1>1. UploadInv => UploadTypeOK
  BY DEF UploadInv
<1> QED
  BY Invariance, <1>1, PTL

\* The server sees a clean end only of a whole body, for any body, pipe and chunks, and
\* on either platform (PqcInterceptor.kt:362-371).
THEOREM EndsWhole == Spec => []EndMeansWhole
<1>1. UploadInv => EndMeansWhole
  BY DEF UploadInv
<1> QED
  BY Invariance, <1>1, PTL

\* No chunk is lost or sent twice between the provider and reqwest (client.rs:784-833).
THEOREM KeepsChunks == Spec => []NothingLost
<1>1. UploadInv => NothingLost
  BY DEF UploadInv
<1> QED
  BY Invariance, <1>1, PTL

\* An InputStream is never read after or under its close (PqcURLProtocol.swift:273-283).
THEOREM ReadsOpen == Spec => []ReadsOpenStream
<1>1. UploadInv => ReadsOpenStream
  BY DEF UploadInv
<1> QED
  BY Invariance, <1>1, PTL

\* The source of an open response ends only where the response does, or where an error
\* or an empty chunk has ended it (PqcInterceptor.kt:203-208).
THEOREM EndsTrue == Spec => []EndOfSourceIsTrue
<1>1. UploadInv => EndOfSourceIsTrue
  BY DEF UploadInv
<1> QED
  BY Invariance, <1>1, PTL
=============================================================================

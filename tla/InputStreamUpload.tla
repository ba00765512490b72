------------------------- MODULE InputStreamUpload --------------------------
(***************************************************************************)
(* The same upload with the iOS BodyProvider (PqcURLProtocol.swift,        *)
(* InputStreamBodyProvider): nextChunk reads an InputStream, which is not  *)
(* thread-safe, with an NSLock in its hand; cancel() wants the lock too,   *)
(* on the runtime thread that drops the BodyProviderStream.                *)
(***************************************************************************)
EXTENDS BodyUpload

VARIABLES lock,   \* who has the NSLock
          file,   \* the InputStream
          shut    \* `closed`

input == <<lock, file, shut>>

InputInit == lock = "free" /\ file = "new" /\ shut = FALSE

\* closeIfOpenLocked.
CloseIfOpen ==
    /\ shut' = TRUE
    /\ file' = IF file = "open" /\ ~shut THEN "closed" ELSE file

-----------------------------------------------------------------------------
\* nextChunk, up to the read: nil once closed, else the stream is open.
NextChunk ==
    /\ job = "check" /\ lock = "free"
    /\ IF shut
       THEN Gives(0) /\ UNCHANGED input
       ELSE /\ job' = "read" /\ lock' = "job"
            /\ file' = IF file = "new" THEN "open" ELSE file
            /\ UNCHANGED <<given, shut>>
    /\ UNCHANGED <<rust, taken, writer, okio>>

\* stream.read returns when the source has something to say: bytes, its end, or an
\* error, which is thrown.
ReadReturns ==
    /\ job = "read" /\ lock' = "free"
    /\ \/ \E n \in 1 .. Chunk :
             /\ taken + n <= N /\ taken' = taken + n
             /\ Gives(n)
             /\ UNCHANGED <<file, shut>>
       \/ taken = N /\ Gives(0) /\ CloseIfOpen /\ UNCHANGED taken
       \/ /\ job' = IF stream = "dropped" THEN "none" ELSE "failed"
          /\ CloseIfOpen
          /\ UNCHANGED <<given, taken>>
    /\ UNCHANGED <<rust, writer, okio>>

\* Mutant: cancel does not wait for the read in flight.
CancelNow ==
    /\ cancel = "set" /\ cancel' = "closed"
    /\ CloseIfOpen
    /\ UNCHANGED <<req, stream, sent, outcome, task, taken, writer, okio, lock>>

\* cancel(): the lock, then the close.
CancelLocked ==
    /\ cancel = "set" /\ cancel' = "closed"
    /\ lock = "free"
    /\ CloseIfOpen
    /\ UNCHANGED <<req, stream, sent, outcome, task, taken, writer, okio, lock>>

-----------------------------------------------------------------------------
\* The stream is read only while it is open, with the lock in hand, whenever the
\* request is dropped: never after a close and never under one
\* (PqcURLProtocol.swift:279-283).
ReadsOpenStream == lock = "job" => job = "read" /\ file = "open" /\ ~shut
=============================================================================

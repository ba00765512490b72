----------------------------- MODULE OkHttpCall ------------------------------
(***************************************************************************)
(* One call through the Android interceptor (PqcInterceptor.kt): the body  *)
(* is read into memory or handed on as a stream, the calling thread blocks *)
(* in request, and what it gets is a ResponseBody whose source is          *)
(* readChunk and whose close is cancel and destroy, called by any thread.  *)
(* Of the PqcResponse behind it only what these calls can tell is kept.    *)
(***************************************************************************)
EXTENDS BodyUpload

CONSTANT Reply    \* chunks of the response body

ASSUME ReplyAssumption == Reply \in Nat

VARIABLES route,      \* how the request's body is sent
          app,        \* where the call is
          response, permits,  \* the PqcResponse's body, and its permits
          left,       \* chunks not read yet
          closed,     \* close() has run
          heard,      \* what the last read of the source gave
          broken, hollow  \* a read has thrown; an empty chunk has come (history)

reply == <<response, permits, left, closed, heard, broken, hollow>>
call == <<route, app, reply>>

CallInit ==
    /\ route \in {"none", "inline", "stream"} /\ app = "routing"
    /\ response = "none" /\ permits = FALSE /\ left = Reply /\ closed = FALSE
    /\ heard = "nothing" /\ broken = FALSE /\ hollow = FALSE

-----------------------------------------------------------------------------
(* intercept.                                                              *)

\* A small body is written into a buffer at once, which may throw.
Route ==
    /\ app = "routing"
    /\ \/ app' = "request"
       \/ route = "inline" /\ app' = "failed"
    /\ UNCHANGED <<vars, route, reply>>

\* request without a provider.
SendPlain ==
    /\ app = "request" /\ route # "stream"
    /\ \/ req = "building" /\ req' \in {"sending", "failed"}
       \/ req = "sending" /\ req' \in {"answered", "failed"}
    /\ UNCHANGED <<stream, sent, outcome, cancel, task, taken, writer, okio, call>>

\* The response is wrapped, or the error is thrown on as an IOException.
RequestReturns ==
    /\ app = "request" /\ req \in {"answered", "failed"}
    /\ IF req = "answered"
       THEN app' = "open" /\ response' = "live" /\ permits' = TRUE
       ELSE app' = "failed" /\ UNCHANGED <<response, permits>>
    /\ UNCHANGED <<vars, route, left, closed, heard, broken, hollow>>

-----------------------------------------------------------------------------
(* The source.                                                             *)

SourceRead ==
    /\ app = "open" /\ ~closed
    /\ app' = "reading"
    /\ UNCHANGED <<vars, route, reply>>

Hears(what) ==
    /\ app' = "open" /\ heard' = what
    /\ broken' = (broken \/ what = "error")

\* readChunk finds no body, or the cancel: null, and so -1.  The last call on a
\* destroyed object frees it.
ReadNothing ==
    /\ app = "reading" /\ (closed \/ response = "gone")
    /\ Hears("end")
    /\ response' = "gone"
    /\ UNCHANGED <<vars, route, permits, left, closed, hollow>>

\* The frame or the end or the error is here, and readChunk's last look at
\* `cancelled` over.
ReadPasses ==
    /\ app = "reading" /\ ~closed /\ response = "live"
    /\ app' \in {"data", "empty", "error"} \cup (IF left = 0 THEN {"end"} ELSE {})
    /\ app' = "data" => left > 0
    /\ UNCHANGED <<vars, route, reply>>

\* Mutant: the object is not destroyed at the close.
ReadReturnsUndestroyed ==
    /\ app \in {"data", "empty", "error", "end"}
    /\ Hears(IF app = "empty" THEN "end" ELSE app)
    /\ left' = IF app = "data" THEN left - 1 ELSE left
    /\ hollow' = (hollow \/ app = "empty")
    /\ response' = IF app \in {"error", "end"} THEN "gone" ELSE response
    /\ UNCHANGED <<vars, route, permits, closed>>

\* Mutant: an error ends the source.
ReadReturnsQuietly ==
    /\ app \in {"data", "empty", "error", "end"}
    /\ Hears(IF app = "data" THEN "data" ELSE "end")
    /\ left' = IF app = "data" THEN left - 1 ELSE left
    /\ hollow' = (hollow \/ app = "empty")
    /\ response' = IF app \in {"error", "end"} \/ closed THEN "gone" ELSE response
    /\ UNCHANGED <<vars, route, permits, closed>>

\* An empty chunk is told as the end, an error as a PqcException.
ReadReturnsChunk ==
    /\ app \in {"data", "empty", "error", "end"}
    /\ Hears(IF app = "empty" THEN "end" ELSE app)
    /\ left' = IF app = "data" THEN left - 1 ELSE left
    /\ hollow' = (hollow \/ app = "empty")
    /\ response' = IF app \in {"error", "end"} \/ closed THEN "gone" ELSE response
    /\ UNCHANGED <<vars, route, permits, closed>>

\* cancel and destroy: with a read in flight the body stays until that returns.
Close ==
    /\ app \notin {"routing", "request", "failed"} /\ ~closed
    /\ closed' = TRUE /\ permits' = FALSE
    /\ response' = IF app = "open" THEN "gone" ELSE response
    /\ UNCHANGED <<vars, route, app, left, heard, broken, hollow>>

Reading == ReadNothing \/ ReadPasses \/ ReadReturnsChunk

-----------------------------------------------------------------------------
\* -1 from the source of a body nobody closed means the whole body, unless a read
\* has thrown before or a chunk came empty (PqcInterceptor.kt:203-208).
EndOfSourceIsTrue == heard = "end" /\ ~closed => left = 0 \/ broken \/ hollow
=============================================================================

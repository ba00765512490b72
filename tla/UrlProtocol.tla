---------------------------- MODULE UrlProtocol -----------------------------
(***************************************************************************)
(* The loads of one PqcURLProtocol subclass (PqcURLProtocol.swift): the    *)
(* Task that startLoading makes, on its own thread, and stopLoading, which *)
(* URLSession calls once for every load, on another, with the fields       *)
(* between them unguarded; the client that the loads share, and the gate   *)
(* of that client (InflightGate, here as a number of permits).             *)
(*                                                                         *)
(* Task.cancel() does not show here: no await of the task looks at it (the *)
(* generated uniffiRustCallAsync does not).  The response is PqcResponse's *)
(* (client.rs) as its caller sees it: a read that began before a cancel    *)
(* may still give its chunk, later ones give nil.                          *)
(***************************************************************************)
EXTENDS Naturals, FiniteSets

CONSTANTS Loads,
          N,          \* chunks of each body
          Cap         \* permits of the gate of each client

ASSUME LoadAssumption == N \in Nat /\ Cap \in Nat \ {0} /\ IsFiniteSet(Loads)

VARIABLES task,       \* where each load's Task is
          stop,       \* where its stopLoading is
          field,      \* self.pqcResp is set
          local,      \* stopLoading has the response in hand
          resp,       \* the PqcResponse: "open" while it holds the permits
          pulled,     \* chunks read off it
          told,       \* the client's data callbacks
          head, end,  \* the client was told of a response; how it was told of the end
          clientCache, built, using   \* clients by number, 0 for none

client == <<told, head, end>>
clients == <<clientCache, built, using>>
rust == <<resp, pulled>>
stopping == <<stop, local>>
vars == <<task, stopping, field, rust, client, clients>>

Init ==
    /\ task = [l \in Loads |-> "none"]
    /\ stop = [l \in Loads |-> "no"]
    /\ field = [l \in Loads |-> FALSE]
    /\ local = [l \in Loads |-> FALSE]
    /\ resp = [l \in Loads |-> "none"]
    /\ pulled = [l \in Loads |-> 0]
    /\ told = [l \in Loads |-> 0]
    /\ head = [l \in Loads |-> FALSE]
    /\ end = [l \in Loads |-> "none"]
    /\ clientCache = 0 /\ built = 0
    /\ using = [l \in Loads |-> 0]

Task(l, from, to) == task[l] = from /\ task' = [task EXCEPT ![l] = to]

-----------------------------------------------------------------------------
(* startLoading.                                                           *)

Start(l) ==
    /\ Task(l, "none", "client")
    /\ UNCHANGED <<stopping, field, rust, client, clients>>

NoUrl(l) ==
    /\ Task(l, "client", "failing")
    /\ UNCHANGED <<stopping, field, rust, client, clients>>

\* Mutant: the client is not remembered.
ClientForUncached(l) ==
    /\ Task(l, "client", "build")
    /\ built' = built + 1
    /\ clientCache' = clientCache
    /\ using' = [using EXCEPT ![l] = built + 1]
    /\ UNCHANGED <<stopping, field, rust, client>>

\* clientFor, under its lock: the subclass's client, or a new one, or the
\* constructor throws and nothing is remembered.
ClientFor(l) ==
    /\ \/ /\ Task(l, "client", "build") /\ clientCache # 0
          /\ using' = [using EXCEPT ![l] = clientCache]
          /\ UNCHANGED <<clientCache, built>>
       \/ /\ Task(l, "client", "build") /\ clientCache = 0
          /\ built' = built + 1 /\ clientCache' = built'
          /\ using' = [using EXCEPT ![l] = built']
       \/ /\ Task(l, "client", "failing") /\ clientCache = 0
          /\ UNCHANGED clients
    /\ UNCHANGED <<stopping, field, rust, client>>

\* buildRequest: a method that Rust has no name for is refused.
BuildRequest(l) ==
    /\ Task(l, "build", "admit") \/ Task(l, "build", "failing")
    /\ UNCHANGED <<stopping, field, rust, client, clients>>

\* A request holds its permit until it fails, a response until it is cancelled or
\* dropped.
InFlight == {l \in Loads : task[l] = "sending" \/ resp[l] = "open"}
InFlightOn(c) == {l \in InFlight : using[l] = c}

\* client.request: past the gate.
Admit(l) ==
    /\ Task(l, "admit", "sending")
    /\ Cardinality(InFlightOn(using[l])) < Cap
    /\ UNCHANGED <<stopping, field, rust, client, clients>>

\* client.request returns.
Answer(l) ==
    /\ Task(l, "sending", "store")
    /\ resp' = [resp EXCEPT ![l] = "open"]
    /\ UNCHANGED <<stopping, field, pulled, client, clients>>

RequestFails(l) ==
    /\ Task(l, "sending", "failing")
    /\ UNCHANGED <<stopping, field, rust, client, clients>>

\* self.pqcResp = resp
Store(l) ==
    /\ Task(l, "store", "emit")
    /\ field' = [field EXCEPT ![l] = TRUE]
    /\ UNCHANGED <<stopping, rust, client, clients>>

-----------------------------------------------------------------------------
(* emit.                                                                   *)

Emit(l) ==
    /\ \/ Task(l, "emit", "read") /\ head' = [head EXCEPT ![l] = TRUE]
       \/ Task(l, "emit", "failing") /\ UNCHANGED head
    /\ UNCHANGED <<stopping, field, rust, told, end, clients>>

\* readChunk looks at `cancelled` first.
Read(l) ==
    /\ IF resp[l] = "open" THEN Task(l, "read", "reading") ELSE Task(l, "read", "cancel")
    /\ UNCHANGED <<stopping, field, rust, client, clients>>

\* Mutant: nil is taken for an empty chunk and read past.
ReadReturnsPastEnd(l) ==
    /\ Task(l, "reading", "deliver")
    /\ pulled' = [pulled EXCEPT ![l] = @ + 1]
    /\ UNCHANGED <<stopping, field, resp, client, clients>>

\* Mutant: an error of the body ends the loop as nil does (try?).
ReadReturnsNoError(l) ==
    /\ \/ /\ Task(l, "reading", "deliver") /\ pulled[l] < N
          /\ pulled' = [pulled EXCEPT ![l] = @ + 1]
       \/ Task(l, "reading", "cancel") /\ UNCHANGED pulled
    /\ UNCHANGED <<stopping, field, resp, client, clients>>

\* A chunk; nil at the end of the body or after a cancel; an error.
ReadReturns(l) ==
    /\ \/ /\ Task(l, "reading", "deliver") /\ pulled[l] < N
          /\ pulled' = [pulled EXCEPT ![l] = @ + 1]
       \/ /\ Task(l, "reading", "cancel") /\ (pulled[l] = N \/ resp[l] # "open")
          /\ UNCHANGED pulled
       \/ /\ Task(l, "reading", "failing") /\ UNCHANGED pulled
    /\ UNCHANGED <<stopping, field, resp, client, clients>>

Deliver(l) ==
    /\ Task(l, "deliver", "read")
    /\ told' = [told EXCEPT ![l] = @ + 1]
    /\ UNCHANGED <<stopping, field, rust, head, end, clients>>

\* The loop has ended: pqcResp.cancel().
CancelAtEnd(l) ==
    /\ Task(l, "cancel", "finish")
    /\ resp' = [resp EXCEPT ![l] = "cancelled"]
    /\ UNCHANGED <<stopping, field, pulled, client, clients>>

Finish(l) ==
    /\ Task(l, "finish", "over")
    /\ end' = [end EXCEPT ![l] = "finished"]
    /\ UNCHANGED <<stopping, field, rust, told, head, clients>>

\* Whatever was thrown goes to the client through mapError.
FailLoad(l) ==
    /\ Task(l, "failing", "over")
    /\ end' = [end EXCEPT ![l] = "failed"]
    /\ UNCHANGED <<stopping, field, rust, told, head, clients>>

-----------------------------------------------------------------------------
(* stopLoading, and the end of the object.                                 *)

StopTake(l) ==
    /\ task[l] # "none" /\ stop[l] = "no"
    /\ stop' = [stop EXCEPT ![l] = "took"]
    /\ local' = [local EXCEPT ![l] = field[l]]
    /\ UNCHANGED <<task, field, rust, client, clients>>

StopClear(l) ==
    /\ stop[l] = "took"
    /\ stop' = [stop EXCEPT ![l] = "cleared"]
    /\ field' = [field EXCEPT ![l] = FALSE]
    /\ UNCHANGED <<task, local, rust, client, clients>>

\* resp?.cancel()
StopCancel(l) ==
    /\ stop[l] = "cleared"
    /\ stop' = [stop EXCEPT ![l] = "stopped"]
    /\ resp' = IF local[l] THEN [resp EXCEPT ![l] = "cancelled"] ELSE resp
    /\ local' = [local EXCEPT ![l] = FALSE]
    /\ UNCHANGED <<task, field, pulled, client, clients>>

\* Mutant: something still refers to the response of a load that is over.
ReleaseKeepsResponse(l) ==
    /\ task[l] = "over" /\ stop[l] = "stopped"
    /\ stop' = [stop EXCEPT ![l] = "gone"]
    /\ UNCHANGED <<task, local, field, rust, client, clients>>

\* URLSession and the task have let go of the object, and it of the response.
Release(l) ==
    /\ task[l] = "over" /\ stop[l] = "stopped"
    /\ stop' = [stop EXCEPT ![l] = "gone"]
    /\ field' = [field EXCEPT ![l] = FALSE]
    /\ resp' = [resp EXCEPT ![l] = "gone"]
    /\ UNCHANGED <<task, local, pulled, client, clients>>

Over == (\A l \in Loads : stop[l] = "gone") /\ UNCHANGED vars

-----------------------------------------------------------------------------
TaskStep(l) ==
    \/ NoUrl(l) \/ ClientFor(l) \/ BuildRequest(l) \/ Admit(l) \/ Answer(l) \/ RequestFails(l)
    \/ Store(l) \/ Emit(l) \/ Read(l) \/ ReadReturns(l) \/ Deliver(l)
    \/ CancelAtEnd(l) \/ Finish(l) \/ FailLoad(l)

StopStep(l) == StopClear(l) \/ StopCancel(l) \/ Release(l)

Next ==
    \/ \E l \in Loads : Start(l) \/ TaskStep(l) \/ StopTake(l) \/ StopStep(l)
    \/ Over

\* Threads run on, and a request and a read return (they have a deadline);
\* URLSession need not start a load, nor stop it before its end.
Spec == Init /\ [][Next]_vars
FairSpec ==
    /\ Spec
    /\ \A l \in Loads :
          /\ WF_vars(TaskStep(l)) /\ WF_vars(StopStep(l))
          /\ WF_vars(task[l] = "over" /\ StopTake(l))

-----------------------------------------------------------------------------
TypeOK ==
    /\ task \in [Loads -> {"none", "client", "build", "admit", "sending", "store", "emit", "read",
                           "reading", "deliver", "cancel", "finish", "failing", "over"}]
    /\ stop \in [Loads -> {"no", "took", "cleared", "stopped", "gone"}]
    /\ field \in [Loads -> BOOLEAN] /\ local \in [Loads -> BOOLEAN]
    /\ resp \in [Loads -> {"none", "open", "cancelled", "gone"}]
    /\ pulled \in [Loads -> 0 .. N] /\ told \in [Loads -> 0 .. N]
    /\ head \in [Loads -> BOOLEAN] /\ end \in [Loads -> {"none", "finished", "failed"}]
    /\ clientCache \in Nat /\ built \in Nat /\ using \in [Loads -> Nat]

\* The loads of a subclass stay within the limit that its config sets, however many
\* start at once before there is a client, fail, or are stopped
\* (PqcURLProtocol.swift:74-90; client.rs:252-281).
LoadsWithinCap == Cardinality(InFlight) <= Cap

\* A load that nobody stopped finishes only with its whole body: neither an error
\* nor a cancel from elsewhere looks like the end (PqcURLProtocol.swift:226-232).
FinishMeansWhole ==
    \A l \in Loads : end[l] = "finished" /\ stop[l] = "no" => told[l] = N /\ head[l]

\* However stopLoading races the task, and wherever the load fails, its permits come
\* back in the end, if only when the object goes, and a load that waits for them has
\* its turn (PqcURLProtocol.swift:101-107, 130-140).
PermitsComeBack ==
    \A l \in Loads :
        /\ stop[l] = "stopped" ~> resp[l] # "open"
        /\ task[l] = "admit" ~> task[l] = "over"

\* PqcURLProtocol.swift:135: the cancel in stopLoading "releases the connection +
\* permits NOW": after it the load holds none.
StopFreesNow ==
    \A l \in Loads : stop[l] \in {"stopped", "gone"} => resp[l] # "open"
=============================================================================

# pqc-mobile-client in TLA+

Specifications of the Rust core of `pqc-mobile-client` and of the parts of its
iOS and Android bridges that keep state: what the code does, step by step, what
it promises, TLC runs that check the one against the other on small instances,
and TLAPS proofs for every value of the constants. Line numbers refer to the
files of the repository: `client.rs`, `cache.rs` and so on are in `src/`,
`PqcURLProtocol.swift` in `Sources/PqcCore/`, `PqcInterceptor.kt` in
`android/src/main/kotlin/io/github/sriharsha_y/pqc/`. `PROJECT.json` maps every
definition to its lines.

## The system

| Component | State | Operations | What makes it correct |
|---|---|---|---|
| Concurrency gates (`client.rs` 179-281) | a global semaphore, a map from host to semaphore, the permits of each call | `request`'s two acquisitions, its early returns, `cancel`, Drop | permits are conserved, the caps hold, a queued call is admitted |
| `PqcResponse` (`client.rs` 435-628) | `cancelled`, the body behind an async mutex, the permits | `read_chunk`, `bytes`, `cancel`, Drop | chunks in order, once; a cancel stops reads and frees permits |
| Cache manager (`cache.rs` 175-270, 516-856, 1209-1249) | disk index and contents, memory tier, byte counter, `seeded`, `evict_lock` | `get`, `put`, `delete`, `clear`, seeding, eviction | a hit is whole, the budget is kept, no call blocks for ever |
| Tee (`cache.rs` 859-1131) | writer, memory buffer, bounded channel | the spawned task of `put_tee`, its reader | only whole bodies are published; bounded memory |
| Delivery of a cached body (`cache.rs` 516-600, 320-392) | what is still to come of a hit | `get`, `poll_frame` | a hit ends cleanly only when it is whole |
| Upload (`client.rs` 765-863, `PqcInterceptor.kt` 286-404) | stream, blocking task, pipe, writer thread | `poll_next`, Drop, `nextChunk`, `cancel` | a cut body never looks whole; threads are freed |
| iOS upload stream (`PqcURLProtocol.swift` 263-341) | an `NSLock`, the `InputStream`, `closed` | `nextChunk`, `cancel` | the stream is never closed under a read |
| Android interceptor (`PqcInterceptor.kt` 73-226) | the call, the response and its source | `intercept`, `read`, `close` | an end means the end; a close leaves nothing held |
| iOS bridge (`PqcURLProtocol.swift` 60-233) | the task, `pqcResp`, the client of each subclass | `startLoading`, `emit`, `stopLoading` | one client, so one gate; an end means the whole body; a stop releases |
| Pinning (`pinning.rs`, `tls.rs`) | decoded pin entries | `decode_domain_pins`, `verify_server_cert` | pins in force are required, others never break, dates are right |
| Error classification (`client.rs` 630-763, `mapError`) | none | `map_reqwest_err`, `map_middleware_err`, `map_midbody_err` | a refused chain is told as what it was; time-outs and lost connections as such |
| final URL slot, client construction, TLS configuration, records, Android start-up | see "Not modelled" | | |

They interact by calls. A bridge calls `PqcHttpClient::request`, which passes
the gates, wraps an upload, sends through the plain or the cached backend, and
moves the permits into the `PqcResponse` it returns. The cached backend calls
the cache manager; a miss of some length becomes a tee whose reader is the body
of that response. A bridge reads the response chunk by chunk and cancels it from
whichever thread closes it. rustls calls the pinning verifier in every handshake.

What is hard here is where two of these run at once: a cancel on one thread
against a read on another, a drop against a blocking task, a get against a put
or a sweep, `stopLoading` against the task of `startLoading`; the failures in
between (every early return of `request`, an upstream that fails in mid-body, a
disk that fails, a process that ends between two writes); and bounds that come to
light late (a chunked body crossing a cap, a pipe that is full). `PROJECT.json`
lists these hazards at their lines with the properties that cover them.

## The modules

Every module has one action per step between which another actor can run: a
load or store of an atomic, an acquired or released lock, an await. What an
actor does up to the next such point is one action, with everything it calls.
Operators that stand before an action and begin their comment with "Mutant" are
plausible slips of the same code; no specification uses them, they serve to show
that a property notices.

**InflightGate** (with **Dispatcher**, **InflightGateProofs**). `gates` is the
config: which of the two limits is set. `free`, `queue` and `hold` are tokio's
semaphores: a count, a FIFO of waiters, and the owned permits; a released permit
goes to the head of the queue before that call runs again. `map` is
`PerHostInflight.map`, filled by `FindHost` (`or_insert_with`). A caller's `pc`
follows `request` - `"total"`, `"lookup"`, `"host"`, `"build"`, `"sending"` -
and then its response, `"open"`, `"drained"`, `"cancelled"`. `RejectUrl`,
`BuildFails` and `SendFails` are the error returns. Dispatcher is what
`config.rs` promises: a call enters when the number in flight, in all and on its
host, is below the cap. The refinement maps a call to "in flight" from the end
of the second acquisition until it fails, is cancelled or dropped.

**PqcResponse** (with **PqcResponseProofs**). `owner` and `waiters` are the
fair async mutex around `body`. A reader goes through the load of `cancelled`
(`Begin`), the lock, the await (`Pull`, `Drain`), the second load (`Check`) and
the return that drops the guard (`Return`); `cancel` is `CancelStore`,
`CancelPermits`, `CancelTry`. The gates and this module meet in one fact:
`cancel` takes the permits at once, which is `Cancel` there and `CancelPermits`
here.

**DiskCache** (with **DiskCacheProofs**). `index` is cacache's index, oldest entry first, with the body,
and whether its `body_size` is known (`done`); `blobs` is the content store,
which holds each content once whatever keys name it. `mem`, `bytes`, `seeded`
and `evictLock` are the manager's fields. Each process makes any call, one after
another; each await of `get`, `put_buffered`, the end of `put_tee`, `delete`,
`clear`, `ensure_seeded` and `evict_if_over_budget` separates two actions.
`Faults` lets disk operations fail where the code ignores or logs the error.
`Restart` keeps the disk only. A put that the disk took ends as `"stored"`, after
its eviction; one that only the memory tier may take (a body between the two caps,
when the memory cap is the larger) ends as `"kept"`, evicts nothing and promises
nothing about the disk.

**TeeStream** (with **TeePromise**, **TeeProofs**). The task of `put_tee` frame by frame. An
upstream body is a sequence of frame lengths, 0 for a trailer. TeePromise is what
its doc promises its two sides: the reader hears the frames in order and a clean
end only after the last, and the body is published whole, once, and never after
the reader heard an end or an error.

**CacheHit** (extends TeeStream). One `get` of the key a tee is storing, at any
moment of it, and then the reads of the body it found: `Lookup` is the head out
of the index, `LookInMemory` moka, `OpenContent` the content store, `PollBuffered`
and `PollCached` are the two arms of `poll_frame` that end by count. `RemoveKey`
and `RemoveContent` are what deletes, sweeps, clears and the system do to the
disk under it; `CutContent` is a file that lost a part, the one fault the code
does not see. The tee's steps are TeeStream's, with the hit left alone.

**BodyUpload**. One upload: the request, `BodyProviderStream`, the blocking task
of the chunk in flight, and the Android provider: pipe, writer thread, `cancel`.
Lengths are in chunks. Of okio's pipe it uses what its callers see: a write
waits for room and throws once the source is closed; a read of an empty pipe
waits for data or for the end of the sink, and is not woken by the close of its
own source.

**InputStreamUpload** (extends BodyUpload). The other provider: the blocking task
reads an `InputStream` with the `NSLock` in its hand, and `cancel`, called by the
Drop of the stream on a runtime thread, waits for that lock.

**OkHttpCall** (extends BodyUpload). The call around an Android upload:
`intercept` decides how the body goes (`Route`), blocks in `request`, wraps the
answer; then one reader of the source (`SourceRead`, `ReadPasses`,
`ReadReturnsChunk`, `ReadNothing`) against a `Close` from any thread, which is
`cancel` and `destroy`. A read in flight keeps the object alive until it returns.
`broken` and `hollow` remember that a read threw or that a chunk came empty.

**Uploads** (with **UploadsProofs**) composes the three: a behaviour is an Android call over the pipe, or
an iOS upload over the stream (`platform`).

**UrlProtocol** (with **UrlProtocolProofs**). The loads of one subclass: each has the `Task` of
`startLoading` and the `stopLoading` that comes once, on another thread, at any
point after the start. `field` is `self.pqcResp`, unguarded. `resp` is the
PqcResponse as its caller sees it. `clientCache` is the client of the subclass
behind its lock; the gate of that client is here the number of permits `Cap`,
which `Admit` waits for: InflightGate shows that this is what it is.

**Pinning** (with **PinningProofs**). Pin entries are decoded once (`Construct`), then the clock ticks
and handshakes of any name, chain and platform verdict happen in any order.
`DaysFromCivil`, `ParsesDate` and the rest are the code's arithmetic; `today` is
a calendar that steps day by day and knows nothing of it. A host is its text in
pieces, with the dots among them, and the way it was written: `Matches` strips the
suffix and looks for the dot before it, as the code does, and `Covers` says what a
subdomain is without counting lengths. The platform's verdict is no error, an
invalid certificate, or another error of rustls. `shake` is the last handshake with
the rustls error it ended in.

**TransportErrors** (used by Pinning). A failed exchange is a chain of errors,
each with what it can be downcast to, whether it timed out, and which of the words
the code searches for are in what it says and in the URL it quotes. `Seen` is the
text of a link with the request's URL cut out. The three walks of `client.rs` and the
bridge's `mapError` are operators over such chains. How a rustls error is wrapped on
its way is the transport's and external: `Wrapped` is what hyper-util and
tokio-rustls build, an `io::Error` that has the text of the rustls error but skips it
in `source()`; `Typed` is the chain the typed pass is written for, where the rustls
error is a source; `Boxed` puts http-cache's link in front.

**Sums** (with **SumsProofs**; used by TeeStream, Pinning and DiskCache). The sum of
a sequence of numbers, as a recursive function: the lengths of the frames of a body,
the days of the months of a year, the sizes of the entries of an index.

The modules ending in `MC` extend these with the values of constants.

## The runs

| Run | Constants | Distinct states | What it shows |
|---|---|---|---|
| `gate` | 3 callers, 2 hosts, caps 2 and 1, all four configs | 21 941 | types; permits are conserved; calls own what they passed; queues are the waiters; both caps (refinement of Dispatcher); every queued call is admitted or fails |
| `response` | 2 readers, 2 cancellers, 2 chunks | 71 024 | types; chunks in order; at most one chunk after a cancel; a returned cancel has freed the permits and, save behind that chunk, the response; reads return |
| `cache_faults` | 2 processes, 1 key, bodies of 1 and 2, faults | 339 848 | types, with a counter that never wraps; whole hits; every call returns |
| `cache_seq` | 1 process, 3 keys, bodies of 1, 2, 3, budget 3 | 48 137 | the counter covers the index; a put leaves it within budget; eviction takes the oldest, and only over budget |
| `tee` | 5 bodies, channel of 2, caps 6 and 3, reads of 2 | 14 042 | types; whole bodies only; bounded run-ahead; caps found out late; the promise (refinement of TeePromise); an end is heard; a get at any time delivers all or no clean end |
| `upload` | 4 chunks, pipe of 2, reads of up to 2, 2 chunks of response | 227 059 | types; a clean end means all was sent; nothing is lost; no read under a close; the source's end is true; a dropped upload frees threads and stream; a close leaves nothing held |
| `url` | 2 loads, 2 chunks each, 1 permit | 29 337 | types; the loads stay within the limit; finished means whole; permits come back and a waiting load has its turn |
| `pinning` | 17 configs, 6 start dates, 5 chains, 6 names, 3 verdicts, 3 days of 2 ticks | 53 268 | types; config checks; pins hold to the midnight and break nobody else; on the plain backend a refused chain is told as one, whatever the words of the URL; lapsed pins stay lapsed |

The bounds. Three callers with caps 2 and 1 fill both gates with somebody parked
behind each, one of them with a global permit in hand; two hosts tell the map's
semaphores apart. Two readers make one wait for the mutex; two cancellers are the
bridge's close and its end of body. For the cache the sizes are scaled: the
code's per-entry caps are a twentieth of their tiers, so that a budget is
exceeded after twenty entries where it is after two or three here. No action
depends on the ratio, only on the comparisons. `huge` fits no tier, `large` the
disk only, `small` both. Two processes on one key meet in every pair of
operations, with a sweep, because the budget there is exceeded by a second entry
or by the counter's drift; three keys tell the oldest from the others. The tee's
bodies are an empty one, one that fits both tiers, ones that cross the one cap or
both while streaming, and one of more frames than channel and hand hold; a get hands
them out in chunks of two bytes, so that a chunk meets the end of a frame and the
end of a body from both sides. The upload's four chunks are twice the pipe, so
that a writer parks on it, and reads of up to two make whole and partial ones;
two chunks of response let a close come before, between and after them. Two
loads with one permit are the least that lets one wait for what the other holds.
Pinning starts one or two days before a leap day, the end of February of a
leap century and of a common one, a turn of the year and the epoch, and its
entries expire in those days; a day has `PerDay` = 2 ticks, so that the clock
meets each midnight from both sides. `Ticks` bounds the clock, and is why this run
alone switches off TLC's deadlock check (with a config that was rejected, nothing else
can happen).

Four runs end in a counterexample to something the repository says:

| Run | Said | What happens |
|---|---|---|
| `cache_large` | `cache.rs` 39-41: larger responses "skip the memory tier and live on disk only" | a large response over a small one leaves the small one's body in memory: a hit has the new head and the old body |
| `cache_ceiling` | `config.rs` 179-180: "Hard ceiling on the on-disk cache in bytes" | contents of overwritten entries stay, uncounted |
| `url_stop` | `PqcURLProtocol.swift` 135: the cancel in `stopLoading` "releases the connection + permits NOW" | `stopLoading` before the task has stored the response cancels nothing |
| `pinning_cached` | `client.rs` 644-647: without the chain walk "a pinning/trust failure gets downgraded to the retryable `Network`"; 956-958: it "must surface the security signal" | the rustls error is inside an `io::Error`, which the walk's downcast does not see into: a refused handshake is `Network` on the cached backend |

## Fairness

Safety is checked and proved without any. For liveness:

- *gates*: the executor polls a woken task, the transport answers or times out
  (the connect timeout is always set, `client.rs` 107-112), and a response is
  cancelled (both bridges close what they are done with). Nothing is assumed of
  reads, drops or new calls. No fairness is put on who gets a permit: tokio's
  queue is FIFO and is modelled as such.
- *response*: a reader that has begun goes on, and a read of the transport
  returns.
- *cache*: a call in progress goes on. The lock is tokio's FIFO mutex.
- *tee*: the task runs, and a reader that stays reads. A reader may leave and
  the process may end at any time, without fairness; nobody has to ask for the
  body nor to read a hit on.
- *upload*: threads run, the request ends (it has a deadline) and lets go of its
  body; a writer with a closed source comes to its next write; a read of the
  transport and one of an `InputStream` return in the end. The last is an
  assumption about the application's stream: one that never answers holds the
  lock, and with it the runtime thread in `cancel`. Nothing is assumed of how much
  of a body is produced, and nobody has to read or to close a response.
- *loads*: the task and a `stopLoading` that has begun go on, a request and a
  read return, and URLSession stops a load that has told its end. It need not
  start a load, nor stop one before its end.

## What is proved

`InflightGateProofs`, for any finite set of callers, any hosts and any caps
(`GateAssumption`: the names are distinct, the caps natural numbers):

- `TypeCorrect`, `Conservation`, `Ownership`, `NoLostWaiter`: the four
  invariants of the run `gate`. None is inductive alone, and their conjunction
  `GateInv` is. That a released permit changes no sum needs the heir to be a
  caller that does not own it yet, which is what `QueuesAreWaiters` says; that
  an acquiring call does not own the permit already needs `HoldsWhatItPassed`;
  and that a parked call finds its semaphore again needs the map to have it. The
  lemmas follow the permits and not the actions: taking one
  (`AcquireConserves`, `AcquireKeepsQueues`), giving up all
  (`ReleaseConserves`, `ReleaseKeepsQueues`, `ReleaseHolds`), and moving on
  without touching any (`MoveKeepsInv`); each action is then one of
  `ParkKeepsInv`, `GiveUpKeepsInv` and `MoveKeepsInv`.
- `Refinement`: the gates implement Dispatcher. The calls in flight on a gate
  are among its holders, a call that enters is a holder and not in flight, and
  by conservation the holders are at most the cap: `RoomToEnter`.

`PqcResponseProofs`, for any readers and cancellers and any length of the body:

- `TypeCorrect`, `ChunksInOrder`, `CancelStopsReads`, `CancelsRelease`
  (`CancelReleases`). The inductive invariant `ResponseInv` adds to the types that a reader between lock
  and return owns the mutex, so that there is one (`Mutex`); what was handed out
  against what was pulled at each place of the owner (`OrderInv`); and that one
  late chunk rules out a second, because a reader that could still give one has
  passed its check before the cancel (`LateInv`). `CancelReleases` is inductive with
  it: whoever lets go of the mutex last after a cancel has dropped the response,
  except the `Return` of a chunk, and that chunk is the late one (`PermitsStep`,
  `BodyStep`).

`UrlProtocolProofs`, for any finite set of loads, any bodies and any limit:

- `TypeCorrect`, `WholeLoads`, `WithinCap` (`LoadsWithinCap`). The inductive
  invariant `UrlInv` says of each load what its place means (`LoadInv`: what was
  pulled, told, and held there, and that nobody but its own `stopLoading` or its
  own end cancels it), and that there is one client, so that those in flight on
  it are all that are in flight.

`UploadsProofs`, for any body, pipe, chunk and reply, on both platforms:

- `TypeCorrect`, `EndsWhole`, `KeepsChunks`, `ReadsOpen`, `EndsTrue`, from the
  invariant `UploadInv`: `StreamInv` (what was taken is sent or in hand, and an end
  is told of a job that saw the end), `PipeInv` (the sink closes only after all was
  pushed or the error was kept), `InputInv` (who reads has the lock and an open
  stream), `CallInv` (what a reader of the response has in hand).

`SumsProofs`, for any sequence of numbers: what `Total` is. The library's induction
theorems take an operator as a parameter and cannot be used, but its well-founded
relations can: the naturals are well founded, so a set of them has a least member
(`Least`), so a set that has 0 and each successor has them all (`Induction`,
`InductionUpTo`), and so a function defined by recursion is what its definition
unfolds to (`Recursion`). From these come the four facts that the other proofs use:
a total is a number (`TotalTyped`), and what it becomes when a number is appended
(`TotalAppend`), when it stops earlier (`TotalUpTo`) and when one is taken out of
the middle (`TotalRemove`).

`PinningProofs`, for any configs, names, chains, starts and length of run, from
`ConfigAssumption` (an entry is a record with the fields the code reads),
`NamesAssumption` (a name is a sequence of its pieces),
`StartAssumption` (a start is a date of the calendar from 1970 on, with a time of
day) and `NeverAssumption` (the mark of an entry without a date is no number):

- `TypeCorrect`, `ConfigsChecked`, `LapseForGood`.
- `PinsAreHeld` (`PinsHold`): a host is reached exactly through the chains that its
  entries in force and the platform allow, where "in force" is read off the calendar
  and what the code compares is seconds. The bridge is `DateInvariance`: the clock is
  always the days `DaysFromCivil` gives of today's date, times the length of a day,
  plus the time. It holds at a start because the code's arithmetic gives the days that
  the years and months before a date sum to (`CountedYears`, `CountedMonths`,
  `CountedDays`, `DaysSinceEpoch`), and is kept because it gives one more for the day
  after (`CivilYears`, `MonthLength`, `CivilDays`, `TomorrowIsNext`). Since it also
  grows with the date (`LaterIsMore`), an entry is expired exactly from its date on
  (`ExpiryByDate`). There is no bound on the year: the century rule is a statement
  about quotients by 4, 100 and 400 (`YearLength`, `YearsAscend`).
- `CausesTold` (`CausesAreTold`): a handshake refused for a pin or for trust is told
  as what it was on the plain backend, in the chain the transport builds and whatever
  words the URL has; either walk does so where the rustls error is a source; and both
  tell time-outs and lost connections as such. The chain of an error is followed link
  by link: which link each walk stops at and what is left of its text without the URL
  (`TypedIsTold`, `WrappedIsTold`, `SilentIsTold`), and that the rustls error of the
  last handshake is the one its verdict calls for (`ShakeInvariance`). Of the cached
  backend and the transport's own chain nothing is proved: there the claim is false.

`TeeProofs`, for any bodies, caps, and depth of the channel:

- `Refinement` and `HitRefinement`: the tee implements TeePromise, alone and with
  a get and removals beside it. `TeeInv` counts: what was taken off the upstream
  was heard, is in the channel or in the hand of the task, where an error in the
  channel counts once more and is its last (`CountInv`, `ErrorInv`).
- `KeptWhole` (`WholeOrNothing`), `Bounded` (`Backpressure`), `NoneTooLong`
  (`TooLongNotKept`), and the same beside a get (`KeptBesideGets`). `KeptInv` says of
  each tier that, while the task still keeps it, it has exactly the data pulled and
  sent so far, and that the total is the length of that data (`SinksInv`, `StoredInv`).
  `RunsAheadBounded` is the half of `Backpressure` about the channel.
- `HitTypeCorrect` (`HitTypeOK`) and `HitsDeliverAll` (`DeliveredWhole`): what a hit
  has given and what remains of it make up the body that was stored, in chunks of
  any size, whatever is removed under it (`GetInv`).

`DiskCacheProofs`, for any number of calls, keys, bodies and limits, with faults and
restarts:

- `LockIsNeverLeft`: one call at a time works under `evict_lock`, and the lock is
  never left with a call that neither waits for it nor works under it, whatever
  path seeding, eviction and clear return by. It is the safety behind
  `OpsReturn`. `LockInv` says that the queue has exactly the calls that wait or
  hold, once, and the holder in front; each step moves on, joins or releases
  (`MoveKeepsLock`, `JoinKeepsLock`, `ReleaseKeepsLock`).
- `WholeHits` (`HitsAreWhole`): a get that goes on has read an entry whose size is
  known (`HitInv`).
- `TypeCorrect` (`TypeOK`): `TypeInv` adds which kind of call may be at which place,
  with a key and a body where that kind has them (`Proper`, `At`), and that a place
  which works on an entry has read one (`ScanTyped`). That the counter is a number
  rests on the saturating subtraction and on `BytesOf` being one (`SizesTyped`).

and for one call at a time with no failing cacache operation, as the run `cache_seq`
has it (`Procs = {me}`, `~Faults`), over any keys, bodies, limits and length of run:

- `CounterIsEnough` (`CounterCovers`), `PutsKeepBudget` (`BudgetAfterPut`),
  `SweepTakesOldest` (`SweepsOldest`). The invariant `Alone` says what the counter and
  the index differ by at each place: a put owes what it has stored and not added
  (`Owed`), a delete has taken what it still has to subtract (`Taken`); that what an
  eviction has read is still what the index has (`Fresh`); that nothing is stored
  before the counter is seeded (`Ready`); and that a result `"stored"` comes with an
  index within the budget (`Stored`). Under it are lemmas about the index: it has one
  entry for each key (`OneEach`), an insert adds at most the size of its body
  (`Inserts`), a removal takes exactly the entry's (`Takes`, `BytesLess`), and without
  the key of the oldest entry it is its own tail (`TakesOldest`). Both hypotheses
  are needed: with two calls a put that adds during another's walk is lost from the
  counter, with faults a delete that removes nothing is subtracted all the same.

No theorem takes anything else as given; the assumptions on constants are
evaluated by TLC in every run of the modules.

Every invariant and every action property of the passing runs, and both refinements,
are stated by a theorem.

## Only model-checked

- Liveness (`QueuedIsAdmitted`, `ReadsReturn`, `OpsReturn`, `ReaderHearsEnd`,
  `DropFreesAll`, `CloseLeavesNothing`, `PermitsComeBack`), which needs fairness and
  ENABLED and is out of the proof system's reach.
- The four counterexamples, which a proof cannot show.

## Not modelled

- *Final URL of a cached request* (`cache.rs` 1251 on): the slot is written and
  read by one task, one after the other.
- *Client construction, TLS configuration, configuration records* are settings
  handed to reqwest and rustls, or records without behaviour; what they bound is
  a constant of a module.
- *Android start-up* (`android_init.rs`, `PqcAndroidInit.kt`): once-only
  initialisation around JNI calls, with no second actor in the library.
- *Of the bridges*: building heads, headers and status lines; `canInit` and the
  registration of a subclass; `deinit` of `InputStreamBodyProvider`, which does
  what its `cancel` does; `Call.cancel` of OkHttp, which the interceptor does not
  hand on to Rust.
- *Of hits*: the head that is rebuilt, and the pass-through body, which gives on
  what it gets. On a 32-bit target `*remaining as usize` (`cache.rs` 361) would wrap
  for bodies of 4 GiB; sizes are far from it here.
- Freshness, `Vary` and revalidation belong to the `http-cache` crates, the TLS
  handshake, pooling, redirects and DNS to rustls, reqwest and hyper; the Swift
  bindings are generated; tests, samples, scripts and workflows are no part of the
  library.
- A foreign caller cancelling the future of `request` itself: UniFFI 0.29 does
  not propagate it (`client.rs` 459-466).

Some properties excuse what the code does, and say so: `EndOfSourceIsTrue` the end
that follows an error or an empty chunk, `DeliveredWhole` a content that the file
system cut, `CancelReleases` a response behind the one late chunk. There the code
also falls short of a comment: `client.rs` 556-558 says that a reader which holds the
mutex "will observe `cancelled` after its current chunk finishes and take care of the
drop itself", and a reader past its last look (585) does not, so that the connection
stays with the object until a second cancel or Drop. `CausesAreTold` leaves out, on
the plain backend, rustls errors with none of the words in their text: in the chain
the transport builds they are told as `Network`, though 744-746 means to keep them
`Tls`. DiskCache can be run without a disk tier, where every
get is a miss by the early return at `cache.rs` 526, whatever the comment at
847-848 and `docs/ios.md` 429 say of memory-only configs; no run does.

## Plan

What is left, in the order of what matters most:

1. *DiskCache under concurrency*: how far puts that race a walk can move the counter
   (`cache.rs` 1205-1221), and tees and puts that outlive a `clear` (251-261), with
   a bound that holds in place of `CounterCovers` and its proof for any number of
   calls; the lemmas about the index carry over, `Alone` does not.
2. *A cache without a disk tier* as a run of its own.
3. *Composition* of InflightGate and PqcResponse in one module, `request` to Drop
   for several calls; today they meet in `UrlProtocol` and in OkHttpCall, each of
   which keeps of them what its caller sees.

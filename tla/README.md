# A verification of InfraReplay in TLA+

InfraReplay records what a service does (its HTTP requests and the SQL they run),
replays the recording against another build, and compares the two runs. This
directory holds TLA+ models of its core, the TLC configurations that check them on
small instances, and TLAPS proofs. Paths below are relative to the repository;
`PROJECT.json` maps every definition to the lines it models.

## 1. The system

| Component | State it keeps | Operations | Interacts with |
|---|---|---|---|
| Recording store (`recording/service.py`, `db/`, `storage_fs`) | recording rows with a status, event rows, comparison rows, snapshot blobs | start, append, fail, finish, import/export, link, save comparison | called by everything below; each call is one or more transactions |
| Capture sessions (`capture/session.py`) | `_SESSIONS`, one pump task per session | start, stop, ingest | store, plugin |
| HTTP capture (`plugins/http_capture`) | queue, uvicorn server, sequence counter | start, stop, events; one handler per request | clients, app, pump |
| Agent, middleware (`agent/`, `capture/context.py`) | one queue for all requests, context per request | bind, flush | app, ingest endpoint |
| Postgres capture (`plugins/postgres_capture`) | queue, process-wide sequence counter | before/after a statement, pending | app's engine, agent |
| Correlation (`recording/correlate.py`) | none | order, number and parent a recording's events | finish |
| Replay (`replay/`) | the replay's recording row | run_replay, batches of concurrent requests, linking | store, target, comparison |
| Comparison (`comparison/`, `plugins/comparators`) | none | normalize, compare, account for every event | replay, store |
| Portable bundles (`recording/portable.py`, `schema/migrations.py`) | none; the files | build, parse, upgrade, re-key; import is three transactions | store |
| Redaction (`plugins/redaction_default`) | none | mask what stands under a sensitive key | `append_events` |
| Substitution (`replay/substitution.py`) | the values drawn in a run | swap the leaves of a request before it is sent again | replay engine |
| Mock capture (`plugins/mock_capture`) | none | a finite stream of events | `capture_recording`, mock replay |
| Demo shop (`examples/demo_shop`) | users, inventory, orders, items, payments in SQLite or Postgres | checkout, reset | clients, the agent, the gateway |
| Plugin registry, API, CLI, dashboard, database engine | none of their own | look up, call and present the above | store, sessions, replay |

What makes each component correct, and what is hard about it:

- **Capture.** A completed recording holds everything its proxy emitted, and it is
  final. Hard: handlers in flight at the stop, a pump that runs concurrently with
  the stop, ingest calls from another process, storage failures and a restart
  between any two transactions.
- **Agent.** No statement is lost, filed under another recording, or recorded after
  the response it belongs to. Hard: concurrent requests share one queue and flush
  each other's events; timeouts on both sides.
- **Correlation.** One gap-free causal order out of two counters and two clocks,
  independent of the order in which rows come back, and stable when a recording is
  finished again by an import.
- **Replay.** The run returns, with a row that says how it ended unless it died;
  every statement the target ran is in it; every original event is linked to at most
  one replayed event of the request that re-sent it. Hard: concurrent requests whose
  SQL arrives in one another's flushes, timeouts, failures half way.
- **Comparison.** Every comparable event is accounted for exactly once.
- **Portable.** A copy is the same recording under fresh ids, complete or not marked
  complete, and no original is touched. Hard: two imports of one file, a failure
  between the transactions of one, files of other versions.
- **Redaction and substitution.** No stored or exported value stands unmasked under
  a sensitive key; values that were equal are replayed as equal.
- **Demo shop.** With atomic reservations every unit is on the shelf or in a
  committed order, and an order is served whole or not at all. Hard: concurrent
  checkouts, row locks in any order, a reset or a crash in between.

`PROJECT.json` lists every hazard at its line, with the properties that cover it.

## 2. The plan

The order is by what the program is for: first that captures are complete, then
their order, their replay, their transport, and the application that is recorded.

1. `RecordingStore`, 2. `CaptureSession`, 3. `CaptureSessionProofs`, 4.
`RecordingLifecycle` and `CapturePipeline`, 5. `Correlate` and `EventOrder`, 6.
`Comparison`, 7. `ReplayRun`, 8. `Payload` and `Portable`, 9. `DemoShop` with
`ShopLedger`, 10. the proofs about each of them: `PipelineProofs`, `CalmProofs`,
`DemoShopProofs`, `CorrelateProofs`, `EventOrderProofs`, `PortableProofs`,
`ReplayProofs`. All of these are done.

Only liveness is left to TLC alone (section 5).

## 3. The modules

| Module | Models |
|---|---|
| `RecordingStore` | the store: `status`, `stored` (event rows), `ordered` (rows whose sequence and parent were rewritten), `blob`; one operator per transaction or blob write |
| `CaptureSession` | sessions, proxies, pumps and ingest calls of one API process, in an environment that answers and posts at any time |
| `CaptureSessionProofs` | the theorems about `CaptureSession` |
| `RecordingLifecycle` | abstract: open, record while open, seal with exactly what was recorded, or fail |
| `CapturePipeline` | extends `CaptureSession` with the app, its SQL plugin and the agent |
| `MCCapturePipeline` | the statements and symmetry for TLC |
| `Correlate` | `correlate.py` as operators |
| `Comparison` | `linking.py`, `comparison/` and the comparators as operators, on the events of `Correlate` |
| `PipelineProofs` | the theorems about `CapturePipeline`, under any faults; extends `CaptureSessionProofs` |
| `CalmProofs` | the theorems that need one recording at a time and no faults |
| `ReplayRun`, `MCReplayRun` | one call of `run_replay`, its `HttpTarget`, and the target with its agent, or the mock |
| `EventOrder`, `MCEventOrder` | two producers with their own clocks and counters, and the finish that orders what they emitted |
| `CorrelateProofs` | what the operators of `Correlate` compute, for any events; extended by the next three |
| `EventOrderProofs` | the theorems about `EventOrder` |
| `ReplayProofs` | the theorems about `Comparison` and `ReplayRun` |
| `Payload` | what redaction and substitution do to the leaves of an event, as operators |
| `Portable`, `MCPortable` | `capture_recording`, export and import between two instances; on the events of `Correlate` with the payloads of `Payload` |
| `PortableProofs` | the theorems about `Portable` and redaction |
| `DemoShop`, `MCDemoShop` | checkouts and resets of the demo shop, on both databases and in both reservation modes |
| `ShopLedger`, `ShopRefinement` | abstract: orders are served whole, refused or fail; and the mapping of `DemoShop` to it |
| `DemoShopProofs` | the theorems about `DemoShop` |

**How state corresponds to code.** `phase[r]` is where the calls of `start_session`
and `stop_session` for recording *r* stand: `starting` (row inserted), `listening`
(the proxy serves, no pump yet), `open` (registered in `_SESSIONS`), `stopping`
(popped, waiting for the server task), `draining` (sentinel queued, waiting for the
pump), `reading` and `writing` (inside `finish_recording`). `queue[r]` is the
plugin's `asyncio.Queue`, `pump[r]` the `_drain` task, `draft[r]` the rows
`finish_recording` selected. `handler[q]` and `route[q]` are the proxy's handler of
request *q* and the recording whose proxy received it: a handler is `receiving`
while it awaits the client's body, `forwarding` while it awaits the app's answer,
and `left` if the client went away before its body was complete. An element of
`ingests` is an `ingest_events` call before or after its status check. In
`CapturePipeline`, `app[q]` is the app's task, `appQueue` the SQL plugin's queue,
`outbox[q]` the batches a flush still has to post. In `ReplayRun`, `run` is where
`run_replay` stands, `sent[q]` where `HttpTarget.send` of request *q* does,
`replayed` the list the runner collects, `final` what `finish_recording` selected
and ordered; `setup` says how the source came about (`history`: still live,
finished, or finished before its `late` rows came), what its requests asked, ran and
were answered, and which of their `rows` it got. In `EventOrder`, `answered` are the
requests whose response the proxy has stamped, and `late` those the app was still,
or again, at work on by then. The events of `ReplayRun` are the records of
`Correlate` with a payload split into what every run makes anew (`fresh`) and the
rest (`shape`). In `Portable`, `rows[i][n]` is a recording with its events and its
snapshot on instance *i*, `capture` the one `capture_recording` call, `bundles` the
files, and `call[m]` an `import_recording` call with the status check, the three
transactions and their failures as steps; a name stands for the ids drawn with it.
In `DemoShop`, `pc[c]` is where `create_checkout` stands, `seen[c]` the
availabilities `_price` read, `writes[c]` the uncommitted row values of its
transaction, `lock` the row locks of Postgres or the one write lock of SQLite;
`sold`, `taken`, `stock` and `raced` are history the properties speak of. A step
runs from one suspension point to the next; what two steps separate, another task or
a crash can enter.

**Abstractions.** In the capture models an event is its identity: what it says is
left out. Content matters in `Comparison` (what differs between two runs), in
`ReplayRun`, where a body belongs to one of five classes and each conversion of it
(`Captured` by the proxy, `ReSent` and `Received` by the replay) is modelled by what
it does to the class, and in `Payload`, where a payload is a function from the paths
of its leaves to values and a UUID or a template is a member of a set. One element
of `SqlEvents` is a statement with its result, because the two are queued in one
synchronous listener and so are drained, posted and stored together. Requests are
sent once each. The capture plugin of a session is `http_capture`; the finite mock
plugin is in `Portable`. The blob write is one step. The app's process does not
crash while it is recorded. Correlation ids are one per request in the pipeline and
the replay; `EventOrder` also has requests that share the one their client sent. In
the shop, prices, amounts and users are reduced to whether an order is refused or
declined.

## 4. The runs

| Run | Instance | Checks |
|---|---|---|
| `session` | 2 recordings, 2 requests, 1 posted event, crash and storage faults; clients need not deliver, the app need not answer | `TypeOK`, `CaptureComplete`, `RequestStoredFirst`, `DrainEnds`, `SealedForever`, `StopWaitsForHandlers` |
| `pipeline_single` | 1 recording, 2 requests, 2 statements each, no faults | `GapFree`, `NoLostEvents`, `SqlAccounted`, refinement of `RecordingLifecycle`, `StopCompletes` |
| `pipeline_faults` | 2 recordings, 2 requests, 1 statement each, crash, raising app, timeouts, SQL in the background | `PipelineInv`, `NoCrossRecording`, refinement of `CaptureSession` |
| `correlate` | 2 requests, 2 statements, app clock 2 behind, level or 1 ahead, clocks that may stand still; correlation ids of their own or one for both; responses stamped with the app at work | `GapFreeSequence`, `OwnParents`, `CausalOrder`, `OrderIndependent`, `FinishedIsFixed` |
| `replay` | 2 requests, at most 1 statement each; the set-ups of `MCReplayRun` | `Accounted`, `LinksFollowRequests`, `EveryStatementCompared`, `NoFalseAlarm`, `OutcomeRecorded`, `ReplayWaitsForTarget` |
| `shop` | 3 checkouts, 2 SKUs, stock 1 or 2, 1 reset, crash; the deployments and orders of `MCDemoShop` | `Conserved`, `OversoldByRace`, refinement of `ShopLedger`, `NoEndlessWait`, `CheckoutEnds` |
| `portable` | 2 instances, 2 imports, 3 fresh names, up to 2 exports next to 3 foreign files | `CopyFaithful`, `SelfContained`, `OriginalsUntouched`, `NothingSensitive`, `IdentityKept` |
| `late_row` | 2 recordings, 2 requests, no faults | `GapFree`, violated |
| `response_before_sql` | 1 recording, 2 requests, no faults | `SqlLandsFirst`, violated |
| `lost_sql` | 2 recordings, 2 requests, no faults | `NoLostEvents`, violated |
| `orphan_row` | 1 recording, 1 request, storage faults | `StopRecordsOutcome`, violated |
| `empty_answer` | a finished source of 2 requests, one answered without a body; no faults | `UnchangedMatches`, violated |

What they show:

- Stopping in the code's order (let handlers end, queue the sentinel, await the
  pump, then finish) gives a recording with everything the proxy emitted, also when
  the process dies or the database fails at any point: what fails never looks
  complete (`CaptureComplete`). A completed recording is final (`SealedForever`).
  Even an unfinished one never has a response without its request
  (`RequestStoredFirst`). The stop that awaits the pump awaits one that ends: the
  sentinel is behind all it has to read (`DrainEnds`).
- As long as one recording at a time goes through an app, nothing fails, and the app
  runs no SQL after its last body message, the agent's design works: no SQL is lost
  (`SqlAccounted` says where each statement is at any moment, and why waiting for
  the handlers is enough; `NoLostEvents`), no row comes after the order is fixed
  (`GapFree`), and the recording follows the abstract lifecycle. The third condition
  is a real one. `agent.py:107-118` keeps the context bound until the application
  returns, and tasks it started inherit it, so background tasks and what follows the
  `yield` of a dependency queue SQL behind the flush; it waits for the next
  request's flush, or for ever. That is the fault `background`, of which the runs
  that check these properties have none.
- Under every fault, `background` included, SQL is filed under its own recording
  (`NoCrossRecording`).
- A stop that does not return is waiting for a handler that does not end: of a
  client that stalls its upload (`proxy.py:111`), or of an app that trickles its
  answer, for httpx's timeout bounds each read and write and not the request. It
  waits for nothing else, whatever fails (`StopWaitsForHandlers`). If clients
  deliver their bodies or leave, and the app answers, the stop completes the
  recording (`StopCompletes`).
- Replaying a whole, finished recording against an unchanged service gives nothing
  but matches, also two requests at a time, where flushes carry each other's SQL,
  provided the clocks agree and every body survives its conversions (`NoFalseAlarm`;
  `EveryStatementCompared` for any service): unlike a capture, a replay waits for
  all requests of a batch before it finishes. Whatever times out, fails or arrives
  late, and whatever source is replayed, every comparable event of both runs has
  exactly one result (`Accounted`). No event is paired with another request's
  (`LinksFollowRequests`), if the clocks agree and the source was finished with all
  its rows and has every request; it may lack others of their rows. A late row
  carries a number that finished rows have too, and can put groups out of step.
- A run ends with an exception only by a fault, if the source was finished with all
  its rows (`OutcomeRecorded`). Otherwise a late row and a finished one of the same
  number take the same stand-in of the mock target, whose id cannot be stored twice;
  that is no `ReplayError`, and the run's row stays in status "recording". A run
  never waits for ever but for a target that neither answers nor lets a read time
  out (`ReplayWaitsForTarget`).
- With clocks that agree the finished order is causal (`CausalOrder`). That a
  response comes after all its request did is said of requests the app was done with
  when the response was stamped: after a timeout the proxy stamps a response, and
  may be stopped, with the app still at work (`proxy.py:169-170`).
- Requests that share a correlation id, as when a client sets the header, are one
  group: the order and the parents stay well formed and independent of how rows come
  back, but the statements of all of them hang off one of the requests
  (`OrderIndependent`, `OwnParents`).
- With atomic reservations the shop conserves its units through refusals, declined
  payments (whose order stays pending and keeps its stock), deadlocks, resets and
  crashes, and behaves like orders served one after the other (`ServesAsLedger`). In
  the other mode it oversells, but only through a race, or through an order with two
  lines of one SKU, which needs no race (`OversoldByRace`). Every checkout ends,
  also when orders lock rows crosswise.
- An import that succeeds has all of its file, each event once and linked as it was,
  whatever other imports of the file do; a partial one never looks complete, and no
  original changes (`CopyFaithful`, `SelfContained`, `OriginalsUntouched`). A file
  that is in its final order keeps it. Recordings of any status can be exported
  (`service.py:299-302`), also a live one or one with late rows: the finish of the
  import orders such a file, and parents what has no parent, for the first time. Two
  imports that both find an id absent do not both go on: the later one meets the
  primary key and answers with an error, where the docstring (`service.py:306`) has
  it re-keyed; a retry re-keys. A bundle of an older format is read like one of this
  format (`portable.py:48`); one whose events are of an older schema always fails,
  for no migration is registered (`migrations.py:30`). A bundle does not carry the
  status, so an unfinished or failed recording is imported as a completed one.
- Nothing sensitive is stored or exported, also when the imported file was written
  without redaction (`NothingSensitive`); a replay from any copy keeps equal values
  equal and draws new, distinct UUIDs (`IdentityKept`).
- **Late row.** With a second recording in the same app, or after an agent timeout,
  an ingest call can pass its status check before `finish_recording` and append
  after it. The row stays outside the order of the completed recording, and
  `schema/event.py:35` does not hold.
- **Response before SQL.** Request A's flush drains request B's statements; B's
  response is recorded while A is still posting. `agent/__init__.py:14-16` says this
  cannot happen.
- **Lost SQL.** If A and B belong to two recordings, B's recording can be stopped in
  that moment; the late POST is refused, and the agent ignores the refusal.
  `docs/v3.md:25-27` says "no lost events".
- **Orphan row.** When the stop call itself fails, the session is already gone and
  nothing marks the recording failed.
- **Empty answer.** The proxy records a body without content as `None`, the replay
  records it as `""`, and the comparator tells them apart: a 204 of an unchanged
  service is reported as different, where `docs/v5.md:5-7` says that there must be
  no differences. Bodies over `CAPTURE_MAX_BODY_BYTES`, and requests whose body is a
  form or a text, do not survive either.

**Bounds.** A session touches only its own recording, so two recordings show every
interaction of two; two requests give a flush somebody else's events to carry and a
stop a handler to wait for. In `session` one posted event is enough, for ingest
calls only add rows: it is of either recording, and comes at any time. `MaxSql`
bounds the statements; two per request show a flush that finds some drained and some
not yet run. In `EventOrder` the total of statements is bounded, two suffice for a
query that precedes another of its own or of another request. The skews cover an app
clock behind the proxy's by more than a step, level with it, and ahead. The set-ups
of `MCReplayRun` cover one and two requests at a time, sources that are finished,
live, lack some rows of their requests, or got rows after they were finished, an
unchanged and a changed target, agreeing and skewed clocks, counters that coincide
with the runner's and that do not, bodies of each of the five classes on either
side, and each fault, SQL in the background included (timeouts are possible in all
of them): two requests are the least for which groups can be confused, flushes
shared and batches split. In `DemoShop` two checkouts lock two rows crosswise while
a third competes or is refused; a stock of 1 or 2 runs out within them, and one
reset can fall between any two steps. In `Portable` two instances and two imports
show a clash with the original, with another import, and a copy of a copy;
`MaxBundles` leaves room for two exports, and the names 1 to 3 for the capture and
two re-keyed copies. The foreign files are one of a newer format, one of an older
format that was written without redaction, and one of a live capture: two requests
out of order, one of them with a statement without a parent, and one number twice.
Symmetry is used only in runs without liveness. `CHECK_DEADLOCK FALSE` everywhere: a
system without further requests or sessions rightly stops.

**Fairness.** `LiveSpec` and `FairSpec` give weak fairness to the steps of the event
loops: asyncio runs every ready task, and each of these steps, once ready, stays so
until it is taken. Only `FairSpec` adds, for `StopCompletes` only, that a client
delivers its body or leaves and that the app answers (`PartnerFairness`). No timeout
is fair: httpx's `timeout=CAPTURE_TIMEOUT_S` (`proxy.py:160`, `http_target.py:46`)
applies to each connect, read and write, and a partner that trickles never trips it.
So `ReplayRun` assumes only that the runner's task goes on when it can, nothing
about the target, and `ReplayWaitsForTarget` says what that gives. `DemoShop`
assumes that the event loop runs every ready handler and that Postgres ends a
deadlock by aborting a transaction of it; a handler waiting for a lock is not ready,
and no fairness is given to SQLite's busy timeout, which is not needed. Clients,
users, statements and faults get no fairness.

## 5. The proofs

Every theorem holds for all values of the constants that satisfy the named
assumptions of the modules, which TLC evaluates in every run:

- `SessionAssumption`: the sentinel and the "no recording" value are distinct from
  real ones; posted events are not the proxy's.
- `PipelineAssumption`, `ShopAssumption`, `EventOrderAssumption`: types of the
  constants, and values that stand for nothing are distinct from those that stand
  for something.
- `PortableAssumption`: a finite plugin names an event before it refers to it, as
  `_Stream.add` does (`mock_capture/fixtures.py:55-100`); a file that another build
  wrote, if it parses, has each event once and the parents they name, in any order
  and with any numbers, clocks and correlation ids. A payload has finitely many
  leaves.
- `FreshAssumption`, and the last clause of `IsPayload`: a UUID that a replay draws
  is none of the recorded values, the mask or the values a replay is given to put
  in. A collision of `uuid4`, with 122 random bits, is left out.
- `ReplayAssumption`: types; a source's rows and its late rows are, each once, some
  of those its requests made; and the mock stream begins with its request
  (`fixtures.py:233-353`).

**`CaptureSessionProofs`**: `Typing`, `Invariance` (`IInv`), `Completeness`
(`CaptureComplete`), `Sealing` (`SealedForever`), `OrderOfEmission`
(`RequestStoredFirst`), `PumpGetsItsEnd` (`DrainEnds`).

`CaptureComplete` is not inductive: nothing in it says that the draft of a finish
under way is complete. `IInv` adds what the code relies on step by step. Handlers
run only while the proxy accepts (`HandlersMatchPhase`), so nothing is emitted once
the sentinel is queued, which is therefore last (`SentinelLast`); the pump returns
only on it, so then the queue is empty (`PumpMatchesPhase`), and since what was
emitted is stored or queued (`NothingLost`), everything is stored when the rows are
read (`DraftComplete`). The proof takes the actions one by one and the conjuncts one
by one under each; ingest calls share a lemma, as all they can do is add rows.
`Sealing` follows from `PhaseMatchesStatus`: a recording with a session is not
completed, and only sessions change what it speaks of. `OrderOfEmission` needs that
a response is queued behind its request unless that is stored (`QueueInOrder`).
`PumpGetsItsEnd` is the safety half of `StopWaitsForHandlers`: only a handler could
put something behind the sentinel, and none runs while the recording drains.

**`PipelineProofs`**, under every fault: `PipelineInvariance`, `NothingMisfiled`
(`NoCrossRecording`), `PipelineRefinesSession`, `PipelineTypeOKAlways`
(`PipelineTypeOK`), and `PipelineKeepsCaptures`, which carries the session's
theorems over. The session model lets an event be posted once; the code has no such
guard. That it is so is the point of `PipelineInv`: a statement is at one station of
its way, the queue, one flush, or posted (`OneStation`), at each of them addressed
to the recording of its request (`RightlyAddressed`), and it got there only by being
run (`StatementsRan`) by a request its proxy forwarded (`AppMatchesProxy`).

**`CalmProofs`**, if nothing fails, no SQL runs in the background and there is one
recording (`Calm`), for any number of requests and statements: `StatementsAccounted`
(`SqlAccounted`), `NoLateRows` (`GapFree`), `EveryStatementKept` (`NoLostEvents`).
The runs `late_row` and `lost_sql` show that the last two fail as soon as there is a
second recording. The invariant `CalmInv` says why the stop's waiting for handlers
is enough: a proxy waits while the app works on its request (`ProxyWaits`), an
ingest call is awaited by some flush (`CallsAwaited`), so while a call is in
progress a handler is, and nothing is stored between the reading of the rows and the
end of a finish (`DraftHasAll`). `LifecycleFollowed` (`FollowsLifecycle`) is the
refinement of `RecordingLifecycle` under the same conditions: opening, appending,
failing and the commit of a finish are its steps, everything else is not seen, the
snapshot included until the commit; the draft committed is the rows because of
`DraftHasAll`.

**`DemoShopProofs`**: `ShopTyping` (with it, no stock is negative),
`ShopConservation` (`Conserved`) and `ShopRace` (`OversoldByRace`). For the first
two, `IInv` adds that uncommitted writes are under locks (`WritesLocked`) and that
with atomic reservations each of them accounts, with what was taken, for the
*committed* value (`WritesAccounted`), which stays put as long as the lock is held.
For the third, a write is the availability seen less what was taken
(`WrittenFromSeen`), so a commit that unbalances had seen a stale one.
`ShopNeverHangs` (`NoEndlessWait`) is the safety half of `CheckoutEnds`, for any
number of checkouts of which, at any time, finitely many are in flight
(`FlightsFinite`): every lock is held by a checkout in its transaction, and SQLite's
by the only one that is (`HoldersReserve`). So on SQLite the holder can go on, and
on Postgres each blocked checkout waits for another that is blocked; of the sets of
checkouts that wait for each other only, a smallest one is a cycle (`CycleExists`),
and Postgres aborts one of it. `ShopServesAsLedger` (`ServesAsLedger`) is the
refinement of `ShopLedger`. A payment is where an order is served: by then its
transaction has taken the units of every line (`TakenSoFar`), and the committed
stock is what it leaves plus what it took, so the shelf held them all. A refusal is
justified at its end although the line that was short was tried earlier: that SKU
had fewer units than the lines up to it ask for, and stock only falls while a
checkout reserves (`ShortOfStock`). What an order asks for is the number of its
units, counted as a set, line by line (`UnitsAdd`).

**`CorrelateProofs`**, about the operators: `CorrelatedIs` (for any finite set of
events, however they are returned, the result is an arrangement of them with the
groups and the events of each group by the wall clock, numbered from 0, with only
missing parents filled in), `ArrivalDoesNotMatter`, `CorrelatedIsFixed` (correlating
a result again gives that result). Sorting is defined by rank, the place of an
element being the number of those not after it, so that no induction over the data
is needed: ranks in a total order run from 1 to the number of elements, each taken
once (`RankedLists`), and two listings of one set in one total order are equal. The
groups are sorted in the same way by their heads, and places in a concatenation are
pairs of a group and an index, in lexical order.

**`EventOrderProofs`**: `TypeOKAlways`, `GapFreeAlways` (`GapFreeSequence`),
`OwnParentsAlways` (`OwnParents`), `CausalOrderAlways` (`CausalOrder`),
`OrderIndependentAlways` (`OrderIndependent`), `FinishedStays` (`FinishedIsFixed`).
While the recording runs, `IInv` says of every row which of the two producers made
it (`Made`), that no producer numbers two alike (`Unmixed`) and that parents are
there (`Complete`); and, if the clocks agree, that no stamp was given twice and
causes are stamped before effects (`Stamped`, `Causal`), a response being an effect
of what its request did unless the app was at work on it afterwards (`late`). The
step that finishes takes this, with what `CorrelatedIs` says of the result, to the
properties; afterwards the rows are the result of a correlation (`Settled`), which
is fixed.

**`PortableProofs`**: `OriginalsKept` (`OriginalsUntouched`) from `OneWriter`, that
a call at work on a recording is alone and finds it in status "recording";
`RedactionMasks` and `RedactionIdempotent`, about redaction of any payload.
`TypeOKAlways`, `SelfContainedAlways` (`SelfContained`) and `NothingSensitiveAlways`
(`NothingSensitive`) follow from `KeptAlways`: rows, files and calls in progress
hold events of one name that refer to each other only (`KeptInv`), which re-keying
preserves because it is one-to-one, and finishing because it fills in only parents
that are there. `CopyFaithfulAlways` (`CopyFaithful`) follows a file through an
import: what is stored has its events and their links (`CopyOf`), of any file,
because re-keying maps ids one-to-one and finishing keeps the parents that are
there. Of a file that is correlated it is also in the order of the file: re-keying
and redaction change nothing the order depends on, so correlating a copy gives the
order of the original by `CorrelatedIsFixed`. `SubstitutionKeepsIdentity` is about
any leaves: after `k` of them the engine has sent what `Remembers` says, and has
drawn one UUID, numbered by the leaf it was drawn at, for each distinct value that
it draws for, so no two are alike. The fold over the leaves and the flattening of
the payloads are followed element by element to the first one where a claim would
fail, for the library's induction theorems, which take an operator, cannot be
instantiated here. `KeptInv` says that the payloads of any row are finite and hold
no UUID that is yet to be drawn, also after redaction, re-keying and finishing; with
that, `IdentityKeptAlways` (`IdentityKept`) follows.

**`ReplayProofs`**: `TypeOKAlways`, `AccountedAlways` (`Accounted`),
`EveryStatementComparedAlways` (`EveryStatementCompared`), `OutcomeRecordedAlways`
(`OutcomeRecorded`), for any number of requests and statements, any concurrency,
clocks, counters and faults. About the operators: a signature tells an event from
all others of its stream, so links are one-to-one and between events of one type
(`LinksPair`), and a comparison along such links has one result for each comparable
event of either stream, whatever rows those hold and whatever numbers they carry
(`ComparisonAccounts`). About the run, `IInv` says what every event on its way is
and that no two have one id, nor two of one producer one number (`PoolInv`); that
with an event its parent is handed on (`Complete`); how the stage of the runner and
the status of its row go together (`Staged`); that the runner numbers its own events
in order, and a source that was finished with all its rows makes the mock target
send none twice (`InSequence`, which is why only a live one or one with late rows
can make the primary key fail); what was finished, linked and compared (`FinalInv`);
and, without faults, where the result of each statement is until it is read: in the
queue, in a flush under way, or stored (`Whereabouts`; SQL in the background counts
as a fault). The runner waits for every request, a request for its flush, so when
the rows are read the first two are empty.

`LinksFollowRequestsAlways` (`LinksFollowRequests`) and `NoFalseAlarmAlways`
(`NoFalseAlarm`) go on from there. A link pairs groups by the order in which they
first appear. `LInv` says why that is the order of the requests, on both sides: the
runner sends them in order (`SentInOrder`), an event is stamped after the request it
belongs to was sent (`OnTime`), and what the runner gathered is stored before the
run is finished (`Stored`); so in the finished rows the q-th group is that of the
q-th request (`SourcePlaced`, `FinalPlaced`). `NInv` adds what holds of an
undisturbed replay of a whole recording against an unchanged build, with bodies that
survive their conversions: every request is answered before the events are read
(`AllAnswered`), what is on its way is as recorded (`AsRecorded`), a request whose
handler ended ran all its statements (`RanAll`) and one that was answered has its
response (`AnswersKept`), so both sides have of each type, in each request, equally
many events (`SourceWhole`, `FinalWhole`). Occurrences count from 0 without a gap,
so every comparable event finds a partner of its signature on the other side, with
the same content, and every result is a match.

Model-checked only: liveness (`StopCompletes`, `StopWaitsForHandlers`,
`ReplayWaitsForTarget`, `CheckoutEnds`), for fairness and `ENABLED` are outside the
prover's reach. Of the second and the fourth, `DrainEnds` and `NoEndlessWait` say,
and their theorems prove, what fairness is not needed for: that nobody waits for
what cannot come.

## 6. Not modelled

- The plugin registry, the database engine and the DDL, the command line, the
  dashboard, and the queries and health checks of the API keep no state and have no
  control flow of their own: they look up, call and present what is modelled.
- Which strings normalization takes for volatile, which keys are sensitive, which
  headers are kept, at which size a body is cut off and which content types are
  JSON. What is done to a body that is empty, cut off or not JSON is modelled.
- The refusal to replay against a target that looks like production, which comes
  before anything is stored.
- In the proxy, the duration of a response is set on the event after it was queued
  (`proxy.py:136`); payloads are not part of that model.
- In the shop, a Postgres reset that meets an open transaction, the locks foreign
  keys take, quantities that are not positive, and what is charged.
- What the demo fixtures contain.

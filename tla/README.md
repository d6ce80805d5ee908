# Verification of the KubeMQ AMQP 1.0 burn-in

The repository holds documentation, example clients, and one program: the
burn-in under `burnin/`, a Go process that drives an AMQP 1.0 broker for hours
and passes a verdict on what it lost, duplicated or delayed. These modules
model that program in TLA+. TLC checks them on small instances, and TLAPS proves
nearly all of the safety results for every value of the constants.

The verdict is only as good as the bookkeeping behind it, so that is where the
model starts: the sequence tracker that decides what counts as lost, the
engine that runs workers through warmup, measurement and drain, the workers that
feed the tracker, and the gates that turn counters into a verdict, a report and
an exit code. Three of the example programs are modelled as well, because they
make assertions of their own about the broker.

## Inventory

| Part | Code | What it does | Model |
| --- | --- | --- | --- |
| sequence tracker | `tracker/tracker.go` | per producer: watermark, reorder window (bitset), suspected losses, duplicates | `Tracker`, `TrackerBits`, `TrackerAudit`, `TrackerProofs` |
| run lifecycle | `engine/engine.go`, `worker_group.go` | states, `runLoop`, warmup, two-phase shutdown | `Engine`, `RunProofs` |
| process, control plane | `main.go`, `server/server.go`, `api/models.go` | start, stop and report by HTTP or flag, signals, exit code | `Engine` (start, stop, shutdown), `Report` (report, exit code), `BaseWorker` (start requests) |
| worker base | `worker/worker.go`, `util.go`, `props.go` | counters, rate windows, ready signal, contexts, warmup reset | `BaseWorker`, `Queues`, `Rpc`, `FanOut`, `CreditFlow` |
| queues worker | `worker/queues.go` | one producer, competing consumers, at-least-once | `Queues`, `QueuesProofs` |
| forced disconnects | `disconnect/disconnect.go` | closes the consumers' connections now and then | `Queues`, `FanOut`, `CreditFlow` (at any time) |
| events, events store | `worker/events.go`, `events_store.go` | fan-out, a tracker per subscriber, durable links | `SubTracker`, `FanOut`, `FanOutProofs` |
| RPC | `worker/rpc.go`, `commands.go`, `queries.go` | request, reply, correlation, timeout | `Rpc`, `RpcProofs` |
| credit flow | `worker/credit_flow.go` | manual credit, drain cycles | `CreditFlow`, `CreditFlowProofs` |
| verdict, report | `engine/verdict.go`, `extras.go`, `report/report.go` | snapshot, gates on it, twice | `Verdict`, `Report`, `ReportProofs` |
| metrics | `metrics/metrics.go` | rate windows | `RateWindows`, `BaseWorker`, `RunProofs` |
| payload | `payload/payload.go` | weighted message sizes | `BaseWorker`, `RunProofs` |
| configuration | `config/config.go` | defaults, file, environment, validation | `Config`, `BaseWorker`, `RunProofs` |
| queue examples | `examples/go/queues/*` | send, receive, settle, assert an empty queue | `QueueExamples`, `QueueExamplesProofs` |
| transport, other examples | `transport/*.go`, `examples/*` | wrappers over go-amqp; one-file clients | not modelled |

Interaction: `main` and the HTTP handlers start and stop runs on the engine; a
run's goroutine builds the workers, starts consumers, waits until they are
ready, warms up, resets, measures, stops producers, drains, snapshots, stops
consumers and computes a verdict. A worker's goroutines send and receive
through the broker and feed the counters and the tracker, which the engine
reads. The broker and go-amqp are outside the repository.

## Modules

### Tracker, TrackerBits, TrackerAudit, TrackerProofs

`Tracker` has one step per call, as every method holds the mutex. `Record` is
split into one action per way out: first sequence, recovered loss, duplicate,
beyond the window, inside the window. `producers` is the map of the code, with
all its fields; the window is the set of offsets whose bit is set. `Stats` and
the `Total*` methods only read.

`TrackerBits` stores the window as the code does, as words moved by one
position at a time, with the code's loops. `RefinesTracker` maps words to
offsets and shows that each of its steps is a step of `Tracker`.

`TrackerAudit` adds what the code does not keep: which sequences arrived, the
first of them (`base`), those that arrived `W` or more past the watermark
(`edge`), those that a slide jumped over (`skipped`), and the loss metric that
callers of `DetectGaps` add to. The properties relate the counters to this
history. The two exceptions are what the code really does:

- an arrival that forces a slide ends up at offset `W`, just outside the
  window; its bit is never set, and a later slide counts it as lost (`edge`);
- a jump of more than `W` past the window moves the watermark all the way and
  inspects only `W` sequences; the others are never counted (`skipped`).

### Engine, RunProofs

State of the `Engine` struct, one program counter per run, and the position of
`main`. A step goes from one lock, channel operation or blocking call to the
next, so every place where the code lets go of the lock is a place where other
goroutines can come in. Runs are numbers in order of acceptance; `cur` stands
for `runID`, `runCancel` and `runDone`, which change together. Worker groups
are reduced to whether their consumers and producers run. `StartConsumers`
cannot fail, because no worker's `Start` returns an error, so that error path
has no action. A signal may arrive at any time, which includes the end of a
bounded `-run`.

`overtaken` is history: a run was accepted after `setError` and before the
deferred block of the failed run. In that gap the code breaks most of what it
otherwise keeps, so the invariants exclude it and `StoppedIsTerminal` shows it.

### Queues, QueuesProofs

One channel of the queues worker: `produceLoop`, the `consumeLoop`s, the
counters `sent` and `received`, a tracker (`INSTANCE Tracker`), and the phases
of the engine that touch them. A message is its sequence number, which is what
the code stamps on it. Messages wait at the broker, or are unsettled on a link
and then in the client's prefetch buffer, in the consumer's hands, or accepted
with the disposition under way. Closing a connection requeues what is
unsettled (`docs/guides/reliability.md`, section 4).

Failed attempts to connect or attach leave no state behind and are stuttering
steps. Latency, error, duplicate and corruption counters, and the `!ok` branch
of `extractMeta` (no sender omits the stamps), are left out. The broker's
actions `BrokerStore`, `TransferLost`, `Deliver`, `Settle` and `Drop` are
external. The drain may end at any time, earlier than the code's second of
silence, so what is checked does not depend on timing.

### Rpc, RpcProofs

One channel of the commands or of the queries worker (`pattern`): requesters
with their reply nodes, responders, the RPC counters, the tracker. A request
carries who sent it, in which round of producers, and its number. The code
stamps it with the number alone, as sequence and as correlation id, and every
requester counts from 1 again in every round. So requests under way at the same
time do share correlation ids (`rpc.go:193` calls them unique), and the tracker
sees their sequences as duplicates. What keeps replies apart is the reply node,
which lives as long as the requester's links: `mine` is the set of requests
that name it. The broker answers a command that nobody answers in time as not
executed, and leaves a query unanswered (`docs/concepts/rpc.md`).

### SubTracker, FanOut, FanOutProofs

`SubTracker` is the data structure of `events.go`, as operators. `FanOut` is one
channel of the events worker, with several subscribers, or of the events store
worker, with one consumer (`pattern`), whose subscription is durable or not as
the configuration says (`durable`). Both have the same loops. They
differ in the sender's settlement, in what the broker does for a subscriber that
is away or without credit, and in that the store also feeds the tracker. The
broker keeps the order of each sender connection; what a closed connection still
carries arrives late or never. Deliveries are settled when sent
(`docs/concepts/durable-subscriptions.md`). A subscription that is not durable
starts at the next message. A durable resume starts where the
subscription was or earlier, but repeats only what is at most `Window` behind
the highest arrival: `events.go:37` assumes that redeliveries are near-term.
`cursor` is the position that the broker keeps for the subscription: a resume
starts there or later, so no resume goes back past an earlier one
(`events_store.go:17` relies on the durable cursor). With resumes free to go
back further, `MissingIsExact` fails with four messages, three faults and a
credit of 1.
A delivery of the store is recorded by the sub-tracker in one step and by the
tracker in the next, as the two have locks of their own; in between it is in the
consumer's `hand`, and the engine may reset the tracker or take its snapshot.

A failed `Send` uses up a sequence, and so does one cancelled at the end of the
warmup. Subscribers report it as missing; `LossIsExplained` allows for it.

The snapshot of a worker adds what its tracker takes for lost to the worst gap of
its sub-trackers (`Lost`). For events the tracker is never told anything and the
sum is the gap. For the events store both structures see every delivery, so what
the tracker takes for lost is for the most part in the gap as well and counted
twice. `SnapshotLoss` says so as an invariant: the snapshot reads the two terms
at different moments, and each is right at any moment. Of what did arrive the
tracker takes for lost only

- what it was told before the reset that ends the warmup, or `W` or more past its
  watermark, where it sets no bit (both are in the history variable `unmarked`);
- the delivery in `hand`.

### CreditFlow, CreditFlowProofs

The credit-flow worker on one channel. The consumer's position is where it
stands in `consumeLoop`, `creditCycle`, `drainAndVerify` or `drainPrefetch`.
What the broker pushes travels in order, with the answer to a drain among the
messages, then waits in the prefetch buffer. `drainEvery` is a timer, so a drain
may follow any batch, and `MaxGrants` bounds how many batches go without one.
The broker may do what the worker is there to find, push without credit and
leave a drain unanswered, a bounded number of times. On a broken link
`IssueCredit` may succeed, as it only queues a frame. A `Receive` that finds
nothing ends the batch with credit left over, and the next grant adds to it.

### Verdict, Report, ReportProofs

`Verdict` has the judgement as operators on records of counters: the snapshot of
a group, the ten gates of `computeVerdict`, the gates of `GenerateVerdict`, and
how `RunReport` reconciles the two. Percentages are compared by multiplying out.
`Report` puts them where they happen: the run's goroutine samples memory,
freezes the snapshot, stops the consumers, samples once more and judges; `main`
and a client go through `RunReport`, which takes the lock once for the
snapshots, the configuration, the memory and the verdict each, while runs end
and begin; `main` reads the verdict twice more for its exit code. `runs` in
`told` is history: which runs the pieces of a report come from.

### Config, RateWindows, BaseWorker, RunProofs

`Config` is the configuration as records, and what is done to it: defaults, a
file over them, environment variables, the blocks of a start request, durations
and `Validate`. Texts are members of small sets. `RateWindows` has the two rings
of buckets. `BaseWorker` composes them: a process loads a configuration, start
requests are overlaid on it, the worker derives its settings, its producer
chooses sizes and records in both windows one lock at a time, and the engine's
ticker advances them one lock at a time. `logs` is history: what each window was
told, second by second. `Engine` and `BaseWorker` are both about a run and share
no variable. `RunProofs` extends both, so `BaseWorker` calls its specification
`WorkerSpec` and its bound on runs `MaxStarts`; its start request is `StartRun`.

### QueueExamples, QueueExamplesProofs

The Go programs `basic-send-receive`, `settlement-modes` and
`ack-release-redelivery` (`program`), started `MaxRuns` times one after the
other over a broker that keeps its queue. A message is told by the run that sent
it, which the programs cannot see: bodies are the same in every run. A call may
fail anywhere, a pre-settled message may be lost, a disposition or an
acceptance may be lost with the connection, and the broker may be slower than
the two seconds the programs wait to see that the queue is empty.

## Runs

| Run | Checks | Instance |
| --- | --- | --- |
| `tracker` | counters against history | 1 producer, sequences 0..7, `W` = 2, 5 records between resets, 1 reset |
| `tracker_bits` | words implement sets | `W` = 3 over two 2-bit words, sequences 0..9, 6 records |
| `engine` | one run at a time, shutdown, verdict, termination | 2 runs, 2 clients |
| `queues` | nothing is lost between broker and counters | 2 consumers, credit 1, 3 messages, 1 fault, unsettled sender |
| `queues_live` | messages are consumed, shutdown ends | 1 consumer, credit 2, 2 messages, 1 fault, 1 message dropped, settled sender |
| `rpc` | replies reach their request, requests have one outcome | 2 requesters, 1 responder, 2 requests a round, 1 fault |
| `fan_out` | reported gaps are real and explained, and how the snapshot adds them | 2 subscribers or 1 store consumer, credit 2, ring 1, `Window` = 1, `W` = 1, 5 messages (3 if not durable), 1 fault |
| `credit_flow` | no false fidelity failure, nothing lost, delivery resumes, the consumer stops | batches of 2, 2 messages, 2 grants a drain, 1 fault, 1 over-delivery, 1 hanging drain |
| `report` | report against verdict against exit code | 2 runs, 2 configurations, 14 and 2 sets of counters at or next to a gate |
| `base_worker` | sound configuration, overlay, rate windows, sizes | 5 files, 2 environments, 9 requests, 2 runs, windows of 3 and 2 seconds, 4 seconds |
| `queue_examples` | success means arrival, no false alarm | 3 programs, 2 messages a sender, 3 runs |

Bounds. Producers of a tracker share nothing, so one is enough. Sequences up to
7 with `W` = 2 reach a slide of every distance, the capped one included, and a
second slide after it; five records leave room for a slide, a recovery and a
second slide. `W` = 3 in two words has a carry and a
spare bit. Two runs are the least in which one can overtake another, and two
clients the least that can race. Two consumers and one fault reach every
redelivery: buffered, held, accepted. Consumers are interchangeable, and the
safety run uses that symmetry; the liveness run does not. Two requests in each
of two rounds let a late reply meet the next request of the same requester, a
request of the other, and one of the next round. Three messages and `Window` = 1
make a sub-tracker forget a sequence, and one fault lets a delivery be repeated,
passed over or overtaken. With `W` = 1 the tracker evicts a sequence at the
fourth message, and at the fifth one that had arrived beyond the window: the
durable consumer goes up to five (`MaxSeq`), the others, which meet no sequence
twice, up to three (`MaxTransient`). The run's `VIEW` leaves out the counters
`sent`, `received` and `eventsDropped`, which no guard and no property reads.
Two messages and two grants of two let credit be left over and messages be
pushed before, during and after a drain. Each set of counters in `report` trips
one gate or just misses it, and two runs are enough for a report to mix them.
Four seconds make both windows wrap around. Three runs of an example let
leftovers of one that failed meet a second and a third.

`Rpc`, `FanOut`, `Report`, `BaseWorker` and `QueueExamples` have no fairness,
and their runs may stop at the bounds and at the end of the process, so deadlock
is not checked there; nor in `CreditFlow`, which stops with its consumer and
whose liveness properties say what must happen before.

One run is expected to find a violation of what the repository says:
`stopped_is_terminal`. `main.go:132` calls stopped "a terminal state", but a run
accepted between `setError` and the deferred block of a failed run is marked
stopped while it goes on, and its `runDone` is closed twice.

### Known divergences

Other places where the code and its comments disagree show as exceptions that
the properties name:

| Statement | What the code does | Where it shows |
| --- | --- | --- |
| `tracker.go:203`: the pending count "is the true loss" | the arrival that forces a slide may later be counted as lost | `edge` in `LossBracket` |
| `tracker_recovery_test.go:29`: genuine loss "must still be reported" | what a capped slide jumps over is not | `skipped` in `LossBracket` |
| `worker.go:38`: `Start` "signals ConsumerReady once they are receiving" | the first of several subscribers signals | what `LossIsExplained` allows for |
| `extras.go:22`: extra loss is "not captured by the per-producer sequence tracker" | for the events store it is | `Pending` counted beside the gap in `SnapshotLoss` |
| `credit_flow.go:158`: "at most creditBatch in flight" | a grant adds to the credit left over | `IssueCredit`; `NoFalseGap` holds all the same |
| `main.go:7`: exit code 0 is for a passed run | the printed report may say FAILED, when fidelity failures of several workers add up | `FidelityAddsUp` in `ExitCodeTellsTheReport` |

Other limits of the code show in how properties are stated: the drain window
has its consumers unless the run was cancelled
(`DrainHasConsumersUnlessCancelled`), and a shutdown that finds a run stopping
does not wait for it (`ShutdownSawTheEnd` and `ExitCodeTellsTheReport` are about
runs that were over). A report requested between the snapshot and the verdict of
a run is built from the report's own gates alone, which are fewer, and one
requested while runs change may mix two of them: `ReportNotKinder` is about
reports of one judged run. `basic-send-receive` takes any error of its last
`Receive` for an empty queue (`slow` in `DoneMeansArrived`). The tracker
cannot see a loss after the last sequence that arrived, so nothing here says
that a missing tail, or a run that received nothing, shows as loss.

## Fairness

Goroutines are scheduled: weak fairness on each run's loop, on `main`, on the
producer and on each consumer. In `Engine` the timeouts of
`WaitForConsumerReady` (30 s) and `GracefulShutdown` (90 s) are among these
steps; clients, signals, the end of a run's duration and the broker are under
no obligation. In `Queues` the broker stores, delivers and settles what it can;
connections may break but not for ever (`MaxFaults`), and nothing makes the
measurement end. In `CreditFlow` frames arrive and, but for `MaxHangs` times,
drains are answered (weak fairness). Delivery is strongly fair: credit goes away
with every drain and comes back with every grant, so it is enabled again and
again but never for good, and a broker that is granted credit time and again
pushes a message at last.

## Proofs

`TrackerProofs` proves, for every set of producers, set of sequences, window
size and bound, the type invariant and every property of the run `tracker`. The
code's only assumption is `W > 0`.

The properties are not inductive one by one. The invariant `TrackerInv` says of
every known producer (`Accounts`) that the base is at most the watermark, that
no arrival is more than `W` + 1 past it, that the bits of the window are the
arrivals there, that everything from the base to the watermark arrived, was
skipped or is pending, that what is pending lies in that range and, unless it is
in `edge`, has not arrived, and that `confirmedLost` is the number of pending
sequences. It adds that bit 0 is clear, which is what anchors the window, and
`Metered`: what was last reported is at most the metric, and the metric together
with what the next report would add is at most the number of sequences ever
suspected. Without the second half, a recovery between two reports could not be
told from a loss reported twice. Unknown producers have no arrivals. The
assumptions are `W > 0`, and that sequences and bounds are natural numbers.

The argument has three layers: lemmas about sets of offsets (`shiftLeft`, the
leading run of bits, evictions), lemmas about a producer's state before and
after `advanceContiguous`, `slideWindow` and each way out of `Record`, and then
one step per action for all producers.

`ReportProofs` proves `ReportNotKinder` and `ReportHarsherOnlyOnFidelity` for
all configurations, counters, memory readings and numbers of runs. It assumes of
the thresholds what `Validate` guarantees: the memory factor and the p99 limit
are positive (`ValidatedThresholds`). Without it the two disagree: a memory
factor below 1 is exceeded in the report by memory that never grew, and a limit
of 0 means no limit to the engine and failure to the report. The argument is in
two parts. `Judgements` compares the gates on one snapshot, with memory read at
the same time or earlier: `WorkerGates` shows that every gate of the report is
one of the engine's, and reconciliation covers the gates the report lacks. The
inductive invariant `ReportInv` then says that what a caller holds at each point
of `RunReport` is what the engine holds, as long as all its pieces come from the
current run (`Reads`), that the snapshot has exactly the enabled workers, and
that a verdict is that of the snapshot (`EngineInv`).

`QueueExamplesProofs` proves both properties of the run `queue_examples` for any
number of messages and runs. For `DoneMeansArrived` the invariant adds `Kept`:
each unsettled message that the run has sent is in the queue or was received by
this run, so an empty queue at the end leaves only the second. For
`OwnChannelNoFalseAlarm` it adds `AckInv`: of each body of the run there is one
message, in the queue until it is done with, and the one that was released has a
positive delivery-count.

`CreditFlowProofs` proves `NoFalseGap` and `AtLeastOnce` of the credit-flow
worker for any batch and any number of messages, lost connections,
over-deliveries and unanswered drains. The assumptions are that the batch is one
that `Validate` accepts and that the bounds are natural numbers. `NoFalseGap`
counts what is still to be flagged. The invariant `GapInv` says that after the
answer to a drain the credit is 0, so that every message behind the answer in
the pipe is an over-delivery nobody has flagged yet; that while the drain is
verified the same holds of the whole pipe; and that once the first pass has
emptied the buffer, and the link is still up (`Emptied`), it holds of the buffer
as well. A first pass cut short by a failed `AcceptMessage` leaves messages in
the buffer that were pushed under credit, but it implies a broken link or a
cancelled context, and then the second pass counts nothing. `HeldInv`, for
`AtLeastOnce`, adds that an unsettled message is in the pipe, in the buffer or
tracked, so the broker settles only what is tracked.

`RunProofs` has two parts. The first proves the five invariants of the run
`engine` for any number of runs and clients (`MaxRuns` is at least 1). Each of
them needs the others, so they are proved together: `LifecycleInv` says, as long
as no run was overtaken, that all runs before the current one have set their
final state and the state names the phase of the current one (`Sequential`),
that each deferred block closes the channel of its own run (`ClosesItsOwn`),
that producers, periodic tasks and consumers belong to the current run and to
its phase (`WorksForTheRun`), that verdict and snapshot are of the current run
(`Judged`), and that what `GracefulShutdown` waited for is over (`WaitedFor`).

The second part proves the five invariants of the run `base_worker` for all
window sizes, files, environments, start requests, seconds and messages. The
assumptions are that window sizes are positive, that bounds are natural numbers,
and what the decoders guarantee: counts are integers and a distribution is a
list of pairs of integers (`InputTypes`). `ConfigInv` says that the startup
configuration is still the loaded one and that the configuration of a run is
the overlay of its body on it, parsed and validated. `WindowsInv` says that the
bucket `k` places back in a ring holds what was told `k` seconds ago (`Ring`),
that the total is the sum of the last seconds, and that the peak is the greatest
such sum so far. `RingNext` is the step that matters: the bucket which advancing
clears is the second that leaves the window. `SelectsBetween` shows that a draw
selects entry `i` exactly when it lies between the cumulative weights before and
after it, from which the number of draws follows.

`QueuesProofs` proves the four invariants of the run `queues` for any finite set
of consumers, any credit, either settlement mode and any number of messages and
failures. `ProducerInv` ties the `Send` under way to its message. `HeldInv` says
that what is unsettled on a link is in its buffer or tracked, so the broker
settles only what is tracked. `TrackedInv` counts the consumers between the
tracker and the counter. `MeasuredInv` is for `QuietDrainIsComplete`: there is a
sequence after which the measurement began, and a set of messages whose receipt
is counted in it, such that every stored message after that sequence is in the
set, at the broker or dropped. The existential keeps both out of the model.

`RpcProofs` proves both invariants of the run `rpc` for any finite set of
requesters and any number of requests and failures. `NodeInv` says that a
pending request which names a requester's node is the one it is waiting for, and
that then no reply is there yet: a reply node is given up with the links before
the next request is minted. `OutcomeInv` is `OneOutcomeEach` with the requests
that are sent and wait for an answer added to the second bound.

`FanOutProofs` proves `MissingIsExact` and `LossIsExplained` for any set of
consumers, every window of the sub-tracker, every credit and any number of
messages and failures. `LogInv` says that the broker takes each sequence once.
`CountInv` says that a sub-tracker has counted what arrived and forgotten only
what is more than `Window` behind. That is preserved only if what is still to
come is new or remembered: for events it is new (`EventsInv`), for the durable
consumer `StoreInv` says that what arrived after the cursor is a first part of
the log, that the buffer continues it, and that the sub-tracker remembers
everything it may meet again. `LinkInv` accounts for each sequence up to a
subscription's position.

It also proves `SnapshotLoss`, for every reorder window as well. `TrackInv` says
that only the consumer of the store has deliveries in hand, one at a time, and
`Marks` relates the tracker's state to the arrivals it keeps account of (`Told`:
not unmarked and not in hand): each of them above the watermark has its bit, none
is pending, what is pending lies between 1 and the watermark, watermark and bits
are no higher than the highest arrival, and `confirmedLost` is the number of
pending sequences. That is less than the `Accounts` of `TrackerProofs`, and it
survives the reset, after which nothing is `Told`. The prover cannot use theorems
through an `INSTANCE`, so the lemmas on the tracker's operators are proved again
for this invariant.

`ReportProofs` also proves `ExitCodeTellsTheReport`. `ExitInv` adds to
`ReportInv` where a run stands when it has a snapshot or a verdict
(`JudgedInv`), and that from the moment the awaited run is over, with no other
accepted, what `main` has read is still what the engine holds (`MainInv`).

Sums over sets and functions are folds in the community modules. What `RpcProofs`
and `RunProofs` need of them is proved by induction on the size of a set, with
the induction hypothesis given as a set of numbers (`SetInduction`).

### Only model-checked

- `RefinesTracker`: the loops of `TrackerBits` are recursive operators, and what
  they compute for every input needs an induction with an operator as its
  hypothesis.
- `CancelledRunReturns`, `ShutdownExits`, `WaitingIsHandled`, `ShutdownEnds`,
  `HeldRemainderResumes` and `CancelledConsumerReturns`: liveness under fairness
  is out of the prover's reach.

## Not modelled

- `transport/*.go`: one call of go-amqp each, TLS and SASL set-up, names of
  nodes. What the library and the broker do is in the workers' modules.
- Start positions of the events store other than new-only (first, last, a
  sequence, a time), which make a new subscription begin in the past.
- What an earlier process has left at the broker under the channel names, which
  are the same in every run (`transport/nodes.go:40`): queues, log and durable
  cursor start empty in `Queues` and `FanOut`. Leftovers are modelled for the
  examples.
- The ticker of `disconnect.go`: disconnects come at any time, which covers it.
- The latency histogram (a library), Prometheus registration, logging, printing
  and the handlers that only read.
- The example programs for events, events store, commands, queries,
  authentication and large payloads, which go through the exchanges of `FanOut`
  and `Rpc` with one goroutine a side, and the examples in other languages,
  which repeat the Go ones.

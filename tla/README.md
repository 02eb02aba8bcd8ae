# VoxLattice in TLA+

Specifications, model-checking runs and machine-checked proofs for VoxLattice,
the GPU speech-enhancement service and its LiveKit plugin. Paths below are
relative to the repository; `SVR` is
`services/fastenhancer-server/src/fastenhancer_server`, `PLG` is
`packages/livekit-plugins-fastenhancer/livekit/plugins/fastenhancer`.

## 1. Inventory

| Component | State | Operations | Talks to |
|---|---|---|---|
| Stream session (`SVR/session.py`) | bounded input queue of model work, bounded output queue of events, caches, pending source hop, flags `scheduled`, `ended`, `cancelled`, sample counters, rechunker | enqueue source / flush / no-flush work, emit an event | shared by the request reader, the handler and the scheduler of one server |
| PCM rechunker (`SVR/audio.py`) | deque of parts, pending samples, next sample | `append`, `flush_partial` | called by the request reader |
| Batch scheduler (`SVR/scheduler.py`) | ready queue, one task, `_closing` | `notify`, collect, dispatch, infer in an executor thread, distribute, `_complete`, `_fail`, `close` | all sessions, the model, the gauges |
| Model runtime (`SVR/model.py`, `self_test.py`) | weights; per-stream caches | `infer_batch`: combine caches, run, check finiteness, split caches | called by the scheduler in a thread |
| Enhancement service (`SVR/service.py`) | stream registry; per RPC a handler and a request-reader task | `Enhance`: validate the start, register, read requests, yield events, clean up | client, scheduler, registry, gauges |
| Single-stream pipeline (`SVR/pipeline.py`) | caches, pending hop, closed | `push`, `flush` | used for self tests and offline use; what a stream should hear |
| Server lifecycle (`SVR/main.py`, `health.py`) | readiness, health states | start-up order, SIGTERM: health off, stop gRPC with a grace period, close the scheduler | everything |
| Settings and metrics (`SVR/settings.py`, `metrics.py`) | three gauges, counters, histograms | | |
| Plugin frame processor (`PLG/processor.py`) | raw and enhanced timelines, cursors, generation, enable flag, fallback state | `process`, enable/disable, worker callbacks | LiveKit audio thread, worker thread |
| Plugin timeline (`PLG/timeline.py`) | contiguous raw PCM; out-of-order enhanced segments | append, discard, take, add | frame processor |
| Plugin gRPC worker (`PLG/transport.py`) | worker thread, bounded request queue, pending-sample count, generation, backoff | connect, send, reset, end, close | server, frame processor |
| Wire schema, tools, benchmarks, examples, deployment, vendored network | no protocol state of their own | | |

What is hard in this system:

* **Three tasks share a session.** The reader fills the input queue and sets
  `scheduled`; the scheduler empties it, clears `scheduled` and fills the output
  queue; the handler empties the output queue and, in its `finally` clause,
  everything. They interleave at every `await`, most of all while the model
  computes.
* **The model is one hop late.** The audio of a batch row belongs to the hop the
  stream sent *before*; pending hop, caches and batch index must advance together.
* **Bounded everything.** Input, output and ready queues, the registry, the
  rechunker and the batch are all bounded, and each bound has its own way to
  fail: block, raise, fail the stream, refuse the RPC.
* **Cleanup is spread.** Gauges are changed at a dozen places, cancellation leaves
  a stream in the ready queue, in the batch or in flight.
* **Threads nobody joins.** In the plugin each call has a request-iterator thread
  of gRPC's, which outlives a failed call while it waits for the shared request
  queue, and then competes with the worker and with the next call for requests.
* **Two clocks in the plugin.** Frames must come back at once, responses come late,
  in part, for another generation or not at all; the event loop and the worker's
  callbacks change cursors and buffers between each other's lock sections.
* **A process with edges.** Readiness, two health names, two listeners, the
  scheduler and the signal handlers start and stop one after the other.

What makes each part correct: for the rechunker, that hops are the samples in
order; for a session, that queues stay bounded, that no accepted sample is lost
or repeated and that `StreamEnded` tells the truth; for the scheduler, that a
stream waits once, is never forgotten, has one hop in flight and hears only
itself; for the service, that gauges and registry are exact, that a cancelled
stream gets nothing more and that every RPC ends; for the whole server, that
batching is invisible: each stream hears what a pipeline of its own would give.
For the plugin's buffers, that they are a map from positions to samples; for its
worker, that a generation sends and delivers one stretch of the audio it was
offered, that closing ends the thread and that the queue is bounded; for the frame
processor, that output never leaves its interval of the timeline and raw audio is
always there to fall back on; for the process, that health is earned and withdrawn
in the right order and a signal ends it.

## 2. The modules

    StreamSession  <-  BatchScheduler  <-  EnhancementService  <-  MCEnhancementService
                                               |  Pipeline == INSTANCE
                                               v
                                        StreamingPipeline      <-  MCSequential
                                        EnhancedBuffer         <-       ^
    Rechunker  PcmConversion  ModelRuntime  --------INSTANCE------------'
    ServerLifecycle

    GrpcWorker --Interface == INSTANCE--> WorkerInterface <-  FrameProcessor
                                                                  |
    EnhancedBuffer --Map == INSTANCE--> SampleMap                 v
          '----------------------------------------------->  Timeline

    CountingProofs <- EnhancementServiceProofs <- SampleChainProofs
          ^-- TimelineProofs <- FrameProcessorProofs, SequentialProofs
          ^-- GrpcWorkerProofs
    ServerLifecycleProofs

(`<-`: is extended by.) `MCSequential` composes the modules without
concurrency: a behaviour of it drives one of them, the `subject`. It extends
`StreamingPipeline` and `EnhancedBuffer` and instantiates the others; `SequentialProofs`
extends it and proves about all five parts.

`StreamSession` is the session as a record, with the operations of `session.py`,
of the scheduler's `_fail` and `_complete`, and the rechunker at the level of
counts, as operators from session to session. It has no variables.

`BatchScheduler` is `scheduler.py`. `sched` is where the scheduler's task stands:

| `sched` | in `_run` |
|---|---|
| `idle` | awaiting the first ready stream |
| `collect` | awaiting more, until the batch deadline or `MaxBatchSize` |
| `dispatch` | in the loop that takes one work item per stream |
| `infer` | awaiting the executor |
| `distribute`, `failing` | in the loop over the results, or over the failed batch |
| `dead` | the task ended with an exception |
| `closed` | the task was cancelled by `close` |

`EnhancementService` is `service.py` composed with the scheduler: per RPC a
handler (`new`, `sending` = suspended in a yield, `waiting` for an event,
`aborting`, `closed`) and a reader (`reading`, `putting` = suspended in a put on
a full input queue, `stopped`). A stream is one RPC; the IDs clients choose are a
separate constant, so that two RPCs may ask for one ID.

`StreamingPipeline` is `pipeline.py`, one per stream, and doubles as the abstract
specification of the server. `Rechunker` is `audio.py`'s deque of parts with one
step per iteration of the copying loop.

`PcmConversion` is the two conversions of `audio.py`, with two base-`Radix` digits
for a sample and floats between the levels; `host` is `sys.byteorder`.
`ModelRuntime` is the concatenation and splitting of caches in `model.py`: rows
carry the hops they absorbed and, in recurrent caches, their frequency, so that an
offset off by a row is visible although every shape stays right.

`ServerLifecycle` is `run` of `main.py` with `/readyz` and the two gRPC health
names (`serving`), both listeners and the signal handlers; `at` is the statement
`run` has reached. RPCs, signals, start-up failures and the scheduler's death come
at any step.

### The plugin

`Timeline` holds the operators of `timeline.py`: a run is a position and samples,
`ContiguousPCM` is one run, `EnhancedSegments` a sorted sequence of runs.
`EnhancedBuffer` drives `EnhancedSegments` with every sequence of calls and
implements `SampleMap`, a partial map from positions to samples whose entries are
never replaced.

`GrpcWorker` is `transport.py`. Its actors are the application thread (`at.app`),
the worker thread (`at.worker`) and, per generation, the thread in which gRPC runs
the call's request iterator (`calls[g].iterator`). Steps end where a thread
touches something shared: the request queue, the pending count, `_stop`, `_reset`,
`_call`, the channel.

| `at.worker` | in `_run` |
|---|---|
| `probing` | `_wait_until_ready` |
| `taking` | `_next_audio_or_stop`, in `_requests.get()` |
| `starting`, `opening`, `called` | before `_reset.clear()`, before `stub.Enhance`, before `_call` is set |
| `streaming` | in the loop over the responses |
| `reset` ... `putReset` | in `force_reset`, called from `on_audio` |
| `failed`, `zeroFailed`, `finally` | in the `except` and `finally` clauses of a call |
| `backoff`, `closed` | in the delay; the thread has ended |

An iterator is `checking` its request, `yielding` it, `releasing` its reservation
once it was sent, `getting` the next one, or `done`. A call may be `over` while its
iterator is still `getting`: `Steal` is what such an iterator does with a request.

`WorkerInterface` is what the processor may rely on. `GrpcWorker` implements it
(`ImplementsInterface`), and `FrameProcessor` is composed with it rather than with
the threads: its actions are the lock sections of `_process`, `enabled` and
`_close` and the worker's callbacks, and every action of a worker within the
contract may come between two of them. A sample of output is its position and the
generation that enhanced it, 0 for raw.

### How asyncio is modelled

All of the server's tasks run on one event loop and switch only where an `await`
suspends. A handler's or reader's code between two suspending awaits is one
action. The scheduler's two loops are written one stream per step, because their
bodies have several outcomes; `LoopFree` keeps every other task out meanwhile, so
they are atomic as in the code. An `asyncio.Queue.put` on a queue with room does
not suspend, which is why a reader enqueues all the hops that fit in one step and
stops only at the first that does not (`Put`). `Queue.get` with a timeout may
give up at any time: the batch deadline and the idle time are nondeterministic.
The executor thread touches nothing but the batch it was given, so its call and
its return are the only visible events.

### What is abstracted

Samples are positions in their stream; a hop is `[start, valid]`. What enhanced
audio contains is the hop the recurrent caches had absorbed when it was computed
(`heard`): of the vendored network (`Absorbed`, `AudioFrom`) the models keep which
rows of which caches an output depends on, and none of the arithmetic; in the
scheduler `InferBatch` says that row *i* depends on row *i* and is one hop late. Sequence numbers, offsets
other than sample counts, message fields, status texts, histograms and time are
left out; the checks of one message are a single rejection
(`ProtocolViolation`). `input_start_sample` is taken as 0: it only shifts
positions. A reader's task that is left behind by cancellation ends in the same
step as its handler's `finally` clause, which awaits it. After a stream was
cancelled its reader may still accept audio, as in the code. An RPC that was
accepted before the server stops may send its first message within the grace
period; until that period ends such a stop changes nothing for the RPCs already
there, so `StopServer` is the moment after the last of these messages.

In the plugin a probe that `force_reset` cancels is a probe that fails. The call of
a generation is forgotten once its iterator is done and the worker has dropped it.
The channel's options, message fields, the checks that make `_run_generation` raise
(one action, `BadResponse`), metric counters, stream metadata and the state string
are left out. `queue.Full` is not modelled: the queue has a slot for every sample
of `max_request_queue_ms`, and a frame is many samples. The branch of
`_receive_audio` for a response of another generation is in `Receive`, but no
behaviour within the contract takes it: the worker announces a generation before it
delivers anything for it, from the same thread.

## 3. The runs

`CHECK_DEADLOCK FALSE` is set everywhere because the systems stop: a run has a
fixed number of RPCs (or samples), and when all are closed nothing is left to do.

| Run | Instance | Question and answer |
|---|---|---|
| `service_pair` | 2 RPCs, 2 IDs, hops of 2 samples, chunks of 1–2, at most 3 samples each, queues of 2, batches of 2 | The main run: types and capacities, gauges, registry, ready queue, wake-ups, sample chain, own audio, completions, finality of cancellation, and the refinement: every behaviour is a behaviour of one `StreamingPipeline` per stream (`ImplementsPipeline`). All hold. |
| `service_long` | 1 RPC, up to 9 samples, chunks of 1–5 | More hops than all buffers hold together, several hops per chunk, a put suspended in the middle of a chunk and between partial hop and flush. All hold. |
| `service_shutdown` | 2 RPCs, hops of 1, chunks of 1–2, at most 2 samples, output queue of 1 | The server is stopped at any moment and the scheduler closed at any of its awaits; gauges and registry stay exact. |
| `service_churn` | 3 RPCs on 2 slots, batches of 1 | Closed streams are still in the ready queue when new ones open; the ready queue overflows and the scheduler can die. What the code keeps even then: gauges, and no lost wake-up while it runs. |
| `service_live` | 2 RPCs, the client of `s1` may stop reading | Under `Fairness` every RPC of another client that was opened is closed. No symmetry: liveness. |
| `sequential`, the pipeline | 2 pipelines, 5 samples, hops of 2 | Hops come back in order and each was computed from itself. |
| ... the rechunker | hops of 3, limit 6, chunks of 1–7, 11 samples | Every way to cut 11 samples into chunks, including parts that span, fill or miss a hop boundary, and chunks beyond the limit. |
| ... the conversions | bytes of 4 values, 4 floats per level, 2 samples, 2 levels beyond full scale | Every chunk on hosts of both byte orders and every wave: the wire is little-endian, what is returned is the nearest level, never wrapped, and so audio left alone comes back bit for bit. |
| ... the batching of caches | 3 streams, 3 frequencies, 3 recurrent caches, 4 hops each, every batch in every order | The caches and the audio of a stream are those of the stream alone. |
| ... the plugin's buffer | 5 positions, 2 takes | Any runs in any order, overlapping, repeated, discarded anywhere: sorted, disjoint, read by position, a partial map. |
| `worker` | 4 frames, 2 calls, queue limit of 1, never closed, `Mistrust`: `on_audio` may call `force_reset` from the worker's own thread | Resets from both threads, failures and ends nobody asked for at any step: what the pending count forgets within its bound (`ForgottenBounded`), at most one frame leaks past disabling, the contract is kept. |
| `worker_close` | 2 frames, 2 calls, one doubling of the delay, `Mistrust`, closed at any step | `close` ends the worker unless two abandoned iterators wait; the delay starts over only when closing, or by an end that nobody asked for; types and counts are right and the contract is kept while closing too. Liveness. |
| `processor` | 6 samples, frames of 1–3, lag of 2, 3 generations, a server that may answer beyond what it was sent | All behaviours of a worker within its contract: output aligned, raw window exact, buffered audio in the window and of one generation, no honest server distrusted. |
| `lifecycle` | 2 RPCs | Health is earned, withdrawn before RPCs are refused, the scheduler outlives the RPCs, a handled signal ends the process. |
| `scheduler_dies`, `abandoned_iterators` | 3 RPCs on 2 slots; 2 frames, 2 calls | The findings of section 6: each checks one documented statement and finds it violated. |

Bounds and why they suffice. Two RPCs are enough for every pairwise race (ID
collision, two rows in a batch, one cancelled while the other is in flight);
three on two slots are needed to fill the ready queue with closed streams. An
input queue of 2 is needed so that a stream still has input when its result comes
back and is renotified; with 1 that path would never fire. Hops of 2 samples with
chunks of 1 and 2 give partial hops, exact hops and remainders. Three samples
give two hops and a flush in flight at different times; the long run covers more
hops than buffers. `MaxSamples` bounds what a client sends, `MayStop` whether
shutdown is explored, and `MaxChunk`/`MaxAppended`/`MaxSamples` bound the two
sequential modules; no other bound is added to the code's own.

In the plugin's modules `LastSample` and `LastGeneration` bound the audio and the
calls, `LastPosition`, `MaxHops` and `Excess` the other sequential modules. Two
calls give an abandoned iterator beside a live call, and, when both fail, the two
thieves of section 6; more calls add iterators that take requests the same way. In
the liveness runs there are as many calls as frames, so that the bound on calls never
holds the worker up; in `worker` it waits before `TakeFirst` when its calls are
used up, and every other step stays possible. `MayClose` takes `close` out of that
run: it adds two requests and a flag to what `worker_close` explores with fewer
frames, and would double the states. Four frames of the size of the
limit let drains of both threads forget reservations while two calls still hold frames: the
bound of `ForgottenBounded` is reached in the first call (3 samples) and in the second (4), and a
drain that goes wrong exceeds it there. A bound on the queue alone could be reached with five frames
only; it is proved from `ForgottenBounded`. Six samples let
the processor fill its lag with frames of three sizes, toggle and fill it again;
three generations give one that is late, one that is current and one to come. Three
frequencies per stream and three streams make every wrong offset of a cache block
hit another stream's row or another frequency. Four float steps per level have
exact levels, ties and both sides of a tie.

Every property of every passing run has a mutant in `PROJECT.json`: a version of
one definition with a plausible bug (written beside it, marked *fault*) for which
TLC reports exactly that property.

`overrun` in `FrameProcessor` is a history variable, set once a server has answered
beyond what it was sent; like `leaked` it is read by
properties only.

### The properties

* `GaugesMatchQueues`: the three gauges equal what queues and registry hold.
* `RegistryExact`: the registry holds exactly the accepted, open RPCs; an RPC
  refused for a duplicate ID does not free the ID.
* `WaitsOnce`, `NoLostWakeup`: a stream is in at most one place of the scheduler,
  and in at least one if it has input.
* `SampleChain` (`OutputContiguous` and `InputConserved`): received, sent and queued audio, and the
  pending hop, the work in flight, the input queue, the suspended put and the
  rechunker's remainder, form two gapless chains that meet at `output_samples`
  and end at `input_samples`.
* `AudioIsOwn`: audio labelled with a hop was computed from that hop of that stream.
* `CompletionAccounts`: `StreamEnded` and failures come last, and the totals agree
  with what was put into the queue; with flush, they cover the whole input.
* `CancelledIsFinal` (action property): a cancelled stream is given nothing but
  failures, though the scheduler may still hold its hops.
* `ImplementsPipeline` (refinement), `OpenedRPCsClose` (liveness).
* `Recut` (`CountsMatchParts` and `Resliced`): the rechunker's counters are right inside the
  copying loop, and what it returned is the input, recut.
* `WireIsLittleEndian`, `NearestLevel`: the conversions, at their edges.
* `BatchingIsTransparent` (`CachesAreOwn` and `AudioIsOwn` of `ModelRuntime`):
  combining and splitting caches is transparent to each stream.
* `HealthIsEarned`, `WithdrawnBeforeRefusing`, `SchedulerOutlivesCalls`,
  `SignalEndsProcess` (liveness).
* `ReadsAreLookups` (`Sorted` and `ReadIsLookup`), `ImplementsMap`, `DiscardsThePast`: the buffer of enhanced
  segments is a partial map and its reads are lookups.
* `ImplementsInterface`: whatever threads, resets and failures do, a generation's
  audio is one stretch of what was offered, and generations do not go back.
* `OneFrameLeaks`: what a disabled processor still sends is one frame at most.
* `ForgottenBounded`: of the audio in the queue and in the hands of the application, the worker
  and the iterators, the pending count misses at most the limit and a frame per call so far
  and one more, whatever drains forget and iterators of earlier calls give back late.
* `CloseEndsWorker` (liveness).
* `OnlyAnEndStartsOver` (action property): the reconnect delay starts over only while closing
  or by a `StreamEnded` that no request asked for. `_run_generation` takes any `StreamEnded` after
  the acceptance for an end (`PLG/transport.py:280`), and `_run` then resets the delay and drains
  nothing.
* `OutputAligned`: a frame is the interval that ends at the output cursor, all raw or
  all of one generation. `RawIsTheWindow`: the raw timeline is what was not yet
  returned, at most the lag. `EnhancedInWindow`: enhanced audio is kept for that
  window only. `NoFalseMistrust`: late answers, toggles and reconnects never make a
  server look out of contract.

### Fairness

`Fairness` is weak fairness of: the scheduler's task (the event loop runs every
ready task, and the executor's future completes, with a result or an exception);
each handler's `Queue.get` when there is an event; the transmission of a yielded
message, for clients not in `SlowClients`, because gRPC hands messages to a client
that reads and cancels the handler of one that is gone; a suspended put when a
slot is free; the idle timer, which `asyncio.wait_for` guarantees; the end of the
grace period. Nothing is assumed of what clients send: the idle timeout ends a
silent stream. There is no strong fairness. With `MaxActiveStreams = 2` and two
RPCs the ready queue cannot overflow; `scheduler_dies` shows what happens
when it can.

`GrpcWorker.LiveSpec` is weak fairness of each thread's own steps: operating-system
threads are scheduled, timeouts of probes, joins and delays expire. A step that
waits for the queue is only enabled when a request is there. The application need
not call anything, the server need not accept, answer or end anything, and no call
need fail. `ServerLifecycle.LiveSpec` is weak fairness of the shutdown sequence
alone: `grpc_server.stop` is bounded by the grace period and `scheduler.close` by the
inference in flight. No RPC need finish and no signal need come.

## 4. Proofs

All theorems are checked by TLAPS for every set of streams and every value of the
constants allowed by the named assumptions: `StreamsAssumption` (a process serves
finitely many RPCs), `SessionAssumption`, `SchedulerAssumption`, `ServiceAssumption`,
`WorkerAssumption` (sizes are positive, bounds are natural numbers), `PipelineAssumption`, `NothingIsNoHop` and `NoneAssumption`
(the value for nothing is neither a hop nor a stream), `BufferAssumption`, `InterfaceAssumption` and
`ProcessorAssumption`. The rechunker, the conversions and the batching state theirs where
they get their constants, in `SequentialAssumption`.

| Theorem | States |
|---|---|
| `PipelineTypeCorrect`, `PipelineDelayCompensated` | `StreamingPipeline`: types; what is returned for a hop was computed from it |
| `HopsTileAppended` | `MCSequential`, which drives `Rechunker`: `SequentialSpec => []Recut` |
| `BatchesStayApart` | `MCSequential`, which drives `ModelRuntime`: `SequentialSpec => []BatchingIsTransparent` |
| `EveryHostReadsAlike`, `NearestIsReturned` | `MCSequential`, which drives `PcmConversion`: `SequentialSpec => []WireIsLittleEndian`, `SequentialSpec => []NearestLevel` |
| `PipelineTilesSource` | `StreamingPipeline`: what was returned is the source without a gap (`ProducedContiguous`) |
| `ServiceTypeCorrect` | `EnhancementService`: `Spec => []TypeOK`, which includes the capacity of every session queue, of the ready queue and of a batch |
| `RegistryStaysExact` | `Spec => []RegistryExact` |
| `EveryStreamWaitsOnce`, `NoStreamIsForgotten` | `Spec => []WaitsOnce`, `Spec => []NoLostWakeup` |
| `GaugesNeverDrift` | `Spec => []GaugesMatchQueues` |
| `LiveStreamsFindASlot` | `Spec => []SlotForEveryLiveStream`: `notify` finds room unless a cancelled stream still waits |
| `SchedulerOutlivesTheLive` | `Spec => DiesOnlyOverTheCancelled`, an action property: the one cause of finding 1 |
| `EveryStreamHearsItself` | `Spec => []AudioIsOwn` |
| `NothingIsMissing`, `TotalsAreExact` | `Spec => []SampleChain`, `Spec => []CompletionAccounts` |
| `CancelledStaysFinal` | `Spec => CancelledIsFinal`, an action property |
| `ServiceImplementsPipelines` | `Spec => ImplementsPipeline`, the refinement |
| `WorkerTypeCorrect` | `GrpcWorker`: `Spec => []TypeOK`, which includes the limit of the pending count |
| `DelayStartsOverAtAnEnd` | `Spec => OnlyAnEndStartsOver`, an action property |
| `AtMostOneFrameLeaks` | `Spec => []OneFrameLeaks` |
| `ForgottenStaysBounded` | `Spec => []ForgottenBounded` |
| `QueueStaysBounded` | `Spec => []QueueBounded`, its consequence for the queue: at most twice the limit and a frame for each call so far and one more |
| `WorkerImplementsInterface` | `Spec => ImplementsInterface`, the refinement |
| `RawWindowIsExact` | `FrameProcessor`: `Spec => []RawIsTheWindow` |
| `RawFallbackNeverRaises` | `FrameProcessor`: neither append nor raw read is out of range, also in the middle of a call |
| `EnhancedStaysInWindow`, `NoFalseAlarm` | `Spec => []EnhancedInWindow`, `Spec => []NoFalseMistrust` |
| `OutputIsAligned` | `Spec => []OutputAligned` |
| `ReadsStayLookups` | `EnhancedBuffer`: `BufferSpec => []ReadsAreLookups`, what the loop of `read` returns |
| `DiscardingKeepsTheRest` | `BufferSpec => DiscardsThePast`, an action property |
| `BufferIsMap` | `BufferSpec => ImplementsMap`, the refinement of a partial map |
| `HealthIsAlwaysEarned`, `WithdrawnFirst`, `SchedulerClosesLast` | `ServerLifecycle`: the three orders of start-up and shutdown |

### The service

`TypeOK` is not inductive: `Head(batch)` is a stream only where the
batch is not empty. `LoopShape` adds what the scheduler's control state says about
its local lists, and that a sending handler has a message; `TypeInv == TypeOK /\
LoopShape` is inductive (`EnhancementServiceProofs`), on the lemmas about each session
operation with which that module begins. `RegistryExact` is inductive together with
`NewHasNoReader`: an RPC that has not started has no reader, so the entry it makes when it
starts is the first under its name, and the removal at the end of a refused one cannot
hit the RPC it collided with.

`WaitsOnce` rests on the `scheduled` flag: a waiting stream has it set, `notify`
queues only streams without it, and it is cleared in the same step in which the
stream leaves the batch. `BatchInv` splits `WaitsOnce` into `QueuedOnce` and
`InFlightOnce`, which with `TypeInv` are inductive. `AudioIsOwn` needs in addition
`CachesFollow`: a stream's pending hop is the one its caches have absorbed last,
and while a hop is in flight its batch element carries the caches the session
still has. The second half is where `InFlightOnce` is needed: were two hops of one
stream in flight, delivering the first would change the caches under the second.
Each action is one lemma; all steps of handlers and readers reduce to `QuietStep`
(caches untouched, at most one stream queued), all dispatching steps to
`DispatchIntegrity`, all returning steps to `ReturnIntegrity`. `NoLostWakeup` is the
converse of `WaitsOnce`; it is inductive on top of `BatchInv` once `ClosedIsStopped` says
that a scheduler that was closed no longer counts as running.

`GaugesMatchQueues` compares three counters, each moved by a `+` or a `-` in some
operation, with sums over the queues of all streams. `CountingProofs` says what a sum over
a finite set is without its fold: `Totals` are the running totals a function has when the
elements are taken in some order, `TotalAgree` that the order does not matter, and
`TotalChanges` that a change at one element changes the sum by as much. With that, a lemma
per operation says only what it does to the queues of the one stream it touches, as a number of
positions of a sequence, and `GaugesAdjusted` does the rest. `QueueGauges` (the two queue
gauges) and `ActiveMatches` (the active gauge is the number of registered names) are inductive
given `TypeInv` and `RegistryInv`: that the registry is exact is why a closing RPC removes one
entry when it lowers the gauge by one, and none when it was refused.

The last section of `EnhancementServiceProofs` bounds finding 1 of section 6. `SchedulerSurvives`
is false, so what is proved is what its violation takes: `SlotForEveryLiveStream` says
that as long as no cancelled stream holds a slot of the ready queue, every registered stream that
is not scheduled has a free one, and `DiesOnlyOverTheCancelled` that the scheduler's task
raises only in a step in which one does. Both are defined beside their proofs and no run checks
them. `WorkIsRegistered` (an RPC that has left the registry, or never was in it, has
no live reader and a session the scheduler cannot queue again) and `WithinCapacity` (the registry
admits as many streams as the queue has slots) are inductive with `ActiveMatches`; then a
queue full of uncancelled streams, which are distinct by `QueuedOnce`, and one more stream to
be queued are an injection of `MaxActiveStreams + 1` positions into the registry's names.

`SampleChain` (`SampleChainProofs`) is two invariants that do not touch each other.
`InputInv` says of each stream that its session is `Chained` with what is in flight
for it and with the hop its reader is about to put: `input_samples` is the end of what
was rechunked plus the remainder, `output_samples` the start of the pending hop, and from
the pending hop on, flight, queue and put continue each other. A flush is in flight
only when nothing else is under way, which is what makes it the last. `OutputInv` says
that what the handler sends and the queue holds continue what was received
(`OutputOK`), and that a stream which goes on has nothing but audio queued (`EventsOK`, which
contains `CompletionAccounts`). Both are predicates of one session, so a step of one stream
is a lemma about an operation on a session (take, advance, complete, put, fail,
rechunk), and the frame condition for the others is `SameInput`. The lemmas `Continues...`
and `Plays...` state once what appending to, taking from and dropping the end of a
tiling does.

`ServiceInv`, the conjunction of all of these, gives the refinement. The mapping hides a
session that is cancelled or has ended (`PipelineClosed`); `PipelineStays` and
`PipelineOne` show that any step which leaves pending hop, caches and history of open
streams alone is a stutter, or closes one pipeline; the steps that return from the
model map to `Pipeline!Push` (`PipelinePush`, which needs `CachesFollow` for the audio and
`Chained` for the position of the next hop) or to `Pipeline!Flush`.

### The pipeline, the frame processor, the process

`TilingInv` adds `FirstIsPending` (an open pipeline without a pending hop has returned
nothing yet) to types and `ProducedContiguous`; it is what a push has to know of the end
of the history.

`RechunkInv` says at every step of the copying loop what `Recut` says between the calls:
`Numbered(a, n)` is the list of n positions from a on, and hops, what is being copied and
the deque are three such lists that continue each other. What `FlattenSeq` makes of a list
that grows behind or before is proved once (`FlattenLonger`, `FlattenFirst` in
`CountingProofs`, by `Counting` over its beginnings); `CopiedInOrder` is one iteration.

`BatchesStayApart` rests on the place of a row. The caches of a stream are a block of k rows,
and blocks of one length put behind each other have element j of block i at (i - 1) * k + j
(`FlattenBlocks` in `CountingProofs`), with k = 1 for the signal caches and `RfFreq` for the
recurrent ones. `Holds(c, H)` says of a batch's caches that each row is at the place of its
stream and frequency: `CombinedHolds` establishes it, `AbsorbedHolds` keeps it, since the
quotient by `RfFreq` finds the owner of a row (`RowOwner`, `DivideBlock`), and `SplitOwn` and
`AudioOwn` take each stream's part out of it. The invariant is the property and the type of
the history.

`EveryHostReadsAlike` and `NearestIsReturned` need arithmetic with two constants that the solver
does not find by itself. `DigitsOf` and `DigitsMake` say that a number below
`Radix * Radix` is its two digits, `SignedLevel` and `UnsignedLevel` that two's complement is
undone by the remainder; `SwappedFromWire` and `SwappedToWire` put them together for hosts of
either order. `RoundedNearest` compares multiples of `Fine`: no level lies between two that
follow each other (`MultiplesApart`), so that the nearer of these is the nearest of all.

`RawIsTheWindow` speaks of the moments between two calls, and is not inductive: in a
call of `_process` the lag may exceed `Lag` by the frame just taken, and a disabled
processor lets its raw timeline fall behind. `WindowInv` adds both. The step that
matters is `ReadWindow`: `OutputBounds` shows that the two clamps return neither more
than there is nor less than brings the lag back, `DiscardKeepsEnd` that discarding
moves only the start. The worker's callbacks touch none of it, so the theorem holds
for any worker, one within the contract or not.

The enhanced side rests on `TimelineProofs`, facts about the operators of `timeline.py`
for buffers of any length. The operators select, fold and recurse over sequences, and what
is proved of them is proved by `Counting`, induction over numbers in first-order form: a set
that has 0 and with each number the next has them all. `FirstOnes` says that a filter which
keeps a downward-closed set of indices keeps an initial interval; with it `InsertedTidy` and
`DiscardedTidy` show that insertion and discarding leave a sorted list without overlap whose
runs are each in place. `SeenRecursion` is the recursion of the loop in `read`, and
`CompleteInPlace` its invariant: what it has put together so far are samples in their
places. `ReadsWhatIsThere` adds the other half: the loop comes to the end of the range if
and only if every position of it is covered, because in a sorted list what ends by the
cursor lies behind and a first segment beyond it leaves a gap (`LookOK`).

The buffer on its own (`SequentialProofs`) is the same operators under any sequence of
calls. `Content` is the function from positions to samples that a list of runs stands for;
`ContentAt` removes its `CHOOSE`, since in a tidy list a position has one run. Insertion
adds the positions of one run to its domain (`InsertedContent`), discarding restricts it
(`DiscardedContent`), which are the steps of `SampleMap`. `BufferInv`, that the list is typed,
sorted and within the bound of the positions, is inductive on these lemmas, and gives
`ReadsStayLookups` with those about the loop.

`EnhancedInv` is the inductive invariant. `EnhancedOK`: the buffer is tidy, between output
and input cursor, of the current generation, and empty while disabled. `WorkerOK`: the
worker was only offered what came in, and sends only what it was offered. `Trusted`: as
long as no server has answered beyond what it was sent (`overrun`), nothing buffered
reaches past the worker's `out`, so that a run that continues at `out` cannot conflict;
`NoFalseAlarm` is a step of this invariant. `OutputOK` adds that the raw timeline holds each
sample in its place and that the frame just returned is of one generation and in its place;
`OutputIsAligned` follows.

`LifecycleInv` of `ServerLifecycleProofs` says what each stage of `run` has behind it.

### The worker

`GrpcWorkerProofs` begins with what a step can do at all: to the queue (`QueueSteps`),
to a call (`CallSteps`), to the application's cursor (`CursorSteps`), to the cursor of
what was sent (`SentSteps`). Each invariant is then proved against these few cases
instead of the thirty actions.

* `TypeInv` adds to `TypeOK` that whoever is about to put, announce or send holds
  a frame whose samples were accepted (`FramesOK`), and that only the call of the
  running generation is live, and only while the worker is in it (`CallsOK`).
* `EndInv`: a call that has sent `EndStream`, an `EndRequest` and a closing application
  all imply `stop`, so an end that was asked for comes while closing.
* `LeakInv`: once the setter has drained the queue of a disabled processor no audio is
  in it (`NoAudioQueued`), because only an enabled processor puts audio. What can
  still be sent was already in a hand; when it has been sent, nobody holds unsent
  audio (`AllSent`), and there is one such hand because there is one live call.
* `OrderInv`: frames keep the order in which they were accepted on the way from the
  application's cursor through its hand and the queue to a call; `Later(p)` says that all
  of what is still to be sent lies behind `p`. It is stable under every step
  (`LaterStays`), whoever takes requests from the queue: an abandoned iterator makes
  gaps but never disorder.

* `LoadInv` bounds the queue. `Load` is what was accepted and is neither given back nor lost:
  the audio in the queue, in the application's hand, in the worker's and in the iterators'.
  `Forgotten`, the load less the pending count, grows in one kind of step only
  (`NextForgotten`), the last of a drain, which zeroes the count. The worker's forgets what was
  put since it saw the queue empty, and that was reserved, hence at most the limit, beside what
  is held, a frame by each thread; the application's forgets only what is held, since nobody puts
  audio while it drains (`ForgottenOK`). With the limit on what is pending this is twice the
  limit (`QueueStaysBounded`). The frame per call is that of an abandoned iterator that has yet to give it back.

An attempt to prove an earlier bound of the queue, twice the limit and one frame, failed on
just that frame: it held of the instance TLC explores and of no larger one.

With `OrderInv`, `Start` maps to `Begin`, `Send` to `Advance`, `DeliverAudio` to `Deliver`
or, out of contract, to `Overrun`,
`Reserve` to `Offer`, `DropCall` to `EndGeneration`, and the ends of the worker to
`CloseWorker`; every other step is a stutter. The frame processor is composed with this
interface, so its theorems hold of the threads' worker too.

### What is only model-checked

Liveness, which rests on fairness and ENABLED: `OpenedRPCsClose`, `CloseEndsWorker` and
`SignalEndsProcess`. Every invariant and every action property the passing runs check, and
every refinement, is also a theorem. What the recursive definitions of the library compute
(`FlattenSeq`, `MapThenSumSet`) is proved for each list and set the theorems need by induction
on a number, from their definition as a chosen function; there is no general theorem of it.

## 5. Not modelled

Out of scope: the arithmetic of the neural network, CUDA, checkpoint and manifest loading, TLS and
token checks beyond "the RPC is rejected", configuration parsing (independent checks
of single values), `/metrics` and histograms, generated code, Helm and Compose files,
tools, the benchmark and the example client, which keep no state of the protocol that
the plugin's worker does not also keep.

Two exposures no property covers. A handler suspended in a yield does not notice
that its stream failed, so a client that stops reading keeps its slot for as long
as its connection lives (`SVR/service.py:196`). The code has no bound here;
`OpenedRPCsClose` therefore speaks of the other clients. And the worker is joined
outside the processor's lock (`PLG/processor.py:321`): were it joined inside, its
callbacks could never take the lock. A step of the models is a whole lock section,
so they cannot tell.

## 6. Findings

1. **The scheduler task can end** (`scheduler_dies`, `SVR/scheduler.py:136`). The
   ready queue has as many slots as the registry has streams. A stream that is
   cancelled while it waits frees its registry entry at once but keeps its slot
   until the scheduler takes it. Once the queue is full of such streams, the
   renotification at the end of the distribution loop raises `QueueFull` outside
   any `try`; `_run` ends and no stream is served any more. By the same cause the
   reader's notify raises for a stream that has just been opened
   (`SVR/service.py:316`), and it is aborted with INTERNAL. `docs/architecture.md:41`
   says that closing a stream discards only that stream's state.
   `SchedulerOutlivesTheLive` proves that no other step of the model ends the task:
   without a cancelled stream in the ready queue no notification overflows it.
2. **Closing may leave the worker's thread behind** (`abandoned_iterators`,
   `PLG/transport.py:184`). `EndRequest` and `StopRequest` go into the shared queue, and
   two iterators of failed calls that still wait there take them both. The worker
   then waits in `_requests.get()`, without a timeout and although `_stop` is set; its
   thread is not a daemon. `docs/livekit.md:131` says that closing the track closes the
   processor and its worker.

Smaller differences between documents and code, which the models reproduce and no run
is kept for; where a property says what the code does give instead, it is named.

* The rechunker accepts at most `input_queue_hops * 256` samples (`SVR/audio.py:62`),
  7936 with the defaults, while the server advertises 16000 and `docs/protocol.md:55`
  promises them. In the model a chunk within `MaxAudioChunkSamples` fails with
  `inputFull`.
* An abandoned iterator takes requests from the worker and from the next call's
  iterator (`PLG/transport.py:227`), where `docs/architecture.md:21` names one worker
  thread. The gap that leaves in the audio ends that call (`Check`), so that one failure
  costs a second reconnect; it never mixes audio (`ImplementsInterface`).
* A `force_reset` between the worker taking a request and setting `_call` finds no call
  to cancel (`PLG/transport.py:319`), its flag is cleared or was checked before, and its
  `ResetRequest` can go to an abandoned iterator: the stream of a disabled processor stays
  open, against `docs/livekit.md:130`. `OneFrameLeaks` bounds what it sends.
* A drain zeroes reservations of frames that are put afterwards (`PLG/transport.py:138`),
  so that `max_request_queue_ms` (`docs/configuration.md:92`) is exceeded.
  `ForgottenBounded` and `QueueStaysBounded` give the real bound.
* Closing loses the response wait as well as the 256 samples of algorithmic delay that
  `docs/livekit.md:132` names (`PLG/processor.py:291`), the whole lag of
  `RawIsTheWindow`.
* The signal handlers are installed after readiness and health are announced
  (`SVR/main.py:128`), and a SIGTERM in between (`SignalKills`) ends the process with its
  RPCs, where `docs/operations.md:184` promises a drain.

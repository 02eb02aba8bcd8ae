------------------------------ MODULE GrpcWorker ------------------------------
(***************************************************************************)
(* GRPCWorker (transport.py): the connection of one frame processor.  The  *)
(* threads are                                                             *)
(*   - the application, which calls try_send, force_reset and close;       *)
(*   - the worker (_run): probe the server, take a first request, run a    *)
(*     call until it is over, back off, again;                             *)
(*   - for each call a thread of gRPC's that runs its request iterator.    *)
(* They share the request queue, the count of pending samples, two events  *)
(* and _call.  A step is what a thread does between two accesses to these. *)
(* The server may fail a call or answer out of contract at any time.       *)
(***************************************************************************)
EXTENDS Integers, Sequences, FiniteSets

CONSTANTS
    MaxQueued,      \* max_request_queue_samples
    MaxBackoff,     \* doublings from reconnect_min_delay_s to ..._max_delay_s
    Mistrust,       \* whether on_audio may call force_reset
    MayClose,       \* bound: whether the application may close the worker
    LastSample,     \* bound: positions of the input are 0..LastSample
    LastGeneration, \* bound on calls; every call starts with a frame of its own
    Sizes,          \* samples of a frame
    None

ASSUME WorkerAssumption ==
    /\ MaxQueued \in Nat \ {0}
    /\ MaxBackoff \in Nat
    /\ Mistrust \in BOOLEAN /\ MayClose \in BOOLEAN
    /\ LastSample \in Nat
    /\ LastGeneration \in Nat
    /\ Sizes \subseteq Nat \ {0}

VARIABLES
    at,             \* at["app"], at["worker"]: where the two threads are
    requests,       \* _requests
    pending,        \* _pending_samples
    stop, reset,    \* the events _stop and _reset
    channelOpen,    \* _channel has not been closed
    current,        \* _call: a generation or None (also during the probe)
    generation,     \* _generation
    calls,          \* by generation: the call and its request iterator
    first,          \* the request a generation starts with
    accepted,       \* locals of _run_generation, _run:
    out,            \*   expected_output,
    backoff,        \*   doublings of the reconnect delay
    position,       \* the application's input cursor,
    enabled,        \*   its flag,
    frame,          \*   the request it is about to put
    offered,        \* history: positions accepted by try_send
    sent,           \* history: end of what the last generation has sent
    leaked          \* history: samples sent since the processor was disabled

appVars == <<position, enabled, frame, offered>>
vars == <<at, requests, pending, stop, reset, channelOpen, current, generation, calls,
          first, accepted, out, backoff, appVars, sent, leaked>>

Actors == {"app", "worker"}
Generations == 1..LastGeneration

Audio(start, n) == [kind |-> "audio", start |-> start, n |-> n]
EndRequest == [kind |-> "end"]
StopRequest == [kind |-> "stop"]
ResetRequest == [kind |-> "reset"]
Request == {Audio(s, n) : s \in 0..LastSample, n \in Sizes}
           \cup {EndRequest, StopRequest, ResetRequest}

IteratorStates == {"checking", "yielding", "releasing", "getting", "done"}

\* A call that does not exist (yet), and one that was just opened.  It is ended
\* once its iterator has yielded EndStream.
NoCall == [over |-> TRUE, ended |-> FALSE, iterator |-> "done", hand |-> None, expected |-> 0]
Opened(request) == [over |-> FALSE, ended |-> FALSE, iterator |-> "checking",
                    hand |-> request, expected |-> request.start]
Call == [over : BOOLEAN, ended : BOOLEAN, iterator : IteratorStates,
         hand : Request \cup {None}, expected : 0..(LastSample + 1)]

Live(g) == ~calls[g].over

TypeOK ==
    /\ at \in [app : {"idle", "putting", "reset", "cancel", "drain", "zero", "putReset",
                      "putEnd", "joining", "putStop", "rejoining", "closed"},
               worker : {"probing", "taking", "starting", "opening", "called", "streaming",
                         "reset", "cancel", "drain", "zero", "putReset",
                         "failed", "zeroFailed", "finally", "backoff", "closed"}]
    /\ requests \in Seq(Request)
    /\ pending \in 0..MaxQueued
    /\ stop \in BOOLEAN /\ reset \in BOOLEAN /\ channelOpen \in BOOLEAN
    /\ generation \in {0} \cup Generations
    /\ current \in Generations \cup {None}
    /\ calls \in [Generations -> Call]
    /\ first \in Request \cup {None}
    /\ accepted \in BOOLEAN
    /\ backoff \in 0..MaxBackoff
    /\ enabled \in BOOLEAN
    /\ frame \in Request \cup {None}
    /\ offered \subseteq 0..LastSample
    /\ {position, sent, out} \subseteq 0..(LastSample + 1)
    /\ leaked \in Nat

Init ==
    /\ at = [app |-> "idle", worker |-> "probing"]
    /\ requests = <<>>
    /\ pending = 0
    /\ stop = FALSE /\ reset = FALSE /\ channelOpen = TRUE
    /\ current = None
    /\ generation = 0
    /\ calls = [g \in Generations |-> NoCall]
    /\ first = None
    /\ accepted = FALSE
    /\ out = 0 /\ sent = 0
    /\ backoff = 0
    /\ position = 0
    /\ enabled = TRUE
    /\ frame = None
    /\ offered = {}
    /\ leaked = 0

Moves(actor, there) == at' = [at EXCEPT ![actor] = there]

-----------------------------------------------------------------------------
(* The application thread. *)

\* _process of a frame: while disabled the cursor moves and nothing is sent.
SkipFrame(n) ==
    /\ at.app = "idle"
    /\ ~enabled
    /\ position + n <= LastSample + 1
    /\ position' = position + n
    /\ UNCHANGED <<at, requests, pending, stop, reset, channelOpen, current, generation, calls,
                   first, accepted, out, backoff, enabled, frame, offered, sent, leaked>>

\* try_send up to the end of its lock section: the reservation ...
Reserve(n) ==
    /\ at.app = "idle"
    /\ enabled
    /\ position + n <= LastSample + 1
    /\ ~stop
    /\ pending + n <= MaxQueued
    /\ pending' = pending + n
    /\ position' = position + n
    /\ frame' = Audio(position, n)
    /\ offered' = offered \cup position..(position + n - 1)
    /\ Moves("app", "putting")
    /\ UNCHANGED <<requests, stop, reset, channelOpen, current, generation, calls,
                   first, accepted, out, backoff, enabled, sent, leaked>>

\* ... or a refusal, after which _process calls force_reset.
Refuse(n) ==
    /\ at.app = "idle"
    /\ enabled
    /\ position + n <= LastSample + 1
    /\ stop \/ pending + n > MaxQueued
    /\ position' = position + n
    /\ Moves("app", "reset")
    /\ UNCHANGED <<requests, pending, stop, reset, channelOpen, current, generation, calls,
                   first, accepted, out, backoff, enabled, frame, offered, sent, leaked>>

PutFrame ==
    /\ at.app = "putting"
    /\ requests' = Append(requests, frame)
    /\ frame' = None
    /\ Moves("app", "idle")
    /\ UNCHANGED <<pending, stop, reset, channelOpen, current, generation, calls,
                   first, accepted, out, backoff, position, enabled, offered, sent, leaked>>

\* The setter of enabled, which ends in force_reset.
Toggle ==
    /\ at.app = "idle"
    /\ enabled' = ~enabled
    /\ leaked' = 0
    /\ Moves("app", "reset")
    /\ UNCHANGED <<requests, pending, stop, reset, channelOpen, current, generation, calls,
                   first, accepted, out, backoff, position, frame, offered, sent>>

\* close, to the end.  The processor calls it once and nothing after it.
Close ==
    /\ MayClose
    /\ at.app = "idle"
    /\ stop' = TRUE
    /\ Moves("app", "putEnd")
    /\ UNCHANGED <<requests, pending, reset, channelOpen, current, generation, calls,
                   first, accepted, out, backoff, appVars, sent, leaked>>

PutEnd ==
    /\ at.app = "putEnd"
    /\ requests' = Append(requests, EndRequest)
    /\ Moves("app", "joining")
    /\ UNCHANGED <<pending, stop, reset, channelOpen, current, generation, calls,
                   first, accepted, out, backoff, appVars, sent, leaked>>

\* Closing the channel cancels whatever still runs on it.
CloseChannel ==
    /\ channelOpen' = FALSE
    /\ calls' = [g \in Generations |-> [calls[g] EXCEPT !.over = TRUE]]

Joined ==
    /\ at.app = "joining"
    /\ at.worker = "closed"
    /\ CloseChannel
    /\ Moves("app", "closed")
    /\ UNCHANGED <<requests, pending, stop, reset, current, generation,
                   first, accepted, out, backoff, appVars, sent, leaked>>

\* (fault: the call is left alone)
JoinTimeout_NoCancel ==
    /\ at.app = "joining"
    /\ at.worker # "closed"
    /\ Moves("app", "putStop")
    /\ UNCHANGED <<requests, pending, stop, reset, channelOpen, current, generation, calls,
                   first, accepted, out, backoff, appVars, sent, leaked>>
JoinTimeout ==
    /\ at.app = "joining"
    /\ at.worker # "closed"
    /\ CloseChannel
    /\ Moves("app", "putStop")
    /\ UNCHANGED <<requests, pending, stop, reset, current, generation,
                   first, accepted, out, backoff, appVars, sent, leaked>>

PutStop ==
    /\ at.app = "putStop"
    /\ requests' = Append(requests, StopRequest)
    /\ Moves("app", "rejoining")
    /\ UNCHANGED <<pending, stop, reset, channelOpen, current, generation, calls,
                   first, accepted, out, backoff, appVars, sent, leaked>>

\* The second join returns or times out; _close swallows the RuntimeError.
Rejoined ==
    /\ at.app = "rejoining"
    /\ Moves("app", "closed")
    /\ UNCHANGED <<requests, pending, stop, reset, channelOpen, current, generation, calls,
                   first, accepted, out, backoff, appVars, sent, leaked>>

-----------------------------------------------------------------------------
(* force_reset, run by the application or, from on_audio, by the worker; and *)
(* _drain_requests, which the worker also runs when a call has failed.       *)

SetReset(actor) ==
    /\ at[actor] = "reset"
    /\ reset' = TRUE
    /\ Moves(actor, "cancel")
    /\ UNCHANGED <<requests, pending, stop, channelOpen, current, generation, calls,
                   first, accepted, out, backoff, appVars, sent, leaked>>

CancelCall(actor) ==
    /\ at[actor] = "cancel"
    /\ calls' = IF current = None THEN calls ELSE [calls EXCEPT ![current].over = TRUE]
    /\ Moves(actor, "drain")
    /\ UNCHANGED <<requests, pending, stop, reset, channelOpen, current, generation,
                   first, accepted, out, backoff, appVars, sent, leaked>>

\* (fault: a drain by the worker only resets the count)
DrainOne_AppOnly(actor) ==
    /\ at[actor] \in {"drain", "failed"}
    /\ IF actor = "app" /\ requests # <<>>
       THEN /\ requests' = Tail(requests)
            /\ at' = at
       ELSE /\ requests' = requests
            /\ Moves(actor, IF at[actor] = "drain" THEN "zero" ELSE "zeroFailed")
    /\ UNCHANGED <<pending, stop, reset, channelOpen, current, generation, calls,
                   first, accepted, out, backoff, appVars, sent, leaked>>
\* One get_nowait.  (fault: nothing is drained)
DrainOne_Skips(actor) ==
    /\ at[actor] \in {"drain", "failed"}
    /\ requests' = requests
    /\ Moves(actor, IF at[actor] = "drain" THEN "zero" ELSE "zeroFailed")
    /\ UNCHANGED <<pending, stop, reset, channelOpen, current, generation, calls,
                   first, accepted, out, backoff, appVars, sent, leaked>>
DrainOne(actor) ==
    /\ at[actor] \in {"drain", "failed"}
    /\ IF requests # <<>>
       THEN /\ requests' = Tail(requests)
            /\ at' = at
       ELSE /\ requests' = requests
            /\ Moves(actor, IF at[actor] = "drain" THEN "zero" ELSE "zeroFailed")
    /\ UNCHANGED <<pending, stop, reset, channelOpen, current, generation, calls,
                   first, accepted, out, backoff, appVars, sent, leaked>>

ZeroPending(actor) ==
    /\ at[actor] \in {"zero", "zeroFailed"}
    /\ pending' = 0
    /\ Moves(actor, IF at[actor] = "zero" THEN "putReset" ELSE "finally")
    /\ UNCHANGED <<requests, stop, reset, channelOpen, current, generation, calls,
                   first, accepted, out, backoff, appVars, sent, leaked>>

PutReset(actor) ==
    /\ at[actor] = "putReset"
    /\ requests' = Append(requests, ResetRequest)
    /\ Moves(actor, IF actor = "app" THEN "idle" ELSE "streaming")
    /\ UNCHANGED <<pending, stop, reset, channelOpen, current, generation, calls,
                   first, accepted, out, backoff, appVars, sent, leaked>>

ForceReset(actor) ==
    SetReset(actor) \/ CancelCall(actor) \/ DrainOne(actor) \/ ZeroPending(actor) \/ PutReset(actor)

-----------------------------------------------------------------------------
(* The worker thread. *)

\* _wait_until_ready.  A probe that force_reset cancels is one that fails.
ProbeSucceeds ==
    /\ at.worker = "probing"
    /\ channelOpen
    /\ Moves("worker", "taking")
    /\ UNCHANGED <<requests, pending, stop, reset, channelOpen, current, generation, calls,
                   first, accepted, out, backoff, appVars, sent, leaked>>

ProbeFails ==
    /\ at.worker = "probing"
    /\ Moves("worker", IF stop THEN "closed" ELSE "backoff")
    /\ UNCHANGED <<requests, pending, stop, reset, channelOpen, current, generation, calls,
                   first, accepted, out, backoff, appVars, sent, leaked>>

\* _next_audio_or_stop takes a request: audio starts a generation, ...
TakeFirst ==
    /\ at.worker = "taking"
    /\ requests # <<>>
    /\ Head(requests).kind = "audio"
    /\ generation < LastGeneration
    /\ first' = Head(requests)
    /\ requests' = Tail(requests)
    /\ generation' = generation + 1
    /\ Moves("worker", "starting")
    /\ UNCHANGED <<pending, stop, reset, channelOpen, current, calls,
                   accepted, out, backoff, appVars, sent, leaked>>

\* ... a reset is skipped, an end or a stop ends the worker.
TakeOther ==
    /\ at.worker = "taking"
    /\ requests # <<>>
    /\ Head(requests).kind # "audio"
    /\ requests' = Tail(requests)
    /\ Moves("worker", IF Head(requests).kind = "reset" THEN "taking" ELSE "closed")
    /\ UNCHANGED <<pending, stop, reset, channelOpen, current, generation, calls,
                   first, accepted, out, backoff, appVars, sent, leaked>>

\* _reset.clear() and the announcement of the generation.
Start ==
    /\ at.worker = "starting"
    /\ reset' = FALSE
    /\ out' = first.start
    /\ sent' = first.start
    /\ accepted' = FALSE
    /\ Moves("worker", "opening")
    /\ UNCHANGED <<requests, pending, stop, channelOpen, current, generation, calls,
                   first, backoff, appVars, leaked>>

\* stub.Enhance starts the iterator's thread; it raises on a closed channel.
Open ==
    /\ at.worker = "opening"
    /\ IF channelOpen
       THEN /\ calls' = [calls EXCEPT ![generation] = Opened(first)]
            /\ Moves("worker", "called")
       ELSE /\ calls' = calls
            /\ Moves("worker", "failed")
    /\ first' = None
    /\ UNCHANGED <<requests, pending, stop, reset, channelOpen, current, generation,
                   accepted, out, backoff, appVars, sent, leaked>>

SetCall ==
    /\ at.worker = "called"
    /\ current' = generation
    /\ Moves("worker", "streaming")
    /\ UNCHANGED <<requests, pending, stop, reset, channelOpen, generation, calls,
                   first, accepted, out, backoff, appVars, sent, leaked>>

\* The responses: acceptance, ...
\* (fault: a healthy call resets the delay)
Accepted_StartsOver ==
    /\ at.worker = "streaming"
    /\ Live(generation)
    /\ ~accepted
    /\ accepted' = TRUE
    /\ backoff' = 0
    /\ UNCHANGED <<at, requests, pending, stop, reset, channelOpen, current, generation, calls,
                   first, out, appVars, sent, leaked>>
Accepted ==
    /\ at.worker = "streaming"
    /\ Live(generation)
    /\ ~accepted
    /\ accepted' = TRUE
    /\ UNCHANGED <<at, requests, pending, stop, reset, channelOpen, current, generation, calls,
                   first, out, backoff, appVars, sent, leaked>>

\* ... enhanced audio, handed to on_audio (gRPC may still hand out a response
\* that had arrived when the call was cancelled): contiguous, but not
\* necessarily within what was sent, ...
DeliverAudio(until) ==
    /\ at.worker = "streaming"
    /\ accepted
    /\ out < until
    /\ out' = until
    /\ \/ at' = at
       \/ Mistrust /\ Moves("worker", "reset")
    /\ UNCHANGED <<requests, pending, stop, reset, channelOpen, current, generation, calls,
                   first, accepted, backoff, appVars, sent, leaked>>

\* ... the end, whether the server was asked for it or not, ...
Ended ==
    /\ at.worker = "streaming"
    /\ accepted
    /\ backoff' = 0
    /\ Moves("worker", "finally")
    /\ UNCHANGED <<requests, pending, stop, reset, channelOpen, current, generation, calls,
                   first, accepted, out, appVars, sent, leaked>>

\* ... or anything that _run_generation raises ValueError for.
BadResponse ==
    /\ at.worker = "streaming"
    /\ Live(generation)
    /\ Moves("worker", "failed")
    /\ UNCHANGED <<requests, pending, stop, reset, channelOpen, current, generation, calls,
                   first, accepted, out, backoff, appVars, sent, leaked>>

\* A call that is over raises RpcError; ...
CallFailed ==
    /\ at.worker = "streaming"
    /\ ~Live(generation)
    /\ Moves("worker", "failed")
    /\ UNCHANGED <<requests, pending, stop, reset, channelOpen, current, generation, calls,
                   first, accepted, out, backoff, appVars, sent, leaked>>

\* ... one with status OK just stops, which is no error while closing.
CallStopped ==
    /\ at.worker = "streaming"
    /\ ~Live(generation)
    /\ stop
    /\ backoff' = 0
    /\ Moves("worker", "finally")
    /\ UNCHANGED <<requests, pending, stop, reset, channelOpen, current, generation, calls,
                   first, accepted, out, appVars, sent, leaked>>

\* finally: the call is dropped, and with the last reference cancelled; the
\* locals of _run_generation are gone.
\* (fault: the call is left running)
DropCall_KeepsCall ==
    /\ at.worker = "finally"
    /\ current' = None
    /\ accepted' = FALSE /\ out' = 0
    /\ Moves("worker", IF stop THEN "closed" ELSE "backoff")
    /\ UNCHANGED <<requests, pending, stop, reset, channelOpen, generation, calls,
                   first, backoff, appVars, sent, leaked>>
DropCall ==
    /\ at.worker = "finally"
    /\ current' = None
    /\ calls' = [calls EXCEPT ![generation] =
                     IF @.iterator = "done" THEN NoCall ELSE [@ EXCEPT !.over = TRUE]]
    /\ accepted' = FALSE /\ out' = 0
    /\ Moves("worker", IF stop THEN "closed" ELSE "backoff")
    /\ UNCHANGED <<requests, pending, stop, reset, channelOpen, generation,
                   first, backoff, appVars, sent, leaked>>

\* The delay, which _stop cuts short, after a probe or a call.
BackOff ==
    /\ at.worker = "backoff"
    /\ backoff' = IF backoff < MaxBackoff THEN backoff + 1 ELSE MaxBackoff
    /\ Moves("worker", "probing")
    /\ UNCHANGED <<requests, pending, stop, reset, channelOpen, current, generation, calls,
                   first, accepted, out, appVars, sent, leaked>>

-----------------------------------------------------------------------------
(* The request iterator of a call, and the network. *)

Iterator(g, there) == calls' = [calls EXCEPT ![g].iterator = there]
\* The iterator is done; its locals are gone.
Return(g, asked) ==
    calls' = [calls EXCEPT ![g] = [NoCall EXCEPT !.over = calls[g].over, !.ended = asked]]

\* The loop test: a gap or a reset ends the requests (half-closes the call).
\* (fault: the position is not compared)
Check_AnyPosition(g) ==
    /\ calls[g].iterator = "checking"
    /\ IF reset THEN Return(g, FALSE) ELSE Iterator(g, "yielding")
    /\ UNCHANGED <<at, requests, pending, stop, reset, channelOpen, current, generation,
                   first, accepted, out, backoff, appVars, sent, leaked>>
Check(g) ==
    /\ calls[g].iterator = "checking"
    /\ IF calls[g].hand.start # calls[g].expected \/ reset
       THEN Return(g, FALSE)
       ELSE Iterator(g, "yielding")
    /\ UNCHANGED <<at, requests, pending, stop, reset, channelOpen, current, generation,
                   first, accepted, out, backoff, appVars, sent, leaked>>

\* gRPC sends what was yielded.
Send(g) ==
    /\ calls[g].iterator = "yielding"
    /\ Live(g)
    /\ Iterator(g, "releasing")
    /\ sent' = calls[g].hand.start + calls[g].hand.n
    /\ leaked' = IF ~enabled /\ at.app = "idle" THEN leaked + calls[g].hand.n ELSE leaked
    /\ UNCHANGED <<at, requests, pending, stop, reset, channelOpen, current, generation,
                   first, accepted, out, backoff, appVars>>

\* ... and does not resume the iterator of a call that is over.
Abandon(g) ==
    /\ calls[g].iterator \in {"yielding", "releasing"}
    /\ ~Live(g)
    /\ calls' = [calls EXCEPT ![g] = NoCall]
    /\ UNCHANGED <<at, requests, pending, stop, reset, channelOpen, current, generation,
                   first, accepted, out, backoff, appVars, sent, leaked>>

\* (fault: the release of a frame whose reservation a drain has forgotten
\* takes the count below zero)
Release_Unclamped(g) ==
    LET n == calls[g].hand.n
    IN  /\ calls[g].iterator = "releasing"
        /\ pending' = pending - n
        /\ calls' = [calls EXCEPT ![g].iterator = "getting", ![g].hand = None,
                                  ![g].expected = @ + n]
        /\ UNCHANGED <<at, requests, stop, reset, channelOpen, current, generation,
                       first, accepted, out, backoff, appVars, sent, leaked>>
\* The send has completed: gRPC asks for the next message, the iterator returns
\* the reservation.
Release(g) ==
    LET n == calls[g].hand.n
    IN  /\ calls[g].iterator = "releasing"
        /\ pending' = IF pending < n THEN 0 ELSE pending - n
        /\ calls' = [calls EXCEPT ![g].iterator = "getting", ![g].hand = None,
                                  ![g].expected = @ + n]
        /\ UNCHANGED <<at, requests, stop, reset, channelOpen, current, generation,
                       first, accepted, out, backoff, appVars, sent, leaked>>

\* _requests.get(): the next audio, ...
GetAudio(g) ==
    /\ calls[g].iterator = "getting"
    /\ Live(g)
    /\ requests # <<>>
    /\ Head(requests).kind = "audio"
    /\ requests' = Tail(requests)
    /\ calls' = [calls EXCEPT ![g].iterator = "checking", ![g].hand = Head(requests)]
    /\ UNCHANGED <<at, pending, stop, reset, channelOpen, current, generation,
                   first, accepted, out, backoff, appVars, sent, leaked>>

\* ... or another request, which ends the iterator.
GetOther(g) ==
    /\ calls[g].iterator = "getting"
    /\ Live(g)
    /\ requests # <<>>
    /\ Head(requests).kind # "audio"
    /\ requests' = Tail(requests)
    /\ Return(g, Head(requests) = EndRequest /\ ~reset)
    /\ UNCHANGED <<at, pending, stop, reset, channelOpen, current, generation,
                   first, accepted, out, backoff, appVars, sent, leaked>>

\* The iterator of a call that is over still waits on the queue.  Whatever it
\* gets is lost: gRPC sends nothing more.
Steal(g) ==
    /\ calls[g].iterator = "getting"
    /\ ~Live(g)
    /\ requests # <<>>
    /\ requests' = Tail(requests)
    /\ calls' = [calls EXCEPT ![g] = NoCall]
    /\ UNCHANGED <<at, pending, stop, reset, channelOpen, current, generation,
                   first, accepted, out, backoff, appVars, sent, leaked>>

\* The server or the network ends a call.
Lose(g) ==
    /\ Live(g)
    /\ calls' = [calls EXCEPT ![g].over = TRUE]
    /\ UNCHANGED <<at, requests, pending, stop, reset, channelOpen, current, generation,
                   first, accepted, out, backoff, appVars, sent, leaked>>

-----------------------------------------------------------------------------

\* What a thread does without being asked: the rest of an operation, ...
AppStep ==
    \/ PutFrame \/ PutEnd \/ Joined \/ JoinTimeout \/ PutStop \/ Rejoined
    \/ ForceReset("app")

WorkerStep ==
    \/ ProbeSucceeds \/ ProbeFails \/ TakeFirst \/ TakeOther \/ Start \/ Open \/ SetCall
    \/ CallFailed \/ CallStopped \/ DropCall \/ BackOff
    \/ ForceReset("worker")

IteratorStep(g) ==
    \/ Check(g) \/ Send(g) \/ Abandon(g) \/ Release(g)
    \/ GetAudio(g) \/ GetOther(g) \/ Steal(g)

\* ... what the application asks for, and what the server does.
Operation ==
    \/ \E n \in Sizes : SkipFrame(n) \/ Reserve(n) \/ Refuse(n)
    \/ Toggle
    \/ Close

Response ==
    \/ Accepted
    \/ \E until \in 1..(LastSample + 1) : DeliverAudio(until)
    \/ Ended
    \/ BadResponse

Next ==
    \/ AppStep
    \/ WorkerStep
    \/ \E g \in Generations : IteratorStep(g) \/ Lose(g)
    \/ Operation
    \/ Response

Spec == Init /\ [][Next]_vars

\* Every thread goes on; the application need not call anything and the server
\* need not answer.
LiveSpec ==
    /\ Spec
    /\ WF_vars(AppStep)
    /\ WF_vars(WorkerStep)
    /\ \A g \in Generations : WF_vars(IteratorStep(g))

-----------------------------------------------------------------------------
(* Properties. *)

\* A request iterator that outlived its call.
Abandoned(g) == ~Live(g) /\ calls[g].iterator \notin {"done"}

\* The sum of the first n amounts.
Total(amounts, n) ==
    LET sum[i \in 0..n] == IF i = 0 THEN 0 ELSE sum[i - 1] + amounts[i]
    IN  sum[n]
AudioOf(request) == IF request.kind = "audio" THEN request.n ELSE 0
Queued == Total([i \in DOMAIN requests |-> AudioOf(requests[i])], Len(requests))

\* The frames between the queue and the count of pending samples: the one the
\* application is about to put, the one a generation starts with, and those in
\* the hands of request iterators, also of calls that are over.
Putting == at.app = "putting"
Taken == at.worker \in {"starting", "opening"}
HasHand(g) == calls[g].iterator \in {"checking", "yielding", "releasing"}
HeldByApp == IF Putting THEN frame.n ELSE 0
HeldByWorker == IF Taken THEN first.n ELSE 0
HeldBy(g) == IF HasHand(g) THEN calls[g].hand.n ELSE 0
HeldVector == [g \in Generations |-> HeldBy(g)]
Held == Total(HeldVector, LastGeneration)

\* What was accepted and neither given back nor lost, and how much of it the
\* count of pending samples has forgotten.
Load == Queued + HeldByApp + HeldByWorker + Held
Forgotten == Load - pending

\* The limit of the queue holds but for what is forgotten, and that is bounded,
\* by the limit and a frame for each call so far and one more: a drain may
\* forget the reservations of all that is put while it runs, and what is then
\* given back late, by the iterators of earlier calls, makes room for as much
\* again.
ForgottenBounded == \E n \in Sizes \cup {0} : Forgotten <= MaxQueued + (generation + 1) * n

\* Once the setter has returned, a disabled processor sends at most one frame
\* more: the one a thread had already taken from the queue.
OneFrameLeaks == leaked = 0 \/ \E n \in Sizes : leaked <= n

\* The audio a call sends and delivers is one stretch of what was offered, and
\* a later call never goes back behind an earlier one.
Streaming == at.worker \notin {"probing", "taking", "starting", "backoff", "closed"}
Interface == INSTANCE WorkerInterface WITH
    generation <- IF at.worker = "starting" THEN generation - 1 ELSE generation,
    phase <- IF at.worker = "closed" THEN "closed" ELSE IF Streaming THEN "streaming" ELSE "idle",
    out <- IF Streaming THEN out ELSE sent
\* Interface!InterfaceSpec; TLC is to see first that most steps are none of its.
ImplementsInterface ==
    /\ Interface!InterfaceInit
    /\ [][UNCHANGED Interface!interfaceVars \/ Interface!InterfaceNext]_(Interface!interfaceVars)

\* close ends the worker thread, whatever the server does, unless two iterators
\* of earlier calls are still waiting for requests.
CloseEndsWorker ==
    (at.app = "putEnd" /\ Cardinality({g \in Generations : Abandoned(g)}) <= 1)
        ~> at.worker = "closed"

\* The reconnect delay starts over only when the worker is about to stop, or by
\* a StreamEnded that no request has asked for: with a server that keeps to the
\* protocol no call, however long it was healthy, resets it.
UnaskedEnd ==
    /\ at.worker = "streaming" /\ at'.worker = "finally"
    /\ accepted /\ ~calls[generation].ended
OnlyAnEndStartsOver == [][backoff' < backoff => stop \/ UnaskedEnd]_vars

-----------------------------------------------------------------------------
(* What the documentation says, and the code does not do. *)

\* "Closing the track closes the processor and its worker".
CloseStopsWorker == at.app = "putEnd" ~> at.worker = "closed"

=============================================================================

---------------------------- MODULE GrpcWorkerProofs ----------------------------
(* Proofs about the connection of a frame processor (transport.py): for every  *)
(* limit, backoff, set of frame sizes, number of generations and length of the *)
(* input.                                                                      *)
EXTENDS GrpcWorker, CountingProofs, TLAPS

IsAudio(request) == request.kind = "audio"
End(request) == request.start + request.n

\* A frame whose samples are among those try_send has accepted.
Within(request, samples) ==
    /\ request \in Request
    /\ IsAudio(request)
    /\ request.n <= MaxQueued
    /\ End(request) <= LastSample + 1
    /\ request.start..(End(request) - 1) \subseteq samples
Offered(request) == Within(request, offered)

\* Whoever holds a request holds a frame, and an iterator that goes on holds
\* the one it expected.
FrameOK == at.app = "putting" => Offered(frame)
FirstOK == at.worker \in {"starting", "opening"} => Offered(first)
HandOK(g) ==
    /\ HasHand(g) => Offered(calls[g].hand)
    /\ calls[g].iterator \in {"yielding", "releasing"} => calls[g].hand.start = calls[g].expected
QueueOK == \A i \in DOMAIN requests : IsAudio(requests[i]) => Offered(requests[i])
FramesOK == FrameOK /\ FirstOK /\ (\A g \in Generations : HandOK(g)) /\ QueueOK

\* Only the call of the running generation is live.
CallStates == {"called", "streaming", "reset", "cancel", "drain", "zero", "putReset",
               "failed", "zeroFailed", "finally"}
CallsOK ==
    /\ at.worker \in CallStates \cup {"starting", "opening"} => generation \in Generations
    /\ \A g \in Generations : Live(g) => g = generation /\ at.worker \in CallStates

TypeInv == TypeOK /\ FramesOK /\ CallsOK

-----------------------------------------------------------------------------
(* Values. *)

LEMMA RequestFacts ==
    /\ \A r \in Request : IsAudio(r) => /\ r.start \in 0..LastSample /\ r.n \in Sizes
                                        /\ r.start \in Nat /\ r.n \in Nat \ {0}
                                        /\ End(r) \in Nat /\ r.start < End(r)
    /\ EndRequest \in Request /\ StopRequest \in Request /\ ResetRequest \in Request
    /\ ~IsAudio(EndRequest) /\ ~IsAudio(StopRequest) /\ ~IsAudio(ResetRequest)
BY WorkerAssumption DEF Request, IsAudio, End, Audio, EndRequest, StopRequest, ResetRequest

LEMMA FrameFacts ==
    ASSUME NEW start \in 0..LastSample, NEW n \in Sizes
    PROVE  /\ Audio(start, n) \in Request /\ IsAudio(Audio(start, n))
           /\ Audio(start, n).start = start /\ Audio(start, n).n = n
           /\ End(Audio(start, n)) = start + n
BY WorkerAssumption DEF Request, IsAudio, End, Audio

LEMMA TailFacts ==
    ASSUME NEW S, NEW seq \in Seq(S), seq # <<>>
    PROVE  /\ Head(seq) \in S /\ Tail(seq) \in Seq(S)
           /\ 1 \in DOMAIN seq /\ Head(seq) = seq[1]
           /\ \A i \in DOMAIN Tail(seq) :
                 /\ i + 1 \in DOMAIN seq /\ Tail(seq)[i] = seq[i + 1]
                 /\ i \in Nat /\ i # 0
OBVIOUS

LEMMA AppendFacts ==
    ASSUME NEW S, NEW seq \in Seq(S), NEW e \in S
    PROVE  /\ Append(seq, e) \in Seq(S)
           /\ Len(seq) \in Nat /\ DOMAIN seq = 1..Len(seq)
           /\ \A i \in DOMAIN Append(seq, e) :
                 \/ i \in DOMAIN seq /\ Append(seq, e)[i] = seq[i]
                 \/ i = Len(seq) + 1 /\ Append(seq, e)[i] = e
OBVIOUS

-----------------------------------------------------------------------------
(* Where the threads are. *)

AppStates == {"idle", "putting", "reset", "cancel", "drain", "zero", "putReset",
              "putEnd", "joining", "putStop", "rejoining", "closed"}
WorkerStates == {"probing", "taking", "starting", "opening", "called", "streaming",
                 "reset", "cancel", "drain", "zero", "putReset",
                 "failed", "zeroFailed", "finally", "backoff", "closed"}
Place == [app : AppStates, worker : WorkerStates]

LEMMA AppMoves ==
    ASSUME at \in Place, NEW there \in AppStates, Moves("app", there)
    PROVE  at' \in Place /\ at'.app = there /\ at'.worker = at.worker
BY DEF Place, Moves

LEMMA WorkerMoves ==
    ASSUME at \in Place, NEW there \in WorkerStates, Moves("worker", there)
    PROVE  at' \in Place /\ at'.worker = there /\ at'.app = at.app
BY DEF Place, Moves

\* The actors of force_reset go through the same states.
ResetStates == {"reset", "cancel", "drain", "zero", "putReset"}

LEMMA ResetPlaces ==
    ASSUME at \in Place, NEW actor \in Actors, ForceReset(actor)
    PROVE  at' \in Place
<1>1. /\ {"cancel", "drain", "zero", "putReset", "idle"} \subseteq AppStates
      /\ {"cancel", "drain", "zero", "zeroFailed", "finally", "putReset", "streaming"}
            \subseteq WorkerStates
  BY DEF AppStates, WorkerStates
<1>2. CASE actor = "app"
  <2>1. at[actor] # "failed" /\ at[actor] # "zeroFailed"
    BY <1>2 DEF Place, AppStates
  <2>2. \/ at' = at
        \/ \E there \in {"cancel", "drain", "zero", "putReset", "idle"} : Moves("app", there)
    BY <1>2, <2>1 DEF ForceReset, SetReset, CancelCall, DrainOne, ZeroPending, PutReset
  <2> QED
    BY <1>1, <2>2, AppMoves
<1>3. CASE actor = "worker"
  <2>1. \/ at' = at
        \/ \E there \in {"cancel", "drain", "zero", "zeroFailed", "finally", "putReset",
                         "streaming"} : Moves("worker", there)
    BY <1>3 DEF ForceReset, SetReset, CancelCall, DrainOne, ZeroPending, PutReset
  <2> QED
    BY <1>1, <2>1, WorkerMoves
<1> QED
  BY <1>2, <1>3 DEF Actors

LEMMA NextPlaces ==
    ASSUME at \in Place, Next
    PROVE  at' \in Place
<1>1. CASE AppStep
  <2>1. \/ ForceReset("app")
        \/ \E there \in AppStates : Moves("app", there)
    BY <1>1 DEF AppStep, PutFrame, PutEnd, Joined, JoinTimeout, PutStop, Rejoined, AppStates
  <2> QED
    BY <2>1, AppMoves, ResetPlaces DEF Actors
<1>2. CASE WorkerStep
  <2>1. \/ ForceReset("worker")
        \/ \E there \in WorkerStates : Moves("worker", there)
    BY <1>2 DEF WorkerStep, ProbeSucceeds, ProbeFails, TakeFirst, TakeOther, Start, Open, SetCall,
                CallFailed, CallStopped, DropCall, BackOff, WorkerStates
  <2> QED
    BY <2>1, WorkerMoves, ResetPlaces DEF Actors
<1>3. CASE \E g \in Generations : IteratorStep(g) \/ Lose(g)
  BY <1>3 DEF IteratorStep, Check, Send, Abandon, Release, GetAudio, GetOther, Steal, Lose
<1>4. CASE Operation
  <2>1. at' = at \/ \E there \in AppStates : Moves("app", there)
    BY <1>4 DEF Operation, SkipFrame, Reserve, Refuse, Toggle, Close, AppStates
  <2> QED
    BY <2>1, AppMoves
<1>5. CASE Response
  <2>1. at' = at \/ \E there \in WorkerStates : Moves("worker", there)
    BY <1>5 DEF Response, Accepted, DeliverAudio, Ended, BadResponse, WorkerStates
  <2> QED
    BY <2>1, WorkerMoves
<1> QED
  BY <1>1, <1>2, <1>3, <1>4, <1>5 DEF Next

-----------------------------------------------------------------------------
(* The calls. *)

CallsType == calls \in [Generations -> Call]

LEMMA CallFacts ==
    ASSUME CallsType, NEW g \in Generations
    PROVE  /\ calls[g] \in Call
           /\ calls[g].over \in BOOLEAN /\ calls[g].ended \in BOOLEAN
           /\ calls[g].iterator \in IteratorStates
           /\ calls[g].hand \in Request \cup {None}
           /\ calls[g].expected \in 0..(LastSample + 1)
           /\ [calls[g] EXCEPT !.over = TRUE] \in Call
BY DEF CallsType, Call

LEMMA NoCallIsCall == NoCall \in Call
<1>1. 0 \in 0..(LastSample + 1) /\ "done" \in IteratorStates
  BY WorkerAssumption DEF IteratorStates
<1> QED
  BY <1>1 DEF Call, NoCall

LEMMA CallMoves ==
    ASSUME NEW call \in Call, NEW there \in IteratorStates
    PROVE  [call EXCEPT !.iterator = there] \in Call
BY DEF Call

LEMMA CallTakes ==
    ASSUME NEW call \in Call, NEW there \in IteratorStates, NEW hand \in Request \cup {None}
    PROVE  [call EXCEPT !.iterator = there, !.hand = hand] \in Call
BY DEF Call

LEMMA CallReleases ==
    ASSUME NEW call \in Call, NEW there \in IteratorStates, NEW hand \in Request \cup {None},
           NEW expected \in 0..(LastSample + 1)
    PROVE  [call EXCEPT !.iterator = there, !.hand = hand, !.expected = expected] \in Call
BY DEF Call

LEMMA OpenedIsCall ==
    ASSUME NEW request, Offered(request)
    PROVE  Opened(request) \in Call
BY RequestFacts, WorkerAssumption DEF Offered, Within, Opened, Call, IteratorStates

\* All calls but one stay what they are.
LEMMA OneCall ==
    ASSUME CallsType, NEW g \in Generations, NEW call \in Call,
           calls' = [calls EXCEPT ![g] = call]
    PROVE  CallsType'
BY DEF CallsType

\* A call whose iterator is done.
LEMMA CallReturns ==
    ASSUME CallsType, NEW g \in Generations, NEW asked \in BOOLEAN, Return(g, asked)
    PROVE  CallsType'
<1> DEFINE call == [NoCall EXCEPT !.over = calls[g].over, !.ended = asked]
<1>1. call \in Call
  BY CallFacts, NoCallIsCall DEF NoCall, Call
<1>2. calls' = [calls EXCEPT ![g] = call]
  BY DEF Return
<1> HIDE DEF call
<1> QED
  BY <1>1, <1>2, OneCall

LEMMA ReturnFacts ==
    ASSUME CallsType, NEW g \in Generations, NEW asked, Return(g, asked)
    PROVE  /\ calls'[g].iterator = "done" /\ calls'[g].over = calls[g].over
           /\ calls'[g].ended = asked
           /\ \A h \in Generations : h # g => calls'[h] = calls[h]
<1>1. calls'[g] = [NoCall EXCEPT !.over = calls[g].over, !.ended = asked]
  BY DEF Return, CallsType
<1>2. \A h \in Generations : h # g => calls'[h] = calls[h]
  BY DEF Return, CallsType
<1> QED
  BY <1>1, <1>2 DEF NoCall

LEMMA CheckSteps ==
    ASSUME NEW g \in Generations, Check(g)
    PROVE  /\ calls[g].iterator = "checking"
           /\ Return(g, FALSE) \/ Iterator(g, "yielding")
<1>1. CASE calls[g].hand.start # calls[g].expected \/ reset
  BY <1>1, Zenon DEF Check
<1>2. CASE ~(calls[g].hand.start # calls[g].expected \/ reset)
  BY <1>2, Zenon DEF Check
<1> QED
  BY <1>1, <1>2

LEMMA CallsStay ==
    ASSUME CallsType, calls' = calls
    PROVE  CallsType'
BY DEF CallsType

LEMMA CloseChannelTypes ==
    ASSUME CallsType, CloseChannel
    PROVE  CallsType'
BY CallFacts DEF CallsType, CloseChannel

LEMMA IteratorCalls ==
    ASSUME TypeInv, CallsType, NEW g \in Generations, IteratorStep(g) \/ Lose(g)
    PROVE  CallsType'
<1> /\ calls[g] \in Call /\ NoCall \in Call
  BY CallFacts, NoCallIsCall
<1>1. CASE Check(g) \/ Send(g)
  <2>1. \/ Return(g, FALSE)
        \/ \E there \in IteratorStates : calls' = [calls EXCEPT ![g].iterator = there]
    BY <1>1 DEF Check, Send, Iterator, IteratorStates
  <2> QED
    BY <2>1, CallReturns, CallMoves, OneCall, CallFacts
<1>2. CASE Abandon(g) \/ Steal(g)
  BY <1>2, OneCall, NoCallIsCall DEF Abandon, Steal
<1>3. CASE Lose(g)
  BY <1>3, OneCall, CallFacts DEF Lose
<1>4. CASE Release(g)
  <2>1. /\ Offered(calls[g].hand)
        /\ calls[g].hand.start = calls[g].expected
    BY <1>4 DEF Release, TypeInv, FramesOK, HandOK, HasHand
  <2>2. calls[g].expected + calls[g].hand.n \in 0..(LastSample + 1)
    BY <2>1, RequestFacts, WorkerAssumption DEF Offered, Within, End
  <2> DEFINE call == [calls[g] EXCEPT !.iterator = "getting", !.hand = None,
                                     !.expected = @ + calls[g].hand.n]
  <2>3. "getting" \in IteratorStates /\ None \in Request \cup {None}
    BY DEF IteratorStates
  <2>4. call \in Call
    BY <2>2, <2>3, CallReleases
  <2>5. calls' = [calls EXCEPT ![g] = call]
    BY <1>4 DEF Release, CallsType
  <2> HIDE DEF call
  <2> QED
    BY <2>4, <2>5, OneCall
<1>5. CASE GetAudio(g) \/ GetOther(g)
  <2>1. Head(requests) \in Request /\ "checking" \in IteratorStates
    BY <1>5, TailFacts DEF GetAudio, GetOther, TypeInv, TypeOK, IteratorStates
  <2> DEFINE asked == Head(requests) = EndRequest /\ ~reset
             taken == [calls[g] EXCEPT !.iterator = "checking", !.hand = Head(requests)]
  <2>2. asked \in BOOLEAN
    OBVIOUS
  <2> HIDE DEF asked
  <2>3. taken \in Call
    BY <2>1, CallTakes
  <2>4. calls' = [calls EXCEPT ![g] = taken] \/ Return(g, asked)
    BY <1>5 DEF GetAudio, GetOther, asked
  <2> HIDE DEF taken
  <2> QED
    BY <2>2, <2>3, <2>4, OneCall, CallReturns
<1> QED
  BY <1>1, <1>2, <1>3, <1>4, <1>5 DEF IteratorStep

LEMMA NextCalls ==
    ASSUME TypeInv, CallsType, Next
    PROVE  CallsType'
<1>1. ASSUME NEW actor \in Actors, ForceReset(actor) PROVE CallsType'
  <2>1. CASE CancelCall(actor)
    <3>1. calls' = calls \/ current \in Generations
      BY <2>1 DEF CancelCall, TypeInv, TypeOK
    <3>2. CASE current \in Generations /\ current # None
      BY <2>1, <3>2, OneCall, CallFacts DEF CancelCall
    <3> QED
      BY <2>1, <3>1, <3>2, CallsStay DEF CancelCall
  <2> QED
    BY <1>1, <2>1, CallsStay DEF ForceReset, SetReset, DrainOne, ZeroPending, PutReset
<1>2. CASE AppStep
  BY <1>1, <1>2, CallsStay, CloseChannelTypes
     DEF AppStep, PutFrame, PutEnd, Joined, JoinTimeout, PutStop, Rejoined, Actors
<1>3. CASE Open
  <2>1. generation \in Generations /\ Offered(first)
    BY <1>3 DEF Open, TypeInv, CallsOK, FramesOK, FirstOK
  <2> QED
    BY <1>3, <2>1, OpenedIsCall, OneCall, CallsStay DEF Open
<1>4. CASE DropCall
  <2>1. generation \in Generations
    BY <1>4 DEF DropCall, TypeInv, CallsOK, CallStates
  <2> QED
    BY <1>4, <2>1, NoCallIsCall, OneCall, CallFacts DEF DropCall
<1>5. CASE WorkerStep /\ ~Open /\ ~DropCall
  BY <1>1, <1>5, CallsStay
     DEF WorkerStep, ProbeSucceeds, ProbeFails, TakeFirst, TakeOther, Start, SetCall, CallFailed,
         CallStopped, BackOff, Actors
<1>6. CASE \E g \in Generations : IteratorStep(g) \/ Lose(g)
  BY <1>6, IteratorCalls
<1>7. CASE Operation \/ Response
  BY <1>7, CallsStay DEF Operation, SkipFrame, Reserve, Refuse, Toggle, Close, Response, Accepted,
                         DeliverAudio, Ended, BadResponse
<1> QED
  BY <1>2, <1>3, <1>4, <1>5, <1>6, <1>7 DEF Next, WorkerStep

-----------------------------------------------------------------------------
(* The rest. *)

RestType ==
    /\ requests \in Seq(Request)
    /\ pending \in 0..MaxQueued
    /\ stop \in BOOLEAN /\ reset \in BOOLEAN /\ channelOpen \in BOOLEAN
    /\ generation \in {0} \cup Generations
    /\ current \in Generations \cup {None}
    /\ first \in Request \cup {None}
    /\ accepted \in BOOLEAN
    /\ backoff \in 0..MaxBackoff
    /\ enabled \in BOOLEAN
    /\ frame \in Request \cup {None}
    /\ offered \subseteq 0..LastSample
    /\ {position, sent, out} \subseteq 0..(LastSample + 1)
    /\ leaked \in Nat

restVars == <<requests, pending, stop, reset, channelOpen, generation, current, first, accepted,
              backoff, enabled, frame, offered, position, sent, out, leaked>>

LEMMA RestStays ==
    ASSUME RestType, UNCHANGED restVars
    PROVE  RestType'
BY DEF RestType, restVars

LEMMA TypeParts == TypeOK <=> at \in Place /\ CallsType /\ RestType
BY DEF TypeOK, Place, AppStates, WorkerStates, CallsType, RestType

LEMMA OperationRest ==
    ASSUME RestType, Operation
    PROVE  RestType'
<1>1. ASSUME NEW n \in Sizes, SkipFrame(n) PROVE RestType'
  BY <1>1, WorkerAssumption DEF RestType, appVars, SkipFrame
<1>2. ASSUME NEW n \in Sizes, Reserve(n) PROVE RestType'
  <2>1. position \in 0..LastSample /\ n \in Nat \ {0} /\ position + n \in 0..(LastSample + 1)
    BY <1>2, WorkerAssumption DEF RestType, Reserve
  <2>2. Audio(position, n) \in Request
    BY <2>1, FrameFacts
  <2>3. pending + n \in 0..MaxQueued
    BY <1>2, <2>1, WorkerAssumption DEF RestType, Reserve
  <2>4. position..(position + n - 1) \subseteq 0..LastSample
    BY <2>1, WorkerAssumption
  <2> QED
    BY <1>2, <2>1, <2>2, <2>3, <2>4 DEF RestType, Reserve
<1>3. ASSUME NEW n \in Sizes, Refuse(n) PROVE RestType'
  BY <1>3, WorkerAssumption DEF RestType, Refuse
<1>4. CASE Toggle
  <2>1. enabled' \in BOOLEAN /\ leaked' \in Nat
    BY <1>4 DEF Toggle
  <2> QED
    BY <1>4, <2>1 DEF RestType, Toggle
<1>5. CASE Close
  <2>1. stop' \in BOOLEAN
    BY <1>5 DEF Close
  <2> QED
    BY <1>5, <2>1 DEF RestType, appVars, Close
<1> QED
  BY <1>1, <1>2, <1>3, <1>4, <1>5 DEF Operation

LEMMA ResetRest ==
    ASSUME RestType, NEW actor \in Actors, ForceReset(actor)
    PROVE  RestType'
<1>1. CASE SetReset(actor)
  BY <1>1 DEF RestType, appVars, SetReset
<1>4. CASE ZeroPending(actor)
  <2>1. 0 \in 0..MaxQueued
    BY WorkerAssumption
  <2> QED
    BY <1>4, <2>1 DEF RestType, appVars, ZeroPending
<1>5. CASE CancelCall(actor)
  BY <1>5, RestStays DEF restVars, appVars, CancelCall
<1>2. CASE DrainOne(actor)
  BY <1>2, TailFacts DEF RestType, appVars, DrainOne
<1>3. CASE PutReset(actor)
  BY <1>3, AppendFacts, RequestFacts DEF RestType, appVars, PutReset
<1> QED
  BY <1>1, <1>2, <1>3, <1>4, <1>5 DEF ForceReset

LEMMA AppRest ==
    ASSUME RestType, FramesOK, AppStep
    PROVE  RestType'
<1>1. CASE PutFrame
  BY <1>1, AppendFacts DEF RestType, FramesOK, FrameOK, Offered, Within, PutFrame
<1>2. CASE PutEnd
  BY <1>2, AppendFacts, RequestFacts DEF RestType, appVars, PutEnd
<1>3. CASE PutStop
  BY <1>3, AppendFacts, RequestFacts DEF RestType, appVars, PutStop
<1>4. CASE Joined \/ JoinTimeout
  <2>1. channelOpen' \in BOOLEAN
    BY <1>4 DEF Joined, JoinTimeout, CloseChannel
  <2>2. UNCHANGED <<requests, pending, stop, reset, current, generation, first, accepted, out,
                    backoff, position, enabled, frame, offered, sent, leaked>>
    BY <1>4 DEF Joined, JoinTimeout, appVars
  <2> QED
    BY <2>1, <2>2 DEF RestType
<1>5. CASE Rejoined
  BY <1>5, RestStays DEF restVars, appVars, Rejoined
<1> QED
  BY <1>1, <1>2, <1>3, <1>4, <1>5, ResetRest DEF AppStep, Actors

LEMMA WorkerRest ==
    ASSUME RestType, FramesOK, CallsOK, WorkerStep
    PROVE  RestType'
<1>1. CASE ProbeSucceeds \/ ProbeFails \/ CallFailed
  BY <1>1, RestStays DEF restVars, appVars, ProbeSucceeds, ProbeFails, CallFailed
<1>7. CASE CallStopped \/ BackOff
  <2>1. backoff' \in 0..MaxBackoff
    BY <1>7, WorkerAssumption DEF RestType, CallStopped, BackOff
  <2>2. UNCHANGED <<requests, pending, stop, reset, channelOpen, current, generation, first,
                    accepted, out, position, enabled, frame, offered, sent, leaked>>
    BY <1>7 DEF CallStopped, BackOff, appVars
  <2> QED
    BY <2>1, <2>2 DEF RestType
<1>2. CASE SetCall
  BY <1>2 DEF RestType, CallsOK, CallStates, appVars, SetCall
<1>3. CASE TakeFirst
  <2>1. generation + 1 \in Generations
    BY <1>3, WorkerAssumption DEF RestType, TakeFirst, Generations
  <2> QED
    BY <1>3, <2>1, TailFacts DEF RestType, appVars, TakeFirst
<1>4. CASE TakeOther
  BY <1>4, TailFacts DEF RestType, appVars, TakeOther
<1>5. CASE Start
  <2>1. first.start \in 0..(LastSample + 1)
    BY <1>5, RequestFacts, WorkerAssumption DEF Start, FramesOK, FirstOK, Offered, Within
  <2> QED
    BY <1>5, <2>1 DEF RestType, appVars, Start
<1>6. CASE Open
  BY <1>6 DEF RestType, appVars, Open
<1>8. CASE DropCall
  <2>1. out' = 0 /\ 0 \in 0..(LastSample + 1) /\ accepted' = FALSE /\ current' = None
    BY <1>8, WorkerAssumption DEF DropCall
  <2> QED
    BY <1>8, <2>1 DEF RestType, appVars, DropCall
<1> QED
  BY <1>1, <1>2, <1>3, <1>4, <1>5, <1>6, <1>7, <1>8, ResetRest DEF WorkerStep, Actors

LEMMA IteratorRest ==
    ASSUME RestType, FramesOK, NEW g \in Generations, IteratorStep(g) \/ Lose(g)
    PROVE  RestType'
<1>1. CASE Check(g) \/ Abandon(g) \/ Lose(g)
  BY <1>1, RestStays DEF restVars, appVars, Check, Abandon, Lose
<1>2. CASE Send(g)
  <2>1. calls[g].hand.start + calls[g].hand.n \in 0..(LastSample + 1) /\ calls[g].hand.n \in Nat
    BY <1>2, RequestFacts, WorkerAssumption DEF FramesOK, HandOK, HasHand, Offered, Within, Send, End
  <2>2. leaked' \in Nat
    <3>1. leaked' = leaked \/ leaked' = leaked + calls[g].hand.n
      BY <1>2 DEF Send
    <3>2. leaked \in Nat
      BY DEF RestType
    <3> QED
      BY <2>1, <3>1, <3>2
  <2> QED
    BY <1>2, <2>1, <2>2 DEF RestType, appVars, Send
<1>3. CASE Release(g)
  <2>1. calls[g].hand.n \in Nat
    BY <1>3, RequestFacts, WorkerAssumption DEF FramesOK, HandOK, HasHand, Offered, Within, Release
  <2>2. pending' = IF pending < calls[g].hand.n THEN 0 ELSE pending - calls[g].hand.n
    BY <1>3 DEF Release
  <2>3. pending \in 0..MaxQueued
    BY DEF RestType
  <2>4. pending' \in 0..MaxQueued
    BY <2>1, <2>2, <2>3, WorkerAssumption
  <2>5. UNCHANGED <<requests, stop, reset, channelOpen, current, generation, first, accepted, out,
                    backoff, position, enabled, frame, offered, sent, leaked>>
    BY <1>3 DEF Release, appVars
  <2> QED
    BY <2>4, <2>5 DEF RestType
<1>4. CASE GetAudio(g) \/ GetOther(g) \/ Steal(g)
  <2>3. requests # <<>> /\ requests' = Tail(requests)
    BY <1>4 DEF GetAudio, GetOther, Steal
  <2>1. requests' \in Seq(Request)
    BY <2>3, TailFacts DEF RestType
  <2>2. UNCHANGED <<pending, stop, reset, channelOpen, current, generation, first, accepted, out,
                    backoff, position, enabled, frame, offered, sent, leaked>>
    BY <1>4 DEF GetAudio, GetOther, Steal, appVars
  <2> QED
    BY <2>1, <2>2 DEF RestType
<1> QED
  BY <1>1, <1>2, <1>3, <1>4 DEF IteratorStep

LEMMA ResponseRest ==
    ASSUME RestType, Response
    PROVE  RestType'
<1>1. CASE Accepted
  <2>1. accepted' \in BOOLEAN
    BY <1>1 DEF Accepted
  <2> QED
    BY <1>1, <2>1 DEF RestType, appVars, Accepted
<1>2. ASSUME NEW until \in 1..(LastSample + 1), DeliverAudio(until) PROVE RestType'
  BY <1>2, WorkerAssumption DEF RestType, appVars, DeliverAudio
<1>3. CASE Ended
  <2>1. backoff' \in 0..MaxBackoff
    BY <1>3, WorkerAssumption DEF Ended
  <2> QED
    BY <1>3, <2>1 DEF RestType, appVars, Ended
<1>4. CASE BadResponse
  BY <1>4, RestStays DEF restVars, appVars, BadResponse
<1> QED
  BY <1>1, <1>2, <1>3, <1>4 DEF Response

LEMMA NextTypes ==
    ASSUME TypeInv, Next
    PROVE  TypeOK'
<1>1. at \in Place /\ CallsType /\ RestType /\ FramesOK /\ CallsOK
  BY TypeParts DEF TypeInv
<1>2. at' \in Place
  BY <1>1, NextPlaces
<1>3. CallsType'
  BY <1>1, NextCalls
<1>4. RestType'
  BY <1>1, OperationRest, AppRest, WorkerRest, IteratorRest, ResponseRest DEF Next
<1>5. TypeOK' <=> at' \in Place /\ CallsType' /\ RestType'
  BY DEF TypeOK, Place, AppStates, WorkerStates, CallsType, RestType
<1> QED
  BY <1>2, <1>3, <1>4, <1>5

LEMMA InitTypes == Init => TypeInv
<1> SUFFICES ASSUME Init PROVE TypeInv
  OBVIOUS
<1>1. at \in Place
  BY DEF Init, Place, AppStates, WorkerStates
<1>2. CallsType
  BY NoCallIsCall DEF Init, CallsType
<1>3. RestType
  <2>1. 0 \in 0..MaxQueued /\ 0 \in 0..MaxBackoff /\ 0 \in 0..(LastSample + 1)
    BY WorkerAssumption
  <2>2. requests \in Seq(Request) /\ offered \subseteq 0..LastSample
    BY DEF Init
  <2>3. /\ stop \in BOOLEAN /\ reset \in BOOLEAN /\ channelOpen \in BOOLEAN
        /\ accepted \in BOOLEAN /\ enabled \in BOOLEAN
    BY DEF Init
  <2>4. /\ pending = 0 /\ generation = 0 /\ current = None /\ first = None /\ frame = None
        /\ backoff = 0 /\ position = 0 /\ sent = 0 /\ out = 0 /\ leaked = 0
    BY DEF Init
  <2> QED
    BY <2>1, <2>2, <2>3, <2>4 DEF RestType
<1>4. FramesOK /\ CallsOK
  BY DEF Init, FramesOK, FrameOK, FirstOK, HandOK, QueueOK, CallsOK, HasHand, Live, NoCall, CallStates
<1> QED
  BY <1>1, <1>2, <1>3, <1>4, TypeParts DEF TypeInv

-----------------------------------------------------------------------------
(* The calls that run. *)

\* The worker is where it has a call exactly when its locals say so; it enters
\* a generation by starting it and leaves it by dropping the call.
LEMMA ResetCallsOK ==
    ASSUME TypeInv, NEW actor \in Actors, ForceReset(actor)
    PROVE  CallsOK'
<1>1. /\ generation' = generation
      /\ (at'.worker \in CallStates <=> at.worker \in CallStates)
      /\ (at'.worker \in {"starting", "opening"} <=> at.worker \in {"starting", "opening"})
  <2>1. CASE actor = "app"
    <3>1. at'.worker = at.worker
      BY <2>1 DEF ForceReset, SetReset, CancelCall, DrainOne, ZeroPending, PutReset, Moves,
                  TypeInv, TypeOK
    <3> QED
      BY <3>1 DEF ForceReset, SetReset, CancelCall, DrainOne, ZeroPending, PutReset
  <2>2. CASE actor = "worker"
    BY <2>2 DEF ForceReset, SetReset, CancelCall, DrainOne, ZeroPending, PutReset, Moves,
                TypeInv, TypeOK, CallStates
  <2> QED
    BY <2>1, <2>2 DEF Actors
<1>2. \A g \in Generations : Live(g)' => Live(g)
  <2>1. \/ calls' = calls
        \/ calls' = [calls EXCEPT ![current].over = TRUE]
    BY DEF ForceReset, SetReset, CancelCall, DrainOne, ZeroPending, PutReset
  <2>2. CallsType
    BY DEF TypeInv, TypeOK, CallsType
  <2> QED
    BY <2>1, <2>2 DEF Live, CallsType, Call
<1> QED
  BY <1>1, <1>2 DEF TypeInv, CallsOK, Live

LEMMA NextCallsOK ==
    ASSUME TypeInv, Next
    PROVE  CallsOK'
<1> CallsOK /\ at \in Place /\ CallsType
  BY TypeParts DEF TypeInv
<1> DEFINE Kept == /\ \A g \in Generations : Live(g)' => Live(g)
                   /\ generation' = generation
                   /\ (at'.worker \in CallStates <=> at.worker \in CallStates)
                   /\ at'.worker \in {"starting", "opening"} =>
                         at.worker \in {"starting", "opening"}
<1>1. Kept => CallsOK'
  BY DEF CallsOK, Live
<1>2. CASE AppStep /\ ~ForceReset("app")
  <2>1. at'.worker = at.worker /\ generation' = generation
    BY <1>2 DEF AppStep, PutFrame, PutEnd, Joined, JoinTimeout, PutStop, Rejoined, Moves, Place
  <2>2. \A g \in Generations : Live(g)' => Live(g)
    <3>1. calls' = calls \/ CloseChannel
      BY <1>2 DEF AppStep, PutFrame, PutEnd, Joined, JoinTimeout, PutStop, Rejoined
    <3> QED
      BY <3>1 DEF Live, CloseChannel, CallsType, Call
  <2> QED
    BY <1>1, <2>1, <2>2
<1>3. CASE ProbeSucceeds \/ ProbeFails \/ TakeOther \/ Start \/ SetCall \/ CallFailed \/ CallStopped
           \/ BackOff
  <2>1. calls' = calls /\ generation' = generation
    BY <1>3 DEF ProbeSucceeds, ProbeFails, TakeOther, Start, SetCall, CallFailed, CallStopped, BackOff
  <2>2. /\ at'.worker \in CallStates <=> at.worker \in CallStates
        /\ at'.worker \in {"starting", "opening"} => at.worker \in {"starting", "opening"}
    BY <1>3 DEF ProbeSucceeds, ProbeFails, TakeOther, Start, SetCall, CallFailed, CallStopped, BackOff,
                Moves, Place, CallStates
  <2> QED
    BY <1>1, <2>1, <2>2 DEF Live
<1>4. CASE TakeFirst
  <2>1. generation' \in Generations
    BY <1>4, WorkerAssumption DEF TakeFirst, TypeInv, TypeOK, Generations
  <2>2. calls' = calls /\ at.worker \notin CallStates
    BY <1>4 DEF TakeFirst, CallStates
  <2> QED
    BY <2>1, <2>2 DEF CallsOK, Live
<1>5. CASE Open
  <2>1. /\ generation' = generation /\ generation \in Generations
        /\ at'.worker \in CallStates
        /\ \A g \in Generations : ~Live(g)
    BY <1>5 DEF Open, Moves, Place, CallStates, CallsOK
  <2>2. \A g \in Generations : g # generation => ~Live(g)'
    BY <1>5, <2>1 DEF Open, Live, CallsType
  <2> QED
    BY <2>1, <2>2 DEF CallsOK
<1>6. CASE DropCall
  <2>1. /\ generation' = generation /\ generation \in Generations
        /\ at'.worker \notin CallStates /\ at'.worker \notin {"starting", "opening"}
        /\ \A g \in Generations : g # generation => ~Live(g)
    BY <1>6 DEF DropCall, Moves, Place, CallStates, CallsOK
  <2>2. \A g \in Generations : ~Live(g)'
    BY <1>6, <2>1 DEF DropCall, Live, CallsType, NoCall, Call
  <2> QED
    BY <2>1, <2>2 DEF CallsOK
<1>7. CASE \E g \in Generations : IteratorStep(g) \/ Lose(g)
  <2>1. at' = at /\ generation' = generation
    BY <1>7 DEF IteratorStep, Check, Send, Abandon, Release, GetAudio, GetOther, Steal, Lose
  <2>2. \A g \in Generations : Live(g)' => Live(g)
    <3> PICK g \in Generations : IteratorStep(g) \/ Lose(g)
      BY <1>7
    <3>1. ASSUME NEW asked, Return(g, asked)
          PROVE  \A h \in Generations : Live(h)' => Live(h)
      BY <3>1, ReturnFacts DEF Live
    <3>2. CASE Check(g)
      <4>1. CASE Iterator(g, "yielding")
        BY <4>1 DEF Live, Iterator, CallsType, Call
      <4> QED
        BY <3>1, <3>2, <4>1, CheckSteps
    <3>3. CASE GetOther(g)
      <4>1. Return(g, Head(requests) = EndRequest /\ ~reset)
        BY <3>3 DEF GetOther
      <4> QED
        BY <3>1, <4>1
    <3>4. CASE Send(g) \/ Abandon(g) \/ Release(g) \/ GetAudio(g) \/ Steal(g) \/ Lose(g)
      BY <3>4 DEF Send, Abandon, Release, GetAudio, Steal, Lose, Live, Iterator, CallsType, Call, NoCall
    <3> QED
      BY <3>2, <3>3, <3>4 DEF IteratorStep
  <2> QED
    BY <1>1, <2>1, <2>2
<1>8. CASE Operation
  <2>1. at'.worker = at.worker /\ generation' = generation /\ calls' = calls
    BY <1>8 DEF Operation, SkipFrame, Reserve, Refuse, Toggle, Close, Moves, Place
  <2> QED
    BY <1>1, <2>1 DEF Live
<1>9. CASE Response
  <2>1. generation' = generation /\ calls' = calls
    BY <1>9 DEF Response, Accepted, DeliverAudio, Ended, BadResponse
  <2>2. at.worker = "streaming" /\ at'.worker \in {"streaming", "reset", "finally", "failed"}
    BY <1>9 DEF Response, Accepted, DeliverAudio, Ended, BadResponse, Moves, Place
  <2> QED
    BY <1>1, <2>1, <2>2 DEF Live, CallStates
<1> QED
  BY <1>2, <1>3, <1>4, <1>5, <1>6, <1>7, <1>8, <1>9, ResetCallsOK
     DEF Next, AppStep, WorkerStep, Actors

-----------------------------------------------------------------------------
(* What a step does to the queue and to a call. *)

LEMMA StillWithin ==
    ASSUME NEW request, NEW samples, NEW more, samples \subseteq more, Within(request, samples)
    PROVE  Within(request, more)
BY DEF Within

LEMMA FrameWithin ==
    ASSUME NEW start \in 0..LastSample, NEW n \in Sizes, n <= MaxQueued, start + n <= LastSample + 1,
           NEW samples, start..(start + n - 1) \subseteq samples
    PROVE  Within(Audio(start, n), samples)
BY FrameFacts, WorkerAssumption DEF Within

LEMMA OfferedGrows ==
    ASSUME Next
    PROVE  offered \subseteq offered'
BY DEF Next, AppStep, PutFrame, PutEnd, Joined, JoinTimeout, PutStop, Rejoined, WorkerStep,
       ProbeSucceeds, ProbeFails, TakeFirst, TakeOther, Start, Open, SetCall, CallFailed,
       CallStopped, DropCall, BackOff, ForceReset, SetReset, CancelCall, DrainOne, ZeroPending,
       PutReset, IteratorStep, Check, Send, Abandon, Release, GetAudio, GetOther, Steal, Lose,
       Operation, SkipFrame, Reserve, Refuse, Toggle, Close,
       Response, Accepted, DeliverAudio, Ended, BadResponse, appVars

\* A step leaves the queue alone, takes its head or puts one request.
Puts(request) == requests' = Append(requests, request)
Takes == requests # <<>> /\ requests' = Tail(requests)
LEMMA QueueSteps ==
    ASSUME Next
    PROVE  \/ requests' = requests
           \/ Takes
           \/ PutFrame
           \/ PutEnd
           \/ Puts(StopRequest)
           \/ Puts(ResetRequest)
<1>1. ASSUME NEW actor \in Actors, ForceReset(actor)
      PROVE  requests' = requests \/ Takes \/ Puts(ResetRequest)
  BY <1>1 DEF ForceReset, SetReset, CancelCall, DrainOne, ZeroPending, PutReset, Takes, Puts
<1>2. CASE AppStep
  BY <1>1, <1>2 DEF AppStep, Joined, JoinTimeout, PutStop, Rejoined, Puts, Actors
<1>3. CASE WorkerStep
  BY <1>1, <1>3 DEF WorkerStep, ProbeSucceeds, ProbeFails, TakeFirst, TakeOther, Start, Open, SetCall,
                    CallFailed, CallStopped, DropCall, BackOff, Takes, Actors
<1>4. CASE \E g \in Generations : IteratorStep(g) \/ Lose(g)
  BY <1>4 DEF IteratorStep, Check, Send, Abandon, Release, GetAudio, GetOther, Steal, Lose, Takes
<1>5. CASE Operation
  BY <1>5 DEF Operation, SkipFrame, Reserve, Refuse, Toggle, Close, appVars
<1>6. CASE Response
  BY <1>6 DEF Response, Accepted, DeliverAudio, Ended, BadResponse
<1> QED
  BY <1>2, <1>3, <1>4, <1>5, <1>6 DEF Next

\* A step leaves a call alone, ends or forgets it, opens it, or is one of its
\* iterator's.
LEMMA CallSteps ==
    ASSUME TypeInv, Next, NEW g \in Generations
    PROVE  \/ calls'[g] = calls[g]
           \/ calls'[g] = [calls[g] EXCEPT !.over = TRUE]
           \/ calls'[g] = NoCall
           \/ Open /\ g = generation /\ calls'[g] = Opened(first)
           \/ Check(g) \/ Send(g) \/ Release(g) \/ GetAudio(g) \/ GetOther(g)
<1> CallsType
  BY TypeParts DEF TypeInv
<1>1. ASSUME NEW actor \in Actors, ForceReset(actor)
      PROVE  calls'[g] = calls[g] \/ calls'[g] = [calls[g] EXCEPT !.over = TRUE]
  <2>1. calls' = calls \/ calls' = [calls EXCEPT ![current].over = TRUE]
    BY <1>1 DEF ForceReset, SetReset, CancelCall, DrainOne, ZeroPending, PutReset
  <2> QED
    BY <2>1 DEF CallsType
<1>2. CASE AppStep
  BY <1>1, <1>2 DEF AppStep, PutFrame, PutEnd, Joined, JoinTimeout, PutStop, Rejoined, CloseChannel,
                    Actors
<1>3. CASE Open \/ DropCall
  BY <1>3 DEF Open, DropCall, CallsType
<1>4. CASE WorkerStep /\ ~Open /\ ~DropCall
  BY <1>1, <1>4
     DEF WorkerStep, ProbeSucceeds, ProbeFails, TakeFirst, TakeOther, Start, SetCall, CallFailed,
         CallStopped, BackOff, Actors
<1>5. ASSUME NEW h \in Generations, IteratorStep(h) \/ Lose(h)
      PROVE  \/ calls'[g] = calls[g]
             \/ calls'[g] = [calls[g] EXCEPT !.over = TRUE]
             \/ calls'[g] = NoCall
             \/ Check(g) \/ Send(g) \/ Release(g) \/ GetAudio(g) \/ GetOther(g)
  <2>1. CASE h = g
    BY <1>5, <2>1 DEF IteratorStep, Abandon, Steal, Lose, CallsType
  <2>2. CASE h # g
    BY <1>5, <2>2 DEF IteratorStep, Check, Send, Abandon, Release, GetAudio, GetOther, Steal, Lose,
                      Iterator, Return, CallsType
  <2> QED
    BY <2>1, <2>2
<1>6. CASE Operation \/ Response
  BY <1>6 DEF Operation, SkipFrame, Reserve, Refuse, Toggle, Close, Response, Accepted,
              DeliverAudio, Ended, BadResponse
<1> QED
  BY <1>2, <1>3, <1>4, <1>5, <1>6 DEF Next, WorkerStep

-----------------------------------------------------------------------------
(* The frames that threads hold. *)

\* A step leaves the frame of the application alone, lets go of it or reserves one.
LEMMA FrameSteps ==
    ASSUME at \in Place, Next
    PROVE  \/ frame' = frame /\ (at'.app = "putting" => at.app = "putting")
           \/ at'.app # "putting"
           \/ \E n \in Sizes : Reserve(n)
<1>1. ASSUME NEW actor \in Actors, ForceReset(actor)
      PROVE  frame' = frame /\ (at'.app = "putting" => at.app = "putting")
  BY <1>1 DEF ForceReset, SetReset, CancelCall, DrainOne, ZeroPending, PutReset, Moves, Place,
              Actors, appVars
<1>2. CASE AppStep
  BY <1>1, <1>2 DEF AppStep, PutFrame, PutEnd, Joined, JoinTimeout, PutStop, Rejoined, Actors,
                    Moves, Place
<1>3. CASE WorkerStep /\ ~ForceReset("worker")
  BY <1>3 DEF WorkerStep, ProbeSucceeds, ProbeFails, TakeFirst, TakeOther, Start, Open, SetCall,
              CallFailed, CallStopped, DropCall, BackOff, Moves, Place, appVars
<1>4. CASE \E g \in Generations : IteratorStep(g) \/ Lose(g)
  BY <1>4 DEF IteratorStep, Check, Send, Abandon, Release, GetAudio, GetOther, Steal, Lose, appVars
<1>5. CASE Operation
  BY <1>5 DEF Operation, SkipFrame, Refuse, Toggle, Close, Moves, Place
<1>6. CASE Response
  BY <1>6 DEF Response, Accepted, DeliverAudio, Ended, BadResponse, Moves, Place, appVars
<1> QED
  BY <1>1, <1>2, <1>3, <1>4, <1>5, <1>6 DEF Next, WorkerStep, Actors

LEMMA NextFrame ==
    ASSUME TypeInv, Next
    PROVE  FrameOK'
<1> at \in Place /\ RestType /\ FrameOK
  BY TypeParts DEF TypeInv, FramesOK
<1>1. \/ frame' = frame /\ (at'.app = "putting" => at.app = "putting")
      \/ at'.app # "putting"
      \/ \E n \in Sizes : Reserve(n)
  BY FrameSteps
<1>2. ASSUME NEW n \in Sizes, Reserve(n) PROVE FrameOK'
  <2>1. position \in 0..LastSample /\ position + n <= LastSample + 1
    BY <1>2, WorkerAssumption DEF Reserve, RestType
  <2>2. /\ frame' = Audio(position, n)
        /\ position..(position + n - 1) \subseteq offered'
    BY <1>2 DEF Reserve
  <2>3. n <= MaxQueued
    BY <1>2, WorkerAssumption DEF Reserve, RestType
  <2> QED
    BY <2>1, <2>2, <2>3, FrameWithin DEF FrameOK, Offered
<1>3. ASSUME frame' = frame, at'.app = "putting" => at.app = "putting" PROVE FrameOK'
  BY <1>3, OfferedGrows, StillWithin DEF FrameOK, Offered
<1> QED
  BY <1>1, <1>2, <1>3 DEF FrameOK

\* Likewise the request a generation starts with.
LEMMA FirstSteps ==
    ASSUME at \in Place, Next
    PROVE  \/ first' = first /\ (at'.worker \in {"starting", "opening"} =>
                                    at.worker \in {"starting", "opening"})
           \/ at'.worker \notin {"starting", "opening"}
           \/ TakeFirst
<1> DEFINE starts == at.worker \in {"starting", "opening"}
<1>1. ASSUME NEW actor \in Actors, ForceReset(actor)
      PROVE  first' = first /\ (starts' => starts)
  BY <1>1 DEF ForceReset, SetReset, CancelCall, DrainOne, ZeroPending, PutReset, Moves, Place,
              Actors
<1>2. CASE AppStep /\ ~ForceReset("app")
  BY <1>2 DEF AppStep, PutFrame, PutEnd, Joined, JoinTimeout, PutStop, Rejoined, Moves, Place
<1>3. CASE WorkerStep /\ ~ForceReset("worker")
  BY <1>3 DEF WorkerStep, ProbeSucceeds, ProbeFails, TakeOther, Start, Open, SetCall,
              CallFailed, CallStopped, DropCall, BackOff, Moves, Place
<1>4. CASE \E g \in Generations : IteratorStep(g) \/ Lose(g)
  BY <1>4 DEF IteratorStep, Check, Send, Abandon, Release, GetAudio, GetOther, Steal, Lose
<1>5. CASE Operation
  BY <1>5 DEF Operation, SkipFrame, Reserve, Refuse, Toggle, Close, Moves, Place
<1>6. CASE Response
  BY <1>6 DEF Response, Accepted, DeliverAudio, Ended, BadResponse, Moves, Place
<1> QED
  BY <1>1, <1>2, <1>3, <1>4, <1>5, <1>6 DEF Next, WorkerStep, AppStep, Actors

LEMMA NextFirst ==
    ASSUME TypeInv, Next
    PROVE  FirstOK'
<1> DEFINE starts == at.worker \in {"starting", "opening"}
<1> at \in Place /\ FirstOK /\ QueueOK /\ requests \in Seq(Request)
  BY TypeParts DEF TypeInv, FramesOK, RestType
<1>1. \/ first' = first /\ (starts' => starts)
      \/ ~starts'
      \/ TakeFirst
  BY FirstSteps
<1>2. CASE TakeFirst
  <2>1. requests # <<>> /\ IsAudio(Head(requests)) /\ first' = Head(requests)
    BY <1>2 DEF TakeFirst, IsAudio
  <2>2. Within(Head(requests), offered)
    BY <2>1, TailFacts DEF QueueOK, Offered
  <2> QED
    BY <2>1, <2>2, OfferedGrows, StillWithin DEF FirstOK, Offered
<1>3. ASSUME first' = first, starts' => starts PROVE FirstOK'
  BY <1>3, OfferedGrows, StillWithin DEF FirstOK, Offered
<1> QED
  BY <1>1, <1>2, <1>3 DEF FirstOK

LEMMA NextHand ==
    ASSUME TypeInv, Next, NEW g \in Generations
    PROVE  HandOK(g)'
<1> /\ HandOK(g) /\ FirstOK /\ QueueOK /\ requests \in Seq(Request) /\ CallsType
    /\ calls[g] \in Call
  BY TypeParts, CallFacts DEF TypeInv, FramesOK, RestType
<1> DEFINE call == calls'[g]
<1>1. ASSUME call.iterator \in {"checking", "yielding", "releasing"} =>
                Within(call.hand, offered'),
             call.iterator \in {"yielding", "releasing"} => call.hand.start = call.expected
      PROVE  HandOK(g)'
  BY <1>1 DEF HandOK, HasHand, Offered
<1> HIDE DEF call
<1>2. CASE call = calls[g] \/ call = [calls[g] EXCEPT !.over = TRUE]
  <2>1. /\ call.iterator = calls[g].iterator /\ call.hand = calls[g].hand
        /\ call.expected = calls[g].expected
    BY <1>2 DEF Call
  <2> QED
    BY <1>1, <2>1, OfferedGrows, StillWithin DEF HandOK, HasHand, Offered
<1>3. CASE call = NoCall
  BY <1>1, <1>3 DEF NoCall
<1>4. CASE Open /\ call = Opened(first)
  <2>1. Within(first, offered)
    BY <1>4 DEF Open, FirstOK, Offered
  <2> QED
    BY <1>1, <1>4, <2>1, OfferedGrows, StillWithin DEF Opened
<1>5. CASE Check(g) \/ Send(g)
  <2>1. \/ call.iterator = "done"
        \/ /\ HasHand(g) /\ call.hand = calls[g].hand /\ call.expected = calls[g].expected
           /\ call.iterator \in {"yielding", "releasing"} => calls[g].hand.start = calls[g].expected
    BY <1>5, ReturnFacts DEF Check, Send, Iterator, HasHand, HandOK, CallsType, Call, call
  <2> QED
    BY <1>1, <2>1, OfferedGrows, StillWithin DEF HandOK, Offered
<1>6. CASE Release(g) \/ GetOther(g)
  <2>1. call.iterator \in {"getting", "done"}
    BY <1>6, ReturnFacts DEF Release, GetOther, CallsType, Call, call
  <2> QED
    BY <1>1, <2>1
<1>7. CASE GetAudio(g)
  <2>1. requests # <<>> /\ IsAudio(Head(requests))
    BY <1>7 DEF GetAudio, IsAudio
  <2>2. Within(Head(requests), offered)
    BY <2>1, TailFacts DEF QueueOK, Offered
  <2>3. call.iterator = "checking" /\ call.hand = Head(requests)
    BY <1>7 DEF GetAudio, CallsType, Call, call
  <2> QED
    BY <1>1, <2>2, <2>3, OfferedGrows, StillWithin
<1> QED
  BY <1>2, <1>3, <1>4, <1>5, <1>6, <1>7, CallSteps DEF call

LEMMA NextQueue ==
    ASSUME TypeInv, Next
    PROVE  QueueOK'
<1> FrameOK /\ QueueOK /\ requests \in Seq(Request) /\ offered \subseteq offered'
  BY TypeParts, OfferedGrows DEF TypeInv, FramesOK, RestType
<1>1. ASSUME NEW e \in Request, Puts(e), IsAudio(e) => Within(e, offered')
      PROVE  QueueOK'
  BY <1>1, AppendFacts, StillWithin DEF QueueOK, Offered, Puts
<1>2. CASE requests' = requests
  BY <1>2, StillWithin DEF QueueOK, Offered
<1>3. CASE Takes
  BY <1>3, TailFacts, StillWithin DEF QueueOK, Offered, Takes
<1>4. CASE PutFrame
  <2>1. Puts(frame) /\ Within(frame, offered) /\ frame \in Request
    BY <1>4 DEF PutFrame, Puts, FrameOK, Offered, Within
  <2> QED
    BY <1>1, <2>1, StillWithin
<1>5. CASE PutEnd \/ Puts(StopRequest) \/ Puts(ResetRequest)
  BY <1>1, <1>5, RequestFacts DEF PutEnd, Puts
<1> QED
  BY <1>2, <1>3, <1>4, <1>5, QueueSteps

LEMMA NextTypeInv ==
    ASSUME TypeInv, Next
    PROVE  TypeInv'
<1>1. TypeOK' /\ CallsOK'
  BY NextTypes, NextCallsOK
<1>2. FrameOK' /\ FirstOK' /\ QueueOK'
  BY NextFrame, NextFirst, NextQueue
<1>3. \A g \in Generations : HandOK(g)'
  BY NextHand
<1> QED
  BY <1>1, <1>2, <1>3 DEF TypeInv, FramesOK

LEMMA VarsStay ==
    ASSUME TypeInv, UNCHANGED vars
    PROVE  TypeInv'
<1>1. TypeOK'
  BY DEF TypeInv, TypeOK, vars, appVars
<1>2. FramesOK' /\ CallsOK'
  BY DEF TypeInv, FramesOK, FrameOK, FirstOK, HandOK, QueueOK, HasHand, Offered, CallsOK, Live,
         vars, appVars
<1> QED
  BY <1>1, <1>2 DEF TypeInv

LEMMA TypesHold == Spec => []TypeInv
<1>1. TypeInv /\ [Next]_vars => TypeInv'
  BY NextTypeInv, VarsStay
<1> QED
  BY <1>1, InitTypes, PTL DEF Spec

\* Every variable has its type: the count of pending samples stays between zero
\* and the limit whatever drains and releases forget, the cursor of every call
\* within the input, and whoever is about to put, send or announce a request
\* holds audio.
THEOREM WorkerTypeCorrect == Spec => []TypeOK
<1>1. TypeInv => TypeOK
  BY DEF TypeInv
<1> QED
  BY <1>1, TypesHold, PTL

-----------------------------------------------------------------------------
(* Who may reset the delay. *)

\* Only close sets the stop event, puts an end and makes a call end well.
Closing == {"putEnd", "joining", "putStop", "rejoining", "closed"}
EndInv ==
    /\ at.app \in Closing => stop
    /\ \A i \in DOMAIN requests : requests[i] = EndRequest => stop
    /\ \A g \in Generations : calls[g].ended => stop

LEMMA StopStays ==
    ASSUME Next, stop = TRUE
    PROVE  stop' = TRUE
BY DEF Next, AppStep, PutFrame, PutEnd, Joined, JoinTimeout, PutStop, Rejoined, WorkerStep,
       ProbeSucceeds, ProbeFails, TakeFirst, TakeOther, Start, Open, SetCall, CallFailed,
       CallStopped, DropCall, BackOff, ForceReset, SetReset, CancelCall, DrainOne, ZeroPending,
       PutReset, IteratorStep, Check, Send, Abandon, Release, GetAudio, GetOther, Steal, Lose,
       Operation, SkipFrame, Reserve, Refuse, Toggle, Close,
       Response, Accepted, DeliverAudio, Ended, BadResponse

LEMMA NextEnd ==
    ASSUME TypeInv, EndInv, Next
    PROVE  EndInv'
<1> /\ at \in Place /\ RestType /\ CallsType /\ QueueOK /\ FrameOK
  BY TypeParts DEF TypeInv, FramesOK
<1>s. stop => stop'
  BY StopStays DEF RestType
<1>1. at'.app \in Closing => stop'
  <2>1. ASSUME NEW actor \in Actors, ForceReset(actor)
        PROVE  at'.app \in Closing => at.app \in Closing
    BY <2>1 DEF ForceReset, SetReset, CancelCall, DrainOne, ZeroPending, PutReset, Moves, Place,
                Actors, Closing
  <2>2. CASE AppStep
    BY <1>s, <2>1, <2>2 DEF AppStep, PutFrame, PutEnd, Joined, JoinTimeout, PutStop, Rejoined, Actors,
                      Moves, Place, Closing, EndInv
  <2>3. CASE WorkerStep /\ ~ForceReset("worker")
    BY <1>s, <2>3
       DEF WorkerStep, ProbeSucceeds, ProbeFails, TakeFirst, TakeOther, Start, Open, SetCall,
           CallFailed, CallStopped, DropCall, BackOff, Moves, Place, EndInv
  <2>4. CASE \E g \in Generations : IteratorStep(g) \/ Lose(g)
    BY <1>s, <2>4 DEF IteratorStep, Check, Send, Abandon, Release, GetAudio, GetOther, Steal, Lose, EndInv
  <2>5. CASE Operation
    BY <1>s, <2>5 DEF Operation, SkipFrame, Reserve, Refuse, Toggle, Close, Moves, Place, EndInv, Closing
  <2>6. CASE Response
    BY <1>s, <2>6 DEF Response, Accepted, DeliverAudio, Ended, BadResponse, Moves, Place, EndInv
  <2> QED
    BY <1>s, <2>1, <2>2, <2>3, <2>4, <2>5, <2>6 DEF Next, WorkerStep, Actors, EndInv
<1>2. \A i \in DOMAIN requests' : requests'[i] = EndRequest => stop'
  <2>1. ASSUME NEW e \in Request, Puts(e), e = EndRequest => stop
        PROVE  \A i \in DOMAIN requests' : requests'[i] = EndRequest => stop'
    BY <1>s, <2>1, AppendFacts DEF RestType, EndInv, Puts
  <2>2. CASE requests' = requests
    BY <1>s, <2>2 DEF EndInv
  <2>3. CASE Takes
    BY <1>s, <2>3, TailFacts DEF EndInv, Takes, RestType
  <2>4. CASE PutFrame
    <3>1. Puts(frame) /\ frame \in Request /\ IsAudio(frame)
      BY <2>4 DEF PutFrame, Puts, FrameOK, Offered, Within
    <3> QED
      BY <2>1, <3>1, RequestFacts
  <2>5. CASE PutEnd
    BY <2>1, <2>5, RequestFacts DEF PutEnd, Puts, EndInv, Closing
  <2>6. CASE Puts(StopRequest) \/ Puts(ResetRequest)
    <3>1. StopRequest # EndRequest /\ ResetRequest # EndRequest
      BY DEF StopRequest, ResetRequest, EndRequest
    <3> QED
      BY <2>1, <2>6, <3>1, RequestFacts
  <2> QED
    BY <2>2, <2>3, <2>4, <2>5, <2>6, QueueSteps
<1>3. ASSUME NEW g \in Generations PROVE calls'[g].ended => stop'
  <2> calls[g] \in Call
    BY CallFacts
  <2>1. CASE \/ calls'[g] = calls[g]
             \/ calls'[g] = [calls[g] EXCEPT !.over = TRUE]
             \/ calls'[g] = NoCall
             \/ Open /\ g = generation /\ calls'[g] = Opened(first)
    BY <1>s, <2>1 DEF EndInv, NoCall, Opened, Call
  <2>2. CASE Check(g) \/ Send(g) \/ Release(g) \/ GetAudio(g)
    <3>1. CASE Return(g, FALSE)
      BY <1>s, <3>1, ReturnFacts
    <3>2. CASE Iterator(g, "yielding") \/ Send(g) \/ Release(g) \/ GetAudio(g)
      <4>1. calls'[g].ended = calls[g].ended
        BY <3>2 DEF Send, Release, GetAudio, Iterator, CallsType, Call
      <4> QED
        BY <1>s, <4>1 DEF EndInv
    <3> QED
      BY <2>2, <3>1, <3>2, CheckSteps
  <2>3. CASE GetOther(g)
    <3>1. calls'[g].ended = (Head(requests) = EndRequest /\ ~reset) /\ requests # <<>>
      BY <2>3, ReturnFacts DEF GetOther, CallsType, Call
    <3> QED
      BY <1>s, <3>1, TailFacts DEF EndInv, RestType
  <2> QED
    BY <2>1, <2>2, <2>3, CallSteps
<1> QED
  BY <1>1, <1>2, <1>3 DEF EndInv

\* A step that shortens the delay.
LEMMA StartsOver ==
    ASSUME TypeInv, EndInv, Next, backoff' < backoff
    PROVE  stop \/ UnaskedEnd
<1>1. backoff \in 0..MaxBackoff
  BY DEF TypeInv, TypeOK
<1>2. CASE BackOff
  <2>1. FALSE
    BY <1>1, <1>2, WorkerAssumption DEF BackOff
  <2> QED
    BY <2>1
<1>3. CASE Ended
  <2>1. CASE calls[generation].ended
    BY <1>3, <2>1 DEF Ended, EndInv, TypeInv, CallsOK, CallStates
  <2>2. CASE ~calls[generation].ended
    <3>1. at'.worker = "finally"
      BY <1>3, TypeParts DEF Ended, Moves, Place, TypeInv
    <3> QED
      BY <1>3, <2>2, <3>1 DEF Ended, UnaskedEnd
  <2> QED
    BY <2>1, <2>2
<1>4. CASE CallStopped
  BY <1>4 DEF CallStopped
<1>5. CASE ~BackOff /\ ~Ended /\ ~CallStopped
  <2>1. backoff' = backoff
    BY <1>5 DEF Next, AppStep, PutFrame, PutEnd, Joined, JoinTimeout, PutStop, Rejoined, WorkerStep,
       ProbeSucceeds, ProbeFails, TakeFirst, TakeOther, Start, Open, SetCall, CallFailed,
       DropCall, ForceReset, SetReset, CancelCall, DrainOne, ZeroPending,
       PutReset, IteratorStep, Check, Send, Abandon, Release, GetAudio, GetOther, Steal, Lose,
       Operation, SkipFrame, Reserve, Refuse, Toggle, Close, Response, Accepted, DeliverAudio,
       BadResponse
  <2> QED
    BY <1>1, <2>1
<1> QED
  BY <1>2, <1>3, <1>4, <1>5

LEMMA EndHolds == Spec => [](TypeInv /\ EndInv)
<1>1. Init => TypeInv /\ EndInv
  BY InitTypes DEF Init, EndInv, Closing, NoCall
<1>2. TypeInv /\ EndInv /\ UNCHANGED vars => EndInv'
  BY DEF EndInv, vars
<1>3. TypeInv /\ EndInv /\ [Next]_vars => (TypeInv /\ EndInv)'
  BY <1>2, NextTypeInv, VarsStay, NextEnd
<1> QED
  BY <1>1, <1>3, PTL DEF Spec

\* The reconnect delay starts over only while the worker is being closed, or by
\* a StreamEnded that no request has asked for: a call that ends as it was asked
\* to ends after an end request, which only close puts.  Neither a call that was
\* healthy and is lost nor a good probe resets the delay of a worker that runs
\* (_run and _run_generation).
THEOREM DelayStartsOverAtAnEnd == Spec => OnlyAnEndStartsOver
<1>1. TypeInv /\ EndInv /\ [Next]_vars => [backoff' < backoff => stop \/ UnaskedEnd]_vars
  BY StartsOver
<1> QED
  BY <1>1, EndHolds, PTL DEF Spec, OnlyAnEndStartsOver

-----------------------------------------------------------------------------
(* What a disabled processor still sends. *)

\* A processor is disabled by the setter, which drains the queue before it
\* returns: from then on nobody puts audio, and audio that is sent was in the
\* hand of the iterator or about to start a generation when the queue was
\* drained.  There is one such frame, because only one call is live.
NoAudioQueued == \A i \in DOMAIN requests : ~IsAudio(requests[i])
Draining == {"reset", "cancel", "drain"}
Unsent(g) == Live(g) /\ calls[g].iterator \in {"checking", "yielding"}
AllSent ==
    /\ ~enabled /\ at.app \in {"idle"} \cup Closing
    /\ at.worker \notin {"starting", "opening"}
    /\ \A g \in Generations : ~Unsent(g)
LeakInv ==
    /\ at.app = "putting" => enabled
    /\ ~enabled /\ at.app \notin Draining => NoAudioQueued
    /\ OneFrameLeaks
    /\ leaked # 0 => AllSent

\* Where the application is after a step.
LEMMA AppSteps ==
    ASSUME TypeInv, Next
    PROVE  \/ at'.app = at.app
           \/ at.app \in Draining /\ at'.app \in Draining
           \/ at.app = "drain" /\ at'.app = "zero" /\ requests = <<>> /\ requests' = requests
           \/ at.app \in {"zero", "putReset"} /\ at'.app \in {"putReset", "idle"}
           \/ at.app = "idle" /\ at'.app = "putting" /\ enabled
           \/ at.app = "idle" /\ at'.app = "reset" /\ (enabled \/ Toggle)
           \/ at.app = "putting" /\ at'.app = "idle"
           \/ at.app \in {"idle"} \cup Closing /\ at'.app \in Closing
<1> at \in Place
  BY TypeParts DEF TypeInv
<1>1. CASE ForceReset("app")
  BY <1>1 DEF ForceReset, SetReset, CancelCall, DrainOne, ZeroPending, PutReset, Moves, Place, Draining,
              AppStates
<1>2. CASE AppStep /\ ~ForceReset("app")
  BY <1>2 DEF AppStep, PutFrame, PutEnd, Joined, JoinTimeout, PutStop, Rejoined, Moves, Place, Closing
<1>3. CASE WorkerStep
  <2>1. CASE ForceReset("worker")
    BY <2>1 DEF ForceReset, SetReset, CancelCall, DrainOne, ZeroPending, PutReset, Moves, Place
  <2> QED
    BY <1>3, <2>1 DEF WorkerStep, ProbeSucceeds, ProbeFails, TakeFirst, TakeOther, Start, Open, SetCall,
                CallFailed, CallStopped, DropCall, BackOff, Moves, Place
<1>4. CASE \E g \in Generations : IteratorStep(g) \/ Lose(g)
  BY <1>4 DEF IteratorStep, Check, Send, Abandon, Release, GetAudio, GetOther, Steal, Lose
<1>5. CASE Operation
  BY <1>5 DEF Operation, SkipFrame, Reserve, Refuse, Close, Toggle, Moves, Place, Closing
<1>6. CASE Response
  BY <1>6 DEF Response, Accepted, DeliverAudio, Ended, BadResponse, Moves, Place
<1> QED
  BY <1>1, <1>2, <1>3, <1>4, <1>5, <1>6 DEF Next

\* Where the worker is after a step that takes it to a new generation.
LEMMA WorkerStarts ==
    ASSUME TypeInv, Next, at'.worker \in {"starting", "opening"}
    PROVE  at.worker \in {"starting", "opening"} \/ TakeFirst
<1> at \in Place
  BY TypeParts DEF TypeInv
<1>1. CASE ForceReset("worker") \/ ForceReset("app")
  BY <1>1 DEF ForceReset, SetReset, CancelCall, DrainOne, ZeroPending, PutReset, Moves, Place
<1>2. CASE AppStep /\ ~ForceReset("app")
  BY <1>2 DEF AppStep, PutFrame, PutEnd, Joined, JoinTimeout, PutStop, Rejoined, Moves, Place
<1>3. CASE WorkerStep /\ ~ForceReset("worker")
  BY <1>3 DEF WorkerStep, ProbeSucceeds, ProbeFails, TakeOther, Start, Open, SetCall,
              CallFailed, CallStopped, DropCall, BackOff, Moves, Place
<1>4. CASE \E g \in Generations : IteratorStep(g) \/ Lose(g)
  BY <1>4 DEF IteratorStep, Check, Send, Abandon, Release, GetAudio, GetOther, Steal, Lose
<1>5. CASE Operation
  BY <1>5 DEF Operation, SkipFrame, Reserve, Refuse, Close, Toggle, Moves, Place
<1>6. CASE Response
  BY <1>6 DEF Response, Accepted, DeliverAudio, Ended, BadResponse, Moves, Place
<1> QED
  BY <1>1, <1>2, <1>3, <1>4, <1>5, <1>6 DEF Next

LEMMA LeakSteps ==
    ASSUME Next
    PROVE  \/ Toggle
           \/ enabled' = enabled /\ leaked' = leaked
           \/ \E g \in Generations : Send(g)
<1>1. CASE AppStep \/ Response
  BY <1>1 DEF AppStep, PutFrame, PutEnd, Joined, JoinTimeout, PutStop, Rejoined, ForceReset, SetReset,
       CancelCall, DrainOne, ZeroPending, PutReset, Response, Accepted, DeliverAudio, Ended,
       BadResponse, appVars
<1>2. CASE WorkerStep
  BY <1>2 DEF WorkerStep,
       ProbeSucceeds, ProbeFails, TakeFirst, TakeOther, Start, Open, SetCall, CallFailed,
       CallStopped, DropCall, BackOff, ForceReset, SetReset, CancelCall, DrainOne, ZeroPending,
       PutReset, appVars
<1>3. CASE \E g \in Generations : IteratorStep(g) \/ Lose(g)
  BY <1>3 DEF IteratorStep, Check, Abandon, Release, GetAudio, GetOther, Steal, Lose, appVars
<1>4. CASE Operation
  BY <1>4 DEF Operation, SkipFrame, Reserve, Refuse, Close, appVars
<1> QED
  BY <1>1, <1>2, <1>3, <1>4 DEF Next

LEMMA NextLeak ==
    ASSUME TypeInv, LeakInv, Next
    PROVE  LeakInv'
<1> /\ at \in Place /\ RestType /\ CallsType /\ QueueOK /\ FrameOK /\ CallsOK
    /\ (at \in Place)' /\ RestType' /\ CallsType'
  <2>1. TypeOK'
    BY NextTypes
  <2>2. TypeOK' <=> at' \in Place /\ CallsType' /\ RestType'
    BY DEF TypeOK, Place, AppStates, WorkerStates, CallsType, RestType
  <2> QED
    BY <2>1, <2>2, TypeParts DEF TypeInv, FramesOK
<1>1. at'.app = "putting" => enabled'
  <2>1. CASE Toggle
    BY <2>1 DEF Toggle, Moves, Place
  <2>2. CASE ~Toggle
    <3>1. enabled' = enabled
      BY <2>2, LeakSteps DEF Send, appVars
    <3> QED
      BY <3>1, AppSteps DEF LeakInv, Draining, Closing
  <2> QED
    BY <2>1, <2>2
<1>2. ~enabled' /\ at'.app \notin Draining => NoAudioQueued'
  <2> SUFFICES ASSUME ~enabled', at'.app \notin Draining PROVE NoAudioQueued'
    OBVIOUS
  <2>1. ~Toggle
    BY DEF Toggle, Moves, Place, Draining
  <2>2. enabled' = enabled
    BY <2>1, LeakSteps DEF Send, appVars
  <2>3. \/ at.app \notin Draining
        \/ requests' = <<>>
    BY AppSteps DEF Draining, Closing
  <2>4. CASE requests' = <<>>
    BY <2>4 DEF NoAudioQueued
  <2>5. CASE at.app \notin Draining
    <3>1. NoAudioQueued /\ ~PutFrame
      BY <2>2, <2>5 DEF LeakInv, PutFrame
    <3>2. CASE requests' = requests
      BY <3>1, <3>2 DEF NoAudioQueued
    <3>3. CASE Takes
      <4>1. \A i \in DOMAIN requests' :
               i + 1 \in DOMAIN requests /\ requests'[i] = requests[i + 1]
        BY <3>3, TailFacts DEF Takes, RestType
      <4> QED
        BY <3>1, <4>1 DEF NoAudioQueued
    <3>4. CASE PutEnd \/ Puts(StopRequest) \/ Puts(ResetRequest)
      <4>1. PICK e \in {EndRequest, StopRequest, ResetRequest} : requests' = Append(requests, e)
        BY <3>4 DEF PutEnd, Puts
      <4>2. e \in Request /\ ~IsAudio(e)
        BY RequestFacts
      <4> QED
        BY <3>1, <4>1, <4>2, AppendFacts DEF NoAudioQueued, RestType
    <3> QED
      BY <3>1, <3>2, <3>3, <3>4, QueueSteps
  <2> QED
    BY <2>3, <2>4, <2>5
<1>3. CASE Toggle
  BY <1>1, <1>2, <1>3 DEF LeakInv, OneFrameLeaks, Toggle
<1>4. ASSUME NEW g \in Generations, Send(g) PROVE OneFrameLeaks' /\ (leaked' # 0 => AllSent')
  <2>1. Unsent(g) /\ leaked = 0
    BY <1>4 DEF Send, Unsent, LeakInv, AllSent
  <2>2. /\ HasHand(g) /\ calls[g].hand.n \in Sizes
        /\ enabled' = enabled /\ at' = at
    BY <1>4, RequestFacts DEF Send, HasHand, TypeInv, FramesOK, HandOK, Offered, Within, appVars
  <2>7. calls[g].hand.n \in Nat
    <3>1. calls[g].hand.n \in Sizes
      BY <2>2
    <3> QED
      BY <3>1, WorkerAssumption
  <2>3. leaked' = 0 \/ (~enabled /\ at.app = "idle" /\ leaked' = calls[g].hand.n)
    <3>1. leaked' = IF ~enabled /\ at.app = "idle" THEN leaked + calls[g].hand.n ELSE leaked
      BY <1>4 DEF Send
    <3>2. 0 + calls[g].hand.n = calls[g].hand.n
      BY <2>7
    <3>3. CASE ~enabled /\ at.app = "idle"
      <4>1. leaked' = leaked + calls[g].hand.n
        BY <3>1, <3>3
      <4> QED
        BY <2>1, <3>2, <3>3, <4>1
    <3>4. CASE ~(~enabled /\ at.app = "idle")
      BY <2>1, <3>1, <3>4
    <3> QED
      BY <3>3, <3>4
  <2>4. g = generation /\ at.worker \in CallStates
    BY <2>1 DEF Unsent, CallsOK
  <2>5. \A h \in Generations : ~Unsent(h)'
    <3> SUFFICES ASSUME NEW h \in Generations, Unsent(h)' PROVE FALSE
      OBVIOUS
    <3>1. h # g => calls'[h] = calls[h]
      BY <1>4 DEF Send, Iterator, CallsType
    <3>2. calls'[g].iterator = "releasing"
      BY <1>4 DEF Send, Iterator, CallsType, Call
    <3>3. h = g
      BY <2>4, <3>1 DEF Unsent, Live, CallsOK
    <3> QED
      BY <3>2, <3>3 DEF Unsent
  <2>6. at.worker \notin {"starting", "opening"}
    BY <2>4 DEF CallStates
  <2> QED
    <3>1. CASE leaked' = 0
      BY <3>1 DEF OneFrameLeaks
    <3>2. CASE ~enabled /\ at.app = "idle" /\ leaked' = calls[g].hand.n
      <4>1. leaked' <= calls[g].hand.n
        BY <2>7, <3>2
      <4>2. OneFrameLeaks'
        BY <2>2, <4>1 DEF OneFrameLeaks
      <4>3. ~enabled' /\ at'.app = "idle" /\ at'.worker \notin {"starting", "opening"}
        BY <2>2, <2>6, <3>2
      <4>4. AllSent'
        <5>1. at'.app \in {"idle"} \cup Closing
          BY <4>3
        <5> QED
          BY <2>5, <4>3, <5>1 DEF AllSent
      <4> QED
        BY <4>2, <4>4
    <3> QED
      BY <2>3, <3>1, <3>2
<1>5. CASE ~Toggle /\ enabled' = enabled /\ leaked' = leaked
  <2>1. OneFrameLeaks'
    BY <1>5 DEF LeakInv, OneFrameLeaks
  <2>2. ASSUME leaked' # 0 PROVE AllSent'
    <3>1. AllSent /\ NoAudioQueued
      BY <1>5, <2>2 DEF LeakInv, AllSent, Draining, Closing
    <3>2. at'.app \in {"idle"} \cup Closing
      BY <1>5, <3>1, AppSteps DEF AllSent, Closing, Draining
    <3>3. requests # <<>> => ~IsAudio(Head(requests))
      BY <3>1, TailFacts DEF NoAudioQueued, RestType
    <3>4. at'.worker \notin {"starting", "opening"}
      BY <3>1, <3>3, WorkerStarts DEF AllSent, TakeFirst, IsAudio
    <3>5. ASSUME NEW g \in Generations, Unsent(g)' PROVE FALSE
      <4>1. calls[g] \in Call /\ ~Unsent(g)
        BY <3>1, CallFacts DEF AllSent
      <4>2. CASE calls'[g] = calls[g]
        BY <3>5, <4>1, <4>2 DEF Unsent, Live
      <4>3. CASE calls'[g] = [calls[g] EXCEPT !.over = TRUE] \/ calls'[g] = NoCall
        BY <3>5, <4>1, <4>3 DEF Unsent, Live, NoCall, Call
      <4>4. CASE Open \/ GetAudio(g)
        BY <3>1, <3>3, <4>4 DEF Open, GetAudio, AllSent, IsAudio
      <4>5. CASE Check(g)
        BY <3>5, <4>1, <4>5, ReturnFacts DEF Check, Unsent, Live, Iterator, CallsType, Call
      <4>6. CASE Send(g) \/ Release(g) \/ GetOther(g)
        <5>1. calls'[g].iterator \in {"releasing", "getting", "done"}
          BY <4>6, ReturnFacts DEF Send, Release, GetOther, Iterator, CallsType, Call
        <5> QED
          BY <3>5, <5>1 DEF Unsent
      <4> QED
        BY <4>2, <4>3, <4>4, <4>5, <4>6, CallSteps
    <3> QED
      BY <1>5, <3>1, <3>2, <3>4, <3>5 DEF AllSent
  <2> QED
    BY <1>1, <1>2, <2>1, <2>2 DEF LeakInv
<1> QED
  BY <1>1, <1>2, <1>3, <1>4, <1>5, LeakSteps DEF LeakInv

\* Once the setter of enabled has returned, a disabled processor sends at most
\* one frame more, however the application, the worker, the iterators of its
\* calls, reconnects and close interleave.
THEOREM AtMostOneFrameLeaks == Spec => []OneFrameLeaks
<1>1. Init => LeakInv
  BY DEF Init, LeakInv, OneFrameLeaks, NoAudioQueued
<1>2. LeakInv /\ UNCHANGED vars => LeakInv'
  BY DEF LeakInv, OneFrameLeaks, NoAudioQueued, AllSent, Unsent, Live, vars, appVars
<1>3. TypeInv /\ LeakInv /\ [Next]_vars => LeakInv'
  BY <1>2, NextLeak
<1>4. LeakInv => OneFrameLeaks
  BY DEF LeakInv
<1> QED
  BY <1>1, <1>3, <1>4, TypesHold, PTL DEF Spec

-----------------------------------------------------------------------------
(* The order of what is sent. *)

\* Frames go through the threads in the order in which they were accepted: the
\* application's cursor, the frame it puts, the queue from its tail to its head
\* and what a call has in hand are further and further behind.
Later(p) ==
    /\ p <= position
    /\ Putting => p <= frame.start
    /\ \A i \in DOMAIN requests : IsAudio(requests[i]) => p <= requests[i].start
FrameOrder == Putting => End(frame) <= position
QueueOrder ==
    \A i \in DOMAIN requests : IsAudio(requests[i]) =>
        /\ End(requests[i]) <= position
        /\ Putting => End(requests[i]) <= frame.start
        /\ \A j \in DOMAIN requests : i < j /\ IsAudio(requests[j]) =>
               End(requests[i]) <= requests[j].start
FirstOrder ==
    /\ at.worker \in {"starting", "opening"} => sent <= first.start /\ Later(End(first))
    /\ at.worker = "opening" => sent = first.start
CallOrder(g) ==
    Live(g) =>
        /\ calls[g].iterator \in {"checking", "yielding"} =>
              sent = calls[g].expected /\ Later(End(calls[g].hand))
        /\ calls[g].iterator = "releasing" => sent = End(calls[g].hand)
        /\ calls[g].iterator = "getting" => sent = calls[g].expected
OrderInv ==
    /\ FrameOrder /\ QueueOrder /\ Later(sent) /\ FirstOrder
    /\ \A g \in Generations : CallOrder(g)

\* What a step does to the application's cursor and frame.
LEMMA CursorSteps ==
    ASSUME TypeInv, Next
    PROVE  \/ /\ position' = position /\ frame' = frame
              /\ at'.app = "putting" => at.app = "putting"
           \/ PutFrame
           \/ \E n \in Sizes : Reserve(n)
           \/ /\ position' \in Nat /\ position <= position'
              /\ at'.app # "putting"
<1> at \in Place /\ RestType
  BY TypeParts DEF TypeInv
<1>1. ASSUME NEW actor \in Actors, ForceReset(actor)
      PROVE  /\ position' = position /\ frame' = frame
             /\ at'.app = "putting" => at.app = "putting"
  BY <1>1 DEF ForceReset, SetReset, CancelCall, DrainOne, ZeroPending, PutReset, Moves, Place,
              Actors, appVars
<1>2. CASE AppStep
  BY <1>1, <1>2 DEF AppStep, PutEnd, Joined, JoinTimeout, PutStop, Rejoined, Actors, Moves, Place,
                    appVars
<1>3. CASE WorkerStep /\ ~ForceReset("worker")
  BY <1>3 DEF WorkerStep, ProbeSucceeds, ProbeFails, TakeFirst, TakeOther, Start, Open, SetCall,
              CallFailed, CallStopped, DropCall, BackOff, Moves, Place, appVars
<1>4. CASE \E g \in Generations : IteratorStep(g) \/ Lose(g)
  BY <1>4 DEF IteratorStep, Check, Send, Abandon, Release, GetAudio, GetOther, Steal, Lose, appVars
<1>5. ASSUME NEW n \in Sizes, SkipFrame(n) \/ Refuse(n)
      PROVE  position' \in Nat /\ position <= position' /\ at'.app # "putting"
  <2>1. position \in Nat /\ n \in Nat
    BY WorkerAssumption DEF RestType
  <2>2. position' = position + n /\ at'.app # "putting"
    BY <1>5 DEF SkipFrame, Refuse, Moves, Place
  <2> QED
    BY <2>1, <2>2
<1>6. CASE Toggle \/ Close
  BY <1>6 DEF Toggle, Close, Moves, Place, appVars
<1>7. CASE Response
  BY <1>7 DEF Response, Accepted, DeliverAudio, Ended, BadResponse, Moves, Place, appVars
<1> QED
  BY <1>1, <1>2, <1>3, <1>4, <1>5, <1>6, <1>7 DEF Next, WorkerStep, Operation, Actors

LEMMA ReserveFacts ==
    ASSUME TypeInv, NEW n \in Sizes, Reserve(n)
    PROVE  /\ position \in Nat /\ position' \in Nat /\ position <= position'
           /\ frame'.start = position /\ End(frame') = position'
           /\ at'.app = "putting" /\ at.app = "idle" /\ requests' = requests
<1> at \in Place /\ RestType
  BY TypeParts DEF TypeInv
<1>1. position \in 0..LastSample /\ n \in Nat /\ position + n <= LastSample + 1
  BY WorkerAssumption DEF Reserve, RestType
<1>2. frame' = Audio(position, n) /\ position' = position + n
  BY DEF Reserve
<1>3. frame'.start = position /\ End(frame') = position + n
  BY <1>1, <1>2, FrameFacts
<1>4. at'.app = "putting" /\ at.app = "idle" /\ requests' = requests
  BY DEF Reserve, Moves, Place
<1> QED
  BY <1>1, <1>2, <1>3, <1>4

LEMMA LaterStays ==
    ASSUME TypeInv, Next, NEW p \in Nat, Later(p)
    PROVE  Later(p)'
<1> /\ at \in Place /\ RestType /\ FrameOK /\ requests \in Seq(Request) /\ position \in Nat
  BY TypeParts, WorkerAssumption DEF TypeInv, FramesOK, RestType
<1>1. /\ p <= position'
      /\ at'.app = "putting" => p <= frame'.start
  <2>1. CASE \E n \in Sizes : Reserve(n)
    BY <2>1, ReserveFacts DEF Later
  <2>2. CASE PutFrame
    BY <2>2 DEF PutFrame, Moves, Place, Later
  <2> QED
    BY <2>1, <2>2, CursorSteps DEF Later, Putting
<1>2. \A i \in DOMAIN requests' : IsAudio(requests'[i]) => p <= requests'[i].start
  <2>1. ASSUME NEW e \in Request, Puts(e), IsAudio(e) => p <= e.start
        PROVE  \A i \in DOMAIN requests' : IsAudio(requests'[i]) => p <= requests'[i].start
    BY <2>1, AppendFacts DEF Later, Puts
  <2>2. CASE requests' = requests
    BY <2>2 DEF Later
  <2>3. CASE Takes
    BY <2>3, TailFacts DEF Later, Takes
  <2>4. CASE PutFrame
    <3>1. Puts(frame) /\ frame \in Request /\ p <= frame.start
      BY <2>4 DEF PutFrame, Puts, FrameOK, Offered, Within, Later, Putting
    <3> QED
      BY <2>1, <3>1
  <2>5. CASE PutEnd \/ Puts(StopRequest) \/ Puts(ResetRequest)
    BY <2>1, <2>5, RequestFacts DEF PutEnd, Puts
  <2> QED
    BY <2>2, <2>3, <2>4, <2>5, QueueSteps
<1> QED
  BY <1>1, <1>2 DEF Later, Putting

LEMMA EarlierIsLater ==
    ASSUME TypeInv, NEW p \in Nat, NEW q \in Nat, q <= p, Later(p)
    PROVE  Later(q)
<1>1. position \in Nat /\ requests \in Seq(Request)
  BY WorkerAssumption DEF TypeInv, TypeOK
<1>2. Putting => frame.start \in Nat
  BY RequestFacts DEF TypeInv, FramesOK, FrameOK, Putting, Offered, Within
<1>3. \A i \in DOMAIN requests : IsAudio(requests[i]) => requests[i].start \in Nat
  BY RequestFacts DEF TypeInv, FramesOK, QueueOK, Offered, Within
<1> QED
  BY <1>1, <1>2, <1>3 DEF Later

\* What comes after the head of the queue.
LEMMA HeadLater ==
    ASSUME TypeInv, OrderInv, Takes, IsAudio(Head(requests)), NEW p, p = End(Head(requests)),
           at'.app = at.app, position' = position, frame' = frame
    PROVE  /\ Later(p)' /\ p \in Nat
           /\ sent <= Head(requests).start /\ Offered(Head(requests))
<1> requests \in Seq(Request) /\ QueueOK
  BY TypeParts DEF TypeInv, FramesOK, RestType
<1>1. /\ 1 \in DOMAIN requests /\ Head(requests) = requests[1] /\ Head(requests) \in Request
      /\ requests' = Tail(requests)
      /\ \A i \in DOMAIN Tail(requests) :
            i + 1 \in DOMAIN requests /\ Tail(requests)[i] = requests[i + 1] /\ 1 < i + 1
  BY TailFacts DEF Takes
<1>2. /\ p <= position /\ (Putting => p <= frame.start)
      /\ \A j \in DOMAIN requests : 1 < j /\ IsAudio(requests[j]) => p <= requests[j].start
  BY <1>1 DEF OrderInv, QueueOrder
<1>3. \A i \in DOMAIN requests' : IsAudio(requests'[i]) => p <= requests'[i].start
  BY <1>1, <1>2
<1>4. Later(p)'
  BY <1>2, <1>3 DEF Later, Putting
<1>5. sent <= Head(requests).start
  BY <1>1 DEF OrderInv, Later
<1>6. p \in Nat
  BY <1>1, RequestFacts
<1>7. Offered(Head(requests))
  BY <1>1 DEF QueueOK
<1> QED
  BY <1>4, <1>5, <1>6, <1>7

LEMMA NextFrameOrder ==
    ASSUME TypeInv, OrderInv, Next
    PROVE  FrameOrder'
<1> at \in Place
  BY TypeParts DEF TypeInv
<1>1. CASE \E n \in Sizes : Reserve(n)
  BY <1>1, ReserveFacts DEF FrameOrder, Putting
<1>2. CASE PutFrame
  BY <1>2 DEF PutFrame, Moves, Place, FrameOrder, Putting
<1> QED
  BY <1>1, <1>2, CursorSteps DEF OrderInv, FrameOrder, Putting

LEMMA NextQueueOrder ==
    ASSUME TypeInv, OrderInv, Next
    PROVE  QueueOrder'
<1> /\ at \in Place /\ RestType /\ FrameOK /\ QueueOK /\ QueueOrder /\ FrameOrder
    /\ requests \in Seq(Request) /\ position \in Nat
  BY TypeParts, WorkerAssumption DEF TypeInv, FramesOK, RestType, OrderInv
<1> DEFINE Ordered(seq) ==
               \A i \in DOMAIN seq : IsAudio(seq[i]) =>
                   \A j \in DOMAIN seq : i < j /\ IsAudio(seq[j]) => End(seq[i]) <= seq[j].start
           Behind(seq) ==
               \A i \in DOMAIN seq : IsAudio(seq[i]) =>
                   End(seq[i]) <= position' /\ (Putting' => End(seq[i]) <= frame'.start)
<1>0. \A i \in DOMAIN requests : IsAudio(requests[i]) => End(requests[i]) \in Nat
  BY RequestFacts DEF QueueOK, Offered, Within
<1>1. Ordered(requests)
  BY DEF QueueOrder
<1>2. Ordered(requests') /\ Behind(requests') => QueueOrder'
  BY DEF QueueOrder
<1>3. Behind(requests)
  <2>1. CASE \E n \in Sizes : Reserve(n)
    BY <1>0, <2>1, ReserveFacts DEF QueueOrder
  <2>2. CASE PutFrame
    BY <2>2 DEF PutFrame, Moves, Place, Putting, QueueOrder
  <2>3. CASE position' \in Nat /\ position <= position' /\ at'.app # "putting"
    BY <1>0, <2>3 DEF QueueOrder, Putting
  <2> QED
    BY <2>1, <2>2, <2>3, CursorSteps DEF QueueOrder, Putting
<1> HIDE DEF Ordered, Behind
<1>4. CASE requests' = requests
  BY <1>1, <1>2, <1>3, <1>4
<1>5. CASE Takes
  <2>1. Ordered(Tail(requests)) /\ Behind(Tail(requests))
    <3>1. /\ \A i \in DOMAIN Tail(requests) : /\ i + 1 \in DOMAIN requests
                                              /\ Tail(requests)[i] = requests[i + 1]
                                              /\ i \in Nat
      BY <1>5, TailFacts DEF Takes
    <3> QED
      BY <1>1, <1>3, <3>1 DEF Ordered, Behind
  <2> QED
    BY <1>2, <1>5, <2>1 DEF Takes
<1>6. ASSUME NEW e \in Request, Puts(e), ~IsAudio(e)
      PROVE  QueueOrder'
  <2>1. \A i \in DOMAIN requests' : IsAudio(requests'[i]) =>
            i \in DOMAIN requests /\ requests'[i] = requests[i]
    BY <1>6, AppendFacts DEF Puts
  <2>2. Ordered(requests') /\ Behind(requests')
    BY <1>1, <1>3, <2>1 DEF Ordered, Behind
  <2> QED
    BY <1>2, <2>2
<1>7. CASE PutFrame
  <2>1. /\ Puts(frame) /\ frame \in Request /\ position' = position /\ ~Putting'
        /\ Putting /\ IsAudio(frame)
    BY <1>7 DEF PutFrame, Puts, FrameOK, Offered, Within, Putting, Moves, Place
  <2>2. /\ Len(requests) \in Nat /\ DOMAIN requests = 1..Len(requests)
        /\ \A i \in DOMAIN requests' : \/ i \in DOMAIN requests /\ requests'[i] = requests[i]
                                       \/ i = Len(requests) + 1 /\ requests'[i] = frame
    BY <2>1, AppendFacts DEF Puts
  <2>3. Behind(requests')
    BY <1>3, <2>1, <2>2 DEF Behind, FrameOrder
  <2>4. Ordered(requests')
    <3> SUFFICES ASSUME NEW i \in DOMAIN requests', IsAudio(requests'[i]),
                        NEW j \in DOMAIN requests', i < j, IsAudio(requests'[j])
                 PROVE  End(requests'[i]) <= requests'[j].start
      BY DEF Ordered
    <3>1. i \in DOMAIN requests /\ requests'[i] = requests[i]
      BY <2>1, <2>2, AppendFacts DEF Puts
    <3>2. CASE j \in DOMAIN requests /\ requests'[j] = requests[j]
      BY <1>1, <3>1, <3>2 DEF Ordered
    <3>3. CASE requests'[j] = frame
      BY <2>1, <3>1, <3>3 DEF QueueOrder
    <3> QED
      BY <2>2, <3>2, <3>3
  <2> QED
    BY <1>2, <2>3, <2>4
<1>8. CASE PutEnd \/ Puts(StopRequest) \/ Puts(ResetRequest)
  BY <1>6, <1>8, RequestFacts DEF PutEnd, Puts
<1> QED
  BY <1>4, <1>5, <1>7, <1>8, QueueSteps

\* The cursor of what was sent moves only at a start and with a send.
LEMMA SentSteps ==
    ASSUME Next
    PROVE  \/ sent' = sent /\ (first' = first \/ Open \/ TakeFirst)
           \/ Start
           \/ \E g \in Generations : Send(g)
<1>1. CASE AppStep \/ Response \/ Operation
  BY <1>1 DEF AppStep, PutFrame, PutEnd, Joined, JoinTimeout, PutStop, Rejoined, ForceReset, SetReset,
       CancelCall, DrainOne, ZeroPending, PutReset, Response, Accepted, DeliverAudio, Ended,
       BadResponse, Operation, SkipFrame, Reserve, Refuse, Close, Toggle
<1>2. CASE WorkerStep
  BY <1>2 DEF WorkerStep,
       ProbeSucceeds, ProbeFails, TakeFirst, TakeOther, Open, SetCall, CallFailed,
       CallStopped, DropCall, BackOff, ForceReset, SetReset, CancelCall, DrainOne, ZeroPending,
       PutReset
<1>3. CASE \E g \in Generations : IteratorStep(g) \/ Lose(g)
  BY <1>3 DEF IteratorStep, Check, Abandon, Release, GetAudio, GetOther, Steal, Lose
<1> QED
  BY <1>1, <1>2, <1>3 DEF Next

\* What a send does: it continues what was sent, and what comes after it is later.
LEMMA SendFacts ==
    ASSUME TypeInv, OrderInv, NEW g \in Generations, Send(g), NEW p, p = End(calls[g].hand)
    PROVE  /\ Offered(calls[g].hand) /\ Live(g) /\ at.worker \in CallStates /\ g = generation
           /\ sent = calls[g].hand.start /\ sent' = p /\ p \in Nat /\ sent < p /\ Later(p)
           /\ calls'[g].iterator = "releasing" /\ calls'[g].hand = calls[g].hand
           /\ at' = at
<1> CallsType /\ HandOK(g) /\ CallsOK /\ CallOrder(g)
  BY TypeParts DEF TypeInv, FramesOK, OrderInv
<1>1. calls[g].iterator = "yielding" /\ Live(g) /\ at' = at
  BY DEF Send
<1>2. /\ Offered(calls[g].hand) /\ calls[g].hand.start = calls[g].expected
      /\ sent = calls[g].expected /\ Later(End(calls[g].hand))
  BY <1>1 DEF HandOK, HasHand, CallOrder
<1>3. p \in Nat /\ calls[g].hand.start < p
  BY <1>2, RequestFacts DEF Offered, Within
<1>4. sent' = p
  BY DEF Send, End
<1>5. calls'[g].iterator = "releasing" /\ calls'[g].hand = calls[g].hand
  BY DEF Send, Iterator, CallsType, Call
<1>6. g = generation /\ at.worker \in CallStates
  BY <1>1 DEF CallsOK
<1> QED
  BY <1>1, <1>2, <1>3, <1>4, <1>5, <1>6

LEMMA StartFacts ==
    ASSUME TypeInv, OrderInv, Start, NEW p, p = End(first)
    PROVE  /\ Offered(first) /\ p \in Nat /\ first.start < p /\ Later(p) /\ Later(first.start)
           /\ sent <= first.start /\ sent' = first.start /\ first.start \in 0..LastSample
           /\ first' = first /\ at'.worker = "opening" /\ at.worker = "starting"
<1> at \in Place /\ FirstOK /\ FirstOrder
  BY TypeParts DEF TypeInv, FramesOK, OrderInv
<1>1. at.worker = "starting" /\ at'.worker = "opening" /\ first' = first /\ sent' = first.start
  BY DEF Start, Moves, Place
<1>2. Offered(first) /\ sent <= first.start /\ Later(p)
  BY <1>1 DEF FirstOK, FirstOrder
<1>3. p \in Nat /\ first.start < p /\ first.start \in 0..LastSample /\ first.start \in Nat
  BY <1>2, RequestFacts DEF Offered, Within
<1>4. Later(first.start)
  BY <1>2, <1>3, EarlierIsLater
<1> QED
  BY <1>1, <1>2, <1>3, <1>4

LEMMA NextLaterSent ==
    ASSUME TypeInv, OrderInv, Next
    PROVE  Later(sent)'
<1> sent \in Nat
  BY WorkerAssumption DEF TypeInv, TypeOK
<1> SUFFICES ASSUME NEW p, p = sent' PROVE Later(p)'
  BY DEF Later
<1>1. CASE p = sent
  BY <1>1, LaterStays DEF OrderInv
<1>2. CASE Start
  BY <1>2, StartFacts, LaterStays
<1>3. ASSUME NEW g \in Generations, Send(g) PROVE Later(p)'
  BY <1>3, SendFacts, LaterStays
<1> QED
  BY <1>1, <1>2, <1>3, SentSteps

LEMMA OpensAfterStart ==
    ASSUME TypeInv, Next, at'.worker = "opening"
    PROVE  at.worker = "opening" \/ Start
<1> at \in Place
  BY TypeParts DEF TypeInv
<1>1. CASE ForceReset("worker") \/ ForceReset("app")
  BY <1>1 DEF ForceReset, SetReset, CancelCall, DrainOne, ZeroPending, PutReset, Moves, Place
<1>2. CASE AppStep /\ ~ForceReset("app")
  BY <1>2 DEF AppStep, PutFrame, PutEnd, Joined, JoinTimeout, PutStop, Rejoined, Moves, Place
<1>3. CASE WorkerStep /\ ~ForceReset("worker")
  BY <1>3 DEF WorkerStep, ProbeSucceeds, ProbeFails, TakeFirst, TakeOther, Open, SetCall,
              CallFailed, CallStopped, DropCall, BackOff, Moves, Place
<1>4. CASE \E g \in Generations : IteratorStep(g) \/ Lose(g)
  BY <1>4 DEF IteratorStep, Check, Send, Abandon, Release, GetAudio, GetOther, Steal, Lose
<1>5. CASE Operation
  BY <1>5 DEF Operation, SkipFrame, Reserve, Refuse, Close, Toggle, Moves, Place
<1>6. CASE Response
  BY <1>6 DEF Response, Accepted, DeliverAudio, Ended, BadResponse, Moves, Place
<1> QED
  BY <1>1, <1>2, <1>3, <1>4, <1>5, <1>6 DEF Next

LEMMA NextFirstOrder ==
    ASSUME TypeInv, OrderInv, Next
    PROVE  FirstOrder'
<1> /\ at \in Place /\ FirstOK /\ FirstOrder /\ RestType
  BY TypeParts DEF TypeInv, FramesOK, OrderInv
<1> SUFFICES ASSUME at'.worker \in {"starting", "opening"}, NEW p, p = End(first')
             PROVE  sent' <= first'.start /\ Later(p)' /\ (at'.worker = "opening" => sent' = first'.start)
  BY DEF FirstOrder, Later
<1>1. CASE TakeFirst
  <2>1. /\ Takes /\ IsAudio(Head(requests)) /\ first' = Head(requests)
        /\ at'.app = at.app /\ position' = position /\ frame' = frame /\ sent' = sent
        /\ at'.worker = "starting"
    BY <1>1 DEF TakeFirst, Takes, IsAudio, Moves, Place, appVars
  <2>2. p = End(Head(requests))
    BY <2>1
  <2> QED
    BY <2>1, <2>2, HeadLater
<1>2. CASE Start
  <2>1. p = End(first)
    BY <1>2 DEF Start
  <2>2. /\ sent' = first.start /\ first' = first /\ p \in Nat /\ Later(p) /\ first.start \in Nat
    BY <1>2, <2>1, StartFacts
  <2> QED
    BY <2>2, LaterStays
<1>3. CASE ~TakeFirst /\ ~Start
  <2>1. at.worker \in {"starting", "opening"} /\ (at'.worker = "opening" => at.worker = "opening")
    BY <1>3, WorkerStarts, OpensAfterStart
  <2>2. ~Open
    BY DEF Open, Moves, Place
  <2>3. \A g \in Generations : ~Send(g)
    BY <2>1, SendFacts DEF CallStates
  <2>4. sent' = sent /\ first' = first
    BY <1>3, <2>2, <2>3, SentSteps
  <2>5. p = End(first)
    BY <2>4
  <2>6. Later(p) /\ sent <= first.start
    BY <2>1, <2>5 DEF FirstOrder
  <2>7. p \in Nat
    BY <2>1, <2>5, RequestFacts DEF FirstOK, Offered, Within
  <2> QED
    BY <2>1, <2>4, <2>6, <2>7, LaterStays DEF FirstOrder
<1> QED
  BY <1>1, <1>2, <1>3

LEMMA NextCallOrder ==
    ASSUME TypeInv, OrderInv, Next, NEW g \in Generations
    PROVE  CallOrder(g)'
<1> /\ at \in Place /\ CallsType /\ CallOrder(g) /\ CallsOK /\ FirstOrder /\ FirstOK /\ HandOK(g)
    /\ calls[g] \in Call /\ RestType
  BY TypeParts, CallFacts DEF TypeInv, FramesOK, OrderInv
<1> SUFFICES ASSUME NEW call, call = calls'[g], ~call.over, NEW p, p = End(call.hand)
             PROVE  /\ call.iterator \in {"checking", "yielding"} => sent' = call.expected /\ Later(p)'
                    /\ call.iterator = "releasing" => sent' = p
                    /\ call.iterator = "getting" => sent' = call.expected
  BY DEF CallOrder, Live, Later
<1>1. HasHand(g) => End(calls[g].hand) \in Nat
  BY RequestFacts DEF HandOK, Offered, Within
<1>2. ASSUME Live(g), ~Send(g)
      PROVE  sent' = sent
  <2>1. ~Start
    BY <1>2 DEF Start, CallsOK, CallStates
  <2>2. ASSUME NEW h \in Generations, Send(h) PROVE FALSE
    <3>1. h = g
      BY <1>2, <2>2 DEF Send, CallsOK
    <3> QED
      BY <1>2, <2>2, <3>1
  <2> QED
    BY <2>1, <2>2, SentSteps
<1>3. CASE call = calls[g]
  <2>1. Live(g) /\ ~Send(g)
    BY <1>3 DEF Live, Send, Iterator, CallsType, Call
  <2>2. sent' = sent
    BY <1>2, <2>1
  <2>3. CASE call.iterator \in {"checking", "yielding"}
    <3>1. sent = call.expected /\ Later(p) /\ p \in Nat
      BY <1>1, <1>3, <2>1, <2>3 DEF CallOrder, HasHand
    <3> QED
      BY <2>2, <2>3, <3>1, LaterStays
  <2>4. CASE call.iterator \notin {"checking", "yielding"}
    BY <1>3, <2>1, <2>2, <2>4 DEF CallOrder
  <2> QED
    BY <2>3, <2>4
<1>4. CASE call = [calls[g] EXCEPT !.over = TRUE] \/ call = NoCall
  BY <1>4 DEF Call, NoCall
<1>5. CASE Open /\ call = Opened(first)
  <2>1. /\ at.worker = "opening" /\ sent' = sent
        /\ call.hand = first /\ call.expected = first.start /\ call.iterator = "checking"
    BY <1>5 DEF Open, Opened
  <2>2. sent = first.start /\ Later(p)
    BY <2>1 DEF FirstOrder
  <2>3. p \in Nat
    BY <2>1, RequestFacts DEF FirstOK, Offered, Within
  <2> QED
    BY <2>1, <2>2, <2>3, LaterStays
<1>6. CASE Check(g)
  <2>1. CASE call.iterator = "done"
    BY <2>1
  <2>2. CASE Iterator(g, "yielding")
    <3>1. /\ call.iterator = "yielding" /\ call.hand = calls[g].hand
          /\ call.expected = calls[g].expected /\ call.over = calls[g].over
          /\ calls[g].iterator = "checking" /\ sent' = sent
      BY <1>6, <2>2 DEF Check, Iterator, CallsType, Call
    <3>2. sent = call.expected /\ Later(p) /\ p \in Nat
      BY <1>1, <3>1 DEF CallOrder, HasHand, Live
    <3> QED
      BY <3>1, <3>2, LaterStays
  <2> QED
    BY <1>6, <2>1, <2>2, ReturnFacts DEF Check, CallsType
<1>7. CASE Send(g)
  <2>1. call.hand = calls[g].hand
    BY <1>7 DEF Send, Iterator, CallsType, Call
  <2> QED
    BY <1>7, <2>1, SendFacts
<1>8. CASE Release(g)
  <2>1. /\ call.iterator = "getting" /\ call.expected = calls[g].expected + calls[g].hand.n
        /\ call.over = calls[g].over /\ sent' = sent /\ calls[g].iterator = "releasing"
    BY <1>8 DEF Release, CallsType, Call
  <2>2. sent = End(calls[g].hand) /\ calls[g].hand.start = calls[g].expected
    BY <2>1 DEF CallOrder, Live, HandOK
  <2> QED
    BY <2>1, <2>2 DEF End
<1>9. CASE GetAudio(g)
  <2>1. /\ call.iterator = "checking" /\ call.expected = calls[g].expected
        /\ call.hand = Head(requests) /\ call.over = calls[g].over /\ calls[g].iterator = "getting"
    BY <1>9 DEF GetAudio, CallsType, Call
  <2>2. /\ Takes /\ IsAudio(Head(requests)) /\ sent' = sent
        /\ at'.app = at.app /\ position' = position /\ frame' = frame
    BY <1>9 DEF GetAudio, Takes, IsAudio, appVars
  <2>3. sent = call.expected
    BY <2>1 DEF CallOrder, Live
  <2>4. Later(p)'
    BY <2>1, <2>2, HeadLater
  <2> QED
    BY <2>1, <2>2, <2>3, <2>4
<1>10. CASE GetOther(g)
  <2>1. call.iterator = "done"
    BY <1>10, ReturnFacts DEF GetOther, CallsType, Call
  <2> QED
    BY <2>1
<1> QED
  BY <1>3, <1>4, <1>5, <1>6, <1>7, <1>8, <1>9, <1>10, CallSteps

LEMMA OrderHolds == Spec => [](TypeInv /\ OrderInv)
<1>1. Init => TypeInv /\ OrderInv
  <2>1. Init => OrderInv
    BY DEF Init, OrderInv, FrameOrder, QueueOrder, Later, FirstOrder, CallOrder, Putting, Live, NoCall
  <2> QED
    BY <2>1, InitTypes
<1>2. TypeInv /\ OrderInv /\ Next => OrderInv'
  BY NextFrameOrder, NextQueueOrder, NextLaterSent, NextFirstOrder, NextCallOrder DEF OrderInv
<1>3. OrderInv /\ UNCHANGED vars => OrderInv'
  BY DEF OrderInv, FrameOrder, QueueOrder, Later, FirstOrder, CallOrder, Putting, Live, vars, appVars
<1>4. TypeInv /\ OrderInv /\ [Next]_vars => (TypeInv /\ OrderInv)'
  BY <1>2, <1>3, NextTypeInv, VarsStay
<1> QED
  BY <1>1, <1>4, PTL DEF Spec

-----------------------------------------------------------------------------
(* The worker implements its interface. *)

\* What the refinement mapping shows of a state.
Announced == IF at.worker = "starting" THEN generation - 1 ELSE generation
Phase == IF at.worker = "closed" THEN "closed" ELSE IF Streaming THEN "streaming" ELSE "idle"
Heard == IF Streaming THEN out ELSE sent
InterfaceStep == [Interface!InterfaceNext]_(Interface!interfaceVars)

LEMMA InterfaceStays ==
    ASSUME Announced' = Announced, Phase' = Phase, Heard' = Heard, sent' = sent, offered' = offered
    PROVE  InterfaceStep
BY DEF InterfaceStep, Interface!interfaceVars, Announced, Phase, Heard

\* Steps of other threads.
LEMMA OthersStay ==
    ASSUME at'.worker = at.worker,
           UNCHANGED <<generation, out, sent, offered>>
    PROVE  InterfaceStep
<1>1. Streaming' = Streaming
  BY DEF Streaming
<1> QED
  BY <1>1, InterfaceStays DEF Announced, Phase, Heard

\* Steps of the worker within a phase.
LEMMA WorkerStays ==
    ASSUME \/ Streaming /\ Streaming' /\ UNCHANGED <<generation, out>>
           \/ ~Streaming /\ ~Streaming' /\ (at'.worker = "closed" <=> at.worker = "closed")
              /\ Announced' = Announced,
           UNCHANGED <<sent, offered>>
    PROVE  InterfaceStep
<1>1. CASE Streaming /\ Streaming' /\ UNCHANGED <<generation, out>>
  <2>1. /\ at.worker # "starting" /\ at'.worker # "starting"
        /\ at.worker # "closed" /\ at'.worker # "closed"
    BY <1>1 DEF Streaming
  <2>2. Announced' = Announced /\ Phase' = Phase /\ Heard' = Heard
    BY <1>1, <2>1 DEF Announced, Phase, Heard
  <2> QED
    BY <2>2, InterfaceStays
<1>2. CASE ~Streaming /\ ~Streaming' /\ (at'.worker = "closed" <=> at.worker = "closed")
           /\ Announced' = Announced
  <2>1. Phase' = Phase /\ Heard' = Heard
    BY <1>2 DEF Phase, Heard
  <2> QED
    BY <1>2, <2>1, InterfaceStays
<1> QED
  BY <1>1, <1>2

LEMMA InterfaceOperation ==
    ASSUME TypeInv, Operation
    PROVE  InterfaceStep
<1> at \in Place /\ RestType
  BY TypeParts DEF TypeInv
<1>1. ASSUME NEW n \in Sizes, Reserve(n) PROVE InterfaceStep
  <2>1. PICK start \in 0..LastSample : start = position
    BY <1>1, WorkerAssumption DEF Reserve, RestType
  <2>2. n \in 1..(LastSample + 1 - start)
    BY <1>1, <2>1, WorkerAssumption DEF Reserve
  <2>3. at'.worker = at.worker /\ UNCHANGED <<generation, out, sent>>
    BY <1>1 DEF Reserve, Moves, Place
  <2>4. Announced' = Announced /\ Phase' = Phase /\ Heard' = Heard
    BY <2>3 DEF Announced, Phase, Heard, Streaming
  <2>5. Interface!Offer(start, n)
    <3>1. offered' = offered \cup start..(start + n - 1)
      BY <1>1, <2>1 DEF Reserve
    <3> QED
      BY <2>3, <2>4, <3>1 DEF Interface!Offer, Announced, Phase, Heard
  <2> QED
    BY <2>1, <2>2, <2>5 DEF InterfaceStep, Interface!InterfaceNext
<1>2. ASSUME NEW n \in Sizes, SkipFrame(n) \/ Refuse(n) PROVE InterfaceStep
  BY <1>2, OthersStay DEF SkipFrame, Refuse, Moves, Place
<1>3. CASE Toggle \/ Close
  BY <1>3, OthersStay DEF Toggle, Close, Moves, Place, appVars
<1> QED
  BY <1>1, <1>2, <1>3 DEF Operation

LEMMA InterfaceReset ==
    ASSUME TypeInv, NEW actor \in Actors, ForceReset(actor)
    PROVE  InterfaceStep
<1> at \in Place
  BY TypeParts DEF TypeInv
<1>1. UNCHANGED <<generation, out, sent, offered>>
  BY DEF ForceReset, SetReset, CancelCall, DrainOne, ZeroPending, PutReset, appVars
<1>2. CASE actor = "app"
  <2>1. at'.worker = at.worker
    BY <1>2 DEF ForceReset, SetReset, CancelCall, DrainOne, ZeroPending, PutReset, Moves, Place
  <2> QED
    BY <1>1, <2>1, OthersStay
<1>3. CASE actor = "worker"
  <2>1. Streaming /\ Streaming'
    BY <1>3 DEF ForceReset, SetReset, CancelCall, DrainOne, ZeroPending, PutReset, Moves, Place,
                Streaming
  <2> QED
    BY <1>1, <2>1, WorkerStays
<1> QED
  BY <1>2, <1>3 DEF Actors

LEMMA InterfaceApp ==
    ASSUME TypeInv, AppStep
    PROVE  InterfaceStep
<1> at \in Place
  BY TypeParts DEF TypeInv
<1>1. CASE ~ForceReset("app")
  BY <1>1, OthersStay DEF AppStep, PutFrame, PutEnd, Joined, JoinTimeout, PutStop, Rejoined, Moves,
                          Place, appVars
<1> QED
  BY <1>1, InterfaceReset DEF Actors

LEMMA InterfaceStart ==
    ASSUME TypeInv, OrderInv, Start
    PROVE  InterfaceStep
<1>1. PICK start \in 0..LastSample : start = first.start
  BY StartFacts
<1>2. /\ Offered(first) /\ sent <= start /\ sent' = start
      /\ at'.worker = "opening" /\ at.worker = "starting"
  BY <1>1, StartFacts
<1>3. start \in offered
  BY <1>1, <1>2, RequestFacts DEF Offered, Within
<1>4. generation \in Nat
  BY WorkerAssumption DEF TypeInv, TypeOK, Generations
<1>5. UNCHANGED <<offered, generation>> /\ out' = start
  BY <1>1 DEF Start, appVars
<1>6. /\ Phase = "idle" /\ Phase' = "streaming" /\ Announced' = Announced + 1 /\ Heard' = start
  BY <1>2, <1>4, <1>5 DEF Phase, Announced, Heard, Streaming
<1>7. Interface!Begin(start)
  BY <1>2, <1>3, <1>5, <1>6 DEF Interface!Begin, Announced, Phase, Heard
<1> QED
  BY <1>7 DEF InterfaceStep, Interface!InterfaceNext

\* The end of a generation, and the end of the worker.
LEMMA InterfaceEnds ==
    ASSUME TypeInv, ProbeFails \/ TakeOther \/ DropCall
    PROVE  InterfaceStep
<1> at \in Place
  BY TypeParts DEF TypeInv
<1>1. UNCHANGED <<sent, offered, generation>>
  BY DEF ProbeFails, TakeOther, DropCall, appVars
<1>2. /\ at.worker \in {"probing", "taking", "finally"}
      /\ at'.worker \in {"backoff", "taking", "closed"}
  BY DEF ProbeFails, TakeOther, DropCall, Moves, Place
<1>3. Announced' = Announced /\ ~Streaming' /\ Heard' = sent
  BY <1>1, <1>2 DEF Announced, Heard, Streaming
<1>4. CASE at'.worker = "closed"
  <2>1. Phase # "closed" /\ Phase' = "closed"
    BY <1>2, <1>4 DEF Phase
  <2>2. Interface!CloseWorker
    BY <1>1, <1>3, <2>1 DEF Interface!CloseWorker, Announced, Phase, Heard
  <2> QED
    BY <2>2 DEF InterfaceStep, Interface!InterfaceNext
<1>5. CASE at'.worker # "closed" /\ at.worker = "finally"
  <2>1. Phase = "streaming" /\ Phase' = "idle"
    BY <1>2, <1>3, <1>5 DEF Phase, Streaming
  <2>2. Interface!EndGeneration
    BY <1>1, <1>3, <2>1 DEF Interface!EndGeneration, Announced, Phase, Heard
  <2> QED
    BY <2>2 DEF InterfaceStep, Interface!InterfaceNext
<1>6. CASE at'.worker # "closed" /\ at.worker # "finally"
  <2>1. ~Streaming /\ at.worker # "closed"
    BY <1>2, <1>6 DEF Streaming
  <2> QED
    BY <1>1, <1>3, <1>6, <2>1, WorkerStays
<1> QED
  BY <1>4, <1>5, <1>6

LEMMA InterfaceWorker ==
    ASSUME TypeInv, OrderInv, WorkerStep
    PROVE  InterfaceStep
<1> at \in Place
  BY TypeParts DEF TypeInv
<1>1. CASE ProbeSucceeds \/ BackOff
  <2>1. /\ ~Streaming /\ ~Streaming' /\ at.worker # "closed" /\ at'.worker # "closed"
        /\ UNCHANGED <<sent, offered, generation>>
        /\ at.worker # "starting" /\ at'.worker # "starting"
    BY <1>1 DEF ProbeSucceeds, BackOff, Streaming, Moves, Place, appVars
  <2> QED
    BY <2>1, WorkerStays DEF Announced
<1>2. CASE TakeFirst
  <2>1. generation \in Nat
    BY WorkerAssumption DEF TypeInv, TypeOK, Generations
  <2>2. /\ ~Streaming /\ ~Streaming' /\ at.worker # "closed" /\ at'.worker # "closed"
        /\ UNCHANGED <<sent, offered>> /\ generation' = generation + 1
        /\ at.worker # "starting" /\ at'.worker = "starting"
    BY <1>2 DEF TakeFirst, Streaming, Moves, Place, appVars
  <2>3. Announced' = Announced
    BY <2>1, <2>2 DEF Announced
  <2> QED
    BY <2>2, <2>3, WorkerStays
<1>3. CASE Open \/ SetCall \/ CallFailed \/ CallStopped
  <2>1. Streaming /\ Streaming' /\ UNCHANGED <<sent, offered, generation, out>>
    BY <1>3 DEF Open, SetCall, CallFailed, CallStopped, Streaming, Moves, Place, appVars
  <2> QED
    BY <2>1, WorkerStays
<1> QED
  BY <1>1, <1>2, <1>3, InterfaceStart, InterfaceEnds, InterfaceReset DEF WorkerStep, Actors

LEMMA InterfaceIterator ==
    ASSUME TypeInv, OrderInv, NEW g \in Generations, IteratorStep(g) \/ Lose(g)
    PROVE  InterfaceStep
<1>1. CASE Send(g)
  <2>1. PICK p : p = End(calls[g].hand)
    OBVIOUS
  <2>2. PICK start : start = calls[g].hand.start
    OBVIOUS
  <2>3. /\ Offered(calls[g].hand) /\ at.worker \in CallStates
        /\ sent = start /\ sent' = p /\ p \in Nat /\ sent < p
        /\ at' = at
    BY <1>1, <2>1, <2>2, SendFacts
  <2>4. p \in 1..(LastSample + 1) /\ start..(p - 1) \subseteq offered
    BY <2>1, <2>2, <2>3, RequestFacts, WorkerAssumption DEF Offered, Within
  <2>5. UNCHANGED <<offered, generation, out>>
    BY <1>1 DEF Send, appVars
  <2>6. Phase = "streaming" /\ Phase' = Phase /\ Announced' = Announced /\ Heard' = Heard
    BY <2>3, <2>5 DEF Phase, Announced, Heard, Streaming, CallStates
  <2>7. Interface!Advance(p)
    BY <2>3, <2>4, <2>5, <2>6 DEF Interface!Advance, Phase, Announced, Heard
  <2> QED
    BY <2>4, <2>7 DEF InterfaceStep, Interface!InterfaceNext
<1>2. CASE ~Send(g)
  BY <1>2, OthersStay DEF IteratorStep, Check, Abandon, Release, GetAudio, GetOther, Steal, Lose,
                          appVars
<1> QED
  BY <1>1, <1>2

LEMMA InterfaceResponse ==
    ASSUME TypeInv, Response
    PROVE  InterfaceStep
<1> at \in Place
  BY TypeParts DEF TypeInv
<1>1. ASSUME NEW until \in 1..(LastSample + 1), DeliverAudio(until) PROVE InterfaceStep
  <2>1. /\ Streaming /\ Streaming' /\ UNCHANGED <<offered, generation, sent>>
        /\ at.worker # "starting" /\ at'.worker # "starting"
        /\ at.worker # "closed" /\ at'.worker # "closed"
        /\ out < until /\ out' = until
    BY <1>1 DEF DeliverAudio, Streaming, Moves, Place, appVars
  <2>2. /\ Phase = "streaming" /\ Phase' = Phase /\ Announced' = Announced
        /\ Heard = out /\ Heard' = until
    BY <2>1 DEF Phase, Announced, Heard
  <2>3. CASE until <= sent
    <3>1. Interface!Deliver(until)
      BY <2>1, <2>2, <2>3 DEF Interface!Deliver, Phase, Announced, Heard
    <3> QED
      BY <3>1 DEF InterfaceStep, Interface!InterfaceNext
  <2>4. CASE sent < until
    <3>1. Interface!Overrun(until)
      BY <2>1, <2>2, <2>4 DEF Interface!Overrun, Phase, Announced, Heard
    <3> QED
      BY <3>1 DEF InterfaceStep, Interface!InterfaceNext
  <2>5. sent \in Int
    BY WorkerAssumption DEF TypeInv, TypeOK
  <2> QED
    BY <2>3, <2>4, <2>5
<1>2. CASE Accepted
  BY <1>2, OthersStay DEF Accepted, appVars
<1>3. CASE Ended \/ BadResponse
  <2>1. Streaming /\ Streaming' /\ UNCHANGED <<sent, offered, generation, out>>
    BY <1>3 DEF Ended, BadResponse, Streaming, Moves, Place, appVars
  <2> QED
    BY <2>1, WorkerStays
<1> QED
  BY <1>1, <1>2, <1>3 DEF Response

\* The worker keeps its promise to the frame processor for every frame size,
\* limit and number of calls: what its calls send and deliver is one stretch per
\* generation of what was accepted, and no generation goes back behind an
\* earlier one, whatever resets, reconnects and iterators of earlier calls do.
THEOREM WorkerImplementsInterface == Spec => ImplementsInterface
<1>1. Init => Interface!InterfaceInit
  BY DEF Init, Interface!InterfaceInit, Streaming
<1>2. TypeInv /\ UNCHANGED vars => InterfaceStep
  BY OthersStay DEF vars, appVars
<1>3. TypeInv /\ OrderInv /\ [Next]_vars => InterfaceStep
  BY <1>2, InterfaceOperation, InterfaceApp, InterfaceWorker, InterfaceIterator, InterfaceResponse
     DEF Next
<1>4. TypeInv /\ OrderInv /\ [Next]_vars
        => [UNCHANGED Interface!interfaceVars \/ Interface!InterfaceNext]_(Interface!interfaceVars)
  BY <1>3 DEF InterfaceStep
<1> QED
  BY <1>1, <1>4, OrderHolds, PTL DEF Spec, ImplementsInterface

-----------------------------------------------------------------------------
(* Sums, by first-order induction. *)

\* What Total chooses, as a predicate.
SumOf(sum, amounts, n) ==
    sum = [i \in 0..n |-> IF i = 0 THEN 0 ELSE sum[i - 1] + amounts[i]]

LEMMA SumExists ==
    ASSUME NEW amounts, NEW n \in Nat
    PROVE  \E sum : SumOf(sum, amounts, n)
<1> DEFINE S == {k \in 0..n : \E sum : SumOf(sum, amounts, k)}
<1>1. 0 \in S
  <2> DEFINE sum == [i \in 0..0 |-> 0]
  <2>1. SumOf(sum, amounts, 0)
    BY DEF SumOf
  <2> HIDE DEF sum
  <2> QED
    BY <2>1
<1>2. ASSUME NEW k \in 0..(n - 1), k \in S
      PROVE  k + 1 \in S
  <2>1. PICK sum : SumOf(sum, amounts, k)
    BY <1>2
  <2> DEFINE next == [i \in 0..(k + 1) |-> IF i = k + 1 THEN sum[k] + amounts[k + 1] ELSE sum[i]]
  <2>2. ASSUME NEW i \in 0..(k + 1)
        PROVE  next[i] = IF i = 0 THEN 0 ELSE next[i - 1] + amounts[i]
    <3>1. CASE i = k + 1
      <4>1. i # 0 /\ i - 1 = k /\ k \in 0..(k + 1) /\ k # k + 1
        BY <3>1
      <4> QED
        BY <3>1, <4>1
    <3>2. CASE i # k + 1
      <4>1. i \in 0..k
        BY <3>2
      <4>2. sum[i] = IF i = 0 THEN 0 ELSE sum[i - 1] + amounts[i]
        BY <2>1, <4>1 DEF SumOf
      <4>3. next[i] = sum[i]
        BY <3>2
      <4>4. i # 0 => i - 1 \in 0..(k + 1) /\ i - 1 # k + 1
        BY <4>1
      <4>5. i # 0 => next[i - 1] = sum[i - 1]
        BY <4>4
      <4> HIDE DEF next
      <4> QED
        BY <4>2, <4>3, <4>5
    <3> QED
      BY <3>1, <3>2
  <2>3. next = [i \in 0..(k + 1) |-> next[i]]
    OBVIOUS
  <2> HIDE DEF next
  <2>4. SumOf(next, amounts, k + 1)
    BY <2>2, <2>3 DEF SumOf
  <2> QED
    BY <2>4
<1> HIDE DEF S
<1>3. 0..n \subseteq S
  BY <1>1, <1>2, Counting
<1> QED
  BY <1>3 DEF S

LEMMA SumIsTotal ==
    ASSUME NEW amounts, NEW n \in Nat, NEW m \in 0..n, NEW sum, SumOf(sum, amounts, n)
    PROVE  Total(amounts, m) = sum[m]
<1> DEFINE other == CHOOSE f : SumOf(f, amounts, m)
           S == {k \in 0..m : other[k] = sum[k]}
<1>1. m \in Nat /\ 0..m \subseteq 0..n
  OBVIOUS
<1>2. SumOf(other, amounts, m)
  BY <1>1, SumExists
<1>3. Total(amounts, m) = other[m]
  BY DEF Total, SumOf
<1> HIDE DEF other
<1>4. 0 \in S
  BY <1>1, <1>2 DEF SumOf
<1>5. ASSUME NEW k \in 0..(m - 1), k \in S
      PROVE  k + 1 \in S
  <2>1. k + 1 \in 0..m /\ k + 1 \in 0..n /\ k + 1 # 0 /\ (k + 1) - 1 = k
    BY <1>1
  <2> DEFINE j == k + 1
  <2>2. j \in 0..m /\ j \in 0..n /\ j # 0 /\ j - 1 = k
    BY <2>1
  <2> HIDE DEF j
  <2>3. other[j] = other[j - 1] + amounts[j] /\ sum[j] = sum[j - 1] + amounts[j]
    BY <1>2, <2>2 DEF SumOf
  <2>4. other[j] = sum[j]
    BY <1>5, <2>2, <2>3
  <2> QED
    BY <2>2, <2>4 DEF j
<1> HIDE DEF S
<1>6. 0..m \subseteq S
  BY <1>1, <1>4, <1>5, Counting
<1> QED
  BY <1>1, <1>3, <1>6 DEF S

\* The recursion of Total.
LEMMA TotalStep ==
    ASSUME NEW amounts
    PROVE  /\ Total(amounts, 0) = 0
           /\ \A n \in Nat : Total(amounts, n + 1) = Total(amounts, n) + amounts[n + 1]
<1>1. ASSUME NEW n \in Nat
      PROVE  /\ Total(amounts, 0) = 0
             /\ Total(amounts, n + 1) = Total(amounts, n) + amounts[n + 1]
  <2> DEFINE j == n + 1
  <2>1. j \in Nat /\ j \in 0..j /\ n \in 0..j /\ 0 \in 0..j /\ j # 0 /\ j - 1 = n
    OBVIOUS
  <2> HIDE DEF j
  <2>2. PICK sum : SumOf(sum, amounts, j)
    BY <2>1, SumExists
  <2>3. Total(amounts, j) = sum[j] /\ Total(amounts, n) = sum[n] /\ Total(amounts, 0) = sum[0]
    BY <2>1, <2>2, SumIsTotal
  <2>4. sum[0] = 0 /\ sum[j] = sum[n] + amounts[j]
    BY <2>1, <2>2 DEF SumOf
  <2> QED
    BY <2>3, <2>4 DEF j
<1> QED
  BY <1>1

LEMMA TotalType ==
    ASSUME NEW amounts, NEW n \in Nat, \A i \in 1..n : amounts[i] \in Nat
    PROVE  Total(amounts, n) \in Nat
<1> DEFINE S == {k \in 0..n : Total(amounts, k) \in Nat}
<1>1. 0 \in S
  BY TotalStep
<1>2. ASSUME NEW k \in 0..(n - 1), k \in S
      PROVE  k + 1 \in S
  <2>1. k \in Nat /\ k + 1 \in 0..n /\ amounts[k + 1] \in Nat
    OBVIOUS
  <2>2. Total(amounts, k + 1) = Total(amounts, k) + amounts[k + 1]
    BY <2>1, TotalStep
  <2> QED
    BY <1>2, <2>1, <2>2
<1> HIDE DEF S
<1>3. 0..n \subseteq S
  BY <1>1, <1>2, Counting
<1> QED
  BY <1>3 DEF S

\* Where no amount but one grows, and that one by at most d, neither does the sum.
LEMMA TotalGrows ==
    ASSUME NEW n \in Nat, NEW a, NEW b,
           \A i \in 1..n : a[i] \in Nat /\ b[i] \in Nat,
           NEW g \in 0..n, NEW d \in Int,
           \A i \in 1..n : b[i] <= a[i] + (IF i = g THEN d ELSE 0)
    PROVE  Total(b, n) <= Total(a, n) + (IF g = 0 THEN 0 ELSE d)
<1> DEFINE Grown(k) == IF g \in 1..k THEN d ELSE 0
           S == {k \in 0..n : /\ Total(a, k) \in Int /\ Total(b, k) \in Int
                              /\ Total(b, k) <= Total(a, k) + Grown(k)}
<1>1. 0 \in S
  <2>1. Total(a, 0) = 0 /\ Total(b, 0) = 0
    BY TotalStep
  <2>2. Grown(0) = 0
    OBVIOUS
  <2> QED
    BY <2>1, <2>2
<1>2. ASSUME NEW k \in 0..(n - 1), k \in S
      PROVE  k + 1 \in S
  <2>1. /\ k \in Nat /\ k + 1 \in 1..n /\ k + 1 \in 0..n
        /\ a[k + 1] \in Nat /\ b[k + 1] \in Nat
        /\ b[k + 1] <= a[k + 1] + (IF k + 1 = g THEN d ELSE 0)
    OBVIOUS
  <2>2. /\ Total(a, k + 1) = Total(a, k) + a[k + 1]
        /\ Total(b, k + 1) = Total(b, k) + b[k + 1]
    BY <2>1, TotalStep
  <2>3. /\ Grown(k + 1) = Grown(k) + (IF k + 1 = g THEN d ELSE 0)
        /\ Grown(k) \in Int /\ Grown(k + 1) \in Int
    OBVIOUS
  <2>4. Total(a, k) \in Int /\ Total(b, k) \in Int /\ Total(b, k) <= Total(a, k) + Grown(k)
    BY <1>2
  <2> HIDE DEF Grown
  <2>5. Total(b, k + 1) <= Total(a, k + 1) + Grown(k + 1)
    BY <2>1, <2>2, <2>3, <2>4
  <2>6. Total(a, k + 1) \in Int /\ Total(b, k + 1) \in Int
    BY <2>1, <2>2, <2>4
  <2> QED
    BY <2>1, <2>5, <2>6
<1> HIDE DEF S, Grown
<1>3. 0..n \subseteq S
  BY <1>1, <1>2, Counting
<1>4. Total(b, n) <= Total(a, n) + Grown(n)
  BY <1>3 DEF S
<1> QED
  BY <1>4 DEF Grown

\* A sum of k amounts, none of which exceeds c.
LEMMA TotalBound ==
    ASSUME NEW n \in Nat, NEW a, NEW k \in 0..n, NEW c \in Nat,
           \A i \in 1..n : a[i] \in Nat /\ a[i] <= (IF i <= k THEN c ELSE 0)
    PROVE  Total(a, n) <= k * c
<1> DEFINE Most(j) == (IF j <= k THEN j ELSE k) * c
           S == {j \in 0..n : Total(a, j) \in Nat /\ Total(a, j) <= Most(j)}
<1>1. 0 \in S
  BY TotalStep
<1>2. ASSUME NEW j \in 0..(n - 1), j \in S
      PROVE  j + 1 \in S
  <2>1. /\ j \in Nat /\ j + 1 \in 1..n /\ j + 1 \in 0..n
        /\ a[j + 1] \in Nat /\ a[j + 1] <= (IF j + 1 <= k THEN c ELSE 0)
    OBVIOUS
  <2>2. Total(a, j + 1) = Total(a, j) + a[j + 1]
    BY <2>1, TotalStep
  <2>3. Most(j + 1) = Most(j) + (IF j + 1 <= k THEN c ELSE 0) /\ Most(j) \in Int
    <3>1. CASE j + 1 <= k
      <4>1. Most(j + 1) = (j + 1) * c /\ Most(j) = j * c
        BY <2>1, <3>1
      <4>2. (j + 1) * c = j * c + c /\ j * c \in Int
        BY <2>1
      <4> QED
        BY <3>1, <4>1, <4>2
    <3>2. CASE ~(j + 1 <= k)
      <4>1. Most(j + 1) = k * c /\ Most(j) = k * c /\ k * c \in Int
        <5>1. (IF j <= k THEN j ELSE k) = k /\ (IF j + 1 <= k THEN j + 1 ELSE k) = k
          BY <2>1, <3>2
        <5> QED
          BY <5>1
      <4> QED
        BY <3>2, <4>1
    <3> QED
      BY <3>1, <3>2
  <2>4. Total(a, j) \in Nat /\ Total(a, j) <= Most(j)
    BY <1>2
  <2> HIDE DEF Most
  <2>5. Total(a, j + 1) \in Nat /\ Total(a, j + 1) <= Most(j + 1)
    BY <2>1, <2>2, <2>3, <2>4
  <2> QED
    BY <2>1, <2>5
<1> HIDE DEF S
<1>3. 0..n \subseteq S
  BY <1>1, <1>2, Counting
<1>4. Total(a, n) <= Most(n)
  BY <1>3 DEF S
<1> QED
  BY <1>4

\* The first amount, and the sum of the others.
LEMMA TotalTail ==
    ASSUME NEW n \in Nat, NEW a, NEW b,
           \A i \in 1..(n + 1) : a[i] \in Nat,
           \A i \in 1..n : b[i] = a[i + 1]
    PROVE  Total(a, n + 1) = a[1] + Total(b, n)
<1> DEFINE S == {k \in 0..n : Total(b, k) \in Nat /\ Total(a, k + 1) = a[1] + Total(b, k)}
<1>0. a[1] \in Nat
  OBVIOUS
<1>1. 0 \in S
  <2>1. /\ Total(b, 0) = 0 /\ Total(a, 0) = 0
        /\ Total(a, 0 + 1) = Total(a, 0) + a[0 + 1]
    BY TotalStep
  <2> QED
    BY <1>0, <2>1
<1>2. ASSUME NEW k \in 0..(n - 1), k \in S
      PROVE  k + 1 \in S
  <2>1. /\ k \in Nat /\ k + 1 \in Nat /\ k + 1 \in 0..n
        /\ b[k + 1] = a[(k + 1) + 1] /\ a[(k + 1) + 1] \in Nat
    OBVIOUS
  <2>2. /\ Total(b, k + 1) = Total(b, k) + b[k + 1]
        /\ Total(a, (k + 1) + 1) = Total(a, k + 1) + a[(k + 1) + 1]
    BY <2>1, TotalStep
  <2>3. Total(b, k) \in Nat /\ Total(a, k + 1) = a[1] + Total(b, k)
    BY <1>2
  <2> QED
    BY <1>0, <2>1, <2>2, <2>3
<1> HIDE DEF S
<1>3. 0..n \subseteq S
  BY <1>1, <1>2, Counting
<1> QED
  BY <1>3 DEF S

\* Sums of the same amounts.
LEMMA TotalSame ==
    ASSUME NEW n \in Nat, NEW a, NEW b, \A i \in 1..n : b[i] = a[i]
    PROVE  Total(b, n) = Total(a, n)
<1> DEFINE S == {k \in 0..n : Total(b, k) = Total(a, k)}
<1>1. 0 \in S
  BY TotalStep
<1>2. ASSUME NEW k \in 0..(n - 1), k \in S
      PROVE  k + 1 \in S
  <2>1. k \in Nat /\ k + 1 \in 0..n /\ b[k + 1] = a[k + 1]
    OBVIOUS
  <2>2. /\ Total(a, k + 1) = Total(a, k) + a[k + 1]
        /\ Total(b, k + 1) = Total(b, k) + b[k + 1]
    BY <2>1, TotalStep
  <2> QED
    BY <1>2, <2>1, <2>2
<1> HIDE DEF S
<1>3. 0..n \subseteq S
  BY <1>1, <1>2, Counting
<1> QED
  BY <1>3 DEF S

-----------------------------------------------------------------------------
(* The audio in the queue, and what holds the rest of the load. *)

QueuedIn(queue) == Total([i \in DOMAIN queue |-> AudioOf(queue[i])], Len(queue))

LEMMA AudioType ==
    ASSUME NEW request \in Request
    PROVE  /\ AudioOf(request) \in Nat
           /\ IsAudio(request) => AudioOf(request) = request.n
           /\ ~IsAudio(request) => AudioOf(request) = 0
BY RequestFacts DEF AudioOf, IsAudio

\* What a request adds to the queue, and what it takes with it.
LEMMA QueueSums ==
    ASSUME NEW queue \in Seq(Request)
    PROVE  /\ QueuedIn(queue) \in Nat
           /\ queue = <<>> => QueuedIn(queue) = 0
           /\ \A request \in Request :
                 QueuedIn(Append(queue, request)) = QueuedIn(queue) + AudioOf(request)
           /\ queue # <<>> => QueuedIn(queue) = AudioOf(Head(queue)) + QueuedIn(Tail(queue))
<1> DEFINE len == Len(queue)
           a == [i \in DOMAIN queue |-> AudioOf(queue[i])]
<1>1. len \in Nat /\ DOMAIN queue = 1..len /\ \A i \in 1..len : queue[i] \in Request
  OBVIOUS
<1>2. \A i \in 1..len : a[i] = AudioOf(queue[i]) /\ a[i] \in Nat
  BY <1>1, AudioType
<1>3. QueuedIn(queue) = Total(a, len)
  BY DEF QueuedIn
<1>4. queue = <<>> => len = 0
  OBVIOUS
<1>5. ASSUME NEW request \in Request
      PROVE  QueuedIn(Append(queue, request)) = QueuedIn(queue) + AudioOf(request)
  <2> DEFINE longer == Append(queue, request)
             b == [i \in DOMAIN longer |-> AudioOf(longer[i])]
  <2>1. /\ Len(longer) = len + 1 /\ DOMAIN longer = 1..(len + 1)
        /\ longer[len + 1] = request
        /\ \A i \in 1..len : longer[i] = queue[i] /\ i \in 1..(len + 1)
    OBVIOUS
  <2>2. QueuedIn(longer) = Total(b, Len(longer))
    BY DEF QueuedIn
  <2> HIDE DEF longer
  <2>3. len + 1 \in 1..(len + 1)
    BY <1>1
  <2> HIDE DEF len
  <2>4. b[len + 1] = AudioOf(request) /\ \A i \in 1..len : b[i] = AudioOf(queue[i])
    BY <2>1, <2>3
  <2>5. \A i \in 1..len : b[i] = a[i]
    BY <1>2, <2>4
  <2> HIDE DEF a, b
  <2>6. Total(b, len + 1) = Total(b, len) + b[len + 1]
    BY <1>1, TotalStep
  <2>7. Total(b, len) = Total(a, len)
    BY <1>1, <2>5, TotalSame
  <2> QED
    BY <1>3, <2>1, <2>2, <2>4, <2>6, <2>7 DEF longer
<1>6. ASSUME queue # <<>>
      PROVE  QueuedIn(queue) = AudioOf(Head(queue)) + QueuedIn(Tail(queue))
  <2> DEFINE n == len - 1
             rest == Tail(queue)
             b == [i \in DOMAIN rest |-> AudioOf(rest[i])]
  <2>1. /\ n \in Nat /\ len = n + 1 /\ Len(rest) = n /\ DOMAIN rest = 1..n
        /\ Head(queue) = queue[1] /\ 1 \in 1..len
        /\ \A i \in 1..n : rest[i] = queue[i + 1] /\ i + 1 \in 1..len
    BY <1>6
  <2>2. QueuedIn(rest) = Total(b, Len(rest))
    BY DEF QueuedIn
  <2> HIDE DEF rest, n, len
  <2>3. \A i \in 1..n : b[i] = a[i + 1]
    BY <1>2, <2>1
  <2>4. a[1] = AudioOf(Head(queue)) /\ \A i \in 1..(n + 1) : a[i] \in Nat
    BY <1>2, <2>1
  <2> HIDE DEF a, b
  <2>5. Total(a, n + 1) = a[1] + Total(b, n)
    BY <2>1, <2>3, <2>4, TotalTail
  <2> QED
    BY <1>3, <2>1, <2>2, <2>4, <2>5 DEF rest
<1> HIDE DEF a, len
<1>7. QueuedIn(queue) \in Nat
  BY <1>1, <1>2, <1>3, TotalType
<1> QED
  BY <1>3, <1>4, <1>5, <1>6, <1>7, TotalStep

FreshIterators == \A g \in Generations : g > generation => calls[g].iterator = "done"

\* A drain of the worker forgets what was put since it saw the queue empty, one
\* of the application only what is held.
ForgottenOK(n) ==
    /\ Forgotten <= MaxQueued + (generation + 1) * n
    /\ at.worker \in {"zero", "zeroFailed"} => Forgotten <= (generation + 1) * n
    /\ at.app = "zero" => Queued = 0

LoadInv(n) == FreshIterators /\ ForgottenOK(n)

\* The largest frame that try_send may accept.
LargestFrame(n) == n \in Nat /\ \A k \in Sizes : k <= MaxQueued => k <= n

LEMMA HeldTypes ==
    ASSUME TypeInv
    PROVE  /\ Queued = QueuedIn(requests) /\ Queued \in Nat
           /\ HeldByApp \in Nat /\ HeldByWorker \in Nat /\ Held \in Nat
           /\ \A g \in Generations : HeldBy(g) \in Nat
<1>1. Queued = QueuedIn(requests) /\ Queued \in Nat
  BY QueueSums DEF Queued, QueuedIn, TypeInv, TypeOK
<1>2. HeldByApp \in Nat /\ HeldByWorker \in Nat
  BY RequestFacts
     DEF TypeInv, FramesOK, FrameOK, FirstOK, Offered, Within, HeldByApp, HeldByWorker, Putting, Taken
<1>3. \A g \in Generations : HeldBy(g) \in Nat
  BY RequestFacts DEF TypeInv, FramesOK, HandOK, Offered, Within, HeldBy
<1>4. Held \in Nat
  <2>1. \A i \in 1..LastGeneration : HeldVector[i] \in Nat
    BY <1>3 DEF Generations, HeldVector
  <2> QED
    BY <2>1, TotalType, WorkerAssumption DEF Held
<1> QED
  BY <1>1, <1>2, <1>3, <1>4

HeldType ==
    /\ Queued \in Nat /\ HeldByApp \in Nat /\ HeldByWorker \in Nat /\ Held \in Nat
    /\ \A g \in Generations : HeldBy(g) \in Nat

LEMMA HeldTypesNext == TypeInv' => HeldType'
<1>1. TypeInv => HeldType
  BY HeldTypes DEF HeldType
<1> QED
  BY <1>1, PTL

\* No frame is larger than the largest, and only iterators that were started
\* hold one.
LEMMA HeldBounds ==
    ASSUME TypeInv, FreshIterators, NEW n, LargestFrame(n)
    PROVE  /\ HeldByApp <= n /\ HeldByWorker <= n
           /\ Held <= generation * n
<1>1. \A request : Offered(request) => request.n <= n
  BY RequestFacts DEF Offered, Within, LargestFrame
<1>2. n \in Nat /\ HeldByApp <= n /\ HeldByWorker <= n
  BY <1>1 DEF TypeInv, FramesOK, FrameOK, FirstOK, HeldByApp, HeldByWorker, Putting, Taken, LargestFrame
<1>3. generation \in 0..LastGeneration
  BY WorkerAssumption DEF TypeInv, TypeOK, Generations
<1>4. \A g \in Generations : HeldBy(g) <= (IF g <= generation THEN n ELSE 0)
  <2>1. ASSUME NEW g \in Generations, ~(g <= generation)
        PROVE  HeldBy(g) = 0
    <3>1. g > generation
      BY <1>3, <2>1 DEF Generations
    <3> QED
      BY <3>1 DEF FreshIterators, HeldBy, HasHand
  <2>2. \A g \in Generations : HeldBy(g) <= n
    BY <1>1, <1>2 DEF TypeInv, FramesOK, HandOK, HeldBy
  <2> QED
    BY <2>1, <2>2
<1>5. \A i \in 1..LastGeneration :
         HeldVector[i] \in Nat /\ HeldVector[i] <= (IF i <= generation THEN n ELSE 0)
  BY <1>4, HeldTypes DEF Generations, HeldVector
<1>6. Total(HeldVector, LastGeneration) <= generation * n
  BY <1>2, <1>3, <1>5, TotalBound, WorkerAssumption
<1> QED
  BY <1>2, <1>6 DEF Held

\* Where only the iterator of g may get hold of more, by at most d.
LEMMA HeldGrows ==
    ASSUME TypeInv, TypeInv', NEW g \in Generations, NEW d \in Int,
           HeldBy(g)' <= HeldBy(g) + d,
           \A h \in Generations \ {g} : HeldBy(h)' <= HeldBy(h)
    PROVE  Held' <= Held + d
<1> DEFINE a == HeldVector
           b == HeldVector'
<1>1. \A i \in 1..LastGeneration : a[i] = HeldBy(i) /\ b[i] = HeldBy(i)'
  BY DEF Generations, HeldVector
<1>2. Held = Total(a, LastGeneration) /\ Held' = Total(b, LastGeneration)
  BY DEF Held
<1>3. \A h \in Generations : HeldBy(h) \in Nat /\ HeldBy(h)' \in Nat
  BY HeldTypes, HeldTypesNext DEF HeldType
<1> HIDE DEF a, b
<1>4. \A i \in 1..LastGeneration : a[i] \in Nat /\ b[i] \in Nat
  BY <1>1, <1>3 DEF Generations
<1>5. \A i \in 1..LastGeneration : b[i] <= a[i] + (IF i = g THEN d ELSE 0)
  BY <1>1, <1>3 DEF Generations
<1>6. g \in 0..LastGeneration /\ g # 0 /\ LastGeneration \in Nat
  BY WorkerAssumption DEF Generations
<1>7. Total(b, LastGeneration) <= Total(a, LastGeneration) + (IF g = 0 THEN 0 ELSE d)
  BY <1>4, <1>5, <1>6, TotalGrows
<1> QED
  BY <1>2, <1>6, <1>7

LEMMA HeldStays ==
    ASSUME TypeInv, TypeInv', \A h \in Generations : HeldBy(h)' <= HeldBy(h)
    PROVE  Held' <= Held
<1> DEFINE a == HeldVector
           b == HeldVector'
<1>1. \A i \in 1..LastGeneration : a[i] = HeldBy(i) /\ b[i] = HeldBy(i)'
  BY DEF Generations, HeldVector
<1>2. Held = Total(a, LastGeneration) /\ Held' = Total(b, LastGeneration)
  BY DEF Held
<1>3. \A h \in Generations : HeldBy(h) \in Nat /\ HeldBy(h)' \in Nat
  BY HeldTypes, HeldTypesNext DEF HeldType
<1> HIDE DEF a, b
<1>4. \A i \in 1..LastGeneration : a[i] \in Nat /\ b[i] \in Nat
  BY <1>1, <1>3 DEF Generations
<1>5. \A i \in 1..LastGeneration : b[i] <= a[i] + (IF i = 0 THEN 0 ELSE 0)
  BY <1>1, <1>3, <1>4 DEF Generations
<1>6. 0 \in 0..LastGeneration /\ LastGeneration \in Nat
  BY WorkerAssumption
<1>7. Total(b, LastGeneration) <= Total(a, LastGeneration) + (IF 0 = 0 THEN 0 ELSE 0)
  BY <1>4, <1>5, <1>6, TotalGrows
<1>8. Held \in Nat
  BY HeldTypes
<1> QED
  BY <1>2, <1>7, <1>8

-----------------------------------------------------------------------------
(* What each step does to the load. *)

\* What each step does to the parts of the load.
LEMMA QueuedSteps ==
    ASSUME TypeInv, Next
    PROVE  /\ Queued' <= Queued \/ PutFrame
           /\ PutFrame => Queued' = Queued + HeldByApp /\ HeldByApp' = 0
           /\ requests' = requests => Queued' = Queued
           /\ Takes => Queued = AudioOf(Head(requests)) + Queued'
<1> /\ at \in Place /\ FrameOK /\ requests \in Seq(Request)
  BY TypeParts DEF TypeInv, FramesOK, RestType
<1>1. Queued = QueuedIn(requests) /\ Queued' = QueuedIn(requests') /\ QueuedIn(requests) \in Nat
  BY QueueSums DEF Queued, QueuedIn
<1>2. requests' = requests => Queued' = Queued
  BY <1>1
<1>3. Takes => /\ Queued = AudioOf(Head(requests)) + Queued'
               /\ Queued' <= Queued
  <2>1. ASSUME Takes PROVE QueuedIn(requests) = AudioOf(Head(requests)) + QueuedIn(requests')
    BY <2>1, QueueSums DEF Takes
  <2>2. ASSUME Takes PROVE QueuedIn(requests') \in Nat /\ AudioOf(Head(requests)) \in Nat
    BY <2>2, QueueSums, AudioType, TailFacts DEF Takes
  <2> QED
    BY <1>1, <2>1, <2>2
<1>4. ASSUME NEW e \in Request, Puts(e)
      PROVE  Queued' = Queued + AudioOf(e)
  BY <1>1, <1>4, QueueSums DEF Puts
<1>5. PutFrame => Queued' = Queued + HeldByApp /\ HeldByApp' = 0
  <2> SUFFICES ASSUME PutFrame PROVE Queued' = Queued + HeldByApp /\ HeldByApp' = 0
    OBVIOUS
  <2>1. Putting /\ frame \in Request /\ IsAudio(frame) /\ Puts(frame)
    BY DEF PutFrame, Putting, FrameOK, Offered, Within, Puts
  <2>2. ~Putting'
    BY DEF PutFrame, Putting, Moves, Place
  <2> QED
    BY <1>4, <2>1, <2>2, AudioType DEF HeldByApp
<1>6. Puts(StopRequest) \/ Puts(ResetRequest) \/ PutEnd => Queued' <= Queued
  <2>1. PutEnd => Puts(EndRequest)
    BY DEF PutEnd, Puts
  <2>2. \A e \in {StopRequest, ResetRequest, EndRequest} : e \in Request /\ AudioOf(e) = 0
    BY RequestFacts, AudioType
  <2> QED
    BY <1>1, <1>4, <2>1, <2>2
<1>7. Queued' <= Queued \/ PutFrame
  BY <1>1, <1>2, <1>3, <1>6, QueueSteps
<1> QED
  BY <1>2, <1>3, <1>5, <1>7

LEMMA AppHolds ==
    ASSUME TypeInv, Next
    PROVE  HeldByApp' <= HeldByApp \/ \E n \in Sizes : Reserve(n)
<1>1. HeldByApp \in Nat
  BY HeldTypes
<1>2. at \in Place
  BY TypeParts DEF TypeInv
<1>3. CASE frame' = frame /\ (Putting' => Putting)
  BY <1>1, <1>3 DEF HeldByApp
<1>4. CASE ~Putting'
  BY <1>1, <1>4 DEF HeldByApp
<1> QED
  BY <1>2, <1>3, <1>4, FrameSteps DEF Putting

LEMMA WorkerHolds ==
    ASSUME TypeInv, Next
    PROVE  HeldByWorker' <= HeldByWorker \/ TakeFirst
<1>1. HeldByWorker \in Nat
  BY HeldTypes
<1>2. at \in Place
  BY TypeParts DEF TypeInv
<1>3. CASE first' = first /\ (Taken' => Taken)
  BY <1>1, <1>3 DEF HeldByWorker
<1>4. CASE ~Taken'
  BY <1>1, <1>4 DEF HeldByWorker
<1> QED
  BY <1>2, <1>3, <1>4, FirstSteps DEF Taken

LEMMA IteratorHolds ==
    ASSUME TypeInv, Next, NEW g \in Generations
    PROVE  \/ HeldBy(g)' <= HeldBy(g)
           \/ Open /\ g = generation
           \/ GetAudio(g)
<1>1. HeldBy(g) \in Nat
  BY HeldTypes
<1>2. calls[g] \in Call /\ CallsType
  BY TypeParts, CallFacts DEF TypeInv
<1>3. CASE calls'[g] = calls[g] \/ calls'[g] = [calls[g] EXCEPT !.over = TRUE]
  <2>1. calls'[g].iterator = calls[g].iterator /\ calls'[g].hand = calls[g].hand
    BY <1>2, <1>3 DEF Call
  <2>2. HeldBy(g)' = HeldBy(g)
    BY <2>1 DEF HeldBy, HasHand
  <2> QED
    BY <1>1, <2>2
<1>4. CASE calls'[g] = NoCall
  <2>1. HeldBy(g)' = 0
    BY <1>4 DEF HeldBy, HasHand, NoCall
  <2> QED
    BY <1>1, <2>1
<1>5. CASE Check(g) \/ Send(g)
  <2>1. calls'[g].iterator = "done" \/ (HasHand(g) /\ calls'[g].hand = calls[g].hand)
    <3>1. CASE Return(g, FALSE)
      BY <1>2, <3>1, ReturnFacts
    <3>2. CASE Check(g) /\ Iterator(g, "yielding")
      BY <1>2, <3>2, CheckSteps DEF Iterator, HasHand, CallsType, Call
    <3>3. CASE Send(g)
      BY <1>2, <3>3 DEF Send, Iterator, HasHand, CallsType, Call
    <3> QED
      BY <1>5, <3>1, <3>2, <3>3, CheckSteps
  <2>2. HeldBy(g)' = HeldBy(g) \/ HeldBy(g)' = 0
    BY <2>1 DEF HeldBy, HasHand
  <2> QED
    BY <1>1, <2>2
<1>6. CASE Release(g) \/ GetOther(g)
  <2>1. calls'[g].iterator \in {"getting", "done"}
    BY <1>2, <1>6, ReturnFacts DEF Release, GetOther, CallsType, Call
  <2>2. HeldBy(g)' = 0
    BY <2>1 DEF HeldBy, HasHand
  <2> QED
    BY <1>1, <2>2
<1> QED
  BY <1>3, <1>4, <1>5, <1>6, CallSteps

LEMMA PendingSteps ==
    ASSUME Next
    PROVE  \/ pending' = pending
           \/ \E n \in Sizes : Reserve(n)
           \/ \E g \in Generations : Release(g)
           \/ \E actor \in Actors : ZeroPending(actor)
<1>1. ASSUME NEW actor \in Actors, ForceReset(actor)
      PROVE  pending' = pending \/ ZeroPending(actor)
  BY <1>1 DEF ForceReset, SetReset, CancelCall, DrainOne, PutReset
<1>2. CASE AppStep
  BY <1>1, <1>2 DEF AppStep, PutFrame, PutEnd, Joined, JoinTimeout, PutStop, Rejoined, Actors
<1>3. CASE WorkerStep
  BY <1>1, <1>3 DEF WorkerStep, ProbeSucceeds, ProbeFails, TakeFirst, TakeOther, Start, Open, SetCall,
                    CallFailed, CallStopped, DropCall, BackOff, Actors
<1>4. CASE \E g \in Generations : IteratorStep(g) \/ Lose(g)
  BY <1>4 DEF IteratorStep, Check, Send, Abandon, GetAudio, GetOther, Steal, Lose
<1>5. CASE Operation
  BY <1>5 DEF Operation, SkipFrame, Refuse, Toggle, Close, appVars
<1>6. CASE Response
  BY <1>6 DEF Response, Accepted, DeliverAudio, Ended, BadResponse
<1> QED
  BY <1>2, <1>3, <1>4, <1>5, <1>6 DEF Next

\* Where no call changes hands.
LEMMA HeldSame ==
    ASSUME TypeInv, TypeInv', calls' = calls
    PROVE  Held' <= Held
<1>1. \A g \in Generations : HeldBy(g) \in Nat
  BY HeldTypes
<1>2. \A g \in Generations : HeldBy(g)' = HeldBy(g)
  BY DEF HeldBy, HasHand
<1>3. \A g \in Generations : HeldBy(g)' <= HeldBy(g)
  BY <1>1, <1>2
<1> QED
  BY <1>3, HeldStays

\* No step but a drain's last one forgets a reservation.
LEMMA NextForgotten ==
    ASSUME TypeInv, TypeInv', Next, \A actor \in Actors : ~ZeroPending(actor)
    PROVE  Forgotten' <= Forgotten
<1> /\ at \in Place /\ RestType /\ CallsType /\ FirstOK /\ QueueOK
    /\ \A g \in Generations : HandOK(g)
  BY TypeParts DEF TypeInv, FramesOK
<1>t. /\ Queued \in Nat /\ HeldByApp \in Nat /\ HeldByWorker \in Nat /\ Held \in Nat
      /\ Queued' \in Nat /\ HeldByApp' \in Nat /\ HeldByWorker' \in Nat /\ Held' \in Nat
      /\ pending \in Nat /\ pending' \in Nat
  <2>1. pending \in Nat /\ pending' \in Nat
    BY WorkerAssumption DEF TypeInv, TypeOK
  <2> QED
    BY <2>1, HeldTypes, HeldTypesNext DEF HeldType
<1>g. \A g \in Generations : HeldBy(g) \in Nat
  BY HeldTypes
<1>p. PICK queued \in Nat, byApp \in Nat, byWorker \in Nat, held \in Nat, left \in Nat :
        /\ queued = Queued' /\ byApp = HeldByApp' /\ byWorker = HeldByWorker' /\ held = Held'
        /\ left = pending'
  BY <1>t
<1>k. /\ Queued \in Nat /\ HeldByApp \in Nat /\ HeldByWorker \in Nat /\ Held \in Nat /\ pending \in Nat
      /\ Forgotten = (((Queued + HeldByApp) + HeldByWorker) + Held) - pending
  BY <1>t DEF Forgotten, Load
<1>f. Forgotten' = (((queued + byApp) + byWorker) + held) - left
  BY <1>p DEF Forgotten, Load
<1>q. ASSUME (((queued + byApp) + byWorker) + held) - left <= Forgotten
      PROVE  Forgotten' <= Forgotten
  BY <1>f, <1>q
<1>1. ASSUME NEW n \in Sizes, Reserve(n) PROVE Forgotten' <= Forgotten
  <2>1. n \in Nat /\ pending' = pending + n
    BY <1>1, WorkerAssumption DEF Reserve
  <2>2. HeldByApp = 0 /\ HeldByApp' = n
    <3>1. ~Putting
      BY <1>1 DEF Reserve, Putting
    <3>2. Putting' /\ frame' = Audio(position, n)
      BY <1>1 DEF Reserve, Putting, Moves, Place
    <3> QED
      BY <3>1, <3>2 DEF HeldByApp, Audio
  <2>3. HeldByWorker' = HeldByWorker
    <3>1. first' = first /\ at'.worker = at.worker
      BY <1>1 DEF Reserve, Moves, Place
    <3> QED
      BY <3>1 DEF HeldByWorker, Taken
  <2>4. Held' <= Held /\ Queued' = Queued
    <3>1. calls' = calls /\ requests' = requests
      BY <1>1 DEF Reserve
    <3> QED
      BY <3>1, HeldSame, QueuedSteps
  <2>5. /\ n \in Nat /\ left = pending + n /\ HeldByApp = 0 /\ byApp = n
        /\ queued = Queued /\ byWorker = HeldByWorker /\ held <= Held
    BY <1>p, <2>1, <2>2, <2>3, <2>4
  <2>6. (((queued + byApp) + byWorker) + held) - left <= Forgotten
    BY <1>k, <2>5
  <2> QED
    BY <1>q, <2>6
<1>2. CASE PutFrame
  <2>1. Queued' = Queued + HeldByApp /\ HeldByApp' = 0
    BY <1>2, QueuedSteps
  <2>2. HeldByWorker' = HeldByWorker
    <3>1. first' = first /\ at'.worker = at.worker
      BY <1>2 DEF PutFrame, Moves, Place
    <3> QED
      BY <3>1 DEF HeldByWorker, Taken
  <2>3. Held' <= Held /\ pending' = pending
    <3>1. calls' = calls /\ pending' = pending
      BY <1>2 DEF PutFrame
    <3> QED
      BY <3>1, HeldSame
  <2>4. /\ queued = Queued + HeldByApp /\ byApp = 0 /\ byWorker = HeldByWorker
        /\ held <= Held /\ left = pending
    BY <1>p, <2>1, <2>2, <2>3
  <2>5. (((queued + byApp) + byWorker) + held) - left <= Forgotten
    BY <1>k, <2>4
  <2> QED
    BY <1>q, <2>5
<1>3. CASE TakeFirst
  <2>1. Takes /\ IsAudio(Head(requests)) /\ first' = Head(requests) /\ pending' = pending
    BY <1>3 DEF TakeFirst, Takes, IsAudio
  <2>2. Queued = Head(requests).n + Queued'
    <3>1. Head(requests) \in Request
      BY <2>1, TailFacts DEF Takes, RestType
    <3> QED
      BY <2>1, <3>1, AudioType, QueuedSteps
  <2>3. HeldByWorker = 0 /\ HeldByWorker' = Head(requests).n
    <3>1. ~Taken /\ Taken'
      BY <1>3 DEF TakeFirst, Taken, Moves, Place
    <3> QED
      BY <2>1, <3>1 DEF HeldByWorker
  <2>4. HeldByApp' = HeldByApp
    <3>1. frame' = frame /\ at'.app = at.app
      BY <1>3 DEF TakeFirst, Moves, Place, appVars
    <3> QED
      BY <3>1 DEF HeldByApp, Putting
  <2>5. Held' <= Held
    BY <1>3, HeldSame DEF TakeFirst
  <2>6. Head(requests).n \in Nat
    BY <1>t, <2>3
  <2>7. /\ Head(requests).n \in Nat /\ Queued = Head(requests).n + queued /\ byApp = HeldByApp
        /\ HeldByWorker = 0 /\ byWorker = Head(requests).n /\ held <= Held /\ left = pending
    BY <1>p, <2>1, <2>2, <2>3, <2>4, <2>5, <2>6
  <2>8. (((queued + byApp) + byWorker) + held) - left <= Forgotten
    BY <1>k, <2>7
  <2> QED
    BY <1>q, <2>8
<1>4. CASE Open
  <2>1. requests' = requests /\ pending' = pending /\ Taken /\ ~Taken'
    BY <1>4 DEF Open, Taken, Moves, Place
  <2>2. Queued' = Queued /\ HeldByWorker = first.n /\ HeldByWorker' = 0
    BY <2>1, QueuedSteps DEF HeldByWorker
  <2>3. HeldByApp' = HeldByApp
    <3>1. frame' = frame /\ at'.app = at.app
      BY <1>4 DEF Open, Moves, Place, appVars
    <3> QED
      BY <3>1 DEF HeldByApp, Putting
  <2>4. generation \in Generations /\ first.n \in Nat
    BY <1>4, <1>t, <2>2 DEF Open, TypeInv, CallsOK
  <2>5. Held' <= Held + first.n
    <3>1. ASSUME NEW g \in Generations \ {generation} PROVE HeldBy(g)' <= HeldBy(g)
      <4>1. calls'[g] = calls[g]
        BY <1>4 DEF Open, CallsType
      <4>2. HeldBy(g)' = HeldBy(g)
        BY <4>1 DEF HeldBy, HasHand
      <4> QED
        BY <1>g, <4>2
    <3> DEFINE g == generation
    <3>2. calls'[g] = Opened(first) \/ calls'[g] = calls[g]
      BY <1>4, <2>4 DEF Open, CallsType
    <3>3. g \in Generations /\ HeldBy(g) \in Nat /\ generation' = generation
      BY <1>4, <1>g, <2>4 DEF Open
    <3>4. PICK here \in Generations : here = generation
      BY <2>4
    <3>5. HeldBy(here)' <= HeldBy(here) + first.n
      <4>1. calls'[here] = calls[here] => HeldBy(here)' = HeldBy(here)
        BY DEF HeldBy, HasHand
      <4>2. calls'[here] = Opened(first) => HeldBy(here)' = first.n
        BY DEF HeldBy, HasHand, Opened
      <4> QED
        BY <1>g, <2>4, <3>2, <3>4, <4>1, <4>2
    <3>6. \A h \in Generations \ {here} : HeldBy(h)' <= HeldBy(h)
      BY <3>1, <3>4
    <3>7. PICK d \in Int : d = first.n
      BY <2>4
    <3>8. HeldBy(here)' <= HeldBy(here) + d
      BY <3>5, <3>7
    <3>9. Held' <= Held + d
      BY <3>6, <3>8, HeldGrows
    <3> QED
      BY <3>7, <3>9
  <2>6. /\ first.n \in Nat /\ queued = Queued /\ byApp = HeldByApp /\ HeldByWorker = first.n
        /\ byWorker = 0 /\ held <= Held + first.n /\ left = pending
    BY <1>p, <2>1, <2>2, <2>3, <2>4, <2>5
  <2>7. (((queued + byApp) + byWorker) + held) - left <= Forgotten
    BY <1>k, <2>6
  <2> QED
    BY <1>q, <2>7
<1>5. ASSUME NEW g \in Generations, Release(g) PROVE Forgotten' <= Forgotten
  <2>1. HasHand(g)
    BY <1>5 DEF Release, HasHand
  <2>2. PICK n : n = calls[g].hand.n
    OBVIOUS
  <2>3. n \in Nat /\ HeldBy(g) = n
    BY <1>g, <2>1, <2>2 DEF HeldBy
  <2>4. pending' >= pending - n
    BY <1>5, <1>t, <2>2, <2>3 DEF Release
  <2>5. HeldBy(g)' = 0
    <3>1. calls'[g].iterator = "getting"
      BY <1>5 DEF Release, CallsType, Call
    <3>2. ~HasHand(g)'
      BY <3>1 DEF HasHand
    <3> QED
      BY <3>2 DEF HeldBy
  <2>6. ASSUME NEW h \in Generations \ {g} PROVE HeldBy(h)' <= HeldBy(h)
    <3>1. calls'[h] = calls[h]
      BY <1>5 DEF Release, CallsType
    <3>2. HeldBy(h)' = HeldBy(h)
      BY <3>1 DEF HeldBy, HasHand
    <3> QED
      BY <1>g, <3>2
  <2>7. PICK d \in Int : d = -n
    BY <2>3
  <2>8. HeldBy(g)' <= HeldBy(g) + d
    BY <2>3, <2>5, <2>7
  <2>9. Held' <= Held + d
    BY <2>6, <2>8, HeldGrows
  <2>10. /\ requests' = requests /\ HeldByApp' = HeldByApp /\ HeldByWorker' = HeldByWorker
    BY <1>5 DEF Release, HeldByApp, HeldByWorker, Putting, Taken, appVars
  <2>11. Queued' = Queued
    BY <2>10, QueuedSteps
  <2>12. /\ n \in Nat /\ d = -n /\ queued = Queued /\ byApp = HeldByApp /\ byWorker = HeldByWorker
         /\ held <= Held + d /\ left >= pending - n
    BY <1>p, <2>3, <2>4, <2>7, <2>9, <2>10, <2>11
  <2>13. (((queued + byApp) + byWorker) + held) - left <= Forgotten
    BY <1>k, <2>12
  <2> QED
    BY <1>q, <2>13
<1>6. ASSUME NEW g \in Generations, GetAudio(g) PROVE Forgotten' <= Forgotten
  <2>1. Takes /\ IsAudio(Head(requests)) /\ pending' = pending
    BY <1>6 DEF GetAudio, Takes, IsAudio
  <2>2. Head(requests) \in Request
    BY <2>1, TailFacts DEF Takes, RestType
  <2>3. PICK n : n = Head(requests).n
    OBVIOUS
  <2>4. n \in Nat /\ Queued = n + Queued'
    BY <2>1, <2>2, <2>3, AudioType, QueuedSteps
  <2>5. HeldBy(g)' = n
    <3>1. calls'[g].iterator = "checking" /\ calls'[g].hand = Head(requests)
      BY <1>6 DEF GetAudio, CallsType, Call
    <3>2. HasHand(g)'
      BY <3>1 DEF HasHand
    <3> QED
      BY <2>3, <3>1, <3>2 DEF HeldBy
  <2>6. ASSUME NEW h \in Generations \ {g} PROVE HeldBy(h)' <= HeldBy(h)
    <3>1. calls'[h] = calls[h]
      BY <1>6 DEF GetAudio, CallsType
    <3>2. HeldBy(h)' = HeldBy(h)
      BY <3>1 DEF HeldBy, HasHand
    <3> QED
      BY <1>g, <3>2
  <2>7. n \in Int /\ HeldBy(g)' <= HeldBy(g) + n
    BY <1>g, <2>4, <2>5
  <2>8. Held' <= Held + n
    BY <2>6, <2>7, HeldGrows
  <2>9. HeldByApp' = HeldByApp /\ HeldByWorker' = HeldByWorker
    BY <1>6 DEF GetAudio, HeldByApp, HeldByWorker, Putting, Taken, appVars
  <2>10. /\ n \in Nat /\ Queued = n + queued /\ byApp = HeldByApp /\ byWorker = HeldByWorker
         /\ held <= Held + n /\ left = pending
    BY <1>p, <2>1, <2>4, <2>8, <2>9
  <2>11. (((queued + byApp) + byWorker) + held) - left <= Forgotten
    BY <1>k, <2>10
  <2> QED
    BY <1>q, <2>11
<1>7. CASE /\ \A n \in Sizes : ~Reserve(n)
           /\ ~PutFrame /\ ~TakeFirst /\ ~Open
           /\ \A g \in Generations : ~Release(g) /\ ~GetAudio(g)
  <2>1. Queued' <= Queued /\ HeldByApp' <= HeldByApp /\ HeldByWorker' <= HeldByWorker
    BY <1>7, QueuedSteps, AppHolds, WorkerHolds
  <2>2. pending' = pending
    BY <1>7, PendingSteps
  <2>3. Held' <= Held
    BY <1>7, IteratorHolds, HeldStays
  <2>4. /\ queued <= Queued /\ byApp <= HeldByApp /\ byWorker <= HeldByWorker
        /\ held <= Held /\ left = pending
    BY <1>p, <2>1, <2>2, <2>3
  <2>5. (((queued + byApp) + byWorker) + held) - left <= Forgotten
    BY <1>k, <2>4
  <2> QED
    BY <1>q, <2>5
<1> QED
  BY <1>1, <1>2, <1>3, <1>4, <1>5, <1>6, <1>7

\* A drain's last step keeps the load, and forgets what is still reserved.
LEMMA ZeroForgets ==
    ASSUME TypeInv, TypeInv', NEW actor \in Actors, ZeroPending(actor)
    PROVE  Forgotten' <= Load
<1>1. HeldByApp' <= HeldByApp /\ HeldByWorker' <= HeldByWorker
  <2>1. /\ frame' = frame /\ (Putting' => Putting)
        /\ first' = first /\ (Taken' => Taken)
    BY TypeParts DEF ZeroPending, TypeInv, Actors, Moves, Place, Putting, Taken, appVars
  <2> QED
    BY <2>1, HeldTypes DEF HeldByApp, HeldByWorker
<1>2. Queued' = Queued /\ pending' = 0
  BY DEF ZeroPending, Queued
<1>3. Held' <= Held
  BY HeldSame DEF ZeroPending
<1>4. /\ Load = ((Queued + HeldByApp) + HeldByWorker) + Held
      /\ Forgotten' = (((Queued' + HeldByApp') + HeldByWorker') + Held') - pending'
  BY DEF Forgotten, Load
<1> QED
  BY <1>1, <1>2, <1>3, <1>4, HeldTypes, HeldTypesNext DEF HeldType

-----------------------------------------------------------------------------
(* What drains may forget. *)

LEMMA GenerationSteps ==
    ASSUME Next
    PROVE  generation' \in {generation, generation + 1}
<1>1. ASSUME NEW actor \in Actors, ForceReset(actor)
      PROVE  generation' = generation
  BY <1>1 DEF ForceReset, SetReset, CancelCall, DrainOne, ZeroPending, PutReset
<1>2. CASE AppStep
  BY <1>1, <1>2 DEF AppStep, PutFrame, PutEnd, Joined, JoinTimeout, PutStop, Rejoined, Actors
<1>3. CASE WorkerStep
  BY <1>1, <1>3 DEF WorkerStep, ProbeSucceeds, ProbeFails, TakeFirst, TakeOther, Start, Open, SetCall,
                    CallFailed, CallStopped, DropCall, BackOff, Actors
<1>4. CASE \E g \in Generations : IteratorStep(g) \/ Lose(g)
  BY <1>4 DEF IteratorStep, Check, Send, Abandon, Release, GetAudio, GetOther, Steal, Lose
<1>5. CASE Operation
  BY <1>5 DEF Operation, SkipFrame, Reserve, Refuse, Toggle, Close, appVars
<1>6. CASE Response
  BY <1>6 DEF Response, Accepted, DeliverAudio, Ended, BadResponse
<1> QED
  BY <1>2, <1>3, <1>4, <1>5, <1>6 DEF Next

LEMMA NextFresh ==
    ASSUME TypeInv, FreshIterators, Next
    PROVE  FreshIterators'
<1> SUFFICES ASSUME NEW g \in Generations, g > generation' PROVE calls'[g].iterator = "done"
  BY DEF FreshIterators
<1> CallsType
  BY TypeParts DEF TypeInv
<1>1. generation \in Nat /\ g \in Nat
  BY WorkerAssumption DEF TypeInv, TypeOK, Generations
<1>2. generation' \in {generation, generation + 1}
  BY GenerationSteps
<1>3. g > generation /\ calls[g].iterator = "done"
  <2>1. PICK next \in Nat : next = generation' /\ next >= generation
    BY <1>1, <1>2
  <2>2. g > next
    BY <2>1
  <2>3. g > generation
    BY <1>1, <2>1, <2>2
  <2> QED
    BY <2>3 DEF FreshIterators
<1>4. g # generation /\ calls[g] \in Call
  <2>1. calls[g] \in Call
    BY CallFacts
  <2>2. g # generation
    BY <1>1, <1>3
  <2> QED
    BY <2>1, <2>2
<1>5. CASE \/ calls'[g] = calls[g]
           \/ calls'[g] = [calls[g] EXCEPT !.over = TRUE]
           \/ calls'[g] = NoCall
  BY <1>3, <1>4, <1>5 DEF Call, NoCall
<1>6. CASE Check(g) \/ Send(g) \/ Release(g) \/ GetAudio(g) \/ GetOther(g)
  BY <1>3, <1>6 DEF Check, Send, Release, GetAudio, GetOther
<1> QED
  BY <1>4, <1>5, <1>6, CallSteps

\* A thread gets to the end of its drain by seeing the queue empty.
Zeroing == at.worker \in {"zero", "zeroFailed"}
LEMMA ZeroSteps ==
    ASSUME TypeInv, Next
    PROVE  /\ Zeroing' => \/ Zeroing /\ ~ZeroPending("worker")
                          \/ DrainOne("worker") /\ requests = <<>>
           /\ at'.app = "zero" => \/ at.app = "zero" /\ ~PutFrame /\ ~PutEnd
                                  \/ DrainOne("app") /\ requests = <<>>
<1> at \in Place
  BY TypeParts DEF TypeInv
<1>1. CASE ForceReset("worker")
  BY <1>1 DEF ForceReset, SetReset, CancelCall, DrainOne, ZeroPending, PutReset, Moves, Place, Zeroing,
              PutFrame, PutEnd
<1>2. CASE ForceReset("app")
  BY <1>2 DEF ForceReset, SetReset, CancelCall, DrainOne, ZeroPending, PutReset, Moves, Place, Zeroing,
              PutFrame, PutEnd
<1>3. CASE AppStep /\ ~ForceReset("app")
  BY <1>3 DEF AppStep, PutFrame, PutEnd, Joined, JoinTimeout, PutStop, Rejoined, Moves, Place, Zeroing,
              ZeroPending
<1>4. CASE WorkerStep /\ ~ForceReset("worker")
  BY <1>4 DEF WorkerStep, ProbeSucceeds, ProbeFails, TakeFirst, TakeOther, Start, Open, SetCall,
              CallFailed, CallStopped, DropCall, BackOff, Moves, Place, Zeroing, ZeroPending,
              PutFrame, PutEnd
<1>5. CASE \E g \in Generations : IteratorStep(g) \/ Lose(g)
  <2>1. at' = at
    BY <1>5 DEF IteratorStep, Check, Send, Abandon, Release, GetAudio, GetOther, Steal, Lose
  <2> QED
    BY <2>1 DEF Zeroing, ZeroPending, Moves, Place, PutFrame, PutEnd
<1>6. CASE Operation
  BY <1>6 DEF Operation, SkipFrame, Reserve, Refuse, Toggle, Close, Moves, Place, Zeroing, ZeroPending,
              PutFrame, PutEnd
<1>7. CASE Response
  BY <1>7 DEF Response, Accepted, DeliverAudio, Ended, BadResponse, Moves, Place, Zeroing, ZeroPending,
              PutFrame, PutEnd
<1> QED
  BY <1>1, <1>2, <1>3, <1>4, <1>5, <1>6, <1>7 DEF Next

LEMMA NextAppZero ==
    ASSUME TypeInv, TypeInv', at.app = "zero" => Queued = 0, Next, at'.app = "zero"
    PROVE  Queued' = 0
<1>1. Queued \in Nat /\ Queued' \in Nat
  BY HeldTypes, HeldTypesNext DEF HeldType
<1>2. CASE at.app = "zero" /\ ~PutFrame
  BY <1>1, <1>2, QueuedSteps
<1>3. CASE DrainOne("app") /\ requests = <<>>
  <2>1. requests' = <<>>
    BY <1>3 DEF DrainOne
  <2>2. Queued = 0 /\ Queued' = Queued
    BY <1>3, <2>1, HeldTypes, QueueSums, QueuedSteps DEF TypeInv, TypeOK
  <2> QED
    BY <2>2
<1> QED
  BY <1>2, <1>3, ZeroSteps

\* Of what was put while the application drained nothing is forgotten, and what
\* is held when the worker sees the queue empty is a frame of each thread.
LEMMA LittleIsHeld ==
    ASSUME TypeInv, FreshIterators, NEW n, LargestFrame(n)
    PROVE  /\ Queued = 0 /\ ~Putting => Load <= (generation + 1) * n
           /\ Queued = 0 /\ ~Taken => Load <= (generation + 1) * n
<1>1. n \in Nat /\ generation \in Nat
  BY WorkerAssumption DEF LargestFrame, TypeInv, TypeOK, Generations
<1>2. (generation + 1) * n = generation * n + n
  BY <1>1
<1>3. PICK most \in Int : most = generation * n
  BY <1>1
<1>4. /\ HeldByApp \in Nat /\ HeldByWorker \in Nat /\ Held \in Nat
      /\ HeldByApp <= n /\ HeldByWorker <= n /\ Held <= most
  BY <1>3, HeldTypes, HeldBounds
<1>5. (~Putting => HeldByApp = 0) /\ (~Taken => HeldByWorker = 0)
  BY DEF HeldByApp, HeldByWorker
<1>6. Load = ((Queued + HeldByApp) + HeldByWorker) + Held
  BY DEF Load
<1>7. /\ Queued = 0 /\ HeldByApp = 0 => Load <= most + n
      /\ Queued = 0 /\ HeldByWorker = 0 => Load <= most + n
  BY <1>1, <1>4, <1>6
<1> QED
  BY <1>2, <1>3, <1>5, <1>7

LEMMA NextForgottenOK ==
    ASSUME TypeInv, TypeInv', NEW n, LargestFrame(n), LoadInv(n), Next
    PROVE  ForgottenOK(n)'
<1> FreshIterators /\ ForgottenOK(n) /\ at \in Place
  BY TypeParts DEF LoadInv, TypeInv
<1>1. /\ Load \in Int /\ Forgotten \in Int /\ Forgotten' \in Int /\ pending \in 0..MaxQueued
      /\ Load = Forgotten + pending /\ MaxQueued \in Nat /\ n \in Nat
  <2>1. pending \in 0..MaxQueued /\ pending' \in Int /\ MaxQueued \in Nat
    BY WorkerAssumption DEF TypeInv, TypeOK
  <2>2. Load \in Int
    BY HeldTypes DEF Load
  <2>3. Load' \in Int
    BY HeldTypesNext DEF HeldType, Load
  <2>4. Forgotten' \in Int
    BY <2>1, <2>3 DEF Forgotten
  <2> QED
    BY <2>1, <2>2, <2>4 DEF Forgotten, LargestFrame
<1>2. PICK lost \in Int, most \in Int, more \in Int :
        /\ lost = Forgotten'
        /\ most = (generation + 1) * n /\ more = (generation' + 1) * n
        /\ most <= more
  <2>1. generation \in Nat /\ generation' \in {generation, generation + 1}
    BY GenerationSteps, WorkerAssumption DEF TypeInv, TypeOK, Generations
  <2>2. (generation + 1) * n \in Int /\ ((generation + 1) + 1) * n = (generation + 1) * n + n
    BY <1>1, <2>1
  <2>3. \/ (generation' + 1) * n = (generation + 1) * n
        \/ (generation' + 1) * n = (generation + 1) * n + n
    BY <2>1, <2>2
  <2>4. PICK most \in Int : most = (generation + 1) * n
    BY <2>2
  <2>5. PICK more \in Int : more = (generation' + 1) * n /\ (more = most \/ more = most + n)
    BY <1>1, <2>3, <2>4
  <2>6. most <= more
    BY <1>1, <2>5
  <2> QED
    BY <1>1, <2>4, <2>5, <2>6
<1>3. Forgotten <= MaxQueued + most /\ (Zeroing => Forgotten <= most)
  BY <1>2 DEF ForgottenOK, Zeroing
<1>4. \/ lost <= Forgotten
      \/ ZeroPending("app") /\ lost <= Load
      \/ ZeroPending("worker") /\ lost <= Load
  BY <1>2, NextForgotten, ZeroForgets DEF Actors
<1>5. ZeroPending("app") => Load <= most
  <2>1. ASSUME ZeroPending("app") PROVE at.app = "zero" /\ ~Putting
    BY <2>1 DEF ZeroPending, Place, AppStates, Putting
  <2>2. ASSUME ZeroPending("app") PROVE Queued = 0
    BY <2>1, <2>2 DEF ForgottenOK
  <2> QED
    BY <1>2, <2>1, <2>2, LittleIsHeld
<1>6. ZeroPending("worker") => Zeroing
  BY DEF ZeroPending, Zeroing
<1>7. lost <= MaxQueued + more
  BY <1>1, <1>2, <1>3, <1>4, <1>5, <1>6
<1>8. ASSUME Zeroing' PROVE lost <= more
  <2>1. CASE Zeroing /\ ~ZeroPending("worker")
    BY <1>1, <1>2, <1>3, <1>4, <1>5, <2>1
  <2>2. CASE DrainOne("worker") /\ requests = <<>>
    <3>1. ~Taken /\ ~ZeroPending("worker") /\ ~ZeroPending("app")
      BY <2>2 DEF DrainOne, ZeroPending, Taken, Moves, Place
    <3>2. Queued = 0
      BY <2>2, HeldTypes, QueueSums DEF TypeInv, TypeOK
    <3>3. Load <= most
      BY <1>2, <3>1, <3>2, LittleIsHeld
    <3>4. Forgotten <= most
      BY <1>1, <3>3
    <3> QED
      BY <1>1, <1>2, <1>4, <3>1, <3>4
  <2> QED
    BY <1>8, <2>1, <2>2, ZeroSteps
<1>9. at'.app = "zero" => Queued' = 0
  BY NextAppZero DEF ForgottenOK
<1> QED
  BY <1>2, <1>7, <1>8, <1>9 DEF ForgottenOK, Zeroing

\* The largest frame that can be accepted: zero when none can.
Largest == CHOOSE n \in Sizes \cup {0} : LargestFrame(n)

LEMMA LargestExists == Largest \in Sizes \cup {0} /\ LargestFrame(Largest)
<1> DEFINE AtLeast(n, m) == n \in Nat /\ \A k \in Sizes : k <= m => k <= n
           S == {m \in 0..MaxQueued : \E n \in Sizes \cup {0} : AtLeast(n, m)}
<1>1. Sizes \subseteq Nat \ {0} /\ MaxQueued \in Nat
  BY WorkerAssumption
<1>2. 0 \in S
  <2>1. AtLeast(0, 0)
    BY <1>1
  <2> QED
    BY <1>1, <2>1
<1>3. ASSUME NEW m \in 0..(MaxQueued - 1), m \in S
      PROVE  m + 1 \in S
  <2>1. PICK n \in Sizes \cup {0} : AtLeast(n, m)
    BY <1>3
  <2>2. m + 1 \in 0..MaxQueued /\ m \in Nat
    BY <1>1
  <2>3. CASE m + 1 \in Sizes
    <3>1. AtLeast(m + 1, m + 1)
      BY <1>1, <2>2
    <3> QED
      BY <2>2, <2>3, <3>1
  <2>4. CASE m + 1 \notin Sizes
    <3>1. ASSUME NEW k \in Sizes, k <= m + 1 PROVE k <= n
      <4>1. k \in Nat /\ k # m + 1
        BY <1>1, <2>4
      <4>2. k <= m
        BY <2>2, <3>1, <4>1
      <4> QED
        BY <2>1, <4>2
    <3>2. AtLeast(n, m + 1)
      BY <2>1, <3>1
    <3> HIDE DEF AtLeast
    <3> QED
      BY <2>2, <3>2
  <2> QED
    BY <2>3, <2>4
<1> HIDE DEF S
<1>4. MaxQueued \in S
  BY <1>1, <1>2, <1>3, Counting
<1>5. PICK n \in Sizes \cup {0} : LargestFrame(n)
  BY <1>4 DEF S, LargestFrame
<1> QED
  BY <1>5 DEF Largest

\* Audio waiting in the queue, within twice the limit and a frame for each call
\* so far and one more.
QueueBounded == \E n \in Sizes \cup {0} : Queued <= 2 * MaxQueued + (generation + 1) * n

LEMMA LoadBoundsQueue ==
    ASSUME TypeInv, ForgottenBounded
    PROVE  QueueBounded
<1>1. PICK n \in Sizes \cup {0} : Forgotten <= MaxQueued + (generation + 1) * n
  BY DEF ForgottenBounded
<1>2. /\ Queued \in Nat /\ HeldByApp \in Nat /\ HeldByWorker \in Nat /\ Held \in Nat
      /\ pending \in 0..MaxQueued /\ MaxQueued \in Nat /\ generation \in Nat /\ n \in Nat
  BY HeldTypes, WorkerAssumption DEF TypeInv, TypeOK, Generations
<1>3. PICK most \in Int : most = (generation + 1) * n
  BY <1>2
<1>4. Forgotten = (((Queued + HeldByApp) + HeldByWorker) + Held) - pending
  BY DEF Forgotten, Load
<1>5. Queued <= 2 * MaxQueued + most
  BY <1>1, <1>2, <1>3, <1>4
<1> QED
  BY <1>3, <1>5 DEF QueueBounded

LEMMA InitLoad ==
    ASSUME Init
    PROVE  LoadInv(Largest)
<1>1. TypeInv
  BY InitTypes
<1>2. FreshIterators /\ at.worker = "probing" /\ at.app = "idle" /\ generation = 0 /\ pending = 0
  BY DEF Init, FreshIterators, NoCall
<1>3. Queued = 0
  BY <1>1, HeldTypes, QueueSums DEF Init, TypeInv, TypeOK
<1>4. Load <= (generation + 1) * Largest
  BY <1>1, <1>2, <1>3, LittleIsHeld, LargestExists DEF Putting
<1>5. Largest \in Nat /\ MaxQueued \in Nat /\ Load \in Int
  BY <1>1, LargestExists, HeldTypes, WorkerAssumption DEF LargestFrame, Load
<1>6. Forgotten = Load
  BY <1>2, <1>5 DEF Forgotten
<1>7. (generation + 1) * Largest = Largest
  BY <1>2, <1>5
<1>8. Forgotten <= MaxQueued + (generation + 1) * Largest
  BY <1>4, <1>5, <1>6, <1>7
<1> QED
  BY <1>2, <1>8 DEF LoadInv, ForgottenOK

\* For every limit, set of frame sizes and number of calls: of the audio that was
\* accepted and neither given back nor lost, the count of pending samples misses
\* at most the limit and a frame for each call so far and one more, whatever
\* drains of either thread forget and releases of earlier calls give back late
\* (try_send, _drain_requests and _request_iterator).
THEOREM ForgottenStaysBounded == Spec => []ForgottenBounded
<1> DEFINE Accounts == TypeInv /\ LoadInv(Largest)
<1>1. Init => Accounts
  BY InitTypes, InitLoad
<1>2. TypeInv /\ LoadInv(Largest) /\ Next => LoadInv(Largest)'
  <2>1. LargestFrame(Largest)
    BY LargestExists
  <2> QED
    BY <2>1, NextTypeInv, NextFresh, NextForgottenOK DEF LoadInv
<1>3. TypeInv /\ LoadInv(Largest) /\ UNCHANGED vars => LoadInv(Largest)'
  BY DEF LoadInv, FreshIterators, ForgottenOK, Forgotten, Load, Queued, HeldByApp, HeldByWorker, Held,
         HeldVector, HeldBy, HasHand, Putting, Taken, vars, appVars
<1>4. Accounts /\ [Next]_vars => Accounts'
  BY <1>2, <1>3, NextTypeInv, VarsStay
<1>5. Accounts => ForgottenBounded
  BY LargestExists DEF LoadInv, ForgottenOK, ForgottenBounded
<1> HIDE DEF Accounts
<1> QED
  BY <1>1, <1>4, <1>5, PTL DEF Spec

\* Hence the memory a stalled worker can hold is bounded, but not by
\* max_request_queue_samples: audio waiting in the queue stays within twice that
\* limit and a frame for each call so far and one more.
THEOREM QueueStaysBounded == Spec => []QueueBounded
<1>1. TypeInv /\ ForgottenBounded => QueueBounded
  BY LoadBoundsQueue
<1> QED
  BY <1>1, TypesHold, ForgottenStaysBounded, PTL

=============================================================================

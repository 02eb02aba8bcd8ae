--------------------------- MODULE WorkerInterface ---------------------------
(***************************************************************************)
(* What GRPCWorker (transport.py) promises to the frame processor that     *)
(* owns it, without threads, queue or connection: of the samples it was    *)
(* offered it sends one contiguous stretch per generation, later stretches *)
(* starting where earlier ones ended or behind, and answers with enhanced  *)
(* samples of the running generation, in order and without a gap; that the *)
(* server answers only what it was sent is not checked.  It may end a      *)
(* generation at any time.                                                 *)
(***************************************************************************)
EXTENDS Integers

CONSTANT LastSample     \* bound: positions are 0..LastSample

ASSUME InterfaceAssumption == LastSample \in Nat

VARIABLES
    offered,        \* positions of the samples try_send has accepted
    generation,     \* the last generation announced by on_generation
    phase,          \* of that generation: "idle" before and after, "closed" for good
    sent,           \* the generation has sent the samples before this position,
    out             \* and delivered the enhanced ones before this one

interfaceVars == <<offered, generation, phase, sent, out>>

InterfaceInit ==
    /\ offered = {}
    /\ generation = 0
    /\ phase = "idle"
    /\ sent = 0
    /\ out = 0

\* try_send returns True.
Offer(start, n) ==
    /\ offered' = offered \cup start..(start + n - 1)
    /\ UNCHANGED <<generation, phase, sent, out>>

\* on_generation announces a generation, which starts at an offered sample.
Begin(start) ==
    /\ phase = "idle"
    /\ start \in offered
    /\ start >= sent
    /\ generation' = generation + 1
    /\ phase' = "streaming"
    /\ sent' = start
    /\ out' = start
    /\ UNCHANGED offered

Advance(until) ==
    /\ phase = "streaming"
    /\ until > sent
    /\ sent..(until - 1) \subseteq offered
    /\ sent' = until
    /\ UNCHANGED <<offered, generation, phase, out>>

\* on_audio hands over the next enhanced samples.
Deliver(until) ==
    /\ phase = "streaming"
    /\ out < until
    /\ until <= sent
    /\ out' = until
    /\ UNCHANGED <<offered, generation, phase, sent>>

\* A server out of contract answers beyond what it was sent: the worker checks
\* that its answers are contiguous, not where they end.
Overrun(until) ==
    /\ phase = "streaming"
    /\ out < until /\ sent < until
    /\ out' = until
    /\ UNCHANGED <<offered, generation, phase, sent>>

\* What the generation has not delivered will never be.
EndGeneration ==
    /\ phase = "streaming"
    /\ phase' = "idle"
    /\ out' = sent
    /\ UNCHANGED <<offered, generation, sent>>

CloseWorker ==
    /\ phase # "closed"
    /\ phase' = "closed"
    /\ out' = sent
    /\ UNCHANGED <<offered, generation, sent>>

InterfaceNext ==
    \/ \E start \in 0..LastSample : \E n \in 1..(LastSample + 1 - start) : Offer(start, n)
    \/ \E start \in 0..LastSample : Begin(start)
    \/ \E until \in 1..(LastSample + 1) : Advance(until) \/ Deliver(until) \/ Overrun(until)
    \/ EndGeneration
    \/ CloseWorker

InterfaceSpec == InterfaceInit /\ [][InterfaceNext]_interfaceVars

=============================================================================

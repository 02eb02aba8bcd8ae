------------------------ MODULE ServerLifecycleProofs ------------------------
(* Proofs about the server's life: for every number of RPCs. *)
EXTENDS ServerLifecycle, TLAPS

\* The stages in which all checks have passed; in which the scheduler has been
\* started and not closed; in which both servers are up; in which something may
\* say that the server serves; and in which nothing does any more.
Checked == Stages \ {"model", "warm_up", "isolation", "exited"}
Scheduling == Checked \ {"scheduler", "closeHttp"}
Up == {"ready", "serve", "serveService", "handle", "waiting", "unready", "unserve",
       "unserveService", "stop"}
Announced == Up \ {"ready", "stop"}
Withdrawn == {"stop", "draining", "closeScheduler", "closeHttp"}

\* What each stage of run has behind it.
StageInv ==
    /\ at = "model" => checked = {}
    /\ at = "warm_up" => checked = {"model"}
    /\ at = "isolation" => checked = {"model", "warm_up"}
    /\ at \in Checked => checked = Checks
    /\ at \in Scheduling => scheduler \in {"running", "dead"}
    /\ at = "grpc" => http
    /\ at \in Up => http /\ listening
    /\ at \notin Announced => serving = {}
    /\ listening => at \in Up
    /\ at \in {"closeScheduler", "closeHttp"} => Open = {}
    /\ scheduler = "closed" => at \in {"closeHttp", "exited"}
    /\ at = "unserve" => "readyz" \notin serving
    /\ at = "unserveService" => serving \subseteq {"EnhancementService"}
    /\ at = "exited" => Open = {}

LifecycleInv == TypeOK /\ StageInv

LEMMA InitLifecycle == Init => LifecycleInv
BY DEF Init, LifecycleInv, TypeOK, StageInv, Stages, Checks, Names, Checked, Scheduling, Up,
       Announced, Withdrawn, Open

\* An exit leaves nothing announced and no RPC open.
LEMMA ExitLifecycle ==
    ASSUME LifecycleInv, NEW how \in {"stopped", "failed", "killed"}, Exit(how),
           UNCHANGED <<checked, scheduler, handlers, stopping>>
    PROVE  LifecycleInv'
<1>1. Open' = {}
  BY DEF Exit, Open, LifecycleInv, TypeOK
<1>2. TypeOK'
  BY DEF Exit, Open, LifecycleInv, TypeOK, Stages
<1> QED
  BY <1>1, <1>2 DEF Exit, LifecycleInv, StageInv, Checked, Scheduling, Up, Announced, Stages

LEMMA StartUpLifecycle ==
    ASSUME LifecycleInv, StartUp
    PROVE  LifecycleInv'
<1>1. Open' = Open
  BY DEF StartUp, Check, StartScheduler, Bind, StartHttp, StartGrpc, Announce,
         InstallHandlers, Open
<1> USE <1>1 DEF LifecycleInv, TypeOK, StageInv, Stages, Checks, Names, Checked, Scheduling,
                 Up, Announced
<1>2. CASE Check("model", "warm_up")
  BY <1>2 DEF Check
<1>3. CASE Check("warm_up", "isolation")
  BY <1>3 DEF Check
<1>4. CASE Check("isolation", "scheduler")
  BY <1>4 DEF Check
<1>5. CASE StartScheduler
  BY <1>5 DEF StartScheduler
<1>6. CASE Bind
  BY <1>6 DEF Bind
<1>7. CASE StartHttp
  BY <1>7 DEF StartHttp
<1>8. CASE StartGrpc
  BY <1>8 DEF StartGrpc
<1>9. CASE Announce("ready", "readyz", "serve")
  BY <1>9 DEF Announce
<1>10. CASE Announce("serve", "", "serveService")
  BY <1>10 DEF Announce
<1>11. CASE Announce("serveService", "EnhancementService", "handle")
  BY <1>11 DEF Announce
<1>12. CASE InstallHandlers
  BY <1>12 DEF InstallHandlers
<1> QED
  BY <1>2, <1>3, <1>4, <1>5, <1>6, <1>7, <1>8, <1>9, <1>10, <1>11, <1>12 DEF StartUp

LEMMA ShutDownLifecycle ==
    ASSUME LifecycleInv, ShutDown
    PROVE  LifecycleInv'
<1>1. CASE CloseDeadScheduler \/ CloseHttp
  BY <1>1, ExitLifecycle DEF CloseDeadScheduler, CloseHttp
<1>2. CASE Drained
  <2>1. Open' = {}
    BY <1>2 DEF Drained, Open, LifecycleInv, TypeOK
  <2>2. TypeOK'
    BY <1>2 DEF Drained, Open, LifecycleInv, TypeOK, Stages
  <2> QED
    BY <1>2, <2>1, <2>2
       DEF Drained, LifecycleInv, StageInv, Checked, Scheduling, Up, Announced, Stages
<1>3. ASSUME UNCHANGED calls
      PROVE  Open' = Open
  BY <1>3 DEF Open
<1> USE DEF LifecycleInv, TypeOK, StageInv, Stages, Checks, Names, Checked, Scheduling,
            Up, Announced
<1>4. CASE StopWaiting
  BY <1>3, <1>4 DEF StopWaiting
<1>5. CASE Withdraw("unready", "readyz", "unserve")
  BY <1>3, <1>5 DEF Withdraw
<1>6. CASE Withdraw("unserve", "", "unserveService")
  BY <1>3, <1>6 DEF Withdraw
<1>7. CASE Withdraw("unserveService", "EnhancementService", "stop")
  BY <1>3, <1>7 DEF Withdraw
<1>8. CASE Stop
  BY <1>3, <1>8 DEF Stop
<1>9. CASE CloseScheduler
  BY <1>3, <1>9 DEF CloseScheduler
<1> QED
  BY <1>1, <1>2, <1>4, <1>5, <1>6, <1>7, <1>8, <1>9 DEF ShutDown

LEMMA WorldLifecycle ==
    ASSUME LifecycleInv, World
    PROVE  LifecycleInv'
<1>1. ASSUME NEW c \in Calls, Arrive(c)
      PROVE  LifecycleInv'
  <2>1. TypeOK'
    BY <1>1 DEF Arrive, LifecycleInv, TypeOK
  <2>2. ~listening => Open' \subseteq Open
    BY <1>1 DEF Arrive, Open, LifecycleInv, TypeOK
  <2>3. at \in {"closeScheduler", "closeHttp", "exited"} => ~listening
    BY DEF LifecycleInv, StageInv, Up
  <2> QED
    BY <1>1, <2>1, <2>2, <2>3 DEF Arrive, LifecycleInv, StageInv
<1>2. ASSUME NEW c \in Calls, Finish(c)
      PROVE  LifecycleInv'
  <2>1. TypeOK'
    BY <1>2 DEF Finish, LifecycleInv, TypeOK
  <2>2. Open' \subseteq Open
    BY <1>2 DEF Finish, Open, LifecycleInv, TypeOK
  <2> QED
    BY <1>2, <2>1, <2>2 DEF Finish, LifecycleInv, StageInv
<1>3. CASE Signal
  BY <1>3 DEF Signal, LifecycleInv, TypeOK, StageInv, Open
<1>4. CASE SignalKills
  BY <1>4, ExitLifecycle DEF SignalKills
<1>5. CASE SchedulerDies
  BY <1>5 DEF SchedulerDies, LifecycleInv, TypeOK, StageInv, Open
<1> QED
  BY <1>1, <1>2, <1>3, <1>4, <1>5 DEF World

LEMMA StepLifecycle ==
    ASSUME LifecycleInv, [Next]_vars
    PROVE  LifecycleInv'
<1>1. CASE Raise
  BY <1>1, ExitLifecycle DEF Raise
<1>2. CASE UNCHANGED vars
  BY <1>2 DEF vars, LifecycleInv, TypeOK, StageInv, Open
<1> QED
  BY <1>1, <1>2, StartUpLifecycle, ShutDownLifecycle, WorldLifecycle DEF Next

-----------------------------------------------------------------------------
(* The theorems. *)

\* Readiness and health are announced only by a server that has passed every
\* check, has its scheduler and can be called (run, from the model check to the
\* last set of the health servicer).
THEOREM HealthIsAlwaysEarned == Spec => []HealthIsEarned
<1>1. LifecycleInv => HealthIsEarned
  BY DEF LifecycleInv, StageInv, HealthIsEarned, Checked, Scheduling, Up, Announced, Stages
<1> QED
  BY <1>1, InitLifecycle, StepLifecycle, PTL DEF Spec

\* Nothing announces a server that takes no more RPCs (the finally clause of
\* run clears readiness and health before it stops the gRPC server).
THEOREM WithdrawnFirst == Spec => []WithdrawnBeforeRefusing
<1>1. LifecycleInv => WithdrawnBeforeRefusing
  BY DEF LifecycleInv, StageInv, WithdrawnBeforeRefusing, Announced, Up
<1> QED
  BY <1>1, InitLifecycle, StepLifecycle, PTL DEF Spec

\* No RPC is open when the scheduler is closed, however many there were (the
\* finally clause of run closes it after the grace period).
THEOREM SchedulerClosesLast == Spec => []SchedulerOutlivesCalls
<1>1. LifecycleInv => SchedulerOutlivesCalls
  BY DEF LifecycleInv, StageInv, SchedulerOutlivesCalls
<1> QED
  BY <1>1, InitLifecycle, StepLifecycle, PTL DEF Spec

=============================================================================

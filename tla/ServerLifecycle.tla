--------------------------- MODULE ServerLifecycle ---------------------------
(***************************************************************************)
(* run (main.py) and the health endpoints (health.py): the server process  *)
(* from the first check to its exit.  A step is what happens between two   *)
(* awaits that matter; RPCs, signals and the scheduler's own failure come  *)
(* in between.  EnhancementService models what happens inside an RPC.      *)
(***************************************************************************)
EXTENDS Integers, FiniteSets

CONSTANT Calls          \* RPCs that ever arrive

VARIABLES
    at,             \* how far run has got
    checked,        \* start-up checks that have passed
    scheduler,      \* "new", "running", "dead" (its task raised), "closed"
    serving,        \* which of /readyz and the two gRPC health names say so
    http, listening,\* the two servers accept connections
    handlers,       \* SIGINT and SIGTERM are handled by the loop
    stopping,       \* the event that ends the wait
    calls,          \* by RPC: "new", "open", "finished", "cancelled", "refused"
    outcome         \* of the process

vars == <<at, checked, scheduler, serving, http, listening, handlers, stopping, calls, outcome>>

Checks == {"model", "warm_up", "isolation"}
Names == {"readyz", "", "EnhancementService"}
Stages == {"model", "warm_up", "isolation", "scheduler", "bind", "http", "grpc",
           "ready", "serve", "serveService", "handle", "waiting",
           "unready", "unserve", "unserveService", "stop", "draining",
           "closeScheduler", "closeHttp", "exited"}

TypeOK ==
    /\ at \in Stages
    /\ checked \subseteq Checks
    /\ scheduler \in {"new", "running", "dead", "closed"}
    /\ serving \subseteq Names
    /\ {http, listening, handlers, stopping} \subseteq BOOLEAN
    /\ calls \in [Calls -> {"new", "open", "finished", "cancelled", "refused"}]
    /\ outcome \in {"running", "stopped", "failed", "killed"}

Init ==
    /\ at = "model"
    /\ checked = {}
    /\ scheduler = "new"
    /\ serving = {}
    /\ http = FALSE /\ listening = FALSE /\ handlers = FALSE /\ stopping = FALSE
    /\ calls = [c \in Calls |-> "new"]
    /\ outcome = "running"

Open == {c \in Calls : calls[c] = "open"}

\* The process is gone, and with it whatever it was doing.
Exit(how) ==
    /\ at' = "exited"
    /\ outcome' = how
    /\ serving' = {}
    /\ http' = FALSE /\ listening' = FALSE
    /\ calls' = [c \in Calls |-> IF c \in Open THEN "cancelled" ELSE calls[c]]

-----------------------------------------------------------------------------
(* Start-up: any of these steps may raise, which ends the process. *)

Raise ==
    /\ at \in {"model", "warm_up", "isolation", "bind", "http"}
    /\ Exit("failed")
    /\ UNCHANGED <<checked, scheduler, handlers, stopping>>

\* The model is loaded and verified, warmed up, and its streams are isolated.
Check(check, next) ==
    /\ at = check
    /\ checked' = checked \cup {check}
    /\ at' = next
    /\ UNCHANGED <<scheduler, serving, http, listening, handlers, stopping, calls, outcome>>

StartScheduler ==
    /\ at = "scheduler"
    /\ scheduler' = "running"
    /\ at' = "bind"
    /\ UNCHANGED <<checked, serving, http, listening, handlers, stopping, calls, outcome>>

\* Both health names are set to NOT_SERVING and the port is bound.
\* (fault: to SERVING)
Bind_Serving ==
    /\ at = "bind"
    /\ serving' = serving \cup {"", "EnhancementService"}
    /\ at' = "http"
    /\ UNCHANGED <<checked, scheduler, http, listening, handlers, stopping, calls, outcome>>
Bind ==
    /\ at = "bind"
    /\ serving' = serving \ {"", "EnhancementService"}
    /\ at' = "http"
    /\ UNCHANGED <<checked, scheduler, http, listening, handlers, stopping, calls, outcome>>

StartHttp ==
    /\ at = "http"
    /\ http' = TRUE
    /\ at' = "grpc"
    /\ UNCHANGED <<checked, scheduler, serving, listening, handlers, stopping, calls, outcome>>

StartGrpc ==
    /\ at = "grpc"
    /\ listening' = TRUE
    /\ at' = "ready"
    /\ UNCHANGED <<checked, scheduler, serving, http, handlers, stopping, calls, outcome>>

\* ready.set(), then the two names of gRPC health.
Announce(stage, name, next) ==
    /\ at = stage
    /\ serving' = serving \cup {name}
    /\ at' = next
    /\ UNCHANGED <<checked, scheduler, http, listening, handlers, stopping, calls, outcome>>

InstallHandlers ==
    /\ at = "handle"
    /\ handlers' = TRUE
    /\ at' = "waiting"
    /\ UNCHANGED <<checked, scheduler, serving, http, listening, stopping, calls, outcome>>

-----------------------------------------------------------------------------
(* Shutdown. *)

StopWaiting ==
    /\ at = "waiting"
    /\ stopping
    /\ at' = "unready"
    /\ UNCHANGED <<checked, scheduler, serving, http, listening, handlers, stopping, calls, outcome>>

\* (fault: the service's own name goes on serving)
Withdraw_OverallOnly(stage, name, next) ==
    /\ at = stage
    /\ serving' = IF name = "EnhancementService" THEN serving ELSE serving \ {name}
    /\ at' = next
    /\ UNCHANGED <<checked, scheduler, http, listening, handlers, stopping, calls, outcome>>
Withdraw(stage, name, next) ==
    /\ at = stage
    /\ serving' = serving \ {name}
    /\ at' = next
    /\ UNCHANGED <<checked, scheduler, http, listening, handlers, stopping, calls, outcome>>

\* grpc_server.stop: no RPC is taken any more; the open ones may finish, ...
Stop ==
    /\ at = "stop"
    /\ listening' = FALSE
    /\ at' = "draining"
    /\ UNCHANGED <<checked, scheduler, serving, http, handlers, stopping, calls, outcome>>

\* ... until all have or graceful_shutdown_s is over and they are cancelled.
\* (faults: stop does not wait; stop waits for all of them)
Drained_AtOnce ==
    /\ at = "draining"
    /\ at' = "closeScheduler"
    /\ UNCHANGED <<checked, scheduler, serving, http, listening, handlers, stopping, calls, outcome>>
Drained_NoGrace ==
    /\ at = "draining"
    /\ Open = {}
    /\ at' = "closeScheduler"
    /\ UNCHANGED <<checked, scheduler, serving, http, listening, handlers, stopping, calls, outcome>>
Drained ==
    /\ at = "draining"
    /\ calls' = [c \in Calls |-> IF c \in Open THEN "cancelled" ELSE calls[c]]
    /\ at' = "closeScheduler"
    /\ UNCHANGED <<checked, scheduler, serving, http, listening, handlers, stopping, outcome>>

\* scheduler.close re-raises what its task died of.
CloseScheduler ==
    /\ at = "closeScheduler"
    /\ scheduler # "dead"
    /\ scheduler' = "closed"
    /\ at' = "closeHttp"
    /\ UNCHANGED <<checked, serving, http, listening, handlers, stopping, calls, outcome>>

CloseDeadScheduler ==
    /\ at = "closeScheduler"
    /\ scheduler = "dead"
    /\ Exit("failed")
    /\ UNCHANGED <<checked, scheduler, handlers, stopping>>

CloseHttp ==
    /\ at = "closeHttp"
    /\ Exit("stopped")
    /\ UNCHANGED <<checked, scheduler, handlers, stopping>>

-----------------------------------------------------------------------------
(* The world. *)

\* An RPC is taken as soon as the gRPC server listens, ready or not.
Arrive(c) ==
    /\ calls[c] = "new"
    /\ outcome = "running"
    /\ calls' = [calls EXCEPT ![c] = IF listening THEN "open" ELSE "refused"]
    /\ UNCHANGED <<at, checked, scheduler, serving, http, listening, handlers, stopping, outcome>>

\* With a scheduler that is dead it ends too, if its client leaves or idles.
Finish(c) ==
    /\ calls[c] = "open"
    /\ calls' = [calls EXCEPT ![c] = "finished"]
    /\ UNCHANGED <<at, checked, scheduler, serving, http, listening, handlers, stopping, outcome>>

\* SIGTERM sets the event once its handler is installed ...
Signal ==
    /\ handlers
    /\ at # "exited"
    /\ stopping' = TRUE
    /\ UNCHANGED <<at, checked, scheduler, serving, http, listening, handlers, calls, outcome>>

\* ... and ends the process before that.
SignalKills ==
    /\ ~handlers
    /\ at # "exited"
    /\ Exit("killed")
    /\ UNCHANGED <<checked, scheduler, handlers, stopping>>

\* An exception ends the scheduler task while it serves an RPC (see the run
\* scheduler_dies of EnhancementService); nobody looks before close.
SchedulerDies ==
    /\ scheduler = "running"
    /\ Open # {}
    /\ scheduler' = "dead"
    /\ UNCHANGED <<at, checked, serving, http, listening, handlers, stopping, calls, outcome>>

-----------------------------------------------------------------------------

StartUp ==
    \/ Check("model", "warm_up")
    \/ Check("warm_up", "isolation")
    \/ Check("isolation", "scheduler")
    \/ StartScheduler \/ Bind \/ StartHttp \/ StartGrpc
    \/ Announce("ready", "readyz", "serve")
    \/ Announce("serve", "", "serveService")
    \/ Announce("serveService", "EnhancementService", "handle")
    \/ InstallHandlers

ShutDown ==
    \/ StopWaiting
    \/ Withdraw("unready", "readyz", "unserve")
    \/ Withdraw("unserve", "", "unserveService")
    \/ Withdraw("unserveService", "EnhancementService", "stop")
    \/ Stop \/ Drained
    \/ CloseScheduler \/ CloseDeadScheduler \/ CloseHttp

World ==
    \/ \E c \in Calls : Arrive(c) \/ Finish(c)
    \/ Signal \/ SignalKills \/ SchedulerDies

Next == Raise \/ StartUp \/ ShutDown \/ World

Spec == Init /\ [][Next]_vars

\* Once told to stop, run goes on: its awaits are bounded by the grace period
\* and the scheduler's last inference.  No RPC need ever finish.
LiveSpec == Spec /\ WF_vars(ShutDown)

-----------------------------------------------------------------------------
(* Properties. *)

\* Readiness and gRPC health are announced only with every check passed, the
\* scheduler started and not closed, and the service there to be called.
HealthIsEarned ==
    serving # {} =>
        /\ checked = Checks
        /\ scheduler \in {"running", "dead"}
        /\ http /\ listening

\* By the time RPCs are no longer taken, nothing says that they would be; so a
\* client that trusts readiness or health is never refused while draining.
WithdrawnBeforeRefusing == at \in {"draining", "closeScheduler", "closeHttp"} => serving = {}

\* The scheduler is closed only when no RPC needs it any more.
SchedulerOutlivesCalls == scheduler = "closed" => Open = {}

\* A signal that was handled ends the process, however many RPCs are open and
\* whether or not the scheduler is alive.
SignalEndsProcess == stopping ~> at = "exited"

=============================================================================

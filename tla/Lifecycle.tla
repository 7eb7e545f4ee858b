------------------------------- MODULE Lifecycle ------------------------------
(***************************************************************************)
(* One process from fx.New(...).Run() to its end: the hooks of             *)
(* registerLifecycle and newDatabase, the four workers, the requests the   *)
(* HTTP server has accepted, and the handshake between ConsumerWorker.Run  *)
(* and the goroutine that watches its operation during shutdown.           *)
(*                                                                         *)
(* Fx, net/http and the contexts are external, modelled from their use:    *)
(* stop hooks run in the reverse order of their registration and none      *)
(* starts once the shutdown context has expired; the process ends when the *)
(* hooks are done or the context has expired.                              *)
(***************************************************************************)
EXTENDS FiniteSets

CONSTANTS
  Worker,         \* the workers besides the consumer: outbox, resolver, monitor
  Monitor,        \* those of them that do not use the pool
  Call            \* HTTP requests

ASSUME WorkerAssumption == Monitor \subseteq Worker

VARIABLES
  app,            \* what the Fx application is doing
  expired,        \* the shutdown context of Fx is done
  cancelled,      \* the shared worker context is cancelled
  handed,         \* shutdownContexts holds the shutdown context
  http,           \* off, serving, failed (Serve has returned) or closed
  calls,          \* none, active or done
  workers,        \* none, idle, busy (in an operation) or done
  run,            \* where ConsumerWorker.Run is
  watcher,        \* where watchForShutdown is
  bounded,        \* the watcher has the shutdown context, not Background
  spent,          \* the drain timer of this operation has fired
  aborted,        \* cancelProcessing has been called
  opDone,         \* operationDone is closed
  pool            \* open or closed

consumer == <<run, watcher, bounded, spent, aborted, opDone>>
vars == <<app, expired, cancelled, handed, http, calls, workers, consumer, pool>>

\* The phases of OnStop, in order, and what may follow a failed start.
Stopping == {"prepare", "cancel", "drain", "http", "requests", "hooks"}

\* The types of the flags and places above; an operation and its watcher come
\* and go together.
TypeOK ==
  /\ app \in {"new", "bound", "up", "failed", "closed", "exited"} \cup Stopping
  /\ expired \in BOOLEAN /\ cancelled \in BOOLEAN /\ handed \in BOOLEAN
  /\ http \in {"off", "serving", "failed", "closed"}
  /\ calls \in [Call -> {"none", "active", "done"}]
  /\ workers \in [Worker -> {"none", "idle", "busy", "done"}]
  /\ run \in {"none", "top", "receive", "process", "returned", "join", "pause", "done"}
  /\ watcher \in {"none", "watching", "stopping", "draining", "aborting", "done"}
  /\ bounded \in BOOLEAN /\ spent \in BOOLEAN
  /\ aborted \in BOOLEAN /\ opDone \in BOOLEAN
  /\ pool \in {"open", "closed"}
  /\ run \in {"receive", "process", "returned", "join"} <=> watcher # "none"

Init ==
  /\ app = "new"
  /\ expired = FALSE /\ cancelled = FALSE /\ handed = FALSE
  /\ http = "off"
  /\ calls = [r \in Call |-> "none"]
  /\ workers = [w \in Worker |-> "none"]
  /\ run = "none" /\ watcher = "none"
  /\ bounded = FALSE /\ spent = FALSE /\ aborted = FALSE /\ opDone = FALSE
  /\ pool = "open"

Alive == app # "exited"

\* Variant: processingCtx is derived from the worker context.
ProcessingTiedToReceive == aborted \/ cancelled

\* processingCtx is done.  It is WithoutCancel of the worker context, so only
\* cancelProcessing ends it.
ProcessingDone == aborted

-----------------------------------------------------------------------------
(* OnStart.                                                                  *)

\* httpServer.Start: from here on requests are served.
Listen ==
  /\ app = "new"
  /\ app' = "bound"
  /\ http' = "serving"
  /\ UNCHANGED <<expired, cancelled, handed, calls, workers, consumer, pool>>

\* The address is taken: the hook fails, and Fx rolls back the hooks that had
\* started.
ListenFails ==
  /\ app = "new"
  /\ app' = "failed"
  /\ cancelled' = TRUE
  /\ UNCHANGED <<expired, handed, http, calls, workers, consumer, pool>>

\* Variant: the workers are launched before the listener is acquired.
LaunchFirst ==
  /\ app \in {"new", "bound"}
  /\ run = "none"
  /\ workers' = [w \in Worker |-> "idle"]
  /\ run' = "top"
  /\ app' = IF app = "bound" THEN "up" ELSE app
  /\ UNCHANGED <<expired, cancelled, handed, http, calls, watcher, bounded, spent,
                 aborted, opDone, pool>>

Launch ==
  /\ app = "bound"
  /\ app' = "up"
  /\ workers' = [w \in Worker |-> "idle"]
  /\ run' = "top"
  /\ UNCHANGED <<expired, cancelled, handed, http, calls, watcher, bounded, spent,
                 aborted, opDone, pool>>

-----------------------------------------------------------------------------
(* OnStop.                                                                   *)

\* SIGTERM: Fx calls the stop hooks with a context that has a deadline.
Signal ==
  /\ app = "up"
  /\ app' = "prepare"
  /\ UNCHANGED <<expired, cancelled, handed, http, calls, workers, consumer, pool>>

Deadline ==
  /\ app \in Stopping
  /\ ~expired
  /\ expired' = TRUE
  /\ UNCHANGED <<app, cancelled, handed, http, calls, workers, consumer, pool>>

\* Variant: the shutdown context is not handed over before the cancellation.
CancelUnprepared ==
  /\ app = "prepare"
  /\ app' = "cancel"
  /\ cancelled' = TRUE
  /\ UNCHANGED <<expired, handed, http, calls, workers, consumer, pool>>

PrepareShutdown ==
  /\ app = "prepare"
  /\ app' = "cancel"
  /\ handed' = TRUE
  /\ UNCHANGED <<expired, cancelled, http, calls, workers, consumer, pool>>

Cancel ==
  /\ app = "cancel"
  /\ app' = "drain"
  /\ cancelled' = TRUE
  /\ UNCHANGED <<expired, handed, http, calls, workers, consumer, pool>>

\* Variant: the wait does not include the consumer.
OthersStopped == \A w \in Worker : workers[w] = "done"

\* workers.Wait
WorkersStopped == run = "done" /\ \A w \in Worker : workers[w] = "done"

WaitWorkers ==
  /\ app = "drain"
  /\ WorkersStopped
  /\ app' = "http"
  /\ UNCHANGED <<expired, cancelled, handed, http, calls, workers, consumer, pool>>

\* httpServer.Shutdown closes the listener ...
CloseListener ==
  /\ app = "http"
  /\ app' = "requests"
  /\ http' = "closed"
  /\ UNCHANGED <<expired, cancelled, handed, calls, workers, consumer, pool>>

\* ... and returns when no request is active.
RequestsDone == \A r \in Call : calls[r] # "active"

WaitRequests ==
  /\ app = "requests"
  /\ RequestsDone
  /\ app' = "hooks"
  /\ UNCHANGED <<expired, cancelled, handed, http, calls, workers, consumer, pool>>

\* The stop hook of newDatabase, the last one, if time is left; or the rollback
\* of a failed start.
CloseDatabase ==
  /\ \/ app = "hooks" /\ ~expired
     \/ app = "failed"
  /\ app' = "closed"
  /\ pool' = "closed"
  /\ UNCHANGED <<expired, cancelled, handed, http, calls, workers, consumer>>

\* Run returns: every hook has run, or the shutdown context has expired and Fx
\* waits no longer.  The goroutines end with the process.
Exit ==
  /\ \/ app = "closed"
     \/ app \in Stopping /\ expired
  /\ app' = "exited"
  /\ UNCHANGED <<expired, cancelled, handed, http, calls, workers, consumer, pool>>

-----------------------------------------------------------------------------
(* HTTP requests, and the workers other than the consumer.                   *)

Accept(r) ==
  /\ Alive
  /\ http = "serving"
  /\ calls[r] = "none"
  /\ calls' = [calls EXCEPT ![r] = "active"]
  /\ UNCHANGED <<app, expired, cancelled, handed, http, workers, consumer, pool>>

Respond(r) ==
  /\ Alive
  /\ calls[r] = "active"
  /\ calls' = [calls EXCEPT ![r] = "done"]
  /\ UNCHANGED <<app, expired, cancelled, handed, http, workers, consumer, pool>>

\* Serve returns an error, which is only logged: the process goes on without a
\* listener.
ServeFails ==
  /\ Alive
  /\ http = "serving"
  /\ http' = "failed"
  /\ UNCHANGED <<app, expired, cancelled, handed, calls, workers, consumer, pool>>

\* PublishBatch or ResolveOne begins, if the context is still live.  The DLQ
\* monitor does not look first: it starts with a refresh, and its select may
\* prefer the ticker to the cancelled context.
BeginWork(w) ==
  /\ Alive
  /\ workers[w] = "idle"
  /\ cancelled => w \in Monitor
  /\ workers' = [workers EXCEPT ![w] = "busy"]
  /\ UNCHANGED <<app, expired, cancelled, handed, http, calls, consumer, pool>>

EndWork(w) ==
  /\ Alive
  /\ workers[w] = "busy"
  /\ workers' = [workers EXCEPT ![w] = "idle"]
  /\ UNCHANGED <<app, expired, cancelled, handed, http, calls, consumer, pool>>

\* The loop, or its wait, sees that the context is done.
StopWork(w) ==
  /\ Alive
  /\ workers[w] = "idle"
  /\ cancelled
  /\ workers' = [workers EXCEPT ![w] = "done"]
  /\ UNCHANGED <<app, expired, cancelled, handed, http, calls, consumer, pool>>

-----------------------------------------------------------------------------
(* ConsumerWorker.Run.                                                       *)

others == <<app, expired, cancelled, handed, http, calls, workers, pool>>

\* A new operation: fresh channels and processing context, and its watcher.
BeginRound ==
  /\ Alive
  /\ run = "top"
  /\ ~cancelled
  /\ run' = "receive"
  /\ watcher' = "watching"
  /\ bounded' = FALSE /\ spent' = FALSE /\ aborted' = FALSE /\ opDone' = FALSE
  /\ UNCHANGED others

\* The context is done at the top of the loop or in the wait after an error.
StopConsumer ==
  /\ Alive
  /\ run \in {"top", "pause"}
  /\ cancelled
  /\ run' = "done"
  /\ UNCHANGED <<others, watcher, bounded, spent, aborted, opDone>>

\* ReceiveMessage has brought a message and the acceptance context is live.
StartProcessing ==
  /\ Alive
  /\ run = "receive"
  /\ ~cancelled
  /\ run' = "process"
  /\ UNCHANGED <<others, watcher, bounded, spent, aborted, opDone>>

\* No message, an error, or a message that is released because receiveCtx is
\* done.
ReceiveReturns ==
  /\ Alive
  /\ run = "receive"
  /\ run' = "returned"
  /\ UNCHANGED <<others, watcher, bounded, spent, aborted, opDone>>

\* The processor returns, with or without success, and the message is deleted,
\* released or scheduled.
ProcessReturns ==
  /\ Alive
  /\ run = "process"
  /\ run' = "returned"
  /\ UNCHANGED <<others, watcher, bounded, spent, aborted, opDone>>

\* Variant: the watcher is awaited before operationDone is closed.
JoinFirst ==
  /\ Alive
  /\ run = "returned"
  /\ watcher = "done"
  /\ run' = "join"
  /\ opDone' = TRUE
  /\ UNCHANGED <<others, watcher, bounded, spent, aborted>>

\* close(operationDone)
CloseOperation ==
  /\ Alive
  /\ run = "returned"
  /\ run' = "join"
  /\ opDone' = TRUE
  /\ UNCHANGED <<others, watcher, bounded, spent, aborted>>

\* Variant: watcherDone is not awaited.
JoinNobody ==
  /\ Alive
  /\ run = "join"
  /\ aborted' = TRUE
  /\ run' = IF cancelled THEN "done" ELSE "top"
  /\ UNCHANGED <<others, watcher, bounded, spent, opDone>>

\* <-watcherDone and cancelProcessing; then the next round, the wait after an
\* error, or the end.
Join ==
  /\ Alive
  /\ run = "join"
  /\ watcher = "done"
  /\ watcher' = "none"
  /\ aborted' = TRUE
  /\ \/ run' = "top"
     \/ run' = IF cancelled THEN "done" ELSE "pause"
  /\ UNCHANGED <<others, bounded, spent, opDone>>

Resume ==
  /\ Alive
  /\ run = "pause"
  /\ run' = "top"
  /\ UNCHANGED <<others, watcher, bounded, spent, aborted, opDone>>

-----------------------------------------------------------------------------
(* watchForShutdown: its three selects.                                      *)

Watch(from, to) ==
  /\ Alive
  /\ watcher = from
  /\ watcher' = to

\* operationDone, in any of the selects.
WatchOperation ==
  /\ opDone
  /\ \E from \in {"watching", "draining", "aborting"} : Watch(from, "done")
  /\ UNCHANGED <<others, run, bounded, spent, aborted, opDone>>

WatchReceive ==
  /\ cancelled
  /\ Watch("watching", "stopping")
  /\ UNCHANGED <<others, run, bounded, spent, aborted, opDone>>

\* shutdownContext takes the context out of the channel, if it is there; it
\* bounds the drain timer.
TakeContext ==
  /\ Watch("stopping", "draining")
  /\ bounded' = handed
  /\ handed' = FALSE
  /\ UNCHANGED <<app, expired, cancelled, http, calls, workers, run, spent, aborted,
                 opDone, pool>>

\* timer.C, then cancelProcessing.
DrainTimer ==
  /\ Watch("draining", "aborting")
  /\ spent' = TRUE
  /\ aborted' = TRUE
  /\ UNCHANGED <<others, run, bounded, opDone>>

\* shutdownCtx.Done: cancelProcessing, and in the last select the watcher gives
\* the operation up.
WatchDeadline ==
  /\ bounded /\ expired
  /\ \/ Watch("draining", "aborting") /\ aborted' = TRUE
     \/ Watch("aborting", "done") /\ UNCHANGED aborted
  /\ UNCHANGED <<others, run, bounded, spent, opDone>>

-----------------------------------------------------------------------------

Hooks ==
  \/ Listen \/ ListenFails \/ Launch
  \/ PrepareShutdown \/ Cancel \/ WaitWorkers \/ CloseListener \/ WaitRequests
  \/ CloseDatabase \/ Exit

Run ==
  \/ BeginRound \/ StopConsumer \/ ReceiveReturns \/ CloseOperation \/ Join \/ Resume

Watcher ==
  WatchOperation \/ WatchReceive \/ TakeContext \/ DrainTimer \/ WatchDeadline

Finished == app = "exited" /\ UNCHANGED vars

Next ==
  \/ Hooks \/ Signal \/ Deadline
  \/ \E r \in Call : Accept(r) \/ Respond(r)
  \/ ServeFails
  \/ \E w \in Worker : BeginWork(w) \/ EndWork(w) \/ StopWork(w)
  \/ Run \/ StartProcessing \/ ProcessReturns
  \/ Watcher
  \/ Finished

Spec == Init /\ [][Next]_vars

\* The goroutines run, a long poll returns, timers fire and requests are
\* answered.  An operation on the database or the broker may hang; it is sure
\* to return only once the context it was given is done.  The ticker of the
\* monitor leaves time between two ticks, in which only the cancelled context is
\* ready.  The shutdown context need not expire.
FairSpec ==
  /\ Spec
  /\ WF_vars(Hooks) /\ WF_vars(Run) /\ WF_vars(Watcher)
  /\ WF_vars(ProcessingDone /\ ProcessReturns)
  /\ \A w \in Worker : SF_vars(StopWork(w)) /\ WF_vars(cancelled /\ EndWork(w))
  /\ \A r \in Call : WF_vars(Respond(r))

-----------------------------------------------------------------------------
(* Properties.                                                               *)

\* What is using a connection.
PoolInUse ==
  \/ run = "process"
  \/ \E w \in Worker \ Monitor : workers[w] = "busy"
  \/ \E r \in Call : calls[r] = "active"

\* "PostgreSQL resources close after workers stop": while the process lives,
\* no worker, consumer operation or request runs on a closed pool, and none can
\* begin.
PoolOutlivesWork ==
  pool = "closed" /\ Alive =>
    /\ ~PoolInUse
    /\ http # "serving"
    /\ run \in {"none", "done"}

\* "If binding fails, workers are not left running."
FailedStartLeavesNothing ==
  http = "off" => run = "none" /\ \A w \in Worker : workers[w] = "none"

\* A watcher that starts to drain knows the deadline of the shutdown: the
\* context is in the channel before the cancellation can be seen, and no
\* earlier round has taken it.
DrainKnowsDeadline == watcher \in {"draining", "aborting"} => bounded

\* "Already-started work receives a drain opportunity independent of receive
\* cancellation": the context of a running operation is done only when the
\* drain timer has fired or the shutdown context has expired.
DrainIsGranted == run = "process" /\ ProcessingDone => spent \/ expired

\* Once stop has begun the process ends, even if the operation in hand hangs
\* until it is cancelled and the shutdown context never expires: the consumer,
\* its watcher and OnStop do not wait for each other in a circle.
StopEnds == (app = "prepare") ~> (app = "exited")
=============================================================================

---------------------------- MODULE LifecycleProofs ---------------------------
(***************************************************************************)
(* Proofs about Lifecycle, for any number of workers and requests: the     *)
(* order of start and stop, and the handshake of the shutdown context.     *)
(***************************************************************************)
EXTENDS Lifecycle, TLAPS

\* The order of OnStart and OnStop: what each phase of the application has
\* behind it.
Order ==
  /\ app \in {"new", "failed"} => http = "off"
  /\ http = "off" => app \in {"new", "failed", "closed", "exited"}
  /\ app \in {"new", "bound"} \/ http = "off" =>
       /\ run = "none"
       /\ \A w \in Worker : workers[w] = "none"
  /\ http = "off" => \A r \in Call : calls[r] = "none"
  /\ app \in {"http", "requests", "hooks"} => WorkersStopped
  /\ app \in {"requests", "hooks"} => http = "closed"
  /\ app = "hooks" => RequestsDone
  /\ app = "closed" => \/ http = "off"
                       \/ http = "closed" /\ WorkersStopped /\ RequestsDone
  /\ pool = "closed" => app \in {"closed", "exited"}

\* The shutdown context is in the channel from PrepareShutdown until the one
\* watcher that sees the cancellation has taken it.
Handover ==
  /\ cancelled => app \notin {"new", "bound", "up", "prepare", "cancel"}
  /\ app = "cancel" => handed
  /\ watcher = "watching" /\ cancelled => handed
  /\ watcher = "stopping" => cancelled /\ handed
  /\ watcher \in {"draining", "aborting"} => bounded

\* Nobody cancels an operation before it has ended but its watcher, and the
\* watcher not before the budget is spent.
Grant == run \in {"receive", "process"} /\ aborted => spent \/ expired

IInv == TypeOK /\ Order /\ Handover /\ Grant

\* Every step preserves the types.
LEMMA TypeStep ==
  ASSUME TypeOK, Order, [Next]_vars
  PROVE  TypeOK'
<1> USE DEF TypeOK, consumer, Stopping
<1>1. CASE Listen
  BY <1>1 DEF Listen
<1>2. CASE ListenFails
  BY <1>2 DEF ListenFails
<1>3. CASE Launch
  BY <1>3 DEF Launch, Order
<1>4. CASE PrepareShutdown
  BY <1>4 DEF PrepareShutdown
<1>5. CASE Cancel
  BY <1>5 DEF Cancel
<1>6. CASE WaitWorkers
  BY <1>6 DEF WaitWorkers
<1>7. CASE CloseListener
  BY <1>7 DEF CloseListener
<1>8. CASE WaitRequests
  BY <1>8 DEF WaitRequests
<1>9. CASE CloseDatabase
  BY <1>9 DEF CloseDatabase
<1>10. CASE Exit
  BY <1>10 DEF Exit, Stopping
<1>11. CASE Signal
  BY <1>11 DEF Signal
<1>12. CASE Deadline
  BY <1>12 DEF Deadline, Stopping
<1>13. CASE ServeFails
  BY <1>13 DEF ServeFails
<1>14. ASSUME NEW r \in Call, Accept(r) \/ Respond(r) PROVE TypeOK'
  BY <1>14 DEF Accept, Respond
<1>15. ASSUME NEW w \in Worker, BeginWork(w) \/ EndWork(w) \/ StopWork(w)
      PROVE  TypeOK'
  BY <1>15 DEF BeginWork, EndWork, StopWork
<1>16. CASE BeginRound
  BY <1>16 DEF BeginRound, others
<1>17. CASE StopConsumer
  BY <1>17 DEF StopConsumer, others
<1>18. CASE ReceiveReturns
  BY <1>18 DEF ReceiveReturns, others
<1>19. CASE CloseOperation
  BY <1>19 DEF CloseOperation, others
<1>20. CASE Join
  <2>1. run' \in {"top", "done", "pause"}
    BY <1>20, Zenon DEF Join
  <2> QED BY <1>20, <2>1 DEF Join, others
<1>21. CASE Resume
  BY <1>21 DEF Resume, others
<1>22. CASE StartProcessing
  BY <1>22 DEF StartProcessing, others
<1>23. CASE ProcessReturns
  BY <1>23 DEF ProcessReturns, others
<1>24. CASE WatchOperation
  BY <1>24 DEF WatchOperation, Watch, others
<1>25. CASE WatchReceive
  BY <1>25 DEF WatchReceive, Watch, others
<1>26. CASE TakeContext
  <2>1. bounded' \in BOOLEAN /\ handed' \in BOOLEAN
    BY <1>26, Zenon DEF TakeContext
  <2> QED BY <1>26, <2>1 DEF TakeContext, Watch
<1>27. CASE DrainTimer
  BY <1>27 DEF DrainTimer, Watch, others
<1>28. CASE WatchDeadline
  <2>1. aborted' \in BOOLEAN
    BY <1>28, Zenon DEF WatchDeadline
  <2>2. /\ watcher' \in {"aborting", "done"}
        /\ watcher \in {"draining", "aborting"}
    BY <1>28 DEF WatchDeadline, Watch
  <2> QED BY <1>28, <2>1, <2>2 DEF WatchDeadline, others
<1>29. CASE UNCHANGED vars
  BY <1>29 DEF vars
<1> QED BY <1>1, <1>2, <1>3, <1>4, <1>5, <1>6, <1>7, <1>8, <1>9, <1>10, <1>11,
         <1>12, <1>13, <1>14, <1>15, <1>16, <1>17, <1>18, <1>19, <1>20, <1>21,
         <1>22, <1>23, <1>24, <1>25, <1>26, <1>27, <1>28, <1>29
         DEF Next, Hooks, Run, Watcher, Finished

\* Every step of the hooks, the workers and the requests keeps the order.
LEMMA OrderStep ==
  ASSUME TypeOK, Order, [Next]_vars
  PROVE  Order'
<1> USE DEF Order, TypeOK, consumer, WorkersStopped, RequestsDone, Alive
<1>1. CASE Listen
  BY <1>1 DEF Listen
<1>2. CASE ListenFails
  BY <1>2 DEF ListenFails
<1>3. CASE Launch
  BY <1>3 DEF Launch
<1>4. CASE PrepareShutdown
  BY <1>4 DEF PrepareShutdown
<1>5. CASE Cancel
  BY <1>5 DEF Cancel
<1>6. CASE WaitWorkers
  BY <1>6 DEF WaitWorkers
<1>7. CASE CloseListener
  BY <1>7 DEF CloseListener
<1>8. CASE WaitRequests
  BY <1>8 DEF WaitRequests
<1>9. CASE CloseDatabase
  BY <1>9 DEF CloseDatabase
<1>10. CASE Exit
  BY <1>10 DEF Exit, Stopping
<1>11. CASE Signal
  BY <1>11 DEF Signal
<1>12. CASE Deadline
  BY <1>12 DEF Deadline, Stopping
<1>13. CASE ServeFails
  BY <1>13 DEF ServeFails
<1>14. ASSUME NEW r \in Call, Accept(r) \/ Respond(r) PROVE Order'
  BY <1>14 DEF Accept, Respond
<1>15. ASSUME NEW w \in Worker, BeginWork(w) \/ EndWork(w) \/ StopWork(w)
      PROVE  Order'
  BY <1>15 DEF BeginWork, EndWork, StopWork
<1>16. CASE BeginRound
  BY <1>16 DEF BeginRound, others
<1>17. CASE StopConsumer
  BY <1>17 DEF StopConsumer, others
<1>18. CASE ReceiveReturns
  BY <1>18 DEF ReceiveReturns, others
<1>19. CASE CloseOperation
  BY <1>19 DEF CloseOperation, others
<1>20. CASE Join
  BY <1>20 DEF Join, others
<1>21. CASE Resume
  BY <1>21 DEF Resume, others
<1>22. CASE StartProcessing
  BY <1>22 DEF StartProcessing, others
<1>23. CASE ProcessReturns
  BY <1>23 DEF ProcessReturns, others
<1>24. CASE WatchOperation
  BY <1>24 DEF WatchOperation, Watch, others
<1>25. CASE WatchReceive
  BY <1>25 DEF WatchReceive, Watch, others
<1>26. CASE TakeContext
  BY <1>26 DEF TakeContext, Watch, others
<1>27. CASE DrainTimer
  BY <1>27 DEF DrainTimer, Watch, others
<1>28. CASE WatchDeadline
  BY <1>28 DEF WatchDeadline, Watch, others
<1>29. CASE UNCHANGED vars
  BY <1>29 DEF vars
<1> QED BY <1>1, <1>2, <1>3, <1>4, <1>5, <1>6, <1>7, <1>8, <1>9, <1>10, <1>11,
         <1>12, <1>13, <1>14, <1>15, <1>16, <1>17, <1>18, <1>19, <1>20, <1>21,
         <1>22, <1>23, <1>24, <1>25, <1>26, <1>27, <1>28, <1>29
         DEF Next, Hooks, Run, Watcher, Finished

\* Every step keeps the shutdown context where a watcher will find it.
LEMMA HandoverStep ==
  ASSUME IInv, [Next]_vars
  PROVE  Handover'
<1> USE DEF IInv, Handover, Order, TypeOK, consumer
<1>1. CASE Listen
  BY <1>1 DEF Listen
<1>2. CASE ListenFails
  BY <1>2 DEF ListenFails
<1>3. CASE Launch
  BY <1>3 DEF Launch
<1>4. CASE PrepareShutdown
  BY <1>4 DEF PrepareShutdown
<1>5. CASE Cancel
  BY <1>5 DEF Cancel
<1>6. CASE WaitWorkers
  BY <1>6 DEF WaitWorkers
<1>7. CASE CloseListener
  BY <1>7 DEF CloseListener
<1>8. CASE WaitRequests
  BY <1>8 DEF WaitRequests
<1>9. CASE CloseDatabase
  BY <1>9 DEF CloseDatabase
<1>10. CASE Exit
  BY <1>10 DEF Exit, Stopping
<1>11. CASE Signal
  BY <1>11 DEF Signal
<1>12. CASE Deadline
  BY <1>12 DEF Deadline, Stopping
<1>13. CASE ServeFails
  BY <1>13 DEF ServeFails
<1>14. ASSUME NEW r \in Call, Accept(r) \/ Respond(r) PROVE Handover'
  BY <1>14 DEF Accept, Respond
<1>15. ASSUME NEW w \in Worker, BeginWork(w) \/ EndWork(w) \/ StopWork(w)
      PROVE  Handover'
  BY <1>15 DEF BeginWork, EndWork, StopWork
<1>16. CASE BeginRound
  BY <1>16 DEF BeginRound, others
<1>17. CASE StopConsumer
  BY <1>17 DEF StopConsumer, others
<1>18. CASE ReceiveReturns
  BY <1>18 DEF ReceiveReturns, others
<1>19. CASE CloseOperation
  BY <1>19 DEF CloseOperation, others
<1>20. CASE Join
  BY <1>20 DEF Join, others
<1>21. CASE Resume
  BY <1>21 DEF Resume, others
<1>22. CASE StartProcessing
  BY <1>22 DEF StartProcessing, others
<1>23. CASE ProcessReturns
  BY <1>23 DEF ProcessReturns, others
<1>24. CASE WatchOperation
  BY <1>24 DEF WatchOperation, Watch, others
<1>25. CASE WatchReceive
  BY <1>25 DEF WatchReceive, Watch, others
<1>26. CASE TakeContext
  BY <1>26 DEF TakeContext, Watch, others
<1>27. CASE DrainTimer
  BY <1>27 DEF DrainTimer, Watch, others
<1>28. CASE WatchDeadline
  BY <1>28 DEF WatchDeadline, Watch, others
<1>29. CASE UNCHANGED vars
  BY <1>29 DEF vars
<1> QED BY <1>1, <1>2, <1>3, <1>4, <1>5, <1>6, <1>7, <1>8, <1>9, <1>10, <1>11,
         <1>12, <1>13, <1>14, <1>15, <1>16, <1>17, <1>18, <1>19, <1>20, <1>21,
         <1>22, <1>23, <1>24, <1>25, <1>26, <1>27, <1>28, <1>29
         DEF Next, Hooks, Run, Watcher, Finished

\* Only the watcher ends a running operation early, and not too early.
LEMMA GrantStep ==
  ASSUME IInv, [Next]_vars
  PROVE  Grant'
<1> USE DEF IInv, Handover, Grant, TypeOK, consumer
<1>1. CASE Listen
  BY <1>1 DEF Listen
<1>2. CASE ListenFails
  BY <1>2 DEF ListenFails
<1>3. CASE Launch
  BY <1>3 DEF Launch
<1>4. CASE PrepareShutdown
  BY <1>4 DEF PrepareShutdown
<1>5. CASE Cancel
  BY <1>5 DEF Cancel
<1>6. CASE WaitWorkers
  BY <1>6 DEF WaitWorkers
<1>7. CASE CloseListener
  BY <1>7 DEF CloseListener
<1>8. CASE WaitRequests
  BY <1>8 DEF WaitRequests
<1>9. CASE CloseDatabase
  BY <1>9 DEF CloseDatabase
<1>10. CASE Exit
  BY <1>10 DEF Exit, Stopping
<1>11. CASE Signal
  BY <1>11 DEF Signal
<1>12. CASE Deadline
  BY <1>12 DEF Deadline, Stopping
<1>13. CASE ServeFails
  BY <1>13 DEF ServeFails
<1>14. ASSUME NEW r \in Call, Accept(r) \/ Respond(r) PROVE Grant'
  BY <1>14 DEF Accept, Respond
<1>15. ASSUME NEW w \in Worker, BeginWork(w) \/ EndWork(w) \/ StopWork(w)
      PROVE  Grant'
  BY <1>15 DEF BeginWork, EndWork, StopWork
<1>16. CASE BeginRound
  BY <1>16 DEF BeginRound, others
<1>17. CASE StopConsumer
  BY <1>17 DEF StopConsumer, others
<1>18. CASE ReceiveReturns
  BY <1>18 DEF ReceiveReturns, others
<1>19. CASE CloseOperation
  BY <1>19 DEF CloseOperation, others
<1>20. CASE Join
  BY <1>20 DEF Join, others
<1>21. CASE Resume
  BY <1>21 DEF Resume, others
<1>22. CASE StartProcessing
  BY <1>22 DEF StartProcessing, others
<1>23. CASE ProcessReturns
  BY <1>23 DEF ProcessReturns, others
<1>24. CASE WatchOperation
  BY <1>24 DEF WatchOperation, Watch, others
<1>25. CASE WatchReceive
  BY <1>25 DEF WatchReceive, Watch, others
<1>26. CASE TakeContext
  BY <1>26 DEF TakeContext, Watch, others
<1>27. CASE DrainTimer
  BY <1>27 DEF DrainTimer, Watch, others
<1>28. CASE WatchDeadline
  BY <1>28 DEF WatchDeadline, Watch, others
<1>29. CASE UNCHANGED vars
  BY <1>29 DEF vars
<1> QED BY <1>1, <1>2, <1>3, <1>4, <1>5, <1>6, <1>7, <1>8, <1>9, <1>10, <1>11,
         <1>12, <1>13, <1>14, <1>15, <1>16, <1>17, <1>18, <1>19, <1>20, <1>21,
         <1>22, <1>23, <1>24, <1>25, <1>26, <1>27, <1>28, <1>29
         DEF Next, Hooks, Run, Watcher, Finished

\* The first state satisfies the invariant.
LEMMA InitIInv == Init => IInv
<1> QED BY DEF Init, IInv, TypeOK, Order, Handover, Grant, WorkersStopped,
           RequestsDone, Stopping

\* The inductive invariant holds in every reachable state.
THEOREM Invariance == Spec => []IInv
<1>1. IInv /\ [Next]_vars => IInv'
  BY TypeStep, OrderStep, HandoverStep, GrantStep DEF IInv
<1> QED BY <1>1, InitIInv, PTL DEF Spec

\* Every flag and place has its type, and an operation and its watcher come and
\* go together.
THEOREM TypeCorrect == Spec => []TypeOK
<1>1. IInv => TypeOK
  BY DEF IInv
<1> QED BY <1>1, Invariance, PTL

\* newDatabase's stop hook closes the pool only when nothing uses it and nothing
\* can begin to, however many workers and requests there are.
THEOREM PoolIsLast == Spec => []PoolOutlivesWork
<1>1. IInv => PoolOutlivesWork
  <2> SUFFICES ASSUME IInv, pool = "closed", Alive
               PROVE  ~PoolInUse /\ http # "serving" /\ run \in {"none", "done"}
    BY DEF PoolOutlivesWork
  <2>1. \/ http = "off"
        \/ http = "closed" /\ WorkersStopped /\ RequestsDone
    BY DEF IInv, Order, Alive
  <2>2. run \in {"none", "done"} /\ \A w \in Worker : workers[w] \in {"none", "done"}
    BY <2>1 DEF IInv, Order, WorkersStopped
  <2>3. \A r \in Call : calls[r] # "active"
    BY <2>1 DEF IInv, Order, RequestsDone
  <2> QED BY <2>1, <2>2, <2>3 DEF PoolInUse
<1> QED BY <1>1, Invariance, PTL

\* A start that could not bind its address has launched no worker.
THEOREM FailedStartIsClean == Spec => []FailedStartLeavesNothing
<1>1. IInv => FailedStartLeavesNothing
  BY DEF IInv, Order, FailedStartLeavesNothing
<1> QED BY <1>1, Invariance, PTL

\* The watcher of the operation that shutdown interrupts always finds the
\* shutdown context: PrepareShutdown is before the cancellation, and no watcher
\* of an earlier operation can have emptied the channel.
THEOREM DeadlineReachesWatcher == Spec => []DrainKnowsDeadline
<1>1. IInv => DrainKnowsDeadline
  BY DEF IInv, Handover, DrainKnowsDeadline
<1> QED BY <1>1, Invariance, PTL

\* A message in process keeps its context until the drain timer has fired or the
\* shutdown context has expired.
THEOREM DrainOpportunity == Spec => []DrainIsGranted
<1>1. IInv => DrainIsGranted
  BY DEF IInv, Grant, DrainIsGranted, ProcessingDone
<1> QED BY <1>1, Invariance, PTL
=============================================================================

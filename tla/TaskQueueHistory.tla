-------------------------- MODULE TaskQueueHistory --------------------------
(***************************************************************************)
(* TaskQueue with what the queue itself does not remember: the order the   *)
(* tasks were accepted in, and which were ever handed out.                 *)
(***************************************************************************)
EXTENDS TaskQueue

VARIABLES arrived,    \* the accepted tasks, in the order of their enqueue
          served      \* tasks that have been leased

history == <<arrived, served>>

HInit ==
    /\ Init
    /\ arrived = <<>> /\ served = {}

Record ==
    /\ arrived' = IF \E t \in fresh : t \notin fresh'
                  THEN Append(arrived, CHOOSE t \in fresh : t \notin fresh')
                  ELSE arrived
    /\ served' = served \cup Leased'

HNext == Next /\ Record
HSpec == HInit /\ [][HNext]_<<vars, history>>
HFairSpec == HSpec /\ Fairness

-----------------------------------------------------------------------------
\* First come, first served, within a type and priority: whatever is requeued,
\* expires or comes back from the dead meanwhile, no task is handed out for
\* the first time before one of its deque that was accepted earlier
\* (push_back 57, push_front 185 and 249, the scan 86-127).
FirstDeliveryInOrder ==
    \A i, j \in DOMAIN arrived :
       /\ i < j
       /\ TypeOf[arrived[i]] = TypeOf[arrived[j]]
       /\ PriorityOf[arrived[i]] = PriorityOf[arrived[j]]
       /\ arrived[j] \in served
       => arrived[i] \in served
=============================================================================

----------------------------- MODULE TaskLedger -----------------------------
(***************************************************************************)
(* What the task queue promises of each task: the stages of its life and   *)
(* the moves between them.  TaskQueue.tla implements it.                   *)
(***************************************************************************)
CONSTANT Tasks
VARIABLE place    \* [Tasks -> Places]

Places == {"new", "waiting", "leased", "returning", "dead", "reviving", "done", "lost"}

\* Where a task may go next.  A task leaves "done" and "lost" never, is only
\* ever lost by a revival, and is not handed out without waiting first.
Moves == {<<"new", "waiting">>,        \* enqueue
          <<"waiting", "leased">>,     \* reserve
          <<"leased", "done">>,        \* ack
          <<"leased", "returning">>,   \* retry, reclaim: lease removed
          <<"returning", "waiting">>,  \*   and task pushed back
          <<"leased", "dead">>,        \* fail, attempts used up
          <<"dead", "reviving">>,      \* dlq_retry: record removed
          <<"reviving", "waiting">>,   \*   and task enqueued
          <<"reviving", "lost">>}      \*   or refused by a full queue

Init == place = [t \in Tasks |-> "new"]

Move(t, to) ==
    /\ <<place[t], to>> \in Moves
    /\ place' = [place EXCEPT ![t] = to]

Next == \E t \in Tasks, to \in Places : Move(t, to)

Spec == Init /\ [][Next]_place

TypeOK == place \in [Tasks -> Places]
=============================================================================

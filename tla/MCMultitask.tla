---------------------------- MODULE MCMultitask -----------------------------
(***************************************************************************)
(* Task sets for the runs of Multitask.  In each, every period divides the *)
(* Scale of the runs, so that utilizations counted in 1/Scale are exact.   *)
(***************************************************************************)
EXTENDS Multitask

\* Three tasks that are ordered by period, the first two of equal utilization.
ThreeTasks == {[id |-> 1, c |-> 1, t |-> 4],
               [id |-> 2, c |-> 1, t |-> 6],
               [id |-> 3, c |-> 1, t |-> 12]}
\* Three tasks that are released together every 6 ticks, with slack.
LockTasks == {[id |-> 1, c |-> 1, t |-> 3],
              [id |-> 2, c |-> 1, t |-> 6],
              [id |-> 3, c |-> 1, t |-> 6]}
\* Two tasks, the second half as often as the first.
TwoTasks == {[id |-> 1, c |-> 1, t |-> 3], [id |-> 2, c |-> 1, t |-> 6]}
\* Tasks of which every admitted choice passes the response-time test, but for 6: it is
\* admitted alone (c = t), fails the test and misses deadlines.  5 is refused as a third
\* beside any two of the others, 4 leaves the ones beside it a third of the time.
DeadlineTasks == {[id |-> 1, c |-> 1, t |-> 4], [id |-> 2, c |-> 2, t |-> 6],
                  [id |-> 3, c |-> 2, t |-> 12], [id |-> 4, c |-> 2, t |-> 3],
                  [id |-> 5, c |-> 3, t |-> 6], [id |-> 6, c |-> 2, t |-> 2]}
=============================================================================

------------------------------ MODULE PoolBase ------------------------------
(***************************************************************************)
(* The pure helpers shared by every pool: action flags (constants.py,      *)
(* base.Action), the worker limits (the tests at the end of every worker   *)
(* loop), the number of workers to add (base.adjust_worker_iterator) and   *)
(* the repair of numeric options (utils.rectify).                          *)
(***************************************************************************)
EXTENDS Integers, FiniteSets

(***************************************************************************)
(* An ActionFlag is a bit mask; a mask is modelled as the set of its bits. *)
(* ACT_TIMEOUT has the value of ACT_FATAL_ERROR, so there is one bit for   *)
(* both; ACT_CANCEL and ACT_COERCE are used nowhere.                       *)
(***************************************************************************)
Flags == {"DONE", "CLOSE", "EXCEPTION", "RESTART", "RESET", "FATAL_ERROR"}

\* Action.match(*flags) with the default strategy "any".
Match(action, flags) == action.flag \cap flags # {}

\* Action.add_flag(flag).
AddFlag(action, flag) == [action EXCEPT !.flag = @ \cup {flag}]

\* Mutant of LimitReached: the limit is noticed one task too late.
LimitReached_Strict(max, count) == 0 <= max /\ max < count

\* `0 <= max <= count`: a negative maximum is no limit at all.
LimitReached(max, count) == 0 <= max /\ max <= count

\* rectify(val, fallback) with the default threshold 0 and operator `le`.
Rectify(val, fallback) == IF val <= 0 THEN fallback ELSE val

\* Mutant of RangeLength: an empty range counts backwards.
RangeLength_Negative(first, last) == last - first

\* The number of iterations of range(first, last).
RangeLength(first, last) == IF last > first THEN last - first ELSE 0

\* Mutant of WorkersToAdd: min(num_workers, ...) forgotten.
WorkersToAdd_Uncapped(numWorkers, incremental, numCurr, numIdle, numTasks) ==
  IF incremental \/ numWorkers < 0
  THEN RangeLength(0, numTasks - numIdle)
  ELSE RangeLength(numCurr, numWorkers)

\* The number of iterations of adjust_worker_iterator(spec, curr_workers, n).
WorkersToAdd(numWorkers, incremental, numCurr, numIdle, numTasks) ==
  IF incremental \/ numWorkers < 0
  THEN IF numWorkers < 0
       THEN RangeLength(0, numTasks - numIdle)
       ELSE LET wanted == numCurr + numTasks - numIdle
            IN  RangeLength(numCurr,
                            IF wanted < numWorkers THEN wanted ELSE numWorkers)
  ELSE RangeLength(numCurr, numWorkers)

=============================================================================

---------------------------- MODULE ProcessState ----------------------------
(***************************************************************************)
(* What the processes of a pool share besides PoolState: the counter of    *)
(* waiting tasks (a multiprocessing.Value of C type unsigned long), which  *)
(* stands for the qsize() of a thread pool's bus.                          *)
(***************************************************************************)
EXTENDS PoolState

CONSTANT CounterModulus   \* 2^64; in an instance, more than the tasks

ASSUME ProcessStateAssumption == CounterModulus \in Nat \ {0}

VARIABLE counter   \* _task_bus_qsize.value

CounterValues == 0 .. (CounterModulus - 1)

\* What an unsigned variable keeps of the value n.
Wrap(n) == n % CounterModulus

ProcessStateInit   == PoolStateInit /\ counter = 0
ProcessStateTypeOK == PoolStateTypeOK /\ counter \in CounterValues

=============================================================================

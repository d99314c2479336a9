------------------------------ MODULE Channel -------------------------------
(***************************************************************************)
(* What a queue between processes promises (multiprocessing.queues.Queue,  *)
(* whose interface workers/process/queue.py keeps): what one process puts  *)
(* is taken in the order of the puts, each object at most once, whoever    *)
(* takes it.  Objects that cannot be pickled are dropped, and a process    *)
(* that ends may take its last objects along.  Objects of different        *)
(* processes have no order, so that the channel has no line of objects but *)
(* for each object the set of those that must be taken before.             *)
(***************************************************************************)
CONSTANTS Items,        \* objects, each put at most once
          Procs,        \* processes that put
          Producer,     \* the process that puts each object
          Unsendable    \* objects that cannot be pickled

VARIABLES waiting,   \* objects that were put, and that nobody has taken
          ahead,     \* those of them that the same process put before
          taken,     \* objects that some get() has taken
          open       \* processes that have not ended

vars == <<waiting, ahead, taken, open>>

Line(p) == {i \in waiting : Producer[i] = p}

Init ==
  waiting = {} /\ ahead = [i \in Items |-> {}] /\ taken = {} /\ open = Procs

Put(i) ==
  /\ Producer[i] \in open /\ i \notin taken \cup waiting
  /\ waiting' = waiting \cup {i}
  /\ ahead' = [ahead EXCEPT ![i] = Line(Producer[i])]
  /\ UNCHANGED <<taken, open>>

\* The objects of S wait no more.
Remove(S) ==
  /\ waiting' = waiting \ S
  /\ ahead' = [i \in Items |-> IF i \in S THEN {} ELSE ahead[i] \ S]

Take(i) ==
  /\ i \in waiting \ taken /\ ahead[i] = {}
  /\ taken' = taken \cup {i}
  /\ Remove({i})
  /\ UNCHANGED open

Drop(i) ==
  /\ i \in waiting \cap Unsendable
  /\ Remove({i})
  /\ UNCHANGED <<taken, open>>

\* The process ends: only what it put first is still delivered.
End(p) ==
  /\ p \in open
  /\ open' = open \ {p}
  /\ \E S \in SUBSET Line(p) :
       /\ \A i \in S, j \in waiting : i \in ahead[j] => j \in S
       /\ Remove(S)
  /\ UNCHANGED taken

Next ==
  \/ \E i \in Items : Put(i) \/ Take(i) \/ Drop(i)
  \/ \E p \in Procs : End(p)

Spec == Init /\ [][Next]_vars

=============================================================================

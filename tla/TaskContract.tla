---------------------------- MODULE TaskContract ----------------------------
(***************************************************************************)
(* What a pool promises about tasks and futures (base.Future,              *)
(* BaseManager.submit), without managers, workers or threads: an accepted  *)
(* task is started at most once, in the order of submission; its future    *)
(* is resolved once, by the run of its task or by cancel(); the pool       *)
(* forgets a task only after it has ended and its future is resolved, but  *)
(* for one whose answer is lost.                                           *)
(***************************************************************************)
EXTENDS Sequences

CONSTANTS Tasks,
          Aborts,   \* may a run end without a result or an Exception
          Losses    \* may an answer be lost behind the end of a run

VARIABLES queue,      \* accepted tasks, not started
          executing,  \* tasks that are being run
          known,      \* tasks the pool keeps account of
          future      \* state of the future of each task

vars == <<queue, executing, known, future>>

Init ==
  /\ queue = <<>> /\ executing = {} /\ known = {}
  /\ future = [t \in Tasks |-> "unsubmitted"]

Resolve(t, state) == future' = [future EXCEPT ![t] = state]

Accept(t) ==
  /\ future[t] = "unsubmitted"
  /\ Resolve(t, "pending")
  /\ queue' = Append(queue, t)
  /\ known' = known \cup {t}
  /\ UNCHANGED executing

Refuse(t) ==
  /\ future[t] = "unsubmitted"
  /\ Resolve(t, "rejected")
  /\ UNCHANGED <<queue, executing, known>>

Start ==
  /\ queue # <<>>
  /\ Head(queue) \notin executing
  /\ executing' = executing \cup {Head(queue)}
  /\ queue' = Tail(queue)
  /\ UNCHANGED <<known, future>>

\* A run ends.  It leaves the future alone if the future was cancelled.
Settle(t) ==
  \/ /\ future[t] = "pending"
     /\ \E state \in {"result", "exception"} : Resolve(t, state)
  \/ /\ future[t] = "cancelled"
     /\ UNCHANGED future

End(t) ==
  /\ t \in executing
  /\ executing' = executing \ {t}
  /\ Settle(t)
  /\ UNCHANGED <<queue, known>>

\* ... and the pool forgets the task in the same step.
EndAndForget(t) ==
  /\ t \in executing \cap known
  /\ executing' = executing \ {t}
  /\ known' = known \ {t}
  /\ Settle(t)
  /\ UNCHANGED queue

\* Runs end with no answer: nobody will ever resolve their futures.
Abort ==
  /\ Aborts
  /\ \E lost \in SUBSET executing : executing' = executing \ lost
  /\ UNCHANGED <<queue, known, future>>

\* The answer to a task is lost by whoever was to resolve the future, before
\* or after the pool has forgotten the task.
Lose(t) ==
  /\ Losses /\ t \in executing
  /\ executing' = executing \ {t}
  /\ known' \in {known, known \ {t}}
  /\ UNCHANGED <<queue, future>>

Cancel(t) ==
  /\ future[t] = "pending"
  /\ Resolve(t, "cancelled")
  /\ UNCHANGED <<queue, executing, known>>

Forget(t) ==
  /\ t \in known \ executing
  /\ \A i \in DOMAIN queue : queue[i] # t
  /\ future[t] \in {"cancelled", "result", "exception"}
  /\ known' = known \ {t}
  /\ UNCHANGED <<queue, executing, future>>

Next ==
  \/ Start \/ Abort
  \/ \E t \in Tasks : \/ Accept(t) \/ Refuse(t) \/ End(t) \/ EndAndForget(t)
                      \/ Cancel(t) \/ Forget(t) \/ Lose(t)

Spec == Init /\ [][Next]_vars

=============================================================================

---------------------------- MODULE ProcessQueue ----------------------------
(***************************************************************************)
(* The queue between processes (workers/process/queue.py).  put() leaves   *)
(* an object in a buffer of its process; one feeder thread per process     *)
(* pickles it and writes it to a pipe, which get() reads in any process.   *)
(* A bounded semaphore counts the slots of the queue; the two ends of the  *)
(* pipe have a lock each, shared by the processes.  Any process may be     *)
(* killed at any step, with its locks in its hands.                        *)
(***************************************************************************)
EXTENDS Integers, FiniteSets, Sequences, SequencesExt

CONSTANTS
  Items,        \* objects, each put once
  Procs,        \* processes that put
  Producer,     \* the process that puts each object
  Getters,      \* processes that get, one thread each
  Blocking,     \* getters that wait without a timeout
  Unsendable,   \* objects whose pickling raises
  Capacity,     \* maxsize
  PipeSize,     \* objects that the pipe holds before a write blocks
  Mortal,       \* processes that may be killed
  NoItem, NoOne

ASSUME ProcessQueueAssumption ==
  /\ Producer \in [Items -> Procs]
  /\ Blocking \subseteq Getters /\ Unsendable \subseteq Items
  /\ Capacity \in Nat \ {0} /\ PipeSize \in Nat \ {0}
  /\ NoItem \notin Items /\ NoOne \notin Procs \cup Getters

VARIABLES
  fresh,      \* objects that nobody has put yet
  admitted,   \* objects whose put() has a slot and has not filled it
  buffer,     \* _buffer of each process
  feeder,     \* control point of the feeder thread of each process
  fed,        \* the object it holds
  exiting,    \* processes on their way out: is_exiting()
  pipe,       \* pickled objects on their way
  sem,        \* free slots: _sem
  wlock,      \* holder of _wlock
  rlock,      \* holder of _rlock
  getter,     \* control point of each getter
  got,        \* the object it has read
  received    \* history: objects read from the pipe

putVars == <<fresh, admitted, buffer, exiting>>
feedVars == <<feeder, fed, wlock>>
getVars  == <<rlock, getter, got, received>>
vars     == <<putVars, feedVars, pipe, sem, getVars>>

Init ==
  /\ fresh = Items /\ admitted = {} /\ exiting = {}
  /\ buffer = [p \in Procs |-> <<>>]
  /\ feeder = [p \in Procs |-> "wait"] /\ fed = [p \in Procs |-> NoItem]
  /\ pipe = <<>> /\ sem = Capacity
  /\ wlock = NoOne /\ rlock = NoOne
  /\ getter = [g \in Getters |-> "idle"] /\ got = [g \in Getters |-> NoItem]
  /\ received = {}

Ended(p) == feeder[p] \in {"gone", "dead"}

-----------------------------------------------------------------------------
(***************************************************************************)
(* put().  The queue is never closed by the code: _closed stays false.     *)
(***************************************************************************)

\* self._sem.acquire(): waits for a slot.
Admit(i) ==
  /\ i \in fresh /\ Producer[i] \notin exiting /\ ~Ended(Producer[i])
  /\ sem > 0
  /\ sem' = sem - 1
  /\ fresh' = fresh \ {i} /\ admitted' = admitted \cup {i}
  /\ UNCHANGED <<buffer, exiting, feedVars, pipe, getVars>>

\* Under _notempty: the first put starts the feeder thread, each put appends
\* to the buffer and wakes it up.
Fill(i) ==
  /\ i \in admitted /\ ~Ended(Producer[i])
  /\ admitted' = admitted \ {i}
  /\ buffer' = [buffer EXCEPT ![Producer[i]] = Append(@, i)]
  /\ UNCHANGED <<fresh, exiting, feedVars, pipe, sem, getVars>>

-----------------------------------------------------------------------------
(***************************************************************************)
(* _feed: the feeder thread of process p.                                  *)
(***************************************************************************)
FGoto(p, label) == feeder' = [feeder EXCEPT ![p] = label]

\* buffer.popleft()
Pop(p) ==
  /\ feeder[p] = "wait" /\ buffer[p] # <<>>
  /\ fed' = [fed EXCEPT ![p] = Head(buffer[p])]
  /\ buffer' = [buffer EXCEPT ![p] = Tail(@)]
  /\ FGoto(p, "pickle")
  /\ UNCHANGED <<fresh, admitted, exiting, wlock, pipe, sem, getVars>>

\* pickler.dumps(obj) succeeds, if need be for a task that raises instead.
Pickle(p) ==
  /\ feeder[p] = "pickle" /\ fed[p] \notin Unsendable
  /\ FGoto(p, "lock")
  /\ UNCHANGED <<putVars, fed, wlock, pipe, sem, getVars>>

\* Mutant of PickleFails: the slot is not given back.
PickleFails_KeepsSlot(p) ==
  /\ feeder[p] = "pickle" /\ fed[p] \in Unsendable /\ p \notin exiting
  /\ fed' = [fed EXCEPT ![p] = NoItem]
  /\ FGoto(p, "wait")
  /\ UNCHANGED <<putVars, wlock, pipe, sem, getVars>>

\* It raises: the object is dropped, its slot is given back.
PickleFails(p) ==
  /\ feeder[p] = "pickle" /\ fed[p] \in Unsendable /\ p \notin exiting
  /\ sem' = sem + 1
  /\ fed' = [fed EXCEPT ![p] = NoItem]
  /\ FGoto(p, "wait")
  /\ UNCHANGED <<putVars, wlock, pipe, getVars>>

\* It raises while the process is cleaning up: the thread returns, with what
\* is left in the buffer.
PickleFailsLate(p) ==
  /\ feeder[p] = "pickle" /\ fed[p] \in Unsendable /\ p \in exiting
  /\ fed' = [fed EXCEPT ![p] = NoItem]
  /\ buffer' = [buffer EXCEPT ![p] = <<>>]
  /\ FGoto(p, "gone")
  /\ UNCHANGED <<fresh, admitted, exiting, wlock, pipe, sem, getVars>>

LockPipe(p) ==
  /\ feeder[p] = "lock" /\ wlock = NoOne
  /\ wlock' = p
  /\ FGoto(p, "send")
  /\ UNCHANGED <<putVars, fed, pipe, sem, getVars>>

Send(p) ==
  /\ feeder[p] = "send" /\ Len(pipe) < PipeSize
  /\ pipe' = Append(pipe, fed[p])
  /\ fed' = [fed EXCEPT ![p] = NoItem]
  /\ FGoto(p, "unlock")
  /\ UNCHANGED <<putVars, wlock, sem, getVars>>

\* Mutant of UnlockPipe: `finally: wrelease()` forgotten.
UnlockPipe_KeepsLock(p) ==
  /\ feeder[p] = "unlock"
  /\ FGoto(p, "wait")
  /\ UNCHANGED <<putVars, fed, wlock, pipe, sem, getVars>>

UnlockPipe(p) ==
  /\ feeder[p] = "unlock"
  /\ wlock' = NoOne
  /\ FGoto(p, "wait")
  /\ UNCHANGED <<putVars, fed, pipe, sem, getVars>>

\* The process ends by itself once its threads have no put() in progress:
\* _finalize_close appends the sentinel, _finalize_join waits.
Exit(p) ==
  /\ p \notin exiting /\ ~Ended(p)
  /\ \A i \in admitted : Producer[i] # p
  /\ exiting' = exiting \cup {p}
  /\ UNCHANGED <<fresh, admitted, buffer, feedVars, pipe, sem, getVars>>

\* Mutant of MeetSentinel: the sentinel overtakes the buffer.
MeetSentinel_Early(p) ==
  /\ feeder[p] = "wait" /\ p \in exiting
  /\ buffer' = [buffer EXCEPT ![p] = <<>>]
  /\ FGoto(p, "gone")
  /\ UNCHANGED <<fresh, admitted, exiting, fed, wlock, pipe, sem, getVars>>

\* The feeder gets to the sentinel, behind everything that was put.
MeetSentinel(p) ==
  /\ feeder[p] = "wait" /\ buffer[p] = <<>> /\ p \in exiting
  /\ FGoto(p, "gone")
  /\ UNCHANGED <<putVars, fed, wlock, pipe, sem, getVars>>

FeederStep(p) ==
  \/ Pop(p) \/ Pickle(p) \/ PickleFails(p) \/ PickleFailsLate(p)
  \/ LockPipe(p) \/ Send(p) \/ UnlockPipe(p) \/ MeetSentinel(p)

-----------------------------------------------------------------------------
(***************************************************************************)
(* get(), called again and again.  A lock that is not acquired in time     *)
(* raises Empty and changes nothing.                                       *)
(***************************************************************************)
GGoto(g, label) == getter' = [getter EXCEPT ![g] = label]

LockReader(g) ==
  /\ getter[g] = "idle" /\ rlock = NoOne
  /\ rlock' = g
  /\ GGoto(g, "poll")
  /\ UNCHANGED <<putVars, feedVars, pipe, sem, got, received>>

\* Nothing in the pipe until the deadline: Empty, and the lock is released.
PollFails(g) ==
  /\ getter[g] = "poll" /\ g \notin Blocking /\ pipe = <<>>
  /\ rlock' = NoOne
  /\ GGoto(g, "idle")
  /\ UNCHANGED <<putVars, feedVars, pipe, sem, got, received>>

\* Mutant of Receive: the object stays in the pipe.
Receive_Peeks(g) ==
  /\ getter[g] = "poll" /\ pipe # <<>>
  /\ got' = [got EXCEPT ![g] = Head(pipe)]
  /\ received' = received \cup {Head(pipe)}
  /\ GGoto(g, IF g \in Blocking THEN "unlock" ELSE "release")
  /\ UNCHANGED <<putVars, feedVars, pipe, sem, rlock>>

\* recv_bytes().  Without a timeout the lock is released before the slot.
Receive(g) ==
  /\ getter[g] = "poll" /\ pipe # <<>>
  /\ pipe' = Tail(pipe)
  /\ got' = [got EXCEPT ![g] = Head(pipe)]
  /\ received' = received \cup {Head(pipe)}
  /\ GGoto(g, IF g \in Blocking THEN "unlock" ELSE "release")
  /\ UNCHANGED <<putVars, feedVars, sem, rlock>>

ReleaseSlot(g) ==
  /\ getter[g] = "release"
  /\ sem' = sem + 1
  /\ got' = [got EXCEPT ![g] = NoItem]
  /\ GGoto(g, IF g \in Blocking THEN "idle" ELSE "unlock")
  /\ UNCHANGED <<putVars, feedVars, pipe, rlock, received>>

UnlockReader(g) ==
  /\ getter[g] = "unlock"
  /\ rlock' = NoOne
  /\ GGoto(g, IF g \in Blocking THEN "release" ELSE "idle")
  /\ UNCHANGED <<putVars, feedVars, pipe, sem, got, received>>

GetterStep(g) ==
  \/ LockReader(g) \/ PollFails(g) \/ Receive(g)
  \/ ReleaseSlot(g) \/ UnlockReader(g)

-----------------------------------------------------------------------------
(***************************************************************************)
(* A process is killed.  Its locks and slots stay as they are; its buffer  *)
(* and what its feeder holds are gone.                                     *)
(***************************************************************************)
KillPutter(p) ==
  /\ p \in Mortal /\ ~Ended(p)
  /\ FGoto(p, "dead")
  /\ buffer' = [buffer EXCEPT ![p] = <<>>]
  /\ fed' = [fed EXCEPT ![p] = NoItem]
  /\ UNCHANGED <<fresh, admitted, exiting, wlock, pipe, sem, getVars>>

KillGetter(g) ==
  /\ g \in Mortal /\ getter[g] # "dead"
  /\ GGoto(g, "dead")
  /\ UNCHANGED <<putVars, feedVars, pipe, sem, rlock, got, received>>

Next ==
  \/ \E i \in Items : Admit(i) \/ Fill(i)
  \/ \E p \in Procs : FeederStep(p) \/ Exit(p) \/ KillPutter(p)
  \/ \E g \in Getters : GetterStep(g) \/ KillGetter(g)

Spec == Init /\ [][Next]_vars

(***************************************************************************)
(* The threads of a queue run as long as their process does, and getters   *)
(* call get() again and again.  Nothing forces a put() to begin.           *)
(***************************************************************************)
Fairness ==
  /\ \A i \in Items : WF_vars(Fill(i))
  /\ \A p \in Procs : WF_vars(FeederStep(p))
  /\ \A g \in Getters : WF_vars(GetterStep(g))

FairSpec == Spec /\ Fairness

-----------------------------------------------------------------------------
\* The type of every variable.
TypeOK ==
  /\ fresh \in SUBSET Items /\ admitted \in SUBSET Items
  /\ exiting \in SUBSET Procs
  /\ buffer \in [Procs -> Seq(Items)]
  /\ feeder \in [Procs -> {"wait", "pickle", "lock", "send", "unlock",
                           "gone", "dead"}]
  /\ fed \in [Procs -> Items \cup {NoItem}]
  /\ pipe \in Seq(Items)
  /\ sem \in 0 .. Capacity
  /\ wlock \in Procs \cup {NoOne} /\ rlock \in Getters \cup {NoOne}
  /\ getter \in [Getters -> {"idle", "poll", "release", "unlock", "dead"}]
  /\ got \in [Getters -> Items \cup {NoItem}]
  /\ received \in SUBSET Items

\* The objects that occupy a slot.
Occupying ==
  {i \in admitted : ~Ended(Producer[i])}
    \cup (UNION {ToSet(buffer[p]) : p \in Procs})
    \cup {fed[p] : p \in Procs} \cup ToSet(pipe)
    \cup {got[g] : g \in {h \in Getters : getter[h] # "dead"}}

SomeoneKilled ==
  \/ \E p \in Procs : feeder[p] = "dead"
  \/ \E g \in Getters : getter[g] = "dead"

\* Slots: whoever dies and whatever cannot be pickled, no slot is given back
\* twice, so that release() of the bounded semaphore never raises and the queue
\* never holds more than maxsize; and none leaks unless a process was killed
\* or failed on its way out.
SlotsAccounted ==
  LET used == Cardinality(Occupying \ {NoItem})
  IN  /\ sem + used <= Capacity
      /\ SomeoneKilled \/ exiting # {} \/ sem + used = Capacity

\* A process that ends by itself, with nothing that cannot be pickled, takes
\* nothing along: the sentinel is behind every object it put.
Delivered(i) == i \in received \/ i \in ToSet(pipe)
ExitLosesNothing ==
  \A p \in Procs :
    feeder[p] = "gone" =>
      \A i \in Items \ fresh :
        Producer[i] = p =>
          \/ Delivered(i)
          \/ \E j \in Unsendable : Producer[j] = p

\* The queue implements Channel: what one process puts is received in the
\* order of the puts, each object once, although puts, feeders and getters of
\* many processes interleave and die.  On its way an object is in the pipe, with
\* the feeder, or in the buffer.
Piped(i)    == i \in ToSet(pipe)
Fed(i)      == i = fed[Producer[i]]
Buffered(i) == i \in ToSet(buffer[Producer[i]])
OnItsWay(i) == Piped(i) \/ Fed(i) \/ Buffered(i)

Precedes(s, j, i) == \E k, l \in DOMAIN s : k < l /\ s[k] = j /\ s[l] = i
Before(j, i) ==
  \/ Precedes(pipe, j, i)
  \/ Piped(j) /\ (Fed(i) \/ Buffered(i))
  \/ Fed(j) /\ Buffered(i)
  \/ Precedes(buffer[Producer[i]], j, i)

Abstract == INSTANCE Channel WITH
              waiting <- {i \in Items : OnItsWay(i)},
              ahead   <- [i \in Items |-> {j \in Items : /\ Producer[j] = Producer[i]
                                                         /\ Before(j, i)}],
              taken   <- received,
              open    <- {p \in Procs : ~Ended(p)}
ImplementsChannel == Abstract!Spec

\* Every object that was put is received, though getters come and go, unless
\* it cannot be pickled, its process was killed, or a process was killed with
\* one of the locks in its hands, or no getter is left.
Stuck ==
  \/ wlock # NoOne /\ Ended(wlock)
  \/ rlock # NoOne /\ getter[rlock] = "dead"
  \/ \A g \in Getters : getter[g] = "dead"
ObjectsArrive ==
  \A i \in Items \ Unsendable :
    (i \in admitted) ~> (i \in received \/ Ended(Producer[i]) \/ Stuck)

=============================================================================

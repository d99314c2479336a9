------------------------- MODULE ProcessTaskProofs --------------------------
(***************************************************************************)
(* Proofs about the tasks of ProcessPool: each is in one place, the        *)
(* manager's table agrees with the places, and the pool implements         *)
(* TaskContract.                                                           *)
(***************************************************************************)
EXTENDS ProcessProofs

(***************************************************************************)
(* Where the tasks are.  A task moves from one place to the next: it is    *)
(* removed here and added there.                                           *)
(***************************************************************************)
Placed(bus, hand, answer, box, reply, known) ==
  /\ bus \in Seq(Tasks) /\ hand \in [Workers -> Tasks \cup {NoTask}]
  /\ answer \in [Workers -> Responses] /\ box \in [Workers -> Seq(Responses)]
  /\ reply \in Seq(Responses) /\ known \in SUBSET Tasks
  /\ OnePlace(bus, hand, answer, box, reply)
  /\ Tracked(bus, hand, answer, box, reply, known)

Absent(t, bus, hand, answer, box, reply) ==
  /\ \A i \in DOMAIN bus : bus[i] # t
  /\ \A w \in Workers : /\ hand[w] # t /\ Ended(answer[w]) # t
                        /\ \A i \in DOMAIN box[w] : Ended(box[w][i]) # t
  /\ \A j \in DOMAIN reply : Ended(reply[j]) # t

\* What a response ends is a task, or nothing.
LEMMA EndedType ==
  /\ \A r \in Responses : Ended(r) \in Tasks \cup {NoTask}
  /\ Ended(None) = NoTask
  BY DEF Ended, Responses, None, EndsTask, Match, Action

\* The first task on the bus is on it once, and nowhere else.
LEMMA RemoveFromBus ==
  ASSUME NEW bus, NEW hand, NEW answer, NEW box, NEW reply, NEW known,
         Placed(bus, hand, answer, box, reply, known), bus # <<>>
  PROVE  /\ Placed(Tail(bus), hand, answer, box, reply, known)
         /\ Absent(Head(bus), Tail(bus), hand, answer, box, reply)
         /\ Head(bus) \in known
<1>1. /\ Tail(bus) \in Seq(Tasks) /\ 1 \in DOMAIN bus /\ Head(bus) = bus[1]
      /\ \A i \in DOMAIN Tail(bus) : /\ i \in Nat /\ i + 1 \in DOMAIN bus /\ i + 1 # 1
                                     /\ Tail(bus)[i] = bus[i + 1]
  <2>1. bus \in Seq(Tasks)
    BY DEF Placed
  <2>2. QED
    BY <2>1, TailFacts
<1> USE PoolStateAssumption DEF Placed
<1>2. NoneTwice(Tail(bus), hand, answer, box, reply)
  <2>1. \A i, j \in DOMAIN Tail(bus) : Tail(bus)[i] = Tail(bus)[j] => i + 1 = j + 1
    BY <1>1 DEF OnePlace, NoneTwice
  <2>2. \A i, j \in DOMAIN Tail(bus) : Tail(bus)[i] = Tail(bus)[j] => i = j
    BY <1>1, <2>1
  <2>3. QED
    BY <2>2 DEF OnePlace, NoneTwice
<1>3. WaitsOnly(Tail(bus), hand, answer, box, reply)
  BY <1>1 DEF OnePlace, WaitsOnly
<1>4. Tracked(Tail(bus), hand, answer, box, reply, known)
  BY <1>1 DEF Tracked
<1>5. Absent(Head(bus), Tail(bus), hand, answer, box, reply)
  BY <1>1 DEF Absent, OnePlace, NoneTwice, WaitsOnly
<1>6. Head(bus) \in known
  BY <1>1 DEF Tracked
<1>7. QED
  BY <1>1, <1>2, <1>3, <1>4, <1>5, <1>6 DEF OnePlace

\* So is the task that a worker runs ...
LEMMA RemoveFromHand ==
  ASSUME NEW bus, NEW hand, NEW answer, NEW box, NEW reply, NEW known,
         Placed(bus, hand, answer, box, reply, known), NEW w \in Workers
  PROVE  /\ Placed(bus, [hand EXCEPT ![w] = NoTask], answer, box, reply, known)
         /\ hand[w] # NoTask =>
              Absent(hand[w], bus, [hand EXCEPT ![w] = NoTask], answer, box, reply)
         /\ hand[w] \in known \cup {NoTask}
<1> DEFINE h == [hand EXCEPT ![w] = NoTask]
<1> USE PoolStateAssumption DEF Placed
<1>1. /\ h \in [Workers -> Tasks \cup {NoTask}] /\ h[w] = NoTask
      /\ \A v \in Workers : v # w => h[v] = hand[v]
      /\ \A i \in DOMAIN bus : bus[i] # NoTask
  OBVIOUS
<1> HIDE DEF h
<1>2. NoneTwice(bus, h, answer, box, reply) /\ WaitsOnly(bus, h, answer, box, reply)
  <2>1. \A u, v \in Workers : h[u] = h[v] => u = v \/ h[u] = NoTask
    BY <1>1 DEF OnePlace, NoneTwice
  <2>2. NoneTwice(bus, h, answer, box, reply)
    BY <2>1 DEF OnePlace, NoneTwice
  <2>3. \A i \in DOMAIN bus : \A v \in Workers : bus[i] # h[v]
    BY <1>1 DEF OnePlace, WaitsOnly
  <2>4. QED
    BY <2>2, <2>3 DEF OnePlace, WaitsOnly
<1>3. RunsOnly(h, answer, box, reply)
  BY <1>1 DEF OnePlace, RunsOnly
<1>4. Tracked(bus, h, answer, box, reply, known) /\ hand[w] \in known \cup {NoTask}
  BY <1>1 DEF Tracked
<1>5. hand[w] # NoTask => Absent(hand[w], bus, h, answer, box, reply)
  BY <1>1, SMTT(20) DEF Absent, OnePlace, NoneTwice, WaitsOnly, RunsOnly
<1>6. QED
  BY <1>1, <1>2, <1>3, <1>4, <1>5 DEF OnePlace, h

\* ... the one whose end it is about to report ...
LEMMA RemoveFromAnswer ==
  ASSUME NEW bus, NEW hand, NEW answer, NEW box, NEW reply, NEW known,
         Placed(bus, hand, answer, box, reply, known), NEW w \in Workers
  PROVE  /\ Placed(bus, hand, [answer EXCEPT ![w] = None], box, reply, known)
         /\ Ended(answer[w]) # NoTask =>
              Absent(Ended(answer[w]), bus, hand, [answer EXCEPT ![w] = None], box, reply)
         /\ Ended(answer[w]) \in known \cup {NoTask}
<1> DEFINE a == [answer EXCEPT ![w] = None]
<1> USE PoolStateAssumption DEF Placed
<1>1. /\ a \in [Workers -> Responses] /\ a[w] = None /\ Ended(a[w]) = NoTask
      /\ \A v \in Workers : v # w => a[v] = answer[v]
      /\ \A i \in DOMAIN bus : bus[i] # NoTask
  BY EndedType, ResponseFacts
<1> HIDE DEF a
<1>2. NoneTwice(bus, hand, a, box, reply) /\ WaitsOnly(bus, hand, a, box, reply)
  <2>1. \A u, v \in Workers : Ended(a[u]) = Ended(a[v])
                                => u = v \/ Ended(a[u]) = NoTask
    BY <1>1 DEF OnePlace, NoneTwice
  <2>2. NoneTwice(bus, hand, a, box, reply)
    BY <2>1 DEF OnePlace, NoneTwice
  <2>3. \A i \in DOMAIN bus : \A v \in Workers : bus[i] # Ended(a[v])
    BY <1>1 DEF OnePlace, WaitsOnly
  <2>4. QED
    BY <2>2, <2>3 DEF OnePlace, WaitsOnly
<1>3. RunsOnly(hand, a, box, reply) /\ ReportedOnce(a, box, reply)
  <2>1. \A u, v \in Workers : hand[u] # NoTask => hand[u] # Ended(a[v])
    BY <1>1 DEF OnePlace, RunsOnly
  <2>2. RunsOnly(hand, a, box, reply)
    BY <2>1 DEF OnePlace, RunsOnly
  <2>3. \A v \in Workers : Ended(a[v]) # NoTask => a[v] = answer[v]
    BY <1>1
  <2>4. ReportedOnce(answer, box, reply)
    BY DEF OnePlace
  <2>5. ReportedOnce(a, box, reply)
    BY <2>3, <2>4 DEF ReportedOnce
  <2>6. QED
    BY <2>2, <2>5
<1>4. Tracked(bus, hand, a, box, reply, known) /\ Ended(answer[w]) \in known \cup {NoTask}
  BY <1>1 DEF Tracked
<1>5. Ended(answer[w]) # NoTask => Absent(Ended(answer[w]), bus, hand, a, box, reply)
  BY <1>1 DEF Absent, OnePlace, NoneTwice, WaitsOnly, RunsOnly, ReportedOnce
<1>6. QED
  BY <1>1, <1>2, <1>3, <1>4, <1>5 DEF OnePlace, a

\* ... the first in its buffer, or all that are there ...
LEMMA ShorterBox ==
  ASSUME NEW bus, NEW hand, NEW answer, NEW box, NEW reply, NEW known,
         Placed(bus, hand, answer, box, reply, known),
         NEW b \in [Workers -> Seq(Responses)],
         \A v \in Workers : \A i \in DOMAIN b[v] :
           \E k \in DOMAIN box[v] : b[v][i] = box[v][k],
         \A u, v \in Workers : \A i \in DOMAIN b[u], j \in DOMAIN b[v] :
           Ended(b[u][i]) = Ended(b[v][j])
             => (u = v /\ i = j) \/ Ended(b[u][i]) = NoTask
  PROVE  Placed(bus, hand, answer, b, reply, known)
<1> USE DEF Placed, OnePlace
<1>1. NoneTwice(bus, hand, answer, b, reply)
  BY DEF NoneTwice
<1>2. WaitsOnly(bus, hand, answer, b, reply)
  <2>1. \A i \in DOMAIN bus : \A w \in Workers : \A j \in DOMAIN b[w] :
          bus[i] # Ended(b[w][j])
    BY DEF WaitsOnly
  <2>2. QED
    BY <2>1 DEF WaitsOnly
<1>3. RunsOnly(hand, answer, b, reply)
  <2>1. \A v \in Workers : hand[v] # NoTask =>
          \A w \in Workers : \A j \in DOMAIN b[w] : hand[v] # Ended(b[w][j])
    BY DEF RunsOnly
  <2>2. QED
    BY <2>1 DEF RunsOnly
<1>4. ReportedOnce(answer, b, reply)
  <2>1. \A v \in Workers : Ended(answer[v]) # NoTask =>
          \A w \in Workers : \A j \in DOMAIN b[w] :
            Ended(answer[v]) # Ended(b[w][j])
    BY DEF ReportedOnce
  <2>2. \A w \in Workers : \A i \in DOMAIN b[w], j \in DOMAIN reply :
          Ended(b[w][i]) = Ended(reply[j]) => Ended(reply[j]) = NoTask
    BY DEF ReportedOnce
  <2>3. QED
    BY <2>1, <2>2 DEF ReportedOnce
<1>5. Tracked(bus, hand, answer, b, reply, known)
  <2>1. \A w \in Workers : \A i \in DOMAIN b[w] :
          Ended(b[w][i]) \in known \cup {NoTask}
    BY DEF Tracked
  <2>2. QED
    BY <2>1 DEF Tracked
<1>6. QED
  BY <1>1, <1>2, <1>3, <1>4, <1>5

\* A response taken from a worker's queue: its task is nowhere then.
LEMMA RemoveFromBox ==
  ASSUME NEW bus, NEW hand, NEW answer, NEW box, NEW reply, NEW known,
         Placed(bus, hand, answer, box, reply, known),
         NEW w \in Workers, box[w] # <<>>
  PROVE  LET b == [box EXCEPT ![w] = Tail(@)]
             t == Ended(Head(box[w]))
         IN  /\ Placed(bus, hand, answer, b, reply, known)
             /\ t # NoTask => Absent(t, bus, hand, answer, b, reply)
             /\ t \in known \cup {NoTask} /\ Head(box[w]) \in Responses
<1> DEFINE b == [box EXCEPT ![w] = Tail(@)]
           t == Ended(box[w][1])
<1> USE DEF Placed, OnePlace
<1>1. box[w] \in Seq(Responses) /\ box \in [Workers -> Seq(Responses)]
  OBVIOUS
<1>2. /\ Tail(box[w]) \in Seq(Responses)
      /\ Head(box[w]) \in Responses
      /\ 1 \in DOMAIN box[w] /\ Head(box[w]) = box[w][1]
      /\ \A i \in DOMAIN Tail(box[w]) : /\ i \in Nat /\ i + 1 \in DOMAIN box[w] /\ i + 1 # 1
                                        /\ Tail(box[w])[i] = box[w][i + 1]
  BY <1>1, TailFacts
<1>3. /\ b \in [Workers -> Seq(Responses)] /\ b[w] = Tail(box[w])
      /\ \A v \in Workers : v # w => b[v] = box[v]
  BY <1>1, <1>2
<1> HIDE DEF b
<1>4. \A v \in Workers : \A i \in DOMAIN b[v] :
        \E k \in DOMAIN box[v] : b[v][i] = box[v][k] /\ ~(v = w /\ k = 1)
  <2> TAKE v \in Workers
  <2> TAKE i \in DOMAIN b[v]
  <2>1. CASE v = w
    <3>1. i + 1 \in DOMAIN box[v] /\ b[v][i] = box[v][i + 1] /\ i + 1 # 1
      BY <1>2, <1>3, <2>1
    <3>2. QED
      BY <3>1
  <2>2. CASE v # w
    BY <1>3, <2>2
  <2>3. QED
    BY <2>1, <2>2
<1>5. ASSUME NEW u \in Workers, NEW v \in Workers,
             NEW i \in DOMAIN b[u], NEW j \in DOMAIN b[v],
             Ended(b[u][i]) = Ended(b[v][j]), Ended(b[u][i]) # NoTask
      PROVE  u = v /\ i = j
  <2>1. CASE u = w /\ v = w
    <3>1. /\ i \in Nat /\ j \in Nat /\ i + 1 \in DOMAIN box[w] /\ j + 1 \in DOMAIN box[w]
          /\ b[u][i] = box[w][i + 1] /\ b[v][j] = box[w][j + 1]
      BY <1>2, <1>3, <2>1
    <3>2. i + 1 = j + 1
      BY <1>5, <3>1 DEF NoneTwice
    <3>3. QED
      BY <2>1, <3>1, <3>2
  <2>2. CASE u # w \/ v # w
    <3>1. u = v
      BY <1>4, <1>5 DEF NoneTwice
    <3>2. b[u] = box[u] /\ b[v] = box[v]
      BY <1>3, <2>2, <3>1
    <3>3. QED
      BY <1>5, <3>1, <3>2 DEF NoneTwice
  <2>3. QED
    BY <2>1, <2>2
<1>6. Placed(bus, hand, answer, b, reply, known)
  <2>1. \A v \in Workers : \A i \in DOMAIN b[v] :
          \E k \in DOMAIN box[v] : b[v][i] = box[v][k]
    BY <1>4
  <2>2. \A u, v \in Workers : \A i \in DOMAIN b[u], j \in DOMAIN b[v] :
          Ended(b[u][i]) = Ended(b[v][j])
            => (u = v /\ i = j) \/ Ended(b[u][i]) = NoTask
    BY <1>5
  <2> HIDE DEF Placed, OnePlace
  <2>3. QED
    BY <1>3, <2>1, <2>2, ShorterBox
<1>7. ASSUME t # NoTask
      PROVE  Absent(t, bus, hand, answer, b, reply)
  <2>1. \A v \in Workers : \A i \in DOMAIN b[v] : Ended(b[v][i]) # t
    BY <1>2, <1>4, <1>7 DEF NoneTwice
  <2>2. /\ \A i \in DOMAIN bus : bus[i] # t
        /\ \A j \in DOMAIN reply : Ended(reply[j]) # t
    BY <1>2, <1>7 DEF WaitsOnly, ReportedOnce
  <2>3. \A v \in Workers : hand[v] # t
    BY <1>2, <1>7 DEF RunsOnly
  <2>4. \A v \in Workers : Ended(answer[v]) # t
    BY <1>2, <1>7 DEF ReportedOnce
  <2>5. QED
    BY <2>1, <2>2, <2>3, <2>4 DEF Absent
<1>8. t \in known \cup {NoTask}
  BY <1>2 DEF Tracked
<1>9. QED
  BY <1>2, <1>6, <1>7, <1>8 DEF b

\* The queue of a worker that crashes may be lost.
LEMMA EmptyBox ==
  ASSUME NEW bus, NEW hand, NEW answer, NEW box, NEW reply, NEW known,
         Placed(bus, hand, answer, box, reply, known), NEW w \in Workers
  PROVE  Placed(bus, hand, answer, [box EXCEPT ![w] = <<>>], reply, known)
<1> DEFINE b == [box EXCEPT ![w] = <<>>]
<1>1. /\ b \in [Workers -> Seq(Responses)] /\ DOMAIN b[w] = {}
      /\ \A v \in Workers : v # w => b[v] = box[v]
  BY DEF Placed
<1> HIDE DEF b
<1>2. \A u, v \in Workers : \A i \in DOMAIN b[u], j \in DOMAIN b[v] :
        Ended(b[u][i]) = Ended(b[v][j])
          => (u = v /\ i = j) \/ Ended(b[u][i]) = NoTask
  <2>1. \A u \in Workers : \A i \in DOMAIN b[u] : u # w
    BY <1>1
  <2>2. QED
    BY <1>1, <2>1 DEF Placed, OnePlace, NoneTwice
<1>3. Placed(bus, hand, answer, b, reply, known)
  BY <1>1, <1>2, ShorterBox
<1>4. QED
  BY <1>3 DEF b

\* ... and the first one whose end is reported.
LEMMA RemoveFromReply ==
  ASSUME NEW bus, NEW hand, NEW answer, NEW box, NEW reply, NEW known,
         Placed(bus, hand, answer, box, reply, known), reply # <<>>
  PROVE  LET t == Ended(Head(reply))
         IN  /\ Placed(bus, hand, answer, box, Tail(reply), known)
             /\ t # NoTask => Absent(t, bus, hand, answer, box, Tail(reply))
             /\ t \in known \cup {NoTask} /\ Head(reply) \in Responses
<1> DEFINE t == Ended(Head(reply))
<1> USE DEF Placed, OnePlace
<1>1. reply \in Seq(Responses)
  OBVIOUS
<1>2. /\ Tail(reply) \in Seq(Responses) /\ Head(reply) \in Responses
      /\ 1 \in DOMAIN reply /\ Head(reply) = reply[1]
      /\ \A i \in DOMAIN Tail(reply) : /\ i \in Nat /\ i + 1 \in DOMAIN reply /\ i + 1 # 1
                                       /\ Tail(reply)[i] = reply[i + 1]
  BY <1>1, TailFacts
<1>3. NoneTwice(bus, hand, answer, box, Tail(reply))
  <2>1. \A i, j \in DOMAIN Tail(reply) :
          Ended(Tail(reply)[i]) = Ended(Tail(reply)[j])
            => i + 1 = j + 1 \/ Ended(Tail(reply)[i]) = NoTask
    BY <1>2 DEF NoneTwice
  <2>2. \A i, j \in DOMAIN Tail(reply) :
          Ended(Tail(reply)[i]) = Ended(Tail(reply)[j])
            => i = j \/ Ended(Tail(reply)[i]) = NoTask
    BY <1>2, <2>1
  <2>3. QED
    BY <2>2 DEF NoneTwice
<1>4. WaitsOnly(bus, hand, answer, box, Tail(reply))
  BY <1>2 DEF WaitsOnly
<1>5. RunsOnly(hand, answer, box, Tail(reply))
  BY <1>2 DEF RunsOnly
<1>6. ReportedOnce(answer, box, Tail(reply))
  BY <1>2 DEF ReportedOnce
<1>7. Tracked(bus, hand, answer, box, Tail(reply), known) /\ t \in known \cup {NoTask}
  BY <1>2 DEF Tracked
<1>8. ASSUME t # NoTask
      PROVE  Absent(t, bus, hand, answer, box, Tail(reply))
  <2>1. /\ \A i \in DOMAIN bus : bus[i] # t
        /\ \A v \in Workers : hand[v] # t /\ Ended(answer[v]) # t
    BY <1>2, <1>8 DEF WaitsOnly, RunsOnly, ReportedOnce
  <2>2. \A v \in Workers : \A i \in DOMAIN box[v] : Ended(box[v][i]) # t
    BY <1>2, <1>8 DEF ReportedOnce
  <2>3. \A j \in DOMAIN Tail(reply) : Ended(Tail(reply)[j]) # t
    BY <1>2, <1>8 DEF NoneTwice
  <2>4. QED
    BY <2>1, <2>2, <2>3 DEF Absent
<1>9. QED
  BY <1>2, <1>3, <1>4, <1>5, <1>6, <1>7, <1>8

\* A task that is nowhere may be put on the bus, ...
LEMMA AddToBus ==
  ASSUME NEW bus, NEW hand, NEW answer, NEW box, NEW reply, NEW known,
         Placed(bus, hand, answer, box, reply, known), NEW t \in known,
         Absent(t, bus, hand, answer, box, reply)
  PROVE  Placed(Append(bus, t), hand, answer, box, reply, known)
<1> DEFINE b == Append(bus, t)
<1> USE DEF Placed, OnePlace
<1>1. bus \in Seq(Tasks) /\ t \in Tasks
  OBVIOUS
<1>2. /\ b \in Seq(Tasks)
      /\ \A i \in DOMAIN b : \/ i \in DOMAIN bus /\ b[i] = bus[i]
                             \/ i = Len(bus) + 1 /\ b[i] = t
  BY <1>1, AppendFacts
<1> HIDE DEF b
<1>3. NoneTwice(b, hand, answer, box, reply)
  <2>1. \A i, j \in DOMAIN b : b[i] = b[j] => i = j
    BY <1>2 DEF NoneTwice, Absent
  <2>2. QED
    BY <2>1 DEF NoneTwice
<1>4. WaitsOnly(b, hand, answer, box, reply)
  <2> SUFFICES ASSUME NEW i \in DOMAIN b
               PROVE  /\ \A w \in Workers :
                           /\ b[i] # hand[w] /\ b[i] # Ended(answer[w])
                           /\ \A j \in DOMAIN box[w] : b[i] # Ended(box[w][j])
                      /\ \A j \in DOMAIN reply : b[i] # Ended(reply[j])
    BY DEF WaitsOnly
  <2>1. CASE i \in DOMAIN bus /\ b[i] = bus[i]
    BY <2>1 DEF WaitsOnly
  <2>2. CASE b[i] = t
    BY <2>2 DEF Absent
  <2>3. QED
    BY <1>2, <2>1, <2>2
<1>5. Tracked(b, hand, answer, box, reply, known)
  BY <1>2 DEF Tracked
<1>6. QED
  BY <1>2, <1>3, <1>4, <1>5 DEF b

\* ... into the hand of a worker, ...
LEMMA AddToHand ==
  ASSUME NEW bus, NEW hand, NEW answer, NEW box, NEW reply, NEW known,
         Placed(bus, hand, answer, box, reply, known), NEW t \in known,
         Absent(t, bus, hand, answer, box, reply), NEW w \in Workers
  PROVE  Placed(bus, [hand EXCEPT ![w] = t], answer, box, reply, known)
<1> DEFINE h == [hand EXCEPT ![w] = t]
<1> USE DEF Placed, OnePlace
<1>1. /\ h \in [Workers -> Tasks \cup {NoTask}] /\ h[w] = t
      /\ \A v \in Workers : v # w => h[v] = hand[v]
  OBVIOUS
<1> HIDE DEF h
<1>2. NoneTwice(bus, h, answer, box, reply)
  <2>1. \A u, v \in Workers : h[u] = h[v] => u = v \/ h[u] = NoTask
    BY <1>1 DEF NoneTwice, Absent
  <2>2. QED
    BY <2>1 DEF NoneTwice
<1>3. WaitsOnly(bus, h, answer, box, reply)
  <2>1. \A i \in DOMAIN bus : \A v \in Workers : bus[i] # h[v]
    BY <1>1 DEF WaitsOnly, Absent
  <2>2. QED
    BY <2>1 DEF WaitsOnly
<1>4. RunsOnly(h, answer, box, reply)
  <2> SUFFICES ASSUME NEW v \in Workers, h[v] # NoTask
               PROVE  /\ \A u \in Workers :
                           /\ h[v] # Ended(answer[u])
                           /\ \A j \in DOMAIN box[u] : h[v] # Ended(box[u][j])
                      /\ \A j \in DOMAIN reply : h[v] # Ended(reply[j])
    BY DEF RunsOnly
  <2>1. CASE v = w
    BY <1>1, <2>1 DEF Absent
  <2>2. CASE v # w
    BY <1>1, <2>2 DEF RunsOnly
  <2>3. QED
    BY <2>1, <2>2
<1>5. Tracked(bus, h, answer, box, reply, known)
  <2>1. \A v \in Workers : h[v] \in known \cup {NoTask}
    BY <1>1 DEF Tracked
  <2>2. QED
    BY <2>1 DEF Tracked
<1>6. QED
  BY <1>1, <1>2, <1>3, <1>4, <1>5 DEF h

\* ... and its end into a worker's answer, ...
LEMMA AddToAnswer ==
  ASSUME NEW bus, NEW hand, NEW answer, NEW box, NEW reply, NEW known,
         Placed(bus, hand, answer, box, reply, known),
         NEW w \in Workers, NEW r \in Responses,
         Ended(r) # NoTask =>
           Ended(r) \in known /\ Absent(Ended(r), bus, hand, answer, box, reply)
  PROVE  Placed(bus, hand, [answer EXCEPT ![w] = r], box, reply, known)
<1> DEFINE a == [answer EXCEPT ![w] = r]
           t == Ended(r)
<1> USE DEF Placed, OnePlace
<1>1. /\ a \in [Workers -> Responses] /\ Ended(a[w]) = t
      /\ \A v \in Workers : v # w => a[v] = answer[v]
      /\ \A i \in DOMAIN bus : bus[i] # NoTask
  BY PoolStateAssumption
<1>2. t # NoTask => t \in known /\ Absent(t, bus, hand, answer, box, reply)
  OBVIOUS
<1> HIDE DEF a, t
<1>3. NoneTwice(bus, hand, a, box, reply)
  <2>1. \A u, v \in Workers : Ended(a[u]) = Ended(a[v])
                                => u = v \/ Ended(a[u]) = NoTask
    <3>1. \A u \in Workers : u # w => Ended(a[u]) # t \/ t = NoTask
      BY <1>1, <1>2 DEF Absent
    <3>2. \A u, v \in Workers :
            u # w /\ v # w /\ Ended(a[u]) = Ended(a[v])
              => u = v \/ Ended(a[u]) = NoTask
      BY <1>1 DEF NoneTwice
    <3>3. QED
      BY <1>1, <3>1, <3>2
  <2>2. QED
    BY <2>1 DEF NoneTwice
<1>4. WaitsOnly(bus, hand, a, box, reply)
  <2>1. \A i \in DOMAIN bus : \A v \in Workers : bus[i] # Ended(a[v])
    BY <1>1, <1>2 DEF WaitsOnly, Absent
  <2>2. QED
    BY <2>1 DEF WaitsOnly
<1>5. RunsOnly(hand, a, box, reply)
  <2>1. \A u, v \in Workers : hand[u] # NoTask => hand[u] # Ended(a[v])
    BY <1>1, <1>2 DEF RunsOnly, Absent
  <2>2. QED
    BY <2>1 DEF RunsOnly
<1>6. ReportedOnce(a, box, reply)
  <2>1. ASSUME NEW v \in Workers, Ended(a[v]) # NoTask
        PROVE  /\ \A u \in Workers : \A j \in DOMAIN box[u] :
                    Ended(a[v]) # Ended(box[u][j])
               /\ \A j \in DOMAIN reply : Ended(a[v]) # Ended(reply[j])
    <3>1. CASE v = w
      BY <1>1, <1>2, <2>1, <3>1 DEF Absent
    <3>2. CASE v # w
      BY <1>1, <2>1, <3>2 DEF ReportedOnce
    <3>3. QED
      BY <3>1, <3>2
  <2>2. QED
    BY <2>1 DEF ReportedOnce
<1>7. Tracked(bus, hand, a, box, reply, known)
  <2>1. \A v \in Workers : Ended(a[v]) \in known \cup {NoTask}
    BY <1>1, <1>2 DEF Tracked
  <2>2. QED
    BY <2>1 DEF Tracked
<1>8. QED
  BY <1>1, <1>3, <1>4, <1>5, <1>6, <1>7 DEF a

\* ... at the end of its buffer ...
LEMMA AddToBox ==
  ASSUME NEW bus, NEW hand, NEW answer, NEW box, NEW reply, NEW known,
         Placed(bus, hand, answer, box, reply, known),
         NEW w \in Workers, NEW r \in Responses,
         Ended(r) # NoTask =>
           Ended(r) \in known /\ Absent(Ended(r), bus, hand, answer, box, reply)
  PROVE  Placed(bus, hand, answer, [box EXCEPT ![w] = Append(@, r)], reply, known)
<1> DEFINE b == [box EXCEPT ![w] = Append(@, r)]
           t == Ended(r)
<1> USE DEF Placed, OnePlace
<1>1. /\ box[w] \in Seq(Responses) /\ box \in [Workers -> Seq(Responses)]
      /\ \A i \in DOMAIN bus : bus[i] # NoTask
  BY PoolStateAssumption
<1>2. /\ Append(box[w], r) \in Seq(Responses)
      /\ \A i \in DOMAIN Append(box[w], r) :
           \/ i \in DOMAIN box[w] /\ Append(box[w], r)[i] = box[w][i]
           \/ i = Len(box[w]) + 1 /\ Append(box[w], r)[i] = r
  BY <1>1, AppendFacts
<1>3. /\ b \in [Workers -> Seq(Responses)] /\ b[w] = Append(box[w], r)
      /\ \A v \in Workers : v # w => b[v] = box[v]
  BY <1>1, <1>2
<1>4. t # NoTask => t \in known /\ Absent(t, bus, hand, answer, box, reply)
  OBVIOUS
<1> HIDE DEF b, t
<1>5. \A v \in Workers : \A i \in DOMAIN b[v] :
        \/ i \in DOMAIN box[v] /\ b[v][i] = box[v][i]
        \/ v = w /\ i = Len(box[w]) + 1 /\ Ended(b[v][i]) = t
  <2> TAKE v \in Workers
  <2> TAKE i \in DOMAIN b[v]
  <2>1. CASE v = w
    BY <1>2, <1>3, <2>1 DEF t
  <2>2. CASE v # w
    BY <1>3, <2>2
  <2>3. QED
    BY <2>1, <2>2
<1>6. NoneTwice(bus, hand, answer, b, reply)
  <2>1. \A u, v \in Workers : \A i \in DOMAIN b[u], j \in DOMAIN b[v] :
          Ended(b[u][i]) = Ended(b[v][j])
            => (u = v /\ i = j) \/ Ended(b[u][i]) = NoTask
    BY <1>4, <1>5 DEF NoneTwice, Absent
  <2>2. QED
    BY <2>1 DEF NoneTwice
<1>7. WaitsOnly(bus, hand, answer, b, reply)
  <2>1. \A i \in DOMAIN bus : \A v \in Workers : \A j \in DOMAIN b[v] :
          bus[i] # Ended(b[v][j])
    BY <1>1, <1>4, <1>5 DEF WaitsOnly, Absent
  <2>2. QED
    BY <2>1 DEF WaitsOnly
<1>8. RunsOnly(hand, answer, b, reply)
  <2>1. \A u, v \in Workers : hand[u] # NoTask =>
          \A j \in DOMAIN b[v] : hand[u] # Ended(b[v][j])
    BY <1>4, <1>5 DEF RunsOnly, Absent
  <2>2. QED
    BY <2>1 DEF RunsOnly
<1>9. ReportedOnce(answer, b, reply)
  <2>1. \A u, v \in Workers : Ended(answer[u]) # NoTask =>
          \A j \in DOMAIN b[v] : Ended(answer[u]) # Ended(b[v][j])
    BY <1>4, <1>5 DEF ReportedOnce, Absent
  <2>2. \A v \in Workers : \A i \in DOMAIN b[v], j \in DOMAIN reply :
          Ended(b[v][i]) = Ended(reply[j]) => Ended(reply[j]) = NoTask
    BY <1>4, <1>5 DEF ReportedOnce, Absent
  <2>3. QED
    BY <2>1, <2>2 DEF ReportedOnce
<1>10. Tracked(bus, hand, answer, b, reply, known)
  <2>1. \A v \in Workers : \A i \in DOMAIN b[v] :
          Ended(b[v][i]) \in known \cup {NoTask}
    BY <1>4, <1>5 DEF Tracked
  <2>2. QED
    BY <2>1 DEF Tracked
<1>11. QED
  BY <1>3, <1>6, <1>7, <1>8, <1>9, <1>10 DEF b

\* ... or on the response bus.
LEMMA AddToReply ==
  ASSUME NEW bus, NEW hand, NEW answer, NEW box, NEW reply, NEW known,
         Placed(bus, hand, answer, box, reply, known), NEW r \in Responses,
         Ended(r) # NoTask =>
           Ended(r) \in known /\ Absent(Ended(r), bus, hand, answer, box, reply)
  PROVE  Placed(bus, hand, answer, box, Append(reply, r), known)
<1> DEFINE p == Append(reply, r)
           t == Ended(r)
<1> USE DEF Placed, OnePlace
<1>1. reply \in Seq(Responses) /\ \A i \in DOMAIN bus : bus[i] # NoTask
  BY PoolStateAssumption
<1>2. /\ p \in Seq(Responses)
      /\ \A i \in DOMAIN p : \/ i \in DOMAIN reply /\ p[i] = reply[i]
                             \/ i = Len(reply) + 1 /\ Ended(p[i]) = t
  BY <1>1, AppendFacts
<1>3. t # NoTask => t \in known /\ Absent(t, bus, hand, answer, box, reply)
  OBVIOUS
<1> HIDE DEF p, t
<1>4. NoneTwice(bus, hand, answer, box, p)
  <2>1. \A i, j \in DOMAIN p : Ended(p[i]) = Ended(p[j])
                                 => i = j \/ Ended(p[i]) = NoTask
    BY <1>2, <1>3 DEF NoneTwice, Absent
  <2>2. QED
    BY <2>1 DEF NoneTwice
<1>5. WaitsOnly(bus, hand, answer, box, p)
  <2>1. \A i \in DOMAIN bus : \A j \in DOMAIN p : bus[i] # Ended(p[j])
    BY <1>1, <1>2, <1>3 DEF WaitsOnly, Absent
  <2>2. QED
    BY <2>1 DEF WaitsOnly
<1>6. RunsOnly(hand, answer, box, p)
  <2>1. \A v \in Workers : hand[v] # NoTask =>
          \A j \in DOMAIN p : hand[v] # Ended(p[j])
    BY <1>2, <1>3 DEF RunsOnly, Absent
  <2>2. QED
    BY <2>1 DEF RunsOnly
<1>7. ReportedOnce(answer, box, p)
  <2>1. \A v \in Workers : Ended(answer[v]) # NoTask =>
          \A j \in DOMAIN p : Ended(answer[v]) # Ended(p[j])
    BY <1>2, <1>3 DEF ReportedOnce, Absent
  <2>2. \A v \in Workers : \A i \in DOMAIN box[v], j \in DOMAIN p :
          Ended(box[v][i]) = Ended(p[j]) => Ended(p[j]) = NoTask
    BY <1>2, <1>3 DEF ReportedOnce, Absent
  <2>3. QED
    BY <2>1, <2>2 DEF ReportedOnce
<1>8. Tracked(bus, hand, answer, box, p, known)
  <2>1. \A j \in DOMAIN p : Ended(p[j]) \in known \cup {NoTask}
    BY <1>2, <1>3 DEF Tracked
  <2>2. QED
    BY <2>1 DEF Tracked
<1>9. QED
  BY <1>2, <1>4, <1>5, <1>6, <1>7, <1>8 DEF p

\* The table may know more tasks, and may forget one that is nowhere.
LEMMA KnowMore ==
  ASSUME NEW bus, NEW hand, NEW answer, NEW box, NEW reply, NEW known,
         Placed(bus, hand, answer, box, reply, known), NEW t \in Tasks
  PROVE  Placed(bus, hand, answer, box, reply, known \cup {t})
<1>1. Tracked(bus, hand, answer, box, reply, known \cup {t})
  BY DEF Placed, Tracked
<1>2. QED
  BY <1>1 DEF Placed

\* The entry of a task that is nowhere may go.
LEMMA Forget ==
  ASSUME NEW bus, NEW hand, NEW answer, NEW box, NEW reply, NEW known,
         Placed(bus, hand, answer, box, reply, known), NEW t,
         Absent(t, bus, hand, answer, box, reply)
  PROVE  Placed(bus, hand, answer, box, reply, known \ {t})
<1>1. Tracked(bus, hand, answer, box, reply, known \ {t})
  BY DEF Placed, Tracked, Absent
<1>2. QED
  BY <1>1 DEF Placed

-----------------------------------------------------------------------------
(***************************************************************************)
(* The steps of a pool.                                                    *)
(***************************************************************************)

\* What the responses of the code end.
LEMMA EndedFacts ==
  /\ \A flag, w : Ended(Action(flag, NoTask, w)) = NoTask
  /\ \A t \in Tasks : \A w : \A o \in {"result", "exception"} :
       /\ Ended(AnswerTo(t, w, o)) = t
       /\ Ended(AddFlag(AnswerTo(t, w, o), "RESTART")) = t
  /\ \A t, w : AnswerTo(t, w, "exit") = None
  BY DEF Ended, Action, AnswerTo, EndsTask, Match, AddFlag, None

\* A sequence with one more element in front.
LEMMA FrontFacts ==
  ASSUME NEW S, NEW r \in S, NEW s \in Seq(S)
  PROVE  LET p == <<r>> \o s
         IN  /\ p \in Seq(S) /\ p # <<>> /\ Head(p) = r /\ Tail(p) = s
             /\ \A x \in S : Append(p, x) = <<r>> \o Append(s, x)
<1> DEFINE p == <<r>> \o s
<1>1. p \in Seq(S) /\ Len(p) = 1 + Len(s) /\ p # <<>> /\ Head(p) = r
  OBVIOUS
<1>2. Tail(p) = s
  OBVIOUS
<1>3. ASSUME NEW x \in S
      PROVE  Append(p, x) = <<r>> \o Append(s, x)
  OBVIOUS
<1>4. QED
  BY <1>1, <1>2, <1>3

\* The manager has the task whose end it has taken off the bus in its hands,
LEMMA HeldIs ==
  \A t : t \in Held <=> /\ t \in Tasks /\ mpc \in {"pop", "set"}
                        /\ Ended(received) = t /\ future[t] \in {"pending", "cancelled"}
  BY PoolStateAssumption DEF Held, Taken, InHand, Reports, Ended

\* also in the next state.
LEMMA HeldIsNext ==
  (\A t : t \in Held <=> /\ t \in Tasks /\ mpc \in {"pop", "set"}
                         /\ Ended(received) = t /\ future[t] \in {"pending", "cancelled"})'
  BY HeldIs, PTL

\* It has one task at most, and its answer goes as the head of the bus.
LEMMA HeldFacts ==
  ASSUME TypeOK, TaskInv
  PROVE  /\ Held = IF mpc \in {"pop", "set"} /\ Ended(received) # NoTask
                   THEN {Ended(received)} ELSE {}
         /\ Held \in SUBSET Tasks /\ Known \in SUBSET Tasks
         /\ received \in Responses /\ responseBus \in Seq(Responses)
         /\ Replies \in Seq(Responses)
         /\ Held # {} => /\ Replies # <<>> /\ Head(Replies) = received
                         /\ Tail(Replies) = responseBus
         /\ Held = {} => Replies = responseBus /\ Known = currTasks
<1>1. /\ received \in Responses /\ responseBus \in Seq(Responses)
      /\ currTasks \in SUBSET Tasks
  BY DEF TypeOK, ProcessStateTypeOK, PoolStateTypeOK, ProcessManagerTypeOK, TableTypeOK
<1>2. mpc \in {"pop", "set"} /\ Ended(received) # NoTask =>
        /\ Ended(received) \in Tasks
        /\ future[Ended(received)] \in {"pending", "cancelled"}
  <2>1. CASE mpc = "pop"
    BY <1>1, <2>1 DEF TaskInv, HandOK, FuturesOK
  <2>2. CASE mpc = "set"
    BY <2>2 DEF TaskInv, HandOK, Ended
  <2>3. QED
    BY <2>1, <2>2
<1>3. Held = IF mpc \in {"pop", "set"} /\ Ended(received) # NoTask
             THEN {Ended(received)} ELSE {}
  BY <1>2, HeldIs, PoolStateAssumption
<1>4. Held \in SUBSET Tasks /\ Known \in SUBSET Tasks
  BY <1>1 DEF Held, Known
<1>5. LET p == <<received>> \o responseBus
      IN  p \in Seq(Responses) /\ p # <<>> /\ Head(p) = received /\ Tail(p) = responseBus
  BY <1>1, FrontFacts
<1>6. QED
  BY <1>1, <1>3, <1>4, <1>5 DEF Replies, Known

\* What others do leaves it there, ahead of the answers that come.
LEMMA OthersKeepHeld ==
  ASSUME TypeOK, Held' = Held, UNCHANGED <<received, currTasks>>
  PROVE  /\ Known' = Known
         /\ responseBus' = responseBus => Replies' = Replies
         /\ \A r \in Responses :
              responseBus' = Append(responseBus, r) => Replies' = Append(Replies, r)
<1>1. received \in Responses /\ responseBus \in Seq(Responses)
  BY DEF TypeOK, ProcessStateTypeOK, PoolStateTypeOK, ProcessManagerTypeOK
<1>2. \A r \in Responses : Append(<<received>> \o responseBus, r)
                             = <<received>> \o Append(responseBus, r)
  BY <1>1, FrontFacts
<1>3. QED
  BY <1>2 DEF Known, Replies

\* The places of the pool as it is now.
LEMMA NowPlaced ==
  ASSUME TypeOK, TaskInv
  PROVE  Placed(taskBus, task, response, outbox, Replies, Known)
  BY HeldFacts
     DEF TypeOK, ProcessStateTypeOK, PoolStateTypeOK, ProcessWorkerTypeOK, TaskInv, Placed

\* A worker at work holds a task, one behind its loop an answer.
LEMMA HoldsOne ==
  ASSUME TypeOK, AnswersOK, HandsOK, NEW w \in Workers
  PROVE  /\ task[w] \in Tasks \cup {NoTask} /\ response[w] \in Responses
         /\ pc[w] = "run" => task[w] \in Tasks
         /\ pc[w] \notin Working => task[w] = NoTask
         /\ pc[w] # "quit" => response[w] = None
  BY DEF TypeOK, ProcessWorkerTypeOK, AnswersOK, HandsOK, Working

\* A worker takes a task off the bus ...
LEMMA TakePlaces ==
  ASSUME TypeOK, TaskInv, NEW w \in Workers, GetTask(w), Replies' = Replies
  PROVE  Placed(taskBus', task', response', outbox', Replies', Known)
<1> DEFINE t == Head(taskBus)
<1>1. /\ task' = [task EXCEPT ![w] = t] /\ taskBus' = Tail(taskBus) /\ taskBus # <<>>
      /\ UNCHANGED <<response, outbox, Replies>>
  BY DEF GetTask
<1>2. /\ Placed(Tail(taskBus), task, response, outbox, Replies, Known)
      /\ Absent(t, Tail(taskBus), task, response, outbox, Replies)
      /\ t \in Known
  BY <1>1, NowPlaced, RemoveFromBus
<1> HIDE DEF t
<1>3. QED
  BY <1>1, <1>2, AddToHand

\* ... and reports its end into its buffer, or prepares to report it.
LEMMA FinishPlaces ==
  ASSUME TypeOK, AnswersOK, TaskInv, NEW w \in Workers, NEW o \in Outcomes,
         \/ FinishAndContinue(w, o) \/ FinishAndRestart(w, o)
         \/ FinishAndFail(w, o) \/ FinishAndExit(w, o),
         Replies' = Replies
  PROVE  Placed(taskBus', task', response', outbox', Replies', Known)
<1> DEFINE t == task[w]
           h == [task EXCEPT ![w] = NoTask]
           r == AnswerTo(t, w, o)
           a == AddFlag(r, "RESTART")
           f == Action({"CLOSE", "FATAL_ERROR"}, NoTask, w)
<1>1. /\ pc[w] = "run" /\ task' = h /\ UNCHANGED <<taskBus, Replies>>
      /\ o \in {"result", "exception", "exit"}
  BY ProcessWorkerAssumption
     DEF FinishAndContinue, FinishAndRestart, FinishAndFail, FinishAndExit, RunTask, busVars
<1>2. t \in Tasks /\ t # NoTask /\ response[w] = None
  BY <1>1, HoldsOne, PoolStateAssumption DEF TaskInv
<1>3. response = [response EXCEPT ![w] = None]
  BY <1>2 DEF TypeOK, ProcessWorkerTypeOK
<1>4. /\ Placed(taskBus, h, response, outbox, Replies, Known)
      /\ Absent(t, taskBus, h, response, outbox, Replies)
      /\ t \in Known
  BY <1>2, NowPlaced, RemoveFromHand
<1>5. /\ r \in Responses /\ a \in Responses /\ f \in Responses /\ None \in Responses
      /\ Ended(f) = NoTask /\ Ended(None) = NoTask
      /\ o # "exit" => Ended(r) = t /\ Ended(a) = t
  <2>1. r \in Responses /\ None \in Responses /\ f \in Responses
    BY <1>1, <1>2, ResponseFacts DEF Flags
  <2>2. a \in Responses
    BY <2>1, ResponseFacts DEF Flags
  <2>3. QED
    BY <1>1, <1>2, <2>1, <2>2, EndedFacts, EndedType
<1> HIDE DEF t, h, r, a, f
<1>6. CASE FinishAndContinue(w, o)
  <2>1. outbox' = [outbox EXCEPT ![w] = Append(@, r)] /\ response' = response /\ o # "exit"
    BY <1>3, <1>6 DEF FinishAndContinue, r, t
  <2>2. QED
    BY <1>1, <1>4, <1>5, <2>1, AddToBox
<1>7. CASE FinishAndRestart(w, o)
  <2>1. outbox' = outbox /\ response' = [response EXCEPT ![w] = a] /\ o # "exit"
    BY <1>7 DEF FinishAndRestart, a, r, t
  <2>2. QED
    BY <1>1, <1>4, <1>5, <2>1, AddToAnswer
<1>8. CASE FinishAndFail(w, o)
  <2>1. outbox' = outbox /\ response' = [response EXCEPT ![w] = f]
    BY <1>8 DEF FinishAndFail, f
  <2>2. QED
    BY <1>1, <1>4, <1>5, <2>1, AddToAnswer
<1>9. CASE FinishAndExit(w, o)
  <2>1. outbox' = [outbox EXCEPT ![w] = Append(@, None)] /\ response' = response
    BY <1>9 DEF FinishAndExit
  <2>2. QED
    BY <1>1, <1>4, <1>5, <2>1, AddToBox
<1>10. QED
  BY <1>6, <1>7, <1>8, <1>9

\* The last answer goes into the buffer, ...
LEMMA QuitPlaces ==
  ASSUME TypeOK, TaskInv, NEW w \in Workers, Quit(w), Replies' = Replies
  PROVE  Placed(taskBus', task', response', outbox', Replies', Known)
<1> DEFINE a == [response EXCEPT ![w] = None]
           r == response[w]
<1>1. /\ response' = a /\ r \in Responses /\ UNCHANGED <<taskBus, Replies, task>>
      /\ outbox' = IF r = None THEN outbox ELSE [outbox EXCEPT ![w] = Append(@, r)]
  BY DEF Quit, busVars, TypeOK, ProcessWorkerTypeOK
<1>2. /\ Placed(taskBus, task, a, outbox, Replies, Known)
      /\ Ended(r) # NoTask => Absent(Ended(r), taskBus, task, a, outbox, Replies)
      /\ Ended(r) \in Known \cup {NoTask}
  BY NowPlaced, RemoveFromAnswer
<1> HIDE DEF a, r
<1>3. CASE r = None
  BY <1>1, <1>2, <1>3
<1>4. CASE r # None
  <2>1. outbox' = [outbox EXCEPT ![w] = Append(@, r)]
    BY <1>1, <1>4
  <2>2. r \in Responses
    BY <1>1
  <2>3. Placed(taskBus, task, a, [outbox EXCEPT ![w] = Append(@, r)], Replies,
               Known)
    BY <1>2, <2>2, AddToBox
  <2>4. QED
    BY <1>1, <2>1, <2>3
<1>5. QED
  BY <1>3, <1>4

\* ... from where the feeder takes them, or they get lost.
LEMMA FeederPlaces ==
  ASSUME TypeOK, TaskInv, NEW w \in Workers, FeederStep(w),
         SendAnswer(w) => Replies' = Append(Replies, Head(outbox[w])),
         DropAnswer(w) => Replies' = Replies
  PROVE  Placed(taskBus', task', response', outbox', Replies', Known)
<1> DEFINE b == [outbox EXCEPT ![w] = Tail(@)]
           r == Head(outbox[w])
<1>1. outbox[w] # <<>> /\ UNCHANGED <<taskBus, task, response>>
  BY DEF FeederStep, SendAnswer, DropAnswer, busVars
<1>2. /\ Placed(taskBus, task, response, b, Replies, Known)
      /\ Ended(r) # NoTask => Absent(Ended(r), taskBus, task, response, b, Replies)
      /\ Ended(r) \in Known \cup {NoTask} /\ r \in Responses
  BY <1>1, NowPlaced, RemoveFromBox
<1>3. CASE SendAnswer(w)
  <2>1. outbox' = b /\ Replies' = Append(Replies, r)
    BY <1>3 DEF SendAnswer
  <2> HIDE DEF b, r
  <2>2. QED
    BY <1>1, <1>2, <2>1, AddToReply
<1>4. CASE DropAnswer(w)
  <2>1. Replies' = Replies /\ (outbox' = b \/ outbox' = [outbox EXCEPT ![w] = <<>>])
    BY <1>4 DEF DropAnswer, busVars
  <2>2. Placed(taskBus, task, response, [outbox EXCEPT ![w] = <<>>], Replies, Known)
    BY NowPlaced, EmptyBox
  <2>3. QED
    BY <1>1, <1>2, <2>1, <2>2
<1>5. QED
  BY <1>3, <1>4 DEF FeederStep

\* All that a process holds is gone when it is killed.
LEMMA CrashPlaces ==
  ASSUME TypeOK, TaskInv, NEW w \in Workers, Crash(w), Replies' = Replies
  PROVE  Placed(taskBus', task', response', outbox', Replies', Known)
<1> DEFINE h == [task EXCEPT ![w] = NoTask]
           a == [response EXCEPT ![w] = None]
<1>1. Placed(taskBus, h, response, outbox, Replies, Known)
  BY NowPlaced, RemoveFromHand
<1>2. Placed(taskBus, h, a, outbox, Replies, Known)
  BY <1>1, RemoveFromAnswer
<1>3. Placed(taskBus, h, a, [outbox EXCEPT ![w] = <<>>], Replies, Known)
  BY <1>2, EmptyBox
<1>4. QED
  BY <1>3 DEF Crash, busVars

\* An answer that ends no task.
LEMMA SayPlaces ==
  ASSUME TypeOK, AnswersOK, TaskInv, NEW w \in Workers,
         TimeOut(w) \/ HandleRequest(w) \/ Boot(w), Replies' = Replies
  PROVE  /\ Placed(taskBus', task', response', outbox', Replies', Known)
         /\ \E r : response' = [response EXCEPT ![w] = r] /\ Ended(r) = NoTask
<1>1. UNCHANGED <<taskBus, task, outbox, Replies>>
  BY DEF TimeOut, HandleRequest, Boot, busVars
<1>2. ASSUME NEW r \in Responses, Ended(r) = NoTask, response' = [response EXCEPT ![w] = r]
      PROVE  /\ Placed(taskBus', task', response', outbox', Replies', Known)
             /\ \E s : response' = [response EXCEPT ![w] = s] /\ Ended(s) = NoTask
  BY <1>1, <1>2, NowPlaced, AddToAnswer
<1>3. /\ None \in Responses /\ Ended(None) = NoTask
      /\ \A flag \in SUBSET Flags : /\ Action(flag, NoTask, w) \in Responses
                                    /\ Ended(Action(flag, NoTask, w)) = NoTask
  BY ResponseFacts, EndedFacts, EndedType
<1>4. CASE Boot(w)
  BY <1>2, <1>3, <1>4 DEF Boot
<1>5. CASE TimeOut(w)
  <2>1. {"CLOSE"} \in SUBSET Flags
    BY DEF Flags
  <2>2. QED
    BY <1>2, <1>3, <1>5, <2>1 DEF TimeOut
<1>6. CASE HandleRequest(w)
  <2>1. pc[w] # "quit" /\ requestBus[w] \in Seq(Responses) /\ requestBus[w] # <<>>
    BY <1>6 DEF HandleRequest, TypeOK, ProcessStateTypeOK, PoolStateTypeOK
  <2>2. response[w] = None
    BY <2>1, HoldsOne DEF TaskInv
  <2>3. Head(requestBus[w]).flag \in SUBSET Flags
    <3>1. Head(requestBus[w]) \in Responses
      BY <2>1, TailFacts
    <3>2. QED
      BY <3>1 DEF Responses
  <2>4. \/ response' = [response EXCEPT ![w] = Action(Head(requestBus[w]).flag, NoTask, w)]
        \/ response' = [response EXCEPT ![w] = None]
    BY <1>6, <2>2 DEF HandleRequest
  <2>5. QED
    BY <1>2, <1>3, <2>3, <2>4
<1>7. QED
  BY <1>4, <1>5, <1>6

\* A step of a worker process leaves the manager's hands and futures alone.
LEMMA WorkerFrame ==
  ASSUME NEW w \in Workers, ProcessStep(w)
  PROVE  /\ UNCHANGED <<currTasks, future, mpc, received, cpc, cTask>>
         /\ ~GetTask(w) => UNCHANGED taskBus
         /\ ~SendAnswer(w) => UNCHANGED responseBus
<1>1. UNCHANGED <<currTasks, mpc, received, cpc, cTask>>
  BY DEF ProcessStep, MainUnchanged, tableVars, managerVars, managerCtl, clientVars
<1>2. CASE \E o \in Outcomes : \/ FinishAndContinue(w, o) \/ FinishAndRestart(w, o)
                               \/ FinishAndFail(w, o) \/ FinishAndExit(w, o)
  BY <1>1, <1>2 DEF FinishAndContinue, FinishAndRestart, FinishAndFail, FinishAndExit,
                    RunTask, busVars
<1>3. CASE FeederStep(w) \/ TimeOut(w) \/ Crash(w)
  BY <1>1, <1>3 DEF FeederStep, SendAnswer, DropAnswer, TimeOut, Crash, busVars
<1>4. CASE \/ Boot(w) \/ HandleRequest(w) \/ NoRequest(w) \/ CheckRunning(w)
           \/ GetTask(w) \/ GetEmpty(w) \/ LoadCounter(w) \/ StoreCounter(w)
           \/ BeginTask(w) \/ Quit(w) \/ EndProcess(w)
  BY <1>1, <1>4 DEF Boot, HandleRequest, NoRequest, CheckRunning, GetTask, GetEmpty,
                    LoadCounter, StoreCounter, BeginTask, Quit, EndProcess, busVars
<1>5. QED
  BY <1>2, <1>3, <1>4 DEF ProcessStep, WorkerStep

\* It can at most put an answer behind those that are on the bus.
LEMMA WorkerReplies ==
  ASSUME TypeOK, NEW w \in Workers, ProcessStep(w)
  PROVE  /\ Known' = Known
         /\ ~SendAnswer(w) => Replies' = Replies
         /\ SendAnswer(w) => Replies' = Append(Replies, Head(outbox[w]))
<1>1. Held' = Held
  BY WorkerFrame, HeldIs, HeldIsNext
<1>2. SendAnswer(w) => /\ responseBus' = Append(responseBus, Head(outbox[w]))
                       /\ Head(outbox[w]) \in Responses
  <2>1. outbox[w] \in Seq(Responses)
    BY DEF TypeOK, ProcessWorkerTypeOK
  <2>2. QED
    BY <2>1, TailFacts DEF SendAnswer
<1>3. QED
  BY <1>1, <1>2, WorkerFrame, OthersKeepHeld

\* No step of a worker process puts a task into a second place.
LEMMA WorkerPlaces ==
  ASSUME TypeOK, AnswersOK, TaskInv, NEW w \in Workers, ProcessStep(w)
  PROVE  Placed(taskBus', task', response', outbox', Replies', Known')
<1>1. /\ Known' = Known
      /\ ~SendAnswer(w) => Replies' = Replies
      /\ SendAnswer(w) => Replies' = Append(Replies, Head(outbox[w]))
  BY WorkerReplies
<1>2. CASE FeederStep(w)
  <2>1. DropAnswer(w) => ~SendAnswer(w)
    BY DEF SendAnswer, DropAnswer
  <2>2. QED
    BY <1>1, <1>2, <2>1, FeederPlaces
<1>3. CASE ~FeederStep(w)
  <2>1. Replies' = Replies
    BY <1>1, <1>3 DEF FeederStep
  <2>2. CASE \/ NoRequest(w) \/ CheckRunning(w) \/ GetEmpty(w) \/ LoadCounter(w)
             \/ StoreCounter(w) \/ BeginTask(w) \/ EndProcess(w)
    <3>1. UNCHANGED <<taskBus, task, response, outbox>>
      BY <2>2 DEF NoRequest, CheckRunning, GetEmpty, LoadCounter, StoreCounter, BeginTask,
                  EndProcess, busVars, workerLocals
    <3>2. QED
      BY <1>1, <2>1, <3>1, NowPlaced
  <2>3. Placed(taskBus', task', response', outbox', Replies', Known)
    BY <1>1, <1>3, <2>1, <2>2, TakePlaces, FinishPlaces, QuitPlaces, CrashPlaces, SayPlaces
       DEF ProcessStep, WorkerStep
  <2>4. QED
    BY <1>1, <2>3
<1>4. QED
  BY <1>2, <1>3

\* A step of a worker process keeps the invariant of the tasks.
LEMMA WorkerKeepsTaskInv ==
  ASSUME TypeOK, AnswersOK, TaskInv, NEW w \in Workers, ProcessStep(w)
  PROVE  TaskInv'
<1>1. UNCHANGED <<currTasks, future, cpc, cTask, mpc, received>>
  BY WorkerFrame
<1>2. /\ OnePlace(taskBus, task, response, outbox, Replies)'
      /\ Tracked(taskBus, task, response, outbox, Replies, Known)'
  BY WorkerPlaces DEF Placed
<1>3. FuturesOK' /\ QueuedIsNew' /\ HandOK'
  BY <1>1 DEF TaskInv, FuturesOK, QueuedIsNew, HandOK, Submitted, Resolved, InHand
<1>4. HandsOK'
  <2>1. /\ DOMAIN pc = Workers /\ DOMAIN task = Workers
        /\ \A v \in Workers : task[v] # NoTask <=> pc[v] \in Working
    BY DEF TypeOK, ProcessStateTypeOK, PoolStateTypeOK, ProcessWorkerTypeOK, TaskInv,
           HandsOK
  <2>2. ASSUME NEW t, NEW label, task' = [task EXCEPT ![w] = t],
               pc' = [pc EXCEPT ![w] = label], t # NoTask <=> label \in Working
        PROVE  HandsOK'
    BY <2>1, <2>2 DEF HandsOK
  <2>3. ASSUME UNCHANGED task, NEW label, pc' = [pc EXCEPT ![w] = label],
               pc[w] \in Working <=> label \in Working
        PROVE  HandsOK'
    BY <2>1, <2>3 DEF HandsOK
  <2>4. CASE GetTask(w)
    <3>1. taskBus \in Seq(Tasks) /\ taskBus # <<>>
      BY <2>4 DEF GetTask, TypeOK, ProcessStateTypeOK, PoolStateTypeOK
    <3>2. Head(taskBus) # NoTask
      BY <3>1, PoolStateAssumption
    <3>3. QED
      BY <2>2, <2>4, <3>2 DEF GetTask, Goto, Working
  <2>5. CASE \/ LoadCounter(w) \/ StoreCounter(w) \/ BeginTask(w)
    BY <2>3, <2>5 DEF LoadCounter, StoreCounter, BeginTask, workerLocals, Goto, Working
  <2>6. CASE Crash(w)
    BY <2>2, <2>6 DEF Crash, Goto, Working
  <2>7. ASSUME NEW o \in Outcomes,
               \/ FinishAndContinue(w, o) \/ FinishAndRestart(w, o)
               \/ FinishAndFail(w, o) \/ FinishAndExit(w, o)
        PROVE  HandsOK'
    BY <2>2, <2>7 DEF FinishAndContinue, FinishAndRestart, FinishAndFail, FinishAndExit,
                      RunTask, Goto, Working
  <2>8. CASE SendAnswer(w) \/ DropAnswer(w)
    BY <2>1, <2>8 DEF SendAnswer, DropAnswer, flagVars, HandsOK
  <2>9. CASE \/ TimeOut(w) \/ Boot(w) \/ NoRequest(w) \/ CheckRunning(w) \/ GetEmpty(w)
             \/ Quit(w) \/ EndProcess(w)
    BY <2>3, <2>9 DEF TimeOut, Boot, NoRequest, CheckRunning, GetEmpty, Quit, EndProcess,
                      workerLocals, Goto, Working
  <2>10. CASE HandleRequest(w)
    BY <2>3, <2>10 DEF HandleRequest, Goto, Working
  <2>11. QED
    BY <2>4, <2>5, <2>6, <2>7, <2>8, <2>9, <2>10 DEF ProcessStep, WorkerStep, FeederStep
<1>5. QED
  BY <1>2, <1>3, <1>4 DEF TaskInv

\* A step that leaves tasks, answers, futures and the manager's hands as they are.
Idle(from, to) == from \notin {"pop", "set", "killed"} /\ to \notin {"pop", "set", "handle"}

LEMMA FrameKeepsHeld ==
  ASSUME TypeOK, UNCHANGED <<responseBus, future, currTasks>>,
         (UNCHANGED <<mpc, received>>) \/ Idle(mpc, mpc')
  PROVE  UNCHANGED <<Held, Replies, Known>>
<1>1. Held' = Held
  BY HeldIs, HeldIsNext DEF Idle
<1>2. received' = received \/ (Held = {} /\ Held' = {})
  BY HeldIs, HeldIsNext DEF Idle
<1>3. QED
  BY <1>1, <1>2 DEF Replies, Known

LEMMA FrameKeepsTaskInv ==
  ASSUME TypeOK, TaskInv,
         UNCHANGED <<taskBus, responseBus, future, currTasks, task, response, outbox>>,
         (UNCHANGED <<mpc, received>>) \/ Idle(mpc, mpc'),
         \/ pc' = pc
         \/ \E w \in Workers : ~ThreadAlive(w) /\ pc' = [pc EXCEPT ![w] = "boot"],
         \/ UNCHANGED <<cpc, cTask>>
         \/ \E c \in Clients :
              /\ cTask' = cTask \/ cTask' = [cTask EXCEPT ![c] = NoTask]
              /\ \E label : label # "queue" /\ cpc' = [cpc EXCEPT ![c] = label]
  PROVE  TaskInv'
<1>1. HandsOK'
  BY DEF TaskInv, HandsOK, Working, ThreadAlive, TypeOK, ProcessStateTypeOK,
         PoolStateTypeOK
<1>2. QueuedIsNew'
  BY DEF TaskInv, QueuedIsNew, TypeOK, ProcessManagerTypeOK
<1>3. FuturesOK' /\ HandOK'
  BY DEF TaskInv, FuturesOK, HandOK, Submitted, Resolved, InHand, Idle
<1>4. /\ OnePlace(taskBus, task, response, outbox, Replies)'
      /\ Tracked(taskBus, task, response, outbox, Replies, Known)'
  BY FrameKeepsHeld DEF TaskInv
<1>5. QED
  BY <1>1, <1>2, <1>3, <1>4 DEF TaskInv

(***************************************************************************)
(* What the manager does to the first answer r, about the end of task t:   *)
(* it sets the future, drops the answer, or is killed over it.             *)
(***************************************************************************)
Settles(t) ==
  /\ t \in Known /\ Known' = Known \ {t}
  /\ \/ /\ future[t] = "pending"
        /\ \E state \in {"result", "exception"} : future' = [future EXCEPT ![t] = state]
     \/ future[t] = "cancelled" /\ UNCHANGED future

Drops(r) == UNCHANGED <<Known, future>> /\ (CannotLoad(r) \/ Ended(r) = NoTask)

DiesOver(t) ==
  /\ t \in Known /\ Known' \in {Known, Known \ {t}} /\ UNCHANGED future
  /\ mKill /\ mpc' = "killed" /\ Reports(received', t)
  /\ future[t] \in {"pending", "cancelled"}

Answers ==
  LET r == Head(Replies)
  IN  /\ Replies # <<>> /\ Replies' = Tail(Replies)
      /\ Settles(Ended(r)) \/ Drops(r) \/ DiesOver(Ended(r))

\* get() takes the answer into the manager's hands,
LEMMA GetAnswers ==
  ASSUME TypeOK, TaskInv, GetAnswer
  PROVE  Answers \/ UNCHANGED <<Replies, Known, future>>
<1> DEFINE r == Head(responseBus)
<1>1. /\ mpc = "receive" /\ responseBus # <<>> /\ responseBus' = Tail(responseBus)
      /\ UNCHANGED <<currTasks, future>>
      /\ IF CannotLoad(r) THEN mpc' = "dead" ELSE mpc' = "pop" /\ received' = r
  BY DEF GetAnswer, tableVars, Die
<1>2. Held = {} /\ Replies = responseBus /\ Known = currTasks /\ responseBus \in Seq(Responses)
  BY <1>1, HeldFacts
<1>3. /\ r \in Responses /\ Tail(responseBus) \in Seq(Responses)
      /\ Ended(r) \in currTasks \cup {NoTask}
      /\ responseBus = <<r>> \o Tail(responseBus)
  <2>1. Ended(r) \in Known \cup {NoTask} /\ r \in Responses
    BY <1>1, <1>2, NowPlaced, RemoveFromReply
  <2>2. /\ Tail(responseBus) \in Seq(Responses)
        /\ responseBus = <<r>> \o Tail(responseBus)
    BY <1>1, <1>2
  <2>3. QED
    BY <1>2, <2>1, <2>2
<1> HIDE DEF r
<1>4. CASE CannotLoad(r) \/ Ended(r) = NoTask
  <2>1. Held' = {}
    BY <1>1, <1>4, HeldIsNext, PoolStateAssumption
  <2>2. UNCHANGED <<Known, future>> /\ Replies' = Tail(Replies)
    BY <1>1, <1>2, <2>1 DEF Known, Replies
  <2>3. QED
    BY <1>1, <1>2, <1>4, <2>2 DEF Answers, Drops, r
<1>5. CASE ~CannotLoad(r) /\ Ended(r) # NoTask
  <2>1. Ended(r) \in currTasks /\ future[Ended(r)] \in {"pending", "cancelled"}
        /\ Ended(r) \in Tasks
    BY <1>3, <1>5 DEF TaskInv, FuturesOK, TypeOK, ProcessManagerTypeOK, TableTypeOK
  <2>2. Held' = {Ended(r)}
    BY <1>1, <1>5, <2>1, HeldIsNext
  <2>3. QED
    BY <1>1, <1>2, <1>3, <1>5, <2>1, <2>2 DEF Known, Replies
<1>6. QED
  BY <1>4, <1>5

\* the pop takes nothing from them,
LEMMA PopAnswers ==
  ASSUME TypeOK, TaskInv, PopTask
  PROVE  /\ UNCHANGED <<Replies, Known, future, received>>
         /\ \/ /\ mpc' = "dead" /\ UNCHANGED currTasks
               /\ received = None \/ (EndsTask(received) /\ Ended(received) = NoTask)
            \/ /\ mpc' = "handle" /\ UNCHANGED currTasks /\ Ended(received) = NoTask
            \/ /\ mpc' = "set" /\ EndsTask(received) /\ received.task \in currTasks
               /\ currTasks' = currTasks \ {received.task}
<1> DEFINE t == Ended(received)
<1>1. /\ mpc = "pop" /\ UNCHANGED <<responseBus, future, received>>
      /\ t \in currTasks \cup {NoTask} /\ currTasks \in SUBSET Tasks
      /\ NoTask \notin currTasks
      /\ IF PopError = "none"
         THEN /\ currTasks' = TasksAfter(received)
              /\ mpc' = IF EndsTask(received) THEN "set" ELSE "handle"
         ELSE mpc' = "dead" /\ UNCHANGED currTasks
  BY PoolStateAssumption
     DEF PopTask, poolVars, busVars, ownVars, Die, TaskInv, HandOK, TypeOK,
         ProcessManagerTypeOK, TableTypeOK
<1>2. CASE t # NoTask
  <2>1. EndsTask(received) /\ received.task = t /\ t \in currTasks /\ received # None
    BY <1>1, <1>2, EndedType DEF Ended
  <2>2. mpc' = "set" /\ currTasks' = currTasks \ {t}
    BY <1>1, <2>1 DEF PopError, TasksAfter
  <2>3. future[t] \in {"pending", "cancelled"} /\ t \in Tasks
    BY <1>1, <2>1 DEF TaskInv, FuturesOK
  <2>4. Held = {t} /\ Held' = {t}
    BY <1>1, <2>2, <2>3, HeldIs, HeldIsNext
  <2>5. QED
    BY <1>1, <2>1, <2>2, <2>4 DEF Known, Replies
<1>3. CASE t = NoTask
  <2>1. Held = {} /\ Held' = {}
    BY <1>1, <1>3, HeldIs, HeldIsNext, PoolStateAssumption
  <2>2. \/ /\ mpc' = "dead" /\ UNCHANGED currTasks
           /\ received = None \/ EndsTask(received)
        \/ mpc' = "handle" /\ UNCHANGED currTasks
    BY <1>1, <1>3 DEF PopError, Ended, TasksAfter
  <2>3. QED
    BY <1>1, <1>3, <2>1, <2>2 DEF Known, Replies
<1>4. QED
  BY <1>2, <1>3

\* and set_result leaves them empty.
LEMMA SetAnswers ==
  ASSUME TypeOK, TaskInv, SetFuture
  PROVE  /\ Answers /\ Settles(received.task) /\ received.task \in Tasks \ currTasks
         /\ UNCHANGED <<received, currTasks>>
         /\ IF Settable(received.task) THEN mpc' = "handle" /\ future' # future
            ELSE mpc' = "dead" /\ UNCHANGED future /\ death' = "InvalidStateError"
<1> DEFINE t == received.task
<1>1. /\ mpc = "set" /\ UNCHANGED <<responseBus, received, currTasks>>
      /\ IF Settable(t)
         THEN future' = [future EXCEPT ![t] = Outcome(received)] /\ mpc' = "handle"
         ELSE mpc' = "dead" /\ UNCHANGED future /\ death' = "InvalidStateError"
  BY DEF SetFuture, SetUnchanged, busVars, tableVars, ownVars, Die
<1>2. /\ EndsTask(received) /\ t \in Tasks \ currTasks /\ Ended(received) = t
      /\ future[t] \in {"pending", "cancelled"} /\ t # NoTask
  BY <1>1, PoolStateAssumption DEF TaskInv, HandOK, Ended
<1>3. /\ Held = {t} /\ Replies # <<>> /\ Head(Replies) = received
      /\ Tail(Replies) = responseBus
  BY <1>1, <1>2, HeldFacts
<1>4. Held' = {}
  BY <1>1, HeldIsNext
<1>5. Known' = Known \ {t} /\ t \in Known /\ Replies' = Tail(Replies)
  BY <1>1, <1>2, <1>3, <1>4 DEF Known, Replies
<1>6. Outcome(received) \in {"result", "exception"} /\ future \in [Tasks -> FutureStates]
  BY DEF Outcome, TypeOK, ProcessStateTypeOK, PoolStateTypeOK
<1>7. Settles(t)
  BY <1>1, <1>2, <1>5, <1>6 DEF Settles, Settable
<1>8. Settable(t) => future' # future
  BY <1>1, <1>2, <1>6 DEF Settable
<1>9. QED
  BY <1>1, <1>2, <1>3, <1>5, <1>7, <1>8 DEF Answers

\* What is in the manager's hands when it is killed stays there.
LEMMA KilledKeepsHand ==
  ASSUME ManagerSteps, ManagerKilled
  PROVE  UNCHANGED received
<1>1. mpc' = "killed"
  BY DEF ManagerKilled
<1>2. CASE GetAnswer \/ HandleAnswer
  BY <1>1, <1>2 DEF GetAnswer, HandleAnswer, AfterConsume, Die
<1>3. CASE ~(GetAnswer \/ HandleAnswer)
  BY <1>3 DEF ManagerSteps, ProcessManagerStep, BusEmpty, Drained, PopTask, SetFuture,
              SetUnchanged, ClearRunning, JoinProcess, ForgetProcess, HaltUnchanged,
              RestartProcess, RestartSeen, ownVars
<1>4. QED
  BY <1>2, <1>3

\* The manager is killed, perhaps with an answer in its hands.
LEMMA KillAnswers ==
  ASSUME TypeOK, TaskInv, ManagerKilled, UNCHANGED received
  PROVE  Answers \/ UNCHANGED <<Replies, Known, future>>
<1>1. /\ mpc' = "killed" /\ mKill /\ UNCHANGED <<responseBus, future, currTasks>>
  BY DEF ManagerKilled, poolVars, busVars, tableVars
<1>2. Held' = {}
  BY <1>1, HeldIsNext
<1>3. CASE Held = {}
  BY <1>1, <1>2, <1>3 DEF Known, Replies
<1>4. CASE Held # {}
  <2> DEFINE t == Ended(received)
  <2>1. /\ Held = {t} /\ Replies # <<>> /\ Head(Replies) = received
        /\ Tail(Replies) = responseBus
    BY <1>4, HeldFacts
  <2>2. t \in Tasks /\ future[t] \in {"pending", "cancelled"} /\ t # NoTask
    BY <2>1, HeldIs, PoolStateAssumption
  <2>3. Reports(received', t) /\ future[t] \in {"pending", "cancelled"}
    BY <2>2 DEF Reports, Ended
  <2>4. Replies' = Tail(Replies) /\ t \in Known /\ Known' \in {Known, Known \ {t}}
    BY <1>1, <1>2, <2>1 DEF Known, Replies
  <2>5. DiesOver(t)
    BY <1>1, <2>3, <2>4 DEF DiesOver
  <2>6. QED
    BY <2>1, <2>4, <2>5 DEF Answers
<1>5. QED
  BY <1>3, <1>4

\* The steps of the manager's thread that touch no answer.
OtherSteps == ManagerSteps /\ ~(GetAnswer \/ PopTask \/ SetFuture \/ ManagerKilled)

LEMMA OtherFrame ==
  ASSUME ExitInv, OtherSteps
  PROVE  /\ UNCHANGED <<taskBus, responseBus, future, currTasks, task, response, outbox, cpc,
                        cTask>>
         /\ Idle(mpc, mpc')
         /\ pc' = pc \/ \E w \in Workers : ~ThreadAlive(w) /\ pc' = [pc EXCEPT ![w] = "boot"]
<1>1. UNCHANGED <<workerLocals, clientVars>>
  BY DEF OtherSteps, ManagerSteps
<1>2. CASE RestartProcess
  <2>1. /\ UNCHANGED <<taskBus, responseBus, future, currTasks, task, response, outbox, cpc,
                       cTask>>
        /\ mpc = "start" /\ Idle(mpc, mpc')
        /\ pc' = pc \/ pc' = [pc EXCEPT ![handled] = "boot"]
    BY <1>1, <1>2 DEF RestartProcess, RestartWorker, StartThread, Die, Idle, busVars,
                      tableVars, clientVars, workerLocals
  <2>2. handled \in Workers /\ ~ThreadAlive(handled)
    <3>1. Restarting
      BY <2>1 DEF ExitInv, PhaseOK, Restarting
    <3>2. QED
      BY <2>1, <3>1 DEF ExitInv, ProcessesOK
  <2>3. QED
    BY <2>1, <2>2
<1>3. CASE ~RestartProcess
  <2>1. UNCHANGED <<taskBus, responseBus, future, currTasks, task, response, outbox, pc, cpc,
                    cTask>>
    BY <1>1, <1>3
       DEF OtherSteps, ManagerSteps, ProcessManagerStep, BusEmpty, Drained, HandleAnswer,
           ClearRunning, JoinProcess, ForgetProcess, HaltUnchanged, RestartSeen,
           ManagerBoot, ManagerCheck, ManagerDown, IterationFails, CloseWorker, CloseDone,
           HaltWorker, ManagerEnd, ManagerIdleOut, poolVars, busVars, flagVars, tableVars,
           clientVars, workerLocals
  <2>2. Idle(mpc, mpc')
    BY <1>3
       DEF OtherSteps, ManagerSteps, ProcessManagerStep, BusEmpty, Drained, HandleAnswer,
           ClearRunning, JoinProcess, ForgetProcess, RestartSeen, ManagerBoot,
           ManagerCheck, ManagerDown, IterationFails, CloseWorker, CloseDone, HaltWorker,
           ManagerEnd, ManagerIdleOut, AfterConsume, Die, Idle
  <2>3. QED
    BY <2>1, <2>2
<1>4. QED
  BY <1>2, <1>3

\* So every step of the manager's thread deals with the first answer, or with none.
LEMMA ManagerAnswers ==
  ASSUME TypeOK, ExitInv, TaskInv, ManagerSteps
  PROVE  /\ UNCHANGED <<taskBus, task, response, outbox, cpc, cTask>>
         /\ Answers \/ UNCHANGED <<Replies, Known, future>>
<1>1. UNCHANGED <<workerLocals, clientVars>> /\ (ManagerKilled => UNCHANGED received)
  BY KilledKeepsHand DEF ManagerSteps
<1>2. UNCHANGED <<taskBus, task, response, outbox, cpc, cTask>>
  <2>1. CASE GetAnswer \/ PopTask \/ SetFuture \/ ManagerKilled
    BY <1>1, <2>1 DEF GetAnswer, PopTask, SetFuture, SetUnchanged, ManagerKilled, poolVars,
                      busVars, workerLocals, clientVars
  <2>2. CASE OtherSteps
    BY <2>2, OtherFrame
  <2>3. QED
    BY <2>1, <2>2 DEF OtherSteps
<1>3. CASE OtherSteps
  BY <1>3, OtherFrame, FrameKeepsHeld
<1>4. QED
  BY <1>1, <1>2, <1>3, GetAnswers, PopAnswers, SetAnswers, KillAnswers DEF OtherSteps

\* The task whose answer is dealt with is nowhere then.
LEMMA AnswersPlaces ==
  ASSUME TypeOK, TaskInv, Answers
  PROVE  LET r == Head(Replies)
             t == Ended(r)
         IN  /\ r \in Responses /\ t \in Known \cup {NoTask}
             /\ t # NoTask => Absent(t, taskBus, task, response, outbox, Tail(Replies))
             /\ Placed(taskBus, task, response, outbox, Replies', Known')
<1> DEFINE r == Head(Replies)
           t == Ended(r)
<1>1. /\ Placed(taskBus, task, response, outbox, Tail(Replies), Known)
      /\ t # NoTask => Absent(t, taskBus, task, response, outbox, Tail(Replies))
      /\ r \in Responses /\ t \in Known \cup {NoTask}
  BY NowPlaced, RemoveFromReply DEF Answers
<1>2. Replies' = Tail(Replies) /\ (Known' = Known \/ (t \in Known /\ Known' = Known \ {t}))
  BY DEF Answers, Settles, Drops, DiesOver
<1>3. Known \subseteq Tasks /\ NoTask \notin Tasks
  BY HeldFacts, PoolStateAssumption
<1> HIDE DEF r, t
<1>4. t \in Known => Placed(taskBus, task, response, outbox, Tail(Replies), Known \ {t})
  BY <1>1, <1>3, Forget
<1>5. Placed(taskBus, task, response, outbox, Replies', Known')
  BY <1>1, <1>2, <1>4
<1>6. QED
  BY <1>1, <1>5 DEF r, t

\* A step of the manager's thread keeps the invariant of the tasks.
LEMMA ManagerKeepsTaskInv ==
  ASSUME TypeOK, ExitInv, TaskInv, ManagerSteps
  PROVE  TaskInv'
<1>1. /\ UNCHANGED <<taskBus, task, response, outbox, cpc, cTask>>
      /\ Answers \/ UNCHANGED <<Replies, Known, future>>
  BY ManagerAnswers
<1>2. CASE OtherSteps
  BY <1>2, OtherFrame, FrameKeepsTaskInv
<1>3. CASE GetAnswer \/ PopTask \/ SetFuture \/ ManagerKilled
  <2>1. Placed(taskBus', task', response', outbox', Replies', Known')
    BY <1>1, NowPlaced, AnswersPlaces
  <2>2. HandsOK'
    <3>1. pc' = pc
      BY <1>3 DEF GetAnswer, PopTask, SetFuture, SetUnchanged, ManagerKilled, poolVars,
                  flagVars
    <3>2. QED
      BY <1>1, <3>1 DEF TaskInv, HandsOK
  <2>3. FuturesOK' /\ HandOK' /\ QueuedIsNew'
    <3>1. CASE GetAnswer
      <4> DEFINE r == Head(responseBus)
      <4>1. /\ mpc = "receive" /\ UNCHANGED <<currTasks, future>> /\ responseBus # <<>>
            /\ mpc' = "dead" \/ (mpc' = "pop" /\ received' = r)
        BY <3>1 DEF GetAnswer, tableVars, Die
      <4>2. Ended(r) \in currTasks \cup {NoTask}
        <5>1. Replies = responseBus /\ Known = currTasks
          BY <4>1, HeldFacts
        <5>2. QED
          BY <4>1, <5>1, NowPlaced, RemoveFromReply
      <4> HIDE DEF r
      <4>3. FuturesOK' /\ HandOK'
        BY <4>1, <4>2 DEF TaskInv, FuturesOK, HandOK, Submitted, Resolved, InHand
      <4>4. QED
        BY <1>1, <4>1, <4>3 DEF TaskInv, QueuedIsNew
    <3>2. CASE PopTask
      <4>1. /\ UNCHANGED <<future, received>> /\ mpc = "pop"
            /\ \/ mpc' = "dead" /\ UNCHANGED currTasks
               \/ mpc' = "handle" /\ UNCHANGED currTasks /\ Ended(received) = NoTask
               \/ /\ mpc' = "set" /\ EndsTask(received) /\ received.task \in currTasks
                  /\ currTasks' = currTasks \ {received.task}
        BY <3>2, PopAnswers DEF PopTask
      <4>2. currTasks \in SUBSET Tasks /\ Ended(received) \in currTasks \cup {NoTask}
        BY <4>1 DEF TypeOK, ProcessManagerTypeOK, TableTypeOK, TaskInv, HandOK
      <4>3. \A t \in Tasks : t \notin currTasks /\ InHand(t) => FALSE
        BY <4>1, <4>2, PoolStateAssumption DEF InHand, Reports, Ended
      <4>4. HandOK'
        BY <4>1, <4>2 DEF TaskInv, FuturesOK, HandOK
      <4>5. FuturesOK'
        BY <4>1, <4>2, <4>3
           DEF TaskInv, FuturesOK, Submitted, Resolved, InHand, Reports
      <4>6. QED
        BY <1>1, <4>1, <4>4, <4>5 DEF TaskInv, QueuedIsNew
    <3>3. CASE SetFuture
      <4> DEFINE t == received.task
      <4>1. /\ UNCHANGED <<received, currTasks>> /\ t \in Tasks \ currTasks /\ Settles(t)
            /\ mpc = "set" /\ mpc' \in {"handle", "dead"}
            /\ mpc' = "handle" => future' # future
            /\ EndsTask(received) /\ Ended(received) = t
        BY <3>3, SetAnswers DEF SetFuture, TaskInv, HandOK, Ended
      <4>2. future \in [Tasks -> FutureStates]
        BY DEF TypeOK, ProcessStateTypeOK, PoolStateTypeOK
      <4>3. /\ \A u \in Tasks : u # t => future'[u] = future[u]
            /\ future[t] # "unsubmitted"
            /\ future'[t] \in {"cancelled", "result", "exception"}
            /\ future' # future => future'[t] \in {"result", "exception"}
        BY <4>1, <4>2 DEF Settles
      <4>4. \A u \in Tasks : u # t => ~InHand(u)
        BY <4>1 DEF InHand, Reports
      <4>5. FuturesOK'
        BY <4>1, <4>3, <4>4 DEF TaskInv, FuturesOK, Submitted, Resolved
      <4>6. HandOK'
        BY <4>1, <4>3 DEF HandOK
      <4>7. QueuedIsNew'
        BY <1>1, <4>1, <4>3 DEF TaskInv, QueuedIsNew
      <4>8. QED
        BY <4>5, <4>6, <4>7
    <3>4. CASE ManagerKilled
      <4>1. /\ mpc' = "killed" /\ UNCHANGED <<currTasks, future, received>>
        BY <3>4, KilledKeepsHand DEF ManagerKilled, poolVars, tableVars
      <4>2. HandOK' /\ FuturesOK'
        BY <4>1 DEF TaskInv, FuturesOK, HandOK, Submitted, Resolved, InHand, Reports
      <4>3. QED
        BY <1>1, <4>1, <4>2 DEF TaskInv, QueuedIsNew
    <3>5. QED
      BY <1>3, <3>1, <3>2, <3>3, <3>4
  <2>4. QED
    BY <2>1, <2>2, <2>3 DEF TaskInv, Placed
<1>4. QED
  BY <1>2, <1>3 DEF OtherSteps

\* A task that the table does not know is nowhere.
LEMMA UnknownAbsent ==
  ASSUME NEW bus, NEW hand, NEW answer, NEW box, NEW reply, NEW known,
         Placed(bus, hand, answer, box, reply, known), NEW t \in Tasks \ known
  PROVE  Absent(t, bus, hand, answer, box, reply)
  BY PoolStateAssumption DEF Placed, Tracked, Absent

\* Futures that others resolve are not those of the manager's hands.
LEMMA HandsKept ==
  ASSUME TypeOK, TaskInv, UNCHANGED <<mpc, received>>,
         \A t \in Held : future'[t] \in {"pending", "cancelled"}
  PROVE  Held' = Held
<1>1. \A t : t \in Held => t \in Held'
  BY HeldIs, HeldIsNext
<1>2. ASSUME NEW t, t \in Held'
      PROVE  t \in Held
  <2>1. t \in Tasks /\ mpc \in {"pop", "set"} /\ Ended(received) = t
    BY <1>2, HeldIsNext
  <2>2. Ended(received) # NoTask
    BY <2>1, PoolStateAssumption
  <2>3. QED
    BY <2>1, <2>2, HeldFacts
<1>3. QED
  BY <1>1, <1>2

\* Nor do they change what the manager knows of the answer in its hands.
LEMMA HandKeptOK ==
  ASSUME TypeOK, TaskInv, UNCHANGED <<mpc, received>>, currTasks \subseteq currTasks',
         \A t \in currTasks' \ currTasks : future[t] = "unsubmitted",
         \A t \in Tasks : \/ future'[t] = future[t] \/ future[t] = "unsubmitted"
                          \/ {future[t], future'[t]} \subseteq {"pending", "cancelled"}
  PROVE  HandOK' /\ Held' = Held
<1>1. HandOK'
  <2>1. mpc = "handle" /\ Ended(received) # NoTask => received.task \in Tasks
    BY EndedType DEF Ended, TypeOK, ProcessManagerTypeOK
  <2>2. mpc = "pop" => Ended(received) \in currTasks \cup {NoTask}
    BY DEF TaskInv, HandOK
  <2>3. mpc = "set" => /\ EndsTask(received) /\ received.task \in Tasks \ currTasks
                       /\ future[received.task] \in {"pending", "cancelled"}
    BY DEF TaskInv, HandOK
  <2>4. mpc = "handle" /\ Ended(received) # NoTask =>
          future[received.task] \in {"result", "exception"}
    BY DEF TaskInv, HandOK
  <2>5. mpc = "pop" => Ended(received) \in currTasks' \cup {NoTask}
    BY <2>2
  <2>6. mpc = "set" => /\ received.task \notin currTasks'
                       /\ future'[received.task] \in {"pending", "cancelled"}
    BY <2>3
  <2>7. mpc = "handle" /\ Ended(received) # NoTask =>
          future'[received.task] \in {"result", "exception"}
    BY <2>1, <2>4
  <2>8. QED
    BY <2>3, <2>5, <2>6, <2>7 DEF HandOK, Ended
<1>2. \A t \in Held : future'[t] \in {"pending", "cancelled"}
  BY HeldIs
<1>3. QED
  BY <1>1, <1>2, HandsKept

\* submit() puts a new task on the bus.
LEMMA PutKeepsTaskInv ==
  ASSUME TypeOK, TaskInv, NEW c \in Clients, PutTask(c), UNCHANGED workerLocals
  PROVE  TaskInv' /\ UNCHANGED Replies /\ Known' = Known \cup {cTask[c]}
<1> DEFINE t == cTask[c]
<1>1. /\ t \in Tasks /\ future[t] = "unsubmitted" /\ cpc[c] = "queue"
      /\ future' = [future EXCEPT ![t] = "pending"]
      /\ currTasks' = currTasks \cup {t} /\ taskBus' = Append(taskBus, t)
      /\ cpc' = [cpc EXCEPT ![c] = "load"]
      /\ UNCHANGED <<task, response, outbox, responseBus, pc, cTask, mpc, received>>
  BY DEF PutTask, CGoto, flagVars, managerVars, managerCtl, ownVars, workerLocals, TaskInv,
         QueuedIsNew
<1> HIDE DEF t
<1>2. future \in [Tasks -> FutureStates]
  BY DEF TypeOK, ProcessStateTypeOK, PoolStateTypeOK
<1>3. HandOK' /\ Held' = Held
  BY <1>1, <1>2, HandKeptOK
<1>4. t \notin Known
  BY <1>1, HeldIs DEF TaskInv, FuturesOK, Known
<1>5. Replies' = Replies /\ Known' = Known \cup {t}
  BY <1>1, <1>3 DEF Replies, Known
<1>6. Placed(taskBus', task', response', outbox', Replies', Known')
  <2>1. Absent(t, taskBus, task, response, outbox, Replies)
    BY <1>1, <1>4, NowPlaced, UnknownAbsent
  <2>2. Placed(taskBus, task, response, outbox, Replies, Known \cup {t})
    BY <1>1, NowPlaced, KnowMore
  <2>3. Placed(Append(taskBus, t), task, response, outbox, Replies, Known \cup {t})
    BY <2>1, <2>2, AddToBus
  <2>4. QED
    BY <1>1, <1>5, <2>3
<1>7. HandsOK'
  BY <1>1 DEF TaskInv, HandsOK
<1>8. FuturesOK'
  <2>1. \A u \in Tasks : u # t => (InHand(u)' <=> InHand(u)) /\ future'[u] = future[u]
    BY <1>1, <1>2 DEF InHand, Reports
  <2>2. t \in currTasks' /\ future'[t] = "pending"
    BY <1>1, <1>2
  <2>3. QED
    BY <1>1, <2>1, <2>2 DEF TaskInv, FuturesOK, Submitted, Resolved
<1>9. QueuedIsNew'
  <2>1. \A d \in Clients : d # c => cTask[d] # t
    BY <1>1, PoolStateAssumption DEF TaskInv, QueuedIsNew, t
  <2>2. /\ DOMAIN cpc = Clients /\ DOMAIN future = Tasks
    BY DEF TypeOK, ProcessManagerTypeOK, ProcessStateTypeOK, PoolStateTypeOK
  <2>3. \A d \in Clients : cpc'[d] = "queue" =>
          d # c /\ cpc[d] = "queue" /\ cTask[d] \in Tasks /\ future'[cTask[d]] = "unsubmitted"
    BY <1>1, <2>1, <2>2 DEF TaskInv, QueuedIsNew
  <2>4. QED
    BY <1>1, <2>3 DEF TaskInv, QueuedIsNew
<1>10. QED
  BY <1>3, <1>5, <1>6, <1>7, <1>8, <1>9 DEF TaskInv, Placed, t

\* ... or rejects it.
LEMMA SubmitKeepsTaskInv ==
  ASSUME TypeOK, TaskInv, NEW c \in Clients, NEW t \in Tasks, Submit(c, t),
         UNCHANGED <<workerLocals, received>>
  PROVE  TaskInv' /\ UNCHANGED <<Replies, Known>>
<1>1. /\ future[t] = "unsubmitted" /\ \A d \in Clients : cTask[d] # t
      /\ UNCHANGED <<task, response, outbox, responseBus, taskBus, currTasks, pc, mpc,
                     received>>
      /\ \/ /\ cpc' = [cpc EXCEPT ![c] = "queue"]
            /\ cTask' = [cTask EXCEPT ![c] = t]
            /\ UNCHANGED future
         \/ /\ future' = [future EXCEPT ![t] = "rejected"]
            /\ UNCHANGED <<cpc, cTask>>
  BY DEF Submit, CGoto, busVars, tableVars, flagVars, managerVars, managerCtl, workerLocals
<1>2. /\ DOMAIN cpc = Clients /\ DOMAIN cTask = Clients /\ DOMAIN future = Tasks
  BY DEF TypeOK, ProcessManagerTypeOK, ProcessStateTypeOK, PoolStateTypeOK
<1>3. \A u \in Tasks : u # t => future'[u] = future[u]
  BY <1>1, <1>2
<1>4. HandOK' /\ Held' = Held
  BY <1>1, <1>3, HandKeptOK
<1>5. UNCHANGED <<Replies, Known>>
  BY <1>1, <1>4 DEF Replies, Known
<1>6. HandsOK'
  BY <1>1 DEF TaskInv, HandsOK
<1>7. FuturesOK'
  <2>1. \A u \in Tasks : u # t => (InHand(u)' <=> InHand(u)) /\ future'[u] = future[u]
    BY <1>1, <1>3 DEF InHand, Reports
  <2>2. t \notin currTasks' /\ future'[t] \in {"unsubmitted", "rejected"}
    BY <1>1, <1>2 DEF TaskInv, FuturesOK
  <2>3. QED
    BY <1>1, <2>1, <2>2 DEF TaskInv, FuturesOK, Submitted, Resolved
<1>8. QueuedIsNew'
  <2>1. CASE cTask' = [cTask EXCEPT ![c] = t] /\ cpc' = [cpc EXCEPT ![c] = "queue"]
             /\ UNCHANGED future
    BY <1>1, <1>2, <2>1 DEF TaskInv, QueuedIsNew
  <2>2. CASE future' = [future EXCEPT ![t] = "rejected"] /\ UNCHANGED <<cpc, cTask>>
    BY <1>1, <1>2, <2>2 DEF TaskInv, QueuedIsNew
  <2>3. QED
    BY <1>1, <2>1, <2>2
<1>9. QED
  BY <1>1, <1>4, <1>5, <1>6, <1>7, <1>8 DEF TaskInv

\* A call of a client leaves the manager's hands alone.
LEMMA ClientKeepsHand ==
  ASSUME TypeOK, NEW c \in Clients, CallSteps(c)
  PROVE  /\ UNCHANGED received
         /\ (UNCHANGED mpc) \/ (Start(c) /\ Idle(mpc, mpc'))
         /\ UNCHANGED workerLocals /\ UNCHANGED <<task, response, outbox>>
<1>1. UNCHANGED received
  BY DEF CallSteps, ProcessClientStep, PutTask, LoadCount, StoreCount, ReadCount,
         ScanProcess, EnterWorker, LaunchWorker, LaunchSeen, ownVars
<1>2. UNCHANGED mpc \/ (Start(c) /\ Idle(mpc, mpc'))
  <2>1. CASE StopSteps(c)
    <3>1. StopCallUnchanged
      BY <2>1, StopCallFacts
    <3>2. QED
      BY <3>1 DEF StopCallUnchanged, managerCtl
  <2>2. CASE Start(c)
    BY <2>2 DEF Start, Idle
  <2>3. CASE ~StopSteps(c) /\ ~Start(c)
    BY <2>3
       DEF CallSteps, ProcessClientStep, ClientCall, StopSteps, PutTask, LoadCount,
           StoreCount, ReadCount, ScanProcess, EnterWorker, LaunchWorker, LaunchSeen,
           StartReturns, AdjustWorkers, EndSubmit, ScanFails, ScanDone, SubmitReturns,
           Submit, managerVars, managerCtl
  <2>4. QED
    BY <2>1, <2>2, <2>3
<1>3. QED
  BY <1>1, <1>2 DEF CallSteps, workerLocals

\* A client queues a task that is nowhere yet.
LEMMA ClientKeepsTaskInv ==
  ASSUME TypeOK, ExitInv, TaskInv, NEW c \in Clients, CallSteps(c)
  PROVE  /\ TaskInv'
         /\ (UNCHANGED <<Replies, Known, taskBus, future>>) \/ PutTask(c)
              \/ \E t \in Tasks : Submit(c, t)
<1>1. /\ UNCHANGED workerLocals /\ UNCHANGED <<task, response, outbox, received>>
      /\ (UNCHANGED <<mpc, received>>) \/ Idle(mpc, mpc')
  BY ClientKeepsHand
<1>2. CASE StopSteps(c)
  <2>1. /\ UNCHANGED <<taskBus, responseBus, future, currTasks, pc, cTask>>
        /\ \E label : label # "queue" /\ cpc' = [cpc EXCEPT ![c] = label]
    <3>1. StopCallUnchanged
      BY <1>2, StopCallFacts
    <3>2. \E label \in {"idle", "stop2", "stop3", "join", "expired", "expired2",
                        "kill2", "kill3"} : cpc' = [cpc EXCEPT ![c] = label]
      BY <1>2, StopCallFacts
    <3>3. QED
      BY <3>1, <3>2 DEF StopCallUnchanged, poolVars, busVars, flagVars, tableVars
  <2>2. QED
    BY <1>1, <2>1, FrameKeepsTaskInv, FrameKeepsHeld
<1>3. CASE LaunchWorker(c)
  <2>1. /\ UNCHANGED <<taskBus, responseBus, future, currTasks, cTask>>
        /\ pc' = [pc EXCEPT ![cWorker[c]] = "boot"] /\ cpc' = [cpc EXCEPT ![c] = "spin"]
        /\ cpc[c] = "launch"
    BY <1>3 DEF LaunchWorker, StartThread, CGoto, busVars, tableVars
  <2>2. cWorker[c] \in Workers /\ ~ThreadAlive(cWorker[c])
    BY <2>1 DEF ExitInv, WorkersNumbered, ThreadAlive, TypeOK, ProcessManagerTypeOK,
                TableTypeOK
  <2>3. QED
    BY <1>1, <2>1, <2>2, FrameKeepsTaskInv, FrameKeepsHeld
<1>4. CASE EndSubmit(c) /\ UNCHANGED <<poolVars, tableVars>>
  <2>1. /\ UNCHANGED <<taskBus, responseBus, future, currTasks, pc>>
        /\ cTask' = [cTask EXCEPT ![c] = NoTask] /\ cpc' = [cpc EXCEPT ![c] = "idle"]
    BY <1>4 DEF EndSubmit, CGoto, poolVars, busVars, flagVars, tableVars
  <2>2. QED
    BY <1>1, <2>1, FrameKeepsTaskInv, FrameKeepsHeld
<1>5. CASE ScanFails(c) \/ SubmitReturns(c) \/ (AdjustWorkers(c) /\ EnoughWorkers)
  BY <1>4, <1>5 DEF ScanFails, SubmitReturns, AdjustWorkers
<1>6. CASE \/ LoadCount(c) \/ StoreCount(c) \/ ReadCount(c) \/ ScanProcess(c)
           \/ EnterWorker(c) \/ LaunchSeen(c) \/ StartReturns(c) \/ ScanDone(c)
           \/ (AdjustWorkers(c) /\ ~EnoughWorkers) \/ Start(c)
  <2>1. UNCHANGED <<taskBus, responseBus, future, currTasks, pc, cTask>>
    BY <1>6 DEF LoadCount, StoreCount, ReadCount, ScanProcess, EnterWorker, LaunchSeen,
                StartReturns, ScanDone, AdjustWorkers, Start, poolVars, busVars, flagVars,
                tableVars
  <2>2. cpc' = cpc \/ \E label : label # "queue" /\ cpc' = [cpc EXCEPT ![c] = label]
    BY <1>6 DEF LoadCount, StoreCount, ReadCount, ScanProcess, EnterWorker, LaunchSeen,
                StartReturns, ScanDone, AdjustWorkers, Start, CGoto
  <2>3. QED
    BY <1>1, <2>1, <2>2, FrameKeepsTaskInv, FrameKeepsHeld
<1>7. QED
  BY <1>1, <1>2, <1>3, <1>5, <1>6, PutKeepsTaskInv, SubmitKeepsTaskInv
     DEF CallSteps, ProcessClientStep, ClientCall, StopSteps

\* At the start there are no tasks.
LEMMA InitTaskInv == Init => TaskInv
<1> SUFFICES ASSUME Init PROVE TaskInv
  OBVIOUS
<1> USE DEF Init, ProcessStateInit, PoolStateInit, ProcessWorkerInit, ProcessManagerInit,
            ThreadManagerInit
<1>1. Replies = <<>> /\ Known = {}
  BY HeldIs DEF Replies, Known
<1>2. OnePlace(taskBus, task, response, outbox, Replies)
  BY <1>1, EndedType DEF OnePlace, NoneTwice, WaitsOnly, RunsOnly, ReportedOnce
<1>3. Tracked(taskBus, task, response, outbox, Replies, Known)
  BY <1>1, EndedType DEF Tracked
<1>4. HandOK /\ HandsOK /\ FuturesOK /\ QueuedIsNew
  BY DEF HandOK, HandsOK, Working, FuturesOK, Submitted, QueuedIsNew
<1>5. QED
  BY <1>2, <1>3, <1>4 DEF TaskInv

\* A future that is cancelled is that of the task in the manager's hands, or not.
LEMMA CancelKeepsTaskInv ==
  ASSUME TypeOK, TaskInv, CancelTask
  PROVE  /\ TaskInv' /\ UNCHANGED <<Replies, Known, taskBus, task, response, outbox>>
         /\ \E t \in Tasks : /\ future[t] = "pending"
                             /\ future' = [future EXCEPT ![t] = "cancelled"]
<1>1. PICK t \in Tasks : Cancel(t)
  BY DEF CancelTask
<1>2. /\ future[t] = "pending" /\ future' = [future EXCEPT ![t] = "cancelled"]
      /\ UNCHANGED <<taskBus, responseBus, currTasks, task, response, outbox, pc, cpc,
                     cTask, mpc, received>>
  BY <1>1 DEF CancelTask, Cancel, CancelFuture, workerLocals, busVars, flagVars,
              tableVars, clientVars, managerVars, managerCtl, ownVars
<1>3. future \in [Tasks -> FutureStates]
  BY DEF TypeOK, ProcessStateTypeOK, PoolStateTypeOK
<1>4. HandOK' /\ Held' = Held
  BY <1>2, <1>3, HandKeptOK
<1>5. UNCHANGED <<Replies, Known>>
  BY <1>2, <1>4 DEF Replies, Known
<1>6. QueuedIsNew' /\ HandsOK'
  BY <1>2, <1>3 DEF TaskInv, QueuedIsNew, HandsOK
<1>7. FuturesOK'
  <2>1. \A u \in Tasks : u # t => (InHand(u)' <=> InHand(u)) /\ future'[u] = future[u]
    BY <1>2, <1>3 DEF InHand, Reports
  <2>2. future'[t] = "cancelled"
    BY <1>2, <1>3
  <2>3. QED
    BY <1>2, <2>1, <2>2 DEF TaskInv, FuturesOK, Submitted, Resolved
<1>8. QED
  BY <1>2, <1>4, <1>5, <1>6, <1>7 DEF TaskInv

\* The invariant of the tasks is inductive, given those of types and ends.
LEMMA StepKeepsTaskInv == TypeOK /\ ExitInv /\ TaskInv /\ [Next]_vars => TaskInv'
<1> SUFFICES ASSUME TypeOK, ExitInv, TaskInv, [Next]_vars PROVE TaskInv'
  OBVIOUS
<1>1. ASSUME NEW w \in Workers, ProcessStep(w) PROVE TaskInv'
  BY <1>1, WorkerKeepsTaskInv DEF ExitInv
<1>2. CASE UNCHANGED vars
  BY <1>2, FrameKeepsTaskInv
     DEF vars, poolVars, busVars, flagVars, workerLocals, tableVars, clientVars,
         managerVars, managerCtl, ownVars
<1>3. QED
  BY Steps, <1>1, <1>2, ManagerKeepsTaskInv, ClientKeepsTaskInv, CancelKeepsTaskInv

\* The three invariants hold in every state of the pool.
LEMMA TaskInvHolds == Spec => [](TypeOK /\ ExitInv /\ TaskInv)
<1>1. TypeOK /\ ExitInv /\ TaskInv /\ [Next]_vars => (TypeOK /\ ExitInv /\ TaskInv)'
  BY StepKeepsType, StepKeepsExitInv, StepKeepsTaskInv
<1>2. QED
  BY <1>1, InitType, InitExitInv, InitTaskInv, PTL DEF Spec

\* What the elementwise form says about the places of one task.
LEMMA PlacesOfTask ==
  ASSUME TypeOK, TaskInv
  PROVE  TaskInOnePlace /\ AccountsAgree
<1> USE PoolStateAssumption
<1>1. \A t \in Tasks :
        /\ t # NoTask
        /\ \A r : Reports(r, t) => Ended(r) = t /\ Ended(r) # NoTask
  BY DEF Reports, Ended
<1>2. /\ OnePlace(taskBus, task, response, outbox, Replies)
      /\ Tracked(taskBus, task, response, outbox, Replies, Known)
  BY DEF TaskInv
<1>3. /\ \A i, j \in DOMAIN responseBus :
           Ended(responseBus[i]) = Ended(responseBus[j])
             => i = j \/ Ended(responseBus[i]) = NoTask
      /\ \A i \in DOMAIN responseBus :
           \E k \in DOMAIN Replies : Replies[k] = responseBus[i]
      /\ Held # {} => \A i \in DOMAIN responseBus :
                        Ended(responseBus[i]) # Ended(received)
      /\ Held # {} => \E k \in DOMAIN Replies : Replies[k] = received
  <2>1. CASE Held = {}
    BY <1>2, <2>1, HeldFacts DEF OnePlace, NoneTwice
  <2>2. CASE Held # {}
    <3>1. /\ Replies \in Seq(Responses) /\ Replies # <<>> /\ Head(Replies) = received
          /\ Tail(Replies) = responseBus /\ Ended(received) # NoTask
      BY <2>2, HeldFacts
    <3>2. /\ 1 \in DOMAIN Replies /\ received = Replies[1]
          /\ \A i \in DOMAIN responseBus : /\ i \in Nat /\ i + 1 \in DOMAIN Replies
                                           /\ i + 1 # 1
                                           /\ responseBus[i] = Replies[i + 1]
      BY <3>1, TailFacts
    <3>3. \A i, j \in DOMAIN responseBus :
            Ended(responseBus[i]) = Ended(responseBus[j])
              => i + 1 = j + 1 \/ Ended(responseBus[i]) = NoTask
      BY <1>2, <3>2 DEF OnePlace, NoneTwice
    <3>4. \A i, j \in DOMAIN responseBus : i + 1 = j + 1 => i = j
      BY <3>2
    <3>5. \A i \in DOMAIN responseBus : Ended(responseBus[i]) # Ended(received)
      BY <1>2, <3>1, <3>2 DEF OnePlace, NoneTwice
    <3>6. QED
      BY <3>2, <3>3, <3>4, <3>5
  <2>3. QED
    BY <2>1, <2>2
<1>4. \A t \in Tasks : Taken(t) # {} =>
        /\ t \in Held /\ t = Ended(received)
        /\ \E k \in DOMAIN Replies : Replies[k] = received
  BY <1>1, <1>3, HeldIs DEF Held, Taken, InHand
<1>5. TaskInOnePlace
  <2> SUFFICES ASSUME NEW t \in Tasks
               PROVE  \A i, j \in 1 .. 6 :
                        /\ AtMostOne(Places(t)[i])
                        /\ i # j => Places(t)[i] = {} \/ Places(t)[j] = {}
    BY DEF TaskInOnePlace
  <2>1. AtMostOne(Waiting(t)) /\ AtMostOne(BeingRun(t))
    BY <1>1, <1>2 DEF OnePlace, NoneTwice, AtMostOne, Waiting, BeingRun
  <2>2. AtMostOne(Answering(t)) /\ AtMostOne(Reported(t))
    BY <1>1, <1>2, <1>3 DEF OnePlace, NoneTwice, AtMostOne, Answering, Reported
  <2>3. AtMostOne(Leaving(t))
    <3>1. \A p \in Leaving(t) :
            \E w \in Workers : \E i \in DOMAIN outbox[w] :
              p = <<w, i>> /\ Reports(outbox[w][i], t)
      BY DEF Leaving
    <3>2. QED
      BY <1>1, <1>2, <3>1 DEF OnePlace, NoneTwice, AtMostOne
  <2>4. \A p \in Leaving(t) :
          \E w \in Workers : \E i \in DOMAIN outbox[w] : Reports(outbox[w][i], t)
    BY DEF Leaving
  <2>5. Waiting(t) # {} => BeingRun(t) = {} /\ Answering(t) = {} /\ Reported(t) = {}
    BY <1>1, <1>2, <1>3 DEF OnePlace, WaitsOnly, Waiting, BeingRun, Answering, Reported
  <2>6. Waiting(t) = {} \/ Leaving(t) = {}
    BY <1>1, <1>2, <2>4 DEF OnePlace, WaitsOnly, Waiting
  <2>7. BeingRun(t) # {} => Answering(t) = {} /\ Reported(t) = {}
    BY <1>1, <1>2, <1>3 DEF OnePlace, RunsOnly, BeingRun, Answering, Reported
  <2>8. BeingRun(t) = {} \/ Leaving(t) = {}
    BY <1>1, <1>2, <2>4 DEF OnePlace, RunsOnly, BeingRun
  <2>9. Answering(t) = {} \/ Reported(t) = {}
    BY <1>1, <1>2, <1>3 DEF OnePlace, ReportedOnce, Answering, Reported
  <2>10. /\ Answering(t) = {} \/ Leaving(t) = {}
         /\ Reported(t) = {} \/ Leaving(t) = {}
    BY <1>1, <1>2, <1>3, <2>4 DEF OnePlace, ReportedOnce, Answering, Reported
  <2>11. AtMostOne(Taken(t))
    BY DEF AtMostOne, Taken
  <2>12. Taken(t) # {} => /\ Waiting(t) = {} /\ BeingRun(t) = {} /\ Answering(t) = {}
                          /\ Reported(t) = {}
    BY <1>1, <1>2, <1>3, <1>4
       DEF OnePlace, WaitsOnly, RunsOnly, ReportedOnce, Waiting, BeingRun, Answering, Reported
  <2>13. Taken(t) = {} \/ Leaving(t) = {}
    BY <1>1, <1>2, <1>4, <2>4 DEF OnePlace, ReportedOnce
  <2>14. QED
    BY <2>1, <2>2, <2>3, <2>5, <2>6, <2>7, <2>8, <2>9, <2>10, <2>11, <2>12, <2>13
       DEF Places
<1>6. AccountsAgree
  <2>1. ASSUME NEW t \in Tasks, Somewhere(t)
        PROVE  t \in currTasks \/ (mpc = "set" /\ InHand(t))
    <3>1. Waiting(t) \cup BeingRun(t) # {} => t \in Known
      BY <1>1, <1>2 DEF Tracked, Waiting, BeingRun
    <3>2. Answering(t) \cup Reported(t) # {} => t \in Known
      BY <1>1, <1>2, <1>3 DEF Tracked, Answering, Reported
    <3>3. Leaving(t) # {} => t \in Known
      BY <1>1, <1>2 DEF Tracked, Leaving
    <3>4. t \in Known
      BY <2>1, <3>1, <3>2, <3>3, <1>4 DEF Somewhere, Places, Known
    <3>5. CASE t \in Held
      BY <3>5, <1>1 DEF Held, Taken, InHand, TaskInv, HandOK
    <3>6. QED
      BY <3>4, <3>5 DEF Known
  <2>2. QED
    BY <2>1 DEF AccountsAgree, TaskInv, FuturesOK
<1>7. QED
  BY <1>5, <1>6

(***************************************************************************)
(* No interleaving of clients, processes, feeders and manager, and no      *)
(* crash, restart or dropped answer, puts a task in two places: it waits   *)
(* on the bus, is run, or its end is in an answer, in one buffer or on the *)
(* response bus.                                                           *)
(***************************************************************************)
THEOREM TasksInOnePlace == Spec => []TaskInOnePlace
  BY TaskInvHolds, PlacesOfTask, PTL

(***************************************************************************)
(* A task that is anywhere is in _curr_tasks, so that _consume_response    *)
(* pops its entry, or has just been popped and has its future set next;    *)
(* and a task that is no longer there has a future that is resolved, or is *)
(* in the hands of the manager, which terminate() may have killed there.   *)
(***************************************************************************)
THEOREM AccountsAlwaysAgree == Spec => []AccountsAgree
  BY TaskInvHolds, PlacesOfTask, PTL

-----------------------------------------------------------------------------
(***************************************************************************)
(* The tasks in progress: taken off the bus, and not yet answered for.     *)
(***************************************************************************)
InHands(t, hand)     == \E w \in Workers : hand[w] = t
InAnswers(t, answer) == \E w \in Workers : Ended(answer[w]) = t
InBoxes(t, box)      == \E w \in Workers : \E i \in DOMAIN box[w] : Ended(box[w][i]) = t
InReplies(t, reply)  == \E i \in DOMAIN reply : Ended(reply[i]) = t

HeldIn(t, hand, answer, box, reply) ==
  InHands(t, hand) \/ InAnswers(t, answer) \/ InBoxes(t, box) \/ InReplies(t, reply)

HeldNow(t) == HeldIn(t, task, response, outbox, Replies)

\* and with one that the manager takes.
LEMMA RepliesShrunk ==
  ASSUME NEW reply \in Seq(Responses), reply # <<>>
  PROVE  /\ \A t : InReplies(t, Tail(reply)) => InReplies(t, reply)
         /\ \A t : InReplies(t, reply) =>
              InReplies(t, Tail(reply)) \/ t = Ended(Head(reply))
         /\ InReplies(Ended(Head(reply)), reply)
<1>1. /\ 1 \in DOMAIN reply /\ Head(reply) = reply[1]
      /\ \A i \in DOMAIN Tail(reply) : /\ i + 1 \in DOMAIN reply
                                       /\ Tail(reply)[i] = reply[i + 1]
      /\ \A i \in DOMAIN reply :
           i # 1 => i - 1 \in DOMAIN Tail(reply) /\ reply[i] = Tail(reply)[i - 1]
  BY TailFacts
<1>2. \A t : InReplies(t, Tail(reply)) => InReplies(t, reply)
  BY <1>1 DEF InReplies
<1>3. \A t : InReplies(t, reply) => InReplies(t, Tail(reply)) \/ t = Ended(Head(reply))
  BY <1>1 DEF InReplies
<1>4. InReplies(Ended(Head(reply)), reply)
  BY <1>1 DEF InReplies
<1>5. QED
  BY <1>2, <1>3, <1>4

\* The tasks in progress are those that somebody holds.
LEMMA InProgressIsHeld ==
  TypeOK /\ TaskInv => \A t \in Tasks : InProgress(t) <=> HeldNow(t)
<1> SUFFICES ASSUME TypeOK, TaskInv, NEW t \in Tasks
             PROVE  InProgress(t) <=> HeldNow(t)
  OBVIOUS
<1>1. t # NoTask /\ \A r : Reports(r, t) <=> Ended(r) = t
  BY PoolStateAssumption DEF Reports, Ended
<1>2. BeingRun(t) # {} <=> InHands(t, task)
  BY DEF BeingRun, InHands
<1>3. Answering(t) # {} <=> InAnswers(t, response)
  BY <1>1 DEF Answering, InAnswers
<1>4. Leaving(t) # {} <=> InBoxes(t, outbox)
  <2>1. ASSUME NEW w \in Workers, NEW i \in DOMAIN outbox[w], Reports(outbox[w][i], t)
        PROVE  <<w, i>> \in Leaving(t)
    BY <2>1 DEF Leaving
  <2>2. ASSUME NEW p \in Leaving(t)
        PROVE  \E w \in Workers : \E i \in DOMAIN outbox[w] : Reports(outbox[w][i], t)
    BY DEF Leaving
  <2>3. Leaving(t) # {} => InBoxes(t, outbox)
    BY <1>1, <2>2 DEF InBoxes
  <2>4. InBoxes(t, outbox) => Leaving(t) # {}
    <3>1. SUFFICES ASSUME NEW w \in Workers, NEW i \in DOMAIN outbox[w],
                          Ended(outbox[w][i]) = t
                   PROVE  Leaving(t) # {}
      BY DEF InBoxes
    <3>2. QED
      BY <1>1, <2>1, <3>1
  <2>5. QED
    BY <2>3, <2>4
<1>5. Reported(t) \cup Taken(t) # {} <=> InReplies(t, Replies)
  <2>1. Reported(t) # {} <=> InReplies(t, responseBus)
    BY <1>1 DEF Reported, InReplies
  <2>2. Taken(t) # {} <=> t \in Held
    BY DEF Held
  <2>3. CASE Held = {}
    BY <2>1, <2>2, <2>3, HeldFacts
  <2>4. CASE Held # {}
    <3>1. /\ Replies \in Seq(Responses) /\ Replies # <<>> /\ Ended(Head(Replies)) = Ended(received)
          /\ Tail(Replies) = responseBus /\ Held = {Ended(received)}
      BY <2>4, HeldFacts
    <3>2. InReplies(t, Replies) <=> InReplies(t, responseBus) \/ t = Ended(received)
      BY <3>1, RepliesShrunk
    <3>3. QED
      BY <2>1, <2>2, <3>1, <3>2
  <2>5. QED
    BY <2>3, <2>4
<1>6. QED
  BY <1>2, <1>3, <1>4, <1>5 DEF InProgress, HeldNow, HeldIn

\* What one change of the places means for the tasks in them.
LEMMA HandChanged ==
  ASSUME NEW hand, DOMAIN hand = Workers, NEW w \in Workers, NEW s
  PROVE  /\ InHands(s, [hand EXCEPT ![w] = s])
         /\ \A t : t \notin {hand[w], s} =>
              (InHands(t, [hand EXCEPT ![w] = s]) <=> InHands(t, hand))
  BY DEF InHands

\* How the held tasks change with the `response` of a worker,
LEMMA AnswerChanged ==
  ASSUME NEW answer, DOMAIN answer = Workers, NEW w \in Workers, NEW r
  PROVE  /\ InAnswers(Ended(r), [answer EXCEPT ![w] = r])
         /\ \A t : t \notin {Ended(answer[w]), Ended(r)} =>
              (InAnswers(t, [answer EXCEPT ![w] = r]) <=> InAnswers(t, answer))
  BY DEF InAnswers

\* with a response put into its queue,
LEMMA BoxGrown ==
  ASSUME NEW box \in [Workers -> Seq(Responses)], NEW w \in Workers, NEW r \in Responses
  PROVE  \A t : InBoxes(t, [box EXCEPT ![w] = Append(@, r)])
                  <=> InBoxes(t, box) \/ t = Ended(r)
<1> DEFINE b == [box EXCEPT ![w] = Append(@, r)]
<1>1. box[w] \in Seq(Responses)
  OBVIOUS
<1>2. /\ \A i \in DOMAIN box[w] : /\ i \in DOMAIN Append(box[w], r)
                                  /\ Append(box[w], r)[i] = box[w][i]
      /\ \A i \in DOMAIN Append(box[w], r) :
           \/ i \in DOMAIN box[w] /\ Append(box[w], r)[i] = box[w][i]
           \/ Append(box[w], r)[i] = r
      /\ \E i \in DOMAIN Append(box[w], r) : Append(box[w], r)[i] = r
  BY <1>1, AppendFacts
<1>3. b[w] = Append(box[w], r) /\ \A v \in Workers : v # w => b[v] = box[v]
  OBVIOUS
<1> HIDE DEF b
<1>4. ASSUME NEW t, InBoxes(t, b)
      PROVE  InBoxes(t, box) \/ t = Ended(r)
  <2>1. PICK v \in Workers : \E i \in DOMAIN b[v] : Ended(b[v][i]) = t
    BY <1>4 DEF InBoxes
  <2>2. PICK i \in DOMAIN b[v] : Ended(b[v][i]) = t
    BY <2>1
  <2>3. (i \in DOMAIN box[v] /\ b[v][i] = box[v][i]) \/ b[v][i] = r
    BY <1>2, <1>3
  <2>4. QED
    BY <2>2, <2>3 DEF InBoxes
<1>5. ASSUME NEW t, InBoxes(t, box)
      PROVE  InBoxes(t, b)
  <2>1. PICK v \in Workers : \E i \in DOMAIN box[v] : Ended(box[v][i]) = t
    BY <1>5 DEF InBoxes
  <2>2. PICK i \in DOMAIN box[v] : Ended(box[v][i]) = t
    BY <2>1
  <2>3. i \in DOMAIN b[v] /\ b[v][i] = box[v][i]
    BY <1>2, <1>3
  <2>4. QED
    BY <2>2, <2>3 DEF InBoxes
<1>6. InBoxes(Ended(r), b)
  BY <1>2, <1>3 DEF InBoxes
<1>7. QED
  BY <1>4, <1>5, <1>6 DEF b

\* with one taken from it,
LEMMA BoxShrunk ==
  ASSUME NEW box \in [Workers -> Seq(Responses)], NEW w \in Workers, box[w] # <<>>
  PROVE  /\ \A t : InBoxes(t, [box EXCEPT ![w] = Tail(@)]) => InBoxes(t, box)
         /\ \A t : InBoxes(t, box) =>
              InBoxes(t, [box EXCEPT ![w] = Tail(@)]) \/ t = Ended(Head(box[w]))
         /\ InBoxes(Ended(Head(box[w])), box)
<1> DEFINE b == [box EXCEPT ![w] = Tail(@)]
<1>1. box[w] \in Seq(Responses)
  OBVIOUS
<1>2. /\ 1 \in DOMAIN box[w] /\ Head(box[w]) = box[w][1]
      /\ \A i \in DOMAIN Tail(box[w]) : /\ i + 1 \in DOMAIN box[w]
                                        /\ Tail(box[w])[i] = box[w][i + 1]
      /\ \A i \in DOMAIN box[w] :
           i # 1 => i - 1 \in DOMAIN Tail(box[w]) /\ box[w][i] = Tail(box[w])[i - 1]
  BY <1>1, TailFacts
<1>3. b[w] = Tail(box[w]) /\ \A v \in Workers : v # w => b[v] = box[v]
  OBVIOUS
<1> HIDE DEF b
<1>4. ASSUME NEW t, InBoxes(t, b)
      PROVE  InBoxes(t, box)
  <2>1. PICK v \in Workers : \E i \in DOMAIN b[v] : Ended(b[v][i]) = t
    BY <1>4 DEF InBoxes
  <2>2. PICK i \in DOMAIN b[v] : Ended(b[v][i]) = t
    BY <2>1
  <2>3. \E k \in DOMAIN box[v] : b[v][i] = box[v][k]
    <3>1. CASE v = w
      <4>1. i + 1 \in DOMAIN box[v] /\ b[v][i] = box[v][i + 1]
        BY <1>2, <1>3, <2>2, <3>1
      <4>2. QED
        BY <4>1
    <3>2. CASE v # w
      BY <1>3, <2>2, <3>2
    <3>3. QED
      BY <3>1, <3>2
  <2>4. QED
    BY <2>2, <2>3 DEF InBoxes
<1>5. ASSUME NEW t, InBoxes(t, box), t # Ended(Head(box[w]))
      PROVE  InBoxes(t, b)
  <2>1. PICK v \in Workers : \E i \in DOMAIN box[v] : Ended(box[v][i]) = t
    BY <1>5 DEF InBoxes
  <2>2. PICK i \in DOMAIN box[v] : Ended(box[v][i]) = t
    BY <2>1
  <2>3. \E k \in DOMAIN b[v] : b[v][k] = box[v][i]
    <3>1. CASE v = w
      <4>1. i # 1
        BY <1>2, <1>5, <2>2, <3>1
      <4>2. i - 1 \in DOMAIN Tail(box[w]) /\ box[w][i] = Tail(box[w])[i - 1]
        BY <1>2, <3>1, <4>1
      <4>3. i - 1 \in DOMAIN b[v] /\ b[v][i - 1] = box[v][i]
        BY <1>3, <3>1, <4>2
      <4>4. QED
        BY <4>3
    <3>2. CASE v # w
      BY <1>3, <3>2
    <3>3. QED
      BY <3>1, <3>2
  <2>4. QED
    BY <2>2, <2>3 DEF InBoxes
<1>6. InBoxes(Ended(Head(box[w])), box)
  BY <1>2 DEF InBoxes
<1>7. QED
  BY <1>4, <1>5, <1>6 DEF b

\* with a queue that is lost,
LEMMA BoxEmptied ==
  ASSUME NEW box \in [Workers -> Seq(Responses)], NEW w \in Workers
  PROVE  /\ \A t : InBoxes(t, [box EXCEPT ![w] = <<>>]) => InBoxes(t, box)
         /\ box[w] = <<>> => [box EXCEPT ![w] = <<>>] = box
<1> DEFINE b == [box EXCEPT ![w] = <<>>]
<1>1. DOMAIN b[w] = {} /\ \A v \in Workers : v # w => b[v] = box[v]
  OBVIOUS
<1> HIDE DEF b
<1>2. \A t : InBoxes(t, b) => InBoxes(t, box)
  BY <1>1 DEF InBoxes
<1>3. box[w] = <<>> => b = box
  BY DEF b
<1>4. QED
  BY <1>2, <1>3 DEF b

\* with a response that reaches the manager,
LEMMA RepliesGrown ==
  ASSUME NEW reply \in Seq(Responses), NEW r \in Responses
  PROVE  \A t : InReplies(t, Append(reply, r)) <=> InReplies(t, reply) \/ t = Ended(r)
<1>1. /\ \A i \in DOMAIN reply : /\ i \in DOMAIN Append(reply, r)
                                 /\ Append(reply, r)[i] = reply[i]
      /\ \A i \in DOMAIN Append(reply, r) :
           \/ i \in DOMAIN reply /\ Append(reply, r)[i] = reply[i]
           \/ Append(reply, r)[i] = r
      /\ \E i \in DOMAIN Append(reply, r) : Append(reply, r)[i] = r
  BY AppendFacts
<1> DEFINE p == Append(reply, r)
<1> HIDE DEF p
<1>2. \A t : InReplies(t, p) <=> InReplies(t, reply) \/ t = Ended(r)
  BY <1>1 DEF InReplies, p
<1>3. QED
  BY <1>2 DEF p

\* A worker that takes a task holds it, besides those that were held before.
LEMMA TakeHolds ==
  ASSUME TypeOK, AnswersOK, TaskInv, NEW w \in Workers, GetTask(w), Replies' = Replies
  PROVE  LET s == Head(taskBus)
         IN  /\ s \in Tasks /\ ~HeldNow(s)
             /\ \A t \in Tasks : HeldNow(t)' <=> HeldNow(t) \/ t = s
<1> DEFINE s == Head(taskBus)
<1>1. /\ task' = [task EXCEPT ![w] = s] /\ taskBus # <<>> /\ taskBus \in Seq(Tasks)
      /\ UNCHANGED <<response, outbox, Replies>> /\ pc[w] = "get"
      /\ DOMAIN task = Workers
  BY DEF GetTask, TypeOK, ProcessStateTypeOK, PoolStateTypeOK, ProcessWorkerTypeOK
<1>2. s \in Tasks
  BY <1>1, TailFacts
<1>3. task[w] = NoTask
  BY <1>1, HoldsOne DEF Working, TaskInv
<1>4. Absent(s, Tail(taskBus), task, response, outbox, Replies)
  BY <1>1, NowPlaced, RemoveFromBus
<1> HIDE DEF s
<1>5. ~HeldNow(s)
  BY <1>4 DEF Absent, HeldNow, HeldIn, InHands, InAnswers, InBoxes, InReplies
<1>6. /\ InHands(s, task')
      /\ \A t : t \notin {task[w], s} => (InHands(t, task') <=> InHands(t, task))
  BY <1>1, HandChanged
<1>7. ASSUME NEW t \in Tasks
      PROVE  HeldNow(t)' <=> HeldNow(t) \/ t = s
  BY <1>1, <1>3, <1>6, PoolStateAssumption DEF HeldNow, HeldIn
<1>8. QED
  BY <1>2, <1>5, <1>7 DEF s

\* The end of a run is reported, unless the function raised SystemExit.
LEMMA FinishHolds ==
  ASSUME TypeOK, AnswersOK, TaskInv, NEW w \in Workers, NEW o \in Outcomes,
         \/ FinishAndContinue(w, o) \/ FinishAndRestart(w, o)
         \/ FinishAndFail(w, o) \/ FinishAndExit(w, o),
         NEW t \in Tasks, Replies' = Replies
  PROVE  /\ HeldNow(t)' => HeldNow(t)
         /\ HeldNow(t) => HeldNow(t)' \/ "exit" \in Outcomes
<1> DEFINE s == task[w]
           r == AnswerTo(s, w, o)
           a == AddFlag(r, "RESTART")
           f == Action({"CLOSE", "FATAL_ERROR"}, NoTask, w)
<1>1. /\ pc[w] = "run" /\ task' = [task EXCEPT ![w] = NoTask] /\ Replies' = Replies
      /\ o \in {"result", "exception", "exit"}
      /\ o = "exit" => "exit" \in Outcomes
      /\ task \in [Workers -> Tasks \cup {NoTask}] /\ response \in [Workers -> Responses]
      /\ outbox \in [Workers -> Seq(Responses)]
  BY ProcessWorkerAssumption
     DEF FinishAndContinue, FinishAndRestart, FinishAndFail, FinishAndExit, RunTask, busVars,
         TypeOK, ProcessWorkerTypeOK
<1>2. s \in Tasks /\ response[w] = None /\ NoTask \notin Tasks /\ Ended(None) = NoTask
  BY <1>1, HoldsOne, PoolStateAssumption, EndedType DEF TaskInv
<1>3. response = [response EXCEPT ![w] = None]
  BY <1>1, <1>2
<1>4. /\ r \in Responses /\ None \in Responses /\ Ended(f) = NoTask
      /\ o # "exit" => Ended(r) = s /\ Ended(a) = s
  <2>1. r \in Responses /\ None \in Responses
    BY <1>1, <1>2, ResponseFacts
  <2>2. Ended(f) = NoTask
    BY EndedFacts
  <2>3. o # "exit" => Ended(r) = s /\ Ended(a) = s
    BY <1>1, <1>2, EndedFacts
  <2>4. QED
    BY <2>1, <2>2, <2>3
<1>5. /\ InHands(s, task)
      /\ t # s => (InHands(t, task') <=> InHands(t, task))
  BY <1>1, <1>2, HandChanged DEF InHands
<1>6. InHands(s, task') => InHands(s, task)
  BY <1>5
<1> HIDE DEF s, r, a, f
<1>7. CASE FinishAndContinue(w, o)
  <2>1. outbox' = [outbox EXCEPT ![w] = Append(@, r)] /\ response' = response /\ o # "exit"
    BY <1>3, <1>7 DEF FinishAndContinue, r, s
  <2>2. InBoxes(t, outbox') <=> InBoxes(t, outbox) \/ t = s
    BY <1>1, <1>4, <2>1, BoxGrown
  <2>3. QED
    BY <1>1, <1>5, <1>6, <2>1, <2>2 DEF HeldNow, HeldIn
<1>8. CASE FinishAndRestart(w, o)
  <2>1. outbox' = outbox /\ response' = [response EXCEPT ![w] = a] /\ o # "exit"
    BY <1>8 DEF FinishAndRestart, a, r, s
  <2>2. /\ InAnswers(s, response')
        /\ t # s => (InAnswers(t, response') <=> InAnswers(t, response))
    BY <1>1, <1>2, <1>4, <2>1, AnswerChanged
  <2>3. QED
    BY <1>1, <1>5, <2>1, <2>2 DEF HeldNow, HeldIn
<1>9. CASE FinishAndFail(w, o) \/ FinishAndExit(w, o)
  <2>1. o = "exit"
    BY <1>9 DEF FinishAndFail, FinishAndExit
  <2>2. HeldNow(t)' => HeldNow(t)
    <3>1. CASE FinishAndFail(w, o)
      <4>1. outbox' = outbox /\ response' = [response EXCEPT ![w] = f]
        BY <3>1 DEF FinishAndFail, f
      <4>2. InAnswers(t, response') <=> InAnswers(t, response)
        BY <1>1, <1>2, <1>4, <4>1, AnswerChanged
      <4>3. QED
        BY <1>1, <1>5, <4>1, <4>2 DEF HeldNow, HeldIn
    <3>2. CASE FinishAndExit(w, o)
      <4>1. outbox' = [outbox EXCEPT ![w] = Append(@, None)] /\ response' = response
        BY <3>2 DEF FinishAndExit
      <4>2. InBoxes(t, outbox') <=> InBoxes(t, outbox)
        BY <1>1, <1>2, <1>4, <4>1, BoxGrown
      <4>3. QED
        BY <1>1, <1>5, <4>1, <4>2 DEF HeldNow, HeldIn
    <3>3. QED
      BY <1>9, <3>1, <3>2
  <2>3. QED
    BY <1>1, <2>1, <2>2
<1>10. QED
  BY <1>7, <1>8, <1>9

\* The last answer of a worker goes into its buffer.
LEMMA QuitHolds ==
  ASSUME TypeOK, NEW w \in Workers, Quit(w), NEW t \in Tasks, Replies' = Replies
  PROVE  HeldNow(t)' <=> HeldNow(t)
<1> DEFINE r == response[w]
<1>1. /\ response' = [response EXCEPT ![w] = None] /\ r \in Responses
      /\ UNCHANGED <<Replies, task>>
      /\ outbox' = IF r = None THEN outbox ELSE [outbox EXCEPT ![w] = Append(@, r)]
      /\ DOMAIN response = Workers /\ outbox \in [Workers -> Seq(Responses)]
      /\ t # NoTask /\ Ended(None) = NoTask
  BY PoolStateAssumption, EndedType DEF Quit, busVars, TypeOK, ProcessWorkerTypeOK
<1>2. t # Ended(r) => (InAnswers(t, response') <=> InAnswers(t, response))
  BY <1>1, AnswerChanged
<1>3. InAnswers(Ended(r), response)
  BY DEF InAnswers
<1> HIDE DEF r
<1>4. CASE r = None
  BY <1>1, <1>2, <1>4 DEF HeldNow, HeldIn
<1>5. CASE r # None
  <2>1. InBoxes(t, outbox') <=> InBoxes(t, outbox) \/ t = Ended(r)
    BY <1>1, <1>5, BoxGrown
  <2>2. QED
    BY <1>1, <1>2, <1>3, <2>1 DEF HeldNow, HeldIn
<1>6. QED
  BY <1>4, <1>5

\* The feeder moves an answer on to the manager, or drops it.
LEMMA FeederHolds ==
  ASSUME TypeOK, TaskInv, NEW w \in Workers, FeederStep(w), NEW t \in Tasks,
         SendAnswer(w) => Replies' = Append(Replies, Head(outbox[w])),
         DropAnswer(w) => Replies' = Replies
  PROVE  /\ HeldNow(t)' => HeldNow(t)
         /\ HeldNow(t) => HeldNow(t)' \/ Unsendable # {}
<1> DEFINE r == Head(outbox[w])
<1>1. /\ outbox[w] # <<>> /\ UNCHANGED <<task, response>>
      /\ outbox \in [Workers -> Seq(Responses)] /\ Replies \in Seq(Responses)
  BY HeldFacts DEF FeederStep, SendAnswer, DropAnswer, busVars, TypeOK, ProcessWorkerTypeOK
<1>2. LET b == [outbox EXCEPT ![w] = Tail(@)]
      IN  /\ InBoxes(t, b) => InBoxes(t, outbox)
          /\ InBoxes(t, outbox) => InBoxes(t, b) \/ t = Ended(r)
          /\ InBoxes(Ended(r), outbox)
  BY <1>1, BoxShrunk
<1>3. r \in Responses
  <2>1. outbox[w] \in Seq(Responses)
    BY <1>1
  <2>2. QED
    BY <1>1, <2>1, TailFacts
<1>4. CASE SendAnswer(w)
  <2>1. outbox' = [outbox EXCEPT ![w] = Tail(@)] /\ Replies' = Append(Replies, r)
    BY <1>4 DEF SendAnswer
  <2> HIDE DEF r
  <2>2. InReplies(t, Replies') <=> InReplies(t, Replies) \/ t = Ended(r)
    BY <1>1, <1>3, <2>1, RepliesGrown
  <2>3. QED
    BY <1>1, <1>2, <2>1, <2>2 DEF HeldNow, HeldIn
<1>5. CASE DropAnswer(w)
  <2>1. Replies' = Replies /\ Unsendable # {}
    BY <1>5 DEF DropAnswer, busVars, CanBePickled
  <2>2. InBoxes(t, outbox') => InBoxes(t, outbox)
    <3>1. CASE outbox' = [outbox EXCEPT ![w] = Tail(@)]
      BY <1>2, <3>1
    <3>2. CASE outbox' = [outbox EXCEPT ![w] = <<>>]
      BY <1>1, <3>2, BoxEmptied
    <3>3. QED
      BY <1>5, <3>1, <3>2 DEF DropAnswer
  <2>3. QED
    BY <1>1, <2>1, <2>2 DEF HeldNow, HeldIn
<1>6. QED
  BY <1>4, <1>5 DEF FeederStep

\* A process that is killed takes along all that it holds; one that has ended
\* and whose buffer is empty holds nothing.
LEMMA CrashHolds ==
  ASSUME TypeOK, AnswersOK, TaskInv, NEW w \in Workers, Crash(w), NEW t \in Tasks,
         Replies' = Replies
  PROVE  /\ HeldNow(t)' => HeldNow(t)
         /\ HeldNow(t) => HeldNow(t)' \/ ~(pc[w] \in Past /\ outbox[w] = <<>>)
<1>1. /\ task' = [task EXCEPT ![w] = NoTask] /\ response' = [response EXCEPT ![w] = None]
      /\ outbox' = [outbox EXCEPT ![w] = <<>>] /\ Replies' = Replies
      /\ response \in [Workers -> Responses] /\ task \in [Workers -> Tasks \cup {NoTask}]
      /\ outbox \in [Workers -> Seq(Responses)]
      /\ t # NoTask /\ Ended(None) = NoTask
  BY PoolStateAssumption, EndedType DEF Crash, busVars, TypeOK, ProcessWorkerTypeOK
<1>2. InHands(t, task') => InHands(t, task)
  BY <1>1 DEF InHands
<1>3. InAnswers(t, response') => InAnswers(t, response)
  BY <1>1 DEF InAnswers
<1>4. InBoxes(t, outbox') => InBoxes(t, outbox)
  BY <1>1, BoxEmptied
<1>5. HeldNow(t)' => HeldNow(t)
  BY <1>1, <1>2, <1>3, <1>4 DEF HeldNow, HeldIn
<1>6. ASSUME pc[w] \in Past, outbox[w] = <<>>
      PROVE  HeldNow(t)' <=> HeldNow(t)
  <2>1. task[w] = NoTask /\ response[w] = None
    BY <1>6, HoldsOne DEF Past, Working, TaskInv
  <2>2. UNCHANGED <<task, response>>
    BY <1>1, <2>1
  <2>3. UNCHANGED outbox
    BY <1>1, <1>6, BoxEmptied
  <2>4. QED
    BY <1>1, <2>2, <2>3 DEF HeldNow, HeldIn
<1>7. QED
  BY <1>5, <1>6

\* No other step of a worker process changes what is in progress.
LEMMA WorkerHolds ==
  ASSUME TypeOK, AnswersOK, TaskInv, NEW w \in Workers, ProcessStep(w), ~GetTask(w),
         NEW t \in Tasks
  PROVE  /\ HeldNow(t)' => HeldNow(t)
         /\ HeldNow(t) => \/ HeldNow(t)' \/ "exit" \in Outcomes \/ Unsendable # {}
                          \/ Crash(w) /\ ~(pc[w] \in Past /\ outbox[w] = <<>>)
<1>1. /\ ~SendAnswer(w) => Replies' = Replies
      /\ SendAnswer(w) => Replies' = Append(Replies, Head(outbox[w]))
  BY WorkerReplies
<1>2. CASE FeederStep(w)
  <2>1. DropAnswer(w) => ~SendAnswer(w)
    BY DEF SendAnswer, DropAnswer
  <2>2. QED
    BY <1>1, <1>2, <2>1, FeederHolds
<1>3. CASE ~FeederStep(w)
  <2>1. Replies' = Replies
    BY <1>1, <1>3 DEF FeederStep
  <2>2. CASE \/ NoRequest(w) \/ CheckRunning(w) \/ GetEmpty(w) \/ LoadCounter(w)
             \/ StoreCounter(w) \/ BeginTask(w) \/ EndProcess(w)
    <3>1. UNCHANGED <<task, response, outbox>>
      BY <2>2 DEF NoRequest, CheckRunning, GetEmpty, LoadCounter, StoreCounter, BeginTask,
                  EndProcess, busVars, workerLocals
    <3>2. QED
      BY <2>1, <3>1 DEF HeldNow, HeldIn
  <2>3. CASE TimeOut(w) \/ HandleRequest(w) \/ Boot(w)
    <3>1. UNCHANGED <<task, outbox>>
      BY <2>3 DEF TimeOut, HandleRequest, Boot, busVars
    <3>2. PICK r : response' = [response EXCEPT ![w] = r] /\ Ended(r) = NoTask
      BY <2>1, <2>3, SayPlaces
    <3>3. /\ t # NoTask /\ DOMAIN response = Workers /\ pc[w] # "quit"
      BY <2>3, PoolStateAssumption
         DEF TimeOut, HandleRequest, Boot, TypeOK, ProcessWorkerTypeOK
    <3>4. Ended(response[w]) = NoTask
      BY <3>3, HoldsOne, EndedType DEF TaskInv
    <3>5. InAnswers(t, response') <=> InAnswers(t, response)
      BY <3>2, <3>3, <3>4, AnswerChanged
    <3>6. QED
      BY <2>1, <3>1, <3>5 DEF HeldNow, HeldIn
  <2>4. QED
    BY <1>3, <2>1, <2>2, <2>3, FinishHolds, QuitHolds, CrashHolds
       DEF ProcessStep, WorkerStep
<1>4. QED
  BY <1>2, <1>3

-----------------------------------------------------------------------------
(***************************************************************************)
(* The pool implements TaskContract.                                       *)
(***************************************************************************)
HeldTasks == {t \in Tasks : HeldNow(t)}

\* What the contract calls executing are the held tasks,
LEMMA ExecutingAreHeld ==
  TypeOK /\ TaskInv => {t \in Tasks : InProgress(t)} = HeldTasks
  BY InProgressIsHeld DEF HeldTasks

\* and they are so in the next state.
LEMMA ExecutingAreHeldNext ==
  (TypeOK /\ TaskInv)' => ({t \in Tasks : InProgress(t)} = HeldTasks)'
  BY ExecutingAreHeld, PTL

\* A process that takes a task starts it.
LEMMA TakeImplements ==
  ASSUME TypeOK, AnswersOK, TaskInv, TypeOK', TaskInv', NEW w \in Workers, ProcessStep(w),
         GetTask(w)
  PROVE  Contract!Next
<1> DEFINE s == Head(taskBus)
<1>1. /\ taskBus # <<>> /\ taskBus' = Tail(taskBus) /\ UNCHANGED <<Known, Replies, future>>
  <2>1. ~SendAnswer(w)
    BY DEF GetTask, SendAnswer
  <2>2. QED
    BY <2>1, WorkerFrame, WorkerReplies DEF GetTask
<1>2. s \in Tasks /\ ~HeldNow(s) /\ \A t \in Tasks : HeldNow(t)' <=> HeldNow(t) \/ t = s
  BY <1>1, TakeHolds
<1> HIDE DEF s
<1>3. s \notin HeldTasks /\ HeldTasks' = HeldTasks \cup {s}
  BY <1>2 DEF HeldTasks
<1>4. ({t \in Tasks : InProgress(t)} = HeldTasks)'
  BY ExecutingAreHeldNext
<1>5. Contract!Start
  BY <1>1, <1>3, <1>4, ExecutingAreHeld DEF Contract!Start, s
<1>6. QED
  BY <1>5 DEF Contract!Next

\* Tasks that are lost to a fault are aborted.
LEMMA LossImplements ==
  ASSUME TypeOK, TaskInv, TypeOK', TaskInv',
         UNCHANGED <<taskBus, Known, future>>, HeldTasks' \subseteq HeldTasks,
         HeldTasks' # HeldTasks => \/ "exit" \in Outcomes \/ MayCrash # {}
                                   \/ Unsendable \cup Unloadable # {}
  PROVE  [Contract!Next]_(Contract!vars)
<1>1. ({t \in Tasks : InProgress(t)} = HeldTasks)'
  BY ExecutingAreHeldNext
<1>2. CASE HeldTasks' = HeldTasks
  BY <1>1, <1>2, ExecutingAreHeld DEF Contract!vars
<1>3. CASE HeldTasks' # HeldTasks
  <2>1. /\ HeldTasks \ HeldTasks' \in SUBSET HeldTasks
        /\ HeldTasks' = HeldTasks \ (HeldTasks \ HeldTasks')
    OBVIOUS
  <2>2. Contract!Abort
    BY <1>1, <1>3, <2>1, ExecutingAreHeld DEF Contract!Abort
  <2>3. QED
    BY <2>2 DEF Contract!Next
<1>4. QED
  BY <1>2, <1>3

\* A step of a worker is one of the contract, or none.
LEMMA WorkerImplements ==
  ASSUME TypeOK, AnswersOK, TaskInv, TypeOK', TaskInv', NEW w \in Workers, ProcessStep(w)
  PROVE  [Contract!Next]_(Contract!vars)
<1>1. CASE GetTask(w)
  BY <1>1, TakeImplements
<1>2. CASE ~GetTask(w)
  <2>1. UNCHANGED <<taskBus, Known, future>>
    BY <1>2, WorkerFrame, WorkerReplies
  <2>2. \A t \in Tasks :
          /\ HeldNow(t)' => HeldNow(t)
          /\ HeldNow(t) => \/ HeldNow(t)' \/ "exit" \in Outcomes \/ Unsendable # {}
                           \/ Crash(w)
    BY <1>2, WorkerHolds
  <2>3. Crash(w) => MayCrash # {}
    BY DEF Crash
  <2>4. HeldTasks' \subseteq HeldTasks
    BY <2>2 DEF HeldTasks
  <2>5. HeldTasks' # HeldTasks => \/ "exit" \in Outcomes \/ MayCrash # {}
                                  \/ Unsendable \cup Unloadable # {}
    BY <2>2, <2>3, <2>4 DEF HeldTasks
  <2>6. QED
    BY <2>1, <2>4, <2>5, LossImplements
<1>3. QED
  BY <1>1, <1>2

\* When an answer is dealt with, its task is no longer in progress.
LEMMA AnswerHolds ==
  ASSUME TypeOK, TaskInv, Answers, UNCHANGED <<task, response, outbox>>
  PROVE  LET s == Ended(Head(Replies))
         IN  /\ s # NoTask => s \in HeldTasks /\ s \in Known
             /\ HeldTasks' = HeldTasks \ {s}
<1> DEFINE s == Ended(Head(Replies))
<1>1. /\ Replies # <<>> /\ Replies' = Tail(Replies) /\ s \in Known \cup {NoTask}
      /\ s # NoTask => Absent(s, taskBus, task, response, outbox, Tail(Replies))
  BY AnswersPlaces DEF Answers
<1>2. Replies \in Seq(Responses) /\ Known \subseteq Tasks /\ NoTask \notin Tasks
  BY HeldFacts, PoolStateAssumption
<1>3. /\ \A t : InReplies(t, Tail(Replies)) => InReplies(t, Replies)
      /\ \A t : InReplies(t, Replies) => InReplies(t, Tail(Replies)) \/ t = s
      /\ InReplies(s, Replies)
  BY <1>1, <1>2, RepliesShrunk
<1> HIDE DEF s
<1>4. s # NoTask => /\ ~InHands(s, task) /\ ~InAnswers(s, response) /\ ~InBoxes(s, outbox)
                    /\ ~InReplies(s, Tail(Replies))
  BY <1>1 DEF Absent, InHands, InAnswers, InBoxes, InReplies
<1>5. \A t \in Tasks : HeldNow(t)' <=> HeldNow(t) /\ t # s
  BY <1>1, <1>2, <1>3, <1>4 DEF HeldNow, HeldIn
<1>6. s # NoTask => HeldNow(s) /\ s \in Tasks /\ s \in Known
  BY <1>1, <1>2, <1>3 DEF HeldNow, HeldIn
<1>7. QED
  BY <1>5, <1>6 DEF HeldTasks, s

\* That is the end of the task, or the loss of its answer.
LEMMA AnswerImplements ==
  ASSUME TypeOK, TaskInv, TypeOK', TaskInv', KillInv, Answers,
         UNCHANGED <<taskBus, task, response, outbox>>
  PROVE  [Contract!Next]_(Contract!vars)
<1> DEFINE r == Head(Replies)
           s == Ended(r)
<1>1. /\ s # NoTask => s \in HeldTasks /\ s \in Known
      /\ HeldTasks' = HeldTasks \ {s}
  BY AnswerHolds
<1>2. /\ Settles(s) \/ Drops(r) \/ DiesOver(s)
      /\ HeldTasks \subseteq Tasks /\ NoTask \notin Tasks /\ Known \subseteq Tasks
  BY PoolStateAssumption, HeldFacts DEF Answers, HeldTasks
<1>3. CannotLoad(r) => Unloadable # {}
  BY DEF CannotLoad
<1>4. Drops(r) => UNCHANGED <<Known, future>> /\ (CannotLoad(r) \/ s = NoTask)
  BY DEF Drops
<1>5. ({t \in Tasks : InProgress(t)} = HeldTasks)'
  BY ExecutingAreHeldNext
<1> HIDE DEF s, r
<1>6. CASE Drops(r)
  <2>1. s = NoTask => HeldTasks' = HeldTasks
    BY <1>1, <1>2
  <2>2. QED
    BY <1>1, <1>3, <1>4, <1>6, <2>1, LossImplements
<1>7. CASE Settles(s)
  <2>1. s \in Tasks /\ s \in HeldTasks /\ s \in Known /\ Known' = Known \ {s}
    BY <1>1, <1>2, <1>7 DEF Settles
  <2>2. Contract!Settle(s)
    BY <1>7 DEF Settles, Contract!Settle, Contract!Resolve
  <2>3. Contract!EndAndForget(s)
    BY <1>1, <1>5, <2>1, <2>2, ExecutingAreHeld DEF Contract!EndAndForget
  <2>4. QED
    BY <2>1, <2>3 DEF Contract!Next
<1>8. CASE DiesOver(s)
  <2>1. s \in Tasks /\ s \in HeldTasks /\ "terminate" \in OwnerMay
    BY <1>1, <1>2, <1>8 DEF DiesOver, KillInv
  <2>2. Contract!Lose(s)
    BY <1>1, <1>5, <1>8, <2>1, ExecutingAreHeld DEF Contract!Lose, DiesOver
  <2>3. QED
    BY <2>1, <2>2 DEF Contract!Next
<1>9. QED
  BY <1>2, <1>6, <1>7, <1>8

\* So every step of the manager is one of the contract, or none.
LEMMA ManagerImplements ==
  ASSUME TypeOK, ExitInv, TaskInv, TypeOK', TaskInv', KillInv, ManagerSteps
  PROVE  [Contract!Next]_(Contract!vars)
<1>1. /\ UNCHANGED <<taskBus, task, response, outbox>>
      /\ Answers \/ UNCHANGED <<Replies, Known, future>>
  BY ManagerAnswers
<1>2. CASE Answers
  BY <1>1, <1>2, AnswerImplements
<1>3. CASE UNCHANGED <<Replies, Known, future>>
  <2>1. HeldTasks' = HeldTasks
    BY <1>1, <1>3 DEF HeldTasks, HeldNow
  <2>2. QED
    BY <1>1, <1>3, <2>1, LossImplements
<1>4. QED
  BY <1>1, <1>2, <1>3

\* So is a step of a client.
LEMMA ClientImplements ==
  ASSUME TypeOK, ExitInv, TaskInv, TypeOK', TaskInv', NEW c \in Clients, CallSteps(c)
  PROVE  [Contract!Next]_(Contract!vars)
<1>1. UNCHANGED <<task, response, outbox>> /\ UNCHANGED <<workerLocals, received>>
  BY ClientKeepsHand
<1>2. CASE PutTask(c)
  <2> DEFINE t == cTask[c]
  <2>1. /\ t \in Tasks /\ future[t] = "unsubmitted"
        /\ future' = [future EXCEPT ![t] = "pending"]
        /\ taskBus' = Append(taskBus, t)
        /\ Known' = Known \cup {t} /\ UNCHANGED Replies
    BY <1>1, <1>2, PutKeepsTaskInv DEF PutTask, TaskInv, QueuedIsNew
  <2>2. HeldTasks' = HeldTasks
    BY <1>1, <2>1 DEF HeldTasks, HeldNow
  <2>3. ({u \in Tasks : InProgress(u)} = HeldTasks)'
    BY ExecutingAreHeldNext
  <2> HIDE DEF t
  <2>4. Contract!Accept(t)
    BY <2>1, <2>2, <2>3, ExecutingAreHeld DEF Contract!Accept, Contract!Resolve
  <2>5. QED
    BY <2>1, <2>4 DEF Contract!Next
<1>3. ASSUME NEW t \in Tasks, Submit(c, t)
      PROVE  [Contract!Next]_(Contract!vars)
  <2>1. /\ future[t] = "unsubmitted" /\ UNCHANGED <<taskBus, Replies, Known>>
        /\ UNCHANGED future \/ future' = [future EXCEPT ![t] = "rejected"]
    BY <1>1, <1>3, SubmitKeepsTaskInv DEF Submit, busVars
  <2>2. HeldTasks' = HeldTasks
    BY <1>1, <2>1 DEF HeldTasks, HeldNow
  <2>3. ({u \in Tasks : InProgress(u)} = HeldTasks)'
    BY ExecutingAreHeldNext
  <2>4. CASE UNCHANGED future
    BY <2>1, <2>2, <2>4, LossImplements
  <2>5. CASE future' = [future EXCEPT ![t] = "rejected"]
    <3>1. Contract!Refuse(t)
      BY <2>1, <2>2, <2>3, <2>5, ExecutingAreHeld DEF Contract!Refuse, Contract!Resolve
    <3>2. QED
      BY <3>1 DEF Contract!Next
  <2>6. QED
    BY <2>1, <2>4, <2>5
<1>4. CASE ~PutTask(c) /\ ~(\E t \in Tasks : Submit(c, t))
  <2>1. UNCHANGED <<Replies, Known, taskBus, future>>
    BY <1>4, ClientKeepsTaskInv
  <2>2. HeldTasks' = HeldTasks
    BY <1>1, <2>1 DEF HeldTasks, HeldNow
  <2>3. QED
    BY <2>1, <2>2, LossImplements
<1>5. QED
  BY <1>2, <1>3, <1>4

\* Only terminate() kills the manager's thread.
LEMMA StepKeepsKillInv == TypeOK /\ KillInv /\ [Next]_vars => KillInv'
<1> SUFFICES ASSUME TypeOK, KillInv, [Next]_vars PROVE KillInv'
  OBVIOUS
<1>1. ASSUME NEW w \in Workers, ProcessStep(w) PROVE KillInv'
  BY <1>1 DEF KillInv, ProcessStep, MainUnchanged, managerVars, clientVars
<1>2. CASE ManagerSteps
  <2>1. UNCHANGED cpc
    BY <1>2 DEF ManagerSteps, clientVars
  <2>2. UNCHANGED mKill
    BY <1>2
       DEF ManagerSteps, ProcessManagerStep, BusEmpty, Drained, GetAnswer, PopTask,
           SetFuture, SetUnchanged, HandleAnswer, ClearRunning, JoinProcess,
           ForgetProcess, HaltUnchanged, RestartProcess, RestartWorker, RestartSeen,
           ManagerBoot, ManagerCheck, ManagerDown, IterationFails, CloseWorker, CloseDone,
           HaltWorker, ManagerEnd, ManagerIdleOut, ManagerKilled
  <2>3. QED
    BY <2>1, <2>2 DEF KillInv
<1>3. ASSUME NEW c \in Clients, CallSteps(c) PROVE KillInv'
  <2>1. DOMAIN cpc = Clients
    BY DEF TypeOK, ProcessManagerTypeOK
  <2>2. CASE Terminate(c) \/ TerminateTestsAlive(c) \/ TerminateKills(c)
    BY <2>1, <2>2 DEF KillInv, Terminate, TerminateTestsAlive, TestsAlive, TerminateKills,
                      CallStop, EndStop, CGoto
  <2>3. CASE ~(Terminate(c) \/ TerminateTestsAlive(c) \/ TerminateKills(c))
    <3>1. /\ UNCHANGED mKill
          /\ cpc' = cpc \/ \E label : /\ label \notin {"kill2", "kill3"}
                                      /\ cpc' = [cpc EXCEPT ![c] = label]
      BY <1>3, <2>3
         DEF CallSteps, ProcessClientStep, ClientCall, PutTask, LoadCount,
             StoreCount, ReadCount, ScanProcess, EnterWorker, LaunchWorker, LaunchSeen,
             StartReturns, AdjustWorkers, EndSubmit, ScanFails, ScanDone, SubmitReturns,
             Submit, Start, Stop, CallStop, StopGivesUp, StopTestsAlive, TestsAlive,
             StopCallsJoin, StopReturns, StopExpired, StopRaises, StopCallUnchanged, EndStop,
             CGoto, managerVars
    <3>2. QED
      BY <2>1, <3>1 DEF KillInv
  <2>4. QED
    BY <2>2, <2>3
<1>4. CASE CancelTask
  BY <1>4 DEF KillInv, CancelTask, Cancel, managerVars, clientVars
<1>5. CASE UNCHANGED vars
  BY <1>5 DEF KillInv, vars, managerVars, clientVars
<1>6. QED
  BY Steps, <1>1, <1>2, <1>3, <1>4, <1>5

(***************************************************************************)
(* A process pool keeps the contract, whatever clients, workers, feeders   *)
(* and manager do and whichever processes are killed: a task is started at *)
(* most once, in the order of submission; its future is resolved once, by  *)
(* its answer or by cancel(), and the manager forgets the task when it has *)
(* set its future.  A task in progress is lost only where "exit" is among  *)
(* the outcomes, a process may be killed, answers exist that cannot be     *)
(* pickled or loaded, or terminate() is called: it may kill the manager    *)
(* between get() and set_result.                                           *)
(***************************************************************************)
THEOREM ProcessPoolImplementsContract == Spec => ImplementsContract
<1>1. Init => Contract!Init /\ KillInv
  <2> SUFFICES ASSUME Init PROVE Contract!Init /\ KillInv
    OBVIOUS
  <2>1. Replies = <<>> /\ Known = {}
    BY HeldIs DEF Replies, Known, Init, ProcessStateInit, PoolStateInit, ProcessManagerInit,
                  ThreadManagerInit
  <2>2. \A t \in Tasks : ~HeldNow(t)
    BY <2>1, PoolStateAssumption, EndedType
       DEF Init, ProcessStateInit, PoolStateInit, ProcessWorkerInit, HeldNow, HeldIn,
           InHands, InAnswers, InBoxes, InReplies
  <2>3. {t \in Tasks : InProgress(t)} = {}
    BY <2>2, InitType, InitTaskInv, ExecutingAreHeld DEF HeldTasks
  <2>4. KillInv
    BY DEF KillInv, Init, ProcessManagerInit, ThreadManagerInit
  <2>5. QED
    BY <2>1, <2>3, <2>4 DEF Init, ProcessStateInit, PoolStateInit, Contract!Init
<1>2. TypeOK /\ ExitInv /\ TaskInv /\ KillInv /\ [Next]_vars
        => [Contract!Next]_(Contract!vars)
  <2> SUFFICES ASSUME TypeOK, ExitInv, TaskInv, KillInv, [Next]_vars
               PROVE  [Contract!Next]_(Contract!vars)
    OBVIOUS
  <2>1. TypeOK' /\ TaskInv'
    BY StepKeepsType, StepKeepsTaskInv
  <2>2. ASSUME NEW w \in Workers, ProcessStep(w)
        PROVE  [Contract!Next]_(Contract!vars)
    BY <2>1, <2>2, WorkerImplements DEF ExitInv
  <2>3. CASE CancelTask
    <3>1. /\ UNCHANGED <<taskBus, Known>> /\ HeldTasks' = HeldTasks
          /\ \E t \in Tasks : /\ future[t] = "pending"
                              /\ future' = [future EXCEPT ![t] = "cancelled"]
      BY <2>3, CancelKeepsTaskInv DEF HeldTasks, HeldNow
    <3>2. ({u \in Tasks : InProgress(u)} = HeldTasks)'
      BY <2>1, ExecutingAreHeldNext
    <3>3. \E t \in Tasks : Contract!Cancel(t)
      BY <3>1, <3>2, ExecutingAreHeld DEF Contract!Cancel, Contract!Resolve
    <3>4. QED
      BY <3>3 DEF Contract!Next
  <2>4. CASE UNCHANGED vars
    <3>1. UNCHANGED <<taskBus, responseBus, future, currTasks, task, response, outbox, mpc,
                      received>>
      BY <2>4 DEF vars, poolVars, busVars, workerLocals, tableVars, managerVars, managerCtl,
                  ownVars
    <3>2. UNCHANGED <<Replies, Known>>
      BY <3>1, FrameKeepsHeld
    <3>3. HeldTasks' = HeldTasks
      BY <3>1, <3>2 DEF HeldTasks, HeldNow
    <3>4. QED
      BY <2>1, <3>1, <3>2, <3>3, LossImplements
  <2>5. QED
    BY <2>1, <2>2, <2>3, <2>4, Steps, ManagerImplements, ClientImplements
<1>3. TypeOK /\ KillInv /\ [Next]_vars => KillInv'
  BY StepKeepsKillInv
<1>4. QED
  BY <1>1, <1>2, <1>3, TaskInvHolds, PTL DEF Spec, ImplementsContract, Contract!Spec

-----------------------------------------------------------------------------
(***************************************************************************)
(* What is lost: only faults take away the answer of a task.  A process    *)
(* that is killed with a task in its hands or an answer in its buffer is   *)
(* not started again, so that the fault can still be seen.                 *)
(***************************************************************************)
LEMMA FrameKeepsBuried ==
  ASSUME NEW w \in Workers, Buried(w), pc'[w] = "died",
         ~(Attending /\ Attended = w)',
         phase' # "halt" =>
           /\ phase # "halt"
           /\ \A i \in DOMAIN responseBus' :
                \/ \E j \in DOMAIN responseBus : responseBus'[i] = responseBus[j]
                \/ Exits(responseBus'[i]) => responseBus'[i].worker # w
  PROVE  Buried(w)'
  BY DEF Buried

\* A step that leaves the manager's hands alone leaves the end that it attends to.
LEMMA FrameKeepsAttended ==
  ASSUME NEW w \in Workers, Buried(w), UNCHANGED <<mpc, phase, handled, received>>
  PROVE  ~(Attending /\ Attended = w)'
  BY DEF Buried, Attending, Attended, Restarting, Handling

\* The steps of the other processes: their feeders announce their own ends.
LEMMA WorkerKeepsBuried ==
  ASSUME TypeOK, ExitInv, NEW w \in Workers, Buried(w), NEW v \in Workers, ProcessStep(v)
  PROVE  Buried(w)'
<1>1. UNCHANGED <<mpc, phase, handled, received>>
  BY DEF ProcessStep, MainUnchanged, managerVars, managerCtl
<1>2. pc[w] = "died" /\ ~(Attending /\ Attended = w)'
  BY <1>1, FrameKeepsAttended DEF Buried
<1>3. pc'[w] = "died"
  <2>1. CASE SendAnswer(v) \/ DropAnswer(v)
    BY <1>2, <2>1 DEF SendAnswer, DropAnswer, flagVars
  <2>2. CASE Crash(v)
    BY <1>2, <2>2 DEF Crash, Goto, Alive, ThreadAlive, TypeOK, ProcessStateTypeOK,
                      PoolStateTypeOK
  <2>3. CASE WorkerStep(v) \/ GetTask(v) \/ TimeOut(v)
    <3>1. pc[v] # "died" /\ \E label : pc' = [pc EXCEPT ![v] = label]
      BY <2>3 DEF WorkerStep, TimeOut, Boot, HandleRequest, NoRequest, CheckRunning, GetTask,
         GetEmpty, LoadCounter, StoreCounter, BeginTask, FinishAndContinue,
         FinishAndRestart, FinishAndFail, FinishAndExit, RunTask, Quit, EndProcess, Goto
    <3>2. v # w
      BY <1>2, <3>1
    <3>3. QED
      BY <1>2, <3>1, <3>2
  <2>4. QED
    BY <2>1, <2>2, <2>3 DEF ProcessStep, FeederStep
<1>4. CASE SendAnswer(v)
  <2> DEFINE r == Head(outbox[v])
  <2>1. /\ pc[v] # "died" /\ outbox[v] # <<>> /\ responseBus' = Append(responseBus, r)
        /\ outbox \in [Workers -> Seq(Responses)] /\ responseBus \in Seq(Responses)
    BY <1>4 DEF SendAnswer, Alive, ThreadAlive, TypeOK, ProcessStateTypeOK, PoolStateTypeOK,
                ProcessWorkerTypeOK
  <2>2. outbox[v] \in Seq(Responses)
    BY <2>1
  <2>3. r \in Responses /\ 1 \in DOMAIN outbox[v] /\ r = outbox[v][1]
    BY <2>1, <2>2, TailFacts
  <2>4. phase # "halt" /\ Exits(r) => r.worker = v
    BY <2>3 DEF ExitInv, ExitsListed, EndsListed
  <2>5. v # w
    BY <1>2, <2>1
  <2> HIDE DEF r
  <2>6. \A i \in DOMAIN responseBus' :
          (i \in DOMAIN responseBus /\ responseBus'[i] = responseBus[i]) \/ responseBus'[i] = r
    BY <2>1, <2>3, AppendFacts
  <2>7. phase # "halt" =>
          \A i \in DOMAIN responseBus' :
            \/ \E j \in DOMAIN responseBus : responseBus'[i] = responseBus[j]
            \/ Exits(responseBus'[i]) => responseBus'[i].worker # w
    BY <2>4, <2>5, <2>6
  <2>8. QED
    BY <1>1, <1>2, <1>3, <2>7, FrameKeepsBuried
<1>5. CASE ~SendAnswer(v)
  <2>1. responseBus' = responseBus
    BY <1>5 DEF ProcessStep, WorkerStep, FeederStep, TimeOut, Boot, HandleRequest, NoRequest,
       CheckRunning, GetTask, GetEmpty, LoadCounter, StoreCounter, BeginTask,
       FinishAndContinue, FinishAndRestart, FinishAndFail, FinishAndExit, RunTask, Quit,
       EndProcess, DropAnswer, Crash, busVars
  <2>2. QED
    BY <1>1, <1>2, <1>3, <2>1, FrameKeepsBuried
<1>6. QED
  BY <1>4, <1>5

\* The manager starts a worker again only for the end that it announced.
LEMMA ManagerKeepsBuried ==
  ASSUME TypeOK, ExitInv, NEW w \in Workers, Buried(w), ManagerSteps
  PROVE  Buried(w)'
<1>1. pc[w] = "died" /\ ~(Attending /\ Attended = w)
  BY DEF Buried
<1>2. CASE GetAnswer
  <2> DEFINE r == Head(responseBus)
  <2>1. /\ mpc = "receive" /\ responseBus # <<>> /\ responseBus' = Tail(responseBus)
        /\ UNCHANGED <<pc, phase>>
        /\ mpc' = "dead" \/ (mpc' = "pop" /\ received' = r)
    BY <1>2 DEF GetAnswer, flagVars, Die
  <2>2. responseBus \in Seq(Responses) /\ phase # "halt"
    BY <2>1 DEF TypeOK, ProcessStateTypeOK, PoolStateTypeOK, ExitInv, PhaseOK
  <2>3. /\ 1 \in DOMAIN responseBus /\ r = responseBus[1]
        /\ \A i \in DOMAIN Tail(responseBus) : \E j \in DOMAIN responseBus :
             Tail(responseBus)[i] = responseBus[j]
    BY <2>1, <2>2, TailFacts
  <2>4. Exits(r) => r.worker # w
    BY <2>2, <2>3 DEF Buried
  <2> HIDE DEF r
  <2>5. ~(Attending /\ Attended = w)'
    BY <2>1, <2>4 DEF Attending, Attended, Restarting, Handling
  <2>6. QED
    BY <1>1, <2>1, <2>2, <2>3, <2>5, FrameKeepsBuried
<1>3. CASE PopTask \/ SetFuture
  <2>1. /\ UNCHANGED <<pc, phase, received, responseBus>>
        /\ mpc \in {"pop", "set"} /\ mpc' \in {"set", "handle", "dead"}
    BY <1>3 DEF PopTask, SetFuture, SetUnchanged, Die, poolVars, busVars, flagVars, ownVars
  <2>2. ~(Attending /\ Attended = w)'
    BY <1>1, <2>1 DEF Attending, Attended, Restarting, Handling
  <2>3. QED
    BY <1>1, <2>1, <2>2, FrameKeepsBuried
<1>4. CASE HandleAnswer
  <2>1. /\ UNCHANGED <<pc, phase, responseBus>> /\ mpc = "handle"
        /\ \/ mpc' \in {"dead", "receive", "top"}
           \/ mpc' = "stop1" /\ handled' = received.worker /\ Exits(received)
    BY <1>4 DEF HandleAnswer, poolVars, busVars, flagVars, AfterConsume, Die, Exits
  <2>2. ~(Attending /\ Attended = w)'
    BY <1>1, <2>1 DEF Attending, Attended, Restarting, Handling
  <2>3. QED
    BY <1>1, <2>1, <2>2, FrameKeepsBuried
<1>5. CASE ClearRunning \/ JoinProcess \/ ForgetProcess
  <2>1. /\ UNCHANGED <<pc, phase, handled, responseBus>>
        /\ mpc \in {"stop1", "join", "stopped"}
        /\ mpc' \in {"join", "stopped", "halt", "start"}
    BY <1>5 DEF ClearRunning, JoinProcess, ForgetProcess, HaltUnchanged, busVars
  <2>2. ~(Attending /\ Attended = w)'
    BY <1>1, <2>1 DEF Attending, Attended, Restarting, Handling
  <2>3. QED
    BY <1>1, <2>1, <2>2, FrameKeepsBuried
<1>6. CASE RestartProcess
  <2>1. /\ mpc = "start" /\ mpc' \in {"spin", "dead"} /\ UNCHANGED <<phase, handled, responseBus>>
        /\ UNCHANGED pc \/ pc' = [pc EXCEPT ![handled] = "boot"]
    BY <1>6 DEF RestartProcess, RestartWorker, StartThread, Die, busVars
  <2>2. Attending /\ Attended = handled /\ ~Attending'
    BY <2>1 DEF Attending, Attended, Restarting, Handling, ExitInv, PhaseOK
  <2>3. pc'[w] = "died"
    BY <1>1, <2>1, <2>2 DEF TypeOK, ProcessStateTypeOK, PoolStateTypeOK
  <2>4. QED
    BY <2>1, <2>2, <2>3, FrameKeepsBuried
<1>7. CASE \/ BusEmpty \/ Drained \/ RestartSeen \/ ManagerBoot \/ ManagerCheck
           \/ ManagerDown \/ IterationFails \/ CloseWorker \/ CloseDone \/ HaltWorker
           \/ ManagerEnd \/ ManagerIdleOut \/ ManagerKilled
  <2>1. UNCHANGED <<pc, responseBus>>
    BY <1>7 DEF BusEmpty, Drained, RestartSeen, ManagerBoot, ManagerCheck,
         ManagerDown, IterationFails, CloseWorker, CloseDone, HaltWorker, ManagerEnd,
         ManagerIdleOut, ManagerKilled, poolVars, busVars, flagVars
  <2>2. /\ phase' # "halt" => phase # "halt"
        /\ mpc' \notin {"start", "stopped", "join", "pop", "set", "handle"}
        /\ mpc' = "stop1" => phase' = "halt"
    BY <1>7 DEF BusEmpty, Drained, RestartSeen, ManagerBoot, ManagerCheck,
         ManagerDown, IterationFails, CloseWorker, CloseDone, HaltWorker, ManagerEnd,
         ManagerIdleOut, ManagerKilled, AfterConsume, Die, ExitInv, PhaseOK
  <2>3. ~Attending'
    BY <2>2 DEF Attending, Restarting, Handling
  <2>4. QED
    BY <1>1, <2>1, <2>2, <2>3, FrameKeepsBuried
<1>8. QED
  BY <1>2, <1>3, <1>4, <1>5, <1>6, <1>7 DEF ManagerSteps, ProcessManagerStep

\* A client starts workers that have not run before.
LEMMA ClientKeepsBuried ==
  ASSUME TypeOK, ExitInv, NEW w \in Workers, Buried(w), NEW c \in Clients, CallSteps(c)
  PROVE  Buried(w)'
<1>1. pc[w] = "died" /\ ~(Attending /\ Attended = w)
  BY DEF Buried
<1>2. UNCHANGED <<responseBus, phase, handled>>
  <2>1. CASE StopSteps(c)
    BY <2>1, StopCallFacts DEF StopCallUnchanged, poolVars, busVars, managerCtl
  <2>2. CASE ~StopSteps(c)
    BY <2>2
       DEF CallSteps, ProcessClientStep, ClientCall, StopSteps, PutTask, LoadCount,
           StoreCount, ReadCount, ScanProcess, EnterWorker, LaunchWorker, LaunchSeen,
           StartReturns, AdjustWorkers, ScanFails, ScanDone, SubmitReturns, Start, Submit,
           poolVars, busVars, managerVars, managerCtl
  <2>3. QED
    BY <2>1, <2>2
<1>3. ~(Attending /\ Attended = w)'
  <2>1. UNCHANGED received /\ (UNCHANGED mpc \/ (Start(c) /\ Idle(mpc, mpc')))
    BY ClientKeepsHand
  <2>2. CASE UNCHANGED mpc
    BY <1>2, <2>1, <2>2, FrameKeepsAttended
  <2>3. CASE Start(c)
    BY <2>3 DEF Start, Attending, Restarting, Handling
  <2>4. QED
    BY <2>1, <2>2, <2>3
<1>4. pc'[w] = "died"
  <2>1. CASE LaunchWorker(c)
    <3>1. cWorker[c] # w /\ pc' = [pc EXCEPT ![cWorker[c]] = "boot"]
      BY <1>1, <2>1 DEF LaunchWorker, StartThread, ExitInv, WorkersNumbered
    <3>2. QED
      BY <1>1, <3>1 DEF TypeOK, ProcessStateTypeOK, PoolStateTypeOK
  <2>2. CASE StopSteps(c)
    BY <1>1, <2>2, StopCallFacts DEF StopCallUnchanged, poolVars, flagVars
  <2>3. CASE ~LaunchWorker(c) /\ ~StopSteps(c)
    BY <1>1, <2>3
       DEF CallSteps, ProcessClientStep, ClientCall, StopSteps, PutTask, LoadCount,
           StoreCount, ReadCount, ScanProcess, EnterWorker, LaunchSeen, StartReturns,
           AdjustWorkers, ScanFails, ScanDone, SubmitReturns, Start, Submit, poolVars,
           flagVars
  <2>4. QED
    BY <2>1, <2>2, <2>3
<1>5. QED
  BY <1>1, <1>2, <1>3, <1>4, FrameKeepsBuried

\* A worker that is buried stays so.
LEMMA StepKeepsBuried ==
  ASSUME TypeOK, ExitInv, [Next]_vars, NEW w \in Workers, Buried(w)
  PROVE  Buried(w)'
<1>1. CASE CancelTask \/ UNCHANGED vars
  <2>1. UNCHANGED <<mpc, phase, handled, received, pc, responseBus>>
    BY <1>1 DEF CancelTask, Cancel, vars, poolVars, busVars, flagVars, managerVars,
                managerCtl, ownVars
  <2>2. QED
    BY <2>1, FrameKeepsBuried, FrameKeepsAttended DEF Buried
<1>2. QED
  BY <1>1, Steps, WorkerKeepsBuried, ManagerKeepsBuried, ClientKeepsBuried

\* A process that is killed while it holds something is not started again.
LEMMA CrashBuries ==
  ASSUME TypeOK, ExitInv, NEW w \in Workers, Crash(w), ProcessStep(w),
         ~(pc[w] \in Past /\ outbox[w] = <<>>)
  PROVE  Buried(w)'
<1>1. /\ UNCHANGED <<mpc, phase, handled, received, responseBus>>
      /\ pc'[w] = "died"
  BY DEF ProcessStep, MainUnchanged, managerVars, managerCtl, Crash, Goto, busVars, TypeOK,
         ProcessStateTypeOK, PoolStateTypeOK
<1>2. ~(Attending /\ Attended = w)
  BY DEF ExitInv, ExitsListed, Over
<1>3. phase # "halt" =>
        \A i \in DOMAIN responseBus : Exits(responseBus[i]) => responseBus[i].worker # w
  BY DEF ExitInv, ExitsListed, EndsListed, Over
<1>4. QED
  BY <1>1, <1>2, <1>3 DEF Buried, Attending, Attended, Restarting, Handling

OnBus(t) == \E i \in DOMAIN taskBus : taskBus[i] = t

\* A task is somewhere when it waits on the bus or is held,
LEMMA SomewhereIsHeld ==
  TypeOK /\ TaskInv => \A t \in Tasks : Somewhere(t) <=> OnBus(t) \/ HeldNow(t)
<1> SUFFICES ASSUME TypeOK, TaskInv, NEW t \in Tasks
             PROVE  Somewhere(t) <=> OnBus(t) \/ HeldNow(t)
  OBVIOUS
<1>1. Waiting(t) # {} <=> OnBus(t)
  BY DEF Waiting, OnBus
<1>2. InProgress(t) <=> BeingRun(t) # {} \/ Answering(t) # {} \/ Leaving(t) # {}
                        \/ Reported(t) # {} \/ Taken(t) # {}
  BY DEF InProgress
<1>3. Somewhere(t) <=> Waiting(t) # {} \/ BeingRun(t) # {} \/ Answering(t) # {}
                       \/ Leaving(t) # {} \/ Reported(t) # {} \/ Taken(t) # {}
  <2>1. \A i \in 1 .. 6 : i = 1 \/ i = 2 \/ i = 3 \/ i = 4 \/ i = 5 \/ i = 6
    OBVIOUS
  <2>2. /\ Places(t)[1] = Waiting(t) /\ Places(t)[2] = BeingRun(t)
        /\ Places(t)[3] = Answering(t) /\ Places(t)[4] = Leaving(t)
        /\ Places(t)[5] = Reported(t) /\ Places(t)[6] = Taken(t)
    BY DEF Places
  <2>3. QED
    BY <2>1, <2>2 DEF Somewhere
<1>4. QED
  BY <1>1, <1>2, <1>3, InProgressIsHeld

\* One task keeps its place, its future is no longer pending, or it is lost.
Safe(t) ==
  future[t] = "pending" =>
    \/ OnBus(t) \/ HeldNow(t) \/ \E w \in Workers : Buried(w)
    \/ Unsendable # {} \/ t \in Unloadable \/ "exit" \in Outcomes
    \/ mpc = "killed" /\ InHand(t)

\* PendingInv, task by task,
LEMMA PendingIsSafe == TypeOK /\ TaskInv => (PendingInv <=> \A t \in Tasks : Safe(t))
  BY SomewhereIsHeld DEF PendingInv, Safe

\* also in the next state.
LEMMA PendingIsSafeNext ==
  (TypeOK /\ TaskInv)' => (PendingInv <=> \A t \in Tasks : Safe(t))'
  BY PendingIsSafe, PTL

\* A worker loses no task that is pending, but with its process.
LEMMA WorkerKeepsSafe ==
  ASSUME TypeOK, ExitInv, TaskInv, [Next]_vars, NEW w \in Workers, ProcessStep(w),
         NEW t \in Tasks, Safe(t)
  PROVE  Safe(t)'
<1>1. \A v \in Workers : Buried(v) => Buried(v)'
  BY StepKeepsBuried
<1>2. UNCHANGED <<mpc, received, future>> /\ (~GetTask(w) => UNCHANGED taskBus)
  BY WorkerFrame
<1>3. mpc = "killed" /\ InHand(t) => (mpc = "killed" /\ InHand(t))'
  BY <1>2 DEF InHand
<1>4. CASE GetTask(w)
  <2>1. /\ taskBus # <<>> /\ taskBus' = Tail(taskBus) /\ taskBus \in Seq(Tasks)
        /\ Replies' = Replies
    <3>1. ~SendAnswer(w)
      BY <1>4 DEF GetTask, SendAnswer
    <3>2. QED
      BY <1>4, <3>1, WorkerReplies DEF GetTask, TypeOK, ProcessStateTypeOK, PoolStateTypeOK
  <2>2. HeldNow(t)' <=> HeldNow(t) \/ t = Head(taskBus)
    BY <1>4, <2>1, TakeHolds DEF ExitInv
  <2>3. OnBus(t) => t = Head(taskBus) \/ OnBus(t)'
    <3>1. /\ Head(taskBus) = taskBus[1]
          /\ \A i \in DOMAIN taskBus : i # 1 =>
               i - 1 \in DOMAIN Tail(taskBus) /\ taskBus[i] = Tail(taskBus)[i - 1]
      BY <2>1, TailFacts
    <3>2. QED
      BY <2>1, <3>1 DEF OnBus
  <2>4. QED
    BY <1>1, <1>2, <1>3, <2>1, <2>2, <2>3 DEF Safe
<1>5. CASE ~GetTask(w)
  <2>1. OnBus(t) => OnBus(t)'
    BY <1>2, <1>5 DEF OnBus
  <2>2. HeldNow(t) => \/ HeldNow(t)' \/ "exit" \in Outcomes \/ Unsendable # {}
                      \/ Crash(w) /\ ~(pc[w] \in Past /\ outbox[w] = <<>>)
    BY <1>5, WorkerHolds DEF ExitInv
  <2>3. Crash(w) /\ ~(pc[w] \in Past /\ outbox[w] = <<>>) => Buried(w)'
    BY CrashBuries
  <2>4. QED
    BY <1>1, <1>2, <1>3, <2>1, <2>2, <2>3 DEF Safe
<1>6. QED
  BY <1>4, <1>5

\* A manager that was killed does nothing more.
LEMMA KilledIsLast == ExitInv /\ ManagerSteps => mpc # "killed"
<1> SUFFICES ASSUME ExitInv, ManagerSteps PROVE mpc # "killed"
  OBVIOUS
<1>1. CASE OtherSteps
  BY <1>1, OtherFrame DEF Idle
<1>2. CASE GetAnswer \/ PopTask \/ SetFuture \/ ManagerKilled
  BY <1>2 DEF GetAnswer, PopTask, SetFuture, ManagerKilled, ManagerAlive
<1>3. QED
  BY <1>1, <1>2 DEF OtherSteps

\* The manager loses none, unless it is killed over its answer.
LEMMA ManagerKeepsSafe ==
  ASSUME TypeOK, ExitInv, TaskInv, [Next]_vars, ManagerSteps, NEW t \in Tasks, Safe(t)
  PROVE  Safe(t)'
<1>1. \A v \in Workers : Buried(v) => Buried(v)'
  BY StepKeepsBuried
<1>2. /\ UNCHANGED <<taskBus, task, response, outbox>> /\ mpc # "killed"
      /\ Answers \/ UNCHANGED <<Replies, Known, future>>
  BY ManagerAnswers, KilledIsLast
<1>3. OnBus(t)' <=> OnBus(t)
  BY <1>2 DEF OnBus
<1>4. CASE Answers
  <2> DEFINE r == Head(Replies)
             s == Ended(r)
  <2>1. HeldTasks' = HeldTasks \ {s}
    BY <1>2, <1>4, AnswerHolds
  <2>2. HeldNow(t)' <=> HeldNow(t) /\ t # s
    BY <2>1 DEF HeldTasks
  <2>3. Settles(s) \/ Drops(r) \/ DiesOver(s)
    BY <1>4 DEF Answers
  <2>4. /\ future \in [Tasks -> FutureStates] /\ t # NoTask
        /\ s = t => r.task = t
    BY PoolStateAssumption DEF TypeOK, ProcessStateTypeOK, PoolStateTypeOK, Ended
  <2>5. CannotLoad(r) /\ s = t => t \in Unloadable
    BY <2>4 DEF CannotLoad
  <2> HIDE DEF r, s
  <2>6. CASE Settles(s)
    <3>1. future'[t] = "pending" => future[t] = "pending" /\ t # s
      BY <2>4, <2>6 DEF Settles
    <3>2. QED
      BY <1>1, <1>2, <1>3, <2>2, <3>1 DEF Safe
  <2>7. CASE Drops(r)
    <3>1. UNCHANGED future /\ (t = s => t \in Unloadable)
      BY <2>4, <2>5, <2>7 DEF Drops, s
    <3>2. QED
      BY <1>1, <1>2, <1>3, <2>2, <3>1 DEF Safe
  <2>8. CASE DiesOver(s)
    <3>1. UNCHANGED future /\ mpc' = "killed" /\ (t = s => InHand(t)')
      <4>1. /\ UNCHANGED future /\ mpc' = "killed" /\ Reports(received', s)
            /\ future[s] \in {"pending", "cancelled"}
        BY <2>8 DEF DiesOver
      <4>2. QED
        BY <4>1 DEF InHand
    <3>2. QED
      BY <1>1, <1>2, <1>3, <2>2, <3>1 DEF Safe
  <2>9. QED
    BY <2>3, <2>6, <2>7, <2>8
<1>5. CASE UNCHANGED <<Replies, Known, future>>
  <2>1. HeldNow(t)' <=> HeldNow(t)
    BY <1>2, <1>5 DEF HeldNow
  <2>2. QED
    BY <1>1, <1>2, <1>3, <1>5, <2>1 DEF Safe
<1>6. QED
  BY <1>2, <1>4, <1>5

\* A future that somebody else rejects or cancels is not the loss of a task.
LEMMA OthersKeepSafe ==
  ASSUME TypeOK, ExitInv, [Next]_vars, NEW t \in Tasks, Safe(t),
         UNCHANGED <<Replies, task, response, outbox, received>>,
         (UNCHANGED mpc) \/ mpc = "unborn", OnBus(t) => OnBus(t)',
         future'[t] = "pending" => future[t] = "pending" \/ OnBus(t)'
  PROVE  Safe(t)'
<1>1. \A v \in Workers : Buried(v) => Buried(v)'
  BY StepKeepsBuried
<1>2. HeldNow(t)' <=> HeldNow(t)
  BY DEF HeldNow
<1>3. future'[t] = "pending" /\ mpc = "killed" /\ InHand(t) => (mpc = "killed" /\ InHand(t))'
  BY DEF InHand
<1>4. QED
  BY <1>1, <1>2, <1>3 DEF Safe

\* Nor does a client lose one.
LEMMA ClientKeepsSafe ==
  ASSUME TypeOK, ExitInv, TaskInv, [Next]_vars, NEW c \in Clients, CallSteps(c),
         NEW t \in Tasks, Safe(t)
  PROVE  Safe(t)'
<1>1. /\ UNCHANGED <<task, response, outbox, received>> /\ UNCHANGED workerLocals
      /\ UNCHANGED mpc \/ mpc = "unborn"
  BY ClientKeepsHand DEF Start
<1>2. /\ future \in [Tasks -> FutureStates] /\ taskBus \in Seq(Tasks)
  BY DEF TypeOK, ProcessStateTypeOK, PoolStateTypeOK
<1>3. CASE PutTask(c)
  <2> DEFINE s == cTask[c]
  <2>1. /\ s \in Tasks /\ future' = [future EXCEPT ![s] = "pending"]
        /\ taskBus' = Append(taskBus, s) /\ UNCHANGED Replies
    BY <1>1, <1>3, PutKeepsTaskInv DEF PutTask, TaskInv, QueuedIsNew
  <2> HIDE DEF s
  <2>2. OnBus(t) \/ t = s => OnBus(t)'
    BY <1>2, <2>1, AppendFacts DEF OnBus
  <2>3. t # s => future'[t] = future[t]
    BY <1>2, <2>1
  <2>4. QED
    BY <1>1, <2>1, <2>2, <2>3, OthersKeepSafe
<1>4. CASE ~PutTask(c)
  <2>1. /\ UNCHANGED <<taskBus, Replies>>
        /\ future' = future \/ \E s \in Tasks : future' = [future EXCEPT ![s] = "rejected"]
    <3>1. CASE \E s \in Tasks : Submit(c, s)
      BY <1>1, <3>1, SubmitKeepsTaskInv DEF Submit, busVars
    <3>2. CASE ~(\E s \in Tasks : Submit(c, s))
      BY <1>4, <3>2, ClientKeepsTaskInv
    <3>3. QED
      BY <3>1, <3>2
  <2>2. future'[t] = "pending" => future[t] = "pending"
    BY <1>2, <2>1
  <2>3. OnBus(t)' <=> OnBus(t)
    BY <2>1 DEF OnBus
  <2>4. QED
    BY <1>1, <2>1, <2>2, <2>3, OthersKeepSafe
<1>5. QED
  BY <1>3, <1>4

\* Every step keeps PendingInv.
LEMMA StepKeepsPendingInv ==
  TypeOK /\ ExitInv /\ TaskInv /\ PendingInv /\ [Next]_vars => PendingInv'
<1> SUFFICES ASSUME TypeOK, ExitInv, TaskInv, PendingInv, [Next]_vars,
                    NEW t \in Tasks
             PROVE  Safe(t)'
  <2>1. (TypeOK /\ TaskInv /\ [Next]_vars /\ ExitInv) => (TypeOK /\ TaskInv)'
    BY StepKeepsType, StepKeepsTaskInv
  <2>2. QED
    BY <2>1, PendingIsSafeNext
<1>1. Safe(t)
  BY PendingIsSafe
<1>2. future \in [Tasks -> FutureStates]
  BY DEF TypeOK, ProcessStateTypeOK, PoolStateTypeOK
<1>3. CASE CancelTask
  <2>1. /\ UNCHANGED <<taskBus, Replies, task, response, outbox>>
        /\ \E s \in Tasks : future' = [future EXCEPT ![s] = "cancelled"]
    BY <1>3, CancelKeepsTaskInv
  <2>2. UNCHANGED <<mpc, received>>
    BY <1>3 DEF CancelTask, Cancel, managerVars, managerCtl, ownVars
  <2>3. future'[t] = "pending" => future[t] = "pending"
    BY <1>2, <2>1
  <2>4. OnBus(t)' <=> OnBus(t)
    BY <2>1 DEF OnBus
  <2>5. QED
    BY <1>1, <2>1, <2>2, <2>3, <2>4, OthersKeepSafe
<1>4. CASE UNCHANGED vars
  <2>1. UNCHANGED <<taskBus, responseBus, future, currTasks, task, response, outbox, mpc,
                    received>>
    BY <1>4 DEF vars, poolVars, busVars, workerLocals, tableVars, managerVars, managerCtl,
                ownVars
  <2>2. UNCHANGED Replies /\ (OnBus(t)' <=> OnBus(t))
    BY <2>1, FrameKeepsHeld DEF OnBus
  <2>3. QED
    BY <1>1, <2>1, <2>2, OthersKeepSafe
<1>5. QED
  BY <1>1, <1>3, <1>4, Steps, WorkerKeepsSafe, ManagerKeepsSafe, ClientKeepsSafe

(***************************************************************************)
(* A task that has been accepted and is not resolved is on the task bus,   *)
(* in the hands of a worker, in an answer or in the manager's hands,       *)
(* unless a process was killed, an answer could not be pickled or loaded,  *)
(* a function raised SystemExit, or terminate() killed the manager over    *)
(* its answer: no restart, no late answer and no race of submit() with the *)
(* end of the manager loses a task.                                        *)
(***************************************************************************)
THEOREM PendingTasksAreSomewhere == Spec => []PendingIsSomewhere
<1>1. Init => PendingInv
  BY DEF Init, ProcessStateInit, PoolStateInit, PendingInv
<1>2. PendingInv => PendingIsSomewhere
  BY DEF PendingInv, PendingIsSomewhere, AnswerLost, Buried
<1>3. QED
  BY <1>1, <1>2, StepKeepsPendingInv, TaskInvHolds, PTL DEF Spec

-----------------------------------------------------------------------------
(***************************************************************************)
(* One client: between the look at _curr_workers and the start of the      *)
(* workers found missing, nobody else adds any.                            *)
(***************************************************************************)
OneClient == Clients = {Owner}

Adding == {"spawn", "launch", "spin"}

\* adjust_worker_iterator stays within num_workers.
LEMMA WorkersToAddLimit ==
  ASSUME NumWorkers >= 0, NEW curr \in Nat, curr <= NumWorkers, NEW free \in Nat,
         NEW tasks \in Nat
  PROVE  curr + WorkersToAdd(NumWorkers, Incremental, curr, free, tasks) <= NumWorkers
  BY ThreadManagerAssumption DEF WorkersToAdd, RangeLength

\* Workers leave, and nobody adds any.
LEMMA FewerKeepRoom ==
  ASSUME TypeOK, RoomLeft, currWorkers' \subseteq currWorkers,
         \/ UNCHANGED <<cpc, cTasks>>
         \/ cpc[Owner] \in Adding /\ UNCHANGED cTasks
         \/ cpc'[Owner] \notin Adding
  PROVE  RoomLeft'
<1>1. /\ Cardinality(currWorkers) \in Nat /\ Cardinality(currWorkers') \in Nat
      /\ Cardinality(currWorkers') <= Cardinality(currWorkers)
      /\ cTasks[Owner] \in Nat /\ NumWorkers \in Int
  <2>1. currWorkers \in SUBSET Workers /\ cTasks[Owner] \in Nat /\ NumWorkers \in Int
    BY ThreadManagerAssumption DEF TypeOK, ProcessManagerTypeOK, TableTypeOK
  <2>2. IsFiniteSet(currWorkers) /\ IsFiniteSet(currWorkers')
    BY <2>1, WorkerSets, FS_Subset
  <2>3. QED
    BY <2>1, <2>2, FS_Subset, FS_CardinalityType
<1>2. cTasks' = cTasks \/ cpc'[Owner] \notin Adding
  OBVIOUS
<1>3. cpc'[Owner] \in Adding => cpc[Owner] \in Adding
  OBVIOUS
<1>4. QED
  BY <1>1, <1>2, <1>3 DEF RoomLeft, Adding

\* With one client, the workers it is about to add fit in.
LEMMA StepKeepsRoom ==
  OneClient /\ TypeOK /\ ExitInv /\ RoomLeft /\ [Next]_vars => RoomLeft'
<1> SUFFICES ASSUME OneClient, TypeOK, ExitInv, RoomLeft, [Next]_vars PROVE RoomLeft'
  OBVIOUS
<1>1. /\ cpc \in [Clients -> Labels] /\ cTasks \in [Clients -> Nat] /\ Owner \in Clients
      /\ cIdle \in [Clients -> Nat]
      /\ currWorkers \in SUBSET Workers /\ nextWorker \in Nat /\ NumWorkers \in Int
      /\ IsFiniteSet(currWorkers) /\ Cardinality(currWorkers) \in Nat
  BY ThreadManagerAssumption, WorkerSets
     DEF TypeOK, ProcessManagerTypeOK, TableTypeOK, Labels
<1>2. ASSUME NEW w \in Workers, ProcessStep(w)
      PROVE  RoomLeft'
  BY <1>2, FewerKeepRoom DEF ProcessStep, MainUnchanged, tableVars, clientVars
<1>3. CASE ManagerSteps
  <2>1. UNCHANGED <<cpc, cTasks>>
    BY <1>3 DEF ManagerSteps, clientVars
  <2>2. currWorkers' \subseteq currWorkers
    BY <1>3
       DEF ManagerSteps, ProcessManagerStep, BusEmpty, Drained, GetAnswer, PopTask,
           SetFuture, SetUnchanged, HandleAnswer, ClearRunning, JoinProcess, ForgetProcess,
           HaltUnchanged, RestartProcess, RestartWorker, RestartSeen, ManagerBoot,
           ManagerCheck, ManagerDown, IterationFails, CloseWorker, CloseDone, HaltWorker,
           ManagerEnd, ManagerIdleOut, ManagerKilled, tableVars
  <2>3. QED
    BY <2>1, <2>2, FewerKeepRoom
<1>4. CASE CancelTask \/ UNCHANGED vars
  BY <1>4, FewerKeepRoom DEF CancelTask, Cancel, vars, tableVars, clientVars
<1>5. CASE CallSteps(Owner)
  <2>1. CASE EnterWorker(Owner)
    <3>1. /\ cpc[Owner] = "spawn" /\ currWorkers' = currWorkers \cup {nextWorker}
          /\ cTasks[Owner] \in Nat /\ cTasks'[Owner] = cTasks[Owner] - 1
      BY <1>1, <2>1 DEF EnterWorker
    <3>2. nextWorker \notin currWorkers
      BY <1>1 DEF ExitInv, WorkersNumbered
    <3>3. Cardinality(currWorkers') = Cardinality(currWorkers) + 1
      BY <1>1, <3>1, <3>2, FS_AddElement
    <3>4. NumWorkers >= 0 => Cardinality(currWorkers) + cTasks[Owner] <= NumWorkers
      BY <3>1 DEF RoomLeft
    <3>5. cTasks[Owner] > 0
      BY <2>1 DEF EnterWorker
    <3>6. QED
      BY <1>1, <3>1, <3>3, <3>4, <3>5 DEF RoomLeft
  <2>2. CASE ScanDone(Owner)
    <3> DEFINE n == Cardinality(currWorkers)
               k == WorkersToAdd(NumWorkers, Incremental, n, cIdle[Owner], cTasks[Owner])
    <3>1. UNCHANGED currWorkers /\ cTasks'[Owner] = k
      BY <1>1, <2>2 DEF ScanDone, tableVars
    <3>2. NumWorkers >= 0 => n <= NumWorkers
      BY DEF RoomLeft
    <3>3. NumWorkers >= 0 => n + k <= NumWorkers
      BY <1>1, <3>2, WorkersToAddLimit
    <3>4. QED
      BY <3>1, <3>2, <3>3 DEF RoomLeft
  <2>3. CASE StopSteps(Owner) \/ (EndSubmit(Owner) /\ UNCHANGED tableVars)
    <3>1. UNCHANGED currWorkers
      BY <2>3, StopCallFacts, <1>1 DEF StopCallUnchanged, tableVars
    <3>2. cpc'[Owner] \notin Adding
      <4>1. CASE StopSteps(Owner)
        BY <1>1, <4>1, StopCallFacts DEF Adding
      <4>2. CASE EndSubmit(Owner)
        BY <1>1, <4>2 DEF EndSubmit, CGoto, Adding
      <4>3. QED
        BY <2>3, <4>1, <4>2
    <3>3. QED
      BY <3>1, <3>2, FewerKeepRoom
  <2>4. CASE ScanFails(Owner) \/ SubmitReturns(Owner) \/ (AdjustWorkers(Owner) /\ EnoughWorkers)
    BY <2>3, <2>4 DEF ScanFails, SubmitReturns, AdjustWorkers
  <2>5. CASE \/ PutTask(Owner) \/ LoadCount(Owner) \/ StoreCount(Owner) \/ ReadCount(Owner)
             \/ StartReturns(Owner) \/ (AdjustWorkers(Owner) /\ ~EnoughWorkers)
             \/ Start(Owner)
    <3>1. UNCHANGED currWorkers
      BY <2>5 DEF PutTask, LoadCount, StoreCount, ReadCount, StartReturns, AdjustWorkers,
                  Start, tableVars
    <3>2. cpc'[Owner] \notin Adding
      BY <1>1, <2>5 DEF PutTask, LoadCount, StoreCount, ReadCount, StartReturns,
                        AdjustWorkers, Start, CGoto, Adding
    <3>3. QED
      BY <3>1, <3>2, FewerKeepRoom
  <2>6. CASE LaunchWorker(Owner) \/ LaunchSeen(Owner)
    BY <2>6, FewerKeepRoom DEF LaunchWorker, LaunchSeen, tableVars, Adding
  <2>7. CASE ScanProcess(Owner)
    BY <2>7, FewerKeepRoom DEF ScanProcess, tableVars
  <2>8. ASSUME NEW t \in Tasks, Submit(Owner, t)
        PROVE  RoomLeft'
    <3>1. UNCHANGED <<currWorkers, cTasks>> /\ cpc'[Owner] \notin Adding
      BY <1>1, <2>8 DEF Submit, tableVars, CGoto, Adding
    <3>2. QED
      BY <3>1, FewerKeepRoom
  <2>9. QED
    BY <1>5, <2>1, <2>2, <2>3, <2>4, <2>5, <2>6, <2>7, <2>8
       DEF CallSteps, ProcessClientStep, ClientCall, StopSteps
<1>6. QED
  BY Steps, <1>2, <1>3, <1>4, <1>5 DEF OneClient

(***************************************************************************)
(* A manager with one client never keeps more than num_workers workers,    *)
(* however its counter of waiting tasks has drifted or wrapped, and        *)
(* whichever workers are restarted or leave meanwhile.                     *)
(***************************************************************************)
THEOREM WorkersAreLimited == Clients = {Owner} => (Spec => []WorkerLimit)
<1> SUFFICES ASSUME Clients = {Owner} PROVE Spec => []WorkerLimit
  OBVIOUS
<1>1. Init => RoomLeft
  <2> SUFFICES ASSUME Init PROVE RoomLeft
    OBVIOUS
  <2>1. Cardinality(currWorkers) = 0 /\ cpc[Owner] = "idle"
    BY FS_EmptySet, ThreadManagerAssumption
       DEF Init, ProcessManagerInit, ThreadManagerInit
  <2>2. QED
    BY <2>1, ThreadManagerAssumption DEF RoomLeft
<1>2. RoomLeft => WorkerLimit
  BY DEF RoomLeft, WorkerLimit
<1>3. TypeOK /\ ExitInv /\ RoomLeft /\ [Next]_vars => RoomLeft'
  BY StepKeepsRoom DEF OneClient
<1>4. QED
  BY <1>1, <1>2, <1>3, ExitInvHolds, PTL DEF Spec

-----------------------------------------------------------------------------
(***************************************************************************)
(* What the manager's thread dies of.                                      *)
(***************************************************************************)
LEMMA SoundFacts ==
  /\ Sound(None) <=> "exit" \in Outcomes
  /\ ~EndsTask(None)
  /\ \A t \in Tasks : \A w : \A o \in {"result", "exception"} :
       /\ Sound(AnswerTo(t, w, o))
       /\ AddFlag(AnswerTo(t, w, o), "RESTART").task # NoTask
  /\ \A flag, w : flag \cap {"DONE", "EXCEPTION"} = {} => ~EndsTask(Action(flag, NoTask, w))
  /\ \A r, w : ~EndsTask(r) => ~EndsTask(Action(r.flag, NoTask, w))
<1>1. \A t \in Tasks : \A w : \A o \in {"result", "exception"} :
        /\ AnswerTo(t, w, o).task = t /\ AnswerTo(t, w, o).flag # {}
        /\ AddFlag(AnswerTo(t, w, o), "RESTART").task = t
  BY DEF AnswerTo, Action, AddFlag
<1>2. None.flag = {} /\ None = None
  BY DEF None, Action
<1>3. \A t \in Tasks : \A w : \A o \in {"result", "exception"} : AnswerTo(t, w, o) # None
  BY <1>1, <1>2
<1>4. QED
  BY <1>1, <1>2, <1>3, PoolStateAssumption DEF Sound, EndsTask, Match, Action

\* A sound response may be put into a queue.
LEMMA PutSound ==
  ASSUME NEW bus, NEW boxes \in [Workers -> Seq(Responses)], AllSound(bus, boxes),
         NEW w \in Workers, NEW r \in Responses, Sound(r)
  PROVE  AllSound(bus, [boxes EXCEPT ![w] = Append(@, r)])
<1> DEFINE b == [boxes EXCEPT ![w] = Append(@, r)]
<1>1. boxes[w] \in Seq(Responses)
  OBVIOUS
<1>2. \A i \in DOMAIN Append(boxes[w], r) :
        (i \in DOMAIN boxes[w] /\ Append(boxes[w], r)[i] = boxes[w][i])
          \/ Append(boxes[w], r)[i] = r
  BY <1>1, AppendFacts
<1>3. b[w] = Append(boxes[w], r) /\ \A v \in Workers : v # w => b[v] = boxes[v]
  OBVIOUS
<1> HIDE DEF b
<1>4. \A v \in Workers : \A i \in DOMAIN b[v] : Sound(b[v][i])
  BY <1>2, <1>3 DEF AllSound
<1>5. QED
  BY <1>4 DEF AllSound, b

\* Responses that are taken or lost leave the others sound.
LEMMA DropSound ==
  ASSUME NEW bus, NEW boxes \in [Workers -> Seq(Responses)], AllSound(bus, boxes),
         NEW w \in Workers, NEW rest, rest = <<>> \/ (boxes[w] # <<>> /\ rest = Tail(boxes[w]))
  PROVE  AllSound(bus, [boxes EXCEPT ![w] = rest])
<1> DEFINE b == [boxes EXCEPT ![w] = rest]
<1>1. boxes[w] \in Seq(Responses)
  OBVIOUS
<1>2. \A i \in DOMAIN rest : \E j \in DOMAIN boxes[w] : rest[i] = boxes[w][j]
  <2>1. CASE rest = <<>>
    BY <2>1
  <2>2. CASE boxes[w] # <<>> /\ rest = Tail(boxes[w])
    BY <1>1, <2>2, TailFacts
  <2>3. QED
    BY <2>1, <2>2
<1>3. b[w] = rest /\ \A v \in Workers : v # w => b[v] = boxes[v]
  OBVIOUS
<1> HIDE DEF b
<1>4. \A v \in Workers : \A i \in DOMAIN b[v] : Sound(b[v][i])
  BY <1>2, <1>3 DEF AllSound
<1>5. QED
  BY <1>4 DEF AllSound, b

\* A worker puts sound answers on the bus, for it prepares such answers only.
LEMMA WorkerSaysSound ==
  ASSUME TypeOK, AnswersOK, HandsOK, AnswersSound, NEW w \in Workers, ProcessStep(w)
  PROVE  AllSound(responseBus', outbox')
<1>1. /\ outbox \in [Workers -> Seq(Responses)] /\ responseBus \in Seq(Responses)
      /\ response[w] \in Responses /\ AllSound(responseBus, outbox)
  BY DEF TypeOK, ProcessStateTypeOK, PoolStateTypeOK, ProcessWorkerTypeOK, AnswersSound
<1>2. CASE \/ TimeOut(w) \/ NoRequest(w) \/ CheckRunning(w) \/ GetEmpty(w)
           \/ LoadCounter(w) \/ StoreCounter(w) \/ BeginTask(w) \/ GetTask(w)
           \/ HandleRequest(w) \/ Boot(w) \/ EndProcess(w)
  <2>1. UNCHANGED <<outbox, responseBus>>
    BY <1>2 DEF TimeOut, NoRequest, CheckRunning, GetEmpty, LoadCounter, StoreCounter,
                BeginTask, GetTask, HandleRequest, Boot, EndProcess, busVars, workerLocals
  <2>2. QED
    BY <1>1, <2>1
<1>3. ASSUME NEW o \in Outcomes,
             \/ FinishAndContinue(w, o) \/ FinishAndRestart(w, o)
             \/ FinishAndFail(w, o) \/ FinishAndExit(w, o)
      PROVE  AllSound(responseBus', outbox')
  <2>1. o \in {"result", "exception", "exit"} /\ task[w] \in Tasks
        /\ responseBus' = responseBus
    BY <1>3, ProcessWorkerAssumption, HoldsOne
       DEF FinishAndContinue, FinishAndRestart, FinishAndFail, FinishAndExit, RunTask, busVars
  <2>2. \E r : /\ r \in Responses /\ Sound(r)
               /\ outbox' = outbox \/ outbox' = [outbox EXCEPT ![w] = Append(@, r)]
    <3>1. CASE FinishAndContinue(w, o)
      <4>1. o \in {"result", "exception"}
        BY <2>1, <3>1 DEF FinishAndContinue
      <4>2. AnswerTo(task[w], w, o) \in Responses /\ Sound(AnswerTo(task[w], w, o))
        BY <2>1, <4>1, ResponseFacts, SoundFacts
      <4>3. QED
        BY <3>1, <4>2 DEF FinishAndContinue
    <3>2. CASE FinishAndExit(w, o)
      <4>1. None \in Responses /\ Sound(None)
        BY <3>2, ResponseFacts, SoundFacts DEF FinishAndExit
      <4>2. QED
        BY <3>2, <4>1 DEF FinishAndExit
    <3>3. CASE FinishAndRestart(w, o) \/ FinishAndFail(w, o)
      <4>1. Action({"CLOSE"}, NoTask, w) \in Responses
        BY ResponseFacts DEF Flags
      <4>2. Sound(Action({"CLOSE"}, NoTask, w))
        BY DEF Sound, EndsTask, Match, Action, None
      <4>3. outbox' = outbox
        BY <3>3 DEF FinishAndRestart, FinishAndFail
      <4>4. QED
        BY <4>1, <4>2, <4>3
    <3>4. QED
      BY <1>3, <3>1, <3>2, <3>3
  <2>3. CASE outbox' = outbox
    BY <1>1, <2>1, <2>3
  <2>4. ASSUME NEW r \in Responses, Sound(r), outbox' = [outbox EXCEPT ![w] = Append(@, r)]
        PROVE  AllSound(responseBus', outbox')
    <3>1. AllSound(responseBus, [outbox EXCEPT ![w] = Append(@, r)])
      BY <1>1, <2>4, PutSound
    <3>2. QED
      BY <2>1, <2>4, <3>1
  <2>5. QED
    BY <2>2, <2>3, <2>4
<1>4. CASE Quit(w)
  <2>1. responseBus' = responseBus
    BY <1>4 DEF Quit, busVars
  <2>2. CASE response[w] = None
    <3>1. outbox' = outbox
      BY <1>1, <1>4, <2>2 DEF Quit
    <3>2. QED
      BY <1>1, <2>1, <3>1
  <2>3. CASE response[w] # None
    <3>1. outbox' = [outbox EXCEPT ![w] = Append(@, response[w])]
      BY <1>4, <2>3 DEF Quit
    <3>2. Sound(response[w])
      BY <2>3 DEF AnswersSound, Sound
    <3>3. QED
      BY <1>1, <2>1, <3>1, <3>2, PutSound
  <2>4. QED
    BY <2>2, <2>3
<1>5. CASE DropAnswer(w) \/ Crash(w)
  <2>1. /\ responseBus' = responseBus
        /\ \E rest : /\ outbox' = [outbox EXCEPT ![w] = rest]
                     /\ rest = <<>> \/ (outbox[w] # <<>> /\ rest = Tail(outbox[w]))
    BY <1>5 DEF DropAnswer, Crash, busVars
  <2>2. PICK rest : /\ outbox' = [outbox EXCEPT ![w] = rest]
                    /\ rest = <<>> \/ (outbox[w] # <<>> /\ rest = Tail(outbox[w]))
    BY <2>1
  <2>3. AllSound(responseBus, [outbox EXCEPT ![w] = rest])
    BY <1>1, <2>2, DropSound
  <2>4. QED
    BY <2>1, <2>2, <2>3
<1>6. CASE SendAnswer(w)
  <2> DEFINE r == Head(outbox[w])
             rest == Tail(outbox[w])
  <2>1. /\ outbox[w] # <<>> /\ responseBus' = Append(responseBus, r)
        /\ outbox' = [outbox EXCEPT ![w] = rest]
    BY <1>6 DEF SendAnswer
  <2>2. outbox[w] \in Seq(Responses)
    BY <1>1
  <2>3. r \in Responses /\ 1 \in DOMAIN outbox[w] /\ r = outbox[w][1]
    BY <2>1, <2>2, TailFacts
  <2>4. Sound(r)
    BY <1>1, <2>3 DEF AllSound
  <2>5. AllSound(responseBus, outbox')
    BY <1>1, <2>1, DropSound
  <2> HIDE DEF r
  <2>6. \A i \in DOMAIN Append(responseBus, r) :
          (i \in DOMAIN responseBus /\ Append(responseBus, r)[i] = responseBus[i])
            \/ Append(responseBus, r)[i] = r
    BY <1>1, <2>3, AppendFacts
  <2>7. QED
    BY <2>1, <2>4, <2>5, <2>6 DEF AllSound
<1>7. QED
  BY <1>2, <1>3, <1>4, <1>5, <1>6 DEF ProcessStep, WorkerStep, FeederStep

\* The answer a worker prepares, and the requests it leaves on its bus.
LEMMA WorkerPreparesSound ==
  ASSUME TypeOK, AnswersOK, HandsOK, AnswersSound, NEW w \in Workers, ProcessStep(w)
  PROVE  /\ \A v \in Workers : EndsTask(response'[v]) => response'[v].task # NoTask
         /\ \A v \in Workers : \A i \in DOMAIN requestBus'[v] : ~EndsTask(requestBus'[v][i])
<1>1. /\ response \in [Workers -> Responses]
      /\ requestBus \in [Workers -> Seq(Responses)]
      /\ requestBus[w] \in Seq(Responses)
  BY DEF TypeOK, ProcessStateTypeOK, PoolStateTypeOK, ProcessWorkerTypeOK
<1>2. CASE HandleRequest(w)
  <2> DEFINE request == Head(requestBus[w])
  <2>1. /\ requestBus[w] # <<>>
        /\ requestBus' = [requestBus EXCEPT ![w] = Tail(@)]
        /\ \/ response' = response
           \/ response' = [response EXCEPT ![w] = Action(request.flag, NoTask, w)]
    <3>1. response' = [response EXCEPT ![w] =
                         IF Match(request, {"CLOSE", "RESTART", "FATAL_ERROR"})
                         THEN Action(request.flag, NoTask, w) ELSE @]
      BY <1>2 DEF HandleRequest
    <3>2. QED
      BY <1>1, <1>2, <3>1 DEF HandleRequest
  <2>2. request = requestBus[w][1] /\ 1 \in DOMAIN requestBus[w]
    BY <1>1, <2>1, TailFacts
  <2>3. ~EndsTask(request)
    BY <2>2 DEF AnswersSound
  <2>4. ~EndsTask(Action(request.flag, NoTask, w))
    BY <2>3, SoundFacts
  <2> HIDE DEF request
  <2>5. \A v \in Workers : EndsTask(response'[v]) => response'[v].task # NoTask
    BY <1>1, <2>1, <2>4 DEF AnswersSound
  <2>6. \A i \in DOMAIN Tail(requestBus[w]) :
          \E j \in DOMAIN requestBus[w] : Tail(requestBus[w])[i] = requestBus[w][j]
    BY <1>1, <2>1, TailFacts
  <2>7. /\ requestBus'[w] = Tail(requestBus[w])
        /\ \A v \in Workers : v # w => requestBus'[v] = requestBus[v]
    BY <1>1, <2>1
  <2>8. \A i \in DOMAIN requestBus'[w] : ~EndsTask(requestBus'[w][i])
    BY <2>6, <2>7 DEF AnswersSound
  <2>9. \A v \in Workers : v # w => \A i \in DOMAIN requestBus'[v] : ~EndsTask(requestBus'[v][i])
    BY <2>7 DEF AnswersSound
  <2>10. QED
    BY <2>5, <2>8, <2>9
<1>3. CASE ~HandleRequest(w)
  <2>1. requestBus' = requestBus
    BY <1>3 DEF ProcessStep, WorkerStep, FeederStep, TimeOut, NoRequest, CheckRunning,
                GetEmpty, LoadCounter, StoreCounter, BeginTask, GetTask, Boot, EndProcess,
                FinishAndContinue, FinishAndRestart, FinishAndFail, FinishAndExit, RunTask,
                Quit, SendAnswer, DropAnswer, Crash, busVars
  <2>2. ~EndsTask(None)
    BY SoundFacts
  <2>3. \/ response' = response
        \/ \E r : /\ response' = [response EXCEPT ![w] = r]
                  /\ EndsTask(r) => r.task # NoTask
    <3>1. CASE \/ NoRequest(w) \/ CheckRunning(w) \/ GetEmpty(w) \/ GetTask(w)
               \/ LoadCounter(w) \/ StoreCounter(w) \/ BeginTask(w) \/ EndProcess(w)
               \/ SendAnswer(w) \/ DropAnswer(w)
      BY <3>1 DEF NoRequest, CheckRunning, GetEmpty, LoadCounter, StoreCounter,
                  BeginTask, GetTask, EndProcess, SendAnswer, DropAnswer, workerLocals
    <3>2. CASE Quit(w) \/ Crash(w) \/ Boot(w)
      BY <2>2, <3>2 DEF Quit, Crash, Boot
    <3>3. CASE TimeOut(w)
      BY <3>3, SoundFacts DEF TimeOut
    <3>4. ASSUME NEW o \in Outcomes,
                 \/ FinishAndContinue(w, o) \/ FinishAndRestart(w, o)
                 \/ FinishAndFail(w, o) \/ FinishAndExit(w, o)
          PROVE  \/ response' = response
                 \/ \E r : /\ response' = [response EXCEPT ![w] = r]
                           /\ EndsTask(r) => r.task # NoTask
      <4>1. o \in {"result", "exception", "exit"} /\ task[w] \in Tasks
        BY <3>4, ProcessWorkerAssumption, HoldsOne
           DEF FinishAndContinue, FinishAndRestart, FinishAndFail, FinishAndExit, RunTask
      <4>2. CASE FinishAndContinue(w, o) \/ FinishAndExit(w, o)
        BY <2>2, <4>2 DEF FinishAndContinue, FinishAndExit
      <4>3. CASE FinishAndFail(w, o)
        BY <4>3, SoundFacts DEF FinishAndFail
      <4>4. CASE FinishAndRestart(w, o)
        BY <4>1, <4>4, SoundFacts DEF FinishAndRestart
      <4>5. QED
        BY <3>4, <4>2, <4>3, <4>4
    <3>5. QED
      BY <1>3, <3>1, <3>2, <3>3, <3>4 DEF ProcessStep, WorkerStep, FeederStep
  <2>4. QED
    BY <1>1, <2>1, <2>3 DEF AnswersSound
<1>4. QED
  BY <1>2, <1>3

\* Every step keeps the responses sound.
LEMMA StepKeepsSound ==
  TypeOK /\ ExitInv /\ TaskInv /\ AnswersSound /\ [Next]_vars => AnswersSound'
<1> SUFFICES ASSUME TypeOK, ExitInv, TaskInv, AnswersSound, [Next]_vars
             PROVE  AnswersSound'
  OBVIOUS
<1>1. /\ responseBus \in Seq(Responses) /\ requestBus \in [Workers -> Seq(Responses)]
      /\ todo \in SUBSET Workers
  BY DEF TypeOK, ProcessStateTypeOK, PoolStateTypeOK, ProcessManagerTypeOK
<1>2. ASSUME NEW w \in Workers, ProcessStep(w)
      PROVE  AnswersSound'
  <2>1. /\ AllSound(responseBus', outbox')
        /\ \A v \in Workers : EndsTask(response'[v]) => response'[v].task # NoTask
        /\ \A v \in Workers : \A i \in DOMAIN requestBus'[v] : ~EndsTask(requestBus'[v][i])
    BY <1>2, WorkerSaysSound, WorkerPreparesSound DEF ExitInv, TaskInv
  <2>2. UNCHANGED <<mpc, received>>
    BY <1>2, WorkerFrame
  <2>3. QED
    BY <2>1, <2>2 DEF AnswersSound, AllSound, Handling
<1>3. CASE GetAnswer /\ UNCHANGED workerLocals
  <2>1. /\ UNCHANGED <<outbox, response, requestBus>>
        /\ responseBus # <<>> /\ responseBus' = Tail(responseBus)
        /\ mpc' = "dead" \/ (mpc' = "pop" /\ received' = Head(responseBus))
    BY <1>3 DEF GetAnswer, workerLocals, Die
  <2>2. /\ Head(responseBus) = responseBus[1] /\ 1 \in DOMAIN responseBus
        /\ \A i \in DOMAIN Tail(responseBus) : \E j \in DOMAIN responseBus :
             Tail(responseBus)[i] = responseBus[j]
    BY <1>1, <2>1, TailFacts
  <2>3. Handling' => Sound(received)'
    BY <2>1, <2>2 DEF AnswersSound, AllSound, Handling
  <2>4. QED
    BY <2>1, <2>2, <2>3 DEF AnswersSound, AllSound
<1>4. CASE CloseWorker /\ UNCHANGED workerLocals
  <2> DEFINE w == Min(todo)
             r == Action({"CLOSE"}, NoTask, NoWorker)
  <2>1. /\ UNCHANGED <<outbox, response, responseBus>> /\ todo # {}
        /\ requestBus' = [requestBus EXCEPT ![w] = Append(@, r)]
    BY <1>4 DEF CloseWorker, workerLocals
  <2>2. w \in Workers
    BY <1>1, <2>1, MinInSet, WorkerSets
  <2>3. r \in Responses /\ ~EndsTask(r)
    BY ResponseFacts, SoundFacts DEF Flags
  <2> HIDE DEF w, r
  <2>4. requestBus[w] \in Seq(Responses)
    BY <1>1, <2>2
  <2>5. \A i \in DOMAIN Append(requestBus[w], r) :
          (i \in DOMAIN requestBus[w] /\ Append(requestBus[w], r)[i] = requestBus[w][i])
            \/ Append(requestBus[w], r)[i] = r
    BY <2>3, <2>4, AppendFacts
  <2>6. /\ requestBus'[w] = Append(requestBus[w], r)
        /\ \A v \in Workers : v # w => requestBus'[v] = requestBus[v]
    BY <1>1, <2>1, <2>2
  <2>7. \A v \in Workers : \A i \in DOMAIN requestBus'[v] : ~EndsTask(requestBus'[v][i])
    BY <2>3, <2>5, <2>6 DEF AnswersSound
  <2>8. ~Handling'
    BY <1>4 DEF CloseWorker, Handling
  <2>9. QED
    BY <2>1, <2>7, <2>8 DEF AnswersSound, AllSound
<1>5. ASSUME UNCHANGED <<responseBus, requestBus, outbox, response>>,
             Handling' => Sound(received')
      PROVE  AnswersSound'
  BY <1>5 DEF AnswersSound, AllSound
<1>6. CASE ManagerSteps
  <2>1. UNCHANGED workerLocals
    BY <1>6 DEF ManagerSteps
  <2>2. CASE ~GetAnswer /\ ~CloseWorker
    <3>1. UNCHANGED <<responseBus, requestBus, outbox, response>>
      BY <1>6, <2>2
         DEF ManagerSteps, ProcessManagerStep, BusEmpty, Drained, PopTask, SetFuture,
             SetUnchanged, HandleAnswer, ClearRunning, JoinProcess, ForgetProcess, HaltUnchanged, RestartProcess, RestartWorker, RestartSeen,
             ManagerBoot, ManagerCheck, ManagerDown, IterationFails, CloseDone,
             HaltWorker, ManagerEnd, ManagerIdleOut, ManagerKilled, poolVars, busVars,
             workerLocals
    <3>2. Handling' => Handling /\ received' = received
      <4>1. CASE PopTask \/ SetFuture
        BY <4>1, PopAnswers, SetAnswers DEF PopTask, SetFuture, Handling
      <4>2. CASE ManagerKilled \/ (OtherSteps /\ ~HandleAnswer)
        BY <4>2, OtherFrame DEF ManagerKilled, Idle, Handling
      <4>3. CASE HandleAnswer
        BY <4>3 DEF HandleAnswer, AfterConsume, Die, Handling
      <4>4. QED
        BY <1>6, <2>2, <4>1, <4>2, <4>3 DEF OtherSteps
    <3>3. QED
      BY <1>5, <3>1, <3>2 DEF AnswersSound
  <2>3. QED
    BY <1>3, <1>4, <2>1, <2>2
<1>7. ASSUME NEW c \in Clients, CallSteps(c)
      PROVE  AnswersSound'
  <2>1. UNCHANGED <<responseBus, requestBus, outbox, response>>
    <3>1. CASE StopSteps(c)
      BY <1>7, <3>1, StopCallFacts
         DEF CallSteps, StopCallUnchanged, poolVars, busVars, workerLocals
    <3>2. CASE ~StopSteps(c)
      BY <1>7, <3>2
         DEF CallSteps, ProcessClientStep, ClientCall, StopSteps, PutTask, LoadCount,
             StoreCount, ReadCount, ScanProcess, EnterWorker, LaunchWorker, LaunchSeen,
             StartReturns, AdjustWorkers, ScanFails, ScanDone, SubmitReturns, Start, Submit,
             poolVars, busVars, workerLocals
    <3>3. QED
      BY <3>1, <3>2
  <2>2. UNCHANGED received /\ (UNCHANGED mpc \/ mpc' = "boot")
    BY <1>7, ClientKeepsHand DEF Start
  <2>3. QED
    BY <1>5, <2>1, <2>2 DEF AnswersSound, Handling
<1>8. CASE CancelTask \/ UNCHANGED vars
  <2>1. UNCHANGED <<responseBus, requestBus, outbox, response, mpc, received>>
    BY <1>8 DEF CancelTask, Cancel, vars, poolVars, busVars, workerLocals, managerVars,
                managerCtl, ownVars
  <2>2. QED
    BY <1>5, <2>1 DEF AnswersSound, Handling
<1>9. QED
  BY Steps, <1>2, <1>6, <1>7, <1>8


-----------------------------------------------------------------------------
(***************************************************************************)
(* One client, and a manager that does not give up: behind the loop of the *)
(* manager nobody adds a task or a worker, and _stop_all_workers goes over *)
(* all of them.                                                            *)
(***************************************************************************)
QuietRest ==
  /\ currTasks = {}
  /\ todo \subseteq currWorkers /\ todoSize = Cardinality(currWorkers)
  /\ mpc \in {"stop1", "join", "stopped"} => handled \in currWorkers \ todo
  /\ mpc \in Halting => \A w \in currWorkers \ todo : Halted(w) => ~ThreadAlive(w)
  /\ mpc = "ended" => todo = {}

\* QuietEnd in parts,
LEMMA QuietParts ==
  QuietEnd <=> /\ ~mRunning => cpc[Owner] \notin Submitting
               /\ mpc = "down" \/ phase # "loop" => ~mRunning
               /\ \A w \in Workers : ThreadAlive(w) => thread[w]
               /\ phase = "halt" => QuietRest
  BY DEF QuietEnd, QuietRest

\* also in the next state.
LEMMA QuietPartsNext ==
  (QuietEnd <=> /\ ~mRunning => cpc[Owner] \notin Submitting
                /\ mpc = "down" \/ phase # "loop" => ~mRunning
                /\ \A w \in Workers : ThreadAlive(w) => thread[w]
                /\ phase = "halt" => QuietRest)'
  BY DEF QuietEnd, QuietRest

\* Nothing happens to the manager; workers may end.
LEMMA FrameKeepsQuiet ==
  ASSUME TypeOK, QuietEnd, UNCHANGED <<managerCtl, currTasks, currWorkers, thread>>,
         \A v \in Workers : pc'[v] \notin {"unborn", "ended", "died"} => ThreadAlive(v),
         mRunning' => mRunning,
         ~mRunning' => cpc'[Owner] \notin Submitting
  PROVE  QuietEnd'
<1>1. /\ mpc' = mpc /\ phase' = phase /\ todo' = todo /\ todoSize' = todoSize
      /\ handled' = handled /\ currTasks' = currTasks /\ currWorkers' = currWorkers
  BY DEF managerCtl
<1>2. \A w \in Workers : ThreadAlive(w)' => ThreadAlive(w)
  BY DEF ThreadAlive
<1>3. \A w \in Workers : ThreadAlive(w)' => thread'[w]
  BY <1>2 DEF QuietEnd
<1>4. phase = "halt" => QuietRest'
  <2> SUFFICES ASSUME phase = "halt" PROVE QuietRest'
    OBVIOUS
  <2>1. QuietRest
    BY DEF QuietEnd, QuietRest
  <2>2. \A w \in currWorkers \ todo : Halted(w)' => Halted(w)
    BY <1>1 DEF Halted
  <2>3. mpc \in Halting => \A w \in currWorkers \ todo : Halted(w)' => ~ThreadAlive(w)'
    <3>1. \A w \in Workers : ~ThreadAlive(w) => ~ThreadAlive(w)'
      BY <1>2
    <3>2. currWorkers \in SUBSET Workers
      BY DEF TypeOK, ProcessManagerTypeOK, TableTypeOK
    <3>3. QED
      BY <2>1, <2>2, <3>1, <3>2 DEF QuietRest
  <2>4. QED
    BY <1>1, <2>1, <2>3 DEF QuietRest
<1>5. QED
  BY <1>1, <1>3, <1>4, QuietPartsNext DEF QuietEnd

\* A worker's step disturbs nothing of it.
LEMMA WorkerKeepsQuiet ==
  ASSUME TypeOK, ExitInv, QuietEnd, NEW w \in Workers, ProcessStep(w)
  PROVE  QuietEnd'
<1>1. ThreadAlive(w) /\ thread' = thread
  BY WorkerKinds DEF ExitInv
<1>2. UNCHANGED pc \/ \E label : pc' = [pc EXCEPT ![w] = label]
  BY WorkerKinds DEF ExitInv, GoesOn, Leaves, Ends, Feeds
<1>3. \A v \in Workers : pc'[v] \notin {"unborn", "ended", "died"} => ThreadAlive(v)
  <2>1. DOMAIN pc = Workers
    BY DEF TypeOK, ProcessStateTypeOK, PoolStateTypeOK
  <2>2. \A v \in Workers : v # w => pc'[v] = pc[v]
    BY <1>2, <2>1
  <2>3. QED
    BY <1>1, <2>2 DEF ThreadAlive
<1>4. UNCHANGED <<managerCtl, currTasks, currWorkers, cpc, mRunning>>
  BY DEF ProcessStep, MainUnchanged, tableVars, managerVars, clientVars
<1>5. QED
  BY <1>1, <1>3, <1>4, FrameKeepsQuiet DEF QuietEnd

\* Nor does a call of the only client.
LEMMA ClientKeepsQuiet ==
  ASSUME TypeOK, ExitInv, QuietEnd, CallSteps(Owner)
  PROVE  QuietEnd'
<1>1. /\ cpc \in [Clients -> Labels] /\ Owner \in Clients
      /\ thread \in [Workers -> BOOLEAN] /\ DOMAIN pc = Workers
  BY ThreadManagerAssumption
     DEF TypeOK, ProcessStateTypeOK, PoolStateTypeOK, ProcessManagerTypeOK, Labels
<1>2. CASE StopSteps(Owner)
  <2>1. /\ UNCHANGED <<managerCtl, currTasks, currWorkers, thread, pc>>
        /\ mRunning' => mRunning
    BY <1>2, <1>1, StopCallFacts
       DEF StopCallUnchanged, poolVars, flagVars, tableVars
  <2>2. cpc'[Owner] \notin Submitting
    BY <1>1, <1>2, StopCallFacts DEF Submitting
  <2>3. QED
    BY <2>1, <2>2, FrameKeepsQuiet DEF ThreadAlive
<1>3. CASE Start(Owner)
  <2>1. /\ UNCHANGED <<phase, thread, pc, mRunning>> /\ mpc' = "boot" /\ mpc = "unborn"
        /\ cpc'[Owner] = "starting"
    BY <1>1, <1>3 DEF Start, CGoto, poolVars, flagVars
  <2>2. phase = "loop"
    BY <2>1 DEF ExitInv, PhaseOK
  <2>3. QED
    BY <2>1, <2>2 DEF QuietEnd, Submitting, ThreadAlive
<1>4. CASE StartReturns(Owner)
  <2>1. /\ UNCHANGED <<managerCtl, currTasks, currWorkers, thread, pc, mRunning>>
        /\ cpc'[Owner] = "idle"
    BY <1>1, <1>4 DEF StartReturns, CGoto, poolVars, flagVars, tableVars, managerVars
  <2>2. QED
    BY <2>1, FrameKeepsQuiet DEF Submitting, ThreadAlive
<1>5. ASSUME NEW t \in Tasks, Submit(Owner, t)
      PROVE  QuietEnd'
  <2>1. /\ UNCHANGED <<managerCtl, currTasks, currWorkers, thread, pc, mRunning>>
        /\ mRunning \/ cpc' = cpc
    BY <1>5 DEF Submit, flagVars, tableVars, managerVars
  <2>2. QED
    BY <2>1, FrameKeepsQuiet DEF QuietEnd, ThreadAlive
<1>6. CASE cpc[Owner] \in Submitting /\ UNCHANGED managerVars
  <2>1. mRunning /\ phase = "loop" /\ mpc # "down"
    BY <1>6 DEF QuietEnd
  <2>2. mRunning' /\ phase' = "loop" /\ mpc' # "down"
    BY <1>6, <2>1 DEF managerVars, managerCtl
  <2>3. \A w \in Workers : ThreadAlive(w)' => thread'[w]
    <3>1. CASE LaunchWorker(Owner)
      BY <1>1, <3>1 DEF LaunchWorker, StartThread, QuietEnd, ThreadAlive
    <3>2. CASE ~LaunchWorker(Owner)
      <4>1. UNCHANGED <<pc, thread>>
        <5>1. CASE StopSteps(Owner)
          BY <5>1, <1>1, StopCallFacts DEF StopCallUnchanged, poolVars, flagVars
        <5>2. CASE ~StopSteps(Owner)
          BY <3>2, <5>2
             DEF CallSteps, ProcessClientStep, ClientCall, StopSteps, PutTask, LoadCount,
                 StoreCount, ReadCount, ScanProcess, EnterWorker, LaunchSeen,
                 StartReturns, AdjustWorkers, ScanFails, ScanDone, SubmitReturns, Start,
                 Submit, poolVars, flagVars
        <5>3. QED
          BY <5>1, <5>2
      <4>2. QED
        BY <4>1 DEF QuietEnd, ThreadAlive
    <3>3. QED
      BY <3>1, <3>2
  <2>4. QED
    BY <2>2, <2>3, QuietPartsNext
<1>7. CASE \/ PutTask(Owner) \/ LoadCount(Owner) \/ StoreCount(Owner) \/ ReadCount(Owner)
           \/ ScanProcess(Owner) \/ EnterWorker(Owner) \/ LaunchWorker(Owner)
           \/ LaunchSeen(Owner) \/ AdjustWorkers(Owner) \/ ScanFails(Owner)
           \/ ScanDone(Owner) \/ SubmitReturns(Owner)
  <2>1. UNCHANGED managerVars
    BY <1>7 DEF PutTask, LoadCount, StoreCount, ReadCount, ScanProcess, EnterWorker,
                LaunchWorker, LaunchSeen, AdjustWorkers, ScanFails, ScanDone, SubmitReturns
  <2>2. cpc[Owner] \in Submitting
    BY <1>7 DEF PutTask, LoadCount, StoreCount, ReadCount, ScanProcess, EnterWorker,
                LaunchWorker, LaunchSeen, AdjustWorkers, ScanFails, ScanDone, SubmitReturns,
                Submitting
  <2>3. QED
    BY <1>6, <2>1, <2>2
<1>8. QED
  BY <1>2, <1>3, <1>4, <1>5, <1>7
     DEF CallSteps, ProcessClientStep, ClientCall, StopSteps

\* worker.stop(), in _stop_all_workers and of a worker to be started again.
LEMMA StopKeepsQuiet ==
  ASSUME TypeOK, ExitInv, QuietEnd, ClearRunning \/ JoinProcess \/ ForgetProcess,
         UNCHANGED clientVars
  PROVE  QuietEnd'
<1>1. /\ UNCHANGED <<mRunning, cpc, phase, currTasks, currWorkers, todo, todoSize, handled, pc>>
      /\ mpc \in {"stop1", "join", "stopped"} /\ handled \in Workers
      /\ mpc' \in {"join", "stopped", "halt", "start"}
      /\ mpc' = "start" => phase # "halt"
  BY DEF ClearRunning, JoinProcess, ForgetProcess, HaltUnchanged, tableVars, clientVars,
         ExitInv, ProcessesOK
<1>2. mpc' # "join" => ~ThreadAlive(handled)
  <2>1. CASE ClearRunning
    BY <1>1, <2>1 DEF ClearRunning, QuietEnd
  <2>2. CASE JoinProcess
    BY <2>2 DEF JoinProcess
  <2>3. CASE ForgetProcess
    <3>1. CASE phase = "halt"
      BY <1>1, <2>3, <3>1 DEF ForgetProcess, QuietEnd, Halting, Halted
    <3>2. CASE phase # "halt"
      BY <2>3, <3>2 DEF ForgetProcess, ExitInv, ProcessesOK, Restarting
    <3>3. QED
      BY <3>1, <3>2
  <2>4. QED
    BY <2>1, <2>2, <2>3
<1>3. \A w \in Workers : ThreadAlive(w)' => thread'[w]
  <2>1. CASE ForgetProcess
    <3>1. thread' = [thread EXCEPT ![handled] = FALSE] /\ DOMAIN thread = Workers
      BY <2>1 DEF ForgetProcess, TypeOK, ProcessStateTypeOK, PoolStateTypeOK
    <3>2. ~ThreadAlive(handled)
      BY <1>2, <2>1 DEF ForgetProcess
    <3>3. QED
      BY <1>1, <3>1, <3>2 DEF QuietEnd, ThreadAlive
  <2>2. CASE ~ForgetProcess
    <3>1. thread' = thread
      BY <2>2 DEF ClearRunning, JoinProcess
    <3>2. QED
      BY <1>1, <3>1 DEF QuietEnd, ThreadAlive
  <2>3. QED
    BY <2>1, <2>2
<1>4. phase = "halt" => QuietRest'
  <2> SUFFICES ASSUME phase = "halt" PROVE QuietRest'
    OBVIOUS
  <2>1. /\ currTasks = {} /\ todo \subseteq currWorkers
        /\ todoSize = Cardinality(currWorkers) /\ handled \in currWorkers \ todo
        /\ \A w \in currWorkers \ todo : w # handled => ~ThreadAlive(w)
    BY <1>1 DEF QuietEnd, Halting, Halted
  <2>2. \A w \in currWorkers \ todo : Halted(w)' => ~ThreadAlive(w)
    BY <1>1, <1>2, <2>1 DEF Halted
  <2>3. QED
    BY <1>1, <2>1, <2>2 DEF QuietRest, ThreadAlive
<1>5. QED
  BY <1>1, <1>3, <1>4, QuietPartsNext DEF QuietEnd

\* Any other step of the manager's thread.
LEMMA ManagerKeepsQuiet ==
  ASSUME TypeOK, ExitInv, QuietEnd, ~ManagerTimesOut, ManagerSteps
  PROVE  QuietEnd'
<1>1. UNCHANGED clientVars /\ cpc' = cpc
  BY DEF ManagerSteps, clientVars
<1>2. /\ phase \in {"loop", "drain", "halt"} /\ todo \in SUBSET Workers
      /\ currWorkers \in SUBSET Workers
      /\ thread \in [Workers -> BOOLEAN] /\ DOMAIN pc = Workers
  BY DEF TypeOK, ProcessStateTypeOK, PoolStateTypeOK, ProcessManagerTypeOK, TableTypeOK
<1>3. CASE ClearRunning \/ JoinProcess \/ ForgetProcess
  BY <1>1, <1>3, StopKeepsQuiet
<1>4. CASE ManagerKilled \/ IterationFails
  <2>1. /\ mpc' \in {"dead", "killed"}
        /\ UNCHANGED <<mRunning, phase, todo, todoSize, handled, currTasks, currWorkers,
                       thread, pc>>
    BY <1>4 DEF ManagerKilled, IterationFails, Die, poolVars, flagVars, tableVars
  <2>2. (\A w \in Workers : ThreadAlive(w) => thread[w])'
    BY <2>1 DEF QuietEnd, ThreadAlive
  <2>3. phase = "halt" => QuietRest'
    BY <2>1 DEF QuietEnd, QuietRest, Halting
  <2>4. QED
    BY <1>1, <2>1, <2>2, <2>3, QuietPartsNext DEF QuietEnd
<1>5. CASE GetAnswer \/ PopTask \/ SetFuture \/ HandleAnswer
  <2>1. /\ mpc \in {"receive", "pop", "set", "handle"}
        /\ mpc' \in {"dead", "pop", "set", "handle", "stop1", "top", "receive"}
        /\ UNCHANGED <<mRunning, phase, thread, pc>>
    BY <1>5 DEF GetAnswer, PopTask, SetFuture, SetUnchanged, HandleAnswer, Die,
                AfterConsume, flagVars, poolVars
  <2>2. phase # "halt"
    BY <2>1 DEF ExitInv, PhaseOK
  <2>3. (\A w \in Workers : ThreadAlive(w) => thread[w])'
    BY <2>1 DEF QuietEnd, ThreadAlive
  <2>4. QED
    BY <1>1, <2>1, <2>2, <2>3, QuietPartsNext DEF QuietEnd
<1>6. CASE BusEmpty \/ ManagerBoot \/ ManagerCheck \/ ManagerDown \/ RestartSeen
  <2>1. UNCHANGED <<thread, pc>> /\ mpc' \in {"top", "receive", "down"}
    BY <1>6 DEF BusEmpty, ManagerBoot, ManagerCheck, ManagerDown, RestartSeen,
                AfterConsume, poolVars, flagVars
  <2>2. (\A w \in Workers : ThreadAlive(w) => thread[w])'
    BY <2>1 DEF QuietEnd, ThreadAlive
  <2>3. phase # "halt" /\ phase' # "halt"
    BY <1>6 DEF BusEmpty, ManagerBoot, ManagerCheck, ManagerDown, RestartSeen, ExitInv,
                PhaseOK
  <2>4. /\ ~mRunning' => cpc[Owner] \notin Submitting
        /\ (mpc' = "down" \/ phase' # "loop") => ~mRunning'
    <3>1. CASE BusEmpty \/ RestartSeen
      BY <3>1 DEF BusEmpty, RestartSeen, AfterConsume, QuietEnd
    <3>2. CASE ManagerBoot
      BY <3>2 DEF ManagerBoot, ExitInv, PhaseOK
    <3>3. CASE ManagerCheck
      BY <3>3 DEF ManagerCheck, QuietEnd
    <3>4. CASE ManagerDown
      BY <3>4 DEF ManagerDown, QuietEnd
    <3>5. QED
      BY <1>6, <3>1, <3>2, <3>3, <3>4
  <2>5. QED
    BY <1>1, <2>2, <2>3, <2>4, QuietPartsNext
<1>7. CASE RestartProcess
  <2>1. /\ mpc = "start" /\ mpc' \in {"dead", "spin"} /\ UNCHANGED <<mRunning, phase>>
    BY <1>7 DEF RestartProcess, RestartWorker, Die
  <2>2. phase # "halt"
    BY <2>1 DEF ExitInv, PhaseOK
  <2>3. (\A w \in Workers : ThreadAlive(w) => thread[w])'
    <3>1. CASE UNCHANGED <<thread, pc>>
      BY <3>1 DEF QuietEnd, ThreadAlive
    <3>2. CASE StartThread(handled)
      BY <1>2, <3>2 DEF StartThread, QuietEnd, ThreadAlive
    <3>3. QED
      BY <1>7, <3>1, <3>2 DEF RestartProcess, RestartWorker
  <2>4. QED
    BY <1>1, <2>1, <2>2, <2>3, QuietPartsNext DEF QuietEnd
<1>8. CASE Drained \/ CloseWorker \/ CloseDone \/ HaltWorker \/ ManagerEnd
  <2>1. UNCHANGED <<thread, pc, mRunning, currTasks, currWorkers>> /\ phase' = "halt"
    BY <1>8 DEF Drained, CloseWorker, CloseDone, HaltWorker, ManagerEnd, poolVars,
                flagVars, tableVars, ExitInv, PhaseOK
  <2>2. (\A w \in Workers : ThreadAlive(w) => thread[w])'
    BY <2>1 DEF QuietEnd, ThreadAlive
  <2>3. \A w \in Workers : ThreadAlive(w)' <=> ThreadAlive(w)
    BY <2>1 DEF ThreadAlive
  <2>4. ~mRunning
    BY <1>8 DEF Drained, CloseWorker, CloseDone, HaltWorker, ManagerEnd, ExitInv, PhaseOK,
                QuietEnd
  <2>5. QuietRest'
    <3>1. CASE Drained
      BY <2>1, <3>1 DEF Drained, QuietRest, Halting
    <3>2. CASE CloseDone
      BY <2>1, <3>2 DEF CloseDone, QuietRest, Halting, QuietEnd, ExitInv, PhaseOK
    <3>3. CASE CloseWorker
      BY <2>1, <3>3 DEF CloseWorker, QuietRest, Halting, QuietEnd, ExitInv, PhaseOK
    <3>4. CASE ManagerEnd
      <4>1. QuietRest /\ mpc = "halt"
        BY <3>4 DEF ManagerEnd, QuietEnd, QuietRest, ExitInv, PhaseOK
      <4>2. \A w \in currWorkers \ todo : ~ThreadAlive(w)'
        BY <1>2, <2>3, <4>1 DEF QuietRest, Halting, Halted
      <4>3. QED
        BY <2>1, <3>4, <4>1, <4>2 DEF ManagerEnd, QuietRest
    <3>5. CASE HaltWorker
      <4>1. QuietRest /\ mpc = "halt" /\ mpc' = "stop1" /\ todoSize' = todoSize
            /\ handled' = Min(todo) /\ todo' = todo \ {Min(todo)}
        BY <3>5 DEF HaltWorker, QuietEnd, QuietRest, ExitInv, PhaseOK
      <4>2. Min(todo) \in todo
        BY <1>2, <3>5, MinInSet, WorkerSets DEF HaltWorker
      <4>3. \A w \in currWorkers \ todo : ~ThreadAlive(w)'
        BY <1>2, <2>3, <4>1 DEF QuietRest, Halting, Halted
      <4>4. \A w \in currWorkers \ todo' : Halted(w)' => ~ThreadAlive(w)'
        BY <4>1, <4>2, <4>3 DEF Halted
      <4>5. todo \subseteq currWorkers /\ todoSize = Cardinality(currWorkers) /\ currTasks = {}
        BY <4>1 DEF QuietRest
      <4>6. todo' \subseteq currWorkers /\ handled' \in currWorkers \ todo'
        BY <4>1, <4>2, <4>5
      <4>7. QED
        BY <2>1, <4>1, <4>4, <4>5, <4>6 DEF QuietRest
    <3>6. QED
      BY <1>8, <3>1, <3>2, <3>3, <3>4, <3>5
  <2>6. QED
    BY <1>1, <2>1, <2>2, <2>4, <2>5, QuietPartsNext DEF QuietEnd
<1>9. QED
  BY <1>3, <1>4, <1>5, <1>6, <1>7, <1>8
     DEF ManagerSteps, ProcessManagerStep, ManagerIdleOut

\* A pool that nobody has started is quiet.
LEMMA InitQuiet == Init => QuietEnd
  BY ThreadManagerAssumption
     DEF Init, ProcessManagerInit, ThreadManagerInit, ProcessStateInit, PoolStateInit,
         QuietEnd, ThreadAlive, Submitting

\* Every step keeps it so, when only stop() can end the manager.
LEMMA StepKeepsQuiet ==
  ASSUME Calm, TypeOK, ExitInv, QuietEnd, [Next]_vars
  PROVE  QuietEnd'
<1>1. Clients = {Owner} /\ ~ManagerTimesOut
  BY DEF Calm
<1>2. CASE CancelTask \/ UNCHANGED vars
  <2>1. UNCHANGED <<managerCtl, currTasks, currWorkers, thread, pc, cpc, mRunning>>
    BY <1>2 DEF CancelTask, Cancel, vars, poolVars, flagVars, tableVars, managerVars,
                clientVars
  <2>2. QED
    BY <2>1, FrameKeepsQuiet DEF QuietEnd, ThreadAlive
<1>3. QED
  BY <1>1, <1>2, Steps, WorkerKeepsQuiet, ManagerKeepsQuiet, ClientKeepsQuiet

(***************************************************************************)
(* ProcessManager.stop of an only client, whose manager does not give up   *)
(* for idleness: a manager that ended by itself has resolved every future, *)
(* and left no process but one whose buffer is empty.                      *)
(***************************************************************************)
THEOREM StopsAreComplete ==
  Clients = {Owner} /\ ~ManagerTimesOut => (Spec => []StopIsComplete)
<1> SUFFICES ASSUME Calm PROVE Spec => []StopIsComplete
  BY DEF Calm
<1>2. TypeOK /\ ExitInv /\ QuietEnd /\ [Next]_vars => QuietEnd'
  BY StepKeepsQuiet
<1>3. TypeOK /\ ExitInv /\ TaskInv /\ QuietEnd => StopIsComplete
  <2> SUFFICES ASSUME TypeOK, ExitInv, TaskInv, QuietEnd, mpc = "ended"
               PROVE  /\ \A t \in Tasks : future[t] # "pending"
                      /\ \A w \in Workers : ThreadAlive(w) =>
                                              pc[w] = "flush" /\ outbox[w] = <<>>
    BY DEF StopIsComplete
  <2>1. currTasks = {} /\ \A w \in currWorkers : ~ThreadAlive(w)
    BY DEF ExitInv, PhaseOK, QuietEnd, Halting, Halted
  <2>2. \A t \in Tasks : future[t] # "pending"
    BY <2>1 DEF TaskInv, FuturesOK, Submitted, Resolved, InHand
  <2>3. \A w \in Workers : ThreadAlive(w) => pc[w] = "flush" /\ outbox[w] = <<>>
    BY <2>1 DEF ExitInv, OthersPast, Past, ThreadAlive
  <2>4. QED
    BY <2>2, <2>3
<1>4. QED
  BY InitQuiet, <1>2, <1>3, TaskInvHolds, PTL DEF Spec

-----------------------------------------------------------------------------
(***************************************************************************)
(* The manager's thread raises where it handles an answer, where it starts *)
(* a worker again, and where it goes over its workers.  It may die of an   *)
(* answer that cannot be loaded,                                           *)
(***************************************************************************)
LEMMA GettingFails ==
  ASSUME TypeOK, TaskInv, AnswersSound, GetAnswer
  PROVE  DiesOfTasksOnly'
<1> DEFINE r == Head(responseBus)
<1>1. /\ mpc = "receive" /\ responseBus # <<>> /\ UNCHANGED currTasks
      /\ IF CannotLoad(r) THEN death' = "TypeError" ELSE mpc' = "pop"
  BY DEF GetAnswer, tableVars, Die
<1>2. Replies = responseBus /\ Known = currTasks /\ responseBus \in Seq(Responses)
  BY <1>1, HeldFacts
<1>3. r = responseBus[1] /\ 1 \in DOMAIN responseBus
  BY <1>1, <1>2, TailFacts
<1>4. Sound(r) /\ Ended(r) \in currTasks \cup {NoTask}
  BY <1>2, <1>3 DEF AnswersSound, AllSound, TaskInv, Tracked
<1> HIDE DEF r
<1>5. CASE CannotLoad(r)
  <2>1. EndsTask(r) /\ r.task \in Unloadable
    BY <1>5 DEF CannotLoad, EndsTask, Match
  <2>2. r.task \in currTasks
    BY <1>4, <2>1 DEF Sound, Ended
  <2>3. QED
    BY <1>1, <1>5, <2>1, <2>2 DEF DiesOfTasksOnly
<1>6. CASE ~CannotLoad(r)
  BY <1>1, <1>6 DEF DiesOfTasksOnly
<1>7. QED
  BY <1>5, <1>6

\* an answer that it takes apart,
LEMMA PoppingFails ==
  ASSUME TypeOK, TaskInv, AnswersSound, PopTask
  PROVE  DiesOfTasksOnly'
<1>1. mpc = "pop" /\ (mpc' = "dead" => death' = PopError) /\ Sound(received)
  BY DEF PopTask, Die, AnswersSound, Handling
<1>2. CASE mpc' # "dead"
  BY <1>2 DEF DiesOfTasksOnly
<1>3. CASE mpc' = "dead"
  <2>1. received = None \/ (EndsTask(received) /\ Ended(received) = NoTask)
    BY <1>3, PopAnswers
  <2>2. received = None
    BY <1>1, <2>1 DEF Sound, Ended
  <2>3. death' = "AttributeError" /\ "exit" \in Outcomes
    BY <1>1, <1>3, <2>2 DEF PopError, Sound
  <2>4. QED
    BY <2>3 DEF DiesOfTasksOnly
<1>4. QED
  BY <1>2, <1>3

\* or a future that it sets.
LEMMA SettingFails ==
  ASSUME TypeOK, TaskInv, SetFuture
  PROVE  DiesOfTasksOnly'
<1> DEFINE t == received.task
<1>1. /\ t \in Tasks /\ future[t] \in {"pending", "cancelled"}
      /\ IF Settable(t) THEN mpc' = "handle"
         ELSE UNCHANGED future /\ death' = "InvalidStateError"
  BY SetAnswers DEF SetFuture, TaskInv, HandOK
<1>2. CASE Settable(t)
  BY <1>1, <1>2 DEF DiesOfTasksOnly
<1>3. CASE ~Settable(t)
  <2>1. future'[t] = "cancelled" /\ death' = "InvalidStateError"
    BY <1>1, <1>3 DEF Settable
  <2>2. QED
    BY <1>1, <2>1 DEF DiesOfTasksOnly
<1>4. QED
  BY <1>2, <1>3

\* The worker of an answer is known when the answer is handled.
LEMMA HandlingNeverFails ==
  ASSUME ExitInv, HandleAnswer
  PROVE  mpc' # "dead"
<1>1. ~WorkerUnknown
  BY DEF HandleAnswer, WorkerUnknown, ExitInv, ExitsListed, Attending, Attended, Handling,
         Exits, Over
<1>2. QED
  BY <1>1 DEF HandleAnswer, AfterConsume

\* A worker that is to start again runs no longer, and has no process.
LEMMA RestartsNeverFail ==
  ASSUME TypeOK, ExitInv, RestartProcess
  PROVE  mpc' = "spin"
<1>1. mpc = "start" /\ phase # "halt"
  BY DEF RestartProcess, RestartWorker, ExitInv, PhaseOK
<1>2. handled \in Over /\ ~thread[handled]
  BY <1>1 DEF ExitInv, ExitsListed, ProcessesOK, Attending, Attended, Handling, Restarting
<1>3. QED
  BY <1>2 DEF RestartProcess, RestartWorker, Over

\* An iteration over the workers breaks only where the manager may time out.
LEMMA IterationFailsLate ==
  ASSUME ExitInv, ~ManagerTimesOut => QuietEnd, IterationFails
  PROVE  DiesOfTasksOnly'
<1>1. phase = "halt" /\ phase' = phase /\ death' = "RuntimeError"
  BY DEF IterationFails, Die, ExitInv, PhaseOK
<1>2. ManagerTimesOut
  BY <1>1 DEF QuietEnd, IterationFails, IterationBroken
<1>3. QED
  BY <1>1, <1>2 DEF DiesOfTasksOnly

\* The manager's thread dies of nothing else than it may die of.
LEMMA ManagerDies ==
  ASSUME TypeOK, ExitInv, TaskInv, AnswersSound, ~ManagerTimesOut => QuietEnd,
         ManagerSteps
  PROVE  DiesOfTasksOnly'
<1>1. CASE GetAnswer \/ PopTask \/ SetFuture \/ HandleAnswer
  BY <1>1, GettingFails, PoppingFails, SettingFails, HandlingNeverFails
     DEF DiesOfTasksOnly
<1>2. CASE RestartProcess
  BY <1>2, RestartsNeverFail DEF DiesOfTasksOnly
<1>3. CASE IterationFails
  BY <1>3, IterationFailsLate
<1>4. CASE /\ ~(GetAnswer \/ PopTask \/ SetFuture \/ HandleAnswer)
           /\ ~RestartProcess /\ ~IterationFails
  <2>1. mpc' # "dead"
    <3>1. CASE CloseWorker
      BY <3>1 DEF CloseWorker
    <3>2. CASE ~CloseWorker
      BY <1>4, <3>2
         DEF ManagerSteps, ProcessManagerStep, BusEmpty, Drained, ClearRunning, JoinProcess,
             ForgetProcess, RestartSeen, AfterConsume, ManagerBoot, ManagerCheck,
             ManagerDown, CloseDone, HaltWorker, ManagerEnd, ManagerIdleOut, ManagerKilled
    <3>3. QED
      BY <3>1, <3>2
  <2>2. QED
    BY <2>1 DEF DiesOfTasksOnly
<1>5. QED
  BY <1>1, <1>2, <1>3, <1>4

\* Behind the end of the manager no entry leaves the table, and a future that
\* was cancelled stays cancelled.
LEMMA DeadStaysExplained ==
  ASSUME DiesOfTasksOnly, UNCHANGED <<mpc, death, phase>>, currTasks \subseteq currTasks',
         \A t \in Tasks : future[t] = "cancelled" => future'[t] = "cancelled"
  PROVE  DiesOfTasksOnly'
  BY DEF DiesOfTasksOnly

\* Every step keeps it so.
LEMMA StepKeepsExplained ==
  ASSUME TypeOK, ExitInv, TaskInv, AnswersSound, ~ManagerTimesOut => QuietEnd,
         DiesOfTasksOnly, [Next]_vars
  PROVE  DiesOfTasksOnly'
<1>1. future \in [Tasks -> FutureStates]
  BY DEF TypeOK, ProcessStateTypeOK, PoolStateTypeOK
<1>2. ASSUME NEW w \in Workers, ProcessStep(w)
      PROVE  DiesOfTasksOnly'
  <2>1. UNCHANGED <<mpc, death, phase, currTasks>>
    BY <1>2 DEF ProcessStep, MainUnchanged, managerVars, managerCtl, tableVars
  <2>2. future' = future
    <3>1. CASE GetTask(w)
      BY <3>1 DEF GetTask
    <3>2. CASE ~GetTask(w)
      BY <1>2, <3>2, WorkerFrame
    <3>3. QED
      BY <3>1, <3>2
  <2>3. QED
    BY <2>1, <2>2, DeadStaysExplained
<1>3. CASE ManagerSteps
  BY <1>3, ManagerDies
<1>4. ASSUME NEW c \in Clients, CallSteps(c)
      PROVE  DiesOfTasksOnly'
  <2>1. CASE StopSteps(c)
    BY <1>4, <2>1, StopCallFacts, DeadStaysExplained
       DEF CallSteps, StopCallUnchanged, poolVars, tableVars, managerCtl
  <2>2. CASE PutTask(c)
    <3>1. /\ currTasks' = currTasks \cup {cTask[c]} /\ UNCHANGED <<mpc, death, phase>>
          /\ future' = [future EXCEPT ![cTask[c]] = "pending"]
          /\ cpc[c] = "queue"
      BY <2>2 DEF PutTask, managerVars, managerCtl
    <3>2. future[cTask[c]] = "unsubmitted"
      BY <1>4, <3>1 DEF TaskInv, QueuedIsNew
    <3>3. \A t \in Tasks : future[t] = "cancelled" => future'[t] = "cancelled"
      BY <1>1, <3>1, <3>2
    <3>4. QED
      BY <3>1, <3>3, DeadStaysExplained
  <2>3. CASE Start(c)
    BY <2>3 DEF Start, DiesOfTasksOnly
  <2>4. ASSUME NEW t \in Tasks, Submit(c, t)
        PROVE  DiesOfTasksOnly'
    BY <1>1, <2>4, DeadStaysExplained DEF Submit, managerVars, managerCtl, tableVars
  <2>5. CASE \/ LoadCount(c) \/ StoreCount(c) \/ ReadCount(c) \/ ScanProcess(c)
             \/ EnterWorker(c) \/ LaunchWorker(c) \/ LaunchSeen(c) \/ StartReturns(c)
             \/ AdjustWorkers(c) \/ ScanFails(c) \/ ScanDone(c) \/ SubmitReturns(c)
    <3>1. UNCHANGED <<mpc, death, phase, currTasks, future>>
      BY <2>5
         DEF LoadCount, StoreCount, ReadCount, ScanProcess, EnterWorker, LaunchWorker,
             LaunchSeen, StartReturns, AdjustWorkers, ScanFails, ScanDone, SubmitReturns,
             poolVars, tableVars, managerVars, managerCtl
    <3>2. QED
      BY <3>1, DeadStaysExplained
  <2>6. QED
    BY <1>4, <2>1, <2>2, <2>3, <2>4, <2>5
       DEF CallSteps, ProcessClientStep, ClientCall, StopSteps
<1>5. CASE CancelTask \/ UNCHANGED vars
  <2>1. UNCHANGED <<mpc, death, phase, currTasks>>
    BY <1>5 DEF CancelTask, Cancel, vars, tableVars, managerVars, managerCtl
  <2>2. \A t \in Tasks : future[t] = "cancelled" => future'[t] = "cancelled"
    BY <1>1, <1>5 DEF CancelTask, Cancel, CancelFuture, vars, poolVars
  <2>3. QED
    BY <2>1, <2>2, DeadStaysExplained
<1>6. QED
  BY Steps, <1>2, <1>3, <1>4, <1>5

(***************************************************************************)
(* The thread of a manager with one client dies of what becomes of a task  *)
(* only: no order of answers, restarts, deaths and calls makes it raise    *)
(* KeyError, and none makes it raise RuntimeError unless it gives up for   *)
(* idleness.                                                               *)
(***************************************************************************)
THEOREM ManagerDiesOfTasksOnly == Clients = {Owner} => (Spec => []DiesOfTasksOnly)
<1> SUFFICES ASSUME Clients = {Owner} PROVE Spec => []DiesOfTasksOnly
  OBVIOUS
<1> DEFINE Inv == /\ AnswersSound /\ DiesOfTasksOnly
                  /\ ~ManagerTimesOut => QuietEnd
<1>1. Init => Inv
  <2> SUFFICES ASSUME Init PROVE Inv
    OBVIOUS
  <2>1. ~ManagerTimesOut => QuietEnd
    BY InitQuiet
  <2>2. /\ responseBus = <<>> /\ \A w \in Workers : outbox[w] = <<>> /\ requestBus[w] = <<>>
        /\ \A w \in Workers : response[w] = None
    BY DEF Init, ProcessStateInit, PoolStateInit, ProcessWorkerInit
  <2>3. AnswersSound
    BY <2>2, SoundFacts DEF AnswersSound, AllSound, Handling, Init, ProcessManagerInit,
                            ThreadManagerInit
  <2>4. DiesOfTasksOnly
    BY DEF Init, ProcessManagerInit, ThreadManagerInit, DiesOfTasksOnly
  <2>5. QED
    BY <2>1, <2>3, <2>4
<1>2. TypeOK /\ ExitInv /\ TaskInv /\ Inv /\ [Next]_vars => Inv'
  <2> SUFFICES ASSUME TypeOK, ExitInv, TaskInv, Inv, [Next]_vars PROVE Inv'
    OBVIOUS
  <2>1. AnswersSound'
    BY StepKeepsSound
  <2>2. DiesOfTasksOnly'
    BY StepKeepsExplained
  <2>3. ~ManagerTimesOut => QuietEnd'
    BY StepKeepsQuiet DEF Calm
  <2>4. QED
    BY <2>1, <2>2, <2>3
<1>3. Inv => DiesOfTasksOnly
  OBVIOUS
<1> HIDE DEF Inv
<1>4. QED
  BY <1>1, <1>2, <1>3, TaskInvHolds, PTL DEF Spec

=============================================================================

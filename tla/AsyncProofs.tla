----------------------------- MODULE AsyncProofs -----------------------------
(***************************************************************************)
(* Proofs about AsyncPool for all values of its constants: where its tasks *)
(* are, what idle means, that the pool implements TaskContract, and how    *)
(* its event loops end.                                                    *)
(***************************************************************************)
EXTENDS AsyncPoolInv, ManagerProofs, SequenceTheorems

(***************************************************************************)
(* RemoveFirst, for an element that is there: it leaves all the others.    *)
(***************************************************************************)
LEMMA RemoveFirstIsRemoveAt ==
  ASSUME NEW S, NEW s \in Seq(S), NEW t \in ToSet(s)
  PROVE  \E k \in 1 .. Len(s) : s[k] = t /\ RemoveFirst(s, t) = RemoveAt(s, k)
<1> DEFINE I == {i \in 1 .. Len(s) : s[i] = t}
<1>1. I # {} /\ I \in SUBSET Nat
  BY DEF ToSet
<1>2. Min(I) \in I
  BY <1>1, MinInSet
<1>3. SelectInSeq(s, LAMBDA v : v = t) = Min(I)
  BY <1>1 DEF SelectInSeq
<1>4. \E i \in 1 .. Len(s) : s[i] = t
  BY <1>1
<1>5. RemoveFirst(s, t) = RemoveAt(s, Min(I))
  BY <1>3, <1>4 DEF RemoveFirst
<1>6. QED
  BY <1>2, <1>5

\* What the community module's RemoveAt leaves, index by index.
LEMMA RemoveAtFacts ==
  ASSUME NEW S, NEW s \in Seq(S), NEW k \in 1 .. Len(s)
  PROVE  /\ RemoveAt(s, k) \in Seq(S)
         /\ Len(RemoveAt(s, k)) = Len(s) - 1
         /\ \A i \in 1 .. Len(s) - 1 :
              RemoveAt(s, k)[i] = IF i < k THEN s[i] ELSE s[i + 1]
<1> DEFINE p == SubSeq(s, 1, k - 1)
           q == SubSeq(s, k + 1, Len(s))
<1>1. Len(s) \in Nat /\ k \in Nat /\ 1 =< k /\ k =< Len(s)
  OBVIOUS
<1>2. /\ p \in Seq(S) /\ Len(p) = k - 1
      /\ \A i \in 1 .. k - 1 : p[i] = s[i]
  <2>1. p \in Seq(S) /\ Len(p) = IF 1 =< k - 1 THEN (k - 1) - 1 + 1 ELSE 0
    BY <1>1, SubSeqProperties
  <2>2. \A i \in 1 .. (k - 1) - 1 + 1 : p[i] = s[1 + i - 1]
    BY <1>1, SubSeqProperties
  <2>3. QED
    BY <1>1, <2>1, <2>2
<1>3. /\ q \in Seq(S) /\ Len(q) = Len(s) - k
      /\ \A i \in 1 .. Len(s) - k : q[i] = s[k + i]
  <2>1. /\ q \in Seq(S)
        /\ Len(q) = IF k + 1 =< Len(s) THEN Len(s) - (k + 1) + 1 ELSE 0
    BY <1>1, SubSeqProperties
  <2>2. \A i \in 1 .. Len(s) - (k + 1) + 1 : q[i] = s[k + 1 + i - 1]
    BY <1>1, SubSeqProperties
  <2>3. QED
    BY <1>1, <2>1, <2>2
<1> HIDE DEF p, q
<1>4. RemoveAt(s, k) = p \o q
  BY DEF RemoveAt, p, q
<1>5. p \o q \in Seq(S) /\ Len(p \o q) = Len(s) - 1
  <2>1. p \o q \in Seq(S) /\ Len(p \o q) = Len(p) + Len(q)
    BY <1>2, <1>3, ConcatProperties
  <2>2. QED
    BY <1>1, <1>2, <1>3, <2>1
<1>6. \A i \in 1 .. Len(p) + Len(q) :
        (p \o q)[i] = IF i =< Len(p) THEN p[i] ELSE q[i - Len(p)]
  BY <1>2, <1>3, ConcatProperties
<1>7. ASSUME NEW i \in 1 .. Len(s) - 1
      PROVE  (p \o q)[i] = IF i < k THEN s[i] ELSE s[i + 1]
  <2>1. i \in 1 .. Len(p) + Len(q)
    BY <1>1, <1>2, <1>3
  <2>2. CASE i < k
    BY <1>1, <1>2, <1>6, <2>1, <2>2
  <2>3. CASE ~ (i < k)
    <3>1. i - Len(p) \in 1 .. Len(s) - k /\ ~ (i =< Len(p)) /\ k + (i - Len(p)) = i + 1
      BY <1>1, <1>2, <2>3
    <3>2. QED
      BY <1>3, <1>6, <2>1, <2>3, <3>1
  <2>4. QED
    BY <2>2, <2>3
<1>8. QED
  BY <1>4, <1>5, <1>7

\* Without repetitions, RemoveFirst takes exactly the element away.
LEMMA RemoveFirstFacts ==
  ASSUME NEW S, NEW s \in Seq(S), NEW t \in ToSet(s), Distinct(s)
  PROVE  /\ RemoveFirst(s, t) \in Seq(S)
         /\ Distinct(RemoveFirst(s, t))
         /\ ToSet(RemoveFirst(s, t)) = ToSet(s) \ {t}
<1>1. PICK k \in 1 .. Len(s) : s[k] = t /\ RemoveFirst(s, t) = RemoveAt(s, k)
  BY RemoveFirstIsRemoveAt
<1> DEFINE r == RemoveAt(s, k)
<1>2. /\ r \in Seq(S) /\ Len(r) = Len(s) - 1
      /\ \A i \in 1 .. Len(s) - 1 : r[i] = IF i < k THEN s[i] ELSE s[i + 1]
  BY RemoveAtFacts
<1>3. DOMAIN s = 1 .. Len(s) /\ DOMAIN r = 1 .. Len(s) - 1 /\ Len(s) \in Nat
  BY <1>2
<1> HIDE DEF r
<1>4. ASSUME NEW i \in DOMAIN r
      PROVE  \E j \in DOMAIN s : j # k /\ r[i] = s[j] /\ j = IF i < k THEN i ELSE i + 1
  BY <1>2, <1>3
<1>5. ASSUME NEW j \in DOMAIN s, j # k
      PROVE  \E i \in DOMAIN r : r[i] = s[j]
  <2>1. CASE j < k
    BY <1>2, <1>3, <2>1
  <2>2. CASE j > k
    <3>1. j - 1 \in DOMAIN r /\ ~ (j - 1 < k) /\ (j - 1) + 1 = j
      BY <1>3, <2>2
    <3>2. QED
      BY <1>2, <1>3, <3>1
  <2>3. QED
    BY <1>3, <1>5, <2>1, <2>2
<1>6. Distinct(r)
  <2>1. SUFFICES ASSUME NEW i \in DOMAIN r, NEW j \in DOMAIN r, r[i] = r[j]
                 PROVE  i = j
    BY DEF Distinct
  <2>2. PICK a \in DOMAIN s : r[i] = s[a] /\ a = IF i < k THEN i ELSE i + 1
    BY <1>4
  <2>3. PICK b \in DOMAIN s : r[j] = s[b] /\ b = IF j < k THEN j ELSE j + 1
    BY <1>4
  <2>4. a = b
    BY <2>1, <2>2, <2>3 DEF Distinct
  <2>5. QED
    BY <1>3, <2>2, <2>3, <2>4
<1>7. \A x \in ToSet(r) : x \in ToSet(s) /\ x # t
  BY <1>1, <1>3, <1>4 DEF ToSet, Distinct
<1>8. \A x \in ToSet(s) : x # t => x \in ToSet(r)
  BY <1>1, <1>5 DEF ToSet
<1>9. QED
  BY <1>1, <1>2, <1>6, <1>7, <1>8 DEF r

-----------------------------------------------------------------------------
\* The elements of a queue when one is put on it or taken from it.
LEMMA AppendSet ==
  ASSUME NEW S, NEW s \in Seq(S), NEW x \in S
  PROVE  /\ ToSet(Append(s, x)) = ToSet(s) \cup {x}
         /\ Distinct(s) /\ x \notin ToSet(s) => Distinct(Append(s, x))
<1>1. /\ DOMAIN Append(s, x) = DOMAIN s \cup {Len(s) + 1}
      /\ \A i \in DOMAIN s : Append(s, x)[i] = s[i]
      /\ Append(s, x)[Len(s) + 1] = x
  OBVIOUS
<1>2. QED
  BY <1>1 DEF ToSet, Distinct

\* Without repetitions, Tail takes exactly the head away.
LEMMA TailSet ==
  ASSUME NEW S, NEW s \in Seq(S), s # <<>>, Distinct(s)
  PROVE  /\ Head(s) \in ToSet(s)
         /\ Distinct(Tail(s))
         /\ ToSet(Tail(s)) = ToSet(s) \ {Head(s)}
<1>1. /\ DOMAIN s = 1 .. Len(s) /\ DOMAIN Tail(s) = 1 .. Len(s) - 1
      /\ Len(s) \in Nat /\ Len(s) >= 1 /\ Head(s) = s[1]
      /\ \A i \in DOMAIN Tail(s) : Tail(s)[i] = s[i + 1]
  OBVIOUS
<1>2. \A i \in DOMAIN s : i = 1 \/ (i - 1 \in DOMAIN Tail(s) /\ Tail(s)[i - 1] = s[i])
  BY <1>1
<1>3. \A i \in DOMAIN Tail(s) : i + 1 \in DOMAIN s /\ i + 1 # 1
  BY <1>1
<1>4. 1 \in DOMAIN s
  BY <1>1
<1>5. Distinct(Tail(s))
  <2>1. SUFFICES ASSUME NEW i \in DOMAIN Tail(s), NEW j \in DOMAIN Tail(s),
                        Tail(s)[i] = Tail(s)[j]
                 PROVE  i = j
    BY DEF Distinct
  <2>2. i + 1 = j + 1
    BY <1>1, <1>3, <2>1 DEF Distinct
  <2>3. QED
    BY <1>1, <2>2
<1>6. \A x \in ToSet(Tail(s)) : x \in ToSet(s) /\ x # Head(s)
  BY <1>1, <1>3, <1>4 DEF ToSet, Distinct
<1>7. ASSUME NEW x \in ToSet(s), x # Head(s)
      PROVE  x \in ToSet(Tail(s))
  <2>1. PICK i \in DOMAIN s : x = s[i]
    BY DEF ToSet
  <2>2. i - 1 \in DOMAIN Tail(s) /\ Tail(s)[i - 1] = x
    BY <1>1, <1>2, <1>7, <2>1
  <2>3. QED
    BY <2>2 DEF ToSet
<1>8. QED
  BY <1>1, <1>4, <1>5, <1>6, <1>7 DEF ToSet

\* The ends that the responses on a bus report.
LEMMA AppendEnds ==
  ASSUME NEW s \in Seq(Responses), NEW r \in Responses
  PROVE  /\ EndsOn(Append(s, r)) = EndsOn(s) \cup EndOf(r)
         /\ DistinctEnds(s) /\ EndsOn(s) \cap EndOf(r) = {} => DistinctEnds(Append(s, r))
<1>1. /\ DOMAIN Append(s, r) = DOMAIN s \cup {Len(s) + 1}
      /\ \A i \in DOMAIN s : Append(s, r)[i] = s[i]
      /\ Append(s, r)[Len(s) + 1] = r
  OBVIOUS
<1> DEFINE a == Append(s, r)
<1> HIDE DEF a
<1>2. \A t : t \in EndsOn(a) <=> \E i \in DOMAIN a : t \in EndOf(a[i])
  BY DEF EndsOn
<1>3. \A t : t \in EndsOn(s) <=> \E i \in DOMAIN s : t \in EndOf(s[i])
  BY DEF EndsOn
<1>4. EndsOn(a) = EndsOn(s) \cup EndOf(r)
  BY <1>1, <1>2, <1>3 DEF a
<1>5. ASSUME DistinctEnds(s), EndsOn(s) \cap EndOf(r) = {}
      PROVE  DistinctEnds(a)
  BY <1>1, <1>3, <1>5 DEF DistinctEnds, a
<1>6. QED
  BY <1>4, <1>5 DEF a

\* The same for a response that is taken off a bus.
LEMMA TailEnds ==
  ASSUME NEW s \in Seq(Responses), s # <<>>
  PROVE  /\ EndsOn(s) = EndsOn(Tail(s)) \cup EndOf(Head(s))
         /\ DistinctEnds(s) => /\ DistinctEnds(Tail(s))
                               /\ EndsOn(Tail(s)) \cap EndOf(Head(s)) = {}
<1> DEFINE u == Tail(s)
           h == Head(s)
<1>1. /\ DOMAIN s = 1 .. Len(s) /\ DOMAIN u = 1 .. Len(s) - 1
      /\ Len(s) \in Nat /\ Len(s) >= 1 /\ h = s[1]
      /\ \A i \in DOMAIN u : u[i] = s[i + 1]
  OBVIOUS
<1> HIDE DEF u, h
<1>2. \A i \in DOMAIN s : i = 1 \/ (i - 1 \in DOMAIN u /\ u[i - 1] = s[i])
  BY <1>1
<1>3. \A i \in DOMAIN u : i + 1 \in DOMAIN s /\ i + 1 # 1
  BY <1>1
<1>4. 1 \in DOMAIN s
  BY <1>1
<1>5. \A t : t \in EndsOn(u) <=> \E i \in DOMAIN u : t \in EndOf(u[i])
  BY DEF EndsOn
<1>6. \A t : t \in EndsOn(s) <=> \E i \in DOMAIN s : t \in EndOf(s[i])
  BY DEF EndsOn
<1>7. \A t \in EndsOn(s) : t \in EndsOn(u) \/ t \in EndOf(h)
  BY <1>1, <1>2, <1>5, <1>6
<1>8. \A t \in EndsOn(u) : t \in EndsOn(s)
  BY <1>1, <1>3, <1>5, <1>6
<1>9. \A t \in EndOf(h) : t \in EndsOn(s)
  BY <1>1, <1>4, <1>6
<1>10. ASSUME DistinctEnds(s)
       PROVE  DistinctEnds(u)
  <2>1. SUFFICES ASSUME NEW i \in DOMAIN u, NEW j \in DOMAIN u,
                        EndOf(u[i]) \cap EndOf(u[j]) # {}
                 PROVE  i = j
    BY DEF DistinctEnds
  <2>2. i + 1 = j + 1
    BY <1>1, <1>3, <1>10, <2>1 DEF DistinctEnds
  <2>3. QED
    BY <1>1, <2>2
<1>11. ASSUME DistinctEnds(s)
       PROVE  EndsOn(u) \cap EndOf(h) = {}
  <2>1. SUFFICES ASSUME NEW t \in EndsOn(u), t \in EndOf(h) PROVE FALSE
    OBVIOUS
  <2>2. PICK i \in DOMAIN u : t \in EndOf(u[i])
    BY <1>5
  <2>3. t \in EndOf(s[i + 1]) \cap EndOf(s[1])
    BY <1>1, <2>1, <2>2
  <2>4. QED
    BY <1>3, <1>4, <1>11, <2>3 DEF DistinctEnds
<1>12. QED
  BY <1>7, <1>8, <1>9, <1>10, <1>11 DEF u, h

-----------------------------------------------------------------------------
\* RemoveFirst keeps the type of a queue.
LEMMA RemoveFirstType ==
  ASSUME NEW S, NEW s \in Seq(S), NEW t \in ToSet(s)
  PROVE  RemoveFirst(s, t) \in Seq(S)
  BY RemoveFirstIsRemoveAt, RemoveAtFacts

\* TypeOK in two parts.
LEMMA TypeParts == TypeOK <=> SharedTypeOK /\ AsyncWorkerTypeOK
  BY DEF TypeOK, SharedTypeOK

\* A pool that nobody has started has the right types.
LEMMA InitType == Init => TypeOK
<1>1. AsyncWorkerInit => AsyncWorkerTypeOK
  <2>1. <<>> \in Seq(Tasks) /\ <<>> \in Seq(Responses) /\ 0 \in Nat
    OBVIOUS
  <2>2. QED
    BY <2>1, NoneType DEF AsyncWorkerInit, AsyncWorkerTypeOK
<1>2. QED
  BY <1>1, InitSharedType, TypeParts DEF Init

\* What the answers of a worker's coroutines are.
LEMMA AnswerType ==
  ASSUME TypeOK, NEW w \in Workers, finished[w] # <<>>
  PROVE  /\ Answer(w) \in Responses /\ Tail(finished[w]) \in Seq(Responses)
         /\ AddFlag(Answer(w), "RESTART") \in Responses
<1>1. finished[w] \in Seq(Responses)
  BY DEF TypeOK, AsyncWorkerTypeOK
<1>2. Answer(w) \in Responses /\ Tail(finished[w]) \in Seq(Responses)
  BY <1>1 DEF Answer
<1>3. QED
  BY <1>2, AddFlagType DEF Flags

\* An event loop that dies keeps the types.
LEMMA DieType ==
  ASSUME TypeOK, NEW w \in Workers, DieAsync(w)
  PROVE  /\ pc' = [pc EXCEPT ![w] = "died"]
         /\ awaited' \in [Workers -> Tasks \cup {NoTask}]
         /\ response' \in [Workers -> Responses]
  BY NoneType DEF DieAsync, Goto, TypeOK, AsyncWorkerTypeOK

\* A step of _async_run keeps the types of what it can change.
LEMMA WorkerKeepsType ==
  ASSUME TypeOK, NEW w \in Workers, WorkerStep(w) \/ TimeOut(w)
  PROVE  PoolStateTypeOK' /\ AsyncWorkerTypeOK'
<1> USE DEF TypeOK, PoolStateTypeOK, AsyncWorkerTypeOK, coroutines, counts
<1>1. CASE Boot(w)
  <2>1. <<>> \in Seq(Tasks) /\ <<>> \in Seq(Responses) /\ ToSet(active[w]) \subseteq Tasks
    BY DEF ToSet
  <2>2. /\ abandoned' \in [Workers -> SUBSET Tasks] /\ active' \in [Workers -> Seq(Tasks)]
        /\ finished' \in [Workers -> Seq(Responses)]
    BY <1>1, <2>1 DEF Boot
  <2>3. QED
    BY <1>1, <2>2 DEF Boot, busVars, ResetCounts, Goto
<1>2. CASE TimeOut(w)
  <2>1. Action({"CLOSE"}, NoTask, w) \in Responses
    BY ActionType DEF Flags
  <2>2. QED
    BY <1>2, <2>1 DEF TimeOut, busVars, Goto
<1>3. CASE HandleRequest(w)
  <2> DEFINE request == Head(requestBus[w])
             leaves  == Match(request, {"CLOSE", "RESTART"})
  <2>1. request \in Responses /\ Tail(requestBus[w]) \in Seq(Responses)
    BY <1>3 DEF HandleRequest
  <2>2. Action(request.flag, NoTask, w) \in Responses
    BY <2>1, ActionType DEF Responses
  <2>3. response' \in [Workers -> Responses]
    BY <1>3, <2>2 DEF HandleRequest
  <2>4. requestBus' \in [Workers -> Seq(Responses)]
    BY <1>3, <2>1 DEF HandleRequest
  <2>5. /\ taskCount' \in [Workers -> Nat] /\ errCount' \in [Workers -> Nat]
        /\ consErrCount' \in [Workers -> Nat]
    <3>1. ResetCounts(w) \/ UNCHANGED <<taskCount, errCount, consErrCount>>
      BY <1>3 DEF HandleRequest
    <3>2. CASE ResetCounts(w)
      BY <3>2 DEF ResetCounts
    <3>3. QED
      BY <3>1, <3>2
  <2>6. pc' = [pc EXCEPT ![w] = "check"] \/ pc' = [pc EXCEPT ![w] = "requests"]
    BY <1>3 DEF HandleRequest, Goto
  <2>7. QED
    BY <1>3, <2>3, <2>4, <2>5, <2>6 DEF HandleRequest
<1>4. CASE MarkIdle(w) \/ NoRequest(w) \/ CheckRunning(w) \/ StopTaking(w) \/ EndTurn(w)
           \/ CollectDone(w) \/ ClearThread(w)
  <2>1. \E label \in {"requests", "check", "get", "wait", "run", "collect", "top", "ended"} :
          pc' = [pc EXCEPT ![w] = label]
    BY <1>4 DEF MarkIdle, NoRequest, CheckRunning, StopTaking, EndTurn, CollectDone,
                ClearThread, Goto
  <2>2. idle' \in [Workers -> BOOLEAN] /\ thread' \in [Workers -> BOOLEAN]
    BY <1>4 DEF MarkIdle, NoRequest, CheckRunning, StopTaking, EndTurn, CollectDone,
                ClearThread
  <2>3. UNCHANGED <<busVars, future, running, inited, workerLocals>>
    BY <1>4 DEF MarkIdle, NoRequest, CheckRunning, StopTaking, EndTurn, CollectDone,
                ClearThread
  <2>4. QED
    BY <2>1, <2>2, <2>3 DEF busVars, workerLocals
<1>5. CASE TakeTask(w)
  <2>1. Head(taskBus) \in Tasks /\ Tail(taskBus) \in Seq(Tasks)
    BY <1>5 DEF TakeTask
  <2>2. Append(active[w], Head(taskBus)) \in Seq(Tasks)
    BY <2>1, AppendType
  <2>3. active' \in [Workers -> Seq(Tasks)]
    BY <1>5, <2>2 DEF TakeTask
  <2>4. QED
    BY <1>5, <2>1, <2>3 DEF TakeTask, Goto
<1>6. CASE CreateTask(w)
  BY <1>6 DEF CreateTask, busVars, Goto
<1>7. CASE CollectFails(w) \/ AwaitFails(w)
  <2>1. finished' \in [Workers -> Seq(Responses)]
    BY <1>7, AnswerType DEF CollectFails, Collects, AwaitFails
  <2>2. DieAsync(w)
    BY <1>7 DEF CollectFails, AwaitFails
  <2>3. UNCHANGED <<busVars, future, running, idle, inited, thread, active, raised,
                    abandoned, counts>>
    BY <1>7 DEF CollectFails, AwaitFails
  <2>4. QED
    BY <2>1, <2>2, <2>3, DieType DEF busVars
<1>8. CASE CollectAndContinue(w) \/ CollectAndRestart(w)
  <2>1. CollectAnswer(w) /\ finished[w] # <<>>
    BY <1>8 DEF CollectAndContinue, CollectAndRestart, CollectAnswer, Collects
  <2>2. finished' \in [Workers -> Seq(Responses)]
    BY <2>1, AnswerType DEF CollectAnswer
  <2>3. /\ errCount' \in [Workers -> Nat]
        /\ consErrCount' \in [Workers -> Nat]
    BY <2>1, SMTT(30) DEF CollectAnswer, ErrCountWith, ConsErrCountWith
  <2>4. \E r \in Responses : responseBus' = Append(responseBus, r)
    BY <1>8, <2>1, AnswerType DEF CollectAndContinue, CollectAndRestart
  <2>5. responseBus' \in Seq(Responses)
    BY <2>4, AppendType
  <2>6. response' \in [Workers -> Responses]
    BY <1>8, <2>1, AnswerType, NoneType, ZenonT(60) DEF CollectAndContinue, CollectAndRestart
  <2>7. /\ running' \in [Workers -> BOOLEAN]
        /\ UNCHANGED pc \/ pc' = [pc EXCEPT ![w] = "wait"]
    BY <1>8 DEF CollectAndContinue, CollectAndRestart, Goto
  <2>8. QED
    BY <2>1, <2>2, <2>3, <2>5, <2>6, <2>7 DEF CollectAnswer
<1>9. CASE Await(w)
  <2>1. Head(active[w]) \in Tasks
    BY <1>9 DEF Await
  <2>2. QED
    BY <1>9, <2>1 DEF Await, busVars, Goto
<1>10. CASE AwaitReturns(w)
  BY <1>10 DEF AwaitReturns, busVars, Goto
<1>11. CASE Flush(w)
  <2>1. Append(finished[w], response[w]) \in Seq(Responses)
    BY AppendType
  <2>2. finished' \in [Workers -> Seq(Responses)]
    BY <1>11, <2>1 DEF Flush
  <2>3. QED
    BY <1>11, <2>2, NoneType DEF Flush, busVars, Goto
<1>12. CASE FlushAnswer(w)
  <2>1. finished' \in [Workers -> Seq(Responses)]
    BY <1>12, AnswerType DEF FlushAnswer
  <2>2. responseBus' \in Seq(Responses)
    BY <1>12, AnswerType, AppendType DEF FlushAnswer
  <2>3. QED
    BY <1>12, <2>1, <2>2 DEF FlushAnswer, flagVars
<1>13. QED
  BY <1>1, <1>2, <1>3, <1>4, <1>5, <1>6, <1>7, <1>8, <1>9, <1>10, <1>11, <1>12
     DEF WorkerStep

\* So does the end of a coroutine.
LEMMA CoroutineKeepsType ==
  ASSUME TypeOK, NEW w \in Workers, NEW t \in Tasks,
         RunCoroutine(w, t) \/ ExitCoroutine(w, t)
  PROVE  PoolStateTypeOK' /\ AsyncWorkerTypeOK'
<1> USE DEF TypeOK, PoolStateTypeOK, AsyncWorkerTypeOK, counts
<1>1. RemoveFirst(active[w], t) \in Seq(Tasks)
  BY RemoveFirstType DEF RunCoroutine, ExitCoroutine, InLoop
<1>2. active' \in [Workers -> Seq(Tasks)]
  BY <1>1 DEF RunCoroutine, ExitCoroutine
<1>3. CASE RunCoroutine(w, t)
  <2>1. PICK o \in Outcomes \ {"exit"} :
          /\ future' = future \/ (o # "cancel" /\ future' = [future EXCEPT ![t] = o])
          /\ raised' = raised \/ raised' = [raised EXCEPT ![w] = @ \cup {t}]
          /\ \/ finished' = [finished EXCEPT ![w] = Append(@, None)]
             \/ finished' = [finished EXCEPT ![w] = Append(@, Action({FlagOf(o)}, t, w))]
    BY <1>3, ZenonT(60) DEF RunCoroutine
  <2>2. o \in {"result", "exception", "cancel"}
    BY AsyncWorkerAssumption
  <2>3. future' \in [Tasks -> FutureStates] /\ raised' \in [Workers -> SUBSET Tasks]
    <3>1. o # "cancel" => o \in FutureStates
      BY <2>2 DEF FutureStates
    <3>2. future' \in [Tasks -> FutureStates]
      BY <2>1, <3>1
    <3>3. raised[w] \cup {t} \in SUBSET Tasks
      OBVIOUS
    <3>4. raised' = [raised EXCEPT ![w] = raised[w] \cup {t}]
            => raised' \in [Workers -> SUBSET Tasks]
      BY <3>3
    <3>5. QED
      BY <2>1, <3>2, <3>4
  <2>4. Action({FlagOf(o)}, t, w) \in Responses
    BY ActionType DEF FlagOf, Flags
  <2>5. /\ Append(finished[w], None) \in Seq(Responses)
        /\ Append(finished[w], Action({FlagOf(o)}, t, w)) \in Seq(Responses)
    BY <2>4, NoneType, AppendType
  <2>6. finished' \in [Workers -> Seq(Responses)]
    BY <2>1, <2>5
  <2>7. QED
    BY <1>2, <1>3, <2>3, <2>6 DEF RunCoroutine, busVars, flagVars
<1>4. CASE ExitCoroutine(w, t)
  <2>1. /\ pc' = [pc EXCEPT ![w] = "died"]
        /\ awaited' \in [Workers -> Tasks \cup {NoTask}]
        /\ response' \in [Workers -> Responses]
    BY <1>4, DieType DEF ExitCoroutine
  <2>2. QED
    BY <1>2, <1>4, <2>1 DEF ExitCoroutine, busVars
<1>5. QED
  BY <1>3, <1>4

\* Every step of a pool keeps the types.
LEMMA StepKeepsType == TypeOK /\ [Next]_vars => TypeOK'
<1> SUFFICES ASSUME TypeOK, [Next]_vars PROVE TypeOK'
  OBVIOUS
<1>1. ASSUME UNCHANGED <<tableVars, managerVars, clientVars>>,
             PoolStateTypeOK' /\ AsyncWorkerTypeOK'
      PROVE  TypeOK'
  BY <1>1 DEF TypeOK, TableTypeOK, ManagerTypeOK, ClientTypeOK, tableVars,
              managerVars, managerCtl, clientVars
<1>2. ASSUME NEW w \in Workers, RunWorker(w) \/ WorkerGivesUp(w)
      PROVE  TypeOK'
  BY <1>1, <1>2, WorkerKeepsType DEF RunWorker, WorkerGivesUp
<1>3. ASSUME NEW w \in Workers, NEW t \in Tasks, EndCoroutine(w, t)
      PROVE  TypeOK'
  BY <1>1, <1>3, CoroutineKeepsType DEF EndCoroutine
<1>4. SharedTypeOK /\ (UNCHANGED workerLocals /\ SharedTypeOK' => TypeOK')
  BY DEF TypeOK, SharedTypeOK, AsyncWorkerTypeOK, workerLocals
<1>5. CASE RunManager \/ ManagerGivesUp
  BY <1>4, <1>5, ManagerKeepsType DEF RunManager, ManagerGivesUp
<1>6. ASSUME NEW c \in Clients, RunClient(c) \/ ClientCalls(c)
      PROVE  TypeOK'
  BY <1>4, <1>6, ClientKeepsType DEF RunClient, ClientCalls
<1>7. CASE CancelTask
  BY <1>4, <1>7, CancelKeepsType DEF CancelTask
<1>8. CASE UNCHANGED vars
  <2>1. UNCHANGED <<poolVars, workerLocals>>
    BY <1>8 DEF vars
  <2>2. PoolStateTypeOK' /\ AsyncWorkerTypeOK'
    BY <2>1 DEF TypeOK, poolVars, busVars, flagVars, workerLocals, PoolStateTypeOK,
                AsyncWorkerTypeOK
  <2>3. QED
    BY <1>1, <1>8, <2>2 DEF vars
<1>9. QED
  BY <1>2, <1>3, <1>5, <1>6, <1>7, <1>8 DEF Next, Terminated

(***************************************************************************)
(* Every variable of an async pool keeps its type.                         *)
(***************************************************************************)
THEOREM TypeCorrect == Spec => []TypeOK
  BY InitType, StepKeepsType, PTL DEF Spec

-----------------------------------------------------------------------------
(***************************************************************************)
(* Where tasks are held.  Four steps move them: a client queues a task, a  *)
(* worker takes it, its coroutine ends, and a restarted worker leaves the  *)
(* coroutines of its former loop behind.                                   *)
(***************************************************************************)
LEMMA HeldStay ==
  ASSUME UNCHANGED <<taskBus, active, abandoned>>
  PROVE  /\ \A t : Held(t)' <=> Held(t)
         /\ \A w \in Workers : HeldBy(w)' = HeldBy(w)
         /\ HeldOnce => HeldOnce'
  BY DEF Held, HeldBy, HeldOnce

\* submit() puts a task that nobody holds on the task bus.
LEMMA QueueMoves ==
  ASSUME TypeOK, HeldOnce, NEW c \in Clients, Queue(c), UNCHANGED workerLocals,
         cTask[c] \in Tasks, ~Held(cTask[c])
  PROVE  /\ HeldOnce'
         /\ \A t : Held(t)' <=> Held(t) \/ t = cTask[c]
         /\ \A w \in Workers : HeldBy(w)' = HeldBy(w)
<1> DEFINE t == cTask[c]
<1>1. taskBus \in Seq(Tasks) /\ taskBus' = Append(taskBus, t)
  BY DEF Queue, TypeOK, PoolStateTypeOK
<1>2. UNCHANGED <<active, abandoned>>
  BY DEF workerLocals
<1>3. t \notin ToSet(taskBus) /\ \A w \in Workers : t \notin HeldBy(w)
  BY DEF Held
<1>4. ToSet(taskBus') = ToSet(taskBus) \cup {t} /\ Distinct(taskBus')
  BY <1>1, <1>3, AppendSet DEF HeldOnce
<1>5. \A w \in Workers : HeldBy(w)' = HeldBy(w)
  BY <1>2 DEF HeldBy
<1>6. HeldOnce'
  BY <1>2, <1>3, <1>4, <1>5 DEF HeldOnce
<1>7. QED
  BY <1>4, <1>5, <1>6 DEF Held

\* A worker takes a task from the bus: it is held as before, by the worker now.
LEMMA TakeMoves ==
  ASSUME TypeOK, HeldOnce, NEW w \in Workers, TakeTask(w)
  PROVE  /\ HeldOnce'
         /\ Head(taskBus) \in ToSet(taskBus) /\ taskBus # <<>> /\ taskBus' = Tail(taskBus)
         /\ HeldBy(w)' = HeldBy(w) \cup {Head(taskBus)}
         /\ \A v \in Workers : v # w => HeldBy(v)' = HeldBy(v)
         /\ \A t : Held(t)' <=> Held(t)
<1> DEFINE t == Head(taskBus)
<1>1. /\ taskBus \in Seq(Tasks) /\ taskBus # <<>> /\ taskBus' = Tail(taskBus)
      /\ active' = [active EXCEPT ![w] = Append(@, t)]
      /\ active \in [Workers -> Seq(Tasks)] /\ UNCHANGED abandoned
  BY DEF TakeTask, TypeOK, PoolStateTypeOK, AsyncWorkerTypeOK
<1>2. /\ t \in ToSet(taskBus) /\ Distinct(taskBus')
      /\ ToSet(taskBus') = ToSet(taskBus) \ {t}
  BY <1>1, TailSet DEF HeldOnce
<1>3. t \in Tasks
  BY <1>1
<1>4. \A v \in Workers : t \notin HeldBy(v)
  BY <1>2 DEF HeldOnce
<1>5. ToSet(active'[w]) = ToSet(active[w]) \cup {t} /\ Distinct(active'[w])
  BY <1>1, <1>3, <1>4, AppendSet DEF HeldOnce, HeldBy
<1>6. \A v \in Workers : v # w => active'[v] = active[v]
  BY <1>1
<1>7. HeldBy(w)' = HeldBy(w) \cup {t}
  BY <1>1, <1>5 DEF HeldBy
<1>8. \A v \in Workers : v # w => HeldBy(v)' = HeldBy(v)
  BY <1>1, <1>6 DEF HeldBy
<1>9. HeldOnce'
  <2>1. \A v \in Workers : /\ Distinct(active'[v])
                           /\ ToSet(active'[v]) \cap abandoned'[v] = {}
    BY <1>1, <1>4, <1>5, <1>6 DEF HeldOnce, HeldBy
  <2>2. \A v \in Workers : ToSet(taskBus') \cap HeldBy(v)' = {}
    BY <1>2, <1>7, <1>8 DEF HeldOnce
  <2>3. \A u, v \in Workers : u # v => HeldBy(u)' \cap HeldBy(v)' = {}
    BY <1>4, <1>7, <1>8 DEF HeldOnce
  <2>4. QED
    BY <1>2, <2>1, <2>2, <2>3 DEF HeldOnce
<1>10. \A x : Held(x)' <=> Held(x)
  BY <1>2, <1>7, <1>8 DEF Held
<1>11. QED
  BY <1>1, <1>2, <1>7, <1>8, <1>9, <1>10

\* A coroutine that ends lets go of its task, which nobody else holds.
LEMMA EndMoves ==
  ASSUME TypeOK, HeldOnce, NEW w \in Workers, NEW t \in Tasks,
         RunCoroutine(w, t) \/ ExitCoroutine(w, t)
  PROVE  /\ HeldOnce' /\ Held(t)
         /\ t \in HeldBy(w) /\ HeldBy(w)' = HeldBy(w) \ {t}
         /\ \A v \in Workers : v # w => HeldBy(v)' = HeldBy(v) /\ t \notin HeldBy(v)
         /\ UNCHANGED taskBus /\ t \notin ToSet(taskBus)
         /\ \A u : Held(u)' <=> Held(u) /\ u # t
<1>1. /\ active \in [Workers -> Seq(Tasks)] /\ UNCHANGED <<taskBus, abandoned>>
      /\ t \in ToSet(active[w])
      /\ active' = [active EXCEPT ![w] = RemoveFirst(@, t)]
  BY DEF RunCoroutine, ExitCoroutine, InLoop, busVars, TypeOK, AsyncWorkerTypeOK
<1>2. active[w] \in Seq(Tasks) /\ Distinct(active[w])
  BY <1>1 DEF HeldOnce
<1>3. Distinct(active'[w]) /\ ToSet(active'[w]) = ToSet(active[w]) \ {t}
  BY <1>1, <1>2, RemoveFirstFacts
<1>4. \A v \in Workers : v # w => active'[v] = active[v]
  BY <1>1
<1>5. t \in HeldBy(w) /\ t \notin abandoned[w] /\ t \notin ToSet(taskBus)
  BY <1>1 DEF HeldBy, HeldOnce
<1>6. HeldBy(w)' = HeldBy(w) \ {t}
  BY <1>1, <1>3, <1>5 DEF HeldBy
<1>7. \A v \in Workers : v # w => HeldBy(v)' = HeldBy(v) /\ t \notin HeldBy(v)
  <2>1. \A v \in Workers : v # w => t \notin HeldBy(v)
    BY <1>5 DEF HeldOnce
  <2>2. QED
    BY <1>1, <1>4, <2>1 DEF HeldBy
<1>8. HeldOnce'
  <2>1. \A v \in Workers : /\ Distinct(active'[v])
                           /\ ToSet(active'[v]) \cap abandoned'[v] = {}
    BY <1>1, <1>3, <1>4 DEF HeldOnce
  <2>2. \A v \in Workers : ToSet(taskBus') \cap HeldBy(v)' = {}
    BY <1>1, <1>6, <1>7 DEF HeldOnce
  <2>3. \A u, v \in Workers : u # v => HeldBy(u)' \cap HeldBy(v)' = {}
    BY <1>6, <1>7 DEF HeldOnce
  <2>4. QED
    BY <1>1, <2>1, <2>2, <2>3 DEF HeldOnce
<1>9. \A u : Held(u)' <=> Held(u) /\ u # t
  BY <1>1, <1>5, <1>6, <1>7 DEF Held
<1>10. QED
  BY <1>1, <1>5, <1>6, <1>7, <1>8, <1>9 DEF Held

\* A new event loop: the coroutines of the last one stay with its worker.
LEMMA BootMoves ==
  ASSUME TypeOK, HeldOnce, NEW w \in Workers, Boot(w)
  PROVE  /\ HeldOnce' /\ UNCHANGED taskBus
         /\ \A v \in Workers : HeldBy(v)' = HeldBy(v)
         /\ \A t : Held(t)' <=> Held(t)
<1>1. /\ UNCHANGED taskBus
      /\ active' = [active EXCEPT ![w] = <<>>]
      /\ abandoned' = [abandoned EXCEPT ![w] = @ \cup ToSet(active[w])]
      /\ active \in [Workers -> Seq(Tasks)] /\ abandoned \in [Workers -> SUBSET Tasks]
  BY DEF Boot, busVars, TypeOK, AsyncWorkerTypeOK
<1>2. ToSet(<<>>) = {} /\ Distinct(<<>>)
  BY DEF ToSet, Distinct
<1>3. /\ active'[w] = <<>> /\ abandoned'[w] = abandoned[w] \cup ToSet(active[w])
      /\ \A v \in Workers : v # w => active'[v] = active[v] /\ abandoned'[v] = abandoned[v]
  BY <1>1
<1>4. \A v \in Workers : HeldBy(v)' = HeldBy(v)
  BY <1>2, <1>3 DEF HeldBy
<1>5. HeldOnce'
  BY <1>1, <1>2, <1>3, <1>4 DEF HeldOnce
<1>6. QED
  BY <1>1, <1>4, <1>5 DEF Held

(***************************************************************************)
(* The other steps of a worker leave the tasks, the answers and the        *)
(* futures alone; `response` is no answer of theirs.                       *)
(***************************************************************************)
MovesAnswers(w) ==
  \/ Boot(w) \/ CollectFails(w) \/ CollectAndContinue(w) \/ CollectAndRestart(w)
  \/ Flush(w) \/ FlushAnswer(w)

\* An action that names no task reports no end, and RESTART adds none.
LEMMA EndFacts ==
  /\ EndOf(None) = {}
  /\ \A t, w : EndOf(Action({"CLOSE"}, t, w)) = {}
  /\ \A r : EndOf(AddFlag(r, "RESTART")) = EndOf(r)
  /\ \A t, w : EndOf(Action({"DONE"}, t, w)) = {t} /\ EndOf(Action({"EXCEPTION"}, t, w)) = {t}
  BY DEF EndOf, EndsTask, Match, None, Action, AddFlag

\* What the steps that move no answers may change.
LEMMA PassiveSteps ==
  ASSUME TypeOK, RequestsClose, NEW w \in Workers, WorkerStep(w) \/ TimeOut(w),
         ~MovesAnswers(w)
  PROVE  /\ UNCHANGED <<responseBus, future, finished, raised, abandoned>>
         /\ UNCHANGED <<taskBus, active>> \/ TakeTask(w)
         /\ \A v \in Workers : response'[v] = response[v] \/ EndOf(response'[v]) = {}
<1> USE DEF TypeOK, AsyncWorkerTypeOK
<1>1. CASE HandleRequest(w)
  <2> DEFINE request == Head(requestBus[w])
  <2>1. requestBus[w] \in Seq(Responses) /\ requestBus[w] # <<>>
    BY <1>1 DEF HandleRequest, PoolStateTypeOK
  <2>2. request.flag = {"CLOSE"}
    BY <2>1, TailFacts DEF RequestsClose
  <2>3. EndOf(Action(request.flag, NoTask, w)) = {}
    BY <2>2, EndFacts
  <2>4. QED
    BY <1>1, <2>3 DEF HandleRequest, coroutines
<1>2. CASE TimeOut(w) \/ AwaitFails(w)
  BY <1>2, EndFacts DEF TimeOut, AwaitFails, DieAsync, coroutines, busVars
<1>3. CASE TakeTask(w)
  BY <1>3 DEF TakeTask
<1>4. CASE MarkIdle(w) \/ NoRequest(w) \/ CheckRunning(w) \/ StopTaking(w) \/ EndTurn(w)
           \/ CollectDone(w) \/ ClearThread(w) \/ CreateTask(w) \/ Await(w)
           \/ AwaitReturns(w)
  BY <1>4 DEF MarkIdle, NoRequest, CheckRunning, StopTaking, EndTurn, CollectDone,
              ClearThread, CreateTask, Await, AwaitReturns, busVars, workerLocals,
              coroutines
<1>5. QED
  BY <1>1, <1>2, <1>3, <1>4 DEF WorkerStep, MovesAnswers

\* The steps that do move answers, one way or another.
LEMMA AnswerMoves ==
  ASSUME TypeOK, NEW w \in Workers, MovesAnswers(w)
  PROVE  /\ UNCHANGED <<taskBus, future, raised>>
         /\ UNCHANGED <<active, abandoned>> \/ Boot(w)
         /\ \A v \in Workers :
              v # w => finished'[v] = finished[v] /\ response'[v] = response[v]
         /\ \/ Boot(w) /\ finished'[w] = <<>> /\ UNCHANGED <<responseBus, response>>
            \/ /\ Flush(w) /\ UNCHANGED responseBus /\ response'[w] = None
               /\ \/ finished'[w] = finished[w]
                  \/ /\ response[w] # None
                     /\ finished'[w] = Append(finished[w], response[w])
            \/ /\ finished[w] # <<>> /\ finished'[w] = Tail(finished[w])
               /\ \/ /\ CollectFails(w) /\ UNCHANGED responseBus
                     /\ response'[w] = None
                  \/ /\ CollectAndContinue(w) /\ response'[w] = None
                     /\ responseBus' = Append(responseBus, Answer(w))
                  \/ /\ CollectAndRestart(w)
                     /\ response'[w] = AddFlag(Answer(w), "RESTART")
                     /\ responseBus' = Append(responseBus, AddFlag(Answer(w), "RESTART"))
                  \/ /\ FlushAnswer(w) /\ UNCHANGED response
                     /\ responseBus' = Append(responseBus, Answer(w))
<1> USE DEF TypeOK, AsyncWorkerTypeOK
<1>1. CASE Boot(w)
  BY <1>1 DEF Boot, busVars
<1>2. CASE Flush(w)
  <2>1. /\ UNCHANGED <<busVars, future, raised, active, abandoned>>
        /\ response' = [response EXCEPT ![w] = None]
    BY <1>2 DEF Flush
  <2>2. finished' = [finished EXCEPT ![w] = IF response[w] # None
                                            THEN Append(@, response[w]) ELSE @]
    BY <1>2 DEF Flush
  <2>3. QED
    BY <1>2, <2>1, <2>2 DEF busVars
<1>3. CASE CollectFails(w)
  BY <1>3 DEF CollectFails, Collects, DieAsync, busVars
<1>4. CASE CollectAndContinue(w)
  BY <1>4 DEF CollectAndContinue, CollectAnswer, Collects
<1>5. CASE CollectAndRestart(w)
  BY <1>5 DEF CollectAndRestart, CollectAnswer, Collects
<1>6. CASE FlushAnswer(w)
  BY <1>6 DEF FlushAnswer
<1>7. QED
  BY <1>1, <1>2, <1>3, <1>4, <1>5, <1>6 DEF MovesAnswers

\* The same, end by end.
LEMMA EndsMove ==
  ASSUME TypeOK, NEW w \in Workers, MovesAnswers(w)
  PROVE  /\ \A v \in Workers :
              v # w => /\ EndsOn(finished'[v]) = EndsOn(finished[v])
                       /\ EndOf(response'[v]) = EndOf(response[v])
         /\ \/ /\ Boot(w) /\ EndsOn(finished'[w]) = {}
               /\ UNCHANGED responseBus /\ EndOf(response'[w]) = EndOf(response[w])
            \/ /\ Flush(w) /\ EndOf(response'[w]) = {} /\ UNCHANGED responseBus
               /\ EndsOn(finished'[w]) \in {EndsOn(finished[w]),
                                            EndsOn(finished[w]) \cup EndOf(response[w])}
            \/ /\ EndsOn(finished[w]) = EndsOn(finished'[w]) \cup EndOf(Answer(w))
               /\ \/ CollectFails(w) /\ UNCHANGED responseBus /\ EndOf(response'[w]) = {}
                  \/ /\ \/ CollectAndContinue(w) /\ EndOf(response'[w]) = {}
                        \/ CollectAndRestart(w) /\ EndOf(response'[w]) = EndOf(Answer(w))
                        \/ FlushAnswer(w) /\ EndOf(response'[w]) = EndOf(response[w])
                     /\ EndsOn(responseBus') = EndsOn(responseBus) \cup EndOf(Answer(w))
<1>1. /\ finished[w] \in Seq(Responses) /\ responseBus \in Seq(Responses)
      /\ response[w] \in Responses
  BY DEF TypeOK, AsyncWorkerTypeOK, PoolStateTypeOK
<1>2. \A v \in Workers :
        v # w => finished'[v] = finished[v] /\ response'[v] = response[v]
  BY AnswerMoves
<1>3. CASE Boot(w) /\ finished'[w] = <<>> /\ UNCHANGED <<responseBus, response>>
  <2>1. EndsOn(<<>>) = {}
    BY DEF EndsOn
  <2>2. QED
    BY <1>2, <1>3, <2>1
<1>4. CASE /\ Flush(w) /\ UNCHANGED responseBus /\ response'[w] = None
           /\ \/ finished'[w] = finished[w]
              \/ /\ response[w] # None
                 /\ finished'[w] = Append(finished[w], response[w])
  <2>1. EndsOn(Append(finished[w], response[w])) = EndsOn(finished[w]) \cup EndOf(response[w])
    BY <1>1, AppendEnds
  <2>2. QED
    BY <1>2, <1>4, <2>1, EndFacts
<1>5. ASSUME finished[w] # <<>>, finished'[w] = Tail(finished[w])
      PROVE  /\ EndsOn(finished[w]) = EndsOn(finished'[w]) \cup EndOf(Answer(w))
             /\ EndsOn(Append(responseBus, Answer(w)))
                  = EndsOn(responseBus) \cup EndOf(Answer(w))
             /\ EndsOn(Append(responseBus, AddFlag(Answer(w), "RESTART")))
                  = EndsOn(responseBus) \cup EndOf(Answer(w))
             /\ EndOf(AddFlag(Answer(w), "RESTART")) = EndOf(Answer(w))
  <2>1. Answer(w) \in Responses /\ AddFlag(Answer(w), "RESTART") \in Responses
    BY <1>5, AnswerType
  <2>2. EndsOn(finished[w]) = EndsOn(finished'[w]) \cup EndOf(Answer(w))
    BY <1>1, <1>5, TailEnds DEF Answer
  <2>3. EndOf(AddFlag(Answer(w), "RESTART")) = EndOf(Answer(w))
    BY EndFacts
  <2>4. QED
    BY <1>1, <2>1, <2>2, <2>3, AppendEnds
<1>6. CASE finished[w] # <<>> /\ finished'[w] = Tail(finished[w]) /\ CollectFails(w)
           /\ UNCHANGED responseBus /\ response'[w] = None
  BY <1>2, <1>5, <1>6, EndFacts
<1>7. CASE finished[w] # <<>> /\ finished'[w] = Tail(finished[w])
           /\ CollectAndContinue(w) /\ response'[w] = None
           /\ responseBus' = Append(responseBus, Answer(w))
  BY <1>2, <1>5, <1>7, EndFacts
<1>8. CASE finished[w] # <<>> /\ finished'[w] = Tail(finished[w])
           /\ CollectAndRestart(w) /\ response'[w] = AddFlag(Answer(w), "RESTART")
           /\ responseBus' = Append(responseBus, AddFlag(Answer(w), "RESTART"))
  BY <1>2, <1>5, <1>8
<1>9. CASE finished[w] # <<>> /\ finished'[w] = Tail(finished[w])
           /\ FlushAnswer(w) /\ UNCHANGED response
           /\ responseBus' = Append(responseBus, Answer(w))
  BY <1>2, <1>5, <1>9
<1>10. QED
  BY <1>3, <1>4, <1>6, <1>7, <1>8, <1>9, AnswerMoves

-----------------------------------------------------------------------------
\* A task of whose end somebody speaks.
Reports(t) ==
  \/ t \in EndsOn(responseBus)
  \/ \E w \in Workers : t \in EndOf(response[w]) \cup EndsOn(finished[w])

\* What keeps HoldInv once HeldOnce is kept: the futures of tasks that are held
\* stay open, those of the others stay resolved, and new reports are true.
LEMMA HoldStays ==
  ASSUME HoldInv, HeldOnce',
         \A t \in Tasks : Held(t)' =>
           \/ Held(t) /\ (t \in currTasks => t \in currTasks')
                      /\ (future'[t] = future[t] \/ future'[t] = "cancelled")
           \/ t \in currTasks' /\ future'[t] = "pending",
         \A t \in Tasks : Over(t) => Over(t)',
         \A t : Reports(t)' => Reports(t) \/ Over(t)'
  PROVE  HoldInv'
<1>1. HeldOpen'
  BY DEF HoldInv, HeldOpen
<1>2. \A t : Reports(t) => Over(t)
  BY DEF HoldInv, ReportsOK, Reports
<1>3. \A t : Over(t) => t \in Tasks
  BY DEF Over
<1>4. \A t : Reports(t)' => Over(t)'
  BY <1>2, <1>3
<1>5. ReportsOK'
  BY <1>4 DEF ReportsOK, Reports
<1>6. QED
  BY <1>1, <1>5 DEF HoldInv

\* A step of _async_run keeps tasks in one hand.
LEMMA WorkerKeepsHoldInv ==
  ASSUME TypeOK, RequestsClose, HoldInv, NEW w \in Workers, WorkerStep(w) \/ TimeOut(w),
         UNCHANGED currTasks
  PROVE  HoldInv'
<1>1. HeldOnce
  BY DEF HoldInv
<1>2. UNCHANGED future
  BY PassiveSteps, AnswerMoves
<1>3. HeldOnce' /\ \A t : Held(t)' <=> Held(t)
  <2>1. UNCHANGED <<taskBus, active, abandoned>> \/ TakeTask(w) \/ Boot(w)
    BY PassiveSteps, AnswerMoves
  <2>2. QED
    BY <1>1, <2>1, HeldStay, TakeMoves, BootMoves
<1>4. \A t : Reports(t)' => Reports(t)
  <2>1. CASE MovesAnswers(w)
    <3>1. \A v \in Workers :
            v # w => /\ EndsOn(finished'[v]) = EndsOn(finished[v])
                     /\ EndOf(response'[v]) = EndOf(response[v])
      BY <2>1, EndsMove
    <3>2. /\ EndsOn(finished'[w]) \cup EndOf(response'[w])
               \subseteq EndsOn(finished[w]) \cup EndOf(response[w])
          /\ EndsOn(responseBus') \subseteq EndsOn(responseBus) \cup EndsOn(finished[w])
      BY <2>1, EndsMove
    <3>3. QED
      BY <3>1, <3>2 DEF Reports
  <2>2. CASE ~MovesAnswers(w)
    BY <2>2, PassiveSteps DEF Reports
  <2>3. QED
    BY <2>1, <2>2
<1>5. \A t \in Tasks : Over(t) => Over(t)'
  BY <1>2, <1>3 DEF Over, Resolved
<1>6. QED
  BY <1>2, <1>3, <1>4, <1>5, HoldStays

\* What the end of a coroutine says, and what becomes of the future.
LEMMA CoroutineEnds ==
  ASSUME TypeOK, HoldInv, NEW w \in Workers, NEW t \in Tasks, RunCoroutine(w, t)
  PROVE  /\ UNCHANGED <<responseBus, response, pc, abandoned>>
         /\ \A v \in Workers : v # w => finished'[v] = finished[v]
         /\ t \in currTasks /\ \A u \in Tasks : u # t => future'[u] = future[u]
         /\ \/ /\ "cancel" \in Outcomes /\ UNCHANGED future
               /\ finished'[w] = Append(finished[w], None)
            \/ \E r \in Responses :
                 /\ EndOf(r) = {t} /\ r # None
                 /\ finished'[w] = Append(finished[w], r)
                 /\ Resolved(t)'
                 /\ \/ /\ future[t] = "pending" /\ UNCHANGED raised
                       /\ \E o \in {"result", "exception"} :
                            future' = [future EXCEPT ![t] = o]
                    \/ future[t] = "cancelled" /\ UNCHANGED future
<1> USE DEF TypeOK, PoolStateTypeOK, AsyncWorkerTypeOK
<1>1. PICK o \in Outcomes \ {"exit"} :
        LET sets == o # "cancel" /\ Settable(t)
        IN  /\ future' = IF sets THEN [future EXCEPT ![t] = o] ELSE future
            /\ raised' = [raised EXCEPT ![w] = IF sets THEN @ ELSE @ \cup {t}]
            /\ finished' = [finished EXCEPT ![w] =
                 Append(@, IF o = "cancel" THEN None ELSE Action({FlagOf(o)}, t, w))]
  BY DEF RunCoroutine
<1>2. o \in {"result", "exception", "cancel"}
  BY AsyncWorkerAssumption
<1>3. /\ UNCHANGED <<responseBus, response, pc, abandoned>>
      /\ \A v \in Workers : v # w => finished'[v] = finished[v]
      /\ \A u \in Tasks : u # t => future'[u] = future[u]
  BY <1>1 DEF RunCoroutine, busVars, flagVars
<1>4. t \in currTasks /\ future[t] \in {"pending", "cancelled"}
  BY EndMoves DEF HoldInv, HeldOpen
<1>5. CASE o = "cancel"
  BY <1>1, <1>3, <1>4, <1>5
<1>6. CASE o # "cancel"
  <2> DEFINE r == Action({FlagOf(o)}, t, w)
  <2>1. r \in Responses
    BY ActionType DEF FlagOf, Flags
  <2>2. EndOf(r) = {t} /\ r # None
    BY EndFacts DEF FlagOf, Action, None
  <2>3. finished'[w] = Append(finished[w], r)
    BY <1>1, <1>6
  <2> HIDE DEF r
  <2>4. CASE future[t] = "pending"
    <3>1. future' = [future EXCEPT ![t] = o] /\ UNCHANGED raised
      BY <1>1, <1>6, <2>4 DEF Settable
    <3>2. future'[t] = o
      BY <3>1
    <3>3. QED
      BY <1>2, <1>3, <1>4, <1>6, <2>1, <2>2, <2>3, <2>4, <3>1, <3>2 DEF Resolved
  <2>5. CASE future[t] = "cancelled"
    <3>1. UNCHANGED future
      BY <1>1, <2>5 DEF Settable
    <3>2. QED
      BY <1>3, <1>4, <2>1, <2>2, <2>3, <2>5, <3>1 DEF Resolved
  <2>6. QED
    BY <1>4, <2>4, <2>5
<1>7. QED
  BY <1>5, <1>6

\* The end of a coroutine keeps tasks in one hand: what it reports is over.
LEMMA CoroutineKeepsHoldInv ==
  ASSUME TypeOK, HoldInv, NEW w \in Workers, NEW t \in Tasks,
         RunCoroutine(w, t) \/ ExitCoroutine(w, t), UNCHANGED currTasks
  PROVE  HoldInv'
<1>1. HeldOnce' /\ Held(t) /\ \A u : Held(u)' <=> Held(u) /\ u # t
  BY EndMoves DEF HoldInv
<1>2. /\ t \in currTasks /\ \A u \in Tasks : u # t => future'[u] = future[u]
      /\ future[t] \in {"pending", "cancelled"}
  BY <1>1, CoroutineEnds DEF HoldInv, HeldOpen, ExitCoroutine
<1>3. \A u \in Tasks : Over(u) => Over(u)'
  BY <1>1, <1>2 DEF Over, Resolved
<1>4. \A u : Reports(u)' => Reports(u) \/ Over(u)'
  <2>1. CASE RunCoroutine(w, t)
    <3>1. /\ UNCHANGED <<responseBus, response>>
          /\ \A v \in Workers : v # w => finished'[v] = finished[v]
      BY <2>1, CoroutineEnds
    <3>2. finished[w] \in Seq(Responses)
      BY DEF TypeOK, AsyncWorkerTypeOK
    <3>3. CASE finished'[w] = Append(finished[w], None)
      <4>1. EndsOn(finished'[w]) = EndsOn(finished[w])
        BY <3>2, <3>3, AppendEnds, NoneType, EndFacts
      <4>2. QED
        BY <3>1, <4>1 DEF Reports
    <3>4. CASE \E r \in Responses : EndOf(r) = {t} /\ Resolved(t)'
                                    /\ finished'[w] = Append(finished[w], r)
      <4>1. EndsOn(finished'[w]) = EndsOn(finished[w]) \cup {t}
        BY <3>2, <3>4, AppendEnds
      <4>2. Over(t)'
        BY <1>1, <3>4 DEF Over
      <4>3. QED
        BY <3>1, <4>1, <4>2 DEF Reports
    <3>5. QED
      BY <2>1, <3>3, <3>4, CoroutineEnds
  <2>2. CASE ExitCoroutine(w, t)
    <3>1. /\ UNCHANGED <<responseBus, finished>>
          /\ \A v \in Workers : response'[v] = response[v] \/ EndOf(response'[v]) = {}
      BY <2>2, EndFacts DEF ExitCoroutine, DieAsync, busVars, TypeOK, AsyncWorkerTypeOK
    <3>2. QED
      BY <3>1 DEF Reports
  <2>3. QED
    BY <2>1, <2>2
<1>5. QED
  BY <1>1, <1>2, <1>3, <1>4, HoldStays

\* What TakeResponse does to the entries and to the reports; a manager that is
\* killed in the middle of it may leave the entry.
LEMMA TakesReport ==
  ASSUME TypeOK, TakeResponse \/ KilledConsuming
  PROVE  /\ responseBus # <<>> /\ Head(responseBus) \in Responses
         /\ currTasks' \in {currTasks, currTasks \ EndOf(Head(responseBus))}
         /\ TakeResponse => currTasks' = currTasks \ EndOf(Head(responseBus))
         /\ EndsOn(responseBus) = EndsOn(responseBus') \cup EndOf(Head(responseBus))
         /\ DistinctEnds(responseBus) =>
              /\ DistinctEnds(responseBus')
              /\ EndsOn(responseBus') \cap EndOf(Head(responseBus)) = {}
         /\ UNCHANGED <<taskBus, future>>
<1>1. /\ responseBus \in Seq(Responses) /\ responseBus # <<>>
      /\ responseBus' = Tail(responseBus)
      /\ currTasks' \in {currTasks, TasksAfter(Head(responseBus))}
      /\ TakeResponse => currTasks' = TasksAfter(Head(responseBus))
      /\ UNCHANGED <<taskBus, future>>
  BY DEF TakeResponse, KilledConsuming, TypeOK, PoolStateTypeOK
<1>2. TasksAfter(Head(responseBus)) = currTasks \ EndOf(Head(responseBus))
  BY DEF TasksAfter, EndOf
<1>3. QED
  BY <1>1, <1>2, TailEnds

\* A manager that is killed takes no step, and is no more once it is killed.
LEMMA KilledStops ==
  ASSUME ManagerStep \/ ManagerIdleOut \/ ManagerKilled \/ KilledConsuming
  PROVE  mpc # "killed" /\ (KilledConsuming => mpc' = "killed")
<1>1. KilledConsuming => mpc' = "killed"
  BY DEF KilledConsuming
<1>2. mpc # "killed"
  BY DEF ManagerStep, ManagerIdleOut, ManagerKilled, KilledConsuming, ManagerAlive,
         ManagerBoot, ManagerCheck, BusDrained, ConsumeFails, ConsumeResponse,
         TakeResponse, ManagerDown, StopFlag, StopAlive, StopJoin, StopJoined, StopDone,
         RestartWorker, RestartReturns, IterationFails, CloseWorker, CloseDone,
         HaltWorker, ManagerEnd
<1>3. QED
  BY <1>1, <1>2

\* The manager forgets a task only when a report says that it has ended.
LEMMA ManagerKeepsHoldInv ==
  ASSUME TypeOK, HoldInv, ManagerStep \/ ManagerIdleOut \/ ManagerKilled \/ KilledConsuming,
         UNCHANGED workerLocals
  PROVE  HoldInv'
<1>1. /\ UNCHANGED <<taskBus, future, active, abandoned, finished, response>>
      /\ UNCHANGED <<responseBus, currTasks>> \/ TakeResponse \/ KilledConsuming
  BY ManagerChanges DEF workerLocals
<1>2. HeldOnce' /\ \A t : Held(t)' <=> Held(t)
  BY <1>1, HeldStay DEF HoldInv
<1>3. \A t \in Tasks : Over(t) => Over(t)'
  BY <1>1, <1>2 DEF Over, Resolved
<1>4. CASE UNCHANGED <<responseBus, currTasks>>
  <2>1. \A t : Reports(t)' => Reports(t)
    BY <1>1, <1>4 DEF Reports
  <2>2. QED
    BY <1>1, <1>2, <1>3, <1>4, <2>1, HoldStays
<1>5. CASE TakeResponse \/ KilledConsuming
  <2>1. \A t : Reports(t)' => Reports(t)
    BY <1>1, <1>5, TakesReport DEF Reports
  <2>2. \A t \in Tasks : Held(t) => t \notin EndOf(Head(responseBus))
    BY <1>5, TakesReport DEF HoldInv, ReportsOK, Over
  <2>3. \A t \in Tasks : Held(t) /\ t \in currTasks => t \in currTasks'
    BY <1>5, <2>2, TakesReport
  <2>4. QED
    BY <1>1, <1>2, <1>3, <2>1, <2>3, HoldStays
<1>6. QED
  BY <1>1, <1>4, <1>5

\* A client queues what nobody holds.
LEMMA ClientKeepsHoldInv ==
  ASSUME TypeOK, QueuedIsNew, HoldInv, NEW c \in Clients, ClientStep(c) \/ ClientCall(c),
         UNCHANGED workerLocals
  PROVE  HoldInv'
<1>1. /\ UNCHANGED <<responseBus, active, abandoned, finished, response>>
      /\ \/ UNCHANGED <<taskBus, currTasks, future>>
         \/ Queue(c)
         \/ \E t \in Tasks : Submit(c, t)
  BY ClientChanges DEF workerLocals
<1>2. \A t : Reports(t)' => Reports(t)
  BY <1>1 DEF Reports
<1>3. CASE UNCHANGED <<taskBus, currTasks, future>>
  <2>1. HeldOnce' /\ \A t : Held(t)' <=> Held(t)
    BY <1>1, <1>3, HeldStay DEF HoldInv
  <2>2. \A t \in Tasks : Over(t) => Over(t)'
    BY <1>3, <2>1 DEF Over, Resolved
  <2>3. QED
    BY <1>2, <1>3, <2>1, <2>2, HoldStays
<1>4. CASE Queue(c)
  <2> DEFINE t == cTask[c]
  <2>1. t \in Tasks /\ future[t] = "unsubmitted"
    BY <1>4 DEF Queue, QueuedIsNew
  <2>2. ~Held(t)
    BY <2>1 DEF HoldInv, HeldOpen
  <2>3. /\ future' = [future EXCEPT ![t] = "pending"] /\ future \in [Tasks -> FutureStates]
        /\ currTasks' = currTasks \cup {t}
    BY <1>4 DEF Queue, TypeOK, PoolStateTypeOK
  <2>4. HeldOnce' /\ \A u : Held(u)' <=> Held(u) \/ u = t
    BY <1>4, <2>1, <2>2, QueueMoves DEF HoldInv
  <2>5. \A u \in Tasks : u # t => future'[u] = future[u]
    BY <2>3
  <2>6. future'[t] = "pending"
    BY <2>1, <2>3
  <2>7. \A u \in Tasks : Over(u) => Over(u)'
    BY <2>1, <2>4, <2>5 DEF Over, Resolved
  <2>8. \A u \in Tasks : Held(u)' =>
          \/ Held(u) /\ (u \in currTasks => u \in currTasks') /\ future'[u] = future[u]
          \/ u \in currTasks' /\ future'[u] = "pending"
    BY <2>3, <2>4, <2>5, <2>6
  <2>9. QED
    BY <1>2, <2>4, <2>7, <2>8, HoldStays
<1>5. CASE \E t \in Tasks : Submit(c, t)
  <2>1. PICK t \in Tasks : Submit(c, t)
    BY <1>5
  <2>2. /\ UNCHANGED <<taskBus, currTasks>> /\ future[t] = "unsubmitted"
        /\ UNCHANGED future \/ future' = [future EXCEPT ![t] = "rejected"]
    BY <2>1 DEF Submit, busVars, tableVars
  <2>3. HeldOnce' /\ \A u : Held(u)' <=> Held(u)
    BY <1>1, <2>2, HeldStay DEF HoldInv
  <2>4. \A u \in Tasks : u # t => future'[u] = future[u]
    BY <2>2 DEF TypeOK, PoolStateTypeOK
  <2>5. ~Held(t)
    BY <2>2 DEF HoldInv, HeldOpen
  <2>6. \A u \in Tasks : Over(u) => Over(u)'
    BY <2>2, <2>3, <2>4 DEF Over, Resolved
  <2>7. QED
    BY <1>2, <2>2, <2>3, <2>4, <2>5, <2>6, HoldStays
<1>6. QED
  BY <1>1, <1>3, <1>4, <1>5

\* A cancelled future is one of those a held task may have.
LEMMA CancelKeepsHoldInv ==
  ASSUME TypeOK, HoldInv, \E t \in Tasks : Cancel(t), UNCHANGED workerLocals
  PROVE  HoldInv'
<1>1. PICK t \in Tasks : Cancel(t)
  OBVIOUS
<1>2. /\ UNCHANGED <<taskBus, responseBus, currTasks, active, abandoned, finished, response>>
      /\ future[t] = "pending" /\ future' = [future EXCEPT ![t] = "cancelled"]
      /\ future \in [Tasks -> FutureStates]
  BY <1>1 DEF Cancel, CancelFuture, busVars, tableVars, workerLocals, TypeOK,
              PoolStateTypeOK
<1>3. HeldOnce' /\ \A u : Held(u)' <=> Held(u)
  BY <1>2, HeldStay DEF HoldInv
<1>4. \A u \in Tasks : future'[u] = future[u] \/ future'[u] = "cancelled"
  BY <1>2
<1>5. \A u \in Tasks : Over(u) => Over(u)'
  BY <1>3, <1>4 DEF Over, Resolved
<1>6. \A u : Reports(u)' => Reports(u)
  BY <1>2 DEF Reports
<1>7. QED
  BY <1>2, <1>3, <1>4, <1>5, <1>6, HoldStays

-----------------------------------------------------------------------------
\* What a worker does to what it shares with the manager and the clients.
LEMMA LoopKeepsOK ==
  ASSUME TypeOK, ManagerOK, NEW w \in Workers, WorkerStep(w) \/ TimeOut(w),
         UNCHANGED <<tableVars, managerVars, clientVars>>
  PROVE  ManagerOK'
<1> USE DEF TypeOK, PoolStateTypeOK
<1>1. UNCHANGED future
  BY PassiveSteps, AnswerMoves DEF ManagerOK
<1>2. /\ UNCHANGED requestBus
           \/ (requestBus[w] # <<>> /\ requestBus' = [requestBus EXCEPT ![w] = Tail(@)])
      /\ UNCHANGED thread
           \/ (thread' = [thread EXCEPT ![w] = FALSE] /\ pc'[w] = "ended")
  BY DEF WorkerStep, TimeOut, Boot, MarkIdle, HandleRequest, NoRequest, CheckRunning,
         TakeTask, CreateTask, StopTaking, EndTurn, CollectFails, CollectAndContinue,
         CollectAndRestart, CollectAnswer, CollectDone, Await, AwaitReturns, AwaitFails,
         Flush, FlushAnswer, ClearThread, Goto, busVars, flagVars
<1>3. ThreadAlive(w)
  BY DEF WorkerStep, TimeOut, Boot, MarkIdle, HandleRequest, NoRequest, CheckRunning,
         TakeTask, CreateTask, StopTaking, EndTurn, CollectFails, CollectAndContinue,
         CollectAndRestart, CollectAnswer, CollectDone, Await, AwaitReturns, AwaitFails,
         Flush, FlushAnswer, ClearThread, Collects, Awaited, ThreadAlive
<1>4. \E label : label # "unborn" /\ pc' = [pc EXCEPT ![w] = label]
  <2>1. CASE UNCHANGED pc
    <3>1. pc' = [pc EXCEPT ![w] = pc[w]]
      BY <2>1
    <3>2. QED
      BY <1>3, <3>1 DEF ThreadAlive
  <2>2. CASE ~UNCHANGED pc
    <3>1. \E label \in {"top", "requests", "wait", "check", "get", "begin", "run",
                        "collect", "await", "flush", "ended", "died"} : Goto(w, label)
      BY <2>2
         DEF WorkerStep, TimeOut, Boot, MarkIdle, HandleRequest, NoRequest, CheckRunning,
             TakeTask, CreateTask, StopTaking, EndTurn, CollectFails, CollectAndContinue,
             CollectAndRestart, CollectDone, Await, AwaitReturns, AwaitFails,
             Flush, FlushAnswer, ClearThread, DieAsync, flagVars
    <3>2. QED
      BY <3>1 DEF Goto
  <2>3. QED
    BY <2>1, <2>2
<1>5. \A t \in Tasks : future'[t] = future[t] \/ (Submitted(t) /\ Submitted(t)')
  BY <1>1
<1>6. QED
  BY <1>2, <1>3, <1>4, <1>5, WorkerKeepsOK DEF SharedTypeOK

\* Nor does the end of a coroutine disturb it.
LEMMA CoroutineKeepsOK ==
  ASSUME TypeOK, ManagerOK, HoldInv, NEW w \in Workers, NEW t \in Tasks,
         RunCoroutine(w, t) \/ ExitCoroutine(w, t),
         UNCHANGED <<tableVars, managerVars, clientVars>>
  PROVE  ManagerOK'
<1> USE DEF TypeOK, PoolStateTypeOK
<1>1. ThreadAlive(w) /\ UNCHANGED <<requestBus, thread>>
  BY DEF RunCoroutine, ExitCoroutine, InLoop, ThreadAlive, busVars, flagVars
<1>2. \E label : label # "unborn" /\ pc' = [pc EXCEPT ![w] = label]
  <2>1. CASE UNCHANGED pc
    <3>1. pc' = [pc EXCEPT ![w] = pc[w]]
      BY <2>1
    <3>2. QED
      BY <1>1, <3>1 DEF ThreadAlive
  <2>2. CASE pc' = [pc EXCEPT ![w] = "died"]
    BY <2>2
  <2>3. QED
    BY <2>1, <2>2 DEF RunCoroutine, ExitCoroutine, DieAsync, Goto, flagVars
<1>3. \A u \in Tasks : future'[u] = future[u] \/ (Submitted(u) /\ Submitted(u)')
  <2>1. CASE ExitCoroutine(w, t)
    BY <2>1 DEF ExitCoroutine
  <2>2. CASE RunCoroutine(w, t)
    <3>1. \A u \in Tasks : u # t => future'[u] = future[u]
      BY <2>2, CoroutineEnds
    <3>2. future' = future \/ (future[t] = "pending" /\ Resolved(t)')
      BY <2>2, CoroutineEnds
    <3>3. QED
      BY <3>1, <3>2 DEF Submitted, Resolved
  <2>3. QED
    BY <2>1, <2>2
<1>4. QED
  BY <1>1, <1>2, <1>3, WorkerKeepsOK DEF SharedTypeOK

\* The three invariants on which the others rest.
CoreInv == TypeOK /\ ManagerOK /\ HoldInv

\* Every step keeps them.
LEMMA StepKeepsCore == CoreInv /\ [Next]_vars => CoreInv'
<1> SUFFICES ASSUME CoreInv, [Next]_vars PROVE ManagerOK' /\ HoldInv'
  BY StepKeepsType DEF CoreInv
<1> USE DEF CoreInv
<1>1. SharedTypeOK /\ RequestsClose /\ QueuedIsNew
  BY DEF TypeOK, SharedTypeOK, ManagerOK
<1>2. ASSUME NEW w \in Workers, RunWorker(w) \/ WorkerGivesUp(w)
      PROVE  ManagerOK' /\ HoldInv'
  BY <1>1, <1>2, LoopKeepsOK, WorkerKeepsHoldInv DEF RunWorker, WorkerGivesUp, tableVars
<1>3. ASSUME NEW w \in Workers, NEW t \in Tasks, EndCoroutine(w, t)
      PROVE  ManagerOK' /\ HoldInv'
  BY <1>3, CoroutineKeepsOK, CoroutineKeepsHoldInv DEF EndCoroutine, tableVars
<1>4. CASE RunManager \/ ManagerGivesUp
  BY <1>1, <1>4, ManagerKeepsOK, ManagerKeepsHoldInv DEF RunManager, ManagerGivesUp
<1>5. ASSUME NEW c \in Clients, RunClient(c) \/ ClientCalls(c)
      PROVE  ManagerOK' /\ HoldInv'
  BY <1>1, <1>5, ClientKeepsOK, ClientKeepsHoldInv DEF RunClient, ClientCalls
<1>6. CASE CancelTask
  BY <1>1, <1>6, CancelKeepsOK, CancelKeepsHoldInv DEF CancelTask
<1>7. CASE UNCHANGED vars
  <2>1. UNCHANGED <<poolVars, workerLocals, tableVars, managerVars, clientVars>>
    BY <1>7 DEF vars
  <2>2. UNCHANGED <<taskBus, active, abandoned, responseBus, response, finished, future,
                    currTasks>>
    BY <2>1 DEF poolVars, busVars, workerLocals, tableVars
  <2>3. HeldOnce' /\ \A t : Held(t)' <=> Held(t)
    BY <2>2, HeldStay DEF HoldInv
  <2>4. \A t : Reports(t)' => Reports(t)
    BY <2>2 DEF Reports
  <2>5. \A t \in Tasks : Over(t) => Over(t)'
    BY <2>2, <2>3 DEF Over, Resolved
  <2>6. HoldInv'
    BY <2>2, <2>3, <2>4, <2>5, HoldStays
  <2>7. QED
    BY <1>1, <2>1, <2>6, CancelKeepsOK
<1>8. QED
  BY <1>2, <1>3, <1>4, <1>5, <1>6, <1>7 DEF Next, Terminated

\* A pool that nobody has started satisfies them.
LEMMA InitCore == Init => CoreInv
<1> SUFFICES ASSUME Init PROVE ManagerOK /\ HoldInv
  BY InitType DEF CoreInv
<1>1. ManagerOK
  BY InitOK DEF Init
<1>2. ToSet(<<>>) = {} /\ EndsOn(<<>>) = {} /\ Distinct(<<>>)
  BY DEF ToSet, EndsOn, Distinct
<1>3. /\ taskBus = <<>> /\ responseBus = <<>>
      /\ \A w \in Workers : /\ active[w] = <<>> /\ finished[w] = <<>>
                            /\ abandoned[w] = {} /\ response[w] = None
  BY DEF Init, PoolStateInit, AsyncWorkerInit
<1>4. \A w \in Workers : HeldBy(w) = {}
  BY <1>2, <1>3 DEF HeldBy
<1>5. HeldOnce /\ HeldOpen
  BY <1>2, <1>3, <1>4 DEF HeldOnce, HeldOpen, Held
<1>6. ReportsOK
  BY <1>2, <1>3, EndFacts DEF ReportsOK
<1>7. QED
  BY <1>1, <1>5, <1>6 DEF HoldInv

\* They hold in every state of the pool.
LEMMA CoreAlways == Spec => []CoreInv
  BY InitCore, StepKeepsCore, PTL DEF Spec

-----------------------------------------------------------------------------
(***************************************************************************)
(* What idle means.                                                        *)
(***************************************************************************)
IdleTrue(w) ==
  /\ pc[w] \in {"wait", "await", "flush", "ended"} => ~running[w]
  /\ IsIdle(w) /\ pc[w] # "begin" => Free(w)

\* curr_coroutines counts what the worker still has.
LEMMA LengthsZero ==
  ASSUME NEW S, NEW s \in Seq(S), NEW R, NEW r \in Seq(R)
  PROVE  Len(s) + Len(r) = 0 <=> s = <<>> /\ r = <<>>
<1>1. Len(s) \in Nat /\ (Len(s) = 0 <=> s = <<>>)
  OBVIOUS
<1>2. Len(r) \in Nat /\ (Len(r) = 0 <=> r = <<>>)
  OBVIOUS
<1>3. \A m, n \in Nat : m + n = 0 <=> m = 0 /\ n = 0
  OBVIOUS
<1>4. QED
  BY <1>1, <1>2, <1>3

\* curr_coroutines is 0 when nothing runs and nothing waits to be collected.
LEMMA FreeCount ==
  ASSUME TypeOK, NEW w \in Workers
  PROVE  CurrCoroutines(w) = 0 <=> Free(w)
<1>1. active[w] \in Seq(Tasks) /\ finished[w] \in Seq(Responses)
  BY DEF TypeOK, AsyncWorkerTypeOK
<1>2. QED
  BY <1>1, LengthsZero DEF CurrCoroutines, Free

\* IdleInv, worker by worker; and a step of one worker leaves the others' alone.
LEMMA IdleParts ==
  ASSUME TypeOK
  PROVE  IdleInv <=> \A w \in Workers : IdleTrue(w)
  BY FreeCount DEF IdleInv, IdleIsFree, IdleTrue

\* Stopping a worker, or giving it a new thread, does not make it seem idle.
LEMMA IdleStays ==
  ASSUME TypeOK, TypeOK', IdleInv,
         \A v \in Workers :
           \/ IdleTrue(v)'
           \/ /\ idle'[v] = idle[v] /\ active'[v] = active[v] /\ finished'[v] = finished[v]
              /\ running'[v] \in {running[v], FALSE}
              /\ pc'[v] = pc[v] \/ (pc[v] # "begin" /\ pc'[v] = "boot")
  PROVE  IdleInv'
<1>1. \A v \in Workers : IdleTrue(v)
  BY IdleParts
<1>2. \A v \in Workers : IdleTrue(v)'
  BY <1>1 DEF IdleTrue, IsIdle, Free
<1>3. IdleInv' <=> \A v \in Workers : IdleTrue(v)'
  <2>1. \A v \in Workers : (CurrCoroutines(v) = 0)' <=> Free(v)'
    <3>1. TAKE v \in Workers
    <3>2. active'[v] \in Seq(Tasks) /\ finished'[v] \in Seq(Responses)
      BY DEF TypeOK, AsyncWorkerTypeOK
    <3>3. QED
      BY <3>2, LengthsZero DEF CurrCoroutines, Free
  <2>2. QED
    BY <2>1 DEF IdleInv, IdleIsFree, IdleTrue
<1>4. QED
  BY <1>2, <1>3

\* A worker that is not idle has something to run or to answer.
LEMMA LoopKeepsIdle ==
  ASSUME TypeOK, IdleInv, NEW w \in Workers, WorkerStep(w) \/ TimeOut(w)
  PROVE  /\ IdleTrue(w)'
         /\ \A v \in Workers : v # w =>
              /\ idle'[v] = idle[v] /\ active'[v] = active[v] /\ finished'[v] = finished[v]
              /\ running'[v] = running[v] /\ pc'[v] = pc[v]
<1> USE DEF TypeOK, PoolStateTypeOK, AsyncWorkerTypeOK
<1>1. IdleTrue(w)
  BY IdleParts
<1>2. CASE Boot(w)
  BY <1>2 DEF Boot, Goto, IdleTrue, Free
<1>3. CASE MarkIdle(w)
  BY <1>3, FreeCount DEF MarkIdle, Goto, IdleTrue, IsIdle, Free, workerLocals
<1>4. CASE TimeOut(w)
  BY <1>4 DEF TimeOut, Goto, IdleTrue, IsIdle, coroutines
<1>5. CASE TakeTask(w)
  BY <1>5 DEF TakeTask, Goto, IdleTrue
<1>6. CASE CreateTask(w)
  BY <1>6 DEF CreateTask, Goto, IdleTrue, IsIdle, coroutines
<1>7. CASE HandleRequest(w) \/ NoRequest(w) \/ CheckRunning(w) \/ StopTaking(w)
           \/ EndTurn(w) \/ CollectDone(w) \/ Await(w) \/ AwaitReturns(w)
           \/ AwaitFails(w) \/ ClearThread(w)
  <2>1. /\ UNCHANGED <<running, idle, active, finished>> /\ pc[w] # "begin"
        /\ \A v \in Workers : v # w => pc'[v] = pc[v]
    BY <1>7 DEF HandleRequest, NoRequest, CheckRunning, StopTaking, EndTurn, CollectDone,
                Await, AwaitReturns, AwaitFails, ClearThread, DieAsync, Awaited, Goto,
                workerLocals, coroutines
  <2>2. pc'[w] \in {"wait", "await", "flush", "ended"} => ~running[w]
    <3>1. CASE HandleRequest(w) \/ NoRequest(w) \/ StopTaking(w) \/ EndTurn(w)
               \/ AwaitFails(w)
      <4>1. pc'[w] \in {"check", "requests", "run", "collect", "died"}
        BY <3>1 DEF HandleRequest, NoRequest, StopTaking, EndTurn, AwaitFails, DieAsync,
                    Goto
      <4>2. QED
        BY <4>1
    <3>2. CASE CheckRunning(w) \/ CollectDone(w)
      <4>1. running[w] => pc'[w] \in {"get", "top"}
        BY <3>2 DEF CheckRunning, CollectDone, Goto
      <4>2. QED
        BY <4>1
    <3>3. CASE Await(w) \/ AwaitReturns(w) \/ ClearThread(w)
      BY <1>1, <3>3 DEF Await, AwaitReturns, Awaited, ClearThread, IdleTrue
    <3>4. QED
      BY <1>7, <3>1, <3>2, <3>3
  <2>3. QED
    BY <1>1, <2>1, <2>2 DEF IdleTrue, IsIdle, Free
<1>8. CASE CollectFails(w) \/ CollectAndContinue(w) \/ CollectAndRestart(w)
  <2>1. /\ finished[w] # <<>> /\ pc[w] = "collect" /\ UNCHANGED <<idle, active>>
        /\ \A v \in Workers : v # w => /\ finished'[v] = finished[v]
                                       /\ pc'[v] = pc[v] /\ running'[v] = running[v]
    BY <1>8 DEF CollectFails, CollectAndContinue, CollectAndRestart, CollectAnswer,
                Collects, DieAsync, Goto
  <2>2. ~IsIdle(w)
    BY <1>1, <2>1 DEF IdleTrue, Free
  <2>3. \/ running'[w] = running[w] /\ pc'[w] \in {"collect", "died"}
        \/ ~running'[w]
    BY <1>8, <2>1 DEF CollectFails, CollectAndContinue, CollectAndRestart, DieAsync, Goto
  <2>4. QED
    BY <2>1, <2>2, <2>3 DEF IdleTrue, IsIdle
<1>9. CASE Flush(w) \/ FlushAnswer(w)
  <2>1. /\ pc[w] \in {"wait", "flush"} /\ UNCHANGED <<idle, active, running>>
        /\ \A v \in Workers : v # w => finished'[v] = finished[v] /\ pc'[v] = pc[v]
    BY <1>9 DEF Flush, FlushAnswer, Goto, flagVars
  <2>2. ~running'[w]
    BY <1>1, <2>1 DEF IdleTrue
  <2>3. QED
    BY <2>1, <2>2 DEF IdleTrue, IsIdle
<1>10. QED
  BY <1>2, <1>3, <1>4, <1>5, <1>6, <1>7, <1>8, <1>9 DEF WorkerStep

\* Every step keeps what idle means.
LEMMA StepKeepsIdle == CoreInv /\ IdleInv /\ [Next]_vars => IdleInv'
<1> SUFFICES ASSUME CoreInv, IdleInv, [Next]_vars PROVE IdleInv'
  OBVIOUS
<1>1. TypeOK /\ TypeOK'
  BY StepKeepsType DEF CoreInv
<1>2. ASSUME NEW w \in Workers, RunWorker(w) \/ WorkerGivesUp(w)
      PROVE  IdleInv'
  BY <1>1, <1>2, LoopKeepsIdle, IdleStays DEF RunWorker, WorkerGivesUp
<1>3. ASSUME NEW w \in Workers, NEW t \in Tasks, EndCoroutine(w, t)
      PROVE  IdleInv'
  <2>1. /\ active[w] # <<>> /\ pc[w] \in {"run", "await"} /\ UNCHANGED <<running, idle>>
        /\ \A v \in Workers : v # w => /\ active'[v] = active[v]
                                       /\ finished'[v] = finished[v] /\ pc'[v] = pc[v]
        /\ pc'[w] \in {pc[w], "died"}
    <3>1. active \in [Workers -> Seq(Tasks)] /\ finished \in [Workers -> Seq(Responses)]
          /\ pc = [v \in Workers |-> pc[v]]
      BY <1>1 DEF TypeOK, AsyncWorkerTypeOK, PoolStateTypeOK
    <3>2. active[w] # <<>> /\ pc[w] \in {"run", "await"}
      BY <1>3 DEF EndCoroutine, RunCoroutine, ExitCoroutine, InLoop, ToSet
    <3>3. /\ UNCHANGED <<running, idle>>
          /\ \A v \in Workers : v # w => /\ active'[v] = active[v]
                                         /\ finished'[v] = finished[v]
      BY <1>3, <3>1 DEF EndCoroutine, RunCoroutine, ExitCoroutine, flagVars
    <3>4. pc' = pc \/ pc' = [pc EXCEPT ![w] = "died"]
      BY <1>3 DEF EndCoroutine, RunCoroutine, ExitCoroutine, DieAsync, Goto, flagVars
    <3>5. QED
      BY <3>1, <3>2, <3>3, <3>4
  <2>2. IdleTrue(w)
    BY <1>1, IdleParts
  <2>3. IdleTrue(w)'
    BY <2>1, <2>2 DEF IdleTrue, IsIdle, Free
  <2>4. QED
    BY <1>1, <2>1, <2>3, IdleStays
<1>4. CASE RunManager \/ ManagerGivesUp
  <2>1. /\ UNCHANGED <<idle, active, finished>>
        /\ UNCHANGED running \/ StopFlag
        /\ UNCHANGED pc \/ (RestartWorker /\ StartThread(handled))
    BY <1>4, ManagerChanges DEF RunManager, ManagerGivesUp, workerLocals
  <2>2. \A v \in Workers : running'[v] \in {running[v], FALSE}
    BY <1>1, <2>1 DEF StopFlag, TypeOK, PoolStateTypeOK
  <2>3. \A v \in Workers : pc'[v] = pc[v] \/ (pc[v] # "begin" /\ pc'[v] = "boot")
    <3>1. CASE UNCHANGED pc
      BY <3>1
    <3>2. CASE RestartWorker /\ StartThread(handled)
      <4>1. ~ThreadAlive(handled)
        BY <3>2 DEF RestartWorker, CoreInv, ManagerOK, HandledOK
      <4>2. QED
        BY <1>1, <3>2, <4>1 DEF StartThread, ThreadAlive, TypeOK, PoolStateTypeOK
    <3>3. QED
      BY <2>1, <3>1, <3>2
  <2>4. QED
    BY <1>1, <2>1, <2>2, <2>3, IdleStays
<1>5. ASSUME NEW c \in Clients, RunClient(c) \/ ClientCalls(c)
      PROVE  IdleInv'
  <2>1. /\ UNCHANGED <<idle, running, active, finished>>
        /\ UNCHANGED pc \/ SpawnWorker(c)
    BY <1>5, ClientChanges DEF RunClient, ClientCalls, workerLocals
  <2>2. \A v \in Workers : pc'[v] = pc[v] \/ (pc[v] # "begin" /\ pc'[v] = "boot")
    <3>1. CASE UNCHANGED pc
      BY <3>1
    <3>2. CASE SpawnWorker(c)
      <4>1. nextWorker \in Workers => pc[nextWorker] = "unborn"
        BY <1>1 DEF CoreInv, ManagerOK, WorkersNumbered, TypeOK, TableTypeOK
      <4>2. QED
        BY <1>1, <3>2, <4>1 DEF SpawnWorker, StartThread, TypeOK, PoolStateTypeOK
    <3>3. QED
      BY <2>1, <3>1, <3>2
  <2>3. QED
    BY <1>1, <2>1, <2>2, IdleStays
<1>6. CASE CancelTask \/ UNCHANGED vars
  <2>1. UNCHANGED <<idle, running, active, finished, pc>>
    BY <1>6 DEF CancelTask, Cancel, vars, poolVars, flagVars, workerLocals
  <2>2. QED
    BY <1>1, <2>1, IdleStays
<1>7. QED
  BY <1>2, <1>3, <1>4, <1>5, <1>6 DEF Next, Terminated

(***************************************************************************)
(* A worker that counts as idle, on which submit() relies when it decides  *)
(* not to start another, has nothing to run and nothing to answer, except  *)
(* between the get and `state.idle = False`.                               *)
(***************************************************************************)
THEOREM IdleWorkersAreFree == Spec => []IdleIsFree
<1>1. Init => IdleInv
  <2>1. SUFFICES ASSUME Init PROVE IdleInv
    OBVIOUS
  <2>2. \A w \in Workers : pc[w] = "unborn" /\ ~running[w]
    BY <2>1 DEF Init, PoolStateInit
  <2>3. QED
    BY <2>2 DEF IdleInv, IdleIsFree, IsIdle
<1>2. IdleInv => IdleIsFree
  BY DEF IdleInv
<1>3. QED
  BY CoreAlways, StepKeepsIdle, <1>1, <1>2, PTL DEF Spec

-----------------------------------------------------------------------------
(***************************************************************************)
(* An async pool implements TaskContract.  A task is executing from the    *)
(* moment a worker takes it to the end of its coroutine, for ever if the   *)
(* event loop of its coroutine was left.                                   *)
(***************************************************************************)
Executing == UNION {ToSet(active[w]) \cup abandoned[w] : w \in Workers}

\* The tasks the contract calls executing are those that workers hold.
LEMMA ExecutingIsHeld ==
  /\ \A t : t \in Executing <=> \E w \in Workers : t \in HeldBy(w)
  /\ \A t : t \in Executing' <=> \E w \in Workers : t \in HeldBy(w)'
<1>1. \A t : t \in Executing <=> \E w \in Workers : t \in HeldBy(w)
  BY DEF Executing, HeldBy
<1>2. \A t : t \in Executing' <=> \E w \in Workers : t \in HeldBy(w)'
  BY DEF Executing, HeldBy
<1>3. QED
  BY <1>1, <1>2

\* A step that moves no task, forgets none and leaves the futures alone.
LEMMA StutterImplements ==
  ASSUME UNCHANGED <<taskBus, currTasks, future>>,
         \A w \in Workers : HeldBy(w)' = HeldBy(w)
  PROVE  UNCHANGED Contract!vars
<1>1. Executing' = Executing
  BY ExecutingIsHeld
<1>2. QED
  BY <1>1 DEF Executing, Contract!vars

\* A worker takes a task: Start.  Nothing else it does is seen.
LEMMA LoopImplements ==
  ASSUME CoreInv, NEW w \in Workers, RunWorker(w) \/ WorkerGivesUp(w)
  PROVE  [Contract!Next]_(Contract!vars)
<1> USE DEF CoreInv
<1>1. /\ WorkerStep(w) \/ TimeOut(w)
      /\ UNCHANGED <<currTasks, future>> /\ RequestsClose /\ HeldOnce
  BY PassiveSteps, AnswerMoves DEF RunWorker, WorkerGivesUp, tableVars, ManagerOK, HoldInv
<1>2. CASE TakeTask(w)
  <2> DEFINE t == Head(taskBus)
  <2>1. /\ t \in ToSet(taskBus) /\ taskBus # <<>> /\ taskBus' = Tail(taskBus)
        /\ HeldBy(w)' = HeldBy(w) \cup {t}
        /\ \A v \in Workers : v # w => HeldBy(v)' = HeldBy(v)
    BY <1>1, <1>2, TakeMoves
  <2>2. t \notin Executing
    BY <1>1, <2>1, ExecutingIsHeld DEF HeldOnce
  <2>3. Executing' = Executing \cup {t}
    BY <2>1, ExecutingIsHeld
  <2>4. Contract!Start
    BY <1>1, <2>1, <2>2, <2>3 DEF Contract!Start, Executing
  <2>5. QED
    BY <2>4 DEF Contract!Next
<1>3. CASE ~TakeTask(w)
  <2>1. UNCHANGED <<taskBus, active, abandoned>> \/ Boot(w)
    BY <1>1, <1>3, PassiveSteps, AnswerMoves
  <2>2. UNCHANGED taskBus /\ \A v \in Workers : HeldBy(v)' = HeldBy(v)
    BY <1>1, <2>1, HeldStay, BootMoves
  <2>3. QED
    BY <1>1, <2>2, StutterImplements
<1>4. QED
  BY <1>2, <1>3

\* A coroutine ends: End, or Abort if nobody will hear of it.
LEMMA CoroutineImplements ==
  ASSUME CoreInv, NEW w \in Workers, NEW t \in Tasks, EndCoroutine(w, t)
  PROVE  [Contract!Next]_(Contract!vars)
<1> USE DEF CoreInv
<1>1. /\ RunCoroutine(w, t) \/ ExitCoroutine(w, t)
      /\ UNCHANGED currTasks /\ HeldOnce
  BY DEF EndCoroutine, tableVars, HoldInv
<1>2. /\ UNCHANGED taskBus
      /\ t \in HeldBy(w) /\ HeldBy(w)' = HeldBy(w) \ {t}
      /\ \A v \in Workers : v # w => HeldBy(v)' = HeldBy(v) /\ t \notin HeldBy(v)
  BY <1>1, EndMoves
<1>3. t \in Executing /\ Executing' = Executing \ {t}
  BY <1>2, ExecutingIsHeld
<1>4. CASE Outcomes \cap {"exit", "cancel"} # {} /\ UNCHANGED future
  <2>1. {t} \in SUBSET Executing
    BY <1>3
  <2>2. Contract!Abort
    BY <1>1, <1>2, <1>3, <1>4, <2>1 DEF Contract!Abort, Executing
  <2>3. QED
    BY <2>2 DEF Contract!Next
<1>5. CASE \/ /\ future[t] = "pending"
              /\ \E o \in {"result", "exception"} : future' = [future EXCEPT ![t] = o]
           \/ future[t] = "cancelled" /\ UNCHANGED future
  <2>1. Contract!Settle(t)
    BY <1>5 DEF Contract!Settle, Contract!Resolve
  <2>2. Contract!End(t)
    BY <1>1, <1>2, <1>3, <2>1 DEF Contract!End, Executing
  <2>3. QED
    BY <2>2 DEF Contract!Next
<1>6. CASE ExitCoroutine(w, t)
  <2>1. "exit" \in Outcomes /\ UNCHANGED future
    BY <1>6 DEF ExitCoroutine
  <2>2. QED
    BY <1>4, <2>1
<1>7. CASE RunCoroutine(w, t)
  BY <1>4, <1>5, <1>7, CoroutineEnds
<1>8. QED
  BY <1>1, <1>6, <1>7

\* A reported task is forgotten once its future is resolved.
LEMMA ManagerImplements ==
  ASSUME CoreInv, RunManager \/ ManagerGivesUp
  PROVE  [Contract!Next]_(Contract!vars)
<1> USE DEF CoreInv
<1>1. /\ UNCHANGED <<taskBus, future, active, abandoned>>
      /\ UNCHANGED currTasks \/ TakeResponse \/ KilledConsuming
  BY ManagerChanges DEF RunManager, ManagerGivesUp, workerLocals
<1>2. \A w \in Workers : HeldBy(w)' = HeldBy(w)
  BY <1>1, HeldStay
<1>3. CASE UNCHANGED currTasks
  BY <1>1, <1>2, <1>3, StutterImplements
<1>4. CASE (TakeResponse \/ KilledConsuming) /\ ~UNCHANGED currTasks
  <2> DEFINE t == Head(responseBus).task
  <2>1. /\ currTasks' = currTasks \ EndOf(Head(responseBus))
        /\ EndOf(Head(responseBus)) \subseteq EndsOn(responseBus)
    BY <1>4, TakesReport
  <2>2. EndOf(Head(responseBus)) = {t} /\ t \in currTasks
    BY <1>4, <2>1 DEF EndOf
  <2>3. Over(t)
    BY <2>1, <2>2 DEF HoldInv, ReportsOK
  <2>4. t \in Tasks /\ t \notin ToSet(taskBus) /\ t \notin Executing
    BY <2>3, ExecutingIsHeld DEF Over, Held
  <2>5. \A i \in DOMAIN taskBus : taskBus[i] # t
    BY <2>4 DEF ToSet
  <2>6. Executing' = Executing
    BY <1>2, ExecutingIsHeld
  <2>7. Contract!Forget(t)
    BY <1>1, <2>1, <2>2, <2>3, <2>4, <2>5, <2>6
       DEF Contract!Forget, Executing, Over, Resolved
  <2>8. QED
    BY <2>4, <2>7 DEF Contract!Next
<1>5. QED
  BY <1>1, <1>3, <1>4

\* submit() is Accept or Refuse, cancel() is Cancel.
LEMMA ClientImplements ==
  ASSUME CoreInv, NEW c \in Clients, RunClient(c) \/ ClientCalls(c)
  PROVE  [Contract!Next]_(Contract!vars)
<1> USE DEF CoreInv
<1>1. /\ UNCHANGED <<active, abandoned>>
      /\ \/ UNCHANGED <<taskBus, currTasks, future>>
         \/ Queue(c)
         \/ \E t \in Tasks : Submit(c, t)
  BY ClientChanges DEF RunClient, ClientCalls, workerLocals
<1>2. \A w \in Workers : HeldBy(w)' = HeldBy(w)
  BY <1>1 DEF HeldBy
<1>3. Executing' = Executing
  BY <1>2, ExecutingIsHeld
<1>4. CASE UNCHANGED <<taskBus, currTasks, future>>
  BY <1>2, <1>4, StutterImplements
<1>5. CASE Queue(c)
  <2> DEFINE t == cTask[c]
  <2>1. t \in Tasks /\ future[t] = "unsubmitted"
    BY <1>5 DEF Queue, ManagerOK, QueuedIsNew
  <2>2. Contract!Accept(t)
    BY <1>3, <1>5, <2>1 DEF Queue, Contract!Accept, Contract!Resolve, Executing
  <2>3. QED
    BY <2>1, <2>2 DEF Contract!Next
<1>6. ASSUME NEW t \in Tasks, Submit(c, t)
      PROVE  [Contract!Next]_(Contract!vars)
  <2>1. UNCHANGED <<taskBus, currTasks>> /\ future[t] = "unsubmitted"
    BY <1>6 DEF Submit, busVars, tableVars
  <2>2. CASE UNCHANGED future
    BY <1>2, <2>1, <2>2, StutterImplements
  <2>3. CASE future' = [future EXCEPT ![t] = "rejected"]
    <3>1. Contract!Refuse(t)
      BY <1>3, <2>1, <2>3 DEF Contract!Refuse, Contract!Resolve, Executing
    <3>2. QED
      BY <3>1 DEF Contract!Next
  <2>4. QED
    BY <1>6, <2>2, <2>3 DEF Submit
<1>7. QED
  BY <1>1, <1>4, <1>5, <1>6

\* Every step of the pool is a step of the contract, or none.
LEMMA StepImplements == CoreInv /\ [Next]_vars => [Contract!Next]_(Contract!vars)
<1> SUFFICES ASSUME CoreInv, [Next]_vars PROVE [Contract!Next]_(Contract!vars)
  OBVIOUS
<1>1. CASE CancelTask
  <2>1. PICK t \in Tasks : Cancel(t)
    BY <1>1 DEF CancelTask
  <2>2. /\ UNCHANGED <<taskBus, currTasks, active, abandoned>>
        /\ future[t] = "pending" /\ future' = [future EXCEPT ![t] = "cancelled"]
    BY <1>1, <2>1 DEF CancelTask, Cancel, CancelFuture, busVars, tableVars, workerLocals
  <2>3. Executing' = Executing
    BY <2>2 DEF Executing
  <2>4. Contract!Cancel(t)
    BY <2>2, <2>3 DEF Contract!Cancel, Contract!Resolve, Executing
  <2>5. QED
    BY <2>4 DEF Contract!Next
<1>2. CASE UNCHANGED vars
  <2>1. UNCHANGED <<taskBus, currTasks, future, active, abandoned>>
    BY <1>2 DEF vars, poolVars, busVars, workerLocals, tableVars
  <2>2. QED
    BY <2>1, HeldStay, StutterImplements
<1>3. QED
  BY <1>1, <1>2, LoopImplements, CoroutineImplements, ManagerImplements, ClientImplements
     DEF Next, Terminated

(***************************************************************************)
(* An async pool implements TaskContract, whatever its event loops go      *)
(* through: tasks are started in the order of submission, none twice, each *)
(* future is resolved once, and the manager forgets a task only when it    *)
(* runs no more and its future is resolved.                                *)
(***************************************************************************)
THEOREM PoolImplementsContract == Spec => ImplementsContract
<1>1. Init => Contract!Init
  <2>1. SUFFICES ASSUME Init PROVE Contract!Init
    OBVIOUS
  <2>2. /\ taskBus = <<>> /\ currTasks = {} /\ future = [t \in Tasks |-> "unsubmitted"]
        /\ \A w \in Workers : active[w] = <<>> /\ abandoned[w] = {}
    BY <2>1 DEF Init, PoolStateInit, AsyncWorkerInit, ThreadManagerInit
  <2>3. \A w \in Workers : HeldBy(w) = {}
    BY <2>2 DEF HeldBy, ToSet
  <2>4. Executing = {}
    BY <2>3, ExecutingIsHeld
  <2>5. QED
    BY <2>2, <2>4 DEF Contract!Init, Executing
<1>2. QED
  BY CoreAlways, StepImplements, <1>1, PTL DEF Spec, ImplementsContract, Contract!Spec

-----------------------------------------------------------------------------
(***************************************************************************)
(* Without limits no answer is put twice.  (A limit puts the answer that   *)
(* reaches it on the response bus, and again among the last ones.)         *)
(***************************************************************************)

\* A loop without limits never restarts.
LEMMA NeverLimited == NoLimits => \A w \in Workers : ~CollectAndRestart(w)
<1>1. NoLimits => \A n : /\ ~LimitReached(MaxTaskCount, n) /\ ~LimitReached(MaxErrCount, n)
                         /\ ~LimitReached(MaxConsErrCount, n)
  BY AsyncWorkerAssumption DEF NoLimits, LimitReached
<1>2. QED
  BY <1>1 DEF CollectAndRestart, LimitHit

\* The ends a worker still has to tell, when its answers move.
LEMMA AnswersKeepOnce ==
  ASSUME NoLimits, TypeOK, AnsweredOnce, NEW w \in Workers, MovesAnswers(w),
         UNCHANGED currTasks
  PROVE  AnsweredOnce'
<1>1. /\ finished[w] \in Seq(Responses) /\ responseBus \in Seq(Responses)
      /\ response[w] \in Responses
  BY DEF TypeOK, AsyncWorkerTypeOK, PoolStateTypeOK
<1>2. /\ \A v \in Workers : EndOf(response[v]) = {} /\ DistinctEnds(finished[v])
                            /\ EndsOn(finished[v]) \subseteq currTasks \ EndsOn(responseBus)
      /\ DistinctEnds(responseBus) /\ EndsOn(responseBus) \subseteq currTasks
      /\ \A u, v \in Workers : u # v => EndsOn(finished[u]) \cap EndsOn(finished[v]) = {}
  BY DEF AnsweredOnce
<1>3. \A v \in Workers :
        v # w => finished'[v] = finished[v] /\ response'[v] = response[v]
  BY AnswerMoves
<1>4. ~CollectAndRestart(w)
  BY NeverLimited
<1>5. EndOf(response'[w]) = {}
  BY <1>2, <1>4, EndsMove
<1>6. DistinctEnds(finished'[w]) /\ DistinctEnds(responseBus')
  <2>1. finished'[w] = <<>> => DistinctEnds(finished'[w])
    BY DEF DistinctEnds
  <2>2. finished'[w] = Append(finished[w], response[w]) => DistinctEnds(finished'[w])
    BY <1>1, <1>2, AppendEnds
  <2>3. finished[w] # <<>> /\ finished'[w] = Tail(finished[w])
          => /\ DistinctEnds(finished'[w])
             /\ DistinctEnds(Append(responseBus, Answer(w)))
    <3>1. SUFFICES ASSUME finished[w] # <<>>, finished'[w] = Tail(finished[w])
                   PROVE  /\ DistinctEnds(finished'[w])
                          /\ DistinctEnds(Append(responseBus, Answer(w)))
      OBVIOUS
    <3>2. EndOf(Answer(w)) \subseteq EndsOn(finished[w]) /\ DistinctEnds(finished'[w])
      BY <1>1, <1>2, <3>1, TailEnds DEF Answer
    <3>3. Answer(w) \in Responses /\ EndsOn(responseBus) \cap EndOf(Answer(w)) = {}
      BY <1>2, <3>1, <3>2, AnswerType
    <3>4. QED
      BY <1>1, <1>2, <3>2, <3>3, AppendEnds
  <2>4. QED
    BY <1>2, <1>4, <2>1, <2>2, <2>3, AnswerMoves
<1>7. /\ EndsOn(finished'[w]) \subseteq EndsOn(finished[w])
      /\ EndsOn(responseBus') \subseteq EndsOn(responseBus) \cup EndsOn(finished[w])
      /\ EndsOn(finished'[w]) \cap EndsOn(responseBus') = {}
  <2>1. CASE finished[w] # <<>> /\ finished'[w] = Tail(finished[w])
    <3>1. /\ EndsOn(finished[w]) = EndsOn(finished'[w]) \cup EndOf(Answer(w))
          /\ EndsOn(finished'[w]) \cap EndOf(Answer(w)) = {}
      BY <1>1, <1>2, <2>1, TailEnds DEF Answer
    <3>2. /\ Answer(w) \in Responses
          /\ EndsOn(Append(responseBus, Answer(w))) = EndsOn(responseBus) \cup EndOf(Answer(w))
      BY <1>1, <2>1, AnswerType, AppendEnds
    <3>3. responseBus' = responseBus \/ responseBus' = Append(responseBus, Answer(w))
          \/ EndsOn(finished'[w]) = {}
      BY <1>4, AnswerMoves, EndsMove
    <3>4. QED
      BY <1>2, <1>4, <3>1, <3>2, <3>3, AnswerMoves, EndsMove
  <2>2. CASE ~ (finished[w] # <<>> /\ finished'[w] = Tail(finished[w]))
    <3>1. /\ responseBus' = responseBus
          /\ \/ finished'[w] = <<>> \/ finished'[w] = finished[w]
             \/ finished'[w] = Append(finished[w], response[w])
      BY <2>2, AnswerMoves
    <3>2. EndsOn(<<>>) = {}
      BY DEF EndsOn
    <3>3. EndsOn(Append(finished[w], response[w])) = EndsOn(finished[w])
      BY <1>1, <1>2, AppendEnds
    <3>4. QED
      BY <1>2, <3>1, <3>2, <3>3
  <2>3. QED
    BY <2>1, <2>2
<1>8. \A v \in Workers : v # w => EndsOn(finished'[v]) \cap EndsOn(responseBus') = {}
  BY <1>2, <1>3, <1>7
<1>9. \A v \in Workers : /\ EndOf(response'[v]) = {} /\ DistinctEnds(finished'[v])
                         /\ EndsOn(finished'[v]) \subseteq currTasks' \ EndsOn(responseBus')
  BY <1>2, <1>3, <1>5, <1>6, <1>7, <1>8
<1>10. \A u, v \in Workers : u # v => EndsOn(finished'[u]) \cap EndsOn(finished'[v]) = {}
  BY <1>2, <1>3, <1>7
<1>11. DistinctEnds(responseBus') /\ EndsOn(responseBus') \subseteq currTasks'
  BY <1>2, <1>6, <1>7
<1>12. QED
  BY <1>9, <1>10, <1>11 DEF AnsweredOnce

\* Entries come and go, the answers stay.
LEMMA AnsweredStays ==
  ASSUME AnsweredOnce, UNCHANGED <<responseBus, finished>>, currTasks \subseteq currTasks',
         \A v \in Workers : response'[v] = response[v] \/ EndOf(response'[v]) = {}
  PROVE  AnsweredOnce'
  BY DEF AnsweredOnce

\* The one answer of a coroutine is the first of its task.
LEMMA CoroutineKeepsOnce ==
  ASSUME TypeOK, HoldInv, AnsweredOnce, NEW w \in Workers, NEW t \in Tasks,
         RunCoroutine(w, t), UNCHANGED currTasks
  PROVE  AnsweredOnce'
<1>1. /\ UNCHANGED <<responseBus, response>> /\ t \in currTasks
      /\ \A v \in Workers : v # w => finished'[v] = finished[v]
  BY CoroutineEnds
<1>2. finished[w] \in Seq(Responses)
  BY DEF TypeOK, AsyncWorkerTypeOK
<1>3. Held(t)
  BY EndMoves DEF HoldInv
<1>4. t \notin EndsOn(responseBus) /\ \A v \in Workers : t \notin EndsOn(finished[v])
  BY <1>3 DEF HoldInv, ReportsOK, Over
<1>5. /\ DistinctEnds(finished'[w])
      /\ EndsOn(finished'[w]) \in {EndsOn(finished[w]), EndsOn(finished[w]) \cup {t}}
  <2>1. CASE finished'[w] = Append(finished[w], None)
    <3>1. EndOf(None) = {} /\ None \in Responses
      BY NoneType, EndFacts
    <3>2. DistinctEnds(finished[w])
      BY DEF AnsweredOnce
    <3>3. /\ EndsOn(finished'[w]) = EndsOn(finished[w]) \cup EndOf(None)
          /\ DistinctEnds(finished'[w])
      BY <1>2, <2>1, <3>1, <3>2, AppendEnds
    <3>4. QED
      BY <3>1, <3>3
  <2>2. ASSUME NEW r \in Responses, EndOf(r) = {t}, finished'[w] = Append(finished[w], r)
        PROVE  /\ DistinctEnds(finished'[w])
               /\ EndsOn(finished'[w]) = EndsOn(finished[w]) \cup {t}
    <3>1. EndsOn(finished[w]) \cap EndOf(r) = {}
      BY <1>4, <2>2
    <3>2. QED
      BY <1>2, <2>2, <3>1, AppendEnds DEF AnsweredOnce
  <2>3. QED
    BY <2>1, <2>2, CoroutineEnds
<1>6. \A v \in Workers : /\ EndOf(response'[v]) = {} /\ DistinctEnds(finished'[v])
                         /\ EndsOn(finished'[v]) \subseteq currTasks' \ EndsOn(responseBus')
  BY <1>1, <1>4, <1>5 DEF AnsweredOnce
<1>7. \A u, v \in Workers : u # v => EndsOn(finished'[u]) \cap EndsOn(finished'[v]) = {}
  BY <1>1, <1>4, <1>5 DEF AnsweredOnce
<1>8. DistinctEnds(responseBus') /\ EndsOn(responseBus') \subseteq currTasks'
  BY <1>1 DEF AnsweredOnce
<1>9. QED
  BY <1>6, <1>7, <1>8 DEF AnsweredOnce

\* Without limits, no step answers a task again.
LEMMA StepKeepsOnce ==
  ASSUME NoLimits, CoreInv, AnsweredOnce, [Next]_vars
  PROVE  AnsweredOnce'
<1> USE DEF CoreInv
<1>1. ASSUME NEW w \in Workers, RunWorker(w) \/ WorkerGivesUp(w)
      PROVE  AnsweredOnce'
  <2>1. (WorkerStep(w) \/ TimeOut(w)) /\ UNCHANGED currTasks /\ RequestsClose
    BY <1>1 DEF RunWorker, WorkerGivesUp, tableVars, ManagerOK
  <2>2. CASE MovesAnswers(w)
    BY <2>1, <2>2, AnswersKeepOnce
  <2>3. CASE ~MovesAnswers(w)
    BY <2>1, <2>3, PassiveSteps, AnsweredStays
  <2>4. QED
    BY <2>2, <2>3
<1>2. ASSUME NEW w \in Workers, NEW t \in Tasks, EndCoroutine(w, t)
      PROVE  AnsweredOnce'
  <2>1. UNCHANGED currTasks /\ (RunCoroutine(w, t) \/ ExitCoroutine(w, t))
    BY <1>2 DEF EndCoroutine, tableVars
  <2>2. CASE ExitCoroutine(w, t)
    <3>1. /\ UNCHANGED <<responseBus, finished>>
          /\ \A v \in Workers : response'[v] = response[v] \/ EndOf(response'[v]) = {}
      BY <2>2, EndFacts DEF ExitCoroutine, DieAsync, busVars, TypeOK, AsyncWorkerTypeOK
    <3>2. QED
      BY <2>1, <3>1, AnsweredStays
  <2>3. QED
    BY <2>1, <2>2, CoroutineKeepsOnce
<1>3. CASE RunManager \/ ManagerGivesUp
  <2>1. /\ UNCHANGED <<finished, response>>
        /\ UNCHANGED <<responseBus, currTasks>> \/ TakeResponse \/ KilledConsuming
    BY <1>3, ManagerChanges DEF RunManager, ManagerGivesUp, workerLocals
  <2>2. CASE TakeResponse \/ KilledConsuming
    <3>1. /\ currTasks' \in {currTasks, currTasks \ EndOf(Head(responseBus))}
          /\ EndsOn(responseBus) = EndsOn(responseBus') \cup EndOf(Head(responseBus))
          /\ DistinctEnds(responseBus')
          /\ EndsOn(responseBus') \cap EndOf(Head(responseBus)) = {}
      BY <2>2, TakesReport DEF AnsweredOnce
    <3>2. \A w \in Workers :
            EndsOn(finished[w]) \subseteq currTasks' \ EndsOn(responseBus')
      BY <3>1 DEF AnsweredOnce
    <3>3. QED
      BY <2>1, <3>1, <3>2 DEF AnsweredOnce
  <2>3. QED
    BY <2>1, <2>2, AnsweredStays
<1>4. ASSUME NEW c \in Clients, RunClient(c) \/ ClientCalls(c)
      PROVE  AnsweredOnce'
  <2>1. UNCHANGED <<responseBus, finished, response>> /\ currTasks \subseteq currTasks'
    BY <1>4, ClientChanges
       DEF RunClient, ClientCalls, workerLocals, Queue, Submit, tableVars
  <2>2. QED
    BY <2>1, AnsweredStays
<1>5. CASE CancelTask \/ UNCHANGED vars
  <2>1. UNCHANGED <<responseBus, finished, response, currTasks>>
    BY <1>5 DEF CancelTask, Cancel, vars, poolVars, busVars, workerLocals, tableVars
  <2>2. QED
    BY <2>1, AnsweredStays
<1>6. QED
  BY <1>1, <1>2, <1>3, <1>4, <1>5 DEF Next, Terminated

\* The places of a task, read off the invariants.
LEMMA PlacesFacts ==
  ASSUME NEW t
  PROVE  /\ Waiting(t) = {i \in DOMAIN taskBus : taskBus[i] = t}
         /\ Reported(t) = {i \in DOMAIN responseBus : t \in EndOf(responseBus[i])}
         /\ \A w \in Workers :
              /\ RunBy(w, t) = {i \in DOMAIN active[w] : active[w][i] = t}
              /\ Answered(w, t) = {i \in DOMAIN finished[w] : t \in EndOf(finished[w][i])}
<1>1. \A r : t \in EndOf(r) <=> EndsTask(r) /\ r.task = t
  BY DEF EndOf
<1>2. Waiting(t) = {i \in DOMAIN taskBus : taskBus[i] = t}
  BY DEF Waiting, Positions
<1>3. Reported(t) = {i \in DOMAIN responseBus : t \in EndOf(responseBus[i])}
  BY <1>1 DEF Reported, Positions
<1>4. \A w \in Workers : RunBy(w, t) = {i \in DOMAIN active[w] : active[w][i] = t}
  BY DEF RunBy, Positions
<1>5. \A w \in Workers :
        Answered(w, t) = {i \in DOMAIN finished[w] : t \in EndOf(finished[w][i])}
  BY <1>1 DEF Answered, Positions
<1>6. QED
  BY <1>2, <1>3, <1>4, <1>5

\* What a place says of its task, kind by kind.
LEMMA PlacesMean ==
  ASSUME NEW t
  PROVE  /\ \A i \in Waiting(t) : t \in ToSet(taskBus)
         /\ \A i \in Reported(t) : t \in EndsOn(responseBus)
         /\ \A w \in Workers : /\ \A i \in RunBy(w, t) : t \in HeldBy(w)
                               /\ \A i \in Answered(w, t) : t \in EndsOn(finished[w])
  BY PlacesFacts DEF ToSet, EndsOn, HeldBy

\* HoldInv and AnsweredOnce leave a task one place.
LEMMA OnePlaceEach ==
  ASSUME HoldInv, AnsweredOnce, NEW t \in Tasks
  PROVE  AtMostOne(Places(t)) /\ (Places(t) # {} => t \in currTasks)
<1>1. /\ \A i, j \in Waiting(t) : i = j
      /\ \A i, j \in Reported(t) : i = j
  BY PlacesFacts DEF HoldInv, HeldOnce, Distinct, AnsweredOnce, DistinctEnds
<1>2. \A v, w \in Workers : \A i \in RunBy(v, t), j \in RunBy(w, t) : v = w /\ i = j
  <2>1. \A v, w \in Workers : \A i \in RunBy(v, t), j \in RunBy(w, t) : v = w
    BY PlacesMean DEF HoldInv, HeldOnce
  <2>2. ASSUME NEW w \in Workers, NEW i \in RunBy(w, t), NEW j \in RunBy(w, t)
        PROVE  i = j
    <3>1. RunBy(w, t) = {k \in DOMAIN active[w] : active[w][k] = t}
      BY PlacesFacts
    <3>2. Distinct(active[w])
      BY DEF HoldInv, HeldOnce
    <3>3. QED
      BY <3>1, <3>2 DEF Distinct
  <2>3. QED
    BY <2>1, <2>2
<1>3. \A v, w \in Workers : \A i \in Answered(v, t), j \in Answered(w, t) : v = w /\ i = j
  <2>1. \A v, w \in Workers : \A i \in Answered(v, t), j \in Answered(w, t) : v = w
    BY PlacesMean DEF AnsweredOnce
  <2>2. \A w \in Workers : \A i, j \in Answered(w, t) : i = j
    BY PlacesFacts DEF AnsweredOnce, DistinctEnds
  <2>3. QED
    BY <2>1, <2>2
<1> DEFINE In(x, kind) ==
      /\ x[1] = kind
      /\ \/ kind = "task_bus" /\ x[2] = NoWorker /\ x[3] \in Waiting(t)
         \/ kind = "response_bus" /\ x[2] = NoWorker /\ x[3] \in Reported(t)
         \/ kind = "coroutine" /\ x[2] \in Workers /\ x[3] \in RunBy(x[2], t)
         \/ kind = "answer" /\ x[2] \in Workers /\ x[3] \in Answered(x[2], t)
      /\ x = <<x[1], x[2], x[3]>>
<1>4. \A x \in Places(t) : \/ In(x, "task_bus") \/ In(x, "response_bus")
                           \/ In(x, "coroutine") \/ In(x, "answer")
  BY DEF Places
<1>5. /\ Held(t) => /\ Reported(t) = {}
                    /\ \A w \in Workers : Answered(w, t) = {}
      /\ \A w \in Workers : Waiting(t) # {} => RunBy(w, t) = {}
      /\ \A w \in Workers : Reported(t) # {} => Answered(w, t) = {}
  <2>1. Held(t) => /\ t \notin EndsOn(responseBus)
                   /\ \A w \in Workers : t \notin EndsOn(finished[w])
    BY DEF HoldInv, ReportsOK, Over
  <2>2. \A w \in Workers : t \in ToSet(taskBus) => t \notin HeldBy(w)
    BY DEF HoldInv, HeldOnce
  <2>3. \A w \in Workers : t \in EndsOn(responseBus) => t \notin EndsOn(finished[w])
    BY DEF AnsweredOnce
  <2>4. QED
    BY <2>1, <2>2, <2>3, PlacesMean
<1>6. /\ Waiting(t) # {} => Held(t)
      /\ \A w \in Workers : RunBy(w, t) # {} => Held(t)
  BY PlacesMean DEF Held
<1>7. ASSUME NEW x \in Places(t), NEW y \in Places(t)
      PROVE  x = y
  <2>1. CASE In(x, "task_bus")
    <3>1. ~In(y, "response_bus") /\ ~In(y, "coroutine") /\ ~In(y, "answer")
      BY <1>5, <1>6, <2>1
    <3>2. QED
      BY <1>4, <1>1, <2>1, <3>1
  <2>2. CASE In(x, "response_bus")
    <3>1. ~In(y, "task_bus") /\ ~In(y, "coroutine") /\ ~In(y, "answer")
      BY <1>5, <1>6, <2>2
    <3>2. QED
      BY <1>4, <1>1, <2>2, <3>1
  <2>3. CASE In(x, "coroutine")
    <3>1. ~In(y, "task_bus") /\ ~In(y, "response_bus") /\ ~In(y, "answer")
      BY <1>5, <1>6, <2>3
    <3>2. QED
      BY <1>4, <1>2, <2>3, <3>1
  <2>4. CASE In(x, "answer")
    <3>1. ~In(y, "task_bus") /\ ~In(y, "response_bus") /\ ~In(y, "coroutine")
      BY <1>5, <1>6, <2>4
    <3>2. QED
      BY <1>4, <1>3, <2>4, <3>1
  <2>5. QED
    BY <1>4, <2>1, <2>2, <2>3, <2>4
<1>8. ASSUME NEW x \in Places(t)
      PROVE  t \in currTasks
  <2>1. Held(t) => t \in currTasks
    BY DEF HoldInv, HeldOpen
  <2>2. t \in EndsOn(responseBus) => t \in currTasks
    BY DEF AnsweredOnce
  <2>3. \A w \in Workers : t \in EndsOn(finished[w]) => t \in currTasks
    BY DEF AnsweredOnce
  <2>4. QED
    BY <1>4, <1>6, <2>1, <2>2, <2>3, PlacesMean
<1>9. QED
  BY <1>7, <1>8 DEF AtMostOne

(***************************************************************************)
(* Without limits, a task is in one place at a time, and the manager has   *)
(* its entry as long as it is in one: no interleaving runs it twice, and   *)
(* no end is reported twice, even when futures are cancelled, functions    *)
(* raise what nothing catches, and stop() or terminate() interferes.       *)
(***************************************************************************)
THEOREM TasksInOnePlace == NoLimits => (Spec => []TaskInOnePlace)
<1> SUFFICES ASSUME NoLimits PROVE Spec => []TaskInOnePlace
  OBVIOUS
<1>1. Init => AnsweredOnce
  <2>1. SUFFICES ASSUME Init PROVE AnsweredOnce
    OBVIOUS
  <2>2. EndsOn(<<>>) = {} /\ DistinctEnds(<<>>)
    BY DEF EndsOn, DistinctEnds
  <2>3. /\ responseBus = <<>>
        /\ \A w \in Workers : finished[w] = <<>> /\ response[w] = None
    BY <2>1 DEF Init, PoolStateInit, AsyncWorkerInit
  <2>4. QED
    BY <2>2, <2>3, EndFacts DEF AnsweredOnce
<1>2. CoreInv /\ AnsweredOnce /\ [Next]_vars => AnsweredOnce'
  BY StepKeepsOnce
<1>3. CoreInv /\ AnsweredOnce => TaskInOnePlace
  BY OnePlaceEach DEF CoreInv, TaskInOnePlace
<1>4. QED
  BY CoreAlways, <1>1, <1>2, <1>3, PTL DEF Spec

-----------------------------------------------------------------------------
(***************************************************************************)
(* Without faults no event loop ends halfway, and no answer is lost.       *)
(***************************************************************************)
NoNone(s) == \A i \in DOMAIN s : s[i] # None

\* What LoopsSound says of one worker.
Sound(w) ==
  /\ raised[w] = {} /\ abandoned[w] = {} /\ pc[w] # "died" /\ NoNone(finished[w])
  /\ pc[w] \in {"unborn", "boot", "flush", "ended"} => active[w] = <<>>
  /\ pc[w] \in {"unborn", "boot", "ended"} => finished[w] = <<>>

\* LoopsSound, worker by worker.
LEMMA SoundParts ==
  /\ LoopsSound <=> /\ \A t \in Tasks : future[t] # "cancelled"
                    /\ \A w \in Workers : Sound(w)
  /\ LoopsSound' <=> /\ \A t \in Tasks : future'[t] # "cancelled"
                     /\ \A w \in Workers : Sound(w)'
  BY DEF LoopsSound, Sound, NoNone

\* Answers that are put on a bus or taken from it.
LEMMA NoNoneStays ==
  ASSUME NEW s \in Seq(Responses), NoNone(s)
  PROVE  /\ \A r \in Responses : r # None => NoNone(Append(s, r))
         /\ s # <<>> => Head(s) # None /\ NoNone(Tail(s))
<1>1. ASSUME NEW r \in Responses, r # None
      PROVE  NoNone(Append(s, r))
  <2>1. \A i \in DOMAIN Append(s, r) :
          \/ i \in DOMAIN s /\ Append(s, r)[i] = s[i]
          \/ Append(s, r)[i] = r
    OBVIOUS
  <2>2. QED
    BY <1>1, <2>1 DEF NoNone
<1>2. ASSUME s # <<>>
      PROVE  Head(s) # None /\ NoNone(Tail(s))
  BY <1>2, TailFacts DEF NoNone
<1>3. QED
  BY <1>1, <1>2

\* Without faults _async_run raises nothing and finds nothing of other loops.
LEMMA LoopKeepsSound ==
  ASSUME TypeOK, NEW w \in Workers, Sound(w), WorkerStep(w) \/ TimeOut(w)
  PROVE  /\ Sound(w)' /\ ~CollectFails(w)
         /\ \A v \in Workers : v # w =>
              /\ raised'[v] = raised[v] /\ abandoned'[v] = abandoned[v]
              /\ active'[v] = active[v] /\ finished'[v] = finished[v]
              /\ pc'[v] = pc[v]
<1> USE DEF TypeOK, PoolStateTypeOK, AsyncWorkerTypeOK
<1>1. /\ raised[w] = {} /\ abandoned[w] = {} /\ NoNone(finished[w])
      /\ finished[w] \in Seq(Responses) /\ response[w] \in Responses
  BY DEF Sound
<1>2. ~CollectFails(w) /\ ~AwaitFails(w)
  <2>1. ~CollectFails(w)
    BY <1>1, NoNoneStays DEF CollectFails, Collects, Broken, Answer
  <2>2. ~AwaitFails(w)
    BY <1>1 DEF AwaitFails
  <2>3. QED
    BY <2>1, <2>2
<1>3. CASE Boot(w)
  <2>1. ToSet(active[w]) = {} /\ NoNone(<<>>)
    BY <1>3 DEF Boot, Sound, ToSet, NoNone
  <2>2. /\ active' = [active EXCEPT ![w] = <<>>]
        /\ finished' = [finished EXCEPT ![w] = <<>>]
        /\ abandoned' = [abandoned EXCEPT ![w] = @ \cup ToSet(active[w])]
        /\ UNCHANGED raised
        /\ pc' = [pc EXCEPT ![w] = "top"]
    BY <1>3 DEF Boot, Goto
  <2>3. /\ active'[w] = <<>> /\ finished'[w] = <<>> /\ abandoned'[w] = {}
        /\ raised'[w] = {} /\ pc'[w] = "top"
    BY <1>1, <2>1, <2>2
  <2>4. Sound(w)'
    BY <2>1, <2>3 DEF Sound
  <2>5. QED
    BY <1>2, <2>2, <2>4
<1>4. CASE \/ MarkIdle(w) \/ HandleRequest(w) \/ NoRequest(w) \/ CheckRunning(w)
           \/ CreateTask(w) \/ StopTaking(w) \/ EndTurn(w) \/ CollectDone(w)
           \/ Await(w) \/ AwaitReturns(w) \/ TimeOut(w)
  <2>1. UNCHANGED <<active, finished, raised, abandoned>>
    BY <1>4 DEF MarkIdle, HandleRequest, NoRequest, CheckRunning, CreateTask, StopTaking,
                EndTurn, CollectDone, Await, AwaitReturns, TimeOut, workerLocals,
                coroutines
  <2>2. \E label \in {"requests", "check", "get", "wait", "run", "collect", "top",
                      "await"} : Goto(w, label)
    BY <1>4 DEF MarkIdle, HandleRequest, NoRequest, CheckRunning, CreateTask, StopTaking,
                EndTurn, CollectDone, Await, AwaitReturns, TimeOut
  <2>3. /\ pc'[w] \notin {"unborn", "boot", "flush", "ended", "died"}
        /\ \A v \in Workers : v # w => pc'[v] = pc[v]
    BY <2>2 DEF Goto
  <2>4. QED
    BY <1>1, <1>2, <2>1, <2>3 DEF Sound
<1>5. CASE TakeTask(w)
  BY <1>1, <1>2, <1>5 DEF TakeTask, Goto, Sound
<1>6. CASE CollectAndContinue(w) \/ CollectAndRestart(w)
  <2>1. /\ finished[w] # <<>> /\ finished' = [finished EXCEPT ![w] = Tail(@)]
        /\ UNCHANGED <<active, raised, abandoned>>
        /\ pc'[w] \in {"collect", "wait"} /\ \A v \in Workers : v # w => pc'[v] = pc[v]
    BY <1>6 DEF CollectAndContinue, CollectAndRestart, CollectAnswer, Collects, Goto
  <2>2. NoNone(Tail(finished[w]))
    BY <1>1, <2>1, NoNoneStays
  <2>3. QED
    BY <1>1, <1>2, <2>1, <2>2 DEF Sound
<1>7. CASE Flush(w)
  <2>1. /\ finished' = [finished EXCEPT ![w] = IF response[w] # None
                                               THEN Append(@, response[w]) ELSE @]
        /\ UNCHANGED <<active, raised, abandoned>> /\ active[w] = <<>>
        /\ pc' = [pc EXCEPT ![w] = "flush"]
    BY <1>7 DEF Flush, Goto
  <2>2. NoNone(finished'[w])
    BY <1>1, <2>1, NoNoneStays
  <2>3. QED
    BY <1>1, <1>2, <2>1, <2>2 DEF Sound
<1>8. CASE FlushAnswer(w)
  <2>1. /\ finished[w] # <<>> /\ finished' = [finished EXCEPT ![w] = Tail(@)]
        /\ UNCHANGED <<active, raised, abandoned, pc>> /\ pc[w] = "flush"
    BY <1>8 DEF FlushAnswer, flagVars
  <2>2. NoNone(Tail(finished[w]))
    BY <1>1, <2>1, NoNoneStays
  <2>3. QED
    BY <1>1, <1>2, <2>1, <2>2 DEF Sound
<1>9. CASE ClearThread(w)
  BY <1>1, <1>2, <1>9 DEF ClearThread, Goto, Sound, workerLocals
<1>10. QED
  BY <1>2, <1>3, <1>4, <1>5, <1>6, <1>7, <1>8, <1>9 DEF WorkerStep

\* An answer leaves its loop for the response bus, and no other way.
LEMMA LoopLosesNothing ==
  ASSUME CoreInv, LoopsSound, NothingLost, NEW w \in Workers,
         RunWorker(w) \/ WorkerGivesUp(w)
  PROVE  NothingLost'
<1>1. /\ WorkerStep(w) \/ TimeOut(w)
      /\ UNCHANGED <<currTasks, mpc>> /\ TypeOK /\ RequestsClose /\ HeldOnce /\ Sound(w)
  BY SoundParts DEF RunWorker, WorkerGivesUp, tableVars, managerVars, managerCtl, CoreInv,
                    ManagerOK, HoldInv
<1>2. UNCHANGED future
  BY <1>1, PassiveSteps, AnswerMoves
<1>3. \A t : Held(t)' <=> Held(t)
  <2>1. UNCHANGED <<taskBus, active, abandoned>> \/ TakeTask(w) \/ Boot(w)
    BY <1>1, PassiveSteps, AnswerMoves
  <2>2. QED
    BY <1>1, <2>1, HeldStay, TakeMoves, BootMoves
<1>4. \A t : OnTheWay(t) => OnTheWay(t)'
  <2>1. CASE MovesAnswers(w)
    <3>1. \A v \in Workers : v # w => EndsOn(finished'[v]) = EndsOn(finished[v])
      BY <1>1, <2>1, EndsMove
    <3>2. EndsOn(<<>>) = {} /\ (Boot(w) => finished[w] = <<>>)
      BY <1>1 DEF EndsOn, Boot, Sound
    <3>3. ~CollectFails(w)
      BY <1>1, LoopKeepsSound
    <3>4. /\ EndsOn(finished[w]) \subseteq EndsOn(finished'[w]) \cup EndsOn(responseBus')
          /\ EndsOn(responseBus) \subseteq EndsOn(responseBus')
      BY <1>1, <2>1, <3>2, <3>3, EndsMove
    <3>5. QED
      BY <3>1, <3>4 DEF OnTheWay
  <2>2. CASE ~MovesAnswers(w)
    BY <1>1, <2>2, PassiveSteps DEF OnTheWay
  <2>3. QED
    BY <2>1, <2>2
<1>5. QED
  BY <1>1, <1>2, <1>3, <1>4 DEF NothingLost

\* A coroutine ends with an answer, which is on its way from then on.
LEMMA CoroutineLosesNothing ==
  ASSUME Faultless, CoreInv, LoopsSound, NothingLost, NEW w \in Workers, NEW t \in Tasks,
         EndCoroutine(w, t)
  PROVE  LoopsSound' /\ NothingLost'
<1>1. /\ TypeOK /\ HoldInv /\ HeldOnce /\ RunCoroutine(w, t)
      /\ UNCHANGED <<currTasks, mpc>> /\ \A v \in Workers : Sound(v)
  BY SoundParts DEF EndCoroutine, ExitCoroutine, Faultless, tableVars, managerVars,
                    managerCtl, CoreInv, HoldInv
<1>2. PICK r \in Responses :
        /\ EndOf(r) = {t} /\ r # None
        /\ finished'[w] = Append(finished[w], r)
        /\ future[t] = "pending" /\ UNCHANGED raised
        /\ \E o \in {"result", "exception"} : future' = [future EXCEPT ![t] = o]
  BY <1>1, CoroutineEnds, ZenonT(60) DEF Faultless, LoopsSound
<1>3. /\ UNCHANGED <<responseBus, pc, abandoned>>
      /\ \A v \in Workers : v # w => finished'[v] = finished[v]
      /\ \A u \in Tasks : u # t => future'[u] = future[u]
  BY <1>1, CoroutineEnds
<1>4. finished[w] \in Seq(Responses) /\ future'[t] \in {"result", "exception"}
  BY <1>1, <1>2 DEF TypeOK, AsyncWorkerTypeOK, PoolStateTypeOK
<1>5. LoopsSound'
  <2>1. \A u \in Tasks : future'[u] # "cancelled"
    BY <1>3, <1>4 DEF LoopsSound
  <2>2. NoNone(finished'[w])
    BY <1>1, <1>2, <1>4, NoNoneStays DEF Sound
  <2>3. pc[w] \in {"run", "await"} /\ \A v \in Workers : v # w => active'[v] = active[v]
    BY <1>1 DEF RunCoroutine, InLoop
  <2>4. \A v \in Workers : Sound(v)'
    BY <1>1, <1>2, <1>3, <2>2, <2>3 DEF Sound
  <2>5. QED
    BY <2>1, <2>4, SoundParts
<1>6. \A u : Held(u)' <=> Held(u) /\ u # t
  BY <1>1, EndMoves
<1>7. OnTheWay(t)' /\ \A u : OnTheWay(u) => OnTheWay(u)'
  <2>1. EndsOn(finished'[w]) = EndsOn(finished[w]) \cup {t}
    BY <1>2, <1>4, AppendEnds
  <2>2. QED
    BY <1>3, <2>1 DEF OnTheWay
<1>8. NothingLost'
  BY <1>1, <1>3, <1>4, <1>6, <1>7 DEF NothingLost
<1>9. QED
  BY <1>5, <1>8

\* The manager pops the entry of the task whose end it takes, and no other.
LEMMA ManagerLosesNothing ==
  ASSUME CoreInv, LoopsSound, NothingLost, RunManager \/ ManagerGivesUp
  PROVE  LoopsSound' /\ NothingLost'
<1>1. /\ UNCHANGED <<taskBus, future, active, abandoned, raised, finished>>
      /\ UNCHANGED <<responseBus, currTasks>> \/ TakeResponse \/ mpc' = "killed"
      /\ UNCHANGED pc \/ (RestartWorker /\ StartThread(handled))
      /\ TypeOK /\ HoldInv /\ mpc # "killed"
  BY ManagerChanges, KilledStops DEF RunManager, ManagerGivesUp, workerLocals, CoreInv
<1>2. LoopsSound'
  <2>1. ASSUME NEW v \in Workers
        PROVE  Sound(v)'
    <3>1. Sound(v)
      BY SoundParts
    <3>2. CASE pc'[v] = pc[v]
      BY <1>1, <3>1, <3>2 DEF Sound
    <3>3. CASE pc'[v] # pc[v]
      <4>1. pc'[v] = "boot" /\ ~ThreadAlive(v)
        BY <1>1, <3>3
           DEF StartThread, RestartWorker, CoreInv, ManagerOK, HandledOK, TypeOK,
               PoolStateTypeOK
      <4>2. active[v] = <<>> /\ finished[v] = <<>>
        BY <3>1, <4>1 DEF ThreadAlive, Sound
      <4>3. QED
        BY <1>1, <3>1, <4>1, <4>2 DEF Sound
    <3>4. QED
      BY <3>2, <3>3
  <2>2. QED
    BY <1>1, <2>1, SoundParts
<1>3. \A t : Held(t)' <=> Held(t)
  BY <1>1, HeldStay DEF HoldInv
<1>4. CASE UNCHANGED <<responseBus, currTasks>>
  <2>1. \A t : OnTheWay(t)' <=> OnTheWay(t)
    BY <1>1, <1>4 DEF OnTheWay
  <2>2. QED
    BY <1>1, <1>2, <1>3, <1>4, <2>1 DEF NothingLost
<1>5. CASE mpc' = "killed"
  BY <1>1, <1>2, <1>3, <1>5 DEF NothingLost
<1>6. CASE TakeResponse
  <2> DEFINE ends == EndOf(Head(responseBus))
  <2>1. /\ currTasks' = currTasks \ ends
        /\ EndsOn(responseBus) = EndsOn(responseBus') \cup ends
    BY <1>1, <1>6, TakesReport
  <2>2. \A t : t \notin ends => (OnTheWay(t) => OnTheWay(t)')
    BY <1>1, <2>1 DEF OnTheWay
  <2>3. QED
    BY <1>1, <1>2, <1>3, <2>1, <2>2 DEF NothingLost
<1>7. QED
  BY <1>1, <1>4, <1>5, <1>6

\* A client queues a task with its entry; nobody cancels one.
LEMMA ClientLosesNothing ==
  ASSUME CoreInv, LoopsSound, NothingLost, NEW c \in Clients,
         RunClient(c) \/ ClientCalls(c)
  PROVE  LoopsSound' /\ NothingLost'
<1>1. /\ UNCHANGED <<responseBus, active, abandoned, raised, finished>>
      /\ \/ UNCHANGED <<taskBus, currTasks, future>>
         \/ Queue(c)
         \/ \E t \in Tasks : Submit(c, t)
      /\ UNCHANGED pc \/ SpawnWorker(c)
      /\ TypeOK /\ QueuedIsNew /\ HoldInv /\ (mpc' # "killed" => mpc # "killed")
  BY ClientChanges DEF RunClient, ClientCalls, workerLocals, CoreInv, ManagerOK
<1>2. \A v \in Workers : Sound(v)'
  <2>1. TAKE v \in Workers
  <2>2. Sound(v)
    BY SoundParts
  <2>3. CASE pc'[v] = pc[v]
    BY <1>1, <2>2, <2>3 DEF Sound
  <2>4. CASE pc'[v] # pc[v]
    <3>1. pc' = [pc EXCEPT ![nextWorker] = "boot"]
      BY <1>1, <2>4 DEF SpawnWorker, StartThread
    <3>2. v = nextWorker /\ pc'[v] = "boot" /\ pc[v] = "unborn"
      BY <1>1, <2>4, <3>1
         DEF CoreInv, ManagerOK, WorkersNumbered, TypeOK, PoolStateTypeOK, TableTypeOK,
             Workers
    <3>3. QED
      BY <1>1, <2>2, <3>2 DEF Sound
  <2>5. QED
    BY <2>3, <2>4
<1>3. \A t : OnTheWay(t)' <=> OnTheWay(t)
  BY <1>1 DEF OnTheWay
<1>4. CASE UNCHANGED <<taskBus, currTasks, future>>
  <2>1. \A t : Held(t)' <=> Held(t)
    BY <1>1, <1>4, HeldStay DEF HoldInv
  <2>2. LoopsSound'
    BY <1>2, <1>4, SoundParts
  <2>3. QED
    BY <1>1, <1>3, <1>4, <2>1, <2>2 DEF NothingLost
<1>5. CASE Queue(c)
  <2> DEFINE t == cTask[c]
  <2>1. t \in Tasks /\ future[t] = "unsubmitted"
    BY <1>1, <1>5 DEF Queue, QueuedIsNew
  <2>2. ~Held(t)
    BY <1>1, <2>1 DEF HoldInv, HeldOpen
  <2>3. /\ future' = [future EXCEPT ![t] = "pending"] /\ future \in [Tasks -> FutureStates]
        /\ currTasks' = currTasks \cup {t}
    BY <1>1, <1>5 DEF Queue, TypeOK, PoolStateTypeOK
  <2>4. \A u : Held(u)' <=> Held(u) \/ u = t
    <3>1. UNCHANGED workerLocals
      BY DEF RunClient, ClientCalls
    <3>2. QED
      BY <1>1, <1>5, <2>1, <2>2, <3>1, QueueMoves DEF HoldInv
  <2>5. /\ \A u \in Tasks : u # t => future'[u] = future[u]
        /\ future'[t] = "pending"
    BY <2>1, <2>3
  <2>6. LoopsSound'
    BY <1>2, <2>5, SoundParts
  <2>7. NothingLost'
    BY <1>1, <1>3, <2>3, <2>4, <2>5 DEF NothingLost
  <2>8. QED
    BY <2>6, <2>7
<1>6. CASE \E t \in Tasks : Submit(c, t)
  <2>1. PICK t \in Tasks : Submit(c, t)
    BY <1>6
  <2>2. /\ UNCHANGED <<taskBus, currTasks>>
        /\ UNCHANGED future \/ future' = [future EXCEPT ![t] = "rejected"]
    BY <2>1 DEF Submit, busVars, tableVars
  <2>3. \A u \in Tasks : future'[u] \in {future[u], "rejected"}
    BY <1>1, <2>2 DEF TypeOK, PoolStateTypeOK
  <2>4. \A u : Held(u)' <=> Held(u)
    BY <1>1, <2>2, HeldStay DEF HoldInv
  <2>5. LoopsSound'
    <3>1. \A u \in Tasks : future'[u] # "cancelled"
      BY <2>3 DEF LoopsSound
    <3>2. QED
      BY <1>2, <3>1, SoundParts
  <2>6. NothingLost'
    BY <1>1, <1>3, <2>2, <2>3, <2>4 DEF NothingLost
  <2>7. QED
    BY <2>5, <2>6
<1>7. QED
  BY <1>1, <1>4, <1>5, <1>6

\* No step of a pool without faults loses anything.
LEMMA StepLosesNothing ==
  ASSUME Faultless, CoreInv, LoopsSound, NothingLost, [Next]_vars
  PROVE  LoopsSound' /\ NothingLost'
<1>1. ASSUME NEW w \in Workers, RunWorker(w) \/ WorkerGivesUp(w)
      PROVE  LoopsSound' /\ NothingLost'
  <2>1. /\ WorkerStep(w) \/ TimeOut(w)
        /\ TypeOK /\ RequestsClose /\ \A v \in Workers : Sound(v)
    BY <1>1, SoundParts DEF RunWorker, WorkerGivesUp, CoreInv, ManagerOK
  <2>2. UNCHANGED future
    BY <2>1, PassiveSteps, AnswerMoves
  <2>3. \A v \in Workers : Sound(v)'
    BY <2>1, LoopKeepsSound DEF Sound
  <2>4. LoopsSound'
    BY <2>2, <2>3, SoundParts
  <2>5. QED
    BY <1>1, <2>4, LoopLosesNothing
<1>2. ASSUME NEW w \in Workers, NEW t \in Tasks, EndCoroutine(w, t)
      PROVE  LoopsSound' /\ NothingLost'
  BY <1>2, CoroutineLosesNothing
<1>3. CASE RunManager \/ ManagerGivesUp
  BY <1>3, ManagerLosesNothing
<1>4. ASSUME NEW c \in Clients, RunClient(c) \/ ClientCalls(c)
      PROVE  LoopsSound' /\ NothingLost'
  BY <1>4, ClientLosesNothing
<1>5. ~CancelTask
  BY DEF CancelTask, Cancel, Faultless
<1>6. CASE UNCHANGED vars
  <2>1. UNCHANGED <<taskBus, responseBus, future, currTasks, pc, active, finished, raised,
                    abandoned, mpc>>
    BY <1>6 DEF vars, poolVars, busVars, flagVars, workerLocals, tableVars, managerVars,
                managerCtl
  <2>2. LoopsSound'
    BY <2>1 DEF LoopsSound
  <2>3. \A t : (Held(t)' <=> Held(t)) /\ (OnTheWay(t)' <=> OnTheWay(t))
    BY <2>1 DEF Held, HeldBy, OnTheWay
  <2>4. QED
    BY <2>1, <2>2, <2>3 DEF NothingLost
<1>7. QED
  BY <1>1, <1>2, <1>3, <1>4, <1>5, <1>6 DEF Next, Terminated

\* The invariants of a pool without faults.
FaultlessInv == CoreInv /\ LoopsSound /\ NothingLost

\* They hold in every state of such a pool.
LEMMA FaultlessAlways == Faultless => (Spec => []FaultlessInv)
<1> SUFFICES ASSUME Faultless PROVE Spec => []FaultlessInv
  OBVIOUS
<1>1. Init => FaultlessInv
  <2>1. SUFFICES ASSUME Init PROVE LoopsSound /\ NothingLost
    BY InitCore DEF FaultlessInv
  <2>2. /\ \A t \in Tasks : future[t] = "unsubmitted"
        /\ \A w \in Workers : /\ raised[w] = {} /\ abandoned[w] = {} /\ pc[w] = "unborn"
                              /\ active[w] = <<>> /\ finished[w] = <<>>
        /\ currTasks = {}
    BY <2>1 DEF Init, PoolStateInit, AsyncWorkerInit, ThreadManagerInit
  <2>3. QED
    BY <2>2 DEF LoopsSound, NothingLost
<1>2. FaultlessInv /\ [Next]_vars => FaultlessInv'
  BY StepKeepsCore, StepLosesNothing DEF FaultlessInv
<1>3. QED
  BY <1>1, <1>2, PTL DEF Spec

\* A held task is on the task bus or in a coroutine of a loop that turns.
LEMMA HeldPlaces ==
  ASSUME FaultlessInv, NEW t \in Tasks, Held(t)
  PROVE  \/ Waiting(t) # {}
         \/ \E w \in Workers : RunBy(w, t) # {} /\ ThreadAlive(w)
<1>1. CASE t \in ToSet(taskBus)
  <2>1. Waiting(t) = {i \in DOMAIN taskBus : taskBus[i] = t}
    BY PlacesFacts
  <2>2. QED
    BY <1>1, <2>1 DEF ToSet
<1>2. CASE \E w \in Workers : t \in HeldBy(w)
  <2>1. PICK w \in Workers : t \in HeldBy(w)
    BY <1>2
  <2>2. Sound(w)
    BY SoundParts DEF FaultlessInv
  <2>3. t \in ToSet(active[w])
    BY <2>1, <2>2 DEF HeldBy, Sound
  <2>4. active[w] # <<>>
    BY <2>3 DEF ToSet
  <2>5. ThreadAlive(w)
    BY <2>2, <2>4 DEF Sound, ThreadAlive
  <2>6. RunBy(w, t) = {i \in DOMAIN active[w] : active[w][i] = t}
    BY PlacesFacts
  <2>7. RunBy(w, t) # {}
    BY <2>3, <2>6 DEF ToSet
  <2>8. QED
    BY <2>5, <2>7
<1>3. QED
  BY <1>1, <1>2 DEF Held

\* A task has a place as soon as one of the four kinds is taken.
LEMMA SomePlace ==
  ASSUME NEW t,
         \/ Waiting(t) # {} \/ Reported(t) # {}
         \/ \E w \in Workers : RunBy(w, t) # {} \/ Answered(w, t) # {}
  PROVE  Places(t) # {}
<1>1. ASSUME NEW i \in Waiting(t)
      PROVE  <<"task_bus", NoWorker, i>> \in Places(t)
  BY DEF Places
<1>2. ASSUME NEW i \in Reported(t)
      PROVE  <<"response_bus", NoWorker, i>> \in Places(t)
  BY DEF Places
<1>3. ASSUME NEW w \in Workers, NEW i \in RunBy(w, t)
      PROVE  <<"coroutine", w, i>> \in Places(t)
  BY DEF Places
<1>4. ASSUME NEW w \in Workers, NEW i \in Answered(w, t)
      PROVE  <<"answer", w, i>> \in Places(t)
  BY DEF Places
<1>5. QED
  BY <1>1, <1>2, <1>3, <1>4

(***************************************************************************)
(* Without cancelled futures and uncaught exceptions, the manager keeps no *)
(* entry of a task whose answer was lost, whatever limits, timeouts and    *)
(* stop() do, and terminate() until the manager is killed: _async_run      *)
(* collects every answer in its loop or puts it on the bus behind it.      *)
(***************************************************************************)
THEOREM NoAnswersLost == Faultless => (Spec => []NoAnswerLost)
<1> SUFFICES ASSUME Faultless PROVE Spec => []NoAnswerLost
  OBVIOUS
<1>1. FaultlessInv => NoAnswerLost
  <2>1. SUFFICES ASSUME FaultlessInv, mpc # "killed", NEW t \in currTasks
                 PROVE  Places(t) # {}
    BY DEF NoAnswerLost
  <2>2. t \in Tasks /\ (Held(t) \/ OnTheWay(t))
    BY <2>1 DEF FaultlessInv, CoreInv, TypeOK, TableTypeOK, NothingLost
  <2>3. CASE Held(t)
    BY <2>1, <2>2, <2>3, HeldPlaces, SomePlace
  <2>4. CASE t \in EndsOn(responseBus)
    <3>1. Reported(t) = {i \in DOMAIN responseBus : t \in EndOf(responseBus[i])}
      BY PlacesFacts
    <3>2. Reported(t) # {}
      BY <2>4, <3>1 DEF EndsOn
    <3>3. QED
      BY <3>2, SomePlace
  <2>5. ASSUME NEW w \in Workers, t \in EndsOn(finished[w])
        PROVE  Places(t) # {}
    <3>1. PICK i \in DOMAIN finished[w] : t \in EndOf(finished[w][i])
      BY <2>5 DEF EndsOn
    <3>2. EndsTask(finished[w][i]) /\ finished[w][i].task = t
      BY <3>1 DEF EndOf
    <3>3. i \in Answered(w, t)
      BY <3>2 DEF Answered, Positions
    <3>4. QED
      BY <3>3, SomePlace
  <2>6. QED
    BY <2>2, <2>3, <2>4, <2>5 DEF OnTheWay
<1>2. Spec => []FaultlessInv
  BY FaultlessAlways
<1>3. QED
  BY <1>1, <1>2, PTL

(***************************************************************************)
(* Nor does a task that was accepted and not resolved belong to an event   *)
(* loop that nobody turns: a worker that ends, for whichever reason, ends  *)
(* after its coroutines.                                                   *)
(***************************************************************************)
THEOREM PendingTasksAreHeld == Faultless => (Spec => []PendingIsHeld)
<1> SUFFICES ASSUME Faultless PROVE Spec => []PendingIsHeld
  OBVIOUS
<1>1. FaultlessInv => PendingIsHeld
  <2>1. SUFFICES ASSUME FaultlessInv, NEW t \in Tasks, future[t] = "pending"
                 PROVE  \/ Waiting(t) # {}
                        \/ \E w \in Workers : RunBy(w, t) # {} /\ ThreadAlive(w)
    BY DEF PendingIsHeld
  <2>2. Held(t)
    BY <2>1 DEF FaultlessInv, NothingLost
  <2>3. QED
    BY <2>1, <2>2, HeldPlaces
<1>2. Spec => []FaultlessInv
  BY FaultlessAlways
<1>3. QED
  BY <1>1, <1>2, PTL

-----------------------------------------------------------------------------
(***************************************************************************)
(* The ends on the response bus, for any bus, any entries and any sets of  *)
(* workers.                                                                *)
(***************************************************************************)
\* More workers may be silent, and empty.
LEMMA ListedGrows ==
  ASSUME NEW bus, NEW known, NEW silent, NEW empty, NEW silent2, NEW empty2,
         EndsListed(bus, known, silent, empty),
         silent \subseteq silent2, empty \cap silent \subseteq empty2
  PROVE  EndsListed(bus, known, silent2, empty2)
  BY DEF EndsListed

\* Entries are new that no end on the bus names.
LEMMA ListedEntry ==
  ASSUME NEW bus \in Seq(Responses), NEW known, NEW silent, NEW empty, NEW t,
         EndsListed(bus, known, silent, empty), t \notin EndsOn(bus)
  PROVE  EndsListed(bus, known \cup {t}, silent, empty)
<1>1. \A i \in DOMAIN bus : EndsTask(bus[i]) => bus[i].task # t
  BY DEF EndsOn, EndOf
<1>2. \A i \in DOMAIN bus : Counts(bus, known \cup {t}, i) => Counts(bus, known, i)
  BY <1>1 DEF Counts
<1>3. QED
  BY <1>2 DEF EndsListed

\* A response is put on the bus that the manager will not act on.
LEMMA ListedAppend ==
  ASSUME NEW bus \in Seq(Responses), NEW known, NEW silent, NEW empty,
         NEW r \in Responses, EndsListed(bus, known, silent, empty),
         \/ ~Exits(r)
         \/ EndsTask(r) /\ (r.task \notin known \/ r.task \in EndsOn(bus))
  PROVE  EndsListed(Append(bus, r), known, silent, empty)
<1> DEFINE a == Append(bus, r)
<1>1. /\ DOMAIN a = DOMAIN bus \cup {Len(bus) + 1}
      /\ \A i \in DOMAIN bus : a[i] = bus[i] /\ i < Len(bus) + 1
      /\ a[Len(bus) + 1] = r
  OBVIOUS
<1> HIDE DEF a
<1>2. \A i \in DOMAIN bus : Counts(a, known, i) => Counts(bus, known, i)
  BY <1>1 DEF Counts
<1>3. ~Counts(a, known, Len(bus) + 1)
  <2>1. CASE ~Exits(r)
    BY <1>1, <2>1 DEF Counts
  <2>2. CASE EndsTask(r) /\ r.task \notin known
    BY <1>1, <2>2 DEF Counts
  <2>3. CASE EndsTask(r) /\ r.task \in EndsOn(bus)
    <3>1. PICK k \in DOMAIN bus : EndsTask(bus[k]) /\ bus[k].task = r.task
      BY <2>3 DEF EndsOn, EndOf
    <3>2. QED
      BY <1>1, <2>3, <3>1 DEF Counts
  <2>4. QED
    BY <2>1, <2>2, <2>3
<1>4. QED
  BY <1>1, <1>2, <1>3 DEF EndsListed, a

\* A worker that was not silent announces its end.
LEMMA ListedExit ==
  ASSUME NEW bus \in Seq(Responses), NEW known, NEW silent, NEW empty,
         NEW r \in Responses, EndsListed(bus, known, silent, empty),
         NEW silent2, NEW empty2, silent \subseteq silent2,
         empty \cap silent \subseteq empty2,
         r.worker \notin silent, r.worker \in silent2, Closes(r) => r.worker \in empty2
  PROVE  EndsListed(Append(bus, r), known, silent2, empty2)
<1> DEFINE a == Append(bus, r)
<1>1. /\ DOMAIN a = DOMAIN bus \cup {Len(bus) + 1}
      /\ \A i \in DOMAIN bus : a[i] = bus[i] /\ i < Len(bus) + 1
      /\ a[Len(bus) + 1] = r
  OBVIOUS
<1> HIDE DEF a
<1>2. \A i \in DOMAIN bus : Counts(a, known, i) => Counts(bus, known, i)
  BY <1>1 DEF Counts
<1>3. ASSUME NEW i \in DOMAIN a, Counts(a, known, i)
      PROVE  a[i].worker \in silent2 /\ (Closes(a[i]) => a[i].worker \in empty2)
  BY <1>1, <1>2, <1>3 DEF EndsListed
<1>4. ASSUME NEW i \in DOMAIN a, NEW j \in DOMAIN a,
             Counts(a, known, i), Counts(a, known, j), a[i].worker = a[j].worker
      PROVE  i = j
  <2>1. CASE i \in DOMAIN bus /\ j \in DOMAIN bus
    BY <1>1, <1>2, <1>4, <2>1 DEF EndsListed
  <2>2. CASE i \in DOMAIN bus /\ j = Len(bus) + 1
    BY <1>1, <1>2, <1>4, <2>2 DEF EndsListed
  <2>3. CASE j \in DOMAIN bus /\ i = Len(bus) + 1
    BY <1>1, <1>2, <1>4, <2>3 DEF EndsListed
  <2>4. QED
    BY <1>1, <2>1, <2>2, <2>3
<1>5. QED
  BY <1>3, <1>4 DEF EndsListed, a

\* The manager takes a response; if it acts on it, the worker is on no other.
LEMMA ListedTail ==
  ASSUME NEW bus \in Seq(Responses), NEW known, NEW silent, NEW empty, bus # <<>>,
         EndsListed(bus, known, silent, empty)
  PROVE  /\ EndsListed(Tail(bus), known \ EndOf(Head(bus)), silent, empty)
         /\ Exits(Head(bus)) /\ (EndsTask(Head(bus)) => Head(bus).task \in known) =>
              /\ Head(bus).worker \in silent
              /\ Closes(Head(bus)) => Head(bus).worker \in empty
              /\ EndsListed(Tail(bus), known \ EndOf(Head(bus)),
                            silent \ {Head(bus).worker}, empty)
<1> DEFINE u == Tail(bus)
           h == Head(bus)
           left == known \ EndOf(h)
<1>1. /\ DOMAIN bus = 1 .. Len(bus) /\ DOMAIN u = 1 .. Len(bus) - 1
      /\ Len(bus) \in Nat /\ Len(bus) >= 1 /\ h = bus[1]
      /\ \A i \in DOMAIN u : u[i] = bus[i + 1]
  OBVIOUS
<1> HIDE DEF u, h
<1>2. ASSUME NEW i \in DOMAIN u, Counts(u, left, i)
      PROVE  i + 1 \in DOMAIN bus /\ Counts(bus, known, i + 1)
  <2>1. i + 1 \in DOMAIN bus /\ bus[i + 1] = u[i] /\ i \in Nat
    BY <1>1
  <2>2. Exits(bus[i + 1])
    BY <1>2, <2>1 DEF Counts
  <2>3. ASSUME EndsTask(u[i])
        PROVE  /\ u[i].task \in known
               /\ \A k \in DOMAIN bus :
                    k < i + 1 /\ EndsTask(bus[k]) => bus[k].task # u[i].task
    <3>1. u[i].task \in known /\ u[i].task \notin EndOf(h)
      BY <1>2, <2>3 DEF Counts
    <3>2. EndsTask(bus[1]) => bus[1].task # u[i].task
      BY <1>1, <3>1 DEF EndOf
    <3>3. ASSUME NEW k \in DOMAIN bus, k < i + 1, EndsTask(bus[k]), k # 1
          PROVE  bus[k].task # u[i].task
      <4>1. k - 1 \in DOMAIN u /\ k - 1 < i /\ u[k - 1] = bus[k]
        BY <1>1, <2>1, <3>3
      <4>2. QED
        BY <1>2, <2>3, <3>3, <4>1 DEF Counts
    <3>4. QED
      BY <3>1, <3>2, <3>3
  <2>4. QED
    BY <2>1, <2>2, <2>3 DEF Counts
<1>3. ASSUME NEW i \in DOMAIN u, NEW j \in DOMAIN u, i + 1 = j + 1
      PROVE  i = j
  BY <1>1, <1>3
<1>4. EndsListed(u, left, silent, empty)
  BY <1>1, <1>2, <1>3 DEF EndsListed
<1>5. ASSUME Exits(h), EndsTask(h) => h.task \in known
      PROVE  /\ h.worker \in silent /\ (Closes(h) => h.worker \in empty)
             /\ EndsListed(u, left, silent \ {h.worker}, empty)
  <2>1. 1 \in DOMAIN bus /\ Counts(bus, known, 1)
    <3>1. 1 \in DOMAIN bus /\ \A k \in DOMAIN bus : ~(k < 1)
      BY <1>1
    <3>2. QED
      BY <1>1, <1>5, <3>1 DEF Counts
  <2>2. h.worker \in silent /\ (Closes(h) => h.worker \in empty)
    BY <1>1, <2>1 DEF EndsListed
  <2>3. \A i \in DOMAIN u : Counts(u, left, i) => u[i].worker # h.worker
    <3>1. TAKE i \in DOMAIN u
    <3>2. i + 1 # 1
      BY <1>1
    <3>3. QED
      BY <1>1, <1>2, <2>1, <3>2 DEF EndsListed
  <2>4. QED
    BY <1>4, <2>2, <2>3 DEF EndsListed
<1>6. QED
  BY <1>4, <1>5 DEF u, h, left

-----------------------------------------------------------------------------
(***************************************************************************)
(* What a worker does to its own responses, and to nobody else's.          *)
(***************************************************************************)
LEMMA LoopLeavesOthers ==
  ASSUME TypeOK, NEW w \in Workers, WorkerStep(w) \/ TimeOut(w)
  PROVE  \A v \in Workers : v # w =>
           /\ pc'[v] = pc[v] /\ running'[v] = running[v] /\ active'[v] = active[v]
           /\ finished'[v] = finished[v] /\ response'[v] = response[v]
           /\ requestBus'[v] = requestBus[v]
<1> USE DEF TypeOK, PoolStateTypeOK, AsyncWorkerTypeOK, Goto
<1>1. CASE \/ MarkIdle(w) \/ NoRequest(w) \/ CheckRunning(w) \/ StopTaking(w)
           \/ EndTurn(w) \/ CollectDone(w) \/ ClearThread(w)
  BY <1>1 DEF MarkIdle, NoRequest, CheckRunning, StopTaking, EndTurn, CollectDone,
              ClearThread, workerLocals, busVars
<1>2. CASE \/ Boot(w) \/ TimeOut(w) \/ TakeTask(w) \/ CreateTask(w) \/ HandleRequest(w)
  <2>1. CASE Boot(w) \/ TimeOut(w)
    BY <2>1 DEF Boot, TimeOut, coroutines, busVars
  <2>2. CASE TakeTask(w) \/ CreateTask(w)
    BY <2>2 DEF TakeTask, CreateTask, coroutines, busVars
  <2>3. CASE HandleRequest(w)
    BY <2>3 DEF HandleRequest, coroutines, busVars
  <2>4. QED
    BY <1>2, <2>1, <2>2, <2>3
<1>3. CASE Await(w) \/ AwaitReturns(w) \/ AwaitFails(w)
  <2>1. CASE Await(w)
    BY <2>1 DEF Await, busVars
  <2>2. CASE AwaitReturns(w)
    BY <2>2 DEF AwaitReturns, DieAsync, busVars
  <2>3. CASE AwaitFails(w)
    BY <2>3 DEF AwaitFails, DieAsync, busVars
  <2>4. QED
    BY <1>3, <2>1, <2>2, <2>3
<1>4. CASE Flush(w) \/ FlushAnswer(w)
  BY <1>4 DEF Flush, FlushAnswer, busVars, flagVars
<1>5. CASE CollectFails(w) \/ CollectAndContinue(w) \/ CollectAndRestart(w)
  BY <1>5 DEF CollectFails, CollectAndContinue, CollectAndRestart, CollectAnswer,
              DieAsync, busVars
<1>6. QED
  BY <1>1, <1>2, <1>3, <1>4, <1>5 DEF WorkerStep

\* A loop flushes its answers when it has no coroutine, and ends when it has no
\* answer; one that the manager has popped only ends.
LEMMA LoopEndsClean ==
  ASSUME TypeOK, NEW w \in Workers, WorkerStep(w) \/ TimeOut(w), EndsClean(w),
         WorkersNumbered, UNCHANGED tableVars
  PROVE  EndsClean(w)' /\ (Emptied(w) => Emptied(w)')
<1> USE DEF TypeOK, PoolStateTypeOK, AsyncWorkerTypeOK, Goto
<1>1. UNCHANGED <<currWorkers, nextWorker>>
  BY DEF tableVars
<1>2. CASE FlushAnswer(w) \/ ClearThread(w)
  BY <1>1, <1>2 DEF FlushAnswer, ClearThread, flagVars, workerLocals, EndsClean, Emptied,
                    Free
<1>3. CASE Flush(w)
  <2>1. pc[w] = "wait" /\ pc'[w] = "flush" /\ active'[w] = <<>>
    BY <1>3 DEF Flush
  <2>2. QED
    BY <1>1, <2>1 DEF EndsClean, Emptied
<1>4. CASE ~FlushAnswer(w) /\ ~ClearThread(w) /\ ~Flush(w)
  <2>1. pc[w] \notin {"flush", "ended"} /\ pc'[w] \notin {"flush", "ended"}
    <3>1. CASE UNCHANGED pc
      BY <1>4, <3>1
         DEF WorkerStep, TimeOut, Boot, MarkIdle, HandleRequest, NoRequest, CheckRunning,
             TakeTask, CreateTask, StopTaking, EndTurn, CollectFails, CollectAndContinue,
             CollectAndRestart, CollectDone, Await, AwaitReturns, AwaitFails, Collects,
             CollectAnswer, Awaited
    <3>2. CASE ~UNCHANGED pc
      <4>1. pc[w] \notin {"flush", "ended"}
        BY <1>4
           DEF WorkerStep, TimeOut, Boot, MarkIdle, HandleRequest, NoRequest,
               CheckRunning, TakeTask, CreateTask, StopTaking, EndTurn, CollectFails,
               CollectAndContinue, CollectAndRestart, CollectDone, Await, AwaitReturns,
               AwaitFails, Collects, CollectAnswer, Awaited
      <4>2. \E label \in {"top", "requests", "wait", "check", "get", "begin", "run",
                          "collect", "await", "died"} : Goto(w, label)
        BY <1>4, <3>2
           DEF WorkerStep, TimeOut, Boot, MarkIdle, HandleRequest, NoRequest,
               CheckRunning, TakeTask, CreateTask, StopTaking, EndTurn, CollectFails,
               CollectAndContinue, CollectAndRestart, CollectDone, Await, AwaitReturns,
               AwaitFails, DieAsync
      <4>3. QED
        BY <4>1, <4>2
    <3>3. QED
      BY <3>1, <3>2
  <2>2. QED
    BY <1>1, <2>1 DEF EndsClean, Emptied
<1>5. QED
  BY <1>2, <1>3, <1>4

\* The tasks that a worker's responses report.
LEMMA PartsOver ==
  ASSUME ReportsOK, NEW w \in Workers
  PROVE  /\ EndsTask(response[w]) => response[w].task \in Tasks /\ Over(response[w].task)
         /\ \A i \in DOMAIN finished[w] :
              EndsTask(finished[w][i]) =>
                finished[w][i].task \in Tasks /\ Over(finished[w][i].task)
  BY DEF ReportsOK, EndOf, EndsOn, Over

\* A worker whose responses stay as they are, while what is gone stays gone.
LEMMA PartsStay ==
  ASSUME ReportsOK, NEW w \in Workers, PartsOK(w),
         \A t \in Tasks : Over(t) /\ Gone(t) => Gone(t)',
         requestBus'[w] = requestBus[w], finished'[w] = finished[w],
         response'[w] = response[w],
         \/ pc'[w] = pc[w] /\ active'[w] = active[w]
         \/ pc[w] \notin {"wait", "await", "flush"}
  PROVE  PartsOK(w)'
<1>1. \A i \in DOMAIN finished[w] :
        Parting(w, finished[w][i]) => Parting(w, finished[w][i])'
  <2>1. TAKE i \in DOMAIN finished[w]
  <2>2. Spent(finished[w][i]) => Gone(finished[w][i].task)'
    <3>1. SUFFICES ASSUME Spent(finished[w][i]) PROVE Gone(finished[w][i].task)'
      OBVIOUS
    <3>2. finished[w][i].task \in Tasks /\ Over(finished[w][i].task)
      BY <3>1, PartsOver DEF Spent
    <3>3. PICK t \in Tasks : t = finished[w][i].task
      BY <3>2
    <3>4. Gone(t)'
      BY <3>1, <3>2, <3>3 DEF Spent
    <3>5. finished'[w][i].task = t
      BY <3>3
    <3>6. QED
      BY <3>4, <3>5 DEF Gone
  <2>3. QED
    BY <2>2 DEF Parting, Spent
<1>2. Parting(w, response[w]) => Parting(w, response[w])'
  <2>1. Spent(response[w]) => Gone(response[w].task)'
    <3>1. SUFFICES ASSUME Spent(response[w]) PROVE Gone(response[w].task)'
      OBVIOUS
    <3>2. response[w].task \in Tasks /\ Over(response[w].task)
      BY <3>1, PartsOver DEF Spent
    <3>3. PICK t \in Tasks : t = response[w].task
      BY <3>2
    <3>4. Gone(t)'
      BY <3>1, <3>2, <3>3 DEF Spent
    <3>5. response'[w].task = t
      BY <3>3
    <3>6. QED
      BY <3>4, <3>5 DEF Gone
  <2>2. QED
    BY <2>1 DEF Parting, Spent
<1>3. requestBus'[w] = <<>>
  BY DEF PartsOK
<1>4. \A i \in DOMAIN finished'[w] :
        \/ Plain(w, finished'[w][i])
        \/ /\ pc'[w] = "flush" /\ i = Len(finished'[w])
           /\ Parting(w, finished[w][i])'
           /\ Closes(finished'[w][i]) => i = 1
  BY <1>1 DEF PartsOK
<1>5. response'[w] # None => /\ pc'[w] \in {"wait", "await"} /\ Parting(w, response[w])'
                             /\ Closes(response'[w]) => Free(w)'
  BY <1>2 DEF PartsOK, Free
<1>6. QED
  BY <1>3, <1>4, <1>5 DEF PartsOK, Plain, Parting, Spent

\* What is left when the first answer is gone.
LEMMA TailIndex ==
  ASSUME NEW s \in Seq(Responses), s # <<>>
  PROVE  /\ Len(Tail(s)) = Len(s) - 1 /\ Len(s) \in Nat
         /\ \A i \in DOMAIN Tail(s) :
              i \in Nat /\ i >= 1 /\ i + 1 \in DOMAIN s /\ Tail(s)[i] = s[i + 1]
         /\ 1 \in DOMAIN s /\ Head(s) = s[1]
         /\ Len(s) = 1 => Tail(s) = <<>>
<1>1. /\ Len(Tail(s)) = Len(s) - 1 /\ Len(s) \in Nat /\ Tail(s) \in Seq(Responses)
      /\ \A i \in DOMAIN Tail(s) :
           i \in Nat /\ i >= 1 /\ i + 1 \in DOMAIN s /\ Tail(s)[i] = s[i + 1]
  OBVIOUS
<1>2. 1 \in DOMAIN s /\ Head(s) = s[1]
  OBVIOUS
<1>3. \A u \in Seq(Responses) : Len(u) = 0 => u = <<>>
  OBVIOUS
<1>4. QED
  BY <1>1, <1>2, <1>3

(***************************************************************************)
(* What a worker may have to say after a step: PartsOK in the state that   *)
(* follows, its response named.                                            *)
(***************************************************************************)
PartingAfter(w, r) ==
  /\ r.worker = w
  /\ \/ Closes(r) /\ ~EndsTask(r)
     \/ /\ Restarts(r) /\ EndsTask(r)
        /\ r.task \notin currTasks' \/ r.task \in EndsOn(responseBus')

LEMMA PartsPrimed ==
  ASSUME NEW w \in Workers
  PROVE  PartsOK(w)' <=>
           /\ requestBus'[w] = <<>>
           /\ \A i \in DOMAIN finished'[w] :
                \/ Plain(w, finished'[w][i])
                \/ /\ pc'[w] = "flush" /\ i = Len(finished'[w])
                   /\ PartingAfter(w, finished'[w][i])
                   /\ Closes(finished'[w][i]) => i = 1
           /\ response'[w] # None =>
                /\ pc'[w] \in {"wait", "await"} /\ PartingAfter(w, response'[w])
                /\ Closes(response'[w]) => active'[w] = <<>> /\ finished'[w] = <<>>
  BY DEF PartsOK, Plain, Parting, Spent, Gone, PartingAfter, Free

\* What the worker had to say, it has to say still.
LEMMA PartingStays ==
  ASSUME ReportsOK, NEW w \in Workers, PartsOK(w),
         \A t \in Tasks : Over(t) /\ Gone(t) => Gone(t)'
  PROVE  /\ response[w] # None => PartingAfter(w, response[w])
         /\ \A i \in DOMAIN finished[w] :
              Plain(w, finished[w][i]) \/ PartingAfter(w, finished[w][i])
<1>1. ASSUME NEW r, Parting(w, r), EndsTask(r) => r.task \in Tasks /\ Over(r.task)
      PROVE  PartingAfter(w, r)
  BY <1>1 DEF Parting, Spent, Gone, PartingAfter
<1>2. QED
  BY <1>1, PartsOver DEF PartsOK

\* Every step of a worker keeps its responses in order: those of coroutines,
\* and behind them the one with which it leaves.
LEMMA LoopKeepsParts ==
  ASSUME TypeOK, IdleInv, ReportsOK, NEW w \in Workers, PartsOK(w),
         WorkerStep(w) \/ TimeOut(w),
         \A t \in Tasks : Over(t) /\ Gone(t) => Gone(t)'
  PROVE  PartsOK(w)'
<1> DEFINE ended == /\ response[w] # None => PartingAfter(w, response[w])
                    /\ \A i \in DOMAIN finished[w] :
                         Plain(w, finished[w][i]) \/ PartingAfter(w, finished[w][i])
<1> USE DEF TypeOK, PoolStateTypeOK, AsyncWorkerTypeOK, Goto
<1>1. ended
  BY PartingStays
<1>2. requestBus[w] = <<>> /\ ~HandleRequest(w)
  BY DEF PartsOK, HandleRequest
<1>3. pc[w] # "flush" => \A i \in DOMAIN finished[w] : Plain(w, finished[w][i])
  BY DEF PartsOK
<1>4. finished[w] \in Seq(Responses) /\ response[w] \in Responses
  OBVIOUS
<1>5. finished[w] # <<>> =>
        /\ Len(Tail(finished[w])) = Len(finished[w]) - 1 /\ Len(finished[w]) \in Nat
        /\ \A i \in DOMAIN Tail(finished[w]) :
             /\ i \in Nat /\ i >= 1 /\ i + 1 \in DOMAIN finished[w]
             /\ Tail(finished[w])[i] = finished[w][i + 1]
  BY <1>4
<1>6. finished[w] # <<>> => 1 \in DOMAIN finished[w] /\ Answer(w) = finished[w][1]
  BY <1>4 DEF Answer
<1> HIDE DEF ended
<1>7. CASE \/ MarkIdle(w) \/ NoRequest(w) \/ CheckRunning(w) \/ StopTaking(w)
           \/ EndTurn(w) \/ CollectDone(w) \/ TakeTask(w) \/ CreateTask(w)
  <2>1. /\ pc[w] \notin {"wait", "await", "flush"} /\ requestBus'[w] = requestBus[w]
        /\ finished'[w] = finished[w] /\ response'[w] = response[w]
    BY <1>7 DEF MarkIdle, NoRequest, CheckRunning, StopTaking, EndTurn, CollectDone,
                TakeTask, CreateTask, workerLocals, busVars, coroutines
  <2>2. QED
    BY <2>1, PartsStay
<1>8. CASE Boot(w) \/ ClearThread(w)
  <2>1. /\ finished'[w] = <<>> /\ response'[w] = None /\ requestBus'[w] = <<>>
    BY <1>2, <1>8 DEF Boot, ClearThread, workerLocals, busVars, PartsOK
  <2>2. QED
    BY <2>1, PartsPrimed
<1>9. CASE TimeOut(w)
  <2>1. Free(w) /\ pc[w] = "top"
    BY <1>9, FreeCount DEF TimeOut
  <2>2. /\ response'[w] = Action({"CLOSE"}, NoTask, w) /\ pc'[w] = "wait"
        /\ requestBus'[w] = <<>> /\ finished'[w] = <<>> /\ active'[w] = <<>>
    BY <1>2, <1>9, <2>1 DEF TimeOut, busVars, coroutines, Free
  <2>3. PartingAfter(w, Action({"CLOSE"}, NoTask, w))
    BY DEF PartingAfter, Action, Closes, EndsTask, Match
  <2>4. PartingAfter(w, response'[w])
    BY <2>2, <2>3
  <2>5. \A i \in DOMAIN finished'[w] : FALSE
    BY <2>2
  <2>6. QED
    BY <2>2, <2>4, <2>5, PartsPrimed
<1>10. CASE CollectFails(w) \/ CollectAndContinue(w) \/ CollectAndRestart(w)
  <2>1. /\ pc[w] = "collect" /\ finished[w] # <<>> /\ finished'[w] = Tail(finished[w])
        /\ requestBus'[w] = <<>>
    BY <1>2, <1>10 DEF CollectFails, CollectAndContinue, CollectAndRestart, CollectAnswer,
                       Collects, busVars
  <2>2. \A i \in DOMAIN finished'[w] : Plain(w, finished'[w][i])
    BY <1>3, <1>5, <2>1
  <2>3. CASE CollectFails(w) \/ CollectAndContinue(w)
    <3>1. response'[w] = None
      BY <2>3 DEF CollectFails, CollectAndContinue, DieAsync
    <3>2. QED
      BY <2>1, <2>2, <3>1, PartsPrimed
  <2>4. CASE CollectAndRestart(w)
    <3> DEFINE r == AddFlag(Answer(w), "RESTART")
    <3>1. /\ response'[w] = r /\ pc'[w] = "wait"
          /\ responseBus' = Append(responseBus, r) /\ Answer(w) # None
      BY <2>4 DEF CollectAndRestart, CollectAnswer, Broken
    <3>2. Plain(w, Answer(w)) /\ r \in Responses /\ responseBus \in Seq(Responses)
      BY <1>3, <1>6, <2>1, AnswerType
    <3>3. EndsTask(Answer(w)) /\ ~Closes(Answer(w)) /\ Answer(w).worker = w
      BY <3>1, <3>2 DEF Plain, Exits
    <3>4. EndsTask(r) /\ ~Closes(r) /\ Restarts(r) /\ r.worker = w
      BY <3>3 DEF EndsTask, Closes, Restarts, Match, AddFlag
    <3> HIDE DEF r
    <3>5. r.task \in EndsOn(responseBus')
      BY <3>1, <3>2, <3>4, AppendEnds DEF EndOf
    <3>6. PartingAfter(w, r)
      BY <3>4, <3>5 DEF PartingAfter
    <3>7. QED
      BY <2>1, <2>2, <3>1, <3>4, <3>6, PartsPrimed
  <2>5. QED
    BY <1>10, <2>3, <2>4
<1>11. CASE Await(w) \/ AwaitReturns(w)
  <2>1. /\ finished'[w] = finished[w] /\ response'[w] = response[w]
        /\ active'[w] = active[w]
        /\ requestBus'[w] = <<>> /\ pc[w] # "flush" /\ pc'[w] \in {"wait", "await"}
    BY <1>2, <1>11 DEF Await, AwaitReturns, Awaited, busVars
  <2>2. Closes(response[w]) => Free(w)
    BY DEF PartsOK, Closes, Match, None, Action
  <2>3. QED
    BY <1>1, <1>3, <2>1, <2>2, PartsPrimed DEF ended, Free
<1>12. CASE AwaitFails(w)
  <2>1. /\ finished'[w] = finished[w] /\ response'[w] = None
        /\ requestBus'[w] = <<>> /\ pc[w] # "flush"
    BY <1>2, <1>12 DEF AwaitFails, DieAsync, Awaited, busVars
  <2>2. QED
    BY <1>3, <2>1, PartsPrimed
<1>13. CASE Flush(w)
  <2>1. /\ pc[w] = "wait" /\ pc'[w] = "flush" /\ response'[w] = None
        /\ requestBus'[w] = <<>>
        /\ finished'[w] = IF response[w] # None THEN Append(finished[w], response[w])
                                                ELSE finished[w]
    BY <1>2, <1>13 DEF Flush, busVars
  <2>2. CASE response[w] = None
    BY <1>3, <2>1, <2>2, PartsPrimed
  <2>3. CASE response[w] # None
    <3> DEFINE a == Append(finished[w], response[w])
    <3>1. /\ DOMAIN a = DOMAIN finished[w] \cup {Len(a)} /\ Len(a) = Len(finished[w]) + 1
          /\ \A i \in DOMAIN finished[w] : a[i] = finished[w][i]
          /\ a[Len(a)] = response[w]
          /\ finished[w] = <<>> => Len(a) = 1
      BY <1>4
    <3> HIDE DEF a
    <3>2. finished'[w] = a
      BY <2>1, <2>3 DEF a
    <3>3. Closes(response[w]) => finished[w] = <<>>
      BY <2>3 DEF PartsOK, Free
    <3>4. PartingAfter(w, response[w])
      BY <1>1, <2>3 DEF ended
    <3>5. QED
      BY <1>3, <2>1, <3>1, <3>2, <3>3, <3>4, PartsPrimed
  <2>4. QED
    BY <2>2, <2>3
<1>14. CASE FlushAnswer(w)
  <2>1. /\ pc[w] = "flush" /\ pc'[w] = "flush" /\ response'[w] = response[w]
        /\ requestBus'[w] = <<>> /\ finished[w] # <<>>
        /\ finished'[w] = Tail(finished[w])
    BY <1>2, <1>14 DEF FlushAnswer, flagVars
  <2>2. response[w] = None
    BY <2>1 DEF PartsOK
  <2>3. ASSUME NEW i \in DOMAIN Tail(finished[w]), ~Plain(w, Tail(finished[w])[i])
        PROVE  /\ i = Len(Tail(finished[w])) /\ PartingAfter(w, Tail(finished[w])[i])
               /\ Closes(Tail(finished[w])[i]) => i = 1
    <3>1. /\ i \in Nat /\ i >= 1 /\ i + 1 \in DOMAIN finished[w]
          /\ Tail(finished[w])[i] = finished[w][i + 1]
      BY <1>5, <2>1
    <3>2. /\ i + 1 = Len(finished[w]) /\ PartingAfter(w, finished[w][i + 1])
          /\ Closes(finished[w][i + 1]) => i + 1 = 1
      BY <1>1, <2>3, <3>1 DEF ended, PartsOK
    <3>3. QED
      BY <1>5, <2>1, <3>1, <3>2
  <2>4. QED
    BY <2>1, <2>2, <2>3, PartsPrimed
<1>15. QED
  BY <1>2, <1>7, <1>8, <1>9, <1>10, <1>11, <1>12, <1>13, <1>14 DEF WorkerStep

(***************************************************************************)
(* A worker that has announced its end says nothing more about it; and an  *)
(* end that a worker announces, and that the manager may act on, is its    *)
(* first.                                                                  *)
(***************************************************************************)
Announces(w, r) ==
  /\ Exits(r) /\ r.worker = w /\ w \in currWorkers
  /\ ~IsSilent(w) /\ IsSilent(w)'
  /\ Closes(r) => Emptied(w)'

\* A worker whose responses are those of its coroutines does not close.
LEMMA PlainFacts ==
  ASSUME NEW w, NEW r, Plain(w, r)
  PROVE  ~Exits(r) /\ ~Closes(r)
  BY DEF Plain, Exits, Closes, Restarts, Match, None, Action

LEMMA LoopStaysSilent ==
  ASSUME TypeOK, NEW w \in Workers, PartsOK(w), WorkerStep(w) \/ TimeOut(w), IsSilent(w)
  PROVE  IsSilent(w)'
<1> USE DEF TypeOK, PoolStateTypeOK, AsyncWorkerTypeOK, Goto
<1>1. /\ pc[w] \in {"wait", "await", "flush", "ended", "died"} /\ ~running[w]
      /\ ~Closes(response[w]) /\ \A i \in DOMAIN finished[w] : ~Closes(finished[w][i])
      /\ ~Closes(None)
  BY DEF IsSilent, Closes, Match, None, Action
<1>2. CASE Await(w) \/ AwaitReturns(w) \/ AwaitFails(w) \/ ClearThread(w)
  BY <1>1, <1>2 DEF Await, AwaitReturns, AwaitFails, ClearThread, DieAsync, workerLocals,
                    IsSilent
<1>3. CASE Flush(w)
  <2>1. /\ running'[w] = running[w] /\ pc'[w] = "flush" /\ response'[w] = None
        /\ finished'[w] = IF response[w] # None THEN Append(finished[w], response[w])
                                                ELSE finished[w]
    BY <1>3 DEF Flush
  <2>2. finished[w] \in Seq(Responses) /\ response[w] \in Responses
    OBVIOUS
  <2>3. \A i \in DOMAIN finished'[w] : ~Closes(finished'[w][i])
    <3>1. CASE response[w] = None
      BY <1>1, <2>1, <3>1
    <3>2. CASE response[w] # None
      <4> DEFINE a == Append(finished[w], response[w])
      <4>1. /\ DOMAIN a = DOMAIN finished[w] \cup {Len(finished[w]) + 1}
            /\ \A i \in DOMAIN finished[w] : a[i] = finished[w][i]
            /\ a[Len(finished[w]) + 1] = response[w]
        BY <2>2
      <4> HIDE DEF a
      <4>2. finished'[w] = a
        BY <2>1, <3>2 DEF a
      <4>3. QED
        BY <1>1, <4>1, <4>2
    <3>3. QED
      BY <3>1, <3>2
  <2>4. QED
    BY <1>1, <2>1, <2>3 DEF IsSilent
<1>4. CASE FlushAnswer(w)
  <2>1. /\ pc'[w] = pc[w] /\ running'[w] = running[w] /\ response'[w] = response[w]
        /\ finished[w] # <<>> /\ finished'[w] = Tail(finished[w])
    BY <1>4 DEF FlushAnswer, flagVars
  <2>2. finished[w] \in Seq(Responses)
    OBVIOUS
  <2>3. \A i \in DOMAIN Tail(finished[w]) :
          i + 1 \in DOMAIN finished[w] /\ Tail(finished[w])[i] = finished[w][i + 1]
    BY <2>1, <2>2
  <2>4. QED
    BY <1>1, <2>1, <2>3 DEF IsSilent
<1>5. QED
  BY <1>1, <1>2, <1>3, <1>4
     DEF WorkerStep, TimeOut, Boot, MarkIdle, HandleRequest, NoRequest, CheckRunning,
         TakeTask, CreateTask, StopTaking, EndTurn, CollectFails, CollectAndContinue,
         CollectAndRestart, CollectDone, Collects, CollectAnswer

LEMMA LoopAnnounces ==
  ASSUME TypeOK, IdleInv, WorkersNumbered, NEW w \in Workers, PartsOK(w), EndsClean(w),
         WorkerStep(w) \/ TimeOut(w)
  PROVE  \/ UNCHANGED responseBus
         \/ \E r \in Responses : /\ responseBus' = Append(responseBus, r)
                                 /\ ~Exits(r) \/ Spent(r) \/ Announces(w, r)
<1> USE DEF TypeOK, PoolStateTypeOK, AsyncWorkerTypeOK, Goto
<1>1. pc[w] # "flush" => \A i \in DOMAIN finished[w] : Plain(w, finished[w][i])
  BY DEF PartsOK
<1>2. finished[w] \in Seq(Responses)
  OBVIOUS
<1>3. finished[w] # <<>> =>
        /\ Len(Tail(finished[w])) = Len(finished[w]) - 1 /\ Len(finished[w]) \in Nat
        /\ \A i \in DOMAIN Tail(finished[w]) :
             /\ i + 1 \in DOMAIN finished[w]
             /\ Tail(finished[w])[i] = finished[w][i + 1]
        /\ 1 \in DOMAIN finished[w] /\ Answer(w) = finished[w][1]
        /\ Len(finished[w]) = 1 => Tail(finished[w]) = <<>>
  BY <1>2, TailIndex DEF Answer
<1>4. pc[w] # "unborn" /\ ~Emptied(w) => w \in currWorkers
  <2>1. w \in Int /\ nextWorker \in Int
    BY PoolStateAssumption DEF TableTypeOK, Workers
  <2>2. w >= nextWorker => pc[w] = "unborn"
    BY DEF WorkersNumbered
  <2>3. w < nextWorker /\ w \notin currWorkers => Emptied(w)
    BY DEF EndsClean
  <2>4. QED
    BY <2>1, <2>2, <2>3
<1>5. CASE ~CollectAndContinue(w) /\ ~CollectAndRestart(w) /\ ~FlushAnswer(w)
  BY <1>5 DEF WorkerStep, TimeOut, Boot, MarkIdle, HandleRequest, NoRequest, CheckRunning,
              TakeTask, CreateTask, StopTaking, EndTurn, CollectFails, CollectDone, Await,
              AwaitReturns, AwaitFails, Flush, ClearThread, busVars
<1>6. CASE CollectAndContinue(w)
  <2>1. /\ pc[w] = "collect" /\ finished[w] # <<>>
        /\ responseBus' = Append(responseBus, Answer(w))
    BY <1>6 DEF CollectAndContinue, CollectAnswer, Collects
  <2>2. Plain(w, Answer(w)) /\ Answer(w) \in Responses
    BY <1>1, <1>3, <2>1, AnswerType
  <2>3. QED
    BY <2>1, <2>2, PlainFacts
<1>7. CASE CollectAndRestart(w)
  <2> DEFINE r == AddFlag(Answer(w), "RESTART")
  <2>1. /\ pc[w] = "collect" /\ finished[w] # <<>> /\ finished'[w] = Tail(finished[w])
        /\ response'[w] = r /\ pc'[w] = "wait" /\ ~running'[w]
        /\ responseBus' = Append(responseBus, r) /\ Answer(w) # None
    BY <1>7 DEF CollectAndRestart, CollectAnswer, Collects, Broken
  <2>2. Plain(w, Answer(w)) /\ r \in Responses
    BY <1>1, <1>3, <2>1, AnswerType
  <2>3. ~Closes(Answer(w)) /\ Answer(w).worker = w
    BY <2>1, <2>2, PlainFacts DEF Plain
  <2>4. ~Closes(r) /\ Restarts(r) /\ r.worker = w
    BY <2>3 DEF Closes, Restarts, Match, AddFlag
  <2> HIDE DEF r
  <2>5. \A i \in DOMAIN finished'[w] : ~Closes(finished'[w][i])
    BY <1>1, <1>3, <2>1, PlainFacts
  <2>6. ~IsSilent(w) /\ w \in currWorkers
    BY <1>4, <2>1 DEF IsSilent, Emptied
  <2>7. IsSilent(w)'
    BY <2>1, <2>4, <2>5 DEF IsSilent
  <2>8. Announces(w, r)
    BY <2>4, <2>6, <2>7 DEF Announces, Exits
  <2>9. QED
    BY <2>1, <2>2, <2>8
<1>8. CASE FlushAnswer(w)
  <2>1. /\ pc[w] = "flush" /\ pc'[w] = "flush" /\ response'[w] = response[w]
        /\ running'[w] = running[w] /\ active'[w] = active[w]
        /\ finished[w] # <<>> /\ finished'[w] = Tail(finished[w])
        /\ responseBus' = Append(responseBus, Answer(w))
    BY <1>8 DEF FlushAnswer, flagVars
  <2>2. Answer(w) \in Responses
    BY <2>1, AnswerType
  <2>3. CASE Plain(w, Answer(w)) \/ Spent(Answer(w))
    BY <2>1, <2>2, <2>3, PlainFacts
  <2>4. CASE ~Plain(w, Answer(w)) /\ ~Spent(Answer(w))
    <3>1. /\ Answer(w).worker = w /\ Closes(Answer(w)) /\ Len(finished[w]) = 1
      BY <1>3, <2>1, <2>4 DEF PartsOK, Parting
    <3>2. finished'[w] = <<>> /\ \A i \in DOMAIN finished'[w] : FALSE
      BY <1>3, <2>1, <3>1
    <3>3. response[w] = None /\ ~Closes(None)
      BY <2>1 DEF PartsOK, Closes, Match, None, Action
    <3>4. active[w] = <<>> /\ ~running[w]
      BY <2>1 DEF EndsClean, IdleInv
    <3>5. IsSilent(w)' /\ Emptied(w)'
      BY <2>1, <3>2, <3>3, <3>4 DEF IsSilent, Emptied, Free
    <3>6. ~IsSilent(w) /\ w \in currWorkers
      BY <1>3, <1>4, <2>1, <3>1 DEF IsSilent, Emptied, Free
    <3>7. Announces(w, Answer(w))
      BY <3>1, <3>5, <3>6 DEF Announces, Exits
    <3>8. QED
      BY <2>1, <2>2, <3>7
  <2>5. QED
    BY <2>3, <2>4
<1>9. QED
  BY <1>5, <1>6, <1>7, <1>8

\* The end of a coroutine adds an answer at most.
LEMMA CoroutineAnswers ==
  ASSUME TypeOK, NEW w \in Workers, NEW t \in Tasks, RunCoroutine(w, t) \/ ExitCoroutine(w, t)
  PROVE  /\ UNCHANGED <<responseBus, requestBus, running>>
         /\ pc[w] \in {"run", "await"} /\ active[w] # <<>> /\ pc'[w] \in {pc[w], "died"}
         /\ \A v \in Workers : v # w =>
              /\ pc'[v] = pc[v] /\ active'[v] = active[v]
              /\ finished'[v] = finished[v] /\ response'[v] = response[v]
         /\ \/ finished'[w] = finished[w] /\ response'[w] = None
            \/ /\ response'[w] = response[w] /\ pc'[w] = pc[w]
               /\ \E r \in Responses : Plain(w, r) /\ finished'[w] = Append(finished[w], r)
<1> USE DEF TypeOK, PoolStateTypeOK, AsyncWorkerTypeOK
<1>1. pc[w] \in {"run", "await"} /\ active[w] # <<>>
  BY DEF RunCoroutine, ExitCoroutine, InLoop, ToSet
<1>2. CASE ExitCoroutine(w, t)
  BY <1>1, <1>2 DEF ExitCoroutine, DieAsync, Goto, busVars
<1>3. CASE RunCoroutine(w, t)
  <2>1. PICK o \in Outcomes \ {"exit"} :
          finished' = [finished EXCEPT ![w] =
            Append(@, IF o = "cancel" THEN None ELSE Action({FlagOf(o)}, t, w))]
    BY <1>3 DEF RunCoroutine
  <2> DEFINE r == IF o = "cancel" THEN None ELSE Action({FlagOf(o)}, t, w)
  <2>2. r \in Responses
    BY ActionType, NoneType DEF FlagOf, Flags
  <2>3. Plain(w, r)
    BY DEF Plain, FlagOf, Action, None, EndsTask, Exits, Closes, Restarts, Match
  <2>4. finished'[w] = Append(finished[w], r)
    BY <2>1
  <2> HIDE DEF r
  <2>5. /\ UNCHANGED <<responseBus, requestBus, running, response, pc>>
        /\ \A v \in Workers : v # w => active'[v] = active[v] /\ finished'[v] = finished[v]
    BY <1>3, <2>1 DEF RunCoroutine, busVars, flagVars
  <2>6. QED
    BY <1>1, <2>2, <2>3, <2>4, <2>5
<1>4. QED
  BY <1>2, <1>3

\* It ends no loop, and what the worker has announced stays announced.
LEMMA CoroutineKeepsParts ==
  ASSUME TypeOK, ReportsOK, NEW w \in Workers, NEW t \in Tasks,
         RunCoroutine(w, t) \/ ExitCoroutine(w, t),
         \A u \in Tasks : Over(u) /\ Gone(u) => Gone(u)'
  PROVE  /\ EndsClean(w) /\ UNCHANGED tableVars => EndsClean(w)'
         /\ ~Emptied(w)
         /\ IsSilent(w) => IsSilent(w)'
         /\ PartsOK(w) => PartsOK(w)'
<1>1. ~Emptied(w) /\ pc'[w] \notin {"flush", "ended"}
  BY CoroutineAnswers DEF Emptied
<1>2. EndsClean(w) /\ UNCHANGED tableVars => EndsClean(w)'
  BY <1>1 DEF EndsClean, tableVars
<1>3. finished[w] \in Seq(Responses) /\ ~Closes(None)
  BY DEF TypeOK, AsyncWorkerTypeOK, Closes, Match, None, Action
<1>4. ASSUME NEW r \in Responses, finished'[w] = Append(finished[w], r)
      PROVE  /\ DOMAIN finished'[w] = DOMAIN finished[w] \cup {Len(finished[w]) + 1}
             /\ \A i \in DOMAIN finished[w] : finished'[w][i] = finished[w][i]
             /\ finished'[w][Len(finished[w]) + 1] = r
  <2>1. /\ DOMAIN Append(finished[w], r) = DOMAIN finished[w] \cup {Len(finished[w]) + 1}
        /\ \A i \in DOMAIN finished[w] : Append(finished[w], r)[i] = finished[w][i]
        /\ Append(finished[w], r)[Len(finished[w]) + 1] = r
    BY <1>3
  <2>2. QED
    BY <1>4, <2>1
<1>5. CASE finished'[w] = finished[w] /\ response'[w] = None
  <2>1. IsSilent(w) => IsSilent(w)'
    BY <1>3, <1>5, CoroutineAnswers DEF IsSilent
  <2>2. PartsOK(w) => PartsOK(w)'
    <3>1. requestBus'[w] = requestBus[w] /\ pc[w] # "flush"
      BY CoroutineAnswers
    <3>2. QED
      BY <1>5, <3>1, PartsPrimed DEF PartsOK
  <2>3. QED
    BY <1>1, <1>2, <2>1, <2>2
<1>6. ASSUME NEW r \in Responses, Plain(w, r), finished'[w] = Append(finished[w], r),
             response'[w] = response[w], pc'[w] = pc[w]
      PROVE  (IsSilent(w) => IsSilent(w)') /\ (PartsOK(w) => PartsOK(w)')
  <2>1. /\ pc[w] \in {"run", "await"} /\ running'[w] = running[w]
        /\ requestBus'[w] = requestBus[w] /\ active[w] # <<>>
    BY CoroutineAnswers
  <2>2. ~Closes(r)
    BY <1>6, PlainFacts
  <2>3. IsSilent(w) => IsSilent(w)'
    BY <1>4, <1>6, <2>1, <2>2 DEF IsSilent
  <2>4. ASSUME PartsOK(w)
        PROVE  PartsOK(w)'
    <3>1. \A i \in DOMAIN finished'[w] : Plain(w, finished'[w][i])
      BY <1>4, <1>6, <2>1, <2>4 DEF PartsOK
    <3>2. response[w] # None => /\ pc[w] \in {"wait", "await"} /\ PartingAfter(w, response[w])
                                /\ ~Closes(response[w])
      BY <2>1, <2>4, PartingStays DEF PartsOK, Free
    <3>3. requestBus'[w] = <<>>
      BY <2>1, <2>4 DEF PartsOK
    <3>4. QED
      BY <1>6, <3>1, <3>2, <3>3, PartsPrimed
  <2>5. QED
    BY <2>3, <2>4
<1>7. QED
  BY <1>1, <1>2, <1>5, <1>6, CoroutineAnswers

-----------------------------------------------------------------------------
(***************************************************************************)
(* The ends on the response bus, step by step.                             *)
(***************************************************************************)
\* A step of a worker or of one of its coroutines: it announces its end once.
LEMMA WorkerKeepsListed ==
  ASSUME TypeOK, ExitsListed, NEW w \in Workers, UNCHANGED <<tableVars, managerVars>>,
         \A v \in Workers : v # w =>
           /\ pc'[v] = pc[v] /\ running'[v] = running[v] /\ active'[v] = active[v]
           /\ finished'[v] = finished[v] /\ response'[v] = response[v],
         IsSilent(w) => IsSilent(w)', Emptied(w) => Emptied(w)',
         \/ UNCHANGED responseBus
         \/ \E r \in Responses : /\ responseBus' = Append(responseBus, r)
                                 /\ ~Exits(r) \/ Spent(r) \/ Announces(w, r)
  PROVE  ExitsListed'
<1>1. /\ UNCHANGED <<currTasks, currWorkers, mpc, phase, handled>>
      /\ responseBus \in Seq(Responses)
  BY DEF tableVars, managerVars, managerCtl, TypeOK, PoolStateTypeOK
<1>2. \A v \in Workers : /\ IsSilent(v) => IsSilent(v)'
                         /\ Emptied(v) => Emptied(v)'
  BY DEF IsSilent, Emptied, Free
<1>3. Restarting' = Restarting /\ currWorkers \subseteq Workers
  BY <1>1 DEF Restarting, TypeOK, TableTypeOK
<1>4. Silent \subseteq Silent' /\ Empties \subseteq Empties'
  BY <1>1, <1>2, <1>3 DEF Silent, Empties
<1>5. Listed \subseteq Listed'
  BY <1>1, <1>3, <1>4 DEF Listed
<1>6. Restarting' => handled' \in Silent'
  BY <1>1, <1>3, <1>4 DEF ExitsListed
<1>7. EndsListed(responseBus, currTasks, Listed, Empties)
  BY DEF ExitsListed
<1>8. EndsListed(responseBus', currTasks', Listed', Empties')
  <2>1. CASE UNCHANGED responseBus
    BY <1>1, <1>4, <1>5, <1>7, <2>1, ListedGrows
  <2>2. ASSUME NEW r \in Responses, responseBus' = Append(responseBus, r),
               ~Exits(r) \/ Spent(r)
        PROVE  EndsListed(responseBus', currTasks', Listed', Empties')
    <3>1. EndsListed(Append(responseBus, r), currTasks, Listed, Empties)
      BY <1>1, <1>7, <2>2, ListedAppend DEF Spent, Gone
    <3>2. QED
      BY <1>1, <1>4, <1>5, <2>2, <3>1, ListedGrows
  <2>3. ASSUME NEW r \in Responses, responseBus' = Append(responseBus, r), Announces(w, r)
        PROVE  EndsListed(responseBus', currTasks', Listed', Empties')
    <3>1. r.worker = w /\ w \notin Silent /\ w \in Silent'
      BY <1>1, <2>3 DEF Announces, Silent, IsSilent
    <3>2. w \notin Listed /\ w \in Listed'
      BY <1>1, <1>3, <3>1 DEF Listed, ExitsListed
    <3>3. Closes(r) => w \in Empties'
      BY <2>3 DEF Announces, Empties, Emptied, Free
    <3>4. /\ r.worker \notin Listed /\ r.worker \in Listed'
          /\ Closes(r) => r.worker \in Empties'
          /\ Empties \cap Listed \subseteq Empties'
      BY <1>4, <3>1, <3>2, <3>3
    <3>5. EndsListed(Append(responseBus, r), currTasks, Listed', Empties')
      BY <1>1, <1>5, <1>7, <3>4, ListedExit
    <3>6. QED
      BY <1>1, <2>3, <3>5
  <2>4. QED
    BY <2>1, <2>2, <2>3
<1>9. QED
  BY <1>6, <1>8 DEF ExitsListed

\* The manager's steps other than taking a response: no worker is popped, and
\* the worker it restarts is the one it was told to.
LEMMA ManagerRestarts ==
  ASSUME PhaseOK, phase # "halt", ManagerStep \/ ManagerIdleOut \/ ManagerKilled,
         ~ConsumeFails, ~ConsumeResponse
  PROVE  /\ UNCHANGED <<responseBus, currTasks, currWorkers, requestBus>>
         /\ Restarting' => Restarting /\ handled' = handled
<1>1. mpc \notin {"close", "halt"}
  BY DEF PhaseOK
<1>2. CASE StopFlag \/ StopAlive \/ StopJoin \/ StopJoined \/ StopDone
  BY <1>2 DEF StopFlag, StopAlive, StopJoin, StopJoined, StopDone, StopUnchanged,
              busVars, tableVars, Restarting
<1>3. CASE ~ (StopFlag \/ StopAlive \/ StopJoin \/ StopJoined \/ StopDone)
  <2>1. \/ ManagerBoot \/ ManagerCheck \/ BusDrained \/ ManagerDown \/ RestartReturns
        \/ RestartWorker \/ ManagerIdleOut \/ ManagerKilled
    BY <1>1, <1>3 DEF ManagerStep, IterationFails, CloseWorker, CloseDone, HaltWorker,
                      ManagerEnd
  <2>2. UNCHANGED <<responseBus, currTasks, currWorkers, requestBus>>
    BY <2>1 DEF ManagerBoot, ManagerCheck, BusDrained, ManagerDown, RestartReturns,
                RestartWorker, ManagerIdleOut, ManagerKilled, poolVars, busVars, tableVars
  <2>3. mpc' \notin {"stop1", "stop2", "stop3", "join", "stopped", "start"}
    BY <2>1 DEF ManagerBoot, ManagerCheck, BusDrained, ManagerDown, RestartReturns,
                RestartWorker, ManagerIdleOut, ManagerKilled, AfterConsume, Die
  <2>4. QED
    BY <2>2, <2>3 DEF Restarting
<1>4. QED
  BY <1>2, <1>3

\* What the manager takes off the bus: an end that it acts on is that of a
\* worker it knows, and one that is popped has nothing left.
LEMMA TakesExit ==
  ASSUME TypeOK, ExitsListed, phase # "halt", TakeResponse
  PROVE  LET h == Head(responseBus) IN
         /\ ~Restarting
         /\ EndsListed(responseBus', currTasks', Silent, Empties)
         /\ Exits(h) /\ ConsumeError(h) = "none" =>
              /\ h.worker \in Silent
              /\ Closes(h) => h.worker \in Empties
              /\ EndsListed(responseBus', currTasks', Silent \ {h.worker}, Empties)
<1> DEFINE h == Head(responseBus)
<1>1. /\ mpc = "receive" /\ responseBus \in Seq(Responses) /\ responseBus # <<>>
      /\ responseBus' = Tail(responseBus) /\ currTasks' = currTasks \ EndOf(h)
  BY TakesReport DEF TakeResponse, TypeOK, PoolStateTypeOK
<1>2. ~Restarting /\ EndsListed(responseBus, currTasks, Silent, Empties)
  BY <1>1 DEF Restarting, ExitsListed, Listed
<1>3. ConsumeError(h) = "none" /\ EndsTask(h) => h.task \in currTasks
  BY DEF ConsumeError
<1>4. /\ EndsListed(Tail(responseBus), currTasks \ EndOf(h), Silent, Empties)
      /\ Exits(h) /\ (EndsTask(h) => h.task \in currTasks) =>
           /\ h.worker \in Silent
           /\ Closes(h) => h.worker \in Empties
           /\ EndsListed(Tail(responseBus), currTasks \ EndOf(h),
                         Silent \ {h.worker}, Empties)
  BY <1>1, <1>2, ListedTail
<1> HIDE DEF h
<1>5. QED
  BY <1>1, <1>2, <1>3, <1>4 DEF h

LEMMA TakeKeepsListed ==
  ASSUME TypeOK, ExitsListed, phase # "halt", ConsumeFails \/ ConsumeResponse,
         UNCHANGED workerLocals
  PROVE  ExitsListed'
<1> DEFINE h == Head(responseBus)
<1>1. /\ TakeResponse /\ UNCHANGED <<pc, running, active, finished, response, phase>>
      /\ Empties' = Empties
  BY DEF ConsumeFails, ConsumeResponse, TakeResponse, flagVars, workerLocals, Empties,
         Emptied, Free
<1>2. /\ ~Restarting
      /\ EndsListed(responseBus', currTasks', Silent, Empties)
      /\ Exits(h) /\ ConsumeError(h) = "none" =>
           /\ h.worker \in Silent
           /\ EndsListed(responseBus', currTasks', Silent \ {h.worker}, Empties)
  BY <1>1, TakesExit
<1> HIDE DEF h
<1>3. CASE currWorkers' = currWorkers /\ mpc' \in {"dead", "top", "receive"}
  <2>1. Silent' = Silent /\ ~Restarting'
    BY <1>1, <1>3 DEF Silent, IsSilent, Restarting
  <2>2. QED
    BY <1>1, <1>2, <2>1 DEF ExitsListed, Listed
<1>4. CASE Exits(h) /\ ConsumeError(h) = "none"
           /\ currWorkers' = currWorkers \ {h.worker} /\ mpc' \in {"top", "receive"}
  <2>1. Silent' = Silent \ {h.worker} /\ ~Restarting'
    BY <1>1, <1>4 DEF Silent, IsSilent, Restarting
  <2>2. QED
    BY <1>1, <1>2, <1>4, <2>1 DEF ExitsListed, Listed
<1>5. CASE Exits(h) /\ ConsumeError(h) = "none"
           /\ currWorkers' = currWorkers /\ mpc' = "stop1" /\ handled' = h.worker
  <2>1. Silent' = Silent /\ Restarting'
    BY <1>1, <1>5 DEF Silent, IsSilent, Restarting
  <2>2. QED
    BY <1>1, <1>2, <1>5, <2>1 DEF ExitsListed, Listed
<1>6. CASE ConsumeFails
  BY <1>3, <1>6 DEF ConsumeFails, Die
<1>7. CASE ConsumeResponse
  <2>1. /\ ConsumeError(h) = "none"
        /\ currWorkers' = IF Closes(h) THEN currWorkers \ {h.worker} ELSE currWorkers
        /\ IF Restarts(h) THEN mpc' = "stop1" /\ handled' = h.worker
                          ELSE mpc' \in {"top", "receive"}
    BY <1>7 DEF ConsumeResponse, AfterConsume, h
  <2>2. QED
    BY <1>3, <1>4, <1>5, <2>1 DEF Exits, Restarts
<1>8. QED
  BY <1>6, <1>7

\* What the manager's steps do to the workers: they clear `running`, and give
\* one worker that has ended a new thread.
LEMMA ManagerMoves ==
  ASSUME TypeOK, ManagerOK, ManagerStep \/ ManagerIdleOut \/ ManagerKilled \/ KilledConsuming,
         UNCHANGED workerLocals
  PROVE  /\ UNCHANGED <<active, finished, response>>
         /\ \A v \in Workers :
              /\ running[v] \/ ~running'[v]
              /\ \/ pc'[v] = pc[v]
                 \/ /\ RestartWorker /\ v = handled /\ pc'[v] = "boot"
                    /\ pc[v] \in {"unborn", "ended", "died"}
<1>1. /\ UNCHANGED <<active, finished, response>>
      /\ UNCHANGED running \/ StopFlag
      /\ UNCHANGED pc \/ (RestartWorker /\ StartThread(handled))
  BY ManagerChanges DEF workerLocals
<1>2. \A v \in Workers : running[v] \/ ~running'[v]
  BY <1>1 DEF StopFlag, TypeOK, PoolStateTypeOK
<1>3. ASSUME RestartWorker, StartThread(handled), NEW v \in Workers
      PROVE  \/ pc'[v] = pc[v]
             \/ /\ v = handled /\ pc'[v] = "boot"
                /\ pc[v] \in {"unborn", "ended", "died"}
  <2>1. ~ThreadAlive(handled)
    BY <1>3 DEF RestartWorker, ManagerOK, HandledOK
  <2>2. QED
    BY <1>3, <2>1 DEF StartThread, ThreadAlive, TypeOK, PoolStateTypeOK
<1>4. QED
  BY <1>1, <1>2, <1>3

LEMMA ManagerKeepsListed ==
  ASSUME TypeOK, ManagerOK, PhaseOK, ExitsListed, phase # "halt",
         ManagerStep \/ ManagerIdleOut \/ ManagerKilled, UNCHANGED workerLocals
  PROVE  ExitsListed'
<1>1. CASE ConsumeFails \/ ConsumeResponse
  BY <1>1, TakeKeepsListed
<1>2. CASE ~ConsumeFails /\ ~ConsumeResponse
  <2>1. /\ UNCHANGED <<responseBus, currTasks, currWorkers>>
        /\ Restarting' => Restarting /\ handled' = handled
    BY <1>2, ManagerRestarts
  <2>2. ASSUME NEW v \in Workers, IsSilent(v), pc'[v] = pc[v]
        PROVE  IsSilent(v)'
    BY <2>2, ManagerMoves DEF IsSilent
  <2>3. ASSUME NEW v \in Workers, Emptied(v), pc'[v] = pc[v]
        PROVE  Emptied(v)'
    BY <2>3, ManagerMoves DEF Emptied, Free
  <2>4. currWorkers \subseteq Workers
    BY DEF TypeOK, TableTypeOK
  <2>5. ASSUME NEW v \in Listed
        PROVE  v \in Workers /\ pc'[v] = pc[v]
    <3>1. v \in Workers /\ v \in Silent
      BY <2>4, <2>5 DEF Listed, Silent
    <3>2. ~ (RestartWorker /\ v = handled)
      BY <2>5 DEF RestartWorker, Restarting, Listed
    <3>3. QED
      BY <3>1, <3>2, ManagerMoves
  <2>6. Listed \subseteq Silent' /\ Empties \cap Listed \subseteq Empties'
    BY <2>1, <2>2, <2>3, <2>5 DEF Listed, Silent, Empties, IsSilent, Emptied, Free
  <2>7. Listed \subseteq Listed'
    BY <2>1, <2>6 DEF Listed
  <2>8. Restarting' => handled' \in Silent'
    <3>1. SUFFICES ASSUME Restarting' PROVE handled' \in Silent'
      OBVIOUS
    <3>2. handled \in Silent /\ Restarting /\ handled' = handled
      BY <2>1, <3>1 DEF ExitsListed
    <3>3. ~RestartWorker
      BY <3>1 DEF RestartWorker, Restarting, Die
    <3>4. pc'[handled] = pc[handled] /\ handled \in Workers /\ IsSilent(handled)
      BY <2>4, <3>2, <3>3, ManagerMoves DEF Silent
    <3>5. PICK v \in Workers : v = handled
      BY <3>4
    <3>6. v \in Silent'
      BY <2>1, <2>2, <3>2, <3>4, <3>5 DEF Silent, IsSilent
    <3>7. QED
      BY <3>2, <3>5, <3>6
  <2>9. EndsListed(responseBus', currTasks', Listed', Empties')
    BY <2>1, <2>6, <2>7, ListedGrows DEF ExitsListed
  <2>10. QED
    BY <2>8, <2>9 DEF ExitsListed
<1>3. QED
  BY <1>1, <1>2

\* The responses of the workers stay as they are, and a worker that the manager
\* pops has nothing left.
LEMMA ManagerKeepsParts ==
  ASSUME TypeOK, ManagerOK, ReportsOK, PhaseOK, phase # "halt",
         \A w \in Workers : PartsOK(w), mpc' # "killed",
         ManagerStep \/ ManagerIdleOut \/ ManagerKilled, UNCHANGED workerLocals
  PROVE  \A w \in Workers : PartsOK(w)'
<1>1. UNCHANGED requestBus
  <2>1. ~CloseWorker
    BY DEF CloseWorker, PhaseOK
  <2>2. QED
    BY <2>1, ManagerChanges
<1>2. \A t \in Tasks : Over(t) /\ Gone(t) => Gone(t)'
  <2>1. CASE UNCHANGED <<responseBus, currTasks>>
    BY <2>1 DEF Gone
  <2>2. CASE TakeResponse
    BY <2>2, TakesReport DEF Gone
  <2>3. QED
    BY <2>1, <2>2, ManagerChanges, KilledStops
<1>3. ASSUME NEW w \in Workers
      PROVE  PartsOK(w)'
  <2>1. /\ finished'[w] = finished[w] /\ response'[w] = response[w]
        /\ active'[w] = active[w]
        /\ pc'[w] = pc[w] \/ pc[w] \notin {"wait", "await", "flush"}
    BY ManagerMoves
  <2>2. QED
    BY <1>1, <1>2, <1>3, <2>1, PartsStay
<1>4. QED
  BY <1>3

LEMMA ManagerKeepsClean ==
  ASSUME TypeOK, ManagerOK, PhaseOK, \A w \in Workers : EndsClean(w),
         Listens => ExitsListed,
         ManagerStep \/ ManagerIdleOut \/ ManagerKilled \/ KilledConsuming,
         UNCHANGED workerLocals
  PROVE  \A w \in Workers : EndsClean(w)'
<1>1. UNCHANGED nextWorker /\ UNCHANGED <<active, finished>>
  BY ManagerChanges, ManagerMoves
<1>2. ASSUME NEW w \in Workers, pc'[w] = pc[w],
             w \in currWorkers /\ w \notin currWorkers' => Emptied(w)
      PROVE  EndsClean(w)'
  BY <1>1, <1>2 DEF EndsClean, Emptied, Free
<1>3. ASSUME NEW w \in Workers, w \in currWorkers, w \notin currWorkers'
      PROVE  Emptied(w) /\ ~RestartWorker
  <2>1. ConsumeResponse
    BY <1>3 DEF ManagerStep, ManagerIdleOut, ManagerKilled, KilledConsuming, ManagerBoot,
                ManagerCheck, BusDrained, ConsumeFails, ManagerDown, StopFlag, StopAlive, StopJoin,
                StopJoined, StopDone, StopUnchanged, RestartWorker, RestartReturns,
                IterationFails, CloseWorker, CloseDone, HaltWorker, ManagerEnd, tableVars
  <2>2. mpc = "receive" /\ TakeResponse
    BY <2>1 DEF ConsumeResponse, TakeResponse
  <2>3. phase # "halt" /\ Listens /\ ~RestartWorker
    BY <2>2 DEF PhaseOK, RestartWorker, Listens
  <2>4. /\ ConsumeError(Head(responseBus)) = "none" /\ Closes(Head(responseBus))
        /\ w = Head(responseBus).worker
    BY <1>3, <2>1 DEF ConsumeResponse
  <2>5. w \in Empties
    BY <2>2, <2>3, <2>4, TakesExit DEF Exits
  <2>6. QED
    BY <2>3, <2>5 DEF Empties
<1>4. ASSUME NEW w \in Workers, RestartWorker, w = handled, pc'[w] = "boot"
      PROVE  EndsClean(w)'
  <2>1. Restarting /\ Listens
    BY <1>4 DEF RestartWorker, Restarting, PhaseOK, Listens
  <2>2. w \in currWorkers
    BY <1>4, <2>1 DEF Restarting, ExitsListed, Silent
  <2>3. w \in currWorkers'
    BY <1>3, <1>4, <2>2
  <2>4. QED
    BY <1>4, <2>3 DEF EndsClean
<1>5. QED
  BY <1>2, <1>3, <1>4, ManagerMoves

\* What the steps of a client do to the workers and to the entries: a worker is
\* new that the manager knows, a task is new that nobody has spoken of.
LEMMA ClientMoves ==
  ASSUME TypeOK, ManagerOK, NEW c \in Clients, ClientStep(c) \/ ClientCall(c),
         UNCHANGED workerLocals
  PROVE  /\ UNCHANGED <<responseBus, requestBus, running, phase, handled, active,
                        finished, response>>
         /\ Restarting' = Restarting /\ currWorkers \subseteq currWorkers'
         /\ \A v \in Workers :
              /\ pc'[v] = pc[v] \/ (pc[v] = "unborn" /\ pc'[v] = "boot" /\ v \in currWorkers')
              /\ v < nextWorker' => v < nextWorker \/ v \in currWorkers'
              /\ v \in currWorkers => pc'[v] = pc[v]
         /\ \/ UNCHANGED currTasks
            \/ \E t \in Tasks : future[t] = "unsubmitted" /\ currTasks' = currTasks \cup {t}
<1>1. /\ UNCHANGED <<responseBus, requestBus, running, phase, handled, active,
                     finished, response>>
      /\ mpc' = mpc \/ (mpc = "unborn" /\ mpc' = "boot")
      /\ UNCHANGED <<pc, currWorkers, nextWorker>> \/ SpawnWorker(c)
      /\ \/ UNCHANGED currTasks
         \/ Queue(c)
         \/ \E t \in Tasks : Submit(c, t)
  BY ClientChanges DEF workerLocals
<1>2. Restarting' = Restarting
  BY <1>1 DEF Restarting
<1>3. \/ UNCHANGED currTasks
      \/ \E t \in Tasks : future[t] = "unsubmitted" /\ currTasks' = currTasks \cup {t}
  <2>1. CASE Queue(c)
    BY <2>1 DEF Queue, ManagerOK, QueuedIsNew
  <2>2. CASE \E t \in Tasks : Submit(c, t)
    BY <2>2 DEF Submit, tableVars
  <2>3. QED
    BY <1>1, <2>1, <2>2
<1>4. ASSUME NEW v \in Workers
      PROVE  /\ \/ pc'[v] = pc[v]
                \/ pc[v] = "unborn" /\ pc'[v] = "boot" /\ v \in currWorkers'
             /\ v < nextWorker' => v < nextWorker \/ v \in currWorkers'
             /\ v \in currWorkers => pc'[v] = pc[v]
  <2>1. CASE UNCHANGED <<pc, currWorkers, nextWorker>>
    BY <2>1
  <2>2. CASE SpawnWorker(c)
    <3>1. /\ v \in Int /\ nextWorker \in Int /\ nextWorker' = nextWorker + 1
          /\ currWorkers' = currWorkers \cup {nextWorker}
      BY <2>2, PoolStateAssumption DEF SpawnWorker, TypeOK, TableTypeOK, Workers
    <3>2. pc' = [pc EXCEPT ![nextWorker] = "boot"] /\ pc = [u \in Workers |-> pc[u]]
      BY <2>2 DEF SpawnWorker, StartThread, TypeOK, PoolStateTypeOK
    <3>3. pc'[v] = IF v = nextWorker THEN "boot" ELSE pc[v]
      BY <3>2
    <3>4. v >= nextWorker => pc[v] = "unborn"
      BY DEF ManagerOK, WorkersNumbered
    <3>5. v \in currWorkers => v < nextWorker
      BY DEF ManagerOK, WorkersNumbered
    <3>6. v < nextWorker + 1 => v < nextWorker \/ v = nextWorker
      BY <3>1
    <3>7. v = nextWorker => v >= nextWorker /\ ~(v < nextWorker)
      BY <3>1
    <3>8. QED
      BY <3>1, <3>3, <3>4, <3>5, <3>6, <3>7
  <2>3. QED
    BY <1>1, <2>1, <2>2
<1>5. currWorkers \subseteq currWorkers'
  BY <1>1 DEF SpawnWorker
<1>6. QED
  BY <1>1, <1>2, <1>3, <1>4, <1>5

LEMMA ClientKeepsLeave ==
  ASSUME TypeOK, ManagerOK, HoldInv, NEW c \in Clients, ClientStep(c) \/ ClientCall(c),
         UNCHANGED workerLocals, \A w \in Workers : EndsClean(w)
  PROVE  /\ \A w \in Workers : EndsClean(w)'
         /\ (\A w \in Workers : PartsOK(w)) /\ ExitsListed =>
              (\A w \in Workers : PartsOK(w)') /\ ExitsListed'
<1>1. \A w \in Workers : EndsClean(w)'
  BY ClientMoves DEF EndsClean, Emptied, Free
<1>2. \A t \in Tasks : Over(t) /\ Gone(t) => Gone(t)'
  BY ClientMoves DEF Over, Resolved, Gone
<1>3. ASSUME NEW w \in Workers, PartsOK(w)
      PROVE  PartsOK(w)'
  <2>1. /\ requestBus'[w] = requestBus[w] /\ finished'[w] = finished[w]
        /\ response'[w] = response[w] /\ active'[w] = active[w]
        /\ pc'[w] = pc[w] \/ pc[w] \notin {"wait", "await", "flush"}
    BY ClientMoves
  <2>2. QED
    BY <1>2, <1>3, <2>1, PartsStay DEF HoldInv
<1>4. ASSUME ExitsListed
      PROVE  ExitsListed'
  <2>1. /\ UNCHANGED <<responseBus, handled>> /\ Restarting' = Restarting
        /\ responseBus \in Seq(Responses) /\ currWorkers \subseteq Workers
    BY ClientMoves DEF TypeOK, PoolStateTypeOK, TableTypeOK
  <2>2. Silent \subseteq Silent'
    BY <2>1, ClientMoves DEF Silent, IsSilent
  <2>3. Empties \subseteq Empties'
    BY ClientMoves DEF Empties, Emptied, Free
  <2>4. Listed \subseteq Listed' /\ (Restarting' => handled' \in Silent')
    BY <1>4, <2>1, <2>2 DEF Listed, ExitsListed
  <2>5. EndsListed(responseBus, currTasks', Listed, Empties)
    <3>1. EndsListed(responseBus, currTasks, Listed, Empties)
      BY <1>4 DEF ExitsListed
    <3>2. ASSUME NEW t \in Tasks, future[t] = "unsubmitted", currTasks' = currTasks \cup {t}
          PROVE  EndsListed(responseBus, currTasks', Listed, Empties)
      <4>1. t \notin EndsOn(responseBus)
        BY <3>2 DEF HoldInv, ReportsOK, Over, Resolved
      <4>2. QED
        BY <2>1, <3>1, <3>2, <4>1, ListedEntry
    <3>3. QED
      BY <3>1, <3>2, ClientMoves
  <2>6. EndsListed(responseBus', currTasks', Listed', Empties')
    BY <2>1, <2>3, <2>4, <2>5, ListedGrows
  <2>7. QED
    BY <2>4, <2>6 DEF ExitsListed
<1>5. QED
  BY <1>1, <1>3, <1>4

-----------------------------------------------------------------------------
(***************************************************************************)
(* How the pool's workers leave, step by step.                             *)
(***************************************************************************)
\* A step of a worker that keeps its own responses keeps those of the others.
LEMMA WorkerKeepsLeaving ==
  ASSUME TypeOK, ReportsOK, Leaving, NEW w \in Workers,
         UNCHANGED <<tableVars, managerVars>>,
         \A v \in Workers : v # w =>
           /\ pc'[v] = pc[v] /\ running'[v] = running[v] /\ active'[v] = active[v]
           /\ finished'[v] = finished[v] /\ response'[v] = response[v]
           /\ requestBus'[v] = requestBus[v],
         \A t \in Tasks : Over(t) /\ Gone(t) => Gone(t)',
         EndsClean(w)', Emptied(w) => Emptied(w)',
         Listens =>
           /\ PartsOK(w)' /\ (IsSilent(w) => IsSilent(w)')
           /\ \/ UNCHANGED responseBus
              \/ \E r \in Responses : /\ responseBus' = Append(responseBus, r)
                                      /\ ~Exits(r) \/ Spent(r) \/ Announces(w, r)
  PROVE  Leaving'
<1>1. UNCHANGED <<phase, currWorkers, nextWorker>> /\ Listens' = Listens
  BY DEF tableVars, managerVars, managerCtl, Listens
<1>2. ASSUME NEW v \in Workers, v # w
      PROVE  EndsClean(v)' /\ (PartsOK(v) => PartsOK(v)')
  <2>1. EndsClean(v)'
    BY <1>1, <1>2 DEF Leaving, EndsClean, Emptied, Free
  <2>2. PartsOK(v) => PartsOK(v)'
    BY <1>2, PartsStay
  <2>3. QED
    BY <2>1, <2>2
<1>3. \A v \in Workers : EndsClean(v)'
  <2>1. ASSUME NEW v \in Workers PROVE EndsClean(v)'
    BY <1>2
  <2>2. QED
    BY <2>1
<1>4. ASSUME Listens
      PROVE  (\A v \in Workers : PartsOK(v)') /\ ExitsListed'
  <2>1. ASSUME NEW v \in Workers PROVE PartsOK(v)'
    BY <1>2, <1>4 DEF Leaving
  <2>2. ExitsListed'
    BY <1>4, WorkerKeepsListed DEF Leaving
  <2>3. QED
    BY <2>1, <2>2
<1>5. QED
  BY <1>1, <1>3, <1>4 DEF Leaving

\* Only a thread that is alive takes steps, and none gives life.
LEMMA LoopAlive ==
  ASSUME TypeOK, NEW w \in Workers, WorkerStep(w) \/ TimeOut(w)
  PROVE  pc[w] \notin {"unborn", "ended", "died"}
  BY DEF WorkerStep, TimeOut, Boot, MarkIdle, HandleRequest, NoRequest, CheckRunning,
         TakeTask, CreateTask, StopTaking, EndTurn, CollectFails, CollectAndContinue,
         CollectAndRestart, CollectDone, CollectAnswer, Collects, Await, AwaitReturns,
         AwaitFails, Awaited, Flush, FlushAnswer, ClearThread

\* A step of a worker adds a response to the bus at most.
LEMMA LoopBus ==
  ASSUME TypeOK, NEW w \in Workers, WorkerStep(w) \/ TimeOut(w)
  PROVE  \/ UNCHANGED responseBus
         \/ \E r \in Responses : responseBus' = Append(responseBus, r)
<1>1. CASE CollectAndContinue(w) \/ CollectAndRestart(w) \/ FlushAnswer(w)
  BY <1>1, AnswerMoves, AnswerType DEF MovesAnswers
<1>2. CASE ~CollectAndContinue(w) /\ ~CollectAndRestart(w) /\ ~FlushAnswer(w)
  BY <1>2 DEF WorkerStep, TimeOut, Boot, MarkIdle, HandleRequest, NoRequest, CheckRunning,
              TakeTask, CreateTask, StopTaking, EndTurn, CollectFails, CollectDone, Await,
              AwaitReturns, AwaitFails, Flush, ClearThread, busVars
<1>3. QED
  BY <1>1, <1>2

LEMMA LoopKeepsLeaving ==
  ASSUME CoreInv, IdleInv, Leaving, NEW w \in Workers, RunWorker(w) \/ WorkerGivesUp(w)
  PROVE  Leaving'
<1> USE DEF CoreInv, HoldInv
<1>1. /\ WorkerStep(w) \/ TimeOut(w)
      /\ UNCHANGED <<tableVars, managerVars, currTasks>> /\ WorkersNumbered
      /\ EndsClean(w) /\ (Listens => PartsOK(w))
      /\ responseBus \in Seq(Responses)
  BY DEF RunWorker, WorkerGivesUp, ManagerOK, Leaving, tableVars, TypeOK, PoolStateTypeOK
<1>2. EndsClean(w)' /\ (Emptied(w) => Emptied(w)')
  BY <1>1, LoopEndsClean
<1>3. \A t \in Tasks : Over(t) /\ Gone(t) => Gone(t)'
  <2>1. \/ UNCHANGED responseBus
        \/ \E r \in Responses : responseBus' = Append(responseBus, r)
    BY <1>1, LoopBus
  <2>2. QED
    BY <1>1, <2>1, AppendEnds DEF Gone
<1>4. ASSUME Listens
      PROVE  /\ PartsOK(w)' /\ (IsSilent(w) => IsSilent(w)')
             /\ \/ UNCHANGED responseBus
                \/ \E r \in Responses : /\ responseBus' = Append(responseBus, r)
                                        /\ ~Exits(r) \/ Spent(r) \/ Announces(w, r)
  BY <1>1, <1>3, <1>4, LoopKeepsParts, LoopStaysSilent, LoopAnnounces
<1>5. QED
  BY <1>1, <1>2, <1>3, <1>4, LoopLeavesOthers, WorkerKeepsLeaving

LEMMA CoroutineKeepsLeaving ==
  ASSUME CoreInv, Leaving, NEW w \in Workers, NEW t \in Tasks, EndCoroutine(w, t)
  PROVE  Leaving'
<1> USE DEF CoreInv, HoldInv
<1>1. /\ RunCoroutine(w, t) \/ ExitCoroutine(w, t)
      /\ UNCHANGED <<tableVars, managerVars, currTasks>>
      /\ EndsClean(w) /\ (Listens => PartsOK(w))
  BY DEF EndCoroutine, Leaving, tableVars
<1>2. /\ UNCHANGED <<responseBus, requestBus, running>>
      /\ \A v \in Workers : v # w =>
           /\ pc'[v] = pc[v] /\ active'[v] = active[v]
           /\ finished'[v] = finished[v] /\ response'[v] = response[v]
  BY <1>1, CoroutineAnswers
<1>3. \A u \in Tasks : Over(u) /\ Gone(u) => Gone(u)'
  BY <1>1, <1>2 DEF Gone
<1>4. /\ EndsClean(w)' /\ ~Emptied(w) /\ (IsSilent(w) => IsSilent(w)')
      /\ Listens => PartsOK(w)'
  BY <1>1, <1>3, CoroutineKeepsParts
<1>5. QED
  BY <1>1, <1>2, <1>3, <1>4, WorkerKeepsLeaving

LEMMA ManagerKeepsLeaving ==
  ASSUME CoreInv, PhaseOK, Leaving, RunManager \/ ManagerGivesUp
  PROVE  Leaving'
<1>1. /\ TypeOK /\ ManagerOK /\ ReportsOK /\ UNCHANGED workerLocals
      /\ ManagerStep \/ ManagerIdleOut \/ ManagerKilled \/ KilledConsuming
      /\ \A w \in Workers : EndsClean(w)
      /\ Listens => (\A w \in Workers : PartsOK(w)) /\ ExitsListed
  BY DEF CoreInv, HoldInv, RunManager, ManagerGivesUp, Leaving
<1>2. Listens' => Listens /\ phase # "halt" /\ mpc' # "killed"
  BY <1>1, HaltStays, KilledStops DEF Listens
<1>3. Listens' => (\A w \in Workers : PartsOK(w)') /\ ExitsListed'
  BY <1>1, <1>2, ManagerKeepsParts, ManagerKeepsListed, KilledStops
<1>4. \A w \in Workers : EndsClean(w)'
  BY <1>1, ManagerKeepsClean
<1>5. QED
  BY <1>3, <1>4 DEF Leaving

\* Nothing happens that the workers, their responses or the entries show.
LEMMA StutterKeepsLeaving ==
  ASSUME ReportsOK, Leaving, \A t \in Tasks : Over(t) => Over(t)',
         UNCHANGED <<responseBus, requestBus, pc, running, active, finished, response,
                     tableVars, managerVars>>
  PROVE  Leaving'
<1>1. /\ UNCHANGED <<currTasks, currWorkers, nextWorker, phase, mpc, handled>>
      /\ Listens' = Listens
  BY DEF tableVars, managerVars, managerCtl, Listens
<1>2. \A w \in Workers : EndsClean(w)'
  BY <1>1 DEF Leaving, EndsClean, Emptied, Free
<1>3. \A t \in Tasks : Over(t) /\ Gone(t) => Gone(t)'
  BY <1>1 DEF Gone
<1>4. ASSUME NEW w \in Workers, PartsOK(w)
      PROVE  PartsOK(w)'
  BY <1>3, <1>4, PartsStay
<1>5. ExitsListed => ExitsListed'
  <2>1. /\ Silent' = Silent /\ Empties' = Empties /\ Restarting' = Restarting
    BY <1>1 DEF Silent, IsSilent, Empties, Emptied, Free, Restarting
  <2>2. QED
    BY <1>1, <2>1 DEF ExitsListed, Listed
<1>6. QED
  BY <1>1, <1>2, <1>4, <1>5 DEF Leaving

\* Behind the manager's loop nobody adds a worker, when only stop() ends it.
LEMMA StepKeepsQuiet ==
  ASSUME CoreInv, LeaveInv, Calm, [Next]_vars
  PROVE  QuietEnd'
<1>1. /\ SharedTypeOK /\ TypeOK /\ HandledOK /\ ThreadsHeld /\ PhaseOK /\ EndsOK /\ QuietEnd
      /\ Clients = {Owner} /\ ~ManagerTimesOut
  BY TypeParts DEF CoreInv, ManagerOK, LeaveInv, Calm
<1>2. CASE CancelTask \/ UNCHANGED vars
  <2>1. UNCHANGED <<mpc, phase, handled, todo, todoSize, currWorkers, pc, cpc, mRunning>>
    BY <1>2 DEF CancelTask, Cancel, vars, poolVars, flagVars, tableVars, managerVars,
                managerCtl, clientVars
  <2>2. QED
    BY <1>1, <2>1, FrameKeepsQuiet, QuietParts DEF ThreadAlive
<1>3. CASE RunManager \/ ManagerGivesUp
  BY <1>1, <1>3, ManagerKeepsQuiet DEF RunManager, ManagerGivesUp
<1>4. ASSUME NEW c \in Clients, RunClient(c) \/ ClientCalls(c)
      PROVE  QuietEnd'
  BY <1>1, <1>4, ClientKeepsQuiet DEF RunClient, ClientCalls
<1>5. ASSUME NEW w \in Workers, UNCHANGED <<tableVars, managerVars, clientVars>>,
             \A v \in Workers : v # w => pc'[v] = pc[v],
             pc[w] \notin {"unborn", "ended", "died"}
      PROVE  QuietEnd'
  <2>1. UNCHANGED <<mpc, phase, handled, todo, todoSize, currWorkers, mRunning, cpc>>
    BY <1>5 DEF tableVars, managerVars, managerCtl, clientVars
  <2>2. \A v \in Workers : pc'[v] \notin {"unborn", "ended", "died"} => ThreadAlive(v)
    BY <1>5 DEF ThreadAlive
  <2>3. QED
    BY <1>1, <2>1, <2>2, FrameKeepsQuiet, QuietParts
<1>6. ASSUME NEW w \in Workers, RunWorker(w) \/ WorkerGivesUp(w)
      PROVE  QuietEnd'
  <2>1. /\ WorkerStep(w) \/ TimeOut(w)
        /\ UNCHANGED <<tableVars, managerVars, clientVars>>
    BY <1>6 DEF RunWorker, WorkerGivesUp
  <2>2. QED
    BY <1>1, <1>5, <2>1, LoopLeavesOthers, LoopAlive
<1>7. ASSUME NEW w \in Workers, NEW t \in Tasks, EndCoroutine(w, t)
      PROVE  QuietEnd'
  <2>1. /\ RunCoroutine(w, t) \/ ExitCoroutine(w, t)
        /\ UNCHANGED <<tableVars, managerVars, clientVars>>
    BY <1>7 DEF EndCoroutine
  <2>2. QED
    BY <1>1, <1>5, <2>1, CoroutineAnswers
<1>8. QED
  BY <1>2, <1>3, <1>4, <1>6, <1>7 DEF Next, Terminated

\* Every step keeps the way in which the workers leave.
LEMMA StepKeepsLeave == CoreInv /\ IdleInv /\ LeaveInv /\ [Next]_vars => LeaveInv'
<1> SUFFICES ASSUME CoreInv, IdleInv, LeaveInv, [Next]_vars
             PROVE  PhaseOK' /\ EndsOK' /\ Leaving'
  <2>1. (Calm => QuietEnd)' <=> (Calm => QuietEnd')
    BY DEF Calm
  <2>2. QED
    BY <2>1, StepKeepsQuiet DEF LeaveInv
<1>1. TypeOK /\ ManagerOK /\ HoldInv /\ ReportsOK /\ PhaseOK /\ EndsOK /\ Leaving
  BY DEF CoreInv, HoldInv, LeaveInv
<1>2. UNCHANGED <<mpc, phase>> => PhaseOK' /\ EndsOK'
  BY <1>1 DEF PhaseOK, EndsOK
<1>3. ASSUME NEW w \in Workers, RunWorker(w) \/ WorkerGivesUp(w)
      PROVE  PhaseOK' /\ EndsOK' /\ Leaving'
  BY <1>1, <1>2, <1>3, LoopKeepsLeaving DEF RunWorker, WorkerGivesUp, managerVars,
                                            managerCtl
<1>4. ASSUME NEW w \in Workers, NEW t \in Tasks, EndCoroutine(w, t)
      PROVE  PhaseOK' /\ EndsOK' /\ Leaving'
  BY <1>1, <1>2, <1>4, CoroutineKeepsLeaving DEF EndCoroutine, managerVars, managerCtl
<1>5. CASE RunManager \/ ManagerGivesUp
  <2>1. ManagerStep \/ ManagerIdleOut \/ ManagerKilled \/ KilledConsuming
    BY <1>5 DEF RunManager, ManagerGivesUp
  <2>2. QED
    BY <1>1, <1>5, <2>1, ManagerKeepsPhase, ManagerKeepsEnds, ManagerKeepsLeaving
<1>6. ASSUME NEW c \in Clients, RunClient(c) \/ ClientCalls(c)
      PROVE  PhaseOK' /\ EndsOK' /\ Leaving'
  <2>1. (ClientStep(c) \/ ClientCall(c)) /\ UNCHANGED workerLocals
    BY <1>6 DEF RunClient, ClientCalls
  <2>2. UNCHANGED phase /\ (UNCHANGED mpc \/ (mpc = "unborn" /\ mpc' = "boot"))
    BY <2>1, ClientChanges
  <2>3. PhaseOK' /\ EndsOK'
    BY <1>1, <2>2 DEF PhaseOK, EndsOK
  <2>4. Leaving'
    BY <1>1, <2>1, <2>2, ClientKeepsLeave DEF Leaving, Listens
  <2>5. QED
    BY <2>3, <2>4
<1>7. CASE CancelTask \/ UNCHANGED vars
  <2>1. UNCHANGED <<responseBus, requestBus, pc, running, active, finished, response,
                    tableVars, managerVars, taskBus, abandoned, mpc, phase>>
    BY <1>7 DEF CancelTask, Cancel, vars, poolVars, busVars, flagVars, workerLocals,
                managerVars, managerCtl
  <2>2. \A t \in Tasks : future'[t] = future[t] \/ future'[t] = "cancelled"
    BY <1>1, <1>7 DEF CancelTask, Cancel, CancelFuture, vars, poolVars, TypeOK,
                      PoolStateTypeOK
  <2>3. \A t \in Tasks : Over(t) => Over(t)'
    BY <2>1, <2>2, HeldStay DEF Over, Resolved
  <2>4. QED
    BY <1>1, <1>2, <2>1, <2>3, StutterKeepsLeaving
<1>8. QED
  BY <1>3, <1>4, <1>5, <1>6, <1>7 DEF Next, Terminated

\* A pool that nobody has started satisfies it.
LEMMA InitLeave == Init => IdleInv /\ LeaveInv
<1> SUFFICES ASSUME Init PROVE IdleInv /\ LeaveInv
  OBVIOUS
<1>1. /\ \A w \in Workers : /\ pc[w] = "unborn" /\ ~running[w] /\ requestBus[w] = <<>>
                            /\ finished[w] = <<>> /\ response[w] = None
      /\ responseBus = <<>> /\ mpc = "unborn" /\ phase = "loop" /\ nextWorker = 0
      /\ cpc = [c \in Clients |-> "idle"] /\ mRunning = FALSE
  BY DEF Init, PoolStateInit, AsyncWorkerInit, ThreadManagerInit
<1>2. IdleInv
  BY <1>1 DEF IdleInv, IdleIsFree, IsIdle
<1>3. PhaseOK /\ EndsOK
  BY <1>1 DEF PhaseOK, EndsOK
<1>4. QuietEnd
  BY <1>1, ThreadManagerAssumption DEF QuietEnd, Submitting
<1>5. \A w \in Workers : EndsClean(w) /\ PartsOK(w)
  <2>1. TAKE w \in Workers
  <2>2. ~(w < nextWorker)
    BY <1>1, PoolStateAssumption DEF Workers
  <2>3. EndsClean(w)
    BY <1>1, <2>2 DEF EndsClean
  <2>4. PartsOK(w)
    BY <1>1 DEF PartsOK
  <2>5. QED
    BY <2>3, <2>4
<1>6. ExitsListed
  <2>1. ~Restarting /\ \A i \in DOMAIN responseBus : FALSE
    BY <1>1 DEF Restarting
  <2>2. EndsListed(responseBus, currTasks, Listed, Empties)
    BY <2>1 DEF EndsListed
  <2>3. QED
    BY <2>1, <2>2 DEF ExitsListed
<1>7. QED
  BY <1>2, <1>3, <1>4, <1>5, <1>6 DEF LeaveInv, Leaving

(***************************************************************************)
(* stop() does what its caller relies on, for every number of workers and  *)
(* tasks and whatever the coroutines do: with one client and no            *)
(* idle_timeout of the manager, a manager that ended by itself has left no *)
(* event loop, but for one whose CLOSE it has taken and that has nothing   *)
(* to do any more.                                                         *)
(***************************************************************************)
THEOREM StopsEndWorkers ==
  Clients = {Owner} /\ ~ManagerTimesOut => (Spec => []StopEndsWorkers)
<1> SUFFICES ASSUME Calm PROVE Spec => []StopEndsWorkers
  BY DEF Calm
<1>1. CoreInv /\ LeaveInv => StopEndsWorkers
  <2> SUFFICES ASSUME CoreInv, LeaveInv, mpc = "ended", NEW w \in Workers, ThreadAlive(w)
               PROVE  pc[w] = "flush" /\ CurrCoroutines(w) = 0
    BY DEF StopEndsWorkers
  <2>1. todo = {} /\ \A v \in currWorkers : ~ThreadAlive(v)
    BY DEF LeaveInv, EndsOK, QuietEnd, Halting, Halted
  <2>2. w \notin currWorkers
    BY <2>1
  <2>3. w < nextWorker
    <3>1. w \in Int /\ nextWorker \in Int
      BY PoolStateAssumption DEF CoreInv, TypeOK, TableTypeOK, Workers
    <3>2. w >= nextWorker => pc[w] = "unborn"
      BY DEF CoreInv, ManagerOK, WorkersNumbered
    <3>3. QED
      BY <3>1, <3>2 DEF ThreadAlive
  <2>4. Emptied(w)
    BY <2>2, <2>3 DEF LeaveInv, Leaving, EndsClean
  <2>5. QED
    BY <2>4, FreeCount DEF Emptied, ThreadAlive, CoreInv
<1>2. Spec => [](CoreInv /\ IdleInv /\ LeaveInv)
  BY InitCore, InitLeave, StepKeepsCore, StepKeepsIdle, StepKeepsLeave, PTL DEF Spec
<1>3. QED
  BY <1>1, <1>2, PTL

=============================================================================

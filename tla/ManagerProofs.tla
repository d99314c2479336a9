---------------------------- MODULE ManagerProofs ----------------------------
(***************************************************************************)
(* What ThreadManager does to the state it shares with clients and workers *)
(* of any kind: lemmas for the pools that are composed with it.            *)
(***************************************************************************)
EXTENDS ManagerInv, TLAPS, FiniteSetTheorems, WellFoundedInduction

(***************************************************************************)
(* A non-empty set of worker numbers has a least element: Min picks it.    *)
(***************************************************************************)
LEMMA MinInSet ==
  ASSUME NEW S \in SUBSET Nat, S # {}
  PROVE  Min(S) \in S
<1> DEFINE R == OpToRel(<, Nat)
<1>1. PICK x \in S : \A y \in S : ~ (<<y, x>> \in R)
  <2>1. IsWellFoundedOn(R, Nat)
    BY NatLessThanWellFounded
  <2> HIDE DEF R
  <2>2. QED
    BY <2>1, WFMin
<1>2. \A y \in S : x =< y
  <2>1. TAKE y \in S
  <2>2. <<y, x>> \in R <=> y < x
    BY DEF OpToRel
  <2>3. x \in Nat /\ y \in Nat
    OBVIOUS
  <2>4. <<y, x>> \notin R
    BY <1>1
  <2> HIDE DEF R
  <2> QED
    BY <2>2, <2>3, <2>4
<1>3. QED
  BY <1>2 DEF Min

\* Workers are named by numbers.
LEMMA WorkersNat == Workers \in SUBSET Nat
  BY PoolStateAssumption DEF Workers

\* Sets of workers are finite.
LEMMA WorkersCount ==
  ASSUME NEW S \in SUBSET Workers
  PROVE  Cardinality(S) \in Nat
<1>1. IsFiniteSet(Workers)
  BY PoolStateAssumption, FS_Interval DEF Workers
<1>2. QED
  BY <1>1, FS_Subset, FS_CardinalityType

-----------------------------------------------------------------------------
\* A queue keeps the type of its entries when one is put on it.
LEMMA AppendType ==
  ASSUME NEW S, NEW s \in Seq(S), NEW x \in S
  PROVE  Append(s, x) \in Seq(S)
  OBVIOUS

\* The manager and the workers put responses of the right type on a bus.
LEMMA ActionType ==
  ASSUME NEW flag \in SUBSET Flags, NEW t \in Tasks \cup {NoTask},
         NEW w \in Workers \cup {NoWorker}
  PROVE  Action(flag, t, w) \in Responses
  BY DEF Action, Responses

\* None is one of the values a response may have.
LEMMA NoneType == None \in Responses
  BY ActionType DEF None

\* add_flag keeps the type of an action.
LEMMA AddFlagType ==
  ASSUME NEW r \in Responses, NEW flag \in Flags
  PROVE  AddFlag(r, flag) \in Responses
  BY DEF AddFlag, Responses

\* What Append and Tail do, index by index.
LEMMA AppendFacts ==
  ASSUME NEW S, NEW s \in Seq(S), NEW x \in S
  PROVE  /\ Append(s, x) \in Seq(S)
         /\ Len(s) + 1 \in DOMAIN Append(s, x)
         /\ Append(s, x)[Len(s) + 1] = x
         /\ \A i \in DOMAIN Append(s, x) :
              \/ i \in DOMAIN s /\ Append(s, x)[i] = s[i]
              \/ i = Len(s) + 1
  OBVIOUS

\* What is left on a queue when its first entry is taken.
LEMMA TailFacts ==
  ASSUME NEW S, NEW s \in Seq(S), s # <<>>
  PROVE  /\ Tail(s) \in Seq(S)
         /\ Head(s) \in S
         /\ 1 \in DOMAIN s /\ Head(s) = s[1]
         /\ \A i \in DOMAIN Tail(s) :
              /\ i \in Nat /\ i + 1 \in DOMAIN s /\ i + 1 # 1
              /\ Tail(s)[i] = s[i + 1]
  OBVIOUS

-----------------------------------------------------------------------------
\* The types of all variables but those of the workers' locals.
SharedTypeOK ==
  PoolStateTypeOK /\ TableTypeOK /\ ManagerTypeOK /\ ClientTypeOK

\* A pool that nobody has started has the right types.
LEMMA InitSharedType == PoolStateInit /\ ThreadManagerInit => SharedTypeOK
<1> SUFFICES ASSUME PoolStateInit, ThreadManagerInit PROVE SharedTypeOK
  OBVIOUS
<1>1. PoolStateTypeOK
  <2>1. <<>> \in Seq(Tasks) /\ <<>> \in Seq(Responses)
    OBVIOUS
  <2>2. [w \in Workers |-> <<>>] \in [Workers -> Seq(Responses)]
    BY <2>1
  <2>3. QED
    BY <2>1, <2>2 DEF PoolStateInit, PoolStateTypeOK, FutureStates, Workers
<1>2. TableTypeOK
  BY PoolStateAssumption DEF ThreadManagerInit, TableTypeOK
<1>3. ManagerTypeOK
  BY DEF ThreadManagerInit, ManagerTypeOK
<1>4. ClientTypeOK
  BY DEF ThreadManagerInit, ClientTypeOK
<1>5. QED
  BY <1>1, <1>2, <1>3, <1>4 DEF SharedTypeOK

\* A step of the manager's thread keeps the types of what it can change.
LEMMA ManagerKeepsType ==
  ASSUME SharedTypeOK, ManagerStep \/ ManagerIdleOut \/ ManagerKilled \/ KilledConsuming
  PROVE  SharedTypeOK'
<1> USE DEF SharedTypeOK, PoolStateTypeOK, TableTypeOK, ManagerTypeOK, ClientTypeOK,
            poolVars, busVars, flagVars, tableVars, clientVars
<1>1. CASE ManagerBoot
  <2>1. ManagerTypeOK'
    BY <1>1 DEF ManagerBoot
  <2>2. UNCHANGED <<poolVars, tableVars, clientVars>>
    BY <1>1 DEF ManagerBoot
  <2>3. QED
    BY <2>1, <2>2
<1>2. CASE ManagerIdleOut
  <2>1. ManagerTypeOK'
    BY <1>2 DEF ManagerIdleOut
  <2>2. UNCHANGED <<poolVars, tableVars, clientVars>>
    BY <1>2 DEF ManagerIdleOut
  <2>3. QED
    BY <2>1, <2>2
<1>3. CASE ManagerCheck
  <2>1. ManagerTypeOK'
    BY <1>3 DEF ManagerCheck
  <2>2. UNCHANGED <<poolVars, tableVars, clientVars>>
    BY <1>3 DEF ManagerCheck
  <2>3. QED
    BY <2>1, <2>2
<1>4. CASE BusDrained
  BY <1>4, WorkersCount DEF BusDrained
<1>5. CASE ConsumeFails
  BY <1>5 DEF ConsumeFails, TakeResponse, Die, TasksAfter, ConsumeError
<1>6. CASE ConsumeResponse
  <2> DEFINE r == Head(responseBus)
  <2>1. r \in Responses /\ Tail(responseBus) \in Seq(Responses)
    BY <1>6 DEF ConsumeResponse, TakeResponse
  <2>2. PoolStateTypeOK'
    BY <1>6, <2>1 DEF ConsumeResponse, TakeResponse
  <2>3. TableTypeOK'
    BY <1>6, <2>1 DEF ConsumeResponse, TakeResponse, TasksAfter
  <2>4. r.worker \in Workers \cup {NoWorker}
    BY <2>1 DEF Responses
  <2>5. /\ mpc' \in {"stop1", "top", "receive"} /\ processed' \in Nat
        /\ handled' \in Workers \cup {NoWorker}
    <3>1. CASE Restarts(r)
      BY <1>6, <2>4, <3>1 DEF ConsumeResponse
    <3>2. CASE ~Restarts(r)
      BY <1>6, <3>2 DEF ConsumeResponse, AfterConsume, CountResponse
    <3>3. QED
      BY <3>1, <3>2
  <2>6. ManagerTypeOK' /\ ClientTypeOK'
    BY <1>6, <2>5 DEF ConsumeResponse, TakeResponse
  <2>7. QED
    BY <2>2, <2>3, <2>6
<1>7. CASE ManagerDown
  <2>1. ManagerTypeOK'
    BY <1>7 DEF ManagerDown
  <2>2. UNCHANGED <<poolVars, tableVars, clientVars>>
    BY <1>7 DEF ManagerDown
  <2>3. QED
    BY <2>1, <2>2
<1>8. CASE StopFlag
  <2>1. running' \in [Workers -> BOOLEAN]
    BY <1>8 DEF StopFlag
  <2>2. PoolStateTypeOK'
    BY <1>8, <2>1 DEF StopFlag, StopUnchanged
  <2>3. mpc' \in {"halt", "start", "stop2", "stopped"}
    BY <1>8 DEF StopFlag
  <2>4. QED
    BY <1>8, <2>2, <2>3 DEF StopFlag, StopUnchanged
<1>9. CASE StopAlive
  <2>1. ManagerTypeOK'
    BY <1>9 DEF StopAlive, StopUnchanged, Die
  <2>2. UNCHANGED <<poolVars, tableVars, clientVars>>
    BY <1>9 DEF StopAlive, StopUnchanged, Die
  <2>3. QED
    BY <2>1, <2>2
<1>10. CASE StopJoin
  <2>1. ManagerTypeOK'
    BY <1>10 DEF StopJoin, StopUnchanged, Die
  <2>2. UNCHANGED <<poolVars, tableVars, clientVars>>
    BY <1>10 DEF StopJoin, StopUnchanged, Die
  <2>3. QED
    BY <2>1, <2>2
<1>11. CASE StopJoined
  <2>1. ManagerTypeOK'
    BY <1>11 DEF StopJoined, StopUnchanged
  <2>2. UNCHANGED <<poolVars, tableVars, clientVars>>
    BY <1>11 DEF StopJoined, StopUnchanged
  <2>3. QED
    BY <2>1, <2>2
<1>12. CASE StopDone
  <2>1. thread' \in [Workers -> BOOLEAN]
    BY <1>12 DEF StopDone
  <2>2. PoolStateTypeOK'
    BY <1>12, <2>1 DEF StopDone, StopUnchanged
  <2>3. mpc' \in {"halt", "start", "stop2", "stopped"}
    BY <1>12 DEF StopDone
  <2>4. QED
    BY <1>12, <2>2, <2>3 DEF StopDone, StopUnchanged
<1>13. CASE RestartWorker
  <2>1. PoolStateTypeOK'
    BY <1>13 DEF RestartWorker, StartThread
  <2>2. QED
    BY <1>13, <2>1 DEF RestartWorker, Die
<1>14. CASE RestartReturns
  BY <1>14 DEF RestartReturns, AfterConsume, CountResponse
<1>15. CASE IterationFails
  <2>1. ManagerTypeOK'
    BY <1>15 DEF IterationFails, Die
  <2>2. UNCHANGED <<poolVars, tableVars, clientVars>>
    BY <1>15 DEF IterationFails, Die
  <2>3. QED
    BY <2>1, <2>2
<1>16. CASE CloseWorker
  <2>1. Min(todo) \in todo
    BY <1>16, MinInSet, WorkersNat DEF CloseWorker
  <2>2. Action({"CLOSE"}, NoTask, NoWorker) \in Responses
    BY ActionType DEF Flags
  <2>3. Append(requestBus[Min(todo)], Action({"CLOSE"}, NoTask, NoWorker))
          \in Seq(Responses)
    BY <2>1, <2>2, AppendType
  <2>4. PoolStateTypeOK'
    BY <1>16, <2>1, <2>3 DEF CloseWorker
  <2>5. QED
    BY <1>16, <2>1, <2>4 DEF CloseWorker
<1>17. CASE CloseDone
  BY <1>17, WorkersCount DEF CloseDone
<1>18. CASE HaltWorker
  <2>1. Min(todo) \in Workers
    BY <1>18, MinInSet, WorkersNat DEF HaltWorker
  <2>2. ManagerTypeOK'
    BY <1>18, <2>1 DEF HaltWorker
  <2>3. UNCHANGED <<poolVars, tableVars, clientVars>>
    BY <1>18 DEF HaltWorker
  <2>4. QED
    BY <2>2, <2>3
<1>19. CASE ManagerEnd
  <2>1. ManagerTypeOK'
    BY <1>19 DEF ManagerEnd
  <2>2. UNCHANGED <<poolVars, tableVars, clientVars>>
    BY <1>19 DEF ManagerEnd
  <2>3. QED
    BY <2>1, <2>2
<1>20. CASE ManagerKilled
  <2>1. mpc' = "killed" /\ UNCHANGED <<mRunning, mInited, mThread, mKill, phase,
                                     processed, handled, todo, todoSize, death>>
    BY <1>20 DEF ManagerKilled
  <2>2. ManagerTypeOK'
    BY <2>1
  <2>3. UNCHANGED <<poolVars, tableVars, clientVars>>
    BY <1>20 DEF ManagerKilled
  <2>4. QED
    BY <2>2, <2>3
<1>21. CASE KilledConsuming
  <2>1. /\ responseBus' = Tail(responseBus) /\ responseBus # <<>>
        /\ currTasks' \in {currTasks, TasksAfter(Head(responseBus))}
        /\ UNCHANGED <<taskBus, requestBus, future, flagVars, currWorkers, nextWorker,
                       clientVars>>
    BY <1>21 DEF KilledConsuming
  <2>2. mpc' = "killed" /\ UNCHANGED <<mRunning, mInited, mThread, mKill, phase,
                                     processed, handled, todo, todoSize, death>>
    BY <1>21 DEF KilledConsuming
  <2>3. ManagerTypeOK'
    BY <2>2
  <2>4. TableTypeOK'
    BY <2>1 DEF TasksAfter
  <2>5. PoolStateTypeOK'
    BY <2>1, TailFacts DEF flagVars
  <2>6. ClientTypeOK'
    BY <2>1 DEF ClientTypeOK
  <2>7. QED
    BY <2>3, <2>4, <2>5, <2>6
<1>22. QED
  BY <1>1, <1>2, <1>3, <1>4, <1>5, <1>6, <1>7, <1>8, <1>9, <1>10, <1>11, <1>12, <1>13, <1>14,
     <1>15, <1>16, <1>17, <1>18, <1>19, <1>20, <1>21 DEF ManagerStep

\* range() is never negative.
LEMMA WorkersToAddType ==
  ASSUME NEW n \in Int, NEW incremental \in BOOLEAN, NEW curr \in Nat,
         NEW idl \in Nat, NEW tasks \in Nat
  PROVE  WorkersToAdd(n, incremental, curr, idl, tasks) \in Nat
  BY DEF WorkersToAdd, RangeLength

\* A call of submit() keeps the types of what it can change.
LEMMA SubmitKeepsType ==
  ASSUME SharedTypeOK, NEW c \in Clients, NEW t \in Tasks, Submit(c, t)
  PROVE  SharedTypeOK'
<1> USE DEF SharedTypeOK, Submit, busVars, flagVars, tableVars, managerVars,
            managerCtl
<1>1. PoolStateTypeOK'
  BY DEF PoolStateTypeOK, FutureStates
<1>2. TableTypeOK' /\ ManagerTypeOK'
  BY DEF TableTypeOK, ManagerTypeOK
<1>3. ClientTypeOK'
  <2>1. CASE mRunning
    BY <2>1 DEF ClientTypeOK, CGoto
  <2>2. CASE ~mRunning
    BY <2>2 DEF ClientTypeOK
  <2>3. QED
    BY <2>1, <2>2
<1>4. QED
  BY <1>1, <1>2, <1>3

\* The cancellation of a future keeps the types.
LEMMA CancelKeepsType ==
  ASSUME SharedTypeOK, NEW t \in Tasks, Cancel(t)
  PROVE  SharedTypeOK'
  BY DEF SharedTypeOK, PoolStateTypeOK, TableTypeOK, ManagerTypeOK, ClientTypeOK,
         busVars, flagVars, tableVars, managerVars, managerCtl, clientVars,
         Cancel, CancelFuture, FutureStates

\* What all steps of stop() and terminate() leave alone is of its type.
LEMMA StopCallKeepsType ==
  ASSUME SharedTypeOK, NEW c \in Clients, StopCallUnchanged,
         NEW label \in {"idle", "stop2", "stop3", "join", "expired", "expired2",
                        "kill2", "kill3"},
         CGoto(c, label),
         mRunning' \in BOOLEAN, mThread' \in BOOLEAN, mKill' \in BOOLEAN,
         stopResult' \in {"none", "stopped", "terminated", "AttributeError",
                          "RuntimeError", "ValueError"}
  PROVE  SharedTypeOK'
<1> USE DEF SharedTypeOK, StopCallUnchanged
<1>1. PoolStateTypeOK'
  BY DEF PoolStateTypeOK, poolVars, busVars, flagVars
<1>2. TableTypeOK'
  BY DEF TableTypeOK, tableVars
<1>3. ManagerTypeOK'
  BY DEF ManagerTypeOK, managerCtl
<1>4. ClientTypeOK'
  BY DEF ClientTypeOK, CGoto
<1>5. QED
  BY <1>1, <1>2, <1>3, <1>4

\* A step of a client keeps the types of what it can change.
LEMMA ClientKeepsType ==
  ASSUME SharedTypeOK, NEW c \in Clients, ClientStep(c) \/ ClientCall(c)
  PROVE  SharedTypeOK'
<1> USE DEF SharedTypeOK, PoolStateTypeOK, TableTypeOK, ManagerTypeOK, ClientTypeOK,
            poolVars, busVars, flagVars, tableVars, managerVars, managerCtl,
            CGoto
<1>1. CASE Start(c)
  BY <1>1 DEF Start
<1>2. CASE StartReturns(c)
  BY <1>2 DEF StartReturns
<1>3. CASE Stop(c)
  <2>1. PICK label \in {"idle", "stop2"} : CGoto(c, label)
    BY <1>3 DEF Stop, CallStop, EndStop
  <2>2. /\ mRunning' \in BOOLEAN /\ mThread' \in BOOLEAN /\ mKill' \in BOOLEAN
        /\ stopResult' \in {"none", "stopped", "terminated", "AttributeError",
                             "RuntimeError", "ValueError"}
    BY <1>3 DEF Stop, CallStop, EndStop
  <2>3. StopCallUnchanged
    BY <1>3 DEF Stop, CallStop
  <2>4. QED
    BY <2>1, <2>2, <2>3, StopCallKeepsType
<1>4. CASE Terminate(c)
  <2>1. PICK label \in {"idle", "kill2"} : CGoto(c, label)
    BY <1>4 DEF Terminate, CallStop, EndStop
  <2>2. /\ mRunning' \in BOOLEAN /\ mThread' \in BOOLEAN /\ mKill' \in BOOLEAN
        /\ stopResult' \in {"none", "stopped", "terminated", "AttributeError",
                             "RuntimeError", "ValueError"}
    BY <1>4 DEF Terminate, CallStop, EndStop
  <2>3. StopCallUnchanged
    BY <1>4 DEF Terminate, CallStop
  <2>4. QED
    BY <2>1, <2>2, <2>3, StopCallKeepsType
<1>5. CASE StopGivesUp(c)
  <2>1. PICK label \in {"expired"} : CGoto(c, label)
    BY <1>5 DEF StopGivesUp, EndStop
  <2>2. /\ mRunning' \in BOOLEAN /\ mThread' \in BOOLEAN /\ mKill' \in BOOLEAN
        /\ stopResult' \in {"none", "stopped", "terminated", "AttributeError",
                             "RuntimeError", "ValueError"}
    BY <1>5 DEF StopGivesUp, EndStop
  <2>3. StopCallUnchanged
    BY <1>5 DEF StopGivesUp
  <2>4. QED
    BY <2>1, <2>2, <2>3, StopCallKeepsType
<1>6. CASE Queue(c)
  BY <1>6, AppendType DEF Queue, FutureStates
<1>7. CASE AdjustWorkers(c)
  <2>1. CASE EnoughWorkers
    <3>1. EndSubmit(c) /\ UNCHANGED <<poolVars, tableVars, managerVars,
                                      submitError, stopResult>>
      BY <1>7, <2>1 DEF AdjustWorkers
    <3>2. ClientTypeOK'
      BY <3>1 DEF EndSubmit
    <3>3. QED
      BY <3>1, <3>2, SMTT(30)
  <2>2. CASE ~EnoughWorkers
    <3>1. /\ cpc[c] = "adjust" /\ CGoto(c, "count")
          /\ UNCHANGED <<cTask, cTasks, cTodo, cSize, cIdle, cWorker, poolVars,
                         tableVars, managerVars, submitError, stopResult>>
      BY <1>7, <2>2 DEF AdjustWorkers
    <3>2. ClientTypeOK'
      BY <3>1
    <3>3. QED
      BY <3>1, <3>2
  <2>3. QED
    BY <2>1, <2>2
<1>8. CASE CountTasks(c)
  BY <1>8, WorkersCount DEF CountTasks
<1>9. CASE ScanFails(c)
  BY <1>9 DEF ScanFails, EndSubmit
<1>10. CASE ScanWorker(c)
  BY <1>10 DEF ScanWorker
<1>11. CASE ScanDone(c)
  <2>1. WorkersToAdd(NumWorkers, Incremental, Cardinality(currWorkers),
                     cIdle[c], cTasks[c]) \in Nat
    BY WorkersCount, WorkersToAddType, ThreadManagerAssumption
  <2>2. QED
    BY <1>11, <2>1 DEF ScanDone
<1>12. CASE SpawnWorker(c)
  <2>1. nextWorker \in Workers /\ nextWorker + 1 \in 0 .. MaxWorkers
    BY <1>12, PoolStateAssumption DEF SpawnWorker, Workers
  <2>2. PoolStateTypeOK'
    <3>1. /\ thread' = [thread EXCEPT ![nextWorker] = TRUE]
          /\ pc' = [pc EXCEPT ![nextWorker] = "boot"]
          /\ UNCHANGED <<busVars, future, running, idle, inited>>
      BY <1>12 DEF SpawnWorker, StartThread
    <3>2. QED
      BY <2>1, <3>1
  <2>3. TableTypeOK' /\ ManagerTypeOK'
    BY <1>12, <2>1 DEF SpawnWorker
  <2>4. ClientTypeOK'
    <3>1. /\ cpc' = [cpc EXCEPT ![c] = "spin"]
          /\ cTasks' = [cTasks EXCEPT ![c] = @ - 1] /\ cTasks[c] > 0
          /\ cWorker' = [cWorker EXCEPT ![c] = nextWorker]
          /\ UNCHANGED <<cTask, cTodo, cSize, cIdle, submitError, stopResult>>
      BY <1>12 DEF SpawnWorker, CGoto
    <3>2. cTasks' \in [Clients -> Nat]
      BY <3>1
    <3>3. QED
      BY <2>1, <3>1, <3>2
  <2>5. QED
    BY <2>2, <2>3, <2>4
<1>13. CASE SpawnReturns(c)
  BY <1>13 DEF SpawnReturns
<1>14. CASE SubmitReturns(c)
  BY <1>14 DEF SubmitReturns, EndSubmit
<1>15. CASE StopTestsAlive(c)
  <2>1. PICK label \in {"idle", "stop3"} : CGoto(c, label)
    BY <1>15 DEF StopTestsAlive, TestsAlive, EndStop
  <2>2. /\ mRunning' \in BOOLEAN /\ mThread' \in BOOLEAN /\ mKill' \in BOOLEAN
        /\ stopResult' \in {"none", "stopped", "terminated", "AttributeError",
                             "RuntimeError", "ValueError"}
    BY <1>15 DEF StopTestsAlive, TestsAlive, EndStop
  <2>3. StopCallUnchanged
    BY <1>15 DEF StopTestsAlive, TestsAlive
  <2>4. QED
    BY <2>1, <2>2, <2>3, StopCallKeepsType
<1>16. CASE StopCallsJoin(c)
  <2>1. PICK label \in {"idle", "join"} : CGoto(c, label)
    BY <1>16 DEF StopCallsJoin, EndStop
  <2>2. /\ mRunning' \in BOOLEAN /\ mThread' \in BOOLEAN /\ mKill' \in BOOLEAN
        /\ stopResult' \in {"none", "stopped", "terminated", "AttributeError",
                             "RuntimeError", "ValueError"}
    BY <1>16 DEF StopCallsJoin, EndStop
  <2>3. StopCallUnchanged
    BY <1>16 DEF StopCallsJoin
  <2>4. QED
    BY <2>1, <2>2, <2>3, StopCallKeepsType
<1>17. CASE StopReturns(c)
  <2>1. PICK label \in {"idle"} : CGoto(c, label)
    BY <1>17 DEF StopReturns, EndStop
  <2>2. /\ mRunning' \in BOOLEAN /\ mThread' \in BOOLEAN /\ mKill' \in BOOLEAN
        /\ stopResult' \in {"none", "stopped", "terminated", "AttributeError",
                             "RuntimeError", "ValueError"}
    BY <1>17 DEF StopReturns, EndStop
  <2>3. StopCallUnchanged
    BY <1>17 DEF StopReturns
  <2>4. QED
    BY <2>1, <2>2, <2>3, StopCallKeepsType
<1>18. CASE StopExpired(c)
  <2>1. PICK label \in {"idle", "expired2"} : CGoto(c, label)
    BY <1>18 DEF StopExpired, EndStop
  <2>2. /\ mRunning' \in BOOLEAN /\ mThread' \in BOOLEAN /\ mKill' \in BOOLEAN
        /\ stopResult' \in {"none", "stopped", "terminated", "AttributeError",
                             "RuntimeError", "ValueError"}
    BY <1>18 DEF StopExpired, EndStop
  <2>3. StopCallUnchanged
    BY <1>18 DEF StopExpired
  <2>4. QED
    BY <2>1, <2>2, <2>3, StopCallKeepsType
<1>19. CASE StopRaises(c)
  <2>1. PICK label \in {"idle"} : CGoto(c, label)
    BY <1>19 DEF StopRaises, ManagerAlive, EndStop
  <2>2. /\ mRunning' \in BOOLEAN /\ mThread' \in BOOLEAN /\ mKill' \in BOOLEAN
        /\ stopResult' \in {"none", "stopped", "terminated", "AttributeError",
                             "RuntimeError", "ValueError"}
    BY <1>19 DEF StopRaises, ManagerAlive, EndStop
  <2>3. StopCallUnchanged
    BY <1>19 DEF StopRaises, ManagerAlive
  <2>4. QED
    BY <2>1, <2>2, <2>3, StopCallKeepsType
<1>20. CASE TerminateTestsAlive(c)
  <2>1. PICK label \in {"idle", "kill3"} : CGoto(c, label)
    BY <1>20 DEF TerminateTestsAlive, TestsAlive, EndStop
  <2>2. /\ mRunning' \in BOOLEAN /\ mThread' \in BOOLEAN /\ mKill' \in BOOLEAN
        /\ stopResult' \in {"none", "stopped", "terminated", "AttributeError",
                             "RuntimeError", "ValueError"}
    BY <1>20 DEF TerminateTestsAlive, TestsAlive, EndStop
  <2>3. StopCallUnchanged
    BY <1>20 DEF TerminateTestsAlive, TestsAlive
  <2>4. QED
    BY <2>1, <2>2, <2>3, StopCallKeepsType
<1>21. CASE TerminateKills(c)
  <2>1. PICK label \in {"idle"} : CGoto(c, label)
    BY <1>21 DEF TerminateKills, ManagerAlive, EndStop
  <2>2. /\ mRunning' \in BOOLEAN /\ mThread' \in BOOLEAN /\ mKill' \in BOOLEAN
        /\ stopResult' \in {"none", "stopped", "terminated", "AttributeError",
                             "RuntimeError", "ValueError"}
    BY <1>21 DEF TerminateKills, ManagerAlive, EndStop
  <2>3. StopCallUnchanged
    BY <1>21 DEF TerminateKills, ManagerAlive
  <2>4. QED
    BY <2>1, <2>2, <2>3, StopCallKeepsType
<1>22. QED
  BY <1>1, <1>2, <1>3, <1>4, <1>5, <1>6, <1>7, <1>8, <1>9, <1>10, <1>11, <1>12, <1>13, <1>14, <1>15, <1>16, <1>17, <1>18, <1>19, <1>20, <1>21, SubmitKeepsType DEF ClientStep, ClientCall

-----------------------------------------------------------------------------
\* What the steps of the manager's thread can change besides its own state.
LEMMA ManagerChanges ==
  ASSUME ManagerStep \/ ManagerIdleOut \/ ManagerKilled \/ KilledConsuming
  PROVE  /\ UNCHANGED <<taskBus, future, idle, inited, nextWorker, clientVars>>
         /\ UNCHANGED <<responseBus, currTasks>> \/ TakeResponse \/ KilledConsuming
         /\ UNCHANGED requestBus \/ CloseWorker
         /\ UNCHANGED running \/ StopFlag
         /\ UNCHANGED pc \/ (RestartWorker /\ StartThread(handled))
<1>1. CASE ConsumeFails \/ ConsumeResponse \/ KilledConsuming
  BY <1>1 DEF ConsumeFails, ConsumeResponse, TakeResponse, KilledConsuming, flagVars
<1>2. CASE StopFlag \/ StopAlive \/ StopJoin \/ StopJoined \/ StopDone
  BY <1>2 DEF StopFlag, StopAlive, StopJoin, StopJoined, StopDone,
              StopUnchanged, busVars, tableVars
<1>3. CASE CloseWorker \/ RestartWorker
  BY <1>3 DEF CloseWorker, RestartWorker, busVars, flagVars, tableVars
<1>4. CASE ~ (\/ ConsumeFails \/ ConsumeResponse \/ KilledConsuming
              \/ StopFlag \/ StopAlive \/ StopJoin \/ StopJoined \/ StopDone
              \/ CloseWorker \/ RestartWorker)
  BY <1>4 DEF ManagerStep, ManagerIdleOut, ManagerKilled, ManagerBoot,
              ManagerCheck, BusDrained, ManagerDown, RestartReturns,
              IterationFails, CloseDone, HaltWorker, ManagerEnd, poolVars,
              busVars, flagVars, tableVars
<1>5. QED
  BY <1>1, <1>2, <1>3, <1>4

\* What the steps of a client can change besides its own state.
LEMMA ClientChanges ==
  ASSUME NEW c \in Clients, ClientStep(c) \/ ClientCall(c)
  PROVE  /\ UNCHANGED <<responseBus, requestBus, running, idle, inited, phase,
                        processed, handled, todo, todoSize, death>>
         /\ \/ UNCHANGED <<taskBus, currTasks, future>>
            \/ Queue(c)
            \/ \E t \in Tasks : Submit(c, t)
         /\ UNCHANGED <<pc, thread, currWorkers, nextWorker>> \/ SpawnWorker(c)
         /\ UNCHANGED mpc \/ (mpc = "unborn" /\ mpc' = "boot")
<1> USE DEF poolVars, busVars, flagVars, tableVars, managerVars, managerCtl
<1>1. CASE Queue(c) \/ SpawnWorker(c) \/ Start(c)
  BY <1>1 DEF Queue, SpawnWorker, Start
<1>2. CASE \E t \in Tasks : Submit(c, t)
  BY <1>2 DEF Submit
<1>3. CASE Stop(c) \/ Terminate(c) \/ StopGivesUp(c) \/ StopTestsAlive(c)
           \/ TerminateTestsAlive(c) \/ StopCallsJoin(c) \/ StopReturns(c)
           \/ StopExpired(c) \/ StopRaises(c) \/ TerminateKills(c)
  <2>1. StopCallUnchanged
    BY <1>3 DEF Stop, Terminate, CallStop, StopGivesUp, StopTestsAlive,
                TerminateTestsAlive, TestsAlive, StopCallsJoin, StopReturns,
                StopExpired, StopRaises, TerminateKills
  <2>2. QED
    BY <2>1 DEF StopCallUnchanged
<1>4. CASE StartReturns(c) \/ AdjustWorkers(c) \/ CountTasks(c) \/ ScanFails(c)
           \/ ScanWorker(c) \/ ScanDone(c) \/ SpawnReturns(c) \/ SubmitReturns(c)
  BY <1>4 DEF StartReturns, AdjustWorkers, CountTasks, ScanFails, ScanWorker,
              ScanDone, SpawnReturns, SubmitReturns
<1>5. QED
  BY <1>1, <1>2, <1>3, <1>4 DEF ClientStep, ClientCall

\* Queue and Submit apart, a client's call goes on without a new task.
LEMMA CallChanges ==
  ASSUME SharedTypeOK, NEW c \in Clients, ClientStep(c) \/ ClientCall(c), ~Queue(c),
         ~ \E t \in Tasks : Submit(c, t)
  PROVE  /\ cTask' = cTask \/ cTask' = [cTask EXCEPT ![c] = NoTask]
         /\ \A d \in Clients : cpc'[d] = "queue" => cpc[d] = "queue" /\ d # c
<1> USE DEF SharedTypeOK, ClientTypeOK
<1>1. cTask' = cTask \/ cTask' = [cTask EXCEPT ![c] = NoTask]
  BY DEF ClientStep, ClientCall, Start, Stop, Terminate, CallStop, StopGivesUp,
         StartReturns, AdjustWorkers, CountTasks, ScanFails, ScanWorker,
         ScanDone, SpawnWorker, SpawnReturns, SubmitReturns, StopTestsAlive,
         TerminateTestsAlive, TestsAlive, StopCallsJoin, StopReturns,
         StopExpired, StopRaises, TerminateKills, StopCallUnchanged, EndSubmit
<1>2. cpc[c] # "queue"
  BY DEF ClientStep, ClientCall, Start, Stop, Terminate, CallStop, StopGivesUp,
         StartReturns, AdjustWorkers, CountTasks, ScanFails, ScanWorker,
         ScanDone, SpawnWorker, SpawnReturns, SubmitReturns, StopTestsAlive,
         TerminateTestsAlive, TestsAlive, StopCallsJoin, StopReturns,
         StopExpired, StopRaises, TerminateKills
<1>3. UNCHANGED cpc \/ \E label : label # "queue" /\ cpc' = [cpc EXCEPT ![c] = label]
  <2>1. CASE UNCHANGED cpc
    BY <2>1
  <2>2. CASE ~UNCHANGED cpc
    <3>1. \E label \in {"idle", "starting", "adjust", "count", "scan", "spawn",
                        "spin", "stop2", "stop3", "join", "expired",
                        "expired2", "kill2", "kill3"} : CGoto(c, label)
      BY <2>2
         DEF ClientStep, ClientCall, Start, Stop, Terminate, CallStop,
             StopGivesUp, StartReturns, AdjustWorkers, CountTasks, ScanFails,
             ScanWorker, ScanDone, SpawnWorker, SpawnReturns, SubmitReturns,
             StopTestsAlive, TerminateTestsAlive, TestsAlive, StopCallsJoin,
             StopReturns, StopExpired, StopRaises, TerminateKills, EndSubmit,
             EndStop
    <3>2. QED
      BY <3>1 DEF CGoto
  <2>3. QED
    BY <2>1, <2>2
<1>4. QED
  BY <1>1, <1>2, <1>3

-----------------------------------------------------------------------------
\* A step that leaves the clients alone and forgets tasks at most.
LEMMA QueuedStaysNew ==
  ASSUME QueuedIsNew, currTasks' \subseteq currTasks,
         UNCHANGED <<future, cpc, cTask>>
  PROVE  QueuedIsNew'
  BY DEF QueuedIsNew, Submitted

\* The manager puts nothing but CLOSE on a request bus.
LEMMA RequestsStayClose ==
  ASSUME SharedTypeOK, RequestsClose, UNCHANGED requestBus \/ CloseWorker
  PROVE  RequestsClose'
<1> USE DEF SharedTypeOK, PoolStateTypeOK, ManagerTypeOK
<1>1. CASE UNCHANGED requestBus
  BY <1>1 DEF RequestsClose
<1>2. CASE CloseWorker
  <2> DEFINE w == Min(todo)
             close == Action({"CLOSE"}, NoTask, NoWorker)
  <2>1. requestBus' = [requestBus EXCEPT ![w] = Append(@, close)]
    BY <1>2 DEF CloseWorker
  <2>2. w \in Workers
    BY <1>2, MinInSet, WorkersNat DEF CloseWorker
  <2>3. close \in Responses /\ close.flag = {"CLOSE"}
    BY ActionType DEF Flags, Action
  <2>4. requestBus[w] \in Seq(Responses)
    BY <2>2
  <2> HIDE DEF close, w
  <2>5. \A i \in DOMAIN Append(requestBus[w], close) :
          Append(requestBus[w], close)[i].flag = {"CLOSE"}
    BY <2>2, <2>3, <2>4, AppendFacts DEF RequestsClose
  <2>6. QED
    BY <2>1, <2>2, <2>5 DEF RequestsClose
<1>3. QED
  BY <1>1, <1>2

\* The workers that the manager knows, handles or iterates over exist.
LEMMA WorkersStayNumbered ==
  ASSUME SharedTypeOK, WorkersNumbered, UNCHANGED nextWorker,
         \/ UNCHANGED pc
         \/ \E w \in Workers : w < nextWorker /\ pc' = [pc EXCEPT ![w] = "boot"],
         currWorkers' \subseteq currWorkers, todo' \subseteq currWorkers \cup todo,
         handled' \in {handled} \cup currWorkers \cup todo
  PROVE  WorkersNumbered'
<1> USE DEF SharedTypeOK, PoolStateTypeOK
<1>1. \A w \in currWorkers' \cup todo' \cup {handled'} : w < nextWorker
  BY DEF WorkersNumbered
<1>2. \A w \in Workers : /\ w >= nextWorker => pc'[w] = "unborn"
                         /\ w < nextWorker => pc'[w] # "unborn"
  <2>1. CASE UNCHANGED pc
    BY <2>1 DEF WorkersNumbered
  <2>2. ASSUME NEW v \in Workers, v < nextWorker, pc' = [pc EXCEPT ![v] = "boot"]
        PROVE  \A w \in Workers : /\ w >= nextWorker => pc'[w] = "unborn"
                                  /\ w < nextWorker => pc'[w] # "unborn"
    <3>1. nextWorker \in Nat /\ v \in Nat
      BY WorkersNat, PoolStateAssumption DEF TableTypeOK
    <3>2. QED
      BY <2>2, <3>1, WorkersNat DEF WorkersNumbered
  <2>3. QED
    BY <2>1, <2>2
<1>3. QED
  BY <1>1, <1>2 DEF WorkersNumbered

StopSteps == StopFlag \/ StopAlive \/ StopJoin \/ StopJoined \/ StopDone

\* worker.stop() returns when the thread has ended.
LEMMA StopKeepsOK ==
  ASSUME SharedTypeOK, ManagerOK, StopSteps
  PROVE  ManagerOK'
<1> USE DEF StopSteps, SharedTypeOK, PoolStateTypeOK, TableTypeOK, ManagerTypeOK
<1>1. /\ UNCHANGED <<requestBus, pc, future, cpc, cTask, currTasks, currWorkers,
                     nextWorker, handled, todo>>
      /\ handled \in Workers
  BY DEF StopFlag, StopAlive, StopJoin, StopJoined, StopDone, StopUnchanged,
         busVars, tableVars, clientVars, ManagerOK, HandledOK
<1>2. \/ thread' = thread
      \/ mpc = "stopped" /\ thread' = [thread EXCEPT ![handled] = FALSE]
  BY DEF StopFlag, StopAlive, StopJoin, StopJoined, StopDone
<1>3. ThreadsHeld'
  BY <1>1, <1>2 DEF ManagerOK, ThreadsHeld, HandledOK, ThreadAlive
<1>4. HandledOK'
  <2>1. mpc' = "stopped" => ~ThreadAlive(handled)
    BY <1>1 DEF StopFlag, StopAlive, StopJoin, StopJoined, StopDone, Die,
                ManagerOK, ThreadsHeld
  <2>2. mpc' = "start" => mpc = "stopped" /\ thread'[handled] = FALSE
    BY <1>1 DEF StopFlag, StopAlive, StopJoin, StopJoined, StopDone, Die
  <2>3. QED
    BY <1>1, <2>1, <2>2 DEF ManagerOK, HandledOK, ThreadAlive
<1>5. QueuedIsNew' /\ RequestsClose' /\ WorkersNumbered'
  BY <1>1, QueuedStaysNew, RequestsStayClose, WorkersStayNumbered DEF ManagerOK
<1>6. QED
  BY <1>3, <1>4, <1>5 DEF ManagerOK

\* A step of the manager's thread keeps the parts about it.
LEMMA ManagerKeepsOK ==
  ASSUME SharedTypeOK, ManagerOK, ManagerStep \/ ManagerIdleOut \/ ManagerKilled \/ KilledConsuming
  PROVE  ManagerOK'
<1> USE DEF SharedTypeOK, PoolStateTypeOK, TableTypeOK, ManagerTypeOK
<1>1. CASE StopSteps
  BY <1>1, StopKeepsOK
<1>2. CASE RestartWorker
  <2>1. /\ UNCHANGED <<requestBus, future, cpc, cTask, currTasks, currWorkers,
                       nextWorker, handled, todo>>
        /\ handled \in Workers /\ handled < nextWorker
    BY <1>2 DEF RestartWorker, busVars, tableVars, clientVars, ManagerOK,
                HandledOK, WorkersNumbered
  <2>2. \/ UNCHANGED <<pc, thread>> /\ mpc' = "dead"
        \/ /\ pc' = [pc EXCEPT ![handled] = "boot"]
           /\ thread' = [thread EXCEPT ![handled] = TRUE] /\ mpc' = "spin"
    BY <1>2 DEF RestartWorker, StartThread, Die
  <2>3. ThreadsHeld' /\ HandledOK'
    BY <2>1, <2>2 DEF ManagerOK, ThreadsHeld, HandledOK, ThreadAlive
  <2>4. WorkersNumbered'
    BY <2>1, <2>2, WorkersStayNumbered DEF ManagerOK
  <2>5. QueuedIsNew' /\ RequestsClose'
    BY <2>1, QueuedStaysNew, RequestsStayClose DEF ManagerOK
  <2>6. QED
    BY <2>3, <2>4, <2>5 DEF ManagerOK
<1>3. CASE ~StopSteps /\ ~RestartWorker
  <2>1. /\ UNCHANGED <<taskBus, future, nextWorker, clientVars>>
        /\ UNCHANGED requestBus \/ CloseWorker
        /\ UNCHANGED pc /\ UNCHANGED running
    BY <1>3, ManagerChanges DEF StopSteps
  <2>2. UNCHANGED thread
    BY <1>3 DEF ManagerStep, ManagerIdleOut, ManagerKilled, KilledConsuming, ManagerBoot,
                ManagerCheck, BusDrained, ConsumeFails, ConsumeResponse,
                TakeResponse, ManagerDown, StopSteps, RestartReturns,
                IterationFails, CloseWorker, CloseDone, HaltWorker, ManagerEnd,
                poolVars, flagVars
  <2>3. todo # {} => Min(todo) \in todo
    BY MinInSet, WorkersNat
  <2>4. /\ currTasks' \subseteq currTasks /\ currWorkers' \subseteq currWorkers
        /\ todo' \subseteq currWorkers \cup todo
        /\ handled' \in {handled} \cup currWorkers \cup todo
        /\ mpc' \in {"stop1", "spin"} => handled' \in Workers
        /\ mpc' \notin {"stop2", "stop3", "join", "stopped", "start"}
    <3>1. CASE ConsumeFails
      BY <3>1 DEF ConsumeFails, TakeResponse, TasksAfter, ConsumeError, Die
    <3>2. CASE ConsumeResponse
      BY <3>2 DEF ConsumeResponse, TakeResponse, TasksAfter, ConsumeError,
                  AfterConsume
    <3>3. CASE BusDrained \/ CloseWorker \/ CloseDone
      BY <3>3 DEF BusDrained, CloseWorker, CloseDone, tableVars
    <3>4. CASE HaltWorker
      BY <2>3, <3>4 DEF HaltWorker, tableVars
    <3>5. CASE KilledConsuming
      BY <3>5 DEF KilledConsuming, TasksAfter
    <3>6. CASE ~ (ConsumeFails \/ ConsumeResponse \/ BusDrained \/ CloseWorker
                  \/ CloseDone \/ HaltWorker \/ KilledConsuming)
      BY <1>3, <3>6 DEF ManagerStep, ManagerIdleOut, ManagerKilled, ManagerBoot,
                        ManagerCheck, ManagerDown, StopSteps, RestartReturns,
                        AfterConsume, IterationFails, ManagerEnd, Die, tableVars
    <3>7. QED
      BY <3>1, <3>2, <3>3, <3>4, <3>5, <3>6
  <2>5. ThreadsHeld' /\ HandledOK'
    BY <2>1, <2>2, <2>4 DEF ManagerOK, ThreadsHeld, HandledOK, ThreadAlive
  <2>6. WorkersNumbered'
    BY <2>1, <2>4, WorkersStayNumbered DEF ManagerOK
  <2>7. QueuedIsNew' /\ RequestsClose'
    BY <2>1, <2>4, QueuedStaysNew, RequestsStayClose DEF ManagerOK, clientVars
  <2>8. QED
    BY <2>5, <2>6, <2>7 DEF ManagerOK
<1>4. QED
  BY <1>1, <1>2, <1>3

\* submit() puts a task on the bus that was new.
LEMMA QueueKeepsNew ==
  ASSUME SharedTypeOK, QueuedIsNew, NEW c \in Clients, Queue(c)
  PROVE  QueuedIsNew'
<1> USE DEF SharedTypeOK, PoolStateTypeOK, TableTypeOK, ClientTypeOK
<1> DEFINE t == cTask[c]
<1>1. t \in Tasks /\ future[t] = "unsubmitted"
  BY DEF Queue, QueuedIsNew
<1>2. /\ currTasks' = currTasks \cup {t} /\ UNCHANGED cTask
      /\ future' = [future EXCEPT ![t] = "pending"]
      /\ cpc' = [cpc EXCEPT ![c] = "adjust"]
  BY DEF Queue, CGoto
<1>3. \A u \in currTasks' : Submitted(u)'
  BY <1>1, <1>2 DEF QueuedIsNew, Submitted
<1>4. \A d \in Clients :
        cpc'[d] = "queue" => d # c /\ cTask[d] \in Tasks /\ cTask[d] # t
                             /\ future[cTask[d]] = "unsubmitted"
  BY <1>1, <1>2, PoolStateAssumption DEF QueuedIsNew
<1>5. \A d \in Clients : cpc'[d] = "queue" => future'[cTask[d]] = "unsubmitted"
  BY <1>1, <1>2, <1>4
<1>6. QED
  BY <1>2, <1>3, <1>4, <1>5 DEF QueuedIsNew

\* submit() picks a task that is new and that no other client submits.
LEMMA SubmitKeepsNew ==
  ASSUME SharedTypeOK, QueuedIsNew, NEW c \in Clients, NEW t \in Tasks, Submit(c, t)
  PROVE  QueuedIsNew'
<1> USE DEF SharedTypeOK, PoolStateTypeOK, TableTypeOK, ClientTypeOK
<1>1. /\ future[t] = "unsubmitted" /\ \A d \in Clients : cTask[d] # t
      /\ UNCHANGED currTasks
      /\ \/ /\ future' = future /\ cpc' = [cpc EXCEPT ![c] = "queue"]
            /\ cTask' = [cTask EXCEPT ![c] = t]
         \/ /\ future' = [future EXCEPT ![t] = "rejected"]
            /\ UNCHANGED <<cpc, cTask>>
  BY DEF Submit, CGoto, tableVars
<1>2. \A u \in currTasks : Submitted(u)'
  BY <1>1 DEF QueuedIsNew, Submitted
<1>3. \A d \in Clients : cpc'[d] = "queue" => /\ cTask'[d] \in Tasks
                                             /\ future'[cTask'[d]] = "unsubmitted"
  <2>1. TAKE d \in Clients
  <2>2. cpc[d] = "queue" => cTask[d] \in Tasks /\ future[cTask[d]] = "unsubmitted"
    BY DEF QueuedIsNew
  <2>3. CASE /\ future' = future /\ cpc' = [cpc EXCEPT ![c] = "queue"]
             /\ cTask' = [cTask EXCEPT ![c] = t]
    <3>1. CASE d = c
      BY <1>1, <2>3, <3>1
    <3>2. CASE d # c
      BY <2>2, <2>3, <3>2
    <3>3. QED
      BY <3>1, <3>2
  <2>4. CASE /\ future' = [future EXCEPT ![t] = "rejected"]
             /\ UNCHANGED <<cpc, cTask>>
    BY <1>1, <2>2, <2>4
  <2>5. QED
    BY <1>1, <2>3, <2>4
<1>4. \A d, e \in Clients : cTask'[d] = cTask'[e] => d = e \/ cTask'[d] = NoTask
  BY <1>1 DEF QueuedIsNew
<1>5. QED
  BY <1>1, <1>2, <1>3, <1>4 DEF QueuedIsNew

\* A fresh worker is the next in the numbering, and nobody handles it.
LEMMA SpawnKeepsOK ==
  ASSUME SharedTypeOK, ManagerOK, NEW c \in Clients, SpawnWorker(c)
  PROVE  WorkersNumbered' /\ ThreadsHeld' /\ HandledOK'
<1> USE DEF SharedTypeOK, PoolStateTypeOK, TableTypeOK, ManagerTypeOK
<1> DEFINE n == nextWorker
<1>1. /\ n \in Workers /\ n \in Nat /\ n + 1 \in Nat
      /\ pc' = [pc EXCEPT ![n] = "boot"] /\ thread' = [thread EXCEPT ![n] = TRUE]
      /\ nextWorker' = n + 1 /\ currWorkers' = currWorkers \cup {n}
      /\ UNCHANGED <<mpc, todo, handled>>
  BY PoolStateAssumption
     DEF SpawnWorker, StartThread, Workers, managerVars, managerCtl
<1>2. pc[n] = "unborn" /\ handled < n
  BY <1>1 DEF ManagerOK, WorkersNumbered
<1>3. ThreadsHeld'
  BY <1>1 DEF ManagerOK, ThreadsHeld, ThreadAlive
<1>4. HandledOK'
  <2>1. handled # n
    BY <1>1, <1>2
  <2>2. QED
    BY <1>1, <2>1 DEF ManagerOK, HandledOK, ThreadAlive
<1>5. WorkersNumbered'
  <2>1. \A v \in Workers : v >= n + 1 => v >= n /\ v # n
    BY <1>1, WorkersNat
  <2>2. \A v \in Workers : v < n + 1 => v < n \/ v = n
    BY <1>1, WorkersNat
  <2>3. \A v \in Workers : pc'[v] = IF v = n THEN "boot" ELSE pc[v]
    BY <1>1
  <2>4. \A v \in Workers : /\ v >= n + 1 => pc'[v] = "unborn"
                           /\ v < n + 1 => pc'[v] # "unborn"
    BY <2>1, <2>2, <2>3 DEF ManagerOK, WorkersNumbered
  <2>5. \A v \in currWorkers \cup todo : v < n + 1
    BY <1>1, WorkersNat DEF ManagerOK, WorkersNumbered
  <2>6. handled < n + 1
    BY <1>1, <1>2, WorkersNat DEF NoWorker
  <2>7. QED
    BY <1>1, <2>4, <2>5, <2>6 DEF WorkersNumbered
<1>6. QED
  BY <1>3, <1>4, <1>5

\* A step of a client keeps the parts about the manager and itself.
LEMMA ClientKeepsOK ==
  ASSUME SharedTypeOK, ManagerOK, NEW c \in Clients, ClientStep(c) \/ ClientCall(c)
  PROVE  ManagerOK'
<1>1. /\ UNCHANGED <<requestBus, handled, todo>>
      /\ \/ UNCHANGED <<taskBus, currTasks, future>>
         \/ Queue(c)
         \/ \E t \in Tasks : Submit(c, t)
      /\ UNCHANGED <<pc, thread, currWorkers, nextWorker>> \/ SpawnWorker(c)
      /\ UNCHANGED mpc \/ (mpc = "unborn" /\ mpc' = "boot")
  BY ClientChanges
<1>2. RequestsClose'
  BY <1>1 DEF ManagerOK, RequestsClose
<1>3. WorkersNumbered' /\ ThreadsHeld' /\ HandledOK'
  <2>1. CASE UNCHANGED <<pc, thread, currWorkers, nextWorker>>
    BY <1>1, <2>1 DEF ManagerOK, WorkersNumbered, ThreadsHeld, HandledOK,
                      ThreadAlive
  <2>2. QED
    BY <1>1, <2>1, SpawnKeepsOK
<1>4. QueuedIsNew'
  <2>1. CASE UNCHANGED <<currTasks, future>> /\ ~Queue(c)
             /\ ~ \E t \in Tasks : Submit(c, t)
    <3>1. /\ cTask' = cTask \/ cTask' = [cTask EXCEPT ![c] = NoTask]
          /\ \A d \in Clients : cpc'[d] = "queue" => cpc[d] = "queue" /\ d # c
      BY <2>1, CallChanges
    <3>2. cTask \in [Clients -> Tasks \cup {NoTask}]
      BY DEF SharedTypeOK, ClientTypeOK
    <3>3. \A d \in Clients : d # c => cTask'[d] = cTask[d]
      BY <3>1, <3>2
    <3>4. \A d, e \in Clients : cTask'[d] = cTask'[e] => d = e \/ cTask'[d] = NoTask
      BY <3>1, <3>2 DEF ManagerOK, QueuedIsNew
    <3>5. QED
      BY <2>1, <3>1, <3>3, <3>4 DEF ManagerOK, QueuedIsNew, Submitted
  <2>2. QED
    BY <1>1, <2>1, QueueKeepsNew, SubmitKeepsNew DEF ManagerOK
<1>5. QED
  BY <1>2, <1>3, <1>4 DEF ManagerOK

\* So do a cancellation and a step that changes nothing.
LEMMA CancelKeepsOK ==
  ASSUME SharedTypeOK, ManagerOK,
         \/ \E t \in Tasks : Cancel(t)
         \/ UNCHANGED <<poolVars, tableVars, managerVars, clientVars>>
  PROVE  ManagerOK'
<1>1. /\ UNCHANGED <<requestBus, pc, thread, currTasks, currWorkers, nextWorker,
                     mpc, handled, todo, cpc, cTask>>
      /\ \A t \in Tasks : \/ future'[t] = future[t]
                          \/ future[t] = "pending" /\ future'[t] = "cancelled"
  BY DEF Cancel, CancelFuture, poolVars, busVars, flagVars, tableVars,
         managerVars, managerCtl, clientVars, SharedTypeOK, PoolStateTypeOK
<1>2. QueuedIsNew'
  BY <1>1 DEF ManagerOK, QueuedIsNew, Submitted, SharedTypeOK, TableTypeOK
<1>3. QED
  BY <1>1, <1>2 DEF ManagerOK, RequestsClose, WorkersNumbered, ThreadsHeld,
                    HandledOK, ThreadAlive

\* What a worker may do to them: it ends, takes requests and settles futures.
LEMMA WorkerKeepsOK ==
  ASSUME SharedTypeOK, ManagerOK, NEW w \in Workers, ThreadAlive(w),
         UNCHANGED <<tableVars, managerVars, clientVars>>,
         \/ UNCHANGED requestBus
         \/ requestBus[w] # <<>> /\ requestBus' = [requestBus EXCEPT ![w] = Tail(@)],
         \A t \in Tasks : \/ future'[t] = future[t]
                          \/ Submitted(t) /\ Submitted(t)',
         \E label : label # "unborn" /\ pc' = [pc EXCEPT ![w] = label],
         \/ UNCHANGED thread
         \/ thread' = [thread EXCEPT ![w] = FALSE] /\ pc'[w] = "ended"
  PROVE  ManagerOK'
<1> USE DEF SharedTypeOK, PoolStateTypeOK, TableTypeOK, ManagerTypeOK
<1>1. UNCHANGED <<currTasks, currWorkers, nextWorker, mpc, handled, todo, cpc, cTask>>
  BY DEF tableVars, managerVars, managerCtl, clientVars
<1>2. RequestsClose'
  <2>1. CASE UNCHANGED requestBus
    BY <2>1 DEF ManagerOK, RequestsClose
  <2>2. CASE requestBus[w] # <<>> /\ requestBus' = [requestBus EXCEPT ![w] = Tail(@)]
    <3>1. requestBus[w] \in Seq(Responses)
      OBVIOUS
    <3>2. \A i \in DOMAIN Tail(requestBus[w]) : Tail(requestBus[w])[i].flag = {"CLOSE"}
      BY <2>2, <3>1, TailFacts DEF ManagerOK, RequestsClose
    <3>3. QED
      BY <2>2, <3>2 DEF ManagerOK, RequestsClose
  <2>3. QED
    BY <2>1, <2>2
<1>3. QueuedIsNew'
  BY <1>1 DEF ManagerOK, QueuedIsNew, Submitted
<1>4. WorkersNumbered'
  BY <1>1 DEF ManagerOK, WorkersNumbered, ThreadAlive
<1>5. ThreadsHeld'
  BY DEF ManagerOK, ThreadsHeld, ThreadAlive
<1>6. HandledOK'
  BY <1>1 DEF ManagerOK, HandledOK, ThreadAlive
<1>7. QED
  BY <1>2, <1>3, <1>4, <1>5, <1>6 DEF ManagerOK

\* At the start there is no worker and no call.
LEMMA InitOK == PoolStateInit /\ ThreadManagerInit => ManagerOK
<1> SUFFICES ASSUME PoolStateInit, ThreadManagerInit PROVE ManagerOK
  OBVIOUS
<1> USE DEF PoolStateInit, ThreadManagerInit
<1>1. RequestsClose /\ QueuedIsNew /\ ThreadsHeld /\ HandledOK
  BY DEF RequestsClose, QueuedIsNew, ThreadsHeld, HandledOK, ThreadAlive
<1>2. WorkersNumbered
  BY WorkersNat DEF WorkersNumbered, NoWorker
<1>3. QED
  BY <1>1, <1>2 DEF ManagerOK

-----------------------------------------------------------------------------
(***************************************************************************)
(* Where the manager's thread begins and ends, and the loops it is in.     *)
(***************************************************************************)
LEMMA ManagerKeepsPhase ==
  ASSUME PhaseOK, ManagerStep \/ ManagerIdleOut \/ ManagerKilled \/ KilledConsuming
  PROVE  PhaseOK'
  BY DEF PhaseOK, ManagerStep, ManagerIdleOut, ManagerKilled, KilledConsuming, ManagerBoot, ManagerCheck,
         BusDrained, ConsumeFails, ConsumeResponse, TakeResponse, AfterConsume, Die,
         ManagerDown, StopFlag, StopAlive, StopJoin, StopJoined, StopDone,
         StopUnchanged, RestartWorker, RestartReturns, IterationFails, CloseWorker,
         CloseDone, HaltWorker, ManagerEnd

\* It does not begin a second time, and ends behind _stop_all_workers.
LEMMA ManagerKeepsEnds ==
  ASSUME PhaseOK, EndsOK, ManagerStep \/ ManagerIdleOut \/ ManagerKilled \/ KilledConsuming
  PROVE  EndsOK'
<1>1. mpc' \notin {"unborn", "boot"}
  <2>1. CASE CloseWorker
    BY <2>1 DEF CloseWorker
  <2>2. CASE ~CloseWorker
    BY <2>2
       DEF ManagerStep, ManagerIdleOut, ManagerKilled, KilledConsuming,
           ManagerBoot, ManagerCheck, BusDrained, ConsumeFails, ConsumeResponse,
           AfterConsume, Die, ManagerDown, StopFlag, StopAlive, StopJoin, StopJoined,
           StopDone, RestartWorker, RestartReturns, IterationFails, CloseDone,
           HaltWorker, ManagerEnd
  <2>3. QED
    BY <2>1, <2>2
<1>2. mpc' = "ended" => ManagerEnd
  BY DEF ManagerStep, ManagerIdleOut, ManagerKilled, KilledConsuming,
         ManagerBoot, ManagerCheck, BusDrained, ConsumeFails, ConsumeResponse,
         TakeResponse, AfterConsume, Die, ManagerDown, StopFlag, StopAlive, StopJoin,
         StopJoined, StopDone, RestartWorker, RestartReturns, IterationFails,
         CloseWorker, CloseDone, HaltWorker
<1>3. ManagerEnd => phase' = "halt"
  BY DEF ManagerEnd, PhaseOK
<1>4. QED
  BY <1>1, <1>2, <1>3 DEF EndsOK

\* The manager does not leave _stop_all_workers.
LEMMA HaltStays ==
  ASSUME PhaseOK, ManagerStep \/ ManagerIdleOut \/ ManagerKilled \/ KilledConsuming, phase = "halt"
  PROVE  phase' = "halt"
<1>1. mpc \notin {"receive", "down"}
  BY DEF PhaseOK
<1>2. QED
  BY <1>1
     DEF ManagerStep, ManagerIdleOut, ManagerKilled, KilledConsuming,
         ManagerBoot, ManagerCheck, BusDrained, ConsumeFails, ConsumeResponse,
         TakeResponse, ManagerDown, StopFlag, StopAlive,
         StopJoin, StopJoined, StopDone, StopUnchanged, RestartWorker, RestartReturns,
         IterationFails, CloseWorker, CloseDone, HaltWorker, ManagerEnd

-----------------------------------------------------------------------------
(***************************************************************************)
(* One client, and a manager that does not give up: behind the loop of the *)
(* manager nobody adds a worker, and _stop_all_workers goes over them all. *)
(***************************************************************************)
QuietRest ==
  /\ todo \subseteq currWorkers /\ todoSize = Cardinality(currWorkers)
  /\ mpc \in Halting => \A w \in currWorkers \ todo : Halted(w) => ~ThreadAlive(w)
  /\ mpc = "ended" => todo = {}

\* QuietEnd in parts, now and in the next state.
LEMMA QuietParts ==
  QuietEnd <=> /\ ~mRunning => cpc[Owner] \notin Submitting
               /\ mpc = "down" \/ phase # "loop" => ~mRunning
               /\ phase = "halt" => QuietRest
  BY DEF QuietEnd, QuietRest

\* QuietEnd in parts, in the next state.
LEMMA QuietPartsNext ==
  (QuietEnd <=> /\ ~mRunning => cpc[Owner] \notin Submitting
                /\ mpc = "down" \/ phase # "loop" => ~mRunning
                /\ phase = "halt" => QuietRest)'
  BY DEF QuietEnd, QuietRest

\* Nothing happens to the manager; workers may end.
LEMMA FrameKeepsQuiet ==
  ASSUME SharedTypeOK, QuietEnd,
         UNCHANGED <<mpc, phase, handled, todo, todoSize, currWorkers>>,
         \A v \in Workers : pc'[v] \notin {"unborn", "ended", "died"} => ThreadAlive(v),
         mRunning' => mRunning,
         ~mRunning' => cpc'[Owner] \notin Submitting
  PROVE  QuietEnd'
<1>1. \A w \in Workers : ThreadAlive(w)' => ThreadAlive(w)
  BY DEF ThreadAlive
<1>2. phase = "halt" => QuietRest'
  <2> SUFFICES ASSUME phase = "halt" PROVE QuietRest'
    OBVIOUS
  <2>1. QuietRest
    BY QuietParts
  <2>2. \A w \in currWorkers \ todo : Halted(w)' => Halted(w)
    BY DEF Halted
  <2>3. currWorkers \in SUBSET Workers
    BY DEF SharedTypeOK, TableTypeOK
  <2>4. mpc \in Halting => \A w \in currWorkers \ todo : Halted(w)' => ~ThreadAlive(w)'
    BY <1>1, <2>1, <2>2, <2>3 DEF QuietRest
  <2>5. QED
    BY <2>1, <2>4 DEF QuietRest
<1>3. QED
  BY <1>2, QuietParts, QuietPartsNext

\* The steps of a call of stop() or terminate().
StopCalls(c) ==
  \/ Stop(c) \/ Terminate(c) \/ StopTestsAlive(c) \/ TerminateTestsAlive(c)
  \/ StopCallsJoin(c) \/ StopReturns(c) \/ StopGivesUp(c) \/ StopExpired(c)
  \/ StopRaises(c) \/ TerminateKills(c)

\* stop() and terminate() never set `running`, nor do they submit.
LEMMA StopCallFacts ==
  ASSUME SharedTypeOK, NEW c \in Clients, StopCalls(c)
  PROVE  /\ StopCallUnchanged /\ (mRunning' => mRunning)
         /\ cpc'[c] \notin Submitting
<1> USE DEF SharedTypeOK, ClientTypeOK, CGoto, EndStop, Submitting
<1>1. CASE Stop(c) \/ Terminate(c)
  BY <1>1 DEF Stop, Terminate, CallStop
<1>2. CASE StopTestsAlive(c) \/ TerminateTestsAlive(c) \/ StopCallsJoin(c)
  BY <1>2 DEF StopTestsAlive, TerminateTestsAlive, TestsAlive, StopCallsJoin
<1>3. CASE StopReturns(c) \/ StopGivesUp(c) \/ StopExpired(c)
  BY <1>3 DEF StopReturns, StopGivesUp, StopExpired
<1>4. CASE StopRaises(c) \/ TerminateKills(c)
  BY <1>4 DEF StopRaises, TerminateKills
<1>5. QED
  BY <1>1, <1>2, <1>3, <1>4 DEF StopCalls

\* Nor does a call of the only client.
LEMMA ClientKeepsQuiet ==
  ASSUME SharedTypeOK, EndsOK, QuietEnd, ClientStep(Owner) \/ ClientCall(Owner)
  PROVE  QuietEnd'
<1>1. /\ Owner \in Clients /\ DOMAIN cpc = Clients
      /\ UNCHANGED <<phase, handled, todo, todoSize>>
      /\ mpc' = mpc \/ (mpc = "unborn" /\ mpc' = "boot")
      /\ SpawnWorker(Owner) \/ UNCHANGED <<currWorkers, pc>>
  BY ThreadManagerAssumption, ClientChanges DEF SharedTypeOK, ClientTypeOK
<1>2. CASE StopCalls(Owner)
  <2>1. UNCHANGED <<mpc, phase, handled, todo, todoSize, currWorkers, pc>>
    BY <1>1, <1>2, StopCallFacts
       DEF StopCallUnchanged, managerCtl, tableVars, poolVars, flagVars
  <2>2. (mRunning' => mRunning) /\ cpc'[Owner] \notin Submitting
    BY <1>1, <1>2, StopCallFacts
  <2>3. QED
    BY <2>1, <2>2, FrameKeepsQuiet DEF ThreadAlive
<1>3. CASE Start(Owner)
  <2>1. /\ UNCHANGED <<phase, mRunning>> /\ mpc' = "boot" /\ mpc = "unborn"
        /\ cpc'[Owner] = "starting"
    BY <1>1, <1>3 DEF Start, CGoto
  <2>2. phase = "loop"
    BY <2>1 DEF EndsOK
  <2>3. QED
    BY <2>1, <2>2, QuietPartsNext DEF Submitting
<1>4. CASE StartReturns(Owner)
  <2>1. /\ UNCHANGED <<mpc, currWorkers, pc, mRunning>> /\ cpc'[Owner] = "idle"
    BY <1>1, <1>4 DEF StartReturns, CGoto, poolVars, flagVars, tableVars, managerVars,
                      managerCtl
  <2>2. QED
    BY <1>1, <2>1, FrameKeepsQuiet DEF Submitting, ThreadAlive
<1>5. ASSUME NEW t \in Tasks, Submit(Owner, t)
      PROVE  QuietEnd'
  <2>1. /\ UNCHANGED <<mpc, currWorkers, pc, mRunning>> /\ (mRunning \/ cpc' = cpc)
    BY <1>5 DEF Submit, flagVars, tableVars, managerVars, managerCtl
  <2>2. ~mRunning => cpc[Owner] \notin Submitting
    BY QuietParts
  <2>3. QED
    BY <1>1, <2>1, <2>2, FrameKeepsQuiet DEF ThreadAlive
<1>6. CASE \/ Queue(Owner) \/ AdjustWorkers(Owner) \/ CountTasks(Owner)
           \/ ScanFails(Owner) \/ ScanWorker(Owner) \/ ScanDone(Owner)
           \/ SpawnWorker(Owner) \/ SpawnReturns(Owner) \/ SubmitReturns(Owner)
  <2>1. UNCHANGED <<mpc, phase, mRunning>> /\ cpc[Owner] \in Submitting
    BY <1>6 DEF Queue, AdjustWorkers, CountTasks, ScanFails, ScanWorker, ScanDone,
                SpawnWorker, SpawnReturns, SubmitReturns, managerVars, managerCtl,
                Submitting
  <2>2. mRunning /\ phase = "loop" /\ mpc # "down"
    BY <2>1, QuietParts
  <2>3. QED
    BY <2>1, <2>2, QuietPartsNext
<1>7. QED
  BY <1>2, <1>3, <1>4, <1>5, <1>6
     DEF ClientStep, ClientCall, StopCalls

\* worker.stop(), in _stop_all_workers and of a worker to be started again.
LEMMA StopKeepsQuiet ==
  ASSUME SharedTypeOK, HandledOK, ThreadsHeld, QuietEnd, StopSteps, UNCHANGED clientVars
  PROVE  QuietEnd'
<1>1. /\ UNCHANGED <<mRunning, cpc, phase, currWorkers, todo, todoSize, handled, pc>>
      /\ mpc \in {"stop1", "stop2", "stop3", "join", "stopped"} /\ handled \in Workers
      /\ mpc' \in {"stop2", "stop3", "join", "stopped", "halt", "start", "dead"}
  BY DEF StopSteps, StopFlag, StopAlive, StopJoin, StopJoined, StopDone, StopUnchanged,
         Die, tableVars, clientVars, HandledOK
<1>2. mpc' \in {"stopped", "halt"} => ~ThreadAlive(handled)
  BY DEF StopSteps, StopFlag, StopAlive, StopJoin, StopJoined, StopDone, Die,
         HandledOK, ThreadsHeld
<1>3. phase = "halt" => QuietRest'
  <2> SUFFICES ASSUME phase = "halt" PROVE QuietRest'
    OBVIOUS
  <2>1. /\ todo \subseteq currWorkers /\ todoSize = Cardinality(currWorkers)
        /\ \A w \in currWorkers \ todo : w # handled => ~ThreadAlive(w)
    BY <1>1, QuietParts DEF QuietRest, Halting, Halted
  <2>2. \A w \in currWorkers \ todo : Halted(w)' => ~ThreadAlive(w)
    BY <1>1, <1>2, <2>1 DEF Halted
  <2>3. QED
    BY <1>1, <2>1, <2>2 DEF QuietRest, ThreadAlive
<1>4. QED
  BY <1>1, <1>3, QuietParts, QuietPartsNext

\* Any other step of the manager's thread.
LEMMA ManagerKeepsQuiet ==
  ASSUME SharedTypeOK, PhaseOK, HandledOK, ThreadsHeld, EndsOK, QuietEnd,
         ~ManagerTimesOut, ManagerStep \/ ManagerIdleOut \/ ManagerKilled \/ KilledConsuming
  PROVE  QuietEnd'
<1>1. /\ ManagerStep \/ ManagerKilled \/ KilledConsuming
      /\ todo \in SUBSET Workers /\ currWorkers \in SUBSET Workers
      /\ phase \in {"loop", "drain", "halt"}
  BY DEF ManagerIdleOut, SharedTypeOK, TableTypeOK, ManagerTypeOK
<1>2. cpc' = cpc
  BY <1>1 DEF ManagerStep, ManagerKilled, KilledConsuming, ManagerBoot, ManagerCheck,
              BusDrained, ConsumeFails, ConsumeResponse, TakeResponse, ManagerDown, StopFlag,
              StopAlive, StopJoin, StopJoined, StopDone, StopUnchanged, RestartWorker,
              RestartReturns, IterationFails, CloseWorker, CloseDone, HaltWorker,
              ManagerEnd, clientVars
<1>3. CASE StopSteps
  <2>1. UNCHANGED clientVars
    BY <1>3 DEF StopSteps, StopFlag, StopAlive, StopJoin, StopJoined, StopDone,
                StopUnchanged
  <2>2. QED
    BY <1>3, <2>1, StopKeepsQuiet
<1>4. CASE ManagerKilled \/ IterationFails
  <2>1. /\ mpc' \in {"dead", "killed"}
        /\ UNCHANGED <<mRunning, phase, todo, todoSize, currWorkers>>
    BY <1>4 DEF ManagerKilled, IterationFails, Die, tableVars
  <2>2. phase = "halt" => QuietRest'
    BY <2>1, QuietParts DEF QuietRest, Halting
  <2>3. QED
    BY <1>2, <2>1, <2>2, QuietParts, QuietPartsNext
<1>5. CASE ConsumeFails \/ ConsumeResponse \/ KilledConsuming \/ RestartWorker
  <2>1. /\ mpc \in {"receive", "start"} /\ mpc' # "down"
        /\ UNCHANGED <<mRunning, phase>>
    BY <1>5 DEF ConsumeFails, ConsumeResponse, TakeResponse, KilledConsuming,
                RestartWorker, Die, AfterConsume
  <2>2. phase # "halt"
    BY <2>1 DEF PhaseOK
  <2>3. QED
    BY <1>2, <2>1, <2>2, QuietParts, QuietPartsNext
<1>6. CASE \/ ManagerBoot \/ ManagerCheck \/ ManagerDown \/ RestartReturns
           \/ BusDrained /\ phase = "loop"
  <2>1. phase # "halt" /\ phase' # "halt"
    BY <1>6 DEF BusDrained, ManagerBoot, ManagerCheck, ManagerDown, RestartReturns,
                PhaseOK
  <2>2. /\ ~mRunning' => cpc[Owner] \notin Submitting
        /\ (mpc' = "down" \/ phase' # "loop") => ~mRunning'
    <3>1. CASE BusDrained \/ RestartReturns
      BY <1>6, <3>1, QuietParts DEF BusDrained, RestartReturns, AfterConsume
    <3>2. CASE ManagerBoot
      BY <3>2 DEF ManagerBoot, EndsOK
    <3>3. CASE ManagerCheck
      BY <3>3, QuietParts DEF ManagerCheck
    <3>4. CASE ManagerDown
      BY <3>4, QuietParts DEF ManagerDown
    <3>5. QED
      BY <1>6, <3>1, <3>2, <3>3, <3>4
  <2>3. QED
    BY <1>2, <2>1, <2>2, QuietPartsNext
<1>7. CASE \/ BusDrained /\ phase # "loop"
           \/ CloseWorker \/ CloseDone \/ HaltWorker \/ ManagerEnd
  <2>1. UNCHANGED <<pc, mRunning, currWorkers>> /\ phase' = "halt"
    BY <1>7 DEF BusDrained, CloseWorker, CloseDone, HaltWorker, ManagerEnd, poolVars,
                flagVars, tableVars, PhaseOK
  <2>2. \A w \in Workers : ThreadAlive(w)' <=> ThreadAlive(w)
    BY <2>1 DEF ThreadAlive
  <2>3. ~mRunning /\ (phase = "halt" => QuietRest)
    BY <1>7, QuietParts DEF BusDrained, CloseWorker, CloseDone, HaltWorker, ManagerEnd,
                            PhaseOK
  <2>4. QuietRest'
    <3>1. CASE BusDrained /\ phase # "loop"
      BY <2>1, <3>1 DEF BusDrained, QuietRest, Halting
    <3>2. CASE CloseDone
      BY <2>1, <3>2 DEF CloseDone, QuietRest, Halting
    <3>3. CASE CloseWorker
      <4>1. QuietRest /\ mpc = "close"
        BY <2>3, <3>3 DEF CloseWorker, PhaseOK
      <4>2. mpc' = "close" /\ todo' \subseteq todo /\ todoSize' = todoSize
        BY <3>3 DEF CloseWorker
      <4>3. QED
        BY <2>1, <4>1, <4>2 DEF QuietRest, Halting
    <3>4. CASE ManagerEnd
      <4>1. QuietRest /\ mpc = "halt"
        BY <2>3, <3>4 DEF ManagerEnd, PhaseOK
      <4>2. \A w \in currWorkers \ todo : ~ThreadAlive(w)'
        BY <1>1, <2>2, <4>1 DEF QuietRest, Halting, Halted
      <4>3. QED
        BY <2>1, <3>4, <4>1, <4>2 DEF ManagerEnd, QuietRest
    <3>5. CASE HaltWorker
      <4>1. /\ QuietRest /\ mpc = "halt" /\ mpc' = "stop1" /\ todoSize' = todoSize
            /\ handled' = Min(todo) /\ todo' = todo \ {Min(todo)}
        BY <2>3, <3>5 DEF HaltWorker, PhaseOK
      <4>2. \A w \in currWorkers \ todo : ~ThreadAlive(w)'
        BY <1>1, <2>2, <4>1 DEF QuietRest, Halting, Halted
      <4>3. \A w \in currWorkers \ todo' : Halted(w)' => ~ThreadAlive(w)'
        BY <4>1, <4>2 DEF Halted
      <4>4. todo' \subseteq currWorkers /\ todoSize' = Cardinality(currWorkers)
        BY <4>1 DEF QuietRest
      <4>5. QED
        BY <2>1, <4>1, <4>3, <4>4 DEF QuietRest
    <3>6. QED
      BY <1>7, <3>1, <3>2, <3>3, <3>4, <3>5
  <2>5. QED
    BY <1>2, <2>1, <2>3, <2>4, QuietParts, QuietPartsNext
<1>8. QED
  BY <1>1, <1>3, <1>4, <1>5, <1>6, <1>7 DEF ManagerStep, StopSteps

=============================================================================

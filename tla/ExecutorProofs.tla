--------------------------- MODULE ExecutorProofs ---------------------------
(***************************************************************************)
(* Proofs about Executor: as long as calls do not overlap, no manager has  *)
(* two threads, none that serves tasks is put aside, and an executor that  *)
(* is not alive has stopped its managers; and, whatever calls overlap, the *)
(* specification that is chosen suits the request.                         *)
(***************************************************************************)
EXTENDS ExecutorInv, FiniteSetTheorems, WellFoundedInduction, TLAPS

-----------------------------------------------------------------------------
(***************************************************************************)
(* The call of a client.                                                   *)
(***************************************************************************)
\* What a step of a call does to the calls.
Moves(c) ==
  /\ DOMAIN call' = Clients /\ \A d \in Clients : d # c => call'[d] = call[d]
  /\ DOMAIN call'[c] = CallFields
  /\ call'[c].pc \in Labels /\ call'[c].task \in {call[c].task, NoTask}
  /\ call'[c].pc \in {"choice", "create"} =>
       /\ call[c].pc = "choice" /\ call'[c].pc = "create"
       /\ call'[c].task = call[c].task
  /\ call'[c].pc \in HasManager => call'[c].mgr \in 1 .. created'
  /\ call'[c].pc \in Submitting => call'[c].task \in Tasks

\* The fields of a client that is in no call.
LEMMA NoCallFacts ==
  /\ DOMAIN NoCall = CallFields /\ NoCall.pc = "idle" /\ NoCall.task = NoTask
  /\ NoCall.mgr = NoManager /\ NoCall.cleared = {}
  BY DEF NoCall, CallFields

\* The end of a call is a move.
LEMMA LeaveMoves ==
  ASSUME Typed, NEW c \in Clients, Leave(c)
  PROVE  Moves(c)
  BY NoCallFacts DEF Typed, CallsTyped, Leave, Moves, Labels, HasManager, Submitting

\* So is a step that changes the control point only.
LEMMA GotoMoves ==
  ASSUME Typed, NEW c \in Clients, NEW pc \in Labels \ {"choice", "create"}, Goto(c, pc),
         pc \in HasManager => call[c].pc \in HasManager,
         pc \in Submitting => call[c].pc \in Submitting, created' = created
  PROVE  Moves(c)
  BY DEF Typed, CallsTyped, Goto, Moves, CallFields

\* So is the choice of a manager for the mode.
LEMMA ChooseMoves ==
  ASSUME Typed, NEW c \in Clients, Choose(c)
  PROVE  Moves(c)
<1>1. PICK mode \in call[c].modes :
        call' = [call EXCEPT ![c] =
                  IF Found(mode)
                  THEN [NoCall EXCEPT !.pc = "mark", !.task = call[c].task,
                                      !.mgr = managers[mode]]
                  ELSE [NoCall EXCEPT !.pc = "create", !.task = call[c].task,
                                      !.mode = mode]]
  BY DEF Choose
<1>2. call[c].pc = "choice" /\ created' = created /\ DOMAIN call = Clients
      /\ call[c].task \in Tasks
  BY DEF Choose, At, execVars, tableVars, Typed, CallsTyped, Submitting
<1>3. CASE Found(mode)
  <2>1. managers[mode] \in 1 .. created
    BY <1>3 DEF Found, Typed, TablesTyped
  <2>2. QED
    BY <1>1, <1>2, <1>3, <2>1, NoCallFacts DEF Moves, CallFields, Labels, Submitting
<1>4. CASE ~Found(mode)
  BY <1>1, <1>2, <1>4, NoCallFacts DEF Moves, CallFields, Labels, HasManager, Submitting
<1>5. QED
  BY <1>3, <1>4

\* Every step inside a call is a move.
LEMMA StepMoves ==
  ASSUME Typed, NEW c \in Clients, ClientStep(c)
  PROVE  Moves(c)
<1>1. DOMAIN call = Clients /\ DOMAIN call[c] = CallFields /\ created \in Nat
      /\ (call[c].pc \in HasManager => call[c].mgr \in 1 .. created)
      /\ (call[c].pc \in Submitting => call[c].task \in Tasks)
  BY DEF Typed, CallsTyped, TablesTyped
<1>2. CASE \/ UnknownMode(c) \/ StartRaises(c) \/ LaunchRaises(c) \/ IterationFails(c)
           \/ SubmitRaises(c) \/ Queue(c) \/ StopRaises(c) \/ StopExpires(c)
           \/ ShutdownEnds(c)
  BY <1>2, LeaveMoves
     DEF UnknownMode, StartRaises, LaunchRaises, IterationFails, SubmitRaises, Queue,
         StopRaises, StopExpires, ShutdownEnds, Raise
<1>3. CASE \/ Mark(c) \/ StartAssigns(c) \/ Launch(c) \/ StartReturns(c) \/ NoClear(c)
           \/ ClearEnds(c) \/ Submit(c)
  <2>1. created' = created /\ call[c].pc \in HasManager \cap Submitting
    BY <1>3 DEF Mark, StartAssigns, Launch, StartReturns, NoClear, ClearEnds, Submit,
                execVars, tableVars, At, HasManager, Submitting
  <2>2. \E pc \in Labels \ {"choice", "create"} : Goto(c, pc)
    <3>1. CASE Mark(c)
      BY <3>1 DEF Mark, Labels
    <3>2. CASE ~Mark(c)
      BY <1>3, <3>2 DEF StartAssigns, Launch, StartReturns, NoClear, ClearEnds, Submit, Labels
    <3>3. QED
      BY <3>1, <3>2
  <2>3. QED
    BY <2>1, <2>2, GotoMoves
<1>4. CASE Choose(c)
  BY <1>4, ChooseMoves
<1>5. CASE Create(c)
  BY <1>1, <1>5 DEF Create, At, Moves, CallFields, Labels, Submitting
<1>6. CASE BeginClear(c) \/ ClearScan(c) \/ ClearScanned(c)
  <2>1. created' = created /\ call[c].pc \in {"clear", "scan"}
    BY <1>6 DEF BeginClear, ClearScan, ClearScanned, execVars, tableVars, At
  <2>2. /\ DOMAIN call' = Clients /\ \A d \in Clients : d # c => call'[d] = call[d]
        /\ DOMAIN call'[c] = CallFields /\ call'[c].task = call[c].task
        /\ call'[c].pc \in {"scan", "pop"} /\ call'[c].mgr = call[c].mgr
    <3>1. CASE BeginClear(c) \/ ClearScanned(c)
      BY <1>1, <3>1 DEF BeginClear, ClearScanned, CallFields
    <3>2. CASE ClearScan(c)
      <4>1. PICK mode \in call[c].todo \cap DOMAIN managers :
              call' = [call EXCEPT ![c].todo = @ \ {mode},
                                   ![c].cleared = IF obj[managers[mode]].running
                                                  THEN @ ELSE @ \cup {mode}]
        BY <3>2 DEF ClearScan
      <4>2. call[c].pc = "scan"
        BY <3>2 DEF ClearScan, At
      <4>3. QED
        BY <1>1, <4>1, <4>2 DEF CallFields
    <3>3. QED
      BY <1>6, <3>1, <3>2
  <2>3. QED
    BY <1>1, <2>1, <2>2 DEF Moves, Labels, HasManager, Submitting
<1>7. CASE ClearPop(c)
  <2>1. created' = created /\ call[c].pc = "pop"
    BY <1>7 DEF ClearPop, At
  <2>2. CASE Leave(c)
    BY <2>2, LeaveMoves
  <2>3. CASE \E mode : call' = [call EXCEPT ![c].cleared = @ \ {mode}]
    <3>1. /\ DOMAIN call' = Clients /\ \A d \in Clients : d # c => call'[d] = call[d]
          /\ DOMAIN call'[c] = CallFields /\ call'[c].task = call[c].task
          /\ call'[c].pc = "pop" /\ call'[c].mgr = call[c].mgr
      BY <1>1, <2>1, <2>3 DEF CallFields
    <3>2. QED
      BY <1>1, <2>1, <3>1 DEF Moves, Labels, HasManager, Submitting
  <2>4. QED
    BY <1>7, <2>2, <2>3 DEF ClearPop, Raise
<1>8. CASE \/ Visit(c) \/ StopDone(c) \/ StopFinds(c) \/ StopJoins(c) \/ JoinReturns(c)
           \/ Terminate(c)
  <2>1. created' = created
    BY <1>8 DEF Visit, StopDone, StopFinds, StopJoins, JoinReturns, Terminate, execVars,
                tableVars
  <2>2. /\ DOMAIN call' = Clients /\ \A d \in Clients : d # c => call'[d] = call[d]
        /\ DOMAIN call'[c] = CallFields /\ call'[c].task = call[c].task
        /\ call'[c].pc \in Halting \cup {"visit"}
        /\ call'[c].pc \in Halting => call'[c].mgr \in 1 .. created
    <3>1. CASE Visit(c)
      <4>1. PICK mode \in call[c].todo \cap DOMAIN managers :
              call' = [call EXCEPT ![c].pc = "stop", ![c].todo = @ \ {mode},
                                   ![c].mgr = managers[mode],
                                   ![c].seen = obj[managers[mode]].thread]
        BY <3>1 DEF Visit
      <4>2. managers[mode] \in 1 .. created
        BY DEF Typed, TablesTyped
      <4>3. QED
        BY <1>1, <4>1, <4>2 DEF CallFields, Halting
    <3>2. CASE StopDone(c) \/ Terminate(c)
      BY <1>1, <3>2 DEF StopDone, Terminate, Visited, CallFields, Halting
    <3>3. CASE StopFinds(c) \/ StopJoins(c) \/ JoinReturns(c)
      BY <1>1, <3>3 DEF StopFinds, StopJoins, JoinReturns, Goto, CallFields, At, HasManager,
                        Halting
    <3>4. QED
      BY <1>8, <3>1, <3>2, <3>3
  <2>3. QED
    BY <2>1, <2>2 DEF Moves, Labels, HasManager, Submitting, Halting
<1>9. QED
  BY <1>2, <1>3, <1>4, <1>5, <1>6, <1>7, <1>8 DEF ClientStep, SubmitStep, ShutdownStep

-----------------------------------------------------------------------------
(***************************************************************************)
(* The managers that a step changes.                                       *)
(***************************************************************************)
\* The numbers of the managers are those of the calls that may create one.
LEMMA CreatedBounded ==
  ASSUME Typed
  PROVE  created \in 0 .. MaxTasks /\ 1 .. created \subseteq Managers
<1>1. MaxTasks \in Nat /\ created \in Nat
  BY ExecutorAssumption DEF Typed, TablesTyped
<1>2. IsFiniteSet(Tasks) /\ Cardinality(Tasks) = MaxTasks
  <2>1. 1 \in Int /\ MaxTasks \in Int
    BY <1>1
  <2>2. IsFiniteSet(1 .. MaxTasks)
        /\ Cardinality(1 .. MaxTasks) = IF 1 > MaxTasks THEN 0 ELSE MaxTasks - 1 + 1
    BY <2>1, FS_Interval
  <2>3. QED
    BY <1>1, <2>2 DEF Tasks
<1>3. IsFiniteSet(Called) /\ Cardinality(Called) <= MaxTasks
  <2>1. Called \subseteq Tasks
    BY DEF Called
  <2>2. QED
    BY <1>2, <2>1, FS_Subset
<1>4. Cardinality(Undecided) \in Nat
  <2>1. Undecided \subseteq Tasks
    BY DEF Undecided
  <2>2. IsFiniteSet(Undecided)
    BY <1>2, <2>1, FS_Subset
  <2>3. QED
    BY <2>2, FS_CardinalityType
<1>5. created + Cardinality(Undecided) <= Cardinality(Called) /\ Cardinality(Called) \in Nat
  BY <1>3, FS_CardinalityType DEF Typed, ManagersCounted
<1>6. created <= MaxTasks
  BY <1>1, <1>3, <1>4, <1>5
<1>7. QED
  BY <1>1, <1>6 DEF Managers

\* Manager m alone may change, and it was created.
Touches(m) ==
  /\ m \in 1 .. created
  /\ obj' \in [Managers -> ManagerRecords]
  /\ \A n \in Managers : n # m => obj'[n] = obj[n]
  /\ obj'[m].thread \in 0 .. Len(obj'[m].threads)
  /\ obj'[m].doomed \subseteq DOMAIN obj'[m].threads

\* A record for a manager takes the place of another.
LEMMA TouchesOne ==
  ASSUME Typed, NEW m \in 1 .. created, NEW r \in ManagerRecords,
         r.thread \in 0 .. Len(r.threads), r.doomed \subseteq DOMAIN r.threads,
         obj' = [obj EXCEPT ![m] = r]
  PROVE  Touches(m) /\ obj'[m] = r
<1>1. m \in Managers
  BY CreatedBounded
<1>2. QED
  BY <1>1 DEF Touches, Typed, ManagersTyped

\* The types of what a manager object holds.
LEMMA ManagerFields ==
  ASSUME Typed, NEW m \in Managers
  PROVE  /\ obj[m] \in ManagerRecords
         /\ obj[m].running \in BOOLEAN /\ obj[m].inited \in BOOLEAN
         /\ obj[m].threads \in Seq(ThreadStates)
         /\ DOMAIN obj[m].threads = 1 .. Len(obj[m].threads)
         /\ Len(obj[m].threads) \in Nat
         /\ \A k \in DOMAIN obj[m].threads : obj[m].threads[k] \in ThreadStates
         /\ obj[m].thread \in 0 .. Len(obj[m].threads)
         /\ obj[m].doomed \subseteq DOMAIN obj[m].threads
         /\ obj[m].held \subseteq Tasks
  BY DEF Typed, ManagersTyped, ManagerRecords

\* A manager of which there is something to see was created.
LEMMA UsedIsCreated ==
  ASSUME Typed, NEW m \in Managers, obj[m].threads # <<>> \/ obj[m].held # {}
  PROVE  m \in 1 .. created
  BY CreatedBounded DEF Typed, TablesTyped, NewManager, Managers

\* Thread k of manager m comes to another place.
Turns(m, k, to) ==
  /\ Touches(m) /\ k \in DOMAIN obj[m].threads
  /\ obj'[m].threads = [obj[m].threads EXCEPT ![k] = to]
  /\ obj'[m].doomed = obj[m].doomed /\ obj'[m].held = obj[m].held

\* A thread of the manager that only changes its own state touches nothing else.
LEMMA ThreadTurns ==
  ASSUME Typed, NEW m \in Managers, obj[m].threads # <<>>,
         NEW r \in ManagerRecords, DOMAIN r.threads = DOMAIN obj[m].threads,
         r.thread \in {obj[m].thread, NoThread}, r.doomed = obj[m].doomed,
         obj' = [obj EXCEPT ![m] = r]
  PROVE  Touches(m) /\ obj'[m] = r
<1>1. m \in 1 .. created
  BY UsedIsCreated
<1>2. Len(r.threads) = Len(obj[m].threads)
  <2>1. r.threads \in Seq(ThreadStates) /\ obj[m].threads \in Seq(ThreadStates)
    BY ManagerFields DEF ManagerRecords
  <2>2. QED
    BY <2>1
<1>3. r.thread \in 0 .. Len(r.threads) /\ r.doomed \subseteq DOMAIN r.threads
  BY <1>2, ManagerFields DEF NoThread
<1>4. QED
  BY <1>1, <1>3, TouchesOne

\* A step of a thread of a manager, field by field.
Boots(m, k) ==
  /\ obj[m].threads[k] = "boot" /\ Turns(m, k, "loop")
  /\ obj'[m].running = TRUE /\ obj'[m].inited = TRUE /\ obj'[m].thread = obj[m].thread

LeavesLoop(m, k) ==
  /\ obj[m].threads[k] = "loop" /\ Turns(m, k, "down")
  /\ k \in obj[m].doomed \/ Terminating(m) => ~obj[m].running
  /\ obj'[m].running = obj[m].running /\ obj'[m].inited = obj[m].inited
  /\ obj'[m].thread = obj[m].thread

Clears(m, k) ==
  /\ obj[m].threads[k] = "down" /\ Turns(m, k, "drain")
  /\ obj'[m].running = FALSE /\ obj'[m].inited = obj[m].inited
  /\ obj'[m].thread = obj[m].thread

Ends(m, k) ==
  /\ obj[m].threads[k] = "drain" /\ Turns(m, k, "ended")
  /\ obj'[m].running = obj[m].running /\ obj'[m].inited = obj[m].inited
  /\ obj'[m].thread = NoThread

Dies(m, k) ==
  /\ k \in obj[m].doomed /\ Alive(m, k) /\ Turns(m, k, "killed")
  /\ obj'[m].running = obj[m].running /\ obj'[m].inited = obj[m].inited
  /\ obj'[m].thread = obj[m].thread

\* The five things a step of a manager's thread can be.
LEMMA ManagerSteps ==
  ASSUME Typed, NEW m \in Managers, NEW k \in DOMAIN obj[m].threads,
         ManagerStep(m, k) \/ IdleOut(m, k)
  PROVE  Boots(m, k) \/ LeavesLoop(m, k) \/ Clears(m, k) \/ Ends(m, k) \/ Dies(m, k)
<1>1. obj \in [Managers -> ManagerRecords] /\ obj[m] \in ManagerRecords
  BY DEF Typed, ManagersTyped
<1>2. \A to \in ThreadStates : [obj[m].threads EXCEPT ![k] = to] \in Seq(ThreadStates)
  BY ManagerFields
<1>3. obj[m].threads # <<>> /\ \A to \in ThreadStates :
        DOMAIN [obj[m].threads EXCEPT ![k] = to] = DOMAIN obj[m].threads
  OBVIOUS
<1>4. {"loop", "down", "drain", "ended", "killed"} \subseteq ThreadStates
  BY DEF ThreadStates
<1>5. CASE Boot(m, k)
  <2> DEFINE r == [obj[m] EXCEPT !.threads[k] = "loop", !.running = TRUE, !.inited = TRUE]
  <2>1. "loop" \in ThreadStates /\ [obj[m].threads EXCEPT ![k] = "loop"] \in Seq(ThreadStates)
    BY <1>2, <1>4
  <2>2. r \in ManagerRecords
    BY <1>1, <2>1 DEF ManagerRecords, NoThread
  <2>3. obj' = [obj EXCEPT ![m] = r]
    BY <1>1, <1>5 DEF Boot
  <2>4. /\ r.threads = [obj[m].threads EXCEPT ![k] = "loop"] /\ r.doomed = obj[m].doomed
        /\ r.held = obj[m].held /\ r.thread \in {obj[m].thread, NoThread}
    BY <1>1 DEF ManagerRecords
  <2>5. r.running = TRUE /\ r.inited = TRUE /\ r.thread = obj[m].thread
    BY <1>1 DEF ManagerRecords
  <2> HIDE DEF r
  <2>6. Touches(m) /\ obj'[m] = r
    BY <1>3, <2>1, <2>2, <2>3, <2>4, ThreadTurns
  <2>7. QED
    BY <1>5, <2>4, <2>5, <2>6 DEF Turns, Boot, Boots
<1>6. CASE SeesStop(m, k) \/ IdleOut(m, k)
  <2> DEFINE r == [obj[m] EXCEPT !.threads[k] = "down"]
  <2>1. "down" \in ThreadStates /\ [obj[m].threads EXCEPT ![k] = "down"] \in Seq(ThreadStates)
    BY <1>2, <1>4
  <2>2. r \in ManagerRecords
    BY <1>1, <2>1 DEF ManagerRecords, NoThread
  <2>3. obj' = [obj EXCEPT ![m] = r]
    BY <1>1, <1>6 DEF SeesStop, IdleOut, Goes
  <2>4. /\ r.threads = [obj[m].threads EXCEPT ![k] = "down"] /\ r.doomed = obj[m].doomed
        /\ r.held = obj[m].held /\ r.thread \in {obj[m].thread, NoThread}
    BY <1>1 DEF ManagerRecords
  <2>5. r.running = obj[m].running /\ r.inited = obj[m].inited /\ r.thread = obj[m].thread
    BY <1>1 DEF ManagerRecords
  <2> HIDE DEF r
  <2>6. Touches(m) /\ obj'[m] = r
    BY <1>3, <2>1, <2>2, <2>3, <2>4, ThreadTurns
  <2>7. QED
    BY <1>6, <2>4, <2>5, <2>6 DEF Turns, SeesStop, IdleOut, Goes, LeavesLoop
<1>7. CASE Down(m, k)
  <2> DEFINE r == [obj[m] EXCEPT !.threads[k] = "drain", !.running = FALSE]
  <2>1. "drain" \in ThreadStates /\ [obj[m].threads EXCEPT ![k] = "drain"] \in Seq(ThreadStates)
    BY <1>2, <1>4
  <2>2. r \in ManagerRecords
    BY <1>1, <2>1 DEF ManagerRecords, NoThread
  <2>3. obj' = [obj EXCEPT ![m] = r]
    BY <1>1, <1>7 DEF Down
  <2>4. /\ r.threads = [obj[m].threads EXCEPT ![k] = "drain"] /\ r.doomed = obj[m].doomed
        /\ r.held = obj[m].held /\ r.thread \in {obj[m].thread, NoThread}
    BY <1>1 DEF ManagerRecords
  <2>5. r.running = FALSE /\ r.inited = obj[m].inited /\ r.thread = obj[m].thread
    BY <1>1 DEF ManagerRecords
  <2> HIDE DEF r
  <2>6. Touches(m) /\ obj'[m] = r
    BY <1>3, <2>1, <2>2, <2>3, <2>4, ThreadTurns
  <2>7. QED
    BY <1>7, <2>4, <2>5, <2>6 DEF Turns, Down, Clears
<1>8. CASE End(m, k)
  <2> DEFINE r == [obj[m] EXCEPT !.threads[k] = "ended", !.thread = NoThread]
  <2>1. "ended" \in ThreadStates /\ [obj[m].threads EXCEPT ![k] = "ended"] \in Seq(ThreadStates)
    BY <1>2, <1>4
  <2>2. r \in ManagerRecords
    BY <1>1, <2>1 DEF ManagerRecords, NoThread
  <2>3. obj' = [obj EXCEPT ![m] = r]
    BY <1>1, <1>8 DEF End
  <2>4. /\ r.threads = [obj[m].threads EXCEPT ![k] = "ended"] /\ r.doomed = obj[m].doomed
        /\ r.held = obj[m].held /\ r.thread \in {obj[m].thread, NoThread}
    BY <1>1 DEF ManagerRecords
  <2>5. r.running = obj[m].running /\ r.inited = obj[m].inited /\ r.thread = NoThread
    BY <1>1 DEF ManagerRecords
  <2> HIDE DEF r
  <2>6. Touches(m) /\ obj'[m] = r
    BY <1>3, <2>1, <2>2, <2>3, <2>4, ThreadTurns
  <2>7. QED
    BY <1>8, <2>4, <2>5, <2>6 DEF Turns, End, Ends
<1>9. CASE Killed(m, k)
  <2> DEFINE r == [obj[m] EXCEPT !.threads[k] = "killed"]
  <2>1. "killed" \in ThreadStates /\ [obj[m].threads EXCEPT ![k] = "killed"] \in Seq(ThreadStates)
    BY <1>2, <1>4
  <2>2. r \in ManagerRecords
    BY <1>1, <2>1 DEF ManagerRecords, NoThread
  <2>3. obj' = [obj EXCEPT ![m] = r]
    BY <1>1, <1>9 DEF Killed
  <2>4. /\ r.threads = [obj[m].threads EXCEPT ![k] = "killed"] /\ r.doomed = obj[m].doomed
        /\ r.held = obj[m].held /\ r.thread \in {obj[m].thread, NoThread}
    BY <1>1 DEF ManagerRecords
  <2>5. r.running = obj[m].running /\ r.inited = obj[m].inited /\ r.thread = obj[m].thread
    BY <1>1 DEF ManagerRecords
  <2> HIDE DEF r
  <2>6. Touches(m) /\ obj'[m] = r
    BY <1>3, <2>1, <2>2, <2>3, <2>4, ThreadTurns
  <2>7. QED
    BY <1>9, <2>4, <2>5, <2>6 DEF Turns, Killed, Dies
<1>10. QED
  BY <1>5, <1>6, <1>7, <1>8, <1>9 DEF ManagerStep

\* The other steps that change a manager.
LEMMA HeldChanges ==
  ASSUME Typed, NEW m \in 1 .. created, NEW S \in SUBSET Tasks,
         obj' = [obj EXCEPT ![m].held = S]
  PROVE  Touches(m) /\ obj'[m] = [obj[m] EXCEPT !.held = S]
<1> DEFINE r == [obj[m] EXCEPT !.held = S]
<1>1. m \in Managers
  BY CreatedBounded
<1>2. obj[m] \in ManagerRecords /\ obj \in [Managers -> ManagerRecords]
  BY <1>1 DEF Typed, ManagersTyped
<1>3. r \in ManagerRecords /\ r.thread = obj[m].thread /\ r.threads = obj[m].threads
      /\ r.doomed = obj[m].doomed
  BY <1>2 DEF ManagerRecords
<1>4. obj' = [obj EXCEPT ![m] = r]
  BY <1>1, <1>2
<1>5. r.thread \in 0 .. Len(r.threads) /\ r.doomed \subseteq DOMAIN r.threads
  BY <1>1, <1>3, ManagerFields
<1> HIDE DEF r
<1>6. QED
  BY <1>3, <1>4, <1>5, TouchesOne DEF r

\* start(): the new thread, and its start.
Assigns(m) ==
  /\ Touches(m) /\ Startable(m)
  /\ obj'[m].threads = Append(obj[m].threads, "new")
  /\ obj'[m].thread = Len(obj[m].threads) + 1
  /\ obj'[m].running = obj[m].running /\ obj'[m].inited = obj[m].inited
  /\ obj'[m].doomed = obj[m].doomed

\* start() gives the manager a thread that has not begun.
LEMMA StartStep ==
  ASSUME Typed, NEW c \in Clients, StartAssigns(c)
  PROVE  Assigns(call[c].mgr)
<1> DEFINE m == call[c].mgr
           r == [obj[m] EXCEPT !.threads = Append(@, "new"), !.thread = Len(obj[m].threads) + 1]
<1>1. m \in 1 .. created
  BY DEF StartAssigns, At, Typed, CallsTyped, HasManager
<1>2. m \in Managers
  BY <1>1, CreatedBounded
<1>3. obj \in [Managers -> ManagerRecords] /\ obj[m] \in ManagerRecords
  BY <1>2 DEF Typed, ManagersTyped
<1>4. "new" \in ThreadStates /\ obj[m].threads \in Seq(ThreadStates)
  BY <1>2, ManagerFields DEF ThreadStates
<1>5. /\ Append(obj[m].threads, "new") \in Seq(ThreadStates)
      /\ Len(Append(obj[m].threads, "new")) = Len(obj[m].threads) + 1
      /\ Len(obj[m].threads) \in Nat
      /\ DOMAIN Append(obj[m].threads, "new") = 1 .. Len(obj[m].threads) + 1
  BY <1>4
<1>6. /\ r.threads = Append(obj[m].threads, "new") /\ r.thread = Len(obj[m].threads) + 1
      /\ r.running = obj[m].running /\ r.inited = obj[m].inited /\ r.doomed = obj[m].doomed
  BY <1>3 DEF ManagerRecords
<1>7. r \in ManagerRecords
  <2>1. Len(obj[m].threads) + 1 \in Nat
    BY <1>5
  <2>2. [obj[m] EXCEPT !.threads = Append(@, "new")] \in ManagerRecords
    BY <1>3, <1>5 DEF ManagerRecords
  <2>3. QED
    BY <2>1, <2>2 DEF ManagerRecords
<1>8. obj' = [obj EXCEPT ![m] = r]
  BY <1>2, <1>3 DEF StartAssigns
<1>9. DOMAIN obj[m].threads = 1 .. Len(obj[m].threads) /\ obj[m].doomed \subseteq DOMAIN obj[m].threads
  BY <1>2, ManagerFields
<1> HIDE DEF r
<1>10. r.thread \in 0 .. Len(r.threads)
  BY <1>5, <1>6
<1>11. r.doomed \subseteq DOMAIN r.threads
  BY <1>5, <1>6, <1>9
<1>12. Touches(m) /\ obj'[m] = r
  BY <1>1, <1>7, <1>8, <1>10, <1>11, TouchesOne
<1>13. Startable(m)
  BY DEF StartAssigns
<1>14. QED
  BY <1>6, <1>12, <1>13 DEF Assigns

\* Thread.start() lets that thread begin.
LEMMA LaunchStep ==
  ASSUME Typed, NEW c \in Clients, Launch(c)
  PROVE  LET m == call[c].mgr
         IN  /\ obj[m].threads[obj[m].thread] = "new" /\ Turns(m, obj[m].thread, "boot")
             /\ obj'[m].running = obj[m].running /\ obj'[m].inited = obj[m].inited
             /\ obj'[m].thread = obj[m].thread
<1> DEFINE m == call[c].mgr
           k == obj[m].thread
           r == [obj[m] EXCEPT !.threads[k] = "boot"]
<1>1. m \in 1 .. created
  BY DEF Launch, At, Typed, CallsTyped, HasManager
<1>2. m \in Managers
  BY <1>1, CreatedBounded
<1>3. obj \in [Managers -> ManagerRecords] /\ obj[m] \in ManagerRecords
  BY <1>2 DEF Typed, ManagersTyped
<1>4. k \in DOMAIN obj[m].threads /\ obj[m].threads[k] = "new"
  <2>1. k # NoThread /\ obj[m].threads[k] = "new"
    BY DEF Launch, Launchable
  <2>2. QED
    BY <1>2, <2>1, ManagerFields DEF NoThread
<1>5. "boot" \in ThreadStates /\ obj[m].threads \in Seq(ThreadStates)
  BY <1>2, ManagerFields DEF ThreadStates
<1>6. /\ [obj[m].threads EXCEPT ![k] = "boot"] \in Seq(ThreadStates)
      /\ DOMAIN [obj[m].threads EXCEPT ![k] = "boot"] = DOMAIN obj[m].threads
  BY <1>4, <1>5
<1>7. /\ r.threads = [obj[m].threads EXCEPT ![k] = "boot"] /\ r.thread = k
      /\ r.running = obj[m].running /\ r.inited = obj[m].inited /\ r.doomed = obj[m].doomed
      /\ r.held = obj[m].held
  BY <1>3 DEF ManagerRecords
<1>8. r \in ManagerRecords
  BY <1>3, <1>6 DEF ManagerRecords
<1>9. obj' = [obj EXCEPT ![m] = r]
  BY <1>2, <1>3 DEF Launch
<1>10. obj[m].threads # <<>>
  BY <1>4
<1> HIDE DEF r
<1>11. Touches(m) /\ obj'[m] = r
  BY <1>2, <1>6, <1>7, <1>8, <1>9, <1>10, ThreadTurns
<1>12. QED
  BY <1>4, <1>7, <1>11 DEF Turns

\* stop() and terminate(): the flags, and the threads that are hit.
Flags(m, running, thread, D) ==
  /\ Touches(m)
  /\ obj'[m].threads = obj[m].threads /\ obj'[m].running = running
  /\ obj'[m].inited = obj[m].inited /\ obj'[m].thread = thread /\ obj'[m].doomed = D

\* stop() and terminate() write `running`, `_thread` and the kills.
LEMMA FlagFields ==
  ASSUME Typed, NEW m \in 1 .. created, NEW running \in BOOLEAN,
         NEW thread \in {obj[m].thread, NoThread},
         NEW D \in SUBSET DOMAIN obj[m].threads,
         obj' = [obj EXCEPT ![m].running = running, ![m].thread = thread, ![m].doomed = D]
  PROVE  Flags(m, running, thread, D)
<1> DEFINE r == [obj[m] EXCEPT !.running = running, !.thread = thread, !.doomed = D]
<1>1. m \in Managers
  BY CreatedBounded
<1>2. obj[m] \in ManagerRecords /\ obj \in [Managers -> ManagerRecords]
  BY <1>1 DEF Typed, ManagersTyped
<1>3. D \subseteq Nat
  BY <1>1, ManagerFields
<1>4. /\ r.thread = thread /\ r.threads = obj[m].threads /\ r.doomed = D
      /\ r.running = running /\ r.inited = obj[m].inited
  BY <1>2 DEF ManagerRecords
<1>5. thread \in Nat /\ thread \in 0 .. Len(obj[m].threads)
  BY <1>1, ManagerFields DEF NoThread
<1>6. r \in ManagerRecords
  BY <1>2, <1>3, <1>5 DEF ManagerRecords
<1>7. obj' = [obj EXCEPT ![m] = r]
  BY <1>1, <1>2
<1> HIDE DEF r
<1>8. r.thread \in 0 .. Len(r.threads) /\ r.doomed \subseteq DOMAIN r.threads
  BY <1>4, <1>5
<1>9. Touches(m) /\ obj'[m] = r
  BY <1>6, <1>7, <1>8, TouchesOne
<1>10. QED
  BY <1>4, <1>9 DEF Flags

\* shutdown() clears `running` of the next manager and looks at its thread.
LEMMA VisitStep ==
  ASSUME Typed, NEW c \in Clients, Visit(c)
  PROVE  \E mode \in call[c].todo \cap DOMAIN managers :
           LET m == managers[mode]
           IN  /\ Flags(m, FALSE, obj[m].thread, obj[m].doomed)
               /\ call' = [call EXCEPT ![c].pc = "stop", ![c].todo = @ \ {mode},
                                       ![c].mgr = m, ![c].seen = obj[m].thread]
<1>1. PICK mode \in call[c].todo \cap DOMAIN managers :
        /\ obj' = [obj EXCEPT ![managers[mode]].running = FALSE]
        /\ call' = [call EXCEPT ![c].pc = "stop", ![c].todo = @ \ {mode},
                                ![c].mgr = managers[mode],
                                ![c].seen = obj[managers[mode]].thread]
  BY DEF Visit
<1> DEFINE m == managers[mode]
<1>2. m \in 1 .. created /\ m \in Managers
  BY CreatedBounded DEF Typed, TablesTyped
<1>3. obj \in [Managers -> ManagerRecords] /\ obj[m] \in ManagerRecords
      /\ obj[m].doomed \in SUBSET DOMAIN obj[m].threads
  BY <1>2 DEF Typed, ManagersTyped
<1>4. obj' = [obj EXCEPT ![m].running = FALSE, ![m].thread = obj[m].thread,
                         ![m].doomed = obj[m].doomed]
  BY <1>1, <1>2, <1>3 DEF ManagerRecords
<1>5. FALSE \in BOOLEAN
  OBVIOUS
<1>6. Flags(m, FALSE, obj[m].thread, obj[m].doomed)
  BY <1>2, <1>3, <1>4, <1>5, FlagFields
<1>7. QED
  BY <1>1, <1>6

\* stop() and terminate() forget a thread that does not live.
LEMMA StoppedStep ==
  ASSUME Typed, NEW c \in Clients, StopDone(c)
  PROVE  LET m == call[c].mgr IN Flags(m, obj[m].running, NoThread, obj[m].doomed)
<1> DEFINE m == call[c].mgr
<1>1. m \in 1 .. created
  BY DEF StopDone, Testing, Typed, CallsTyped, HasManager
<1>2. m \in Managers
  BY <1>1, CreatedBounded
<1>3. obj \in [Managers -> ManagerRecords] /\ obj[m] \in ManagerRecords
      /\ obj[m].running \in BOOLEAN /\ obj[m].doomed \in SUBSET DOMAIN obj[m].threads
  BY <1>2 DEF Typed, ManagersTyped, ManagerRecords
<1>4. obj' = [obj EXCEPT ![m].thread = NoThread]
  BY DEF StopDone
<1>5. obj' = [obj EXCEPT ![m].running = obj[m].running, ![m].thread = NoThread,
                         ![m].doomed = obj[m].doomed]
  BY <1>2, <1>3, <1>4 DEF ManagerRecords
<1>6. Flags(m, obj[m].running, NoThread, obj[m].doomed)
  BY <1>1, <1>3, <1>5, FlagFields
<1>7. QED
  BY <1>6

\* terminate() kills the thread the manager has, and forgets it.
LEMMA TerminateStep ==
  ASSUME Typed, NEW c \in Clients, Terminate(c)
  PROVE  LET m == call[c].mgr
         IN  Flags(m, obj[m].running, NoThread, obj[m].doomed \cup {obj[m].thread})
<1> DEFINE m == call[c].mgr
           D == obj[m].doomed \cup {obj[m].thread}
<1>1. m \in 1 .. created
  BY DEF Terminate, At, Typed, CallsTyped, HasManager
<1>2. m \in Managers
  BY <1>1, CreatedBounded
<1>3. obj \in [Managers -> ManagerRecords] /\ obj[m] \in ManagerRecords
      /\ obj[m].running \in BOOLEAN
  BY <1>2 DEF Typed, ManagersTyped, ManagerRecords
<1>4. D \in SUBSET DOMAIN obj[m].threads
  BY <1>2, ManagerFields DEF Terminate, Living, Thread, NoThread
<1>5. obj' = [obj EXCEPT ![m].doomed = D, ![m].thread = NoThread]
  BY <1>3 DEF Terminate, Thread
<1>6. obj' = [obj EXCEPT ![m].running = obj[m].running, ![m].thread = NoThread,
                         ![m].doomed = D]
  BY <1>2, <1>3, <1>5 DEF ManagerRecords
<1> HIDE DEF D
<1>7. Flags(m, obj[m].running, NoThread, D)
  BY <1>1, <1>3, <1>4, <1>6, FlagFields
<1>8. QED
  BY <1>7 DEF D

-----------------------------------------------------------------------------
(***************************************************************************)
(* The types.                                                              *)
(***************************************************************************)
LEMMA ObjSteps ==
  ASSUME Typed, Next
  PROVE  obj' = obj \/ \E m \in 1 .. created : Touches(m)
<1>1. ASSUME NEW c \in Clients, SubmitStep(c)
      PROVE  obj' = obj \/ \E m \in 1 .. created : Touches(m)
  <2>1. CASE StartAssigns(c)
    BY <2>1, StartStep DEF Assigns, Touches
  <2>2. CASE Launch(c)
    BY <2>2, LaunchStep DEF Turns, Touches
  <2>3. CASE Queue(c)
    <3>1. call[c].mgr \in 1 .. created /\ call[c].mgr \in Managers
      BY <2>3, CreatedBounded DEF Queue, At, Typed, CallsTyped, HasManager
    <3>2. call[c].task \in Tasks
      BY <2>3 DEF Queue, At, Typed, CallsTyped, Submitting, Labels
    <3>3. obj[call[c].mgr].held \cup {call[c].task} \in SUBSET Tasks
      BY <3>1, <3>2, ManagerFields
    <3>4. obj' = [obj EXCEPT ![call[c].mgr].held = obj[call[c].mgr].held \cup {call[c].task}]
      BY <2>3 DEF Queue
    <3>5. QED
      BY <3>1, <3>3, <3>4, HeldChanges
  <2>4. CASE /\ ~StartAssigns(c) /\ ~Launch(c) /\ ~Queue(c)
    BY <1>1, <2>4
       DEF SubmitStep, Choose, UnknownMode, Create, Mark, StartRaises, LaunchRaises,
           StartReturns, NoClear, BeginClear, ClearScan, ClearScanned, ClearPop, ClearEnds,
           SubmitRaises, Submit
  <2>5. QED
    BY <2>1, <2>2, <2>3, <2>4
<1>2. ASSUME NEW c \in Clients, ShutdownStep(c)
      PROVE  obj' = obj \/ \E m \in 1 .. created : Touches(m)
  <2>1. CASE Visit(c)
    BY <2>1, VisitStep DEF Flags, Touches
  <2>2. CASE StopDone(c)
    BY <2>2, StoppedStep DEF Flags, Touches
  <2>3. CASE Terminate(c)
    BY <2>3, TerminateStep DEF Flags, Touches
  <2>4. CASE \/ StopRaises(c) \/ StopFinds(c) \/ StopJoins(c) \/ JoinReturns(c)
             \/ StopExpires(c) \/ ShutdownEnds(c)
    BY <2>4 DEF StopRaises, StopFinds, StopJoins, JoinReturns, StopExpires, ShutdownEnds
  <2>5. QED
    BY <1>2, <2>1, <2>2, <2>3, <2>4 DEF ShutdownStep
<1>3. ASSUME NEW m \in Managers, RunManager(m) \/ ManagerGivesUp(m)
      PROVE  Touches(m) /\ m \in 1 .. created
  <2>1. PICK k \in DOMAIN obj[m].threads : ManagerStep(m, k) \/ IdleOut(m, k)
    BY <1>3 DEF RunManager, ManagerGivesUp
  <2>2. QED
    BY <2>1, ManagerSteps
       DEF Boots, LeavesLoop, Clears, Ends, Dies, Turns, Touches
<1>4. ASSUME NEW m \in Managers, RunWorkers(m)
      PROVE  Touches(m) /\ m \in 1 .. created
  <2>1. PICK t \in obj[m].held : obj' = [obj EXCEPT ![m].held = obj[m].held \ {t}]
    BY <1>4 DEF RunWorkers, Complete
  <2>2. m \in 1 .. created
    BY <2>1, UsedIsCreated
  <2>3. obj[m].held \ {t} \in SUBSET Tasks
    BY ManagerFields
  <2>4. QED
    BY <2>1, <2>2, <2>3, HeldChanges
<1>5. CASE Finished \/ (\E c \in Clients : IterationFails(c))
           \/ (\E c \in Submitters, t \in Tasks : SubmitTask(c, t))
           \/ (\E wait \in BOOLEAN : Shutdown(Owner, wait))
  BY <1>5 DEF Finished, vars, IterationFails, SubmitTask, Shutdown
<1>6. QED
  BY <1>1, <1>2, <1>3, <1>4, <1>5 DEF Next, ClientStep

\* The tables change when a manager is created, or put aside.
LEMMA TableSteps ==
  ASSUME Typed, Next
  PROVE  /\ created' \in {created, created + 1}
         /\ \A mode \in DOMAIN managers' : managers'[mode] \in 1 .. created'
         /\ alive' \in BOOLEAN /\ overlapped' \in BOOLEAN
<1>1. /\ created \in Nat /\ alive \in BOOLEAN /\ overlapped \in BOOLEAN
      /\ \A mode \in DOMAIN managers : managers[mode] \in 1 .. created
  BY DEF Typed, TablesTyped
<1>2. ASSUME NEW c \in Clients, Create(c)
      PROVE  /\ created' = created + 1 /\ alive' = alive /\ overlapped' = overlapped
             /\ \A mode \in DOMAIN managers' : managers'[mode] \in 1 .. created'
  <2>1. /\ created' = created + 1 /\ alive' = alive /\ overlapped' = overlapped
        /\ managers' = [mode \in DOMAIN managers \cup {call[c].mode} |->
                          IF mode = call[c].mode THEN created' ELSE managers[mode]]
    BY <1>2 DEF Create, history
  <2>2. QED
    BY <1>1, <2>1
<1>3. ASSUME NEW c \in Clients, ClearPop(c)
      PROVE  /\ created' = created /\ alive' = alive /\ overlapped' = overlapped
             /\ \A mode \in DOMAIN managers' : managers'[mode] \in 1 .. created'
  BY <1>1, <1>3 DEF ClearPop, history
<1>4. ASSUME NEW c \in Clients, SubmitStep(c), ~Create(c), ~ClearPop(c)
      PROVE  created' = created /\ managers' = managers /\ alive' \in {alive, TRUE}
             /\ overlapped' = overlapped
  BY <1>4
     DEF SubmitStep, Choose, UnknownMode, Mark, StartRaises, StartAssigns, LaunchRaises,
         Launch, StartReturns, NoClear, BeginClear, ClearScan, ClearScanned, ClearEnds,
         SubmitRaises, Submit, Queue, execVars, tableVars, history
<1>5. ASSUME NEW c \in Clients, ShutdownStep(c) \/ IterationFails(c)
      PROVE  created' = created /\ managers' = managers /\ alive' \in {alive, FALSE}
             /\ overlapped' = overlapped
  BY <1>5
     DEF ShutdownStep, Visit, StopDone, StopRaises, StopFinds, StopJoins, JoinReturns, StopExpires,
         Terminate, ShutdownEnds, IterationFails, execVars, tableVars, history
<1>6. ASSUME NEW m \in Managers, RunManager(m) \/ ManagerGivesUp(m) \/ RunWorkers(m)
      PROVE  created' = created /\ managers' = managers /\ alive' = alive
             /\ overlapped' = overlapped
  BY <1>6 DEF RunManager, ManagerGivesUp, RunWorkers, execVars, tableVars, history
<1>7. CASE Finished
  BY <1>1, <1>7 DEF Finished, vars, execVars, tableVars, history
<1>8. CASE (\E c \in Submitters, t \in Tasks : SubmitTask(c, t))
           \/ (\E wait \in BOOLEAN : Shutdown(Owner, wait))
  <2>1. created' = created /\ managers' = managers /\ alive' = alive /\ overlapped' \in BOOLEAN
    BY <1>1, <1>8 DEF SubmitTask, Shutdown, Overlap, execVars, tableVars
  <2>2. QED
    BY <1>1, <2>1
<1>9. QED
  BY <1>1, <1>2, <1>3, <1>4, <1>5, <1>6, <1>7, <1>8 DEF Next, ClientStep

\* A call that has begun goes on, or has ended somehow.
LEMMA FutureSteps ==
  ASSUME Typed, Next
  PROVE  /\ future' \in [Tasks -> FutureStates]
         /\ \A t \in Tasks : future[t] # "unsubmitted" => future'[t] # "unsubmitted"
<1> DEFINE Same == future' = future
           Becomes(t, s) == future' = [future EXCEPT ![t] = s]
<1>1. /\ future \in [Tasks -> FutureStates]
      /\ {"raised", "called", "pending", "resolved"} \subseteq FutureStates
  BY DEF Typed, TablesTyped, FutureStates
<1>2. ASSUME NEW t, Becomes(t, "raised") \/ Becomes(t, "called") \/ Becomes(t, "pending")
                    \/ Becomes(t, "resolved")
      PROVE  /\ future' \in [Tasks -> FutureStates]
             /\ \A u \in Tasks : future[u] # "unsubmitted" => future'[u] # "unsubmitted"
  <2>1. CASE Becomes(t, "raised")
    BY <1>1, <2>1
  <2>2. CASE Becomes(t, "called")
    BY <1>1, <2>2
  <2>3. CASE Becomes(t, "pending")
    BY <1>1, <2>3
  <2>4. CASE Becomes(t, "resolved")
    BY <1>1, <2>4
  <2>5. QED
    BY <1>2, <2>1, <2>2, <2>3, <2>4
<1>3. ASSUME NEW c \in Clients, Raise(c)
      PROVE  Same \/ \E t : Becomes(t, "raised")
  BY <1>3 DEF Raise
<1>4. ASSUME NEW c \in Clients, ClientStep(c)
      PROVE  Same \/ (\E t : Becomes(t, "raised")) \/ (\E t : Becomes(t, "pending"))
  <2>1. CASE Queue(c)
    BY <2>1 DEF Queue
  <2>2. CASE Raise(c)
    BY <1>3, <2>2
  <2>3. CASE ~Queue(c) /\ ~Raise(c)
    BY <1>4, <2>3
       DEF ClientStep, SubmitStep, ShutdownStep, Choose, UnknownMode, Create, Mark,
           StartRaises, StartAssigns, LaunchRaises, Launch, StartReturns, NoClear, BeginClear,
           ClearScan, ClearScanned, ClearPop, ClearEnds, SubmitRaises, Submit, Visit, StopDone,
           StopRaises, StopFinds, StopJoins, JoinReturns, StopExpires, Terminate, ShutdownEnds,
           IterationFails
  <2>4. QED
    BY <2>1, <2>2, <2>3
<1>5. ASSUME NEW m \in Managers, RunManager(m) \/ ManagerGivesUp(m)
      PROVE  Same
  BY <1>5 DEF RunManager, ManagerGivesUp, ManagerStep, Boot, SeesStop, Down, End, Killed,
              IdleOut
<1>6. ASSUME NEW m \in Managers, RunWorkers(m)
      PROVE  \E t : Becomes(t, "resolved")
  BY <1>6 DEF RunWorkers, Complete
<1>7. ASSUME NEW c \in Clients, NEW t \in Tasks, SubmitTask(c, t)
      PROVE  Becomes(t, "raised") \/ Becomes(t, "called")
  BY <1>7 DEF SubmitTask
<1>8. CASE Finished \/ \E wait \in BOOLEAN : Shutdown(Owner, wait)
  BY <1>1, <1>8 DEF Finished, Shutdown, vars
<1>9. Submitters \subseteq Clients
  BY ExecutorAssumption
<1>10. Same \/ \E t : Becomes(t, "raised") \/ Becomes(t, "called") \/ Becomes(t, "pending")
                      \/ Becomes(t, "resolved")
  <2>1. CASE \E c \in Clients : ClientStep(c)
    BY <1>4, <2>1
  <2>2. CASE \E c \in Submitters, t \in Tasks : SubmitTask(c, t)
    BY <1>7, <1>9, <2>2
  <2>3. CASE \E m \in Managers : RunManager(m) \/ ManagerGivesUp(m) \/ RunWorkers(m)
    BY <1>5, <1>6, <2>3
  <2>4. CASE Finished \/ \E wait \in BOOLEAN : Shutdown(Owner, wait)
    BY <2>4 DEF Finished, Shutdown, vars
  <2>5. QED
    BY <2>1, <2>2, <2>3, <2>4 DEF Next
<1> HIDE DEF Becomes
<1>11. CASE Same
  BY <1>1, <1>11
<1>12. QED
  BY <1>2, <1>10, <1>11

\* A call begins.
Begins(c) ==
  /\ call[c].pc = "idle" /\ DOMAIN call' = Clients
  /\ \A d \in Clients : d # c => call'[d] = call[d]
  /\ DOMAIN call'[c] = CallFields /\ call'[c].cleared = {}

\* submit() of the executor begins with the choice of a mode.
LEMMA SubmitBegins ==
  ASSUME Typed, NEW c \in Clients, NEW t \in Tasks, SubmitTask(c, t)
  PROVE  /\ created' = created /\ future[t] = "unsubmitted"
         /\ \/ call' = call
            \/ /\ Begins(c) /\ call'[c].pc = "choice" /\ call'[c].task = t
               /\ future' = [future EXCEPT ![t] = "called"]
<1>1. created' = created /\ call[c].pc = "idle"
  BY DEF SubmitTask, execVars, tableVars, At
<1>2. future[t] = "unsubmitted"
  <2>1. t \in {u \in Tasks : future[u] = "unsubmitted"}
    <3>1. t \in t .. MaxTasks
      BY ExecutorAssumption DEF Tasks
    <3>2. QED
      BY <3>1 DEF SubmitTask
  <2>2. QED
    BY <2>1
<1>3. \/ call' = call
      \/ /\ future' = [future EXCEPT ![t] = "called"]
         /\ \E ask \in Asks : call' = [call EXCEPT ![c] =
              [NoCall EXCEPT !.pc = "choice", !.task = t, !.ask = ask,
                             !.modes = GuessMode(repo, ask)]]
  BY DEF SubmitTask
<1>4. ASSUME NEW ask, NEW modes,
             call' = [call EXCEPT ![c] =
               [NoCall EXCEPT !.pc = "choice", !.task = t, !.ask = ask, !.modes = modes]]
      PROVE  Begins(c) /\ call'[c].pc = "choice" /\ call'[c].task = t
  <2>1. DOMAIN call = Clients
    BY DEF Typed, CallsTyped
  <2>2. QED
    BY <1>1, <1>4, <2>1, NoCallFacts DEF Begins, CallFields
<1>5. QED
  BY <1>1, <1>2, <1>3, <1>4

\* shutdown() begins with all the managers there are.
LEMMA ShutdownBegins ==
  ASSUME Typed, NEW c \in Clients, NEW wait, Shutdown(c, wait)
  PROVE  /\ Begins(c) /\ call'[c].pc = "visit" /\ call'[c].task = NoTask
         /\ call'[c].todo = DOMAIN managers /\ call'[c].wait = wait
         /\ created' = created /\ future' = future
<1>1. call[c].pc = "idle" /\ DOMAIN call = Clients
  BY DEF Shutdown, At, Typed, CallsTyped
<1>2. call' = [call EXCEPT ![c] =
                [NoCall EXCEPT !.pc = "visit", !.wait = wait, !.todo = DOMAIN managers,
                               !.size = Cardinality(DOMAIN managers)]]
      /\ created' = created /\ future' = future
  BY DEF Shutdown, execVars, tableVars
<1> DEFINE size == Cardinality(DOMAIN managers)
<1> HIDE DEF size
<1>3. call' = [call EXCEPT ![c] =
                [NoCall EXCEPT !.pc = "visit", !.wait = wait, !.todo = DOMAIN managers,
                               !.size = size]]
  BY <1>2 DEF size
<1>4. QED
  BY <1>1, <1>2, <1>3, NoCallFacts DEF Begins, CallFields

\* What a step may do to the calls in progress.
LEMMA CallSteps ==
  ASSUME Typed, Next
  PROVE  \/ call' = call /\ created' = created
         \/ \E c \in Clients : ClientStep(c) /\ Moves(c)
         \/ \E c \in Clients, t \in Tasks :
              /\ Begins(c) /\ call'[c].pc = "choice" /\ call'[c].task = t
              /\ future[t] = "unsubmitted" /\ future' = [future EXCEPT ![t] = "called"]
              /\ created' = created
         \/ \E c \in Clients : /\ Begins(c) /\ call'[c].pc = "visit"
                               /\ call'[c].task = NoTask /\ created' = created
<1>1. Submitters \subseteq Clients /\ Owner \in Clients
  BY ExecutorAssumption
<1>2. CASE \E c \in Clients : ClientStep(c)
  BY <1>2, StepMoves
<1>3. CASE \E c \in Submitters, t \in Tasks : SubmitTask(c, t)
  BY <1>1, <1>3, SubmitBegins
<1>4. CASE \E wait \in BOOLEAN : Shutdown(Owner, wait)
  BY <1>1, <1>4, ShutdownBegins
<1>5. CASE \E m \in Managers : RunManager(m) \/ ManagerGivesUp(m) \/ RunWorkers(m)
  BY <1>5 DEF RunManager, ManagerGivesUp, RunWorkers, execVars, tableVars
<1>6. CASE Finished
  BY <1>6 DEF Finished, vars, execVars, tableVars
<1>7. QED
  BY <1>2, <1>3, <1>4, <1>5, <1>6 DEF Next

\* Every step keeps the types of the calls.
LEMMA CallsTypedStep ==
  ASSUME Typed, Next
  PROVE  CallsTyped'
<1>1. /\ DOMAIN call = Clients /\ created \in Nat /\ created' \in {created, created + 1}
      /\ \A c \in Clients :
           /\ DOMAIN call[c] = CallFields
           /\ call[c].pc \in Labels /\ call[c].task \in 0 .. MaxTasks
           /\ call[c].pc \in HasManager => call[c].mgr \in 1 .. created
           /\ call[c].pc \in Submitting => call[c].task \in Tasks
  BY TableSteps DEF Typed, CallsTyped, TablesTyped
<1>2. 1 .. created \subseteq 1 .. created' /\ NoTask \in 0 .. MaxTasks /\ Tasks \subseteq 0 .. MaxTasks
  BY <1>1, ExecutorAssumption DEF NoTask, Tasks
<1>3. CASE call' = call
  BY <1>1, <1>2, <1>3 DEF CallsTyped
<1>4. ASSUME NEW c \in Clients, Moves(c)
      PROVE  CallsTyped'
  BY <1>1, <1>2, <1>4 DEF CallsTyped, Moves
<1>5. ASSUME NEW c \in Clients, Begins(c),
             \/ call'[c].pc = "choice" /\ call'[c].task \in Tasks
             \/ call'[c].pc = "visit" /\ call'[c].task = NoTask
      PROVE  CallsTyped'
  <2>1. /\ DOMAIN call' = Clients
        /\ \A d \in Clients : d # c => call'[d] = call[d]
        /\ DOMAIN call'[c] = CallFields /\ call'[c].pc \in {"choice", "visit"}
        /\ call'[c].task \in 0 .. MaxTasks
        /\ call'[c].pc = "choice" => call'[c].task \in Tasks
    BY <1>1, <1>2, <1>5 DEF Begins
  <2>2. \A pc \in {"choice", "visit"} :
          /\ pc \in Labels /\ pc \notin HasManager
          /\ pc \in Submitting => pc = "choice"
    BY DEF Labels, HasManager, Submitting
  <2>3. CallsTyped' <=>
          /\ DOMAIN call' = Clients
          /\ \A d \in Clients :
               /\ DOMAIN call'[d] = CallFields
               /\ call'[d].pc \in Labels /\ call'[d].task \in 0 .. MaxTasks
               /\ call'[d].pc \in HasManager => call'[d].mgr \in 1 .. created'
               /\ call'[d].pc \in Submitting => call'[d].task \in Tasks
    BY DEF CallsTyped
  <2>4. \A d \in Clients \ {c} :
          /\ DOMAIN call'[d] = CallFields
          /\ call'[d].pc \in Labels /\ call'[d].task \in 0 .. MaxTasks
          /\ call'[d].pc \in HasManager => call'[d].mgr \in 1 .. created'
          /\ call'[d].pc \in Submitting => call'[d].task \in Tasks
    <3>1. TAKE d \in Clients \ {c}
    <3>2. call'[d] = call[d]
      BY <2>1
    <3>3. call[d].pc \in HasManager => call[d].mgr \in 1 .. created'
      BY <1>1, <1>2
    <3>4. QED
      BY <1>1, <3>2, <3>3
  <2>5. /\ DOMAIN call'[c] = CallFields
        /\ call'[c].pc \in Labels /\ call'[c].task \in 0 .. MaxTasks
        /\ call'[c].pc \in HasManager => call'[c].mgr \in 1 .. created'
        /\ call'[c].pc \in Submitting => call'[c].task \in Tasks
    BY <2>1, <2>2
  <2>6. DOMAIN call' = Clients
    BY <2>1
  <2>7. QED
    BY <2>3, <2>4, <2>5, <2>6
<1>6. QED
  BY <1>3, <1>4, <1>5, CallSteps

\* Every step keeps the managers numbered in the order of their creation.
LEMMA CountedStep ==
  ASSUME Typed, Next
  PROVE  ManagersCounted'
<1>1. /\ created + Cardinality(Undecided) <= Cardinality(Called)
      /\ Undecided \subseteq Called /\ created \in Nat
      /\ \A c, d \in Clients :
           Deciding(c) /\ Deciding(d) /\ call[c].task = call[d].task => c = d
  BY DEF Typed, ManagersCounted, TablesTyped
<1>2. \A S \in SUBSET Tasks : IsFiniteSet(S) /\ Cardinality(S) \in Nat
  <2>1. IsFiniteSet(Tasks)
    <3>1. 1 \in Int /\ MaxTasks \in Int
      BY ExecutorAssumption
    <3>2. QED
      BY <3>1, FS_Interval DEF Tasks
  <2>2. QED
    BY <2>1, FS_Subset, FS_CardinalityType
<1>3. Called \in SUBSET Tasks /\ Called' \in SUBSET Tasks /\ Undecided \in SUBSET Tasks
      /\ Undecided' \in SUBSET Tasks
  BY DEF Called, Undecided
<1>4. Called \subseteq Called'
  BY FutureSteps DEF Called
<1>5. Cardinality(Called) <= Cardinality(Called')
  BY <1>2, <1>3, <1>4, FS_Subset
<1>6. ASSUME created' = created, Undecided' \subseteq Undecided
      PROVE  /\ created' + Cardinality(Undecided') <= Cardinality(Called')
             /\ Undecided' \subseteq Called'
  <2>1. Cardinality(Undecided') <= Cardinality(Undecided)
    BY <1>2, <1>3, <1>6, FS_Subset
  <2>2. /\ Cardinality(Undecided) \in Nat /\ Cardinality(Undecided') \in Nat
        /\ Cardinality(Called) \in Nat /\ Cardinality(Called') \in Nat
    BY <1>2, <1>3
  <2>3. QED
    BY <1>1, <1>4, <1>5, <1>6, <2>1, <2>2
<1>7. CASE call' = call /\ created' = created
  <2>1. Undecided' = Undecided /\ \A c \in Clients : Deciding(c)' = Deciding(c)
    BY <1>7 DEF Undecided, Deciding
  <2>2. QED
    BY <1>1, <1>6, <1>7, <2>1 DEF ManagersCounted
<1>8. ASSUME NEW c \in Clients, ClientStep(c), Moves(c)
      PROVE  ManagersCounted'
  <2>1. /\ \A d \in Clients : Deciding(d)' => Deciding(d) /\ call'[d].task = call[d].task
        /\ Deciding(c)' => call[c].pc = "choice"
    BY <1>8 DEF Moves, Deciding
  <2>2. Undecided' \subseteq Undecided
    BY <2>1 DEF Undecided
  <2>3. CASE Create(c)
    <3>1. created' = created + 1 /\ Deciding(c) /\ call[c].pc = "create" /\ call[c].task \in Tasks
      BY <2>3 DEF Create, At, Deciding, Typed, CallsTyped, Submitting
    <3>2. ~Deciding(c)'
      BY <2>1, <3>1
    <3>3. call[c].task \in Undecided /\ call[c].task \notin Undecided'
      BY <1>1, <2>1, <3>1, <3>2 DEF Undecided
    <3>4. Undecided' \subseteq Undecided \ {call[c].task}
      BY <2>2, <3>3
    <3>5. /\ Cardinality(Undecided \ {call[c].task}) = Cardinality(Undecided) - 1
          /\ Cardinality(Undecided') <= Cardinality(Undecided \ {call[c].task})
      BY <1>2, <1>3, <3>3, <3>4, FS_RemoveElement, FS_Subset
    <3>6. /\ Cardinality(Undecided) \in Nat /\ Cardinality(Undecided') \in Nat
          /\ Cardinality(Called) \in Nat /\ Cardinality(Called') \in Nat
      BY <1>2, <1>3
    <3>7. created' + Cardinality(Undecided') <= Cardinality(Called')
      BY <1>1, <1>5, <3>1, <3>5, <3>6
    <3>8. QED
      BY <1>1, <1>4, <2>1, <2>2, <3>7 DEF ManagersCounted
  <2>4. CASE ~Create(c)
    <3>1. created' = created
      BY <1>8, <2>4
         DEF ClientStep, SubmitStep, ShutdownStep, Choose, UnknownMode, Mark, StartRaises,
             StartAssigns, LaunchRaises, Launch, StartReturns, NoClear, BeginClear, ClearScan,
             ClearScanned, ClearPop, ClearEnds, SubmitRaises, Submit, Queue, Visit, StopDone,
             StopRaises, StopFinds, StopJoins, JoinReturns, StopExpires, Terminate, ShutdownEnds,
             IterationFails, execVars, tableVars
    <3>2. QED
      BY <1>1, <1>6, <2>1, <2>2, <3>1 DEF ManagersCounted
  <2>5. QED
    BY <2>3, <2>4
<1>9. ASSUME NEW c \in Clients, NEW t \in Tasks, Begins(c), call'[c].pc = "choice",
             call'[c].task = t, future[t] = "unsubmitted",
             future' = [future EXCEPT ![t] = "called"], created' = created
      PROVE  ManagersCounted'
  <2>1. t \notin Called /\ Called' = Called \cup {t}
    BY <1>9 DEF Called, Typed, TablesTyped
  <2>2. ~Deciding(c) /\ \A d \in Clients : Deciding(d)' <=> d = c \/ Deciding(d)
    BY <1>9 DEF Begins, Deciding
  <2>3. \A d \in Clients : d # c => call'[d].task = call[d].task
    BY <1>9 DEF Begins
  <2>4. Undecided' = Undecided \cup {t} /\ t \notin Undecided
    BY <1>1, <1>9, <2>1, <2>2, <2>3 DEF Undecided
  <2>5. /\ Cardinality(Undecided') = Cardinality(Undecided) + 1
        /\ Cardinality(Called') = Cardinality(Called) + 1
    BY <1>2, <1>3, <2>1, <2>4, FS_AddElement
  <2>6. /\ Cardinality(Undecided) \in Nat /\ Cardinality(Called) \in Nat
    BY <1>2, <1>3
  <2>7. created' + Cardinality(Undecided') <= Cardinality(Called') /\ Undecided' \subseteq Called'
    BY <1>1, <1>9, <2>1, <2>4, <2>5, <2>6
  <2>8. \A d, e \in Clients :
          Deciding(d)' /\ Deciding(e)' /\ call'[d].task = call'[e].task => d = e
    <3>1. \A d \in Clients : d # c /\ Deciding(d)' => Deciding(d) /\ call'[d].task \in Undecided
      <4>1. TAKE d \in Clients
      <4>2. HAVE d # c /\ Deciding(d)'
      <4>3. Deciding(d) /\ call'[d].task = call[d].task /\ call[d].task \in Tasks
        BY <2>2, <2>3, <4>2 DEF Deciding, Typed, CallsTyped, Submitting
      <4>4. QED
        BY <4>3 DEF Undecided
    <3>2. QED
      BY <1>1, <1>9, <2>2, <2>3, <2>4, <3>1
  <2>9. QED
    BY <2>7, <2>8 DEF ManagersCounted
<1>10. ASSUME NEW c \in Clients, Begins(c), call'[c].pc = "visit", created' = created
       PROVE  ManagersCounted'
  <2>1. \A d \in Clients : (Deciding(d)' <=> Deciding(d)) /\ (Deciding(d) => call'[d].task = call[d].task)
    BY <1>10 DEF Begins, Deciding
  <2>2. Undecided' = Undecided
    BY <2>1 DEF Undecided
  <2>3. QED
    BY <1>1, <1>6, <1>10, <2>1, <2>2 DEF ManagersCounted
<1>11. QED
  BY <1>7, <1>8, <1>9, <1>10, CallSteps

\* Every step keeps the types of everything.
LEMMA TypedStep ==
  ASSUME Typed, [Next]_vars
  PROVE  Typed'
<1>1. CASE Next
  <2>1. created \in Nat /\ created' \in Nat /\ created <= created' /\ created' \in {created, created + 1}
    BY <1>1, TableSteps DEF Typed, TablesTyped
  <2>2. ManagersTyped' /\ \A m \in Managers : m > created' => obj'[m] = NewManager
    <3>1. CASE obj' = obj
      BY <2>1, <3>1 DEF Typed, ManagersTyped, TablesTyped, Managers
    <3>2. ASSUME NEW m \in 1 .. created, Touches(m)
          PROVE  ManagersTyped' /\ \A n \in Managers : n > created' => obj'[n] = NewManager
      <4>1. \A n \in Managers : n \in Nat
        BY DEF Managers
      <4>2. QED
        BY <2>1, <3>2, <4>1 DEF Touches, Typed, ManagersTyped, TablesTyped
    <3>3. QED
      BY <1>1, <3>1, <3>2, ObjSteps
  <2>3. TablesTyped'
    BY <1>1, <2>1, <2>2, TableSteps, FutureSteps DEF TablesTyped
  <2>4. QED
    BY <1>1, <2>2, <2>3, CallsTypedStep, CountedStep DEF Typed
<1>2. CASE UNCHANGED vars
  <2>1. /\ obj' = obj /\ created' = created /\ managers' = managers /\ alive' = alive
        /\ overlapped' = overlapped /\ future' = future /\ call' = call
    BY <1>2 DEF vars, execVars, tableVars, history
  <2>2. ManagersTyped' /\ TablesTyped' /\ CallsTyped'
    BY <2>1 DEF Typed, ManagersTyped, TablesTyped, CallsTyped
  <2>3. Undecided' = Undecided /\ Called' = Called /\ \A c \in Clients : Deciding(c)' = Deciding(c)
    BY <2>1 DEF Undecided, Called, Deciding
  <2>4. QED
    BY <2>1, <2>2, <2>3 DEF Typed, ManagersCounted
<1>3. QED
  BY <1>1, <1>2

\* An executor that was just created has the right types.
LEMMA TypedInit ==
  ASSUME Init
  PROVE  Typed
<1>1. MaxTasks \in Nat
  BY ExecutorAssumption
<1>2. NewManager \in ManagerRecords /\ NewManager.thread = NoThread
      /\ NewManager.doomed = {} /\ NewManager.threads = <<>>
  <2>1. <<>> \in Seq(ThreadStates) /\ NoThread \in Nat
    BY DEF NoThread
  <2>2. QED
    BY <2>1 DEF NewManager, ManagerRecords
<1>3. ManagersTyped
  <2>1. NoThread \in 0 .. Len(NewManager.threads)
    BY <1>2 DEF NoThread
  <2>2. QED
    BY <1>2, <2>1 DEF Init, ManagersTyped
<1>4. TablesTyped
  <2>1. managers = <<>> /\ created = 0 /\ alive = TRUE /\ overlapped = FALSE
    BY DEF Init
  <2>2. future \in [Tasks -> FutureStates]
    BY DEF Init, FutureStates
  <2>3. \A m \in Managers : obj[m] = NewManager
    BY DEF Init
  <2>4. \A mode \in DOMAIN managers : FALSE
    BY <2>1
  <2>5. QED
    BY <2>1, <2>2, <2>3, <2>4 DEF TablesTyped
<1>5. CallsTyped
  BY <1>1, NoCallFacts DEF Init, CallsTyped, Labels, HasManager, Submitting, NoTask
<1>6. Undecided = {} /\ Called = {} /\ \A c \in Clients : ~Deciding(c)
  BY NoCallFacts DEF Init, Undecided, Called, Deciding
<1>7. ManagersCounted
  BY <1>6, FS_EmptySet DEF Init, ManagersCounted
<1>8. QED
  BY <1>3, <1>4, <1>5, <1>7 DEF Typed

-----------------------------------------------------------------------------
(***************************************************************************)
(* As long as calls do not overlap: the managers.                          *)
(***************************************************************************)
\* The threads of manager m behind a step.
LiveAfter(m) == {k \in DOMAIN obj'[m].threads :
                   obj'[m].threads[k] \in {"boot", "loop", "down", "drain"}}
HaltedAfter(m) == LiveAfter(m) \subseteq obj'[m].doomed
SoundAfter(m)  ==
  \A k \in LiveAfter(m) : obj'[m].threads[k] \in {"down", "drain"} => ~obj'[m].running
SteadyAfter(m) == obj'[m].running /\ LiveAfter(m) = {1} /\ Len(obj'[m].threads) = 1

\* The state of a manager after a step, in terms of its record after it.
LEMMA After ==
  ASSUME NEW m
  PROVE  /\ LiveThreads(m)' = LiveAfter(m) /\ Halted(m)' = HaltedAfter(m)
         /\ Steady(m)' = SteadyAfter(m)
  BY DEF LiveThreads, Alive, Halted, Steady, LiveAfter, HaltedAfter, SteadyAfter

\* SubmitOK and ShutdownOK behind a step.
LEMMA SubmitAfter ==
  ASSUME NEW c, NEW pc, NEW m, pc = call'[c].pc, m = call'[c].mgr,
         pc \in {"mark", "start", "launch", "spin"} => m \in Listed',
         pc \in {"start", "launch", "spin", "clear", "scan", "pop", "submit", "queue"} => alive',
         pc = "mark" => LiveAfter(m) \cap obj'[m].doomed = {} \/ obj'[m].running,
         pc = "start" => LiveAfter(m) \cap obj'[m].doomed = {},
         pc = "create" /\ call'[c].mode \in DOMAIN managers' =>
           ~SteadyAfter(managers'[call'[c].mode]),
         pc \in {"scan", "pop"} =>
           \A mode \in call'[c].cleared \cap DOMAIN managers' : ~SteadyAfter(managers'[mode]),
         pc \notin {"scan", "pop"} => call'[c].cleared = {}
  PROVE  SubmitOK(c)'
  BY DEF SubmitOK, At, LiveThreads, Alive, Halted, Steady, LiveAfter, HaltedAfter, SteadyAfter

\* What must be shown of a shutdown() in progress after a step.
LEMMA ShutdownAfter ==
  ASSUME NEW c, NEW pc, NEW m, pc = call'[c].pc, m = call'[c].mgr,
         pc \in {"visit", "stop", "found", "join", "retest"} =>
           \A mode \in DOMAIN managers' \ call'[c].todo :
             \/ pc # "visit" /\ managers'[mode] = m
             \/ HaltedAfter(managers'[mode]),
         pc \in {"stop", "retest"} /\ call'[c].seen = NoThread => HaltedAfter(m),
         pc \in {"stop", "found"} /\ ~call'[c].wait => SoundAfter(m)
  PROVE  ShutdownOK(c)'
  BY DEF ShutdownOK, Halting, Testing, At, LiveThreads, Alive, Halted, SoundlyLeaving,
         LiveAfter, HaltedAfter, SoundAfter

\* Nothing but the tasks of a manager changes.
Same(m) ==
  /\ obj'[m].threads = obj[m].threads /\ obj'[m].thread = obj[m].thread
  /\ obj'[m].running = obj[m].running /\ obj'[m].inited = obj[m].inited
  /\ obj'[m].doomed = obj[m].doomed

\* A manager whose threads did not change has the same living ones.
LEMMA SameThreads ==
  ASSUME NEW m, obj'[m].threads = obj[m].threads
  PROVE  LiveThreads(m)' = LiveThreads(m) /\ \A k : Alive(m, k)' = Alive(m, k)
  BY DEF LiveThreads, Alive

\* A manager that did not change is halted, or steady, as before.
LEMMA SameState ==
  ASSUME NEW m, Same(m)
  PROVE  Halted(m)' = Halted(m) /\ Steady(m)' = Steady(m)
<1>1. LiveThreads(m)' = LiveThreads(m)
  BY SameThreads DEF Same
<1>2. QED
  BY <1>1 DEF Same, Halted, Steady

\* No thread waits for its start.
NoneStarting(m) ==
  /\ \A k \in DOMAIN obj[m].threads : obj[m].threads[k] # "new"
  /\ ~(Len(obj[m].threads) = 1 /\ obj[m].threads[1] = "boot")

\* Only the call that goes on starts a thread.
LEMMA OtherCalls ==
  ASSUME CalmInv, NEW c \in Clients, call[c].pc # "idle"
  PROVE  /\ \A d \in Clients : d # c => call[d].pc = "idle"
         /\ \A m \in Managers :
              ~(call[c].pc \in {"launch", "spin"} /\ call[c].mgr = m) => NoneStarting(m)
<1>1. \A d \in Clients : d # c => call[d].pc = "idle"
  BY DEF CalmInv, Alone, At
<1>2. ASSUME NEW m \in Managers, ~(call[c].pc \in {"launch", "spin"} /\ call[c].mgr = m)
      PROVE  NoneStarting(m)
  <2>1. ThreadsOK(m)
    BY DEF CalmInv
  <2>2. \A d \in Clients : ~(At(d, "launch") /\ call[d].mgr = m) /\ ~(At(d, "spin") /\ call[d].mgr = m)
    BY <1>1, <1>2 DEF At
  <2>3. \A k \in DOMAIN obj[m].threads : obj[m].threads[k] # "new"
    BY <2>1, <2>2 DEF ThreadsOK
  <2>4. ~(Len(obj[m].threads) = 1 /\ obj[m].threads[1] = "boot")
    BY <2>1, <2>2 DEF ThreadsOK
  <2>5. QED
    BY <2>3, <2>4 DEF NoneStarting
<1>3. QED
  BY <1>1, <1>2

\* A manager that no call starts stays as it is.
LEMMA KeepsThreads ==
  ASSUME NEW m \in Managers, ThreadsOK(m), Same(m), NoneStarting(m)
  PROVE  ThreadsOK(m)'
<1>1. LiveThreads(m)' = LiveThreads(m)
  BY SameThreads DEF Same
<1>2. \A j, k \in LiveThreads(m)' : j = k
  BY <1>1 DEF ThreadsOK
<1>3. \A k \in LiveThreads(m)' : k \in obj'[m].doomed \/ obj'[m].thread = k
  BY <1>1 DEF ThreadsOK, Same
<1>4. \A k \in LiveThreads(m)' \cap obj'[m].doomed :
        obj'[m].threads[k] \in {"down", "drain"} => ~obj'[m].running
  BY <1>1 DEF ThreadsOK, Same
<1>5. /\ \A k \in DOMAIN obj'[m].threads : obj'[m].threads[k] # "new"
      /\ ~(Len(obj'[m].threads) = 1 /\ obj'[m].threads[1] = "boot")
  BY DEF NoneStarting, Same
<1>6. obj'[m].inited => /\ obj'[m].threads # <<>>
                        /\ obj'[m].threads[1] \notin {"new", "boot"}
  BY DEF ThreadsOK, Same
<1>7. QED
  BY <1>2, <1>3, <1>4, <1>5, <1>6 DEF ThreadsOK

\* What a step of a call leaves to show.
LEMMA CalmCaller ==
  ASSUME CalmInv, NEW c \in Clients, call[c].pc # "idle" \/ \A d \in Clients : call[d].pc = "idle",
         DOMAIN call' = Clients, \A d \in Clients : d # c => call'[d] = call[d],
         \A m \in Managers : ThreadsOK(m)', SubmitOK(c)', ShutdownOK(c)',
         \A m \in Managers : Steady(m)' => m \in Listed',
         ~alive' => \A m \in Listed' : Halted(m)'
  PROVE  CalmInv'
<1>1. \A d \in Clients : d # c => call'[d].pc = "idle"
  <2>1. \A d \in Clients : d # c => call[d].pc = "idle"
    BY DEF CalmInv, Alone, At
  <2>2. QED
    BY <2>1
<1>2. Alone'
  BY <1>1 DEF Alone, At
<1>3. \A d \in Clients : SubmitOK(d)' /\ ShutdownOK(d)'
  <2>1. TAKE d \in Clients
  <2>2. CASE d = c
    BY <2>2
  <2>3. CASE d # c
    <3>1. call'[d] = call[d] /\ call'[d].pc = "idle"
      BY <1>1, <2>3
    <3>2. call'[d].cleared = {}
      BY <3>1 DEF CalmInv, SubmitOK
    <3>3. SubmitOK(d)'
      BY <3>1, <3>2 DEF SubmitOK, At
    <3>4. ShutdownOK(d)'
      BY <3>1 DEF ShutdownOK, Testing, Halting, At
    <3>5. QED
      BY <3>3, <3>4
  <2>4. QED
    BY <2>2, <2>3
<1>4. QED
  BY <1>2, <1>3 DEF CalmInv

-----------------------------------------------------------------------------
(***************************************************************************)
(* The threads of the managers.                                            *)
(***************************************************************************)
\* Every step of a thread but the one that sets `running`.
LeavesStep(m, k) == LeavesLoop(m, k) \/ Clears(m, k) \/ Ends(m, k) \/ Dies(m, k)

\* Of the threads of one manager only the one that lives takes a step.
LEMMA ThreadStep ==
  ASSUME Typed, NEW m \in Managers, ThreadsOK(m), NEW k \in DOMAIN obj[m].threads,
         Boots(m, k) \/ LeavesStep(m, k)
  PROVE  /\ LiveThreads(m) = {k} /\ LiveThreads(m)' \subseteq {k}
         /\ obj'[m].doomed = obj[m].doomed
         /\ DOMAIN obj'[m].threads = DOMAIN obj[m].threads
         /\ Len(obj'[m].threads) = Len(obj[m].threads)
         /\ \A j \in DOMAIN obj[m].threads : j # k =>
              obj'[m].threads[j] = obj[m].threads[j] /\ obj[m].threads[j] \notin {"new", "boot"}
         /\ obj'[m].threads[k] \in {"loop", "down", "drain", "ended", "killed"}
<1>1. k \in LiveThreads(m)
  BY DEF LeavesStep, Boots, LeavesLoop, Clears, Ends, Dies, LiveThreads, Alive
<1>2. LiveThreads(m) = {k}
  BY <1>1 DEF ThreadsOK
<1>3. \A j \in DOMAIN obj[m].threads : obj[m].threads[j] # "new"
  BY <1>1 DEF ThreadsOK
<1>4. \A j \in DOMAIN obj[m].threads : obj[m].threads[j] = "boot" => j = k
  BY <1>2 DEF LiveThreads, Alive
<1>5. \E to \in {"loop", "down", "drain", "ended", "killed"} : Turns(m, k, to)
  BY DEF LeavesStep, Boots, LeavesLoop, Clears, Ends, Dies
<1>6. /\ DOMAIN obj'[m].threads = DOMAIN obj[m].threads
      /\ obj'[m].doomed = obj[m].doomed
      /\ \A j \in DOMAIN obj[m].threads : j # k => obj'[m].threads[j] = obj[m].threads[j]
      /\ obj'[m].threads[k] \in {"loop", "down", "drain", "ended", "killed"}
  BY <1>5 DEF Turns
<1>7. Len(obj'[m].threads) = Len(obj[m].threads)
  <2>1. obj'[m].threads \in Seq(ThreadStates) /\ obj[m].threads \in Seq(ThreadStates)
    BY <1>5, ManagerFields DEF Turns, Touches, ManagerRecords
  <2>2. QED
    BY <1>6, <2>1
<1>8. LiveThreads(m)' \subseteq {k}
  BY <1>2, <1>6 DEF LiveThreads, Alive
<1>9. QED
  BY <1>2, <1>3, <1>4, <1>6, <1>7, <1>8

\* Its step leaves at most one of them alive.
LEMMA ThreadStepOK ==
  ASSUME Typed, NEW m \in Managers, ThreadsOK(m), NEW k \in DOMAIN obj[m].threads,
         Boots(m, k) \/ LeavesStep(m, k)
  PROVE  ThreadsOK(m)'
<1>1. /\ LiveThreads(m) = {k} /\ LiveThreads(m)' \subseteq {k}
      /\ obj'[m].doomed = obj[m].doomed
      /\ DOMAIN obj'[m].threads = DOMAIN obj[m].threads
      /\ Len(obj'[m].threads) = Len(obj[m].threads)
      /\ \A j \in DOMAIN obj[m].threads : j # k =>
           obj'[m].threads[j] = obj[m].threads[j] /\ obj[m].threads[j] \notin {"new", "boot"}
      /\ obj'[m].threads[k] \in {"loop", "down", "drain", "ended", "killed"}
  BY ThreadStep
<1>2. \A j \in DOMAIN obj'[m].threads : obj'[m].threads[j] \notin {"new", "boot"}
  BY <1>1
<1>3. k \in obj[m].doomed \/ obj[m].thread = k
  BY <1>1 DEF ThreadsOK
<1>4. \A j \in LiveThreads(m)' : j \in obj'[m].doomed \/ obj'[m].thread = j
  <2>1. CASE Ends(m, k)
    <3>1. LiveThreads(m)' = {}
      BY <1>1, <2>1 DEF Ends, Turns, LiveThreads, Alive
    <3>2. QED
      BY <3>1
  <2>2. CASE ~Ends(m, k)
    <3>1. obj'[m].thread = obj[m].thread
      BY <2>2 DEF Boots, LeavesStep, LeavesLoop, Clears, Dies
    <3>2. QED
      BY <1>1, <1>3, <3>1
  <2>3. QED
    BY <2>1, <2>2
<1>5. k \in obj[m].doomed /\ obj'[m].threads[k] \in {"down", "drain"} => ~obj'[m].running
  <2>1. CASE Boots(m, k)
    BY <2>1 DEF Boots, Turns
  <2>2. CASE LeavesLoop(m, k)
    BY <2>2 DEF LeavesLoop
  <2>3. CASE Clears(m, k)
    BY <2>3 DEF Clears
  <2>4. CASE Ends(m, k)
    BY <2>4 DEF Ends, Turns
  <2>5. CASE Dies(m, k)
    BY <2>5 DEF Dies, Turns
  <2>6. QED
    BY <2>1, <2>2, <2>3, <2>4, <2>5 DEF LeavesStep
<1>6. \A j \in LiveThreads(m)' \cap obj'[m].doomed :
        obj'[m].threads[j] \in {"down", "drain"} => ~obj'[m].running
  BY <1>1, <1>5
<1>7. /\ obj[m].threads # <<>> /\ obj'[m].threads # <<>>
      /\ 1 \in DOMAIN obj'[m].threads
  <2>1. DOMAIN obj[m].threads = 1 .. Len(obj[m].threads) /\ Len(obj[m].threads) \in Nat
    BY ManagerFields
  <2>2. 1 \in DOMAIN obj[m].threads
    BY <2>1
  <2>3. QED
    BY <1>1, <2>2
<1>8. obj'[m].threads[1] \notin {"new", "boot"}
  BY <1>2, <1>7
<1>9. \A i, j \in LiveThreads(m)' : i = j
  BY <1>1
<1>10. QED
  BY <1>2, <1>4, <1>6, <1>7, <1>8, <1>9 DEF ThreadsOK

\* A manager serves tasks from the moment its thread begins; the call that
\* started it waits for that.
LEMMA ThreadStepSteady ==
  ASSUME Typed, NEW m \in Managers, ThreadsOK(m), NEW k \in DOMAIN obj[m].threads,
         Boots(m, k) \/ LeavesStep(m, k), Steady(m)'
  PROVE  Steady(m) \/ \E c \in Clients : At(c, "spin") /\ call[c].mgr = m
<1>1. /\ LiveThreads(m) = {k} /\ LiveThreads(m)' \subseteq {k}
      /\ Len(obj'[m].threads) = Len(obj[m].threads)
  BY ThreadStep
<1>2. k = 1 /\ Len(obj[m].threads) = 1 /\ obj'[m].running
  BY <1>1 DEF Steady
<1>3. CASE Boots(m, k)
  BY <1>2, <1>3 DEF Boots, ThreadsOK
<1>4. CASE Clears(m, k)
  BY <1>2, <1>4 DEF Clears
<1>5. CASE LeavesLoop(m, k) \/ Ends(m, k) \/ Dies(m, k)
  BY <1>1, <1>2, <1>5 DEF LeavesLoop, Ends, Dies, Steady
<1>6. QED
  BY <1>3, <1>4, <1>5 DEF LeavesStep

\* A thread that terminate() is about to hit leaves its loop only when `running`
\* is cleared.
LEMMA ThreadStepSound ==
  ASSUME Typed, NEW m \in Managers, ThreadsOK(m), NEW k \in DOMAIN obj[m].threads,
         Boots(m, k) \/ LeavesStep(m, k), SoundlyLeaving(m), Terminating(m)
  PROVE  SoundAfter(m)
<1>1. LiveThreads(m) = {k} /\ LiveAfter(m) \subseteq {k}
  BY ThreadStep, After
<1>2. SUFFICES ASSUME obj'[m].threads[k] \in {"down", "drain"}
               PROVE  ~obj'[m].running
  BY <1>1 DEF SoundAfter
<1>3. CASE LeavesLoop(m, k)
  BY <1>3 DEF LeavesLoop
<1>4. CASE Clears(m, k)
  BY <1>4 DEF Clears
<1>5. CASE Boots(m, k) \/ Ends(m, k) \/ Dies(m, k)
  BY <1>2, <1>5 DEF Boots, Ends, Dies, Turns
<1>6. QED
  BY <1>3, <1>4, <1>5 DEF LeavesStep

\* A step of a manager's thread keeps CalmInv.
LEMMA CalmThreads ==
  ASSUME Typed, CalmInv, NEW m \in Managers, RunManager(m) \/ ManagerGivesUp(m)
  PROVE  CalmInv'
<1>1. PICK k \in DOMAIN obj[m].threads : Boots(m, k) \/ LeavesStep(m, k)
  <2>1. PICK k \in DOMAIN obj[m].threads : ManagerStep(m, k) \/ IdleOut(m, k)
    BY DEF RunManager, ManagerGivesUp
  <2>2. QED
    BY <2>1, ManagerSteps DEF LeavesStep
<1>2. /\ call' = call /\ managers' = managers /\ alive' = alive /\ Listed' = Listed
      /\ \A c \in Clients, pc \in Labels : At(c, pc)' = At(c, pc)
  BY DEF RunManager, ManagerGivesUp, execVars, tableVars, Listed, At
<1>3. ThreadsOK(m)
  BY DEF CalmInv
<1>4. Touches(m)
  BY <1>1 DEF Boots, LeavesStep, LeavesLoop, Clears, Ends, Dies, Turns
<1>5. \A n \in Managers : n # m => obj'[n] = obj[n]
  BY <1>4 DEF Touches
<1>6. LiveThreads(m)' \subseteq LiveThreads(m) /\ obj'[m].doomed = obj[m].doomed
  BY <1>1, <1>3, ThreadStep
<1>7. \A n \in Managers : /\ LiveAfter(n) \subseteq LiveThreads(n)
                          /\ obj'[n].doomed = obj[n].doomed
                          /\ Halted(n) => HaltedAfter(n)
  <2>1. \A n \in Managers : n # m => LiveAfter(n) = LiveThreads(n) /\ obj'[n].doomed = obj[n].doomed
    BY <1>5, SameThreads, After
  <2>2. \A n \in Managers : /\ LiveAfter(n) \subseteq LiveThreads(n)
                            /\ obj'[n].doomed = obj[n].doomed
    BY <1>6, <2>1, After
  <2>3. QED
    BY <2>2 DEF Halted, HaltedAfter
<1>8. \A n \in Managers : ThreadsOK(n)'
  <2>1. TAKE n \in Managers
  <2>2. CASE n = m
    BY <1>1, <1>3, <2>2, ThreadStepOK
  <2>3. CASE n # m
    <3>1. obj'[n] = obj[n] /\ ThreadsOK(n)
      BY <1>5, <2>3 DEF CalmInv
    <3>2. LiveThreads(n)' = LiveThreads(n)
      BY <3>1, SameThreads
    <3>3. QED
      BY <1>2, <3>1, <3>2 DEF ThreadsOK, At
  <2>4. QED
    BY <2>2, <2>3
<1>9. \A n \in Managers :
        SteadyAfter(n) => Steady(n) \/ \E c \in Clients : At(c, "spin") /\ call[c].mgr = n
  <2>1. TAKE n \in Managers
  <2>2. CASE n = m
    BY <1>1, <1>3, <2>2, ThreadStepSteady, After
  <2>3. CASE n # m
    BY <1>5, <2>3, SameThreads, After DEF Steady, SteadyAfter
  <2>4. QED
    BY <2>2, <2>3
<1>10. \A mode \in DOMAIN managers : managers[mode] \in Managers
  BY CreatedBounded DEF Typed, TablesTyped
<1>11. \A c \in Clients : call[c].pc \in HasManager => call[c].mgr \in Managers
  BY CreatedBounded DEF Typed, CallsTyped
<1>12. \A n \in Managers : LiveThreads(n) \cap obj[n].doomed = {} \/ obj[n].running
                       => LiveAfter(n) \cap obj'[n].doomed = {} \/ obj'[n].running
  <2>1. TAKE n \in Managers
  <2>2. CASE n # m
    BY <1>5, <2>2, SameThreads, After
  <2>3. CASE n = m /\ Clears(m, k)
    <3>1. LiveThreads(m) = {k}
      BY <1>1, <1>3, ThreadStep
    <3>2. k \in obj[m].doomed => ~obj[m].running
      BY <1>3, <2>3, <3>1 DEF ThreadsOK, Clears
    <3>3. QED
      BY <1>6, <2>3, <3>1, <3>2, After
  <2>4. CASE n = m /\ ~Clears(m, k)
    <3>1. obj[m].running => obj'[m].running
      BY <1>1, <2>4 DEF Boots, LeavesStep, LeavesLoop, Ends, Dies
    <3>2. QED
      BY <1>6, <2>4, <3>1, After
  <2>5. QED
    BY <2>2, <2>3, <2>4
<1>13. \A c \in Clients : SubmitOK(c)'
  <2>1. TAKE c \in Clients
  <2>2. SubmitOK(c) /\ call'[c] = call[c]
    BY <1>2 DEF CalmInv
  <2>3. ASSUME call[c].pc \notin {"idle", "spin"}, NEW n \in Managers, ~Steady(n)
        PROVE  ~SteadyAfter(n)
    <3>1. \A d \in Clients : ~At(d, "spin")
      BY <2>3 DEF CalmInv, Alone, At
    <3>2. QED
      BY <1>9, <2>3, <3>1
  <2>4. /\ call[c].pc \in {"mark", "start", "launch", "spin"} => call[c].mgr \in Listed'
        /\ call[c].pc \in {"start", "launch", "spin", "clear", "scan", "pop", "submit", "queue"}
             => alive'
        /\ call[c].pc \notin {"scan", "pop"} => call[c].cleared = {}
    BY <1>2, <2>2 DEF SubmitOK
  <2>5. call[c].pc = "mark" =>
          LiveAfter(call[c].mgr) \cap obj'[call[c].mgr].doomed = {} \/ obj'[call[c].mgr].running
    BY <1>11, <1>12, <2>2 DEF SubmitOK, At, HasManager
  <2>6. call[c].pc = "start" => LiveAfter(call[c].mgr) \cap obj'[call[c].mgr].doomed = {}
    <3>1. HAVE call[c].pc = "start"
    <3>2. call[c].mgr \in Managers
      BY <1>11, <3>1 DEF HasManager
    <3>3. LiveThreads(call[c].mgr) \cap obj[call[c].mgr].doomed = {}
      BY <2>2, <3>1 DEF SubmitOK, At
    <3>4. QED
      BY <1>7, <3>2, <3>3
  <2>7. call[c].pc = "create" /\ call[c].mode \in DOMAIN managers
          => ~SteadyAfter(managers[call[c].mode])
    BY <1>10, <2>2, <2>3 DEF SubmitOK, At
  <2>8. call[c].pc \in {"scan", "pop"} =>
          \A mode \in call[c].cleared \cap DOMAIN managers : ~SteadyAfter(managers[mode])
    BY <1>10, <2>2, <2>3 DEF SubmitOK, At
  <2>9. QED
    BY <1>2, <2>2, <2>4, <2>5, <2>6, <2>7, <2>8, SubmitAfter
<1>14. \A n \in Managers : SoundlyLeaving(n) /\ Terminating(n) => SoundAfter(n)
  <2>1. TAKE n \in Managers
  <2>2. CASE n # m
    BY <1>5, <2>2, SameThreads, After DEF SoundlyLeaving, SoundAfter
  <2>3. CASE n = m
    BY <1>1, <1>3, <2>3, ThreadStepSound
  <2>4. QED
    BY <2>2, <2>3
<1>15. \A c \in Clients : ShutdownOK(c)'
  <2>1. TAKE c \in Clients
  <2>2. ShutdownOK(c) /\ call'[c] = call[c]
    BY <1>2 DEF CalmInv
  <2>3. call[c].pc \in {"visit", "stop", "found", "join", "retest"} =>
          \A mode \in DOMAIN managers \ call[c].todo :
            \/ call[c].pc # "visit" /\ managers[mode] = call[c].mgr
            \/ HaltedAfter(managers[mode])
    BY <1>7, <1>10, <2>2 DEF ShutdownOK, Halting, At
  <2>4. call[c].pc \in {"stop", "retest"} /\ call[c].seen = NoThread
          => HaltedAfter(call[c].mgr)
    BY <1>7, <1>11, <2>2 DEF ShutdownOK, Testing, HasManager
  <2>5. call[c].pc \in {"stop", "found"} /\ ~call[c].wait => SoundAfter(call[c].mgr)
    <3>1. HAVE call[c].pc \in {"stop", "found"} /\ ~call[c].wait
    <3>2. PICK n \in Managers : n = call[c].mgr
      BY <1>11, <3>1 DEF HasManager
    <3>3. SoundlyLeaving(n) /\ Terminating(n)
      BY <2>2, <3>1, <3>2 DEF ShutdownOK, Terminating
    <3>4. QED
      BY <1>14, <3>2, <3>3
  <2>6. QED
    BY <1>2, <2>2, <2>3, <2>4, <2>5, ShutdownAfter
<1>16. \A n \in Managers : Steady(n)' => n \in Listed'
  <2>1. \A c \in Clients : At(c, "spin") => call[c].mgr \in Listed
    BY DEF CalmInv, SubmitOK, At
  <2>2. QED
    BY <1>2, <1>9, <2>1, After DEF CalmInv
<1>17. ~alive' => \A n \in Listed' : Halted(n)'
  <2>1. Listed \subseteq Managers
    BY <1>10 DEF Listed
  <2>2. QED
    BY <1>2, <1>7, <2>1, After DEF CalmInv
<1>18. Alone'
  BY <1>2 DEF CalmInv, Alone, At
<1>19. QED
  BY <1>8, <1>13, <1>15, <1>16, <1>17, <1>18 DEF CalmInv

-----------------------------------------------------------------------------
(***************************************************************************)
(* The steps of a call that leave the managers as they are.                *)
(***************************************************************************)
LEMMA SameAfter ==
  ASSUME NEW m, Same(m)
  PROVE  /\ LiveAfter(m) = LiveThreads(m) /\ (HaltedAfter(m) <=> Halted(m))
         /\ (SteadyAfter(m) <=> Steady(m)) /\ (SoundAfter(m) <=> SoundlyLeaving(m))
<1>1. LiveAfter(m) = LiveThreads(m)
  BY DEF Same, LiveAfter, LiveThreads, Alive
<1>2. QED
  BY <1>1 DEF Same, HaltedAfter, Halted, SteadyAfter, Steady, SoundAfter, SoundlyLeaving

\* A worker ends a task.
LEMMA CalmSame ==
  ASSUME Typed, CalmInv, call' = call, managers' = managers, alive' = alive,
         \A m \in Managers : Same(m)
  PROVE  CalmInv'
<1>1. \A m \in Managers : LiveAfter(m) = LiveThreads(m) /\ (HaltedAfter(m) <=> Halted(m))
                          /\ (SteadyAfter(m) <=> Steady(m))
                          /\ (SoundAfter(m) <=> SoundlyLeaving(m))
  BY SameAfter
<1>2. Listed' = Listed /\ Listed \subseteq Managers
  <2>1. \A mode \in DOMAIN managers : managers[mode] \in Managers
    BY CreatedBounded DEF Typed, TablesTyped
  <2>2. QED
    BY <2>1 DEF Listed
<1>3. \A c \in Clients : call[c].pc \in HasManager => call[c].mgr \in Managers
  BY CreatedBounded DEF Typed, CallsTyped
<1>4. \A m \in Managers : ThreadsOK(m)'
  <2>1. TAKE m \in Managers
  <2>2. ThreadsOK(m) /\ Same(m) /\ LiveThreads(m)' = LiveThreads(m)
    BY SameThreads DEF CalmInv, Same
  <2>3. /\ \A j, k \in LiveThreads(m)' : j = k
        /\ \A k \in LiveThreads(m)' : k \in obj'[m].doomed \/ obj'[m].thread = k
        /\ \A k \in LiveThreads(m)' \cap obj'[m].doomed :
             obj'[m].threads[k] \in {"down", "drain"} => ~obj'[m].running
    BY <2>2 DEF ThreadsOK, Same
  <2>4. \A k \in DOMAIN obj'[m].threads : obj'[m].threads[k] = "new" =>
          /\ LiveThreads(m)' = {} /\ obj'[m].thread = k
          /\ \E c \in Clients : call'[c].pc = "launch" /\ call'[c].mgr = m
    BY <2>2 DEF ThreadsOK, Same, At
  <2>5. Len(obj'[m].threads) = 1 /\ obj'[m].threads[1] = "boot" =>
          \E c \in Clients : call'[c].pc = "spin" /\ call'[c].mgr = m
    BY <2>2 DEF ThreadsOK, Same, At
  <2>6. obj'[m].inited => obj'[m].threads # <<>> /\ obj'[m].threads[1] \notin {"new", "boot"}
    BY <2>2 DEF ThreadsOK, Same
  <2>7. QED
    BY <2>3, <2>4, <2>5, <2>6 DEF ThreadsOK, At
<1>5. \A c \in Clients : SubmitOK(c)'
  <2>1. TAKE c \in Clients
  <2>2. SubmitOK(c) /\ call'[c] = call[c]
    BY DEF CalmInv
  <2>3. \A mode \in DOMAIN managers : managers[mode] \in Managers
    BY CreatedBounded DEF Typed, TablesTyped
  <2>4. call[c].pc = "mark" =>
          LiveAfter(call[c].mgr) \cap obj'[call[c].mgr].doomed = {} \/ obj'[call[c].mgr].running
    <3>1. HAVE call[c].pc = "mark"
    <3>2. call[c].mgr \in Managers
      BY <1>3, <3>1 DEF HasManager
    <3>3. LiveThreads(call[c].mgr) \cap obj[call[c].mgr].doomed = {} \/ obj[call[c].mgr].running
      BY <2>2, <3>1 DEF SubmitOK, At
    <3>4. QED
      BY <1>1, <3>2, <3>3 DEF Same
  <2>5. call[c].pc = "start" => LiveAfter(call[c].mgr) \cap obj'[call[c].mgr].doomed = {}
    <3>1. HAVE call[c].pc = "start"
    <3>2. call[c].mgr \in Managers
      BY <1>3, <3>1 DEF HasManager
    <3>3. LiveThreads(call[c].mgr) \cap obj[call[c].mgr].doomed = {}
      BY <2>2, <3>1 DEF SubmitOK, At
    <3>4. QED
      BY <1>1, <3>2, <3>3 DEF Same
  <2>6. /\ call[c].pc = "create" /\ call[c].mode \in DOMAIN managers
             => ~SteadyAfter(managers[call[c].mode])
        /\ call[c].pc \in {"scan", "pop"} =>
             \A mode \in call[c].cleared \cap DOMAIN managers : ~SteadyAfter(managers[mode])
    BY <1>1, <2>2, <2>3 DEF SubmitOK, At
  <2>7. /\ call[c].pc \in {"mark", "start", "launch", "spin"} => call[c].mgr \in Listed'
        /\ call[c].pc \in {"start", "launch", "spin", "clear", "scan", "pop", "submit", "queue"}
             => alive'
        /\ call[c].pc \notin {"scan", "pop"} => call[c].cleared = {}
    BY <1>2, <2>2 DEF SubmitOK
  <2>8. QED
    BY <2>2, <2>4, <2>5, <2>6, <2>7, SubmitAfter
<1>6. \A c \in Clients : ShutdownOK(c)'
  <2>1. TAKE c \in Clients
  <2>2. ShutdownOK(c) /\ call'[c] = call[c]
    BY DEF CalmInv
  <2>3. \A mode \in DOMAIN managers : managers[mode] \in Managers
    BY CreatedBounded DEF Typed, TablesTyped
  <2>4. call[c].pc \in {"visit", "stop", "found", "join", "retest"} =>
          \A mode \in DOMAIN managers \ call[c].todo :
            \/ call[c].pc # "visit" /\ managers[mode] = call[c].mgr
            \/ HaltedAfter(managers[mode])
    BY <1>1, <2>2, <2>3 DEF ShutdownOK, Halting, At
  <2>5. call[c].pc \in {"stop", "retest"} /\ call[c].seen = NoThread
          => HaltedAfter(call[c].mgr)
    BY <1>1, <1>3, <2>2 DEF ShutdownOK, Testing, HasManager
  <2>6. call[c].pc \in {"stop", "found"} /\ ~call[c].wait => SoundAfter(call[c].mgr)
    BY <1>1, <1>3, <2>2 DEF ShutdownOK, HasManager
  <2>7. QED
    BY <2>2, <2>4, <2>5, <2>6, ShutdownAfter
<1>7. \A m \in Managers : Steady(m)' => m \in Listed'
  BY <1>1, <1>2, After DEF CalmInv
<1>8. ~alive' => \A m \in Listed' : Halted(m)'
  BY <1>1, <1>2, After DEF CalmInv
<1>9. Alone'
  BY DEF CalmInv, Alone, At
<1>10. QED
  BY <1>4, <1>5, <1>6, <1>7, <1>8, <1>9 DEF CalmInv

\* A step of the workers of a manager keeps it.
LEMMA CalmWorkers ==
  ASSUME Typed, CalmInv, NEW m \in Managers, RunWorkers(m)
  PROVE  CalmInv'
<1>1. PICK t \in obj[m].held : obj' = [obj EXCEPT ![m].held = obj[m].held \ {t}]
  BY DEF RunWorkers, Complete
<1>2. \A n \in Managers : Same(n)
  BY <1>1 DEF Same, Typed, ManagersTyped, ManagerRecords
<1>3. call' = call /\ managers' = managers /\ alive' = alive
  BY DEF RunWorkers, execVars, tableVars
<1>4. QED
  BY <1>2, <1>3, CalmSame

\* A step of a call that changes neither a thread nor _managers.
LEMMA CalmQuiet ==
  ASSUME Typed, CalmInv, NEW c \in Clients, call[c].pc # "idle", Moves(c),
         managers' = managers, alive => alive',
         \A m \in Managers : Same(m), \A m \in Managers : NoneStarting(m),
         SubmitOK(c)', ShutdownOK(c)'
  PROVE  CalmInv'
<1>1. \A m \in Managers : ThreadsOK(m)'
  BY KeepsThreads DEF CalmInv
<1>2. Listed' = Listed /\ Listed \subseteq Managers
  <2>1. \A mode \in DOMAIN managers : managers[mode] \in Managers
    BY CreatedBounded DEF Typed, TablesTyped
  <2>2. QED
    BY <2>1 DEF Listed
<1>3. \A m \in Managers : Steady(m)' => m \in Listed'
  BY <1>2, SameState DEF CalmInv
<1>4. ~alive' => \A m \in Listed' : Halted(m)'
  BY <1>2, SameState DEF CalmInv
<1>5. DOMAIN call' = Clients /\ \A d \in Clients : d # c => call'[d] = call[d]
  BY DEF Moves
<1>6. QED
  BY <1>1, <1>3, <1>4, <1>5, CalmCaller

\* A client that leaves its call owes nothing.
LEMMA LeaveCalm ==
  ASSUME Typed, NEW c \in Clients, Leave(c)
  PROVE  SubmitOK(c)' /\ ShutdownOK(c)'
<1>1. call'[c].pc = "idle" /\ call'[c].cleared = {}
  BY NoCallFacts DEF Leave, Typed, CallsTyped
<1>2. SubmitOK(c)'
  BY <1>1, SubmitAfter
<1>3. ShutdownOK(c)'
  BY <1>1, ShutdownAfter
<1>4. QED
  BY <1>2, <1>3

\* Outside of "launch" and "spin" no thread waits for its start.
LEMMA NotStarting ==
  ASSUME CalmInv, NEW c \in Clients, call[c].pc \notin {"idle", "launch", "spin"}
  PROVE  \A m \in Managers : NoneStarting(m)
  BY OtherCalls

\* The call ends.
LEMMA CalmLeaves ==
  ASSUME Typed, CalmInv, NEW c \in Clients,
         \/ UnknownMode(c) \/ StartRaises(c) \/ LaunchRaises(c) \/ IterationFails(c)
         \/ SubmitRaises(c) \/ Queue(c) \/ StopRaises(c) \/ StopExpires(c)
  PROVE  CalmInv'
<1>1. Leave(c) /\ managers' = managers /\ alive' = alive /\ call[c].pc # "idle"
  BY DEF UnknownMode, StartRaises, LaunchRaises, IterationFails, SubmitRaises, Queue,
         StopRaises, StopExpires, Testing, Raise, execVars, tableVars, At
<1>2. Moves(c) /\ SubmitOK(c)' /\ ShutdownOK(c)'
  BY <1>1, LeaveMoves, LeaveCalm
<1>3. \A m \in Managers : Same(m)
  <2>1. CASE Queue(c)
    BY <2>1 DEF Queue, Same, Typed, ManagersTyped, ManagerRecords
  <2>2. CASE ~Queue(c)
    BY <2>2 DEF UnknownMode, StartRaises, LaunchRaises, IterationFails, SubmitRaises,
                StopRaises, StopExpires, Same
  <2>3. QED
    BY <2>1, <2>2
<1>4. \A m \in Managers : NoneStarting(m)
  <2>1. CASE LaunchRaises(c)
    <3>1. call[c].pc = "launch" /\ ~Launchable(call[c].mgr)
      BY <2>1 DEF LaunchRaises, At
    <3>2. TAKE m \in Managers
    <3>3. CASE m # call[c].mgr
      BY <1>1, <3>3, OtherCalls
    <3>4. CASE m = call[c].mgr
      <4>1. ThreadsOK(m)
        BY DEF CalmInv
      <4>2. \A k \in DOMAIN obj[m].threads : k # NoThread
        BY ManagerFields DEF NoThread
      <4>3. \A k \in DOMAIN obj[m].threads : obj[m].threads[k] # "new"
        BY <3>1, <3>4, <4>1, <4>2 DEF ThreadsOK, Launchable
      <4>4. \A d \in Clients : ~At(d, "spin")
        BY <1>1, <3>1, OtherCalls DEF At
      <4>5. ~(Len(obj[m].threads) = 1 /\ obj[m].threads[1] = "boot")
        BY <4>1, <4>4 DEF ThreadsOK
      <4>6. QED
        BY <4>3, <4>5 DEF NoneStarting
    <3>5. QED
      BY <3>3, <3>4
  <2>2. CASE ~LaunchRaises(c)
    <3>1. call[c].pc \notin {"idle", "launch", "spin"}
      BY <2>2 DEF UnknownMode, StartRaises, IterationFails, SubmitRaises, Queue,
                  StopRaises, StopExpires, Testing, At
    <3>2. QED
      BY <3>1, NotStarting
  <2>3. QED
    BY <2>1, <2>2
<1>5. QED
  BY <1>1, <1>2, <1>3, <1>4, CalmQuiet

\* The choice of a manager keeps CalmInv.
LEMMA CalmChoose ==
  ASSUME Typed, CalmInv, NEW c \in Clients, Choose(c)
  PROVE  CalmInv'
<1>1. /\ call[c].pc = "choice" /\ managers' = managers /\ alive' = alive
      /\ \A m \in Managers : Same(m)
      /\ DOMAIN call = Clients
  BY DEF Choose, At, execVars, tableVars, Same, Typed, CallsTyped
<1>2. PICK mode \in call[c].modes :
        call' = [call EXCEPT ![c] =
                  IF Found(mode)
                  THEN [NoCall EXCEPT !.pc = "mark", !.task = call[c].task,
                                      !.mgr = managers[mode]]
                  ELSE [NoCall EXCEPT !.pc = "create", !.task = call[c].task,
                                      !.mode = mode]]
  BY DEF Choose
<1>3. \A m \in Managers : SteadyAfter(m) <=> Steady(m)
  BY <1>1, SameAfter
<1>4. SubmitOK(c)' /\ ShutdownOK(c)'
  <2>1. CASE Found(mode)
    <3>1. call'[c].pc = "mark" /\ call'[c].mgr = managers[mode] /\ call'[c].cleared = {}
      BY <1>1, <1>2, <2>1 DEF NoCall
    <3>2. managers[mode] \in Listed /\ Listed' = Listed
      BY <1>1, <2>1 DEF Found, Listed
    <3>3. managers[mode] \in Managers
      BY <2>1, CreatedBounded DEF Found, Typed, TablesTyped
    <3>4. obj'[managers[mode]].running
      BY <1>1, <2>1, <3>3 DEF Found, Same
    <3>5. SubmitOK(c)'
      BY <3>1, <3>2, <3>4, SubmitAfter
    <3>6. ShutdownOK(c)'
      BY <3>1, ShutdownAfter
    <3>7. QED
      BY <3>5, <3>6
  <2>2. CASE ~Found(mode)
    <3>1. call'[c].pc = "create" /\ call'[c].mode = mode /\ call'[c].cleared = {}
      BY <1>1, <1>2, <2>2 DEF NoCall
    <3>2. mode \in DOMAIN managers => ~SteadyAfter(managers[mode])
      <4>1. HAVE mode \in DOMAIN managers
      <4>2. managers[mode] \in Managers /\ ~obj[managers[mode]].running
        BY <2>2, <4>1, CreatedBounded DEF Found, Typed, TablesTyped
      <4>3. QED
        BY <1>3, <4>2 DEF Steady
    <3>3. SubmitOK(c)'
      BY <1>1, <3>1, <3>2, SubmitAfter
    <3>4. ShutdownOK(c)'
      BY <3>1, ShutdownAfter
    <3>5. QED
      BY <3>3, <3>4
  <2>3. QED
    BY <2>1, <2>2
<1>5. Moves(c) /\ \A m \in Managers : NoneStarting(m)
  BY <1>1, ChooseMoves, NotStarting
<1>6. QED
  BY <1>1, <1>4, <1>5, CalmQuiet

\* Fields of a call that only goes on.
LEMMA GoneTo ==
  ASSUME Typed, NEW c \in Clients, NEW pc, Goto(c, pc)
  PROVE  call'[c].pc = pc /\ call'[c].mgr = call[c].mgr /\ call'[c].cleared = call[c].cleared
  BY DEF Goto, Typed, CallsTyped, CallFields

\* So does start() up to the new thread.
LEMMA CalmMark ==
  ASSUME Typed, CalmInv, NEW c \in Clients, Mark(c)
  PROVE  CalmInv'
<1> DEFINE m == call[c].mgr
           pc == IF obj[m].running THEN "clear" ELSE "start"
<1>1. /\ call[c].pc = "mark" /\ managers' = managers /\ alive' = TRUE
      /\ \A n \in Managers : Same(n)
  BY DEF Mark, At, tableVars, Same
<1>2. call'[c].pc = pc /\ call'[c].mgr = m /\ call'[c].cleared = {}
  BY <1>1, GoneTo DEF Mark, CalmInv, SubmitOK
<1>3. SubmitOK(c)
  BY DEF CalmInv
<1>4. m \in Listed' /\ m \in Managers
  BY <1>1, <1>3, CreatedBounded DEF SubmitOK, Listed, Typed, CallsTyped, HasManager
<1>5. pc = "start" => LiveAfter(m) \cap obj'[m].doomed = {}
  <2>1. HAVE pc = "start"
  <2>2. ~obj[m].running
    BY <2>1
  <2>3. LiveThreads(m) \cap obj[m].doomed = {}
    BY <1>1, <1>3, <2>2 DEF SubmitOK, At
  <2>4. QED
    BY <1>1, <1>4, <2>3, SameAfter DEF Same
<1>6. pc \in {"clear", "start"}
  OBVIOUS
<1> HIDE DEF pc
<1>7. SubmitOK(c)'
  BY <1>1, <1>2, <1>4, <1>5, <1>6, SubmitAfter
<1>8. ShutdownOK(c)'
  BY <1>2, <1>6, ShutdownAfter
<1>9. Moves(c) /\ \A n \in Managers : NoneStarting(n)
  BY <1>1, StepMoves, NotStarting DEF ClientStep, SubmitStep
<1>10. QED
  BY <1>1, <1>7, <1>8, <1>9, CalmQuiet

\* So does the return of start().
LEMMA CalmStartReturns ==
  ASSUME Typed, CalmInv, NEW c \in Clients, StartReturns(c)
  PROVE  CalmInv'
<1> DEFINE m == call[c].mgr
<1>1. /\ call[c].pc = "spin" /\ obj[m].inited /\ managers' = managers /\ alive' = alive
      /\ \A n \in Managers : Same(n)
  BY DEF StartReturns, At, execVars, tableVars, Same
<1>2. call'[c].pc = "clear" /\ call'[c].cleared = {} /\ alive
  BY <1>1, GoneTo DEF StartReturns, CalmInv, SubmitOK
<1>3. \A n \in Managers : NoneStarting(n)
  <2>1. TAKE n \in Managers
  <2>2. CASE n # m
    BY <1>1, <2>2, OtherCalls
  <2>3. CASE n = m
    <3>1. ThreadsOK(m)
      BY <2>3 DEF CalmInv
    <3>2. obj[m].threads[1] # "boot"
      BY <1>1, <3>1 DEF ThreadsOK
    <3>3. \A d \in Clients : ~At(d, "launch")
      BY <1>1, OtherCalls DEF At
    <3>4. \A k \in DOMAIN obj[m].threads : obj[m].threads[k] # "new"
      BY <3>1, <3>3 DEF ThreadsOK
    <3>5. QED
      BY <2>3, <3>2, <3>4 DEF NoneStarting
  <2>4. QED
    BY <2>2, <2>3
<1>4. SubmitOK(c)'
  BY <1>1, <1>2, SubmitAfter
<1>5. ShutdownOK(c)'
  BY <1>2, ShutdownAfter
<1>6. Moves(c)
  BY StepMoves DEF ClientStep, SubmitStep
<1>7. QED
  BY <1>1, <1>3, <1>4, <1>5, <1>6, CalmQuiet

\* So do the steps of submit() that change no manager.
LEMMA CalmClear ==
  ASSUME Typed, CalmInv, NEW c \in Clients,
         \/ NoClear(c) \/ BeginClear(c) \/ ClearScan(c) \/ ClearScanned(c) \/ ClearEnds(c)
         \/ Submit(c)
  PROVE  CalmInv'
<1>1. /\ call[c].pc \in {"clear", "scan", "pop", "submit"} /\ managers' = managers
      /\ alive' = alive /\ \A m \in Managers : Same(m)
  BY DEF NoClear, BeginClear, ClearScan, ClearScanned, ClearEnds, Submit, At, execVars,
         tableVars, Same
<1>2. SubmitOK(c) /\ alive
  BY <1>1 DEF CalmInv, SubmitOK
<1>3. DOMAIN call = Clients /\ DOMAIN call[c] = CallFields
  BY DEF Typed, CallsTyped
<1>4. \A mode \in DOMAIN managers :
        managers[mode] \in Managers /\ (SteadyAfter(managers[mode]) <=> Steady(managers[mode]))
  <2>1. \A mode \in DOMAIN managers : managers[mode] \in Managers
    BY CreatedBounded DEF Typed, TablesTyped
  <2>2. QED
    BY <1>1, <2>1, SameAfter
<1>5. /\ call'[c].pc \in {"submit", "queue", "scan", "pop"}
      /\ call'[c].pc \in {"scan", "pop"} =>
           \A mode \in call'[c].cleared \cap DOMAIN managers : ~Steady(managers[mode])
      /\ call'[c].pc \notin {"scan", "pop"} => call'[c].cleared = {}
  <2>1. CASE NoClear(c) \/ ClearEnds(c) \/ Submit(c)
    <3>1. call'[c].pc \in {"submit", "queue"} /\ call'[c].cleared = call[c].cleared
      BY <2>1, GoneTo DEF NoClear, ClearEnds, Submit
    <3>2. call[c].cleared = {}
      BY <1>2, <2>1 DEF NoClear, ClearEnds, Submit, SubmitOK, At
    <3>3. QED
      BY <3>1, <3>2
  <2>2. CASE BeginClear(c)
    <3>1. call'[c].pc = "scan" /\ call'[c].cleared = call[c].cleared
      BY <1>3, <2>2 DEF BeginClear, CallFields
    <3>2. call[c].cleared = {}
      BY <1>2, <2>2 DEF BeginClear, SubmitOK, At
    <3>3. QED
      BY <3>1, <3>2
  <2>3. CASE ClearScan(c)
    <3>1. call[c].pc = "scan"
      BY <2>3 DEF ClearScan, At
    <3>2. PICK mode \in call[c].todo \cap DOMAIN managers :
            call' = [call EXCEPT ![c].todo = @ \ {mode},
                                 ![c].cleared = IF obj[managers[mode]].running
                                                THEN @ ELSE @ \cup {mode}]
      BY <2>3 DEF ClearScan
    <3>3. call'[c].pc = "scan"
          /\ call'[c].cleared = IF obj[managers[mode]].running THEN call[c].cleared
                                ELSE call[c].cleared \cup {mode}
      BY <1>3, <3>1, <3>2 DEF CallFields
    <3>4. \A other \in call[c].cleared \cap DOMAIN managers : ~Steady(managers[other])
      BY <1>2, <3>1 DEF SubmitOK
    <3>5. ~obj[managers[mode]].running => ~Steady(managers[mode])
      BY DEF Steady
    <3>6. QED
      BY <3>3, <3>4, <3>5
  <2>4. CASE ClearScanned(c)
    <3>1. call[c].pc = "scan" /\ call'[c].pc = "pop" /\ call'[c].cleared = call[c].cleared
      BY <1>3, <2>4 DEF ClearScanned, At, CallFields
    <3>2. QED
      BY <1>2, <3>1 DEF SubmitOK
  <2>5. QED
    BY <2>1, <2>2, <2>3, <2>4
<1>6. call'[c].pc \in {"scan", "pop"} =>
        \A mode \in call'[c].cleared \cap DOMAIN managers' : ~SteadyAfter(managers'[mode])
  BY <1>1, <1>4, <1>5
<1>7. SubmitOK(c)'
  BY <1>1, <1>2, <1>5, <1>6, SubmitAfter
<1>8. ShutdownOK(c)'
  BY <1>5, ShutdownAfter
<1>9. Moves(c) /\ \A m \in Managers : NoneStarting(m)
  BY <1>1, StepMoves, NotStarting DEF ClientStep, SubmitStep
<1>10. QED
  BY <1>1, <1>7, <1>8, <1>9, CalmQuiet

-----------------------------------------------------------------------------
(***************************************************************************)
(* The steps of a call that change _managers, or start a thread.           *)
(***************************************************************************)
LEMMA CreatedRange == Typed => created \in 0 .. MaxTasks
  BY CreatedBounded

\* So does the creation of a manager object.
LEMMA CalmCreate ==
  ASSUME Typed, Typed', CalmInv, NEW c \in Clients, Create(c)
  PROVE  CalmInv'
<1> DEFINE new == created + 1
           mode == call[c].mode
<1>1. /\ call[c].pc = "create" /\ alive' = alive /\ created' = new
      /\ managers' = [other \in DOMAIN managers \cup {mode} |->
                        IF other = mode THEN new ELSE managers[other]]
      /\ \A m \in Managers : Same(m) /\ obj'[m] = obj[m]
  BY DEF Create, At, Same
<1>2. created \in Nat /\ new \in Managers /\ obj'[new] = NewManager
  <2>1. created \in Nat
    BY DEF Typed, TablesTyped
  <2>2. 1 .. created' \subseteq Managers
    <3>1. (Typed => created \in 0 .. MaxTasks)'
      BY CreatedRange, PTL
    <3>2. QED
      BY <1>1, <2>1, <3>1, ExecutorAssumption DEF Managers
  <2>3. new \in Managers
    BY <1>1, <2>1, <2>2
  <2>4. obj[new] = NewManager
    BY <2>1, <2>3 DEF Typed, TablesTyped
  <2>5. QED
    BY <1>1, <2>1, <2>3, <2>4
<1>3. /\ call'[c].pc = "mark" /\ call'[c].mgr = new /\ call'[c].cleared = {}
  BY <1>1 DEF Create, Typed, CallsTyped, CallFields, CalmInv, SubmitOK
<1>4. new \in Listed' /\ Listed' \subseteq Listed \cup {new}
      /\ Listed \ {managers[mode]} \subseteq Listed'
      /\ (mode \notin DOMAIN managers => Listed \subseteq Listed')
  BY <1>1 DEF Listed
<1>5. LiveAfter(new) = {}
  BY <1>2 DEF LiveAfter, NewManager
<1>6. SubmitOK(c)'
  BY <1>3, <1>4, <1>5, SubmitAfter
<1>7. ShutdownOK(c)'
  BY <1>3, ShutdownAfter
<1>8. \A m \in Managers : ThreadsOK(m)'
  BY <1>1, NotStarting, KeepsThreads DEF CalmInv
<1>9. \A m \in Managers : Steady(m)' => m \in Listed'
  <2>1. TAKE m \in Managers
  <2>2. HAVE Steady(m)'
  <2>3. Steady(m)
    BY <1>1, <2>2, SameState
  <2>4. mode \in DOMAIN managers => m # managers[mode]
    BY <1>1, <2>3 DEF CalmInv, SubmitOK, At
  <2>5. QED
    BY <1>4, <2>3, <2>4 DEF CalmInv
<1>10. ~alive' => \A m \in Listed' : Halted(m)'
  <2>1. HAVE ~alive'
  <2>2. TAKE m \in Listed'
  <2>3. CASE m = new
    BY <1>5, <2>3, After DEF HaltedAfter
  <2>4. CASE m # new
    <3>1. m \in Listed /\ m \in Managers
      <4>1. m \in Listed
        BY <1>4, <2>4
      <4>2. QED
        BY <4>1, CreatedBounded DEF Listed, Typed, TablesTyped
    <3>2. QED
      BY <1>1, <2>1, <3>1, SameState DEF CalmInv
  <2>5. QED
    BY <2>3, <2>4
<1>11. Moves(c)
  BY StepMoves DEF ClientStep, SubmitStep
<1>12. QED
  BY <1>1, <1>6, <1>7, <1>8, <1>9, <1>10, <1>11, CalmCaller DEF Moves

\* So does the removal of a manager from the table.
LEMMA CalmClearPop ==
  ASSUME Typed, CalmInv, NEW c \in Clients, ClearPop(c)
  PROVE  CalmInv'
<1>1. /\ call[c].pc = "pop" /\ alive' = alive /\ \A m \in Managers : Same(m)
  BY DEF ClearPop, At, Same
<1>2. Moves(c) /\ \A m \in Managers : NoneStarting(m)
  BY <1>1, StepMoves, NotStarting DEF ClientStep, SubmitStep
<1>3. SubmitOK(c) /\ alive
  BY <1>1 DEF CalmInv, SubmitOK
<1>4. PICK mode \in call[c].cleared :
        IF mode \in DOMAIN managers
        THEN /\ managers' = [other \in DOMAIN managers \ {mode} |-> managers[other]]
             /\ call' = [call EXCEPT ![c].cleared = @ \ {mode}]
        ELSE Leave(c) /\ managers' = managers
  BY DEF ClearPop, Raise
<1>5. CASE mode \notin DOMAIN managers
  BY <1>1, <1>2, <1>4, <1>5, LeaveCalm, CalmQuiet
<1>6. CASE mode \in DOMAIN managers
  <2>1. managers' = [other \in DOMAIN managers \ {mode} |-> managers[other]]
        /\ call'[c].pc = "pop" /\ call'[c].cleared = call[c].cleared \ {mode}
    BY <1>1, <1>4, <1>6 DEF Typed, CallsTyped, CallFields
  <2>2. \A other \in call[c].cleared \cap DOMAIN managers : ~Steady(managers[other])
    BY <1>1, <1>3 DEF SubmitOK
  <2>3. \A other \in DOMAIN managers : managers[other] \in Managers
    BY CreatedBounded DEF Typed, TablesTyped
  <2>4. \A other \in call'[c].cleared \cap DOMAIN managers' : ~SteadyAfter(managers'[other])
    <3>1. TAKE other \in call'[c].cleared \cap DOMAIN managers'
    <3>2. /\ other \in call[c].cleared \cap DOMAIN managers
          /\ managers'[other] = managers[other] /\ managers[other] \in Managers
      BY <2>1, <2>3
    <3>3. Same(managers[other])
      BY <1>1, <3>2
    <3>4. QED
      BY <2>2, <3>2, <3>3, SameAfter
  <2>5. SubmitOK(c)'
    BY <1>1, <1>3, <2>1, <2>4, SubmitAfter
  <2>6. ShutdownOK(c)'
    BY <2>1, ShutdownAfter
  <2>7. \A m \in Managers : ThreadsOK(m)'
    BY <1>1, <1>2, KeepsThreads DEF CalmInv
  <2>8. \A m \in Managers : Steady(m)' => m \in Listed'
    <3>1. TAKE m \in Managers
    <3>2. HAVE Steady(m)'
    <3>3. Steady(m)
      BY <1>1, <3>2, SameState
    <3>4. PICK other \in DOMAIN managers : managers[other] = m
      BY <3>3 DEF CalmInv, Listed
    <3>5. other # mode
      BY <1>6, <2>2, <3>3, <3>4
    <3>6. QED
      BY <2>1, <3>4, <3>5 DEF Listed
  <2>9. QED
    BY <1>1, <1>2, <1>3, <2>5, <2>6, <2>7, <2>8, CalmCaller DEF Moves
<1>7. QED
  BY <1>5, <1>6

\* start() of a manager none of whose threads goes on.
LEMMA CalmStartAssigns ==
  ASSUME Typed, CalmInv, NEW c \in Clients, StartAssigns(c)
  PROVE  CalmInv'
<1>1. PICK m \in Managers : m = call[c].mgr
  BY CreatedBounded DEF StartAssigns, At, Typed, CallsTyped, HasManager
<1>2. /\ call[c].pc = "start" /\ managers' = managers /\ alive' = alive
  BY DEF StartAssigns, At, execVars, tableVars
<1>3. call'[c].pc = "launch" /\ call'[c].mgr = m /\ call'[c].cleared = {}
  BY <1>1, <1>2, GoneTo DEF StartAssigns, CalmInv, SubmitOK
<1>4. Assigns(m)
  BY <1>1, StartStep
<1>5. SubmitOK(c) /\ ThreadsOK(m) /\ \A n \in Managers : NoneStarting(n)
  BY <1>2, NotStarting DEF CalmInv
<1>6. alive /\ m \in Listed /\ Listed' = Listed
  BY <1>1, <1>2, <1>5 DEF SubmitOK, Listed
<1>7. \A n \in Managers : n # m => Same(n)
  BY <1>4 DEF Assigns, Touches, Same
<1>8. LiveThreads(m) = {}
  <2>1. LiveThreads(m) \cap obj[m].doomed = {}
    BY <1>1, <1>2, <1>5 DEF SubmitOK, At
  <2>2. \A k \in LiveThreads(m) : k \in obj[m].doomed \/ k = NoThread
    BY <1>4, <1>5 DEF ThreadsOK, Assigns, Startable
  <2>3. \A k \in LiveThreads(m) : k # NoThread
    BY <1>5, ManagerFields DEF LiveThreads, NoThread
  <2>4. QED
    BY <2>1, <2>2, <2>3
<1>9. /\ obj[m].threads \in Seq(ThreadStates) /\ Len(obj[m].threads) \in Nat
      /\ DOMAIN obj[m].threads = 1 .. Len(obj[m].threads)
  BY <1>5, ManagerFields
<1>10. /\ Len(obj'[m].threads) = Len(obj[m].threads) + 1
      /\ DOMAIN obj'[m].threads = 1 .. Len(obj[m].threads) + 1
      /\ obj'[m].threads[Len(obj[m].threads) + 1] = "new"
      /\ \A k \in DOMAIN obj[m].threads : obj'[m].threads[k] = obj[m].threads[k]
  <2>1. "new" \in ThreadStates
    BY DEF ThreadStates
  <2>2. obj'[m].threads = Append(obj[m].threads, "new")
    BY <1>4 DEF Assigns
  <2>3. QED
    BY <1>9, <2>1, <2>2
<1>11. LiveAfter(m) = {}
  <2>1. SUFFICES ASSUME NEW k \in LiveAfter(m) PROVE FALSE
    OBVIOUS
  <2>2. CASE k = Len(obj[m].threads) + 1
    BY <1>10, <2>1, <2>2 DEF LiveAfter
  <2>3. CASE k # Len(obj[m].threads) + 1
    <3>1. k \in DOMAIN obj[m].threads
      BY <1>9, <1>10, <2>1, <2>3 DEF LiveAfter
    <3>2. k \in LiveThreads(m)
      BY <1>10, <2>1, <3>1 DEF LiveAfter, LiveThreads, Alive
    <3>3. QED
      BY <1>8, <3>2
  <2>4. QED
    BY <2>2, <2>3
<1>12. ThreadsOK(m)'
  <2>1. LiveThreads(m)' = {}
    BY <1>11, After
  <2>2. \A k \in DOMAIN obj'[m].threads : obj'[m].threads[k] = "new" => obj'[m].thread = k
    <3>1. TAKE k \in DOMAIN obj'[m].threads
    <3>2. HAVE obj'[m].threads[k] = "new"
    <3>3. k \notin DOMAIN obj[m].threads
      BY <1>5, <1>10, <3>2 DEF NoneStarting
    <3>4. k = Len(obj[m].threads) + 1
      <4>1. k \in 1 .. Len(obj[m].threads) + 1 /\ k \notin 1 .. Len(obj[m].threads)
        BY <1>9, <1>10, <3>3
      <4>2. QED
        BY <1>9, <4>1
    <3>5. QED
      BY <1>4, <3>4 DEF Assigns
  <2>3. ~(Len(obj'[m].threads) = 1 /\ obj'[m].threads[1] = "boot")
    BY <1>9, <1>10
  <2>4. obj'[m].inited => obj'[m].threads # <<>> /\ obj'[m].threads[1] \notin {"new", "boot"}
    <3>1. HAVE obj'[m].inited
    <3>2. obj[m].threads # <<>> /\ obj[m].threads[1] \notin {"new", "boot"}
      BY <1>4, <1>5, <3>1 DEF Assigns, ThreadsOK
    <3>3. 1 \in DOMAIN obj[m].threads /\ 1 \in DOMAIN obj'[m].threads
      BY <1>9, <1>10, <3>2
    <3>4. QED
      BY <1>10, <3>2, <3>3
  <2>5. \E d \in Clients : call'[d].pc = "launch" /\ call'[d].mgr = m
    BY <1>3
  <2>6. \A k \in DOMAIN obj'[m].threads : obj'[m].threads[k] = "new" =>
          /\ obj'[m].thread = k
          /\ \E d \in Clients : call'[d].pc = "launch" /\ call'[d].mgr = m
    BY <2>2, <2>5
  <2>7. QED
    BY <2>1, <2>3, <2>4, <2>6 DEF ThreadsOK, At
<1>13. \A n \in Managers : ThreadsOK(n)'
  BY <1>5, <1>7, <1>12, KeepsThreads DEF CalmInv
<1>14. \A n \in Managers : Steady(n)' => n \in Listed'
  BY <1>6, <1>7, SameState DEF CalmInv
<1>15. SubmitOK(c)'
  BY <1>2, <1>3, <1>6, SubmitAfter
<1>16. ShutdownOK(c)'
  BY <1>3, ShutdownAfter
<1>17. Moves(c)
  BY StepMoves DEF ClientStep, SubmitStep
<1>18. QED
  BY <1>2, <1>6, <1>13, <1>14, <1>15, <1>16, <1>17, CalmCaller DEF Moves

\* So does the start of the thread.
LEMMA CalmLaunch ==
  ASSUME Typed, CalmInv, NEW c \in Clients, Launch(c)
  PROVE  CalmInv'
<1>1. PICK m \in Managers : m = call[c].mgr
  BY CreatedBounded DEF Launch, At, Typed, CallsTyped, HasManager
<1>2. PICK k : k = obj[m].thread
  OBVIOUS
<1>3. call[c].pc = "launch" /\ managers' = managers /\ alive' = alive
  BY DEF Launch, At, execVars, tableVars
<1>4. call'[c].pc = "spin" /\ call'[c].mgr = m /\ call'[c].cleared = {}
  BY <1>1, <1>3, GoneTo DEF Launch, CalmInv, SubmitOK
<1>5. /\ obj[m].threads[k] = "new" /\ Turns(m, k, "boot")
      /\ obj'[m].inited = obj[m].inited /\ obj'[m].thread = k
  BY <1>1, <1>2, LaunchStep
<1>6. ThreadsOK(m) /\ SubmitOK(c)
  BY DEF CalmInv
<1>7. alive /\ m \in Listed /\ Listed' = Listed
  BY <1>1, <1>3, <1>6 DEF SubmitOK, Listed
<1>8. \A n \in Managers : n # m => Same(n) /\ NoneStarting(n)
  <2>1. \A n \in Managers : n # m => Same(n)
    BY <1>5 DEF Turns, Touches, Same
  <2>2. \A n \in Managers : n # m => NoneStarting(n)
    BY <1>1, <1>3, OtherCalls
  <2>3. QED
    BY <2>1, <2>2
<1>9. /\ k \in DOMAIN obj[m].threads /\ LiveThreads(m) = {}
      /\ \A j \in DOMAIN obj[m].threads : obj[m].threads[j] = "new" => j = k
  <2>1. k \in DOMAIN obj[m].threads
    BY <1>5 DEF Turns
  <2>2. QED
    BY <1>2, <1>5, <1>6, <2>1 DEF ThreadsOK
<1>10. /\ DOMAIN obj'[m].threads = DOMAIN obj[m].threads
       /\ obj'[m].threads[k] = "boot"
       /\ \A j \in DOMAIN obj[m].threads : j # k => obj'[m].threads[j] = obj[m].threads[j]
  BY <1>5, <1>9 DEF Turns
<1>11. LiveAfter(m) = {k}
  BY <1>9, <1>10 DEF LiveAfter, LiveThreads, Alive
<1>12. ThreadsOK(m)'
  <2>1. LiveThreads(m)' = {k}
    BY <1>11, After
  <2>2. \A j \in DOMAIN obj'[m].threads : obj'[m].threads[j] # "new"
    BY <1>9, <1>10
  <2>3. \E d \in Clients : call'[d].pc = "spin" /\ call'[d].mgr = m
    BY <1>4
  <2>4. obj'[m].inited => obj'[m].threads # <<>> /\ obj'[m].threads[1] \notin {"new", "boot"}
    <3>1. HAVE obj'[m].inited
    <3>2. obj[m].threads # <<>> /\ obj[m].threads[1] \notin {"new", "boot"}
      BY <1>5, <1>6, <3>1 DEF ThreadsOK
    <3>3. 1 \in DOMAIN obj[m].threads /\ 1 # k
      BY <1>5, <3>2, ManagerFields
    <3>4. QED
      BY <1>10, <3>2, <3>3
  <2>5. obj'[m].thread = k /\ obj'[m].threads[k] = "boot"
    BY <1>5, <1>10
  <2>6. QED
    BY <2>1, <2>2, <2>3, <2>4, <2>5 DEF ThreadsOK, At
<1>13. \A n \in Managers : ThreadsOK(n)'
  BY <1>8, <1>12, KeepsThreads DEF CalmInv
<1>14. \A n \in Managers : Steady(n)' => n \in Listed'
  BY <1>7, <1>8, SameState DEF CalmInv
<1>15. SubmitOK(c)'
  BY <1>3, <1>4, <1>7, SubmitAfter
<1>16. ShutdownOK(c)'
  BY <1>4, ShutdownAfter
<1>17. Moves(c)
  BY StepMoves DEF ClientStep, SubmitStep
<1>18. QED
  BY <1>3, <1>7, <1>13, <1>14, <1>15, <1>16, <1>17, CalmCaller DEF Moves

-----------------------------------------------------------------------------
(***************************************************************************)
(* The steps of shutdown().                                                *)
(***************************************************************************)
\* What stop() and terminate() do to a manager.
LEMMA FlagsOK ==
  ASSUME Typed, NEW m \in Managers, ThreadsOK(m), NoneStarting(m),
         NEW running, NEW thread, NEW D, Flags(m, running, thread, D),
         running => obj[m].running, obj[m].doomed \subseteq D, D = obj[m].doomed \/ SoundlyLeaving(m),
         \A k \in LiveThreads(m) : k \in D \/ thread = k
  PROVE  /\ ThreadsOK(m)' /\ LiveAfter(m) = LiveThreads(m)
         /\ (Halted(m) => HaltedAfter(m)) /\ (SteadyAfter(m) => Steady(m))
         /\ (SoundlyLeaving(m) => SoundAfter(m))
<1>1. /\ obj'[m].threads = obj[m].threads /\ obj'[m].running = running
      /\ obj'[m].inited = obj[m].inited /\ obj'[m].thread = thread /\ obj'[m].doomed = D
  BY DEF Flags
<1>2. LiveThreads(m)' = LiveThreads(m) /\ LiveAfter(m) = LiveThreads(m)
  BY <1>1, SameThreads, After
<1>3. /\ \A j, k \in LiveThreads(m)' : j = k
      /\ \A k \in LiveThreads(m)' : k \in obj'[m].doomed \/ obj'[m].thread = k
      /\ \A k \in LiveThreads(m)' \cap obj'[m].doomed :
           obj'[m].threads[k] \in {"down", "drain"} => ~obj'[m].running
  BY <1>1, <1>2 DEF ThreadsOK, SoundlyLeaving
<1>4. /\ \A k \in DOMAIN obj'[m].threads : obj'[m].threads[k] # "new"
      /\ ~(Len(obj'[m].threads) = 1 /\ obj'[m].threads[1] = "boot")
  BY <1>1 DEF NoneStarting
<1>5. obj'[m].inited => obj'[m].threads # <<>> /\ obj'[m].threads[1] \notin {"new", "boot"}
  BY <1>1 DEF ThreadsOK
<1>6. ThreadsOK(m)'
  BY <1>3, <1>4, <1>5 DEF ThreadsOK
<1>7. QED
  BY <1>1, <1>2, <1>6
     DEF Halted, HaltedAfter, Steady, SteadyAfter, SoundlyLeaving, SoundAfter

\* One manager is stopped or terminated.
LEMMA CalmFlags ==
  ASSUME Typed, CalmInv, NEW c \in Clients, call[c].pc \in Halting \cup {"visit"}, Moves(c),
         managers' = managers, alive' = alive, NEW m \in Managers,
         NEW running, NEW thread, NEW D, Flags(m, running, thread, D),
         running => obj[m].running, obj[m].doomed \subseteq D, D = obj[m].doomed \/ SoundlyLeaving(m),
         \A k \in LiveThreads(m) : k \in D \/ thread = k,
         SubmitOK(c)', ShutdownOK(c)'
  PROVE  CalmInv'
<1>1. \A n \in Managers : NoneStarting(n)
  BY NotStarting DEF Halting
<1>2. \A n \in Managers : n # m => Same(n)
  BY DEF Flags, Touches, Same
<1>3. /\ ThreadsOK(m)' /\ (Halted(m) => HaltedAfter(m)) /\ (SteadyAfter(m) => Steady(m))
  BY <1>1, FlagsOK DEF CalmInv
<1>4. \A n \in Managers : ThreadsOK(n)'
  BY <1>1, <1>2, <1>3, KeepsThreads DEF CalmInv
<1>5. \A n \in Managers : (Steady(n)' => Steady(n)) /\ (Halted(n) => Halted(n)')
  BY <1>2, <1>3, SameState, After
<1>6. Listed' = Listed /\ Listed \subseteq Managers
  <2>1. \A mode \in DOMAIN managers : managers[mode] \in Managers
    BY CreatedBounded DEF Typed, TablesTyped
  <2>2. QED
    BY <2>1 DEF Listed
<1>7. \A n \in Managers : Steady(n)' => n \in Listed'
  BY <1>5, <1>6 DEF CalmInv
<1>8. ~alive' => \A n \in Listed' : Halted(n)'
  BY <1>5, <1>6 DEF CalmInv
<1>9. QED
  BY <1>4, <1>7, <1>8, CalmCaller DEF Moves, Halting

\* What the steps of shutdown() leave alone.
LEMMA StillHalted ==
  ASSUME Typed, CalmInv, NEW c \in Clients, call[c].pc \in Halting \cup {"visit"},
         NEW m \in Managers, NEW running, NEW thread, NEW D, Flags(m, running, thread, D),
         running => obj[m].running, obj[m].doomed \subseteq D, D = obj[m].doomed \/ SoundlyLeaving(m),
         \A k \in LiveThreads(m) : k \in D \/ thread = k
  PROVE  /\ LiveAfter(m) = LiveThreads(m)
         /\ \A n \in Managers : Halted(n) => HaltedAfter(n)
<1>1. \A n \in Managers : n # m => Same(n)
  BY DEF Flags, Touches, Same
<1>2. LiveAfter(m) = LiveThreads(m) /\ (Halted(m) => HaltedAfter(m))
  BY NotStarting, FlagsOK DEF CalmInv, Halting
<1>3. QED
  BY <1>1, <1>2, SameAfter

\* So does the visit of the next manager in shutdown().
LEMMA CalmVisit ==
  ASSUME Typed, CalmInv, NEW c \in Clients, Visit(c)
  PROVE  CalmInv'
<1>1. PICK mode \in call[c].todo \cap DOMAIN managers :
        LET m == managers[mode]
        IN  /\ Flags(m, FALSE, obj[m].thread, obj[m].doomed)
            /\ call' = [call EXCEPT ![c].pc = "stop", ![c].todo = @ \ {mode},
                                    ![c].mgr = m, ![c].seen = obj[m].thread]
  BY VisitStep
<1>2. PICK m \in Managers : m = managers[mode]
  BY CreatedBounded DEF Typed, TablesTyped
<1>3. PICK thread : thread = obj[m].thread
  OBVIOUS
<1>4. Flags(m, FALSE, thread, obj[m].doomed)
  BY <1>1, <1>2, <1>3
<1>5. /\ call[c].pc = "visit" /\ call[c].pc \in Halting \cup {"visit"} /\ managers' = managers /\ alive' = alive
      /\ DOMAIN call = Clients /\ DOMAIN call[c] = CallFields
  BY DEF Visit, At, execVars, tableVars, Typed, CallsTyped
<1>6. /\ call'[c].pc = "stop" /\ call'[c].todo = call[c].todo \ {mode}
      /\ call'[c].mgr = m /\ call'[c].seen = thread /\ call'[c].cleared = call[c].cleared
  BY <1>1, <1>2, <1>3, <1>5 DEF CallFields
<1>7. SubmitOK(c) /\ ShutdownOK(c) /\ ThreadsOK(m)
  BY DEF CalmInv
<1>8. \A k \in LiveThreads(m) : k \in obj[m].doomed \/ thread = k
  BY <1>3, <1>7 DEF ThreadsOK
<1>9. LiveAfter(m) = LiveThreads(m) /\ \A n \in Managers : Halted(n) => HaltedAfter(n)
  BY <1>4, <1>5, <1>8, StillHalted
<1>10. SubmitOK(c)'
  BY <1>5, <1>6, <1>7, SubmitAfter DEF SubmitOK
<1>11. \A other \in DOMAIN managers' \ call'[c].todo :
         managers'[other] = m \/ HaltedAfter(managers'[other])
  <2>1. TAKE other \in DOMAIN managers' \ call'[c].todo
  <2>2. CASE other = mode
    BY <1>2, <1>5, <2>2
  <2>3. CASE other # mode
    <3>1. other \in DOMAIN managers \ call[c].todo
      BY <1>5, <1>6, <2>3
    <3>2. Halted(managers[other])
      BY <1>5, <1>7, <3>1 DEF ShutdownOK, At
    <3>3. managers[other] \in Managers
      BY <3>1, CreatedBounded DEF Typed, TablesTyped
    <3>4. QED
      BY <1>5, <1>9, <3>2, <3>3
  <2>4. QED
    BY <2>2, <2>3
<1>12. thread = NoThread => HaltedAfter(m)
  <2>1. HAVE thread = NoThread
  <2>2. \A k \in LiveThreads(m) : k # NoThread
    BY ManagerFields DEF LiveThreads, NoThread
  <2>3. Halted(m)
    BY <1>8, <2>1, <2>2 DEF Halted
  <2>4. QED
    BY <1>9, <2>3
<1>13. SoundAfter(m)
  BY <1>4 DEF Flags, SoundAfter
<1>14. ShutdownOK(c)'
  BY <1>6, <1>11, <1>12, <1>13, ShutdownAfter
<1>15. Moves(c)
  BY StepMoves DEF ClientStep, ShutdownStep
<1>16. QED
  BY <1>4, <1>5, <1>8, <1>10, <1>14, <1>15, CalmFlags

\* So does what comes behind the last look at a thread: stop() or terminate()
\* forgets it.
LEMMA CalmHalts ==
  ASSUME Typed, CalmInv, NEW c \in Clients, call[c].pc \in Halting, Visited(c), ClientStep(c),
         managers' = managers, alive' = alive, NEW m \in Managers, m = call[c].mgr,
         NEW running, NEW D, Flags(m, running, NoThread, D),
         running => obj[m].running, obj[m].doomed \subseteq D,
         D = obj[m].doomed \/ SoundlyLeaving(m), LiveThreads(m) \subseteq D
  PROVE  CalmInv'
<1>1. /\ DOMAIN call = Clients /\ DOMAIN call[c] = CallFields
      /\ call[c].pc \in Halting \cup {"visit"}
  BY DEF Typed, CallsTyped
<1>2. /\ call'[c].pc = "visit" /\ call'[c].todo = call[c].todo
      /\ call'[c].cleared = call[c].cleared
  BY <1>1 DEF Visited, CallFields
<1>3. SubmitOK(c) /\ ShutdownOK(c)
  BY DEF CalmInv
<1>4. \A k \in LiveThreads(m) : k \in D \/ NoThread = k
  OBVIOUS
<1>5. LiveAfter(m) = LiveThreads(m) /\ \A n \in Managers : Halted(n) => HaltedAfter(n)
  BY <1>1, <1>4, StillHalted
<1>6. HaltedAfter(m)
  BY <1>5 DEF HaltedAfter, Flags
<1>7. SubmitOK(c)'
  BY <1>2, <1>3, SubmitAfter DEF SubmitOK, Halting
<1>8. \A other \in DOMAIN managers' \ call'[c].todo : HaltedAfter(managers'[other])
  <2>1. TAKE other \in DOMAIN managers' \ call'[c].todo
  <2>2. other \in DOMAIN managers \ call[c].todo
    BY <1>2
  <2>3. managers[other] = m \/ Halted(managers[other])
    BY <1>1, <1>3, <2>2 DEF ShutdownOK
  <2>4. managers[other] \in Managers
    BY <2>2, CreatedBounded DEF Typed, TablesTyped
  <2>5. QED
    BY <1>5, <1>6, <2>3, <2>4
<1>9. ShutdownOK(c)'
  BY <1>2, <1>8, ShutdownAfter
<1>10. Moves(c)
  BY StepMoves
<1>11. QED
  BY <1>1, <1>4, <1>7, <1>9, <1>10, CalmFlags

\* So does the end of stop() or terminate() without a living thread.
LEMMA CalmStopped ==
  ASSUME Typed, CalmInv, NEW c \in Clients, StopDone(c)
  PROVE  CalmInv'
<1>1. PICK m \in Managers : m = call[c].mgr
  BY CreatedBounded DEF StopDone, Testing, Typed, CallsTyped, HasManager
<1>2. PICK running, D : running = obj[m].running /\ D = obj[m].doomed
  OBVIOUS
<1>3. Flags(m, running, NoThread, D)
  BY <1>1, <1>2, StoppedStep
<1>4. /\ call[c].pc \in Halting /\ managers' = managers /\ alive' = alive /\ Visited(c)
  BY DEF StopDone, Testing, Halting, execVars, tableVars
<1>5. SubmitOK(c) /\ ShutdownOK(c) /\ ThreadsOK(m)
  BY DEF CalmInv
<1>6. LiveThreads(m) \subseteq D
  <2>1. CASE call[c].seen = NoThread
    BY <1>1, <1>2, <1>5, <2>1 DEF StopDone, ShutdownOK, Halted
  <2>2. CASE call[c].seen # NoThread
    <3>1. ~Alive(m, obj[m].thread)
      BY <1>1, <2>2 DEF StopDone, Living, Thread
    <3>2. \A k \in LiveThreads(m) : k # obj[m].thread
      BY <3>1 DEF LiveThreads
    <3>3. QED
      BY <1>2, <1>5, <3>2 DEF ThreadsOK
  <2>3. QED
    BY <2>1, <2>2
<1>7. ClientStep(c)
  BY DEF ClientStep, ShutdownStep
<1>8. /\ running => obj[m].running
      /\ obj[m].doomed \subseteq D
      /\ D = obj[m].doomed \/ SoundlyLeaving(m)
  BY <1>2
<1>9. QED
  BY <1>1, <1>3, <1>4, <1>6, <1>7, <1>8, CalmHalts

\* So does terminate(), when it hits the thread.
LEMMA CalmTerminate ==
  ASSUME Typed, CalmInv, NEW c \in Clients, Terminate(c)
  PROVE  CalmInv'
<1>1. PICK m \in Managers : m = call[c].mgr
  BY CreatedBounded DEF Terminate, At, Typed, CallsTyped, HasManager
<1>2. PICK running : running = obj[m].running
  OBVIOUS
<1>3. PICK D : D = obj[m].doomed \cup {obj[m].thread}
  OBVIOUS
<1>4. Flags(m, running, NoThread, D)
  BY <1>1, <1>2, <1>3, TerminateStep
<1>5. /\ call[c].pc \in Halting /\ managers' = managers /\ alive' = alive /\ Visited(c)
  BY DEF Terminate, At, Halting, execVars, tableVars
<1>6. SubmitOK(c) /\ ShutdownOK(c) /\ ThreadsOK(m)
  BY DEF CalmInv
<1>7. LiveThreads(m) \subseteq D
  BY <1>3, <1>6 DEF ThreadsOK
<1>8. SoundlyLeaving(m)
  BY <1>1, <1>6 DEF Terminate, At, ShutdownOK
<1>9. ClientStep(c)
  BY DEF ClientStep, ShutdownStep
<1>10. (running => obj[m].running) /\ obj[m].doomed \subseteq D
  BY <1>2, <1>3
<1>11. QED
  BY <1>1, <1>4, <1>5, <1>7, <1>8, <1>9, <1>10, CalmHalts

\* So does the way of stop() and terminate() from one read of `_thread` to the
\* next.
LEMMA CalmWaits ==
  ASSUME Typed, CalmInv, NEW c \in Clients, StopFinds(c) \/ StopJoins(c) \/ JoinReturns(c)
  PROVE  CalmInv'
<1>1. PICK m \in Managers : m = call[c].mgr
  BY CreatedBounded DEF StopFinds, StopJoins, JoinReturns, Testing, At, Typed, CallsTyped,
                        HasManager
<1>2. /\ call[c].pc \in Halting /\ managers' = managers /\ alive' = alive
      /\ \A n \in Managers : Same(n)
      /\ DOMAIN call = Clients /\ DOMAIN call[c] = CallFields
  BY DEF StopFinds, StopJoins, JoinReturns, At, Halting, execVars, tableVars, Typed,
         CallsTyped, Same
<1>3. /\ call'[c].pc \in {"found", "join", "retest"} /\ call'[c].todo = call[c].todo
      /\ call'[c].mgr = m /\ call'[c].wait = call[c].wait
      /\ call'[c].cleared = call[c].cleared
      /\ call'[c].pc = "found" => call[c].pc = "stop"
      /\ call'[c].pc = "retest" => call'[c].seen = obj[m].thread
  BY <1>1, <1>2 DEF StopFinds, StopJoins, JoinReturns, Goto, At, Thread, CallFields
<1>4. SubmitOK(c) /\ ShutdownOK(c) /\ ThreadsOK(m)
  BY DEF CalmInv
<1>5. SubmitOK(c)'
  BY <1>2, <1>3, <1>4, SubmitAfter DEF SubmitOK, Halting
<1>6. \A other \in DOMAIN managers' \ call'[c].todo :
        managers'[other] = m \/ HaltedAfter(managers'[other])
  <2>1. TAKE other \in DOMAIN managers' \ call'[c].todo
  <2>2. other \in DOMAIN managers \ call[c].todo
    BY <1>2, <1>3
  <2>3. managers[other] = m \/ Halted(managers[other])
    BY <1>1, <1>2, <1>4, <2>2 DEF ShutdownOK
  <2>4. managers[other] \in Managers
    BY <2>2, CreatedBounded DEF Typed, TablesTyped
  <2>5. QED
    BY <1>2, <2>3, <2>4, SameAfter
<1>7. obj[m].thread = NoThread => HaltedAfter(m)
  <2>1. HAVE obj[m].thread = NoThread
  <2>2. \A k \in LiveThreads(m) : k # NoThread
    BY ManagerFields DEF LiveThreads, NoThread
  <2>3. Halted(m)
    BY <1>4, <2>1, <2>2 DEF ThreadsOK, Halted
  <2>4. QED
    BY <1>2, <2>3, SameAfter
<1>8. call'[c].pc = "found" /\ ~call'[c].wait => SoundAfter(m)
  BY <1>1, <1>2, <1>3, <1>4, SameAfter DEF ShutdownOK
<1>9. ShutdownOK(c)'
  BY <1>3, <1>6, <1>7, <1>8, ShutdownAfter
<1>10. Moves(c) /\ \A n \in Managers : NoneStarting(n)
  BY <1>2, StepMoves, NotStarting DEF ClientStep, ShutdownStep, Halting
<1>11. QED
  BY <1>2, <1>5, <1>9, <1>10, CalmQuiet DEF Halting

\* So does the end of shutdown().
LEMMA CalmShutdownEnds ==
  ASSUME Typed, CalmInv, NEW c \in Clients, ShutdownEnds(c)
  PROVE  CalmInv'
<1>1. /\ call[c].pc = "visit" /\ managers' = managers /\ \A m \in Managers : Same(m)
      /\ call[c].todo \cap DOMAIN managers = {} /\ Leave(c)
  BY DEF ShutdownEnds, At, tableVars, Same
<1>2. Moves(c) /\ SubmitOK(c)' /\ ShutdownOK(c)' /\ \A m \in Managers : NoneStarting(m)
  BY <1>1, LeaveMoves, LeaveCalm, NotStarting
<1>3. \A m \in Managers : ThreadsOK(m)'
  BY <1>1, <1>2, KeepsThreads DEF CalmInv
<1>4. Listed' = Listed /\ Listed \subseteq Managers
  <2>1. \A mode \in DOMAIN managers : managers[mode] \in Managers
    BY CreatedBounded DEF Typed, TablesTyped
  <2>2. QED
    BY <1>1, <2>1 DEF Listed
<1>5. \A m \in Managers : Steady(m)' => m \in Listed'
  BY <1>1, <1>4, SameState DEF CalmInv
<1>6. \A m \in Listed : Halted(m)
  <2>1. ShutdownOK(c)
    BY DEF CalmInv
  <2>2. \A mode \in DOMAIN managers : mode \notin call[c].todo
    BY <1>1
  <2>3. QED
    BY <1>1, <2>1, <2>2 DEF ShutdownOK, Listed, At
<1>7. \A m \in Listed' : Halted(m)'
  BY <1>1, <1>4, <1>6, SameState
<1>8. QED
  BY <1>1, <1>2, <1>3, <1>5, <1>7, CalmCaller DEF Moves

-----------------------------------------------------------------------------
(***************************************************************************)
(* A call begins: no other is under way.                                   *)
(***************************************************************************)
LEMMA CalmBegins ==
  ASSUME Typed, CalmInv, NEW c \in Clients, Begins(c), \A d \in Clients : d # c => call[d].pc = "idle",
         managers' = managers, alive' = alive, obj' = obj, SubmitOK(c)', ShutdownOK(c)'
  PROVE  CalmInv'
<1>1. \A m \in Managers : Same(m)
  BY DEF Same
<1>2. \A m \in Managers : NoneStarting(m)
  <2>1. TAKE m \in Managers
  <2>2. ThreadsOK(m) /\ \A d \in Clients : ~At(d, "launch") /\ ~At(d, "spin")
    BY DEF CalmInv, Begins, At
  <2>3. QED
    BY <2>2 DEF ThreadsOK, NoneStarting
<1>3. \A m \in Managers : ThreadsOK(m)'
  BY <1>1, <1>2, KeepsThreads DEF CalmInv
<1>4. Listed' = Listed /\ Listed \subseteq Managers
  <2>1. \A mode \in DOMAIN managers : managers[mode] \in Managers
    BY CreatedBounded DEF Typed, TablesTyped
  <2>2. QED
    BY <2>1 DEF Listed
<1>5. \A m \in Managers : Steady(m)' => m \in Listed'
  BY <1>1, <1>4, SameState DEF CalmInv
<1>6. ~alive' => \A m \in Listed' : Halted(m)'
  BY <1>1, <1>4, SameState DEF CalmInv
<1>7. \A d \in Clients : call[d].pc = "idle"
  BY DEF Begins
<1>8. QED
  BY <1>3, <1>5, <1>6, <1>7, CalmCaller DEF Begins

\* So does a submit() that begins, unless it overlaps a shutdown().
LEMMA CalmSubmitTask ==
  ASSUME Typed, CalmInv, NEW c \in Clients, NEW t \in Tasks, SubmitTask(c, t), ~overlapped'
  PROVE  CalmInv'
<1>1. /\ managers' = managers /\ alive' = alive /\ obj' = obj
      /\ \A d \in Clients : d # c => call[d].pc = "idle"
  BY DEF SubmitTask, Overlap, execVars, tableVars, At
<1>2. CASE call' = call
  BY <1>1, <1>2, CalmSame DEF Same
<1>3. CASE Begins(c) /\ call'[c].pc = "choice"
  <2>1. SubmitOK(c)'
    BY <1>3, SubmitAfter DEF Begins
  <2>2. ShutdownOK(c)'
    BY <1>3, ShutdownAfter
  <2>3. QED
    BY <1>1, <1>3, <2>1, <2>2, CalmBegins
<1>4. QED
  BY <1>2, <1>3, SubmitBegins

\* So does a shutdown() that begins, unless it overlaps a call.
LEMMA CalmShutdown ==
  ASSUME Typed, CalmInv, NEW c \in Clients, NEW wait, Shutdown(c, wait), ~overlapped'
  PROVE  CalmInv'
<1>1. /\ managers' = managers /\ alive' = alive /\ obj' = obj
      /\ \A d \in Clients : d # c => call[d].pc = "idle"
  BY DEF Shutdown, Overlap, execVars, tableVars, At
<1>2. Begins(c) /\ call'[c].pc = "visit" /\ call'[c].todo = DOMAIN managers
  BY ShutdownBegins
<1>3. SubmitOK(c)'
  BY <1>2, SubmitAfter DEF Begins
<1>4. ShutdownOK(c)'
  BY <1>1, <1>2, ShutdownAfter
<1>5. QED
  BY <1>1, <1>2, <1>3, <1>4, CalmBegins

-----------------------------------------------------------------------------
(***************************************************************************)
(* The inductive invariant, and what follows from it.                      *)
(***************************************************************************)
LEMMA CalmClient ==
  ASSUME Typed, Typed', CalmInv, NEW c \in Clients, ClientStep(c)
  PROVE  CalmInv'
<1>1. CASE \/ UnknownMode(c) \/ StartRaises(c) \/ LaunchRaises(c) \/ IterationFails(c)
           \/ SubmitRaises(c) \/ Queue(c) \/ StopRaises(c) \/ StopExpires(c)
  BY <1>1, CalmLeaves
<1>2. CASE \/ NoClear(c) \/ BeginClear(c) \/ ClearScan(c) \/ ClearScanned(c) \/ ClearEnds(c)
           \/ Submit(c)
  BY <1>2, CalmClear
<1>3. CASE Choose(c) \/ Create(c) \/ Mark(c) \/ StartAssigns(c) \/ Launch(c) \/ StartReturns(c)
  BY <1>3, CalmChoose, CalmCreate, CalmMark, CalmStartAssigns, CalmLaunch, CalmStartReturns
<1>4. CASE ClearPop(c)
  BY <1>4, CalmClearPop
<1>5. CASE \/ Visit(c) \/ StopDone(c) \/ StopFinds(c) \/ StopJoins(c) \/ JoinReturns(c)
           \/ Terminate(c) \/ ShutdownEnds(c)
  BY <1>5, CalmVisit, CalmStopped, CalmWaits, CalmTerminate, CalmShutdownEnds
<1>6. QED
  BY <1>1, <1>2, <1>3, <1>4, <1>5 DEF ClientStep, SubmitStep, ShutdownStep

\* Calls that have overlapped have done so for ever.
LEMMA StaysOverlapped ==
  ASSUME overlapped, [Next]_vars
  PROVE  overlapped'
<1>1. CASE \E c \in Clients : ClientStep(c)
  <2>1. ASSUME NEW c \in Clients, SubmitStep(c)
        PROVE  overlapped'
    BY <2>1
       DEF SubmitStep, Choose, UnknownMode, Create, Mark, StartRaises, StartAssigns,
           LaunchRaises, Launch, StartReturns, NoClear, BeginClear, ClearScan, ClearScanned,
           ClearPop, ClearEnds, SubmitRaises, Submit, Queue, history
  <2>2. ASSUME NEW c \in Clients, ShutdownStep(c) \/ IterationFails(c)
        PROVE  overlapped'
    BY <2>2
       DEF ShutdownStep, Visit, StopDone, StopRaises, StopFinds, StopJoins, JoinReturns, StopExpires,
           Terminate, ShutdownEnds, IterationFails, history
  <2>3. QED
    BY <1>1, <2>1, <2>2 DEF ClientStep
<1>2. CASE (\E c \in Submitters, t \in Tasks : SubmitTask(c, t))
           \/ (\E wait \in BOOLEAN : Shutdown(Owner, wait))
  BY <1>2 DEF SubmitTask, Shutdown, Overlap
<1>3. CASE \E m \in Managers : RunManager(m) \/ ManagerGivesUp(m) \/ RunWorkers(m)
  BY <1>3 DEF RunManager, ManagerGivesUp, RunWorkers, history
<1>4. CASE UNCHANGED vars
  BY <1>4 DEF vars, history
<1>5. QED
  BY <1>1, <1>2, <1>3, <1>4 DEF Next, Finished

\* Every step keeps the invariant of the executor.
LEMMA InvStep ==
  ASSUME ExecutorInv, [Next]_vars
  PROVE  ExecutorInv'
<1>1. Typed /\ Typed'
  BY TypedStep DEF ExecutorInv
<1>2. ASSUME ~overlapped' PROVE CalmInv'
  <2>1. CalmInv
    BY <1>2, StaysOverlapped DEF ExecutorInv
  <2>2. Submitters \subseteq Clients /\ Owner \in Clients
    BY ExecutorAssumption
  <2>3. CASE \E c \in Clients : ClientStep(c)
    BY <1>1, <2>1, <2>3, CalmClient
  <2>4. CASE \E c \in Submitters, t \in Tasks : SubmitTask(c, t)
    BY <1>1, <1>2, <2>1, <2>2, <2>4, CalmSubmitTask
  <2>5. CASE \E wait \in BOOLEAN : Shutdown(Owner, wait)
    BY <1>1, <1>2, <2>1, <2>2, <2>5, CalmShutdown
  <2>6. CASE \E m \in Managers : RunManager(m) \/ ManagerGivesUp(m) \/ RunWorkers(m)
    BY <1>1, <2>1, <2>6, CalmThreads, CalmWorkers
  <2>7. CASE UNCHANGED vars
    <3>1. call' = call /\ managers' = managers /\ alive' = alive /\ obj' = obj
      BY <2>7 DEF vars, execVars, tableVars
    <3>2. QED
      BY <1>1, <2>1, <3>1, CalmSame DEF Same
  <2>8. QED
    BY <2>3, <2>4, <2>5, <2>6, <2>7 DEF Next, Finished
<1>3. QED
  BY <1>1, <1>2 DEF ExecutorInv

\* An executor that was just created satisfies it.
LEMMA InvInit ==
  ASSUME Init
  PROVE  ExecutorInv
<1>1. /\ \A m \in Managers : obj[m] = NewManager
      /\ \A c \in Clients : call[c] = NoCall
      /\ managers = <<>> /\ alive = TRUE
  BY DEF Init
<1>2. \A c \in Clients : call[c].pc = "idle" /\ call[c].cleared = {}
  BY <1>1, NoCallFacts
<1>3. \A m \in Managers : LiveThreads(m) = {} /\ obj[m].threads = <<>> /\ ~obj[m].inited
                          /\ ~obj[m].running
  BY <1>1 DEF LiveThreads, NewManager
<1>4. \A m \in Managers : ThreadsOK(m)
  BY <1>3 DEF ThreadsOK
<1>5. \A c \in Clients : SubmitOK(c) /\ ShutdownOK(c)
  BY <1>2 DEF SubmitOK, ShutdownOK, Testing, Halting, At
<1>6. \A m \in Managers : ~Steady(m)
  BY <1>3 DEF Steady
<1>7. Alone
  BY <1>2 DEF Alone, At
<1>8. CalmInv
  BY <1>1, <1>4, <1>5, <1>6, <1>7 DEF CalmInv
<1>9. QED
  BY <1>8, TypedInit DEF ExecutorInv

\* It holds in every state of the executor.
LEMMA Invariance == Spec => []ExecutorInv
<1>1. Init => ExecutorInv
  BY InvInit
<1>2. ExecutorInv /\ [Next]_vars => ExecutorInv'
  BY InvStep
<1>3. QED
  BY <1>1, <1>2, PTL DEF Spec

\* As long as calls do not overlap, no manager ever has two threads
\* (submit_task, ThreadManager.start, stop and terminate).
THEOREM NoManagerHasTwoThreads == Spec => []OneThread
<1>1. ExecutorInv => OneThread
  <2>1. SUFFICES ASSUME ExecutorInv, ~overlapped, NEW m \in Managers
                 PROVE  Cardinality(LiveThreads(m)) <= 1
    BY DEF OneThread
  <2>2. \A j, k \in LiveThreads(m) : j = k
    BY <2>1 DEF ExecutorInv, CalmInv, ThreadsOK
  <2>3. CASE LiveThreads(m) = {}
    BY <2>3, FS_EmptySet
  <2>4. CASE \E k : LiveThreads(m) = {k}
    BY <2>4, FS_Singleton
  <2>5. QED
    BY <2>2, <2>3, <2>4
<1>2. QED
  BY <1>1, Invariance, PTL

\* As long as calls do not overlap, a manager started once that serves tasks
\* stays in _managers: _clear_manager_if_needed and the creation of another
\* manager put away managers that do not run, and one that does not run after
\* its first start has ended.  A manager that was started again is excepted: it
\* may be cleared before its new thread runs.
THEOREM OnlyRestartedManagersAreOrphaned == Spec => []OrphansWereRestarted
<1>1. ExecutorInv => OrphansWereRestarted
  <2>1. SUFFICES ASSUME ExecutorInv, ~overlapped, NEW m \in Managers \ Listed,
                        obj[m].running, LiveThreads(m) # {}
                 PROVE  Len(obj[m].threads) > 1
    BY DEF OrphansWereRestarted
  <2>2. PICK k \in DOMAIN obj[m].threads : k \in LiveThreads(m)
    BY <2>1 DEF LiveThreads
  <2>3. /\ Len(obj[m].threads) \in Nat
        /\ DOMAIN obj[m].threads = 1 .. Len(obj[m].threads)
    BY <2>1 DEF ExecutorInv, Typed, ManagersTyped, ManagerRecords
  <2>4. ASSUME Len(obj[m].threads) = 1
        PROVE  LiveThreads(m) = {1}
    BY <2>2, <2>3, <2>4 DEF LiveThreads
  <2>5. ~Steady(m)
    BY <2>1 DEF ExecutorInv, CalmInv
  <2>6. Len(obj[m].threads) # 1
    BY <2>1, <2>4, <2>5 DEF Steady
  <2>7. QED
    <3> DEFINE n == Len(obj[m].threads)
    <3>1. n \in Nat /\ n # 1 /\ k \in 1 .. n
      BY <2>2, <2>3, <2>6
    <3> HIDE DEF n
    <3>2. n > 1
      BY <3>1
    <3>3. QED
      BY <3>2 DEF n
<1>2. QED
  BY <1>1, Invariance, PTL

\* As long as calls do not overlap, when the executor is not alive, shutdown()
\* has waited for the thread of every manager in _managers, or terminate() has
\* raised SystemExit in it.
THEOREM DeadExecutorsAreStopped == Spec => []DeadIsStopped
<1>1. ExecutorInv => DeadIsStopped
  BY DEF ExecutorInv, CalmInv, DeadIsStopped, Halted
<1>2. QED
  BY <1>1, Invariance, PTL

-----------------------------------------------------------------------------
(***************************************************************************)
(* The choice of a mode (filter_by_tags, _guess_mode).                     *)
(***************************************************************************)
\* A set of numbers that is not empty has a least member.
LEMMA LeastMember ==
  ASSUME NEW S, S \subseteq Nat, S # {}
  PROVE  \E k \in S : \A j \in S : k <= j
<1> DEFINE R == OpToRel(<, Nat)
<1>1. IsWellFoundedOn(R, Nat)
  BY NatLessThanWellFounded
<1>2. PICK k \in S : \A j \in S : ~ (<<j, k>> \in R)
  <2> HIDE DEF R
  <2> QED
    BY <1>1, WFMin
<1>3. \A j \in S : ~ (j < k)
  BY <1>2 DEF OpToRel
<1>4. QED
  BY <1>3

\* What is left after a tag follows from what was left before it.
Narrowed(repository, tags, left) ==
  left = [i \in DOMAIN left |->
            IF i = 0 THEN {}
            ELSE IF left[i - 1] = {} THEN Indexed(repository, tags[i])
            ELSE left[i - 1] \cap Indexed(repository, tags[i])]

\* The names that are left can be computed, one tag after the other.
LEMMA NarrowedExists ==
  ASSUME NEW repository, NEW tags, NEW n \in Nat
  PROVE  \E left : Narrowed(repository, tags, left) /\ DOMAIN left = 0 .. n
<1> DEFINE Fails == {k \in Nat : ~ \E left : /\ Narrowed(repository, tags, left)
                                             /\ DOMAIN left = 0 .. k}
<1>1. SUFFICES ASSUME Fails # {} PROVE FALSE
  OBVIOUS
<1>2. PICK k \in Fails : \A j \in Fails : k <= j
  <2>1. Fails \subseteq Nat
    OBVIOUS
  <2> HIDE DEF Fails
  <2>2. QED
    BY <1>1, <2>1, LeastMember
<1>3. k \in Nat /\ \A j \in Nat : j < k => j \notin Fails
  BY <1>2
<1>4. CASE k = 0
  <2>1. Narrowed(repository, tags, [i \in 0 .. 0 |-> {}]) /\ DOMAIN [i \in 0 .. 0 |-> {}] = 0 .. k
    BY <1>4 DEF Narrowed
  <2>2. QED
    BY <2>1
<1>5. CASE k # 0
  <2>1. k - 1 \in Nat /\ k - 1 < k
    BY <1>3, <1>5
  <2>2. PICK left : Narrowed(repository, tags, left) /\ DOMAIN left = 0 .. (k - 1)
    BY <1>3, <2>1
  <2> DEFINE last == IF left[k - 1] = {} THEN Indexed(repository, tags[k])
                     ELSE left[k - 1] \cap Indexed(repository, tags[k])
             more == [i \in 0 .. k |-> IF i = k THEN last ELSE left[i]]
  <2>3. DOMAIN more = 0 .. k
    OBVIOUS
  <2>4. \A i \in 0 .. k :
          more[i] = IF i = 0 THEN {}
                    ELSE IF more[i - 1] = {} THEN Indexed(repository, tags[i])
                    ELSE more[i - 1] \cap Indexed(repository, tags[i])
    <3>1. SUFFICES ASSUME NEW i \in 0 .. k
                   PROVE  more[i] = IF i = 0 THEN {}
                                    ELSE IF more[i - 1] = {} THEN Indexed(repository, tags[i])
                                    ELSE more[i - 1] \cap Indexed(repository, tags[i])
      OBVIOUS
    <3>2. CASE i = k
      <4>1. i # 0 /\ more[i] = last /\ more[i - 1] = left[i - 1] /\ i - 1 = k - 1
        BY <1>3, <1>5, <2>1, <3>2
      <4> HIDE DEF more
      <4>2. QED
        BY <3>2, <4>1
    <3>3. CASE i # k
      <4>1. i \in 0 .. (k - 1) /\ more[i] = left[i] /\ (i # 0 => more[i - 1] = left[i - 1])
        BY <1>3, <3>3
      <4>2. left[i] = IF i = 0 THEN {}
                      ELSE IF left[i - 1] = {} THEN Indexed(repository, tags[i])
                      ELSE left[i - 1] \cap Indexed(repository, tags[i])
        BY <2>2, <4>1 DEF Narrowed
      <4> HIDE DEF more
      <4>3. QED
        BY <4>1, <4>2
    <3>4. QED
      BY <3>2, <3>3
  <2> HIDE DEF more
  <2>5. more = [i \in 0 .. k |-> more[i]]
    BY DEF more
  <2>6. Narrowed(repository, tags, more)
    BY <2>3, <2>4, <2>5 DEF Narrowed
  <2>7. QED
    BY <1>2, <2>3, <2>6
<1>6. QED
  BY <1>4, <1>5

\* So NamesLeft is what it says.
LEMMA LeftNarrows ==
  ASSUME NEW repository, NEW tags \in Seq(STRING)
  PROVE  /\ Narrowed(repository, tags, NamesLeft(repository, tags))
         /\ DOMAIN NamesLeft(repository, tags) = 0 .. Len(tags)
<1> DEFINE Is(left) == left = [i \in 0 .. Len(tags) |->
                                IF i = 0 THEN {}
                                ELSE IF left[i - 1] = {} THEN Indexed(repository, tags[i])
                                ELSE left[i - 1] \cap Indexed(repository, tags[i])]
<1>1. Len(tags) \in Nat
  OBVIOUS
<1>2. \E left : Is(left)
  <2>1. PICK left : Narrowed(repository, tags, left) /\ DOMAIN left = 0 .. Len(tags)
    BY <1>1, NarrowedExists
  <2>2. QED
    BY <2>1 DEF Narrowed
<1>3. NamesLeft(repository, tags) = CHOOSE left : Is(left)
  BY DEF NamesLeft
<1>4. Is(NamesLeft(repository, tags))
  BY <1>2, <1>3
<1>5. DOMAIN NamesLeft(repository, tags) = 0 .. Len(tags)
  BY <1>4
<1>6. QED
  BY <1>4, <1>5 DEF Narrowed

\* A name that is found by all the tags stays, and then no other name is left
\* that is not found by all of them.
LEMMA FilterFits ==
  ASSUME NEW repository, NEW tags \in Seq(STRING), NEW best,
         \A j \in 1 .. Len(tags) : best \in Indexed(repository, tags[j])
  PROVE  \A j \in 1 .. Len(tags) :
           FilterByTags(repository, tags) \subseteq Indexed(repository, tags[j])
<1> DEFINE left == NamesLeft(repository, tags)
           Fits(i) == best \in left[i] /\ \A j \in 1 .. i : left[i] \subseteq Indexed(repository, tags[j])
           Fails == {i \in 1 .. Len(tags) : ~Fits(i)}
<1>1. Len(tags) \in Nat /\ DOMAIN tags = 1 .. Len(tags)
  OBVIOUS
<1>2. \A i \in 0 .. Len(tags) :
        left[i] = IF i = 0 THEN {}
                  ELSE IF left[i - 1] = {} THEN Indexed(repository, tags[i])
                  ELSE left[i - 1] \cap Indexed(repository, tags[i])
  <2>1. Narrowed(repository, tags, left) /\ DOMAIN left = 0 .. Len(tags)
    BY LeftNarrows
  <2> HIDE DEF left
  <2>2. QED
    BY <2>1 DEF Narrowed
<1> HIDE DEF left
<1>3. Fails = {}
  <2>1. SUFFICES ASSUME Fails # {} PROVE FALSE
    OBVIOUS
  <2>2. PICK k \in Fails : \A j \in Fails : k <= j
    <3>1. Fails \subseteq Nat
      BY <1>1
    <3> HIDE DEF Fails
    <3>2. QED
      BY <2>1, <3>1, LeastMember
  <2>3. k \in 1 .. Len(tags) /\ k \in Nat /\ ~Fits(k)
    BY <1>1, <2>2
  <2>4. CASE k = 1
    <3>1. left[k] = Indexed(repository, tags[k])
      <4>1. k \in 0 .. Len(tags) /\ k - 1 = 0 /\ k # 0 /\ 0 \in 0 .. Len(tags)
        BY <1>1, <2>3, <2>4
      <4>2. left[0] = {}
        BY <1>2, <4>1
      <4>3. QED
        BY <1>2, <4>1, <4>2
    <3>2. \A j \in 1 .. k : j = k
      BY <2>4
    <3>3. QED
      BY <2>3, <3>1, <3>2
  <2>5. CASE k # 1
    <3>1. k - 1 \in 1 .. Len(tags) /\ k \in 0 .. Len(tags) /\ k # 0 /\ ~(k <= k - 1)
      BY <1>1, <2>3, <2>5
    <3>2. k - 1 \notin Fails
      BY <2>2, <3>1
    <3>3. Fits(k - 1)
      BY <3>1, <3>2
    <3>4. left[k] = left[k - 1] \cap Indexed(repository, tags[k])
      BY <1>2, <3>1, <3>3
    <3>5. \A j \in 1 .. k : j = k \/ j \in 1 .. (k - 1)
      BY <2>3
    <3>6. Fits(k)
      BY <2>3, <3>3, <3>4, <3>5
    <3>7. QED
      BY <2>3, <3>6
  <2>6. QED
    BY <2>4, <2>5
<1>4. CASE tags = <<>>
  BY <1>1, <1>4
<1>5. CASE tags # <<>>
  <2>1. Len(tags) \in 1 .. Len(tags)
    BY <1>1, <1>5
  <2>2. Fits(Len(tags))
    BY <1>3, <2>1
  <2>3. FilterByTags(repository, tags) = left[Len(tags)]
    BY <1>1 DEF FilterByTags, left
  <2>4. QED
    BY <2>2, <2>3
<1>6. QED
  BY <1>4, <1>5

\* A mode that is named is the only one; with tags, all modes are those that
\* filter_by_tags leaves; and only a coroutine function goes to "async" alone.
LEMMA GuessFits ==
  ASSUME NEW repository, NEW ask, ask.async \in BOOLEAN, ask.tags \in Seq(STRING),
         GuessMode(repository, ask) # {}
  PROVE  /\ ask.mode # AnyMode => GuessMode(repository, ask) = {ask.mode}
         /\ ask.tags # <<>> =>
              GuessMode(repository, ask) \subseteq FilterByTags(repository, ask.tags)
         /\ GuessMode(repository, ask) = {"async"} => ask.async
  BY DEF GuessMode

\* The names that the modes of a call are chosen from fit what it asked for.
LEMMA ChoiceInvFits == ChoiceInv => ChoiceFits
<1>1. SUFFICES ASSUME ChoiceInv, NEW c \in Clients, At(c, "choice")
               PROVE  /\ call[c].ask.mode # AnyMode => call[c].modes = {call[c].ask.mode}
                      /\ (\E name \in Names(repo) : Wanted(c) \subseteq FoundBy(name))
                           => \A name \in call[c].modes \cap Names(repo) :
                                Wanted(c) \subseteq FoundBy(name)
                      /\ call[c].modes = {"async"} => call[c].ask.async
  BY DEF ChoiceFits
<1> DEFINE ask == call[c].ask
<1>2. /\ ask \in [async : BOOLEAN, mode : STRING, tags : Seq(STRING)]
      /\ call[c].modes = GuessMode(repo, ask) /\ call[c].modes # {}
  BY <1>1, ExecutorAssumption DEF ChoiceInv
<1> HIDE DEF ask
<1>3. ask.async \in BOOLEAN /\ ask.tags \in Seq(STRING) /\ DOMAIN ask.tags = 1 .. Len(ask.tags)
  BY <1>2
<1>4. /\ ask.mode # AnyMode => call[c].modes = {ask.mode}
      /\ ask.tags # <<>> => call[c].modes \subseteq FilterByTags(repo, ask.tags)
      /\ call[c].modes = {"async"} => ask.async
  BY <1>2, <1>3, GuessFits
<1>5. ASSUME NEW best \in Names(repo), Wanted(c) \subseteq FoundBy(best),
             NEW name \in call[c].modes
      PROVE  Wanted(c) \subseteq FoundBy(name)
  <2>1. Wanted(c) = {ask.tags[i] : i \in 1 .. Len(ask.tags)}
    BY <1>3 DEF Wanted, ToSet, ask
  <2>2. \A j \in 1 .. Len(ask.tags) : best \in Indexed(repo, ask.tags[j])
    BY <1>5, <2>1 DEF FoundBy, Indexed
  <2>3. \A j \in 1 .. Len(ask.tags) : name \in Indexed(repo, ask.tags[j])
    <3>1. \A j \in 1 .. Len(ask.tags) :
            FilterByTags(repo, ask.tags) \subseteq Indexed(repo, ask.tags[j])
      BY <1>3, <2>2, FilterFits
    <3>2. ASSUME NEW j \in 1 .. Len(ask.tags)
          PROVE  ask.tags # <<>>
      BY <1>3
    <3>3. QED
      BY <1>4, <1>5, <3>1, <3>2
  <2>4. \A j \in 1 .. Len(ask.tags) : ask.tags[j] \in FoundBy(name)
    BY <2>3 DEF FoundBy, Indexed
  <2>5. QED
    BY <2>1, <2>4
<1>6. QED
  BY <1>4, <1>5 DEF ask

\* Only the start of a call chooses modes, and no step changes the repository.
LEMMA ChoiceInvStep ==
  ASSUME Typed, ChoiceInv, [Next]_vars
  PROVE  ChoiceInv'
<1>1. repo' = repo
  <2>1. CASE \E c \in Clients : ClientStep(c)
    <3>1. PICK c \in Clients : ClientStep(c)
      BY <2>1
    <3>2. CASE SubmitStep(c)
      BY <3>2 DEF SubmitStep, Choose, UnknownMode, Create, Mark, StartRaises, StartAssigns,
                  LaunchRaises, Launch, StartReturns, NoClear, BeginClear, ClearScan,
                  ClearScanned, ClearPop, ClearEnds, SubmitRaises, Submit, Queue, execVars,
                  tableVars
    <3>3. CASE ShutdownStep(c) \/ IterationFails(c)
      BY <3>3 DEF ShutdownStep, Visit, StopDone, StopRaises, StopFinds, StopJoins, JoinReturns, StopExpires,
                  Terminate, ShutdownEnds, IterationFails, execVars, tableVars
    <3>4. QED
      BY <3>1, <3>2, <3>3 DEF ClientStep
  <2>2. CASE ~ \E c \in Clients : ClientStep(c)
    BY <2>2 DEF Next, SubmitTask, Shutdown, RunManager, ManagerGivesUp, RunWorkers, Finished,
                vars, execVars, tableVars
  <2>3. QED
    BY <2>1, <2>2
<1>2. ASSUME NEW d \in Clients, call'[d].pc = "choice", call'[d] # call[d]
      PROVE  /\ call'[d].ask \in Asks
             /\ call'[d].modes = GuessMode(repo, call'[d].ask) /\ call'[d].modes # {}
  <2>1. CASE \E c \in Clients : ClientStep(c)
    BY <1>2, <2>1, StepMoves DEF Moves
  <2>2. CASE \E c \in Submitters, t \in Tasks : SubmitTask(c, t)
    <3>1. PICK c \in Submitters, t \in Tasks : SubmitTask(c, t)
      BY <2>2
    <3>2. PICK ask \in Asks :
            LET modes == GuessMode(repo, ask)
            IN  IF modes = {}
                THEN future' = [future EXCEPT ![t] = "raised"] /\ UNCHANGED call
                ELSE /\ future' = [future EXCEPT ![t] = "called"]
                     /\ call' = [call EXCEPT ![c] =
                                   [NoCall EXCEPT !.pc = "choice", !.task = t,
                                                  !.ask = ask, !.modes = modes]]
      BY <3>1 DEF SubmitTask
    <3>3. GuessMode(repo, ask) # {} /\ c = d /\ DOMAIN call = Clients
      BY <1>2, <3>2 DEF Typed, CallsTyped
    <3>4. call'[d] = [NoCall EXCEPT !.pc = "choice", !.task = t, !.ask = ask,
                                    !.modes = GuessMode(repo, ask)]
      BY <3>2, <3>3
    <3>5. call'[d].ask = ask /\ call'[d].modes = GuessMode(repo, ask)
      BY <3>4 DEF NoCall
    <3>6. QED
      BY <3>3, <3>5
  <2>3. CASE \E wait \in BOOLEAN : Shutdown(Owner, wait)
    BY <1>2, <2>3, NoCallFacts, ExecutorAssumption DEF Shutdown, Typed, CallsTyped, CallFields
  <2>4. CASE UNCHANGED call
    BY <1>2, <2>4
  <2>5. QED
    BY <2>1, <2>2, <2>3, <2>4 DEF Next, RunManager, ManagerGivesUp, RunWorkers, Finished, vars
<1>3. QED
  BY <1>1, <1>2 DEF ChoiceInv, At

\* If any specification has all the tags of a call, only specifications that
\* have them all are chosen from, in any order of the tags; a mode that the
\* caller names is the one it gets; and a plain function does not end up with
\* asynchronous workers as its only choice (_guess_mode, filter_by_tags).
THEOREM ChoicesFit == Spec => []ChoiceFits
<1>1. Init => ChoiceInv
  BY NoCallFacts DEF Init, ChoiceInv, At
<1>2. Init => Typed
  BY TypedInit
<1>3. Typed /\ ChoiceInv /\ [Next]_vars => Typed' /\ ChoiceInv'
  BY TypedStep, ChoiceInvStep
<1>4. ChoiceInv => ChoiceFits
  BY ChoiceInvFits
<1>5. QED
  BY <1>1, <1>2, <1>3, <1>4, PTL DEF Spec

=============================================================================

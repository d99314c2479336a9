---------------------------- MODULE QueueProofs -----------------------------
(***************************************************************************)
(* Proofs about the queue between processes: where each object is, the     *)
(* slots of the queue, and that it implements Channel.                     *)
(***************************************************************************)
EXTENDS ProcessQueue, FiniteSetTheorems, TLAPS

\* Objects that are in the hands of the queue: put, and not received.
Outside == fresh \cup admitted \cup received

(***************************************************************************)
(* An object is in one place: waiting to be put, in the buffer of its      *)
(* process, with the feeder, in the pipe, or received.                     *)
(***************************************************************************)
PutOnce ==
  /\ fresh \cap admitted = {} /\ (fresh \cup admitted) \cap received = {}
  /\ \A p \in exiting : \A i \in admitted : Producer[i] # p

BuffersApart ==
  \A p \in Procs :
    /\ \A k \in DOMAIN buffer[p] : /\ buffer[p][k] \notin Outside
                                   /\ Producer[buffer[p][k]] = p
                                   /\ buffer[p][k] # fed[p]
    /\ \A k, l \in DOMAIN buffer[p] : buffer[p][k] = buffer[p][l] => k = l

FedApart ==
  \A p \in Procs :
    fed[p] # NoItem => fed[p] \notin Outside /\ Producer[fed[p]] = p

PipeApart ==
  /\ \A k \in DOMAIN pipe : pipe[k] \notin Outside
  /\ \A k, l \in DOMAIN pipe : pipe[k] = pipe[l] => k = l
  /\ \A k \in DOMAIN pipe, p \in Procs :
       /\ pipe[k] # fed[p]
       /\ \A l \in DOMAIN buffer[p] : pipe[k] # buffer[p][l]

GotApart ==
  /\ \A g \in Getters : got[g] \in received \cup {NoItem}
  /\ \A g, h \in Getters : got[g] = got[h] => g = h \/ got[g] = NoItem

\* What the feeder and the getter hold at each of their control points.
HandsOK ==
  /\ \A p \in Procs : fed[p] # NoItem <=> feeder[p] \in {"pickle", "lock", "send"}
  /\ \A p \in Procs : Ended(p) => buffer[p] = <<>>
  /\ \A p \in Procs : feeder[p] = "gone" => p \in exiting
  /\ \A g \in Getters : getter[g] # "dead" =>
       (got[g] # NoItem <=> \/ getter[g] = "release"
                            \/ getter[g] = "unlock" /\ g \in Blocking)

PlaceInv == PutOnce /\ BuffersApart /\ FedApart /\ PipeApart /\ GotApart /\ HandsOK

\* The objects that occupy a slot are finitely many.
Used == Occupying \ {NoItem}
SlotInv == IsFiniteSet(Used) /\ SlotsAccounted

\* An object is lost only with its process, or because it cannot be pickled.
Kept(i) ==
  \/ i \in admitted \/ i = fed[Producer[i]]
  \/ \E k \in DOMAIN buffer[Producer[i]] : i = buffer[Producer[i]][k]
  \/ Delivered(i)
LossInv ==
  \A i \in Items \ fresh :
    \/ Kept(i)
    \/ feeder[Producer[i]] = "dead"
    \/ \E j \in Unsendable : Producer[j] = Producer[i]

\* The types, but for the bound of the semaphore, which SlotInv gives.
TypesOK ==
  /\ fresh \in SUBSET Items /\ admitted \in SUBSET Items
  /\ exiting \in SUBSET Procs
  /\ buffer \in [Procs -> Seq(Items)]
  /\ feeder \in [Procs -> {"wait", "pickle", "lock", "send", "unlock",
                           "gone", "dead"}]
  /\ fed \in [Procs -> Items \cup {NoItem}]
  /\ pipe \in Seq(Items) /\ sem \in Nat
  /\ wlock \in Procs \cup {NoOne} /\ rlock \in Getters \cup {NoOne}
  /\ getter \in [Getters -> {"idle", "poll", "release", "unlock", "dead"}]
  /\ got \in [Getters -> Items \cup {NoItem}]
  /\ received \in SUBSET Items

IndInv == TypesOK /\ PlaceInv /\ SlotInv /\ LossInv

-----------------------------------------------------------------------------
\* What Append and Tail do, index by index.
LEMMA AppendFacts ==
  ASSUME NEW S, NEW s \in Seq(S), NEW x \in S
  PROVE  /\ Append(s, x) \in Seq(S)
         /\ Len(s) + 1 \in DOMAIN Append(s, x)
         /\ Append(s, x)[Len(s) + 1] = x
         /\ \A i \in DOMAIN s : i \in DOMAIN Append(s, x) /\ Append(s, x)[i] = s[i]
         /\ \A i \in DOMAIN Append(s, x) :
              i \in DOMAIN s \/ i = Len(s) + 1
  OBVIOUS

\* What Tail does, index by index.
LEMMA TailFacts ==
  ASSUME NEW S, NEW s \in Seq(S), s # <<>>
  PROVE  /\ Tail(s) \in Seq(S)
         /\ Head(s) \in S
         /\ 1 \in DOMAIN s /\ Head(s) = s[1]
         /\ \A i \in DOMAIN Tail(s) :
              i \in Nat /\ i + 1 \in DOMAIN s /\ i + 1 # 1 /\ Tail(s)[i] = s[i + 1]
         /\ \A i \in DOMAIN s :
              i # 1 => i - 1 \in DOMAIN Tail(s) /\ s[i] = Tail(s)[i - 1]
  OBVIOUS

\* Every step keeps the types.
LEMMA StepKeepsTypes == TypesOK /\ PlaceInv /\ [Next]_vars => TypesOK'
<1> SUFFICES ASSUME TypesOK, PlaceInv, [Next]_vars PROVE TypesOK'
  OBVIOUS
<1> USE ProcessQueueAssumption
    DEF TypesOK, putVars, feedVars, getVars, FGoto, GGoto
<1>1. ASSUME NEW i \in Items, Admit(i) \/ Fill(i) PROVE TypesOK'
  <2>1. CASE Admit(i)
    BY <2>1 DEF Admit
  <2>2. CASE Fill(i)
    BY <2>2, AppendFacts DEF Fill
  <2>3. QED
    BY <1>1, <2>1, <2>2
<1>2. ASSUME NEW p \in Procs, FeederStep(p) \/ Exit(p) \/ KillPutter(p)
      PROVE  TypesOK'
  <2>1. CASE Pop(p)
    <3>1. Head(buffer[p]) \in Items /\ Tail(buffer[p]) \in Seq(Items)
      BY <2>1, TailFacts DEF Pop
    <3>2. QED
      BY <2>1, <3>1 DEF Pop
  <2>2. CASE Send(p)
    <3>1. fed[p] \in Items
      BY <2>2 DEF Send, PlaceInv, HandsOK
    <3>2. QED
      BY <2>2, <3>1, AppendFacts DEF Send
  <2>3. CASE Pickle(p) \/ PickleFails(p)
    <3>1. /\ feeder' \in {[feeder EXCEPT ![p] = "lock"], [feeder EXCEPT ![p] = "wait"]}
          /\ fed' \in {fed, [fed EXCEPT ![p] = NoItem]}
          /\ sem' \in {sem, sem + 1}
          /\ UNCHANGED <<putVars, wlock, pipe, getVars>>
      BY <2>3 DEF Pickle, PickleFails
    <3>2. /\ feeder' \in [Procs -> {"wait", "pickle", "lock", "send", "unlock",
                                   "gone", "dead"}]
          /\ fed' \in [Procs -> Items \cup {NoItem}]
      BY <3>1
    <3>3. sem' \in Nat
      BY <3>1
    <3>4. QED
      BY <3>1, <3>2, <3>3
  <2>4. CASE LockPipe(p) \/ UnlockPipe(p) \/ MeetSentinel(p)
    BY <2>4 DEF LockPipe, UnlockPipe, MeetSentinel
  <2>5. CASE Exit(p)
    BY <2>5 DEF Exit
  <2>6. CASE PickleFailsLate(p) \/ KillPutter(p)
    <3>1. /\ feeder' \in {[feeder EXCEPT ![p] = "gone"], [feeder EXCEPT ![p] = "dead"]}
          /\ fed' = [fed EXCEPT ![p] = NoItem]
          /\ buffer' = [buffer EXCEPT ![p] = <<>>]
          /\ UNCHANGED <<fresh, admitted, exiting, wlock, pipe, sem, getVars>>
      BY <2>6 DEF PickleFailsLate, KillPutter
    <3>2. buffer' \in [Procs -> Seq(Items)] /\ fed' \in [Procs -> Items \cup {NoItem}]
      BY <3>1
    <3>3. QED
      BY <3>1, <3>2
  <2>7. QED
    BY <1>2, <2>1, <2>2, <2>3, <2>4, <2>5, <2>6 DEF FeederStep
<1>3. ASSUME NEW g \in Getters, GetterStep(g) \/ KillGetter(g) PROVE TypesOK'
  <2>1. CASE Receive(g)
    <3>1. Head(pipe) \in Items /\ Tail(pipe) \in Seq(Items)
      BY <2>1, TailFacts DEF Receive
    <3>2. QED
      BY <2>1, <3>1 DEF Receive
  <2>2. CASE LockReader(g) \/ PollFails(g)
    BY <2>2 DEF LockReader, PollFails
  <2>3. CASE ReleaseSlot(g)
    BY <2>3 DEF ReleaseSlot
  <2>4. CASE UnlockReader(g) \/ KillGetter(g)
    BY <2>4 DEF UnlockReader, KillGetter
  <2>5. QED
    BY <1>3, <2>1, <2>2, <2>3, <2>4 DEF GetterStep
<1>4. CASE UNCHANGED vars
  BY <1>4 DEF vars
<1>5. QED
  BY <1>1, <1>2, <1>3, <1>4 DEF Next

-----------------------------------------------------------------------------
\* The parts of PlaceInv, for a step that leaves most of them alone.
LEMMA PlacesFrame ==
  ASSUME TypesOK, PlaceInv
  PROVE  /\ UNCHANGED <<fresh, admitted, received, exiting>> => PutOnce'
         /\ UNCHANGED <<fresh, admitted, received, buffer, fed>>
              => BuffersApart' /\ FedApart'
         /\ UNCHANGED <<fresh, admitted, received, buffer, fed, pipe>>
              => PipeApart'
         /\ UNCHANGED <<received, got>> => GotApart'
  BY DEF PlaceInv, PutOnce, BuffersApart, FedApart, PipeApart, GotApart, Outside

\* put() moves an object from fresh to admitted to a buffer.
LEMMA PutKeepsPlaces ==
  ASSUME TypesOK, PlaceInv, NEW i \in Items, Admit(i) \/ Fill(i)
  PROVE  PlaceInv'
<1> USE ProcessQueueAssumption DEF TypesOK, PlaceInv
<1>1. CASE Admit(i)
  <2>1. /\ fresh' = fresh \ {i} /\ admitted' = admitted \cup {i} /\ i \in fresh
        /\ Producer[i] \notin exiting
        /\ UNCHANGED <<buffer, exiting, fed, feeder, pipe, got, getter, received>>
    BY <1>1 DEF Admit, feedVars, getVars
  <2>2. Outside' = Outside
    BY <2>1 DEF Outside
  <2>3. PutOnce'
    BY <2>1 DEF PutOnce
  <2>4. BuffersApart' /\ FedApart' /\ PipeApart'
    BY <2>1, <2>2 DEF BuffersApart, FedApart, PipeApart
  <2>5. GotApart' /\ HandsOK'
    BY <2>1 DEF GotApart, HandsOK, Ended
  <2>6. QED
    BY <2>3, <2>4, <2>5
<1>2. CASE Fill(i)
  <2> DEFINE q == Producer[i]
  <2>1. /\ admitted' = admitted \ {i} /\ i \in admitted /\ q \in Procs
        /\ buffer' = [buffer EXCEPT ![q] = Append(@, i)]
        /\ ~Ended(q)
        /\ UNCHANGED <<fresh, exiting, fed, feeder, pipe, got, getter, received>>
    BY <1>2 DEF Fill, feedVars, getVars
  <2>2. /\ Outside' = Outside \ {i} /\ i \in Outside
    BY <2>1 DEF Outside, PutOnce
  <2>3. PutOnce'
    BY <2>1 DEF PutOnce
  <2>4. \A p \in Procs : \A k \in DOMAIN buffer'[p] :
          \/ k \in DOMAIN buffer[p] /\ buffer'[p][k] = buffer[p][k]
          \/ p = q /\ buffer'[p][k] = i /\ k = Len(buffer[p]) + 1
    BY <2>1, AppendFacts
  <2>5. FedApart'
    BY <2>1, <2>2 DEF FedApart
  <2>6. BuffersApart'
    <3>1. \A p \in Procs : fed[p] # i
      BY <2>2 DEF FedApart
    <3>2. QED
      BY <2>1, <2>2, <2>4, <3>1 DEF BuffersApart
  <2>7. PipeApart'
    <3>1. \A k \in DOMAIN pipe : pipe[k] # i
      BY <2>2 DEF PipeApart
    <3>2. QED
      BY <2>1, <2>2, <2>4, <3>1 DEF PipeApart
  <2>8. GotApart' /\ HandsOK'
    BY <2>1 DEF GotApart, HandsOK, Ended
  <2>9. QED
    BY <2>3, <2>5, <2>6, <2>7, <2>8
<1>3. QED
  BY <1>1, <1>2

\* The feeder moves an object from its buffer to the pipe, or drops it.
LEMMA FeederKeepsPlaces ==
  ASSUME TypesOK, PlaceInv, NEW p \in Procs,
         FeederStep(p) \/ Exit(p) \/ KillPutter(p)
  PROVE  PlaceInv'
<1> USE ProcessQueueAssumption DEF TypesOK, PlaceInv
<1>1. UNCHANGED <<fresh, admitted, received, got, getter>>
  BY DEF FeederStep, Pop, Pickle, PickleFails, PickleFailsLate, LockPipe, Send,
         UnlockPipe, MeetSentinel, Exit, KillPutter, putVars, getVars
<1>2. GotApart' /\ UNCHANGED Outside
  BY <1>1, PlacesFrame DEF Outside
<1>3. PutOnce'
  BY <1>1 DEF PutOnce, FeederStep, Pop, Pickle, PickleFails, PickleFailsLate,
              LockPipe, Send, UnlockPipe, MeetSentinel, Exit, KillPutter, putVars
<1>4. CASE Pop(p)
  <2>1. /\ fed' = [fed EXCEPT ![p] = Head(buffer[p])]
        /\ buffer' = [buffer EXCEPT ![p] = Tail(@)]
        /\ feeder' = [feeder EXCEPT ![p] = "pickle"]
        /\ feeder[p] = "wait" /\ buffer[p] # <<>>
        /\ UNCHANGED <<exiting, pipe>>
    BY <1>4 DEF Pop, FGoto
  <2>2. /\ fed'[p] = buffer[p][1] /\ 1 \in DOMAIN buffer[p] /\ fed'[p] \in Items
        /\ \A k \in DOMAIN buffer'[p] :
             k \in Nat /\ k + 1 \in DOMAIN buffer[p] /\ k + 1 # 1
             /\ buffer'[p][k] = buffer[p][k + 1]
    BY <2>1, TailFacts
  <2>3. \A q \in Procs : q # p => buffer'[q] = buffer[q] /\ fed'[q] = fed[q]
    BY <2>1
  <2>4. BuffersApart'
    <3>1. ASSUME NEW k \in DOMAIN buffer'[p]
          PROVE  /\ buffer'[p][k] \notin Outside /\ Producer[buffer'[p][k]] = p
                 /\ buffer'[p][k] # fed'[p]
                 /\ \A l \in DOMAIN buffer'[p] :
                      buffer'[p][k] = buffer'[p][l] => k = l
      BY <2>2 DEF BuffersApart
    <3>2. ASSUME NEW q \in Procs, NEW k \in DOMAIN buffer'[q], q # p
          PROVE  /\ buffer'[q][k] \notin Outside /\ Producer[buffer'[q][k]] = q
                 /\ buffer'[q][k] # fed'[q]
                 /\ \A l \in DOMAIN buffer'[q] :
                      buffer'[q][k] = buffer'[q][l] => k = l
      BY <2>3, <3>2 DEF BuffersApart
    <3>3. QED
      BY <1>2, <3>1, <3>2 DEF BuffersApart
  <2>5. FedApart'
    <3>1. fed'[p] \notin Outside /\ Producer[fed'[p]] = p
      BY <2>2 DEF BuffersApart
    <3>2. QED
      BY <1>2, <2>3, <3>1 DEF FedApart
  <2>6. PipeApart'
    <3>1. ASSUME NEW k \in DOMAIN pipe, NEW q \in Procs
          PROVE  /\ pipe[k] # fed'[q]
                 /\ \A l \in DOMAIN buffer'[q] : pipe[k] # buffer'[q][l]
      <4>1. CASE q = p
        BY <2>2, <4>1 DEF PipeApart
      <4>2. CASE q # p
        BY <2>3, <4>2 DEF PipeApart
      <4>3. QED
        BY <4>1, <4>2
    <3>2. QED
      BY <1>2, <2>1, <3>1 DEF PipeApart
  <2>7. HandsOK'
    BY <1>1, <2>1, <2>2 DEF HandsOK, Ended
  <2>8. QED
    BY <1>2, <1>3, <2>4, <2>5, <2>6, <2>7
<1>5. CASE Send(p)
  <2>1. /\ pipe' = Append(pipe, fed[p]) /\ fed' = [fed EXCEPT ![p] = NoItem]
        /\ feeder' = [feeder EXCEPT ![p] = "unlock"] /\ feeder[p] = "send"
        /\ UNCHANGED <<exiting, buffer>>
    BY <1>5 DEF Send, FGoto, putVars
  <2>2. fed[p] \in Items /\ fed[p] \notin Outside
    BY <2>1 DEF HandsOK, FedApart
  <2>3. \A k \in DOMAIN pipe' :
          \/ k \in DOMAIN pipe /\ pipe'[k] = pipe[k]
          \/ k = Len(pipe) + 1 /\ pipe'[k] = fed[p]
    BY <2>1, <2>2, AppendFacts
  <2>4. BuffersApart'
    <3>1. \A q \in Procs : \A k \in DOMAIN buffer[q] : buffer[q][k] # NoItem
      OBVIOUS
    <3>2. QED
      BY <1>2, <2>1, <3>1 DEF BuffersApart
  <2>5. FedApart'
    BY <1>2, <2>1 DEF FedApart
  <2>6. PipeApart'
    <3>1. \A q \in Procs : fed'[q] = fed[q] \/ fed'[q] = NoItem
      BY <2>1
    <3>2. \A q \in Procs : fed'[q] # fed[p]
      BY <2>1, <2>2 DEF FedApart
    <3>3. \A q \in Procs : \A l \in DOMAIN buffer[q] : buffer[q][l] # fed[p]
      <4>1. Producer[fed[p]] = p
        BY <2>2 DEF FedApart
      <4>2. QED
        BY <4>1 DEF BuffersApart
    <3>4. \A k \in DOMAIN pipe : pipe[k] # fed[p] /\ pipe[k] # NoItem
      BY DEF PipeApart
    <3>5. QED
      BY <1>2, <2>1, <2>2, <2>3, <3>1, <3>2, <3>3, <3>4 DEF PipeApart
  <2>7. HandsOK'
    BY <1>1, <2>1 DEF HandsOK, Ended
  <2>8. QED
    BY <1>2, <1>3, <2>4, <2>5, <2>6, <2>7
<1>6. CASE \/ PickleFails(p) \/ PickleFailsLate(p) \/ KillPutter(p)
  <2>1. /\ fed' = [fed EXCEPT ![p] = NoItem] /\ UNCHANGED <<exiting, pipe>>
        /\ \/ /\ UNCHANGED buffer /\ feeder[p] = "pickle"
              /\ feeder' = [feeder EXCEPT ![p] = "wait"]
           \/ /\ buffer' = [buffer EXCEPT ![p] = <<>>] /\ p \in exiting
              /\ feeder' = [feeder EXCEPT ![p] = "gone"]
           \/ /\ buffer' = [buffer EXCEPT ![p] = <<>>]
              /\ feeder' = [feeder EXCEPT ![p] = "dead"]
    BY <1>6 DEF PickleFails, PickleFailsLate, KillPutter, FGoto, putVars
  <2>2. \A q \in Procs : /\ fed'[q] = fed[q] \/ fed'[q] = NoItem
                         /\ buffer'[q] = buffer[q] \/ buffer'[q] = <<>>
    BY <2>1
  <2>3. \A q \in Procs : \A k \in DOMAIN buffer[q] : buffer[q][k] # NoItem
    OBVIOUS
  <2>4. \A k \in DOMAIN pipe : pipe[k] # NoItem
    OBVIOUS
  <2>5. BuffersApart'
    <3>1. ASSUME NEW q \in Procs, NEW k \in DOMAIN buffer'[q]
          PROVE  /\ buffer'[q] = buffer[q] /\ k \in DOMAIN buffer[q]
                 /\ buffer[q][k] # fed'[q]
      BY <2>2, <2>3 DEF BuffersApart
    <3>2. QED
      BY <1>2, <3>1 DEF BuffersApart
  <2>6. FedApart'
    BY <1>2, <2>2 DEF FedApart
  <2>7. PipeApart'
    BY <1>2, <2>1, <2>2, <2>4 DEF PipeApart
  <2>8. HandsOK'
    <3>1. \A q \in Procs : q # p => /\ fed'[q] = fed[q] /\ buffer'[q] = buffer[q]
                                    /\ feeder'[q] = feeder[q]
      BY <2>1
    <3>2. /\ fed'[p] = NoItem /\ feeder'[p] \in {"wait", "gone", "dead"}
          /\ feeder'[p] = "wait" \/ buffer'[p] = <<>>
          /\ feeder'[p] = "gone" => p \in exiting
      BY <2>1
    <3>3. QED
      BY <1>1, <2>1, <3>1, <3>2 DEF HandsOK, Ended
  <2>9. QED
    BY <1>2, <1>3, <2>5, <2>6, <2>7, <2>8
<1>7. CASE \/ Pickle(p) \/ LockPipe(p) \/ UnlockPipe(p) \/ MeetSentinel(p)
           \/ Exit(p)
  <2>1. UNCHANGED <<buffer, fed, pipe>>
    BY <1>7 DEF Pickle, LockPipe, UnlockPipe, MeetSentinel, Exit, putVars, feedVars
  <2>2. BuffersApart' /\ FedApart' /\ PipeApart'
    BY <1>1, <2>1, PlacesFrame
  <2>3. HandsOK'
    <3>1. /\ \/ feeder' = feeder
             \/ /\ feeder[p] \in {"pickle", "lock"}
                /\ \/ feeder' = [feeder EXCEPT ![p] = "lock"]
                   \/ feeder' = [feeder EXCEPT ![p] = "send"]
             \/ /\ feeder[p] = "unlock"
                /\ feeder' = [feeder EXCEPT ![p] = "wait"]
             \/ /\ feeder[p] = "wait" /\ buffer[p] = <<>> /\ p \in exiting
                /\ feeder' = [feeder EXCEPT ![p] = "gone"]
          /\ exiting \subseteq exiting'
      BY <1>7 DEF Pickle, LockPipe, UnlockPipe, MeetSentinel, Exit, putVars,
                  feedVars, FGoto
    <3>2. \A q \in Procs : q # p => feeder'[q] = feeder[q]
      BY <3>1
    <3>3. /\ fed[p] # NoItem <=> feeder'[p] \in {"pickle", "lock", "send"}
          /\ feeder'[p] \in {"gone", "dead"} => buffer[p] = <<>>
          /\ feeder'[p] = "gone" => p \in exiting'
      BY <3>1 DEF HandsOK, Ended
    <3>4. QED
      BY <1>1, <2>1, <3>1, <3>2, <3>3 DEF HandsOK, Ended
  <2>4. QED
    BY <1>2, <1>3, <2>2, <2>3
<1>8. QED
  BY <1>4, <1>5, <1>6, <1>7 DEF FeederStep

\* A getter takes the first object of the pipe, and lets go of it.
LEMMA GetterKeepsPlaces ==
  ASSUME TypesOK, PlaceInv, NEW g \in Getters, GetterStep(g) \/ KillGetter(g)
  PROVE  PlaceInv'
<1> USE ProcessQueueAssumption DEF TypesOK, PlaceInv
<1>1. UNCHANGED <<fresh, admitted, exiting, buffer, fed, feeder>>
  BY DEF GetterStep, LockReader, PollFails, Receive, ReleaseSlot, UnlockReader,
         KillGetter, putVars, feedVars
<1>2. CASE Receive(g)
  <2> DEFINE i == pipe[1]
  <2>1. /\ getter[g] = "poll" /\ pipe # <<>> /\ pipe' = Tail(pipe)
        /\ got' = [got EXCEPT ![g] = i] /\ received' = received \cup {i}
        /\ getter' = [getter EXCEPT ![g] =
                        IF g \in Blocking THEN "unlock" ELSE "release"]
        /\ 1 \in DOMAIN pipe /\ i \in Items
    BY <1>2, TailFacts DEF Receive, GGoto
  <2>2. \A k \in DOMAIN pipe' :
          k \in Nat /\ k + 1 \in DOMAIN pipe /\ k + 1 # 1 /\ pipe'[k] = pipe[k + 1]
    BY <2>1, TailFacts
  <2>3. i \notin fresh \cup admitted \cup received
    BY <2>1 DEF PipeApart, Outside
  <2>4. Outside' = Outside \cup {i}
    BY <1>1, <2>1 DEF Outside
  <2>5. PutOnce'
    BY <1>1, <2>1, <2>3 DEF PutOnce
  <2>6. BuffersApart' /\ FedApart'
    BY <1>1, <2>1, <2>4 DEF BuffersApart, FedApart, PipeApart
  <2>7. PipeApart'
    <3>1. \A k \in DOMAIN pipe' : pipe'[k] # i
      BY <2>1, <2>2 DEF PipeApart
    <3>2. QED
      BY <1>1, <2>2, <2>4, <3>1 DEF PipeApart
  <2>8. GotApart'
    BY <2>1, <2>3 DEF GotApart
  <2>9. HandsOK'
    BY <1>1, <2>1 DEF HandsOK, Ended
  <2>10. QED
    BY <2>5, <2>6, <2>7, <2>8, <2>9
<1>3. CASE ~Receive(g)
  <2>1. UNCHANGED <<pipe, received>>
    BY <1>3 DEF GetterStep, LockReader, PollFails, ReleaseSlot, UnlockReader, KillGetter
  <2>2. PutOnce' /\ BuffersApart' /\ FedApart' /\ PipeApart'
    BY <1>1, <2>1, PlacesFrame
  <2>3. got' = got \/ got' = [got EXCEPT ![g] = NoItem]
    BY <1>3 DEF GetterStep, LockReader, PollFails, ReleaseSlot, UnlockReader, KillGetter
  <2>4. GotApart'
    BY <2>1, <2>3 DEF GotApart
  <2>5. HandsOK'
    BY <1>1, <1>3 DEF GetterStep, LockReader, PollFails, ReleaseSlot,
                      UnlockReader, KillGetter, GGoto, HandsOK, Ended
  <2>6. QED
    BY <2>2, <2>4, <2>5
<1>4. QED
  BY <1>2, <1>3

\* PlaceInv is inductive, given the types.
LEMMA StepKeepsPlaces == TypesOK /\ PlaceInv /\ [Next]_vars => PlaceInv'
<1> SUFFICES ASSUME TypesOK, PlaceInv, [Next]_vars PROVE PlaceInv'
  OBVIOUS
<1>1. CASE UNCHANGED vars
  BY <1>1, PlacesFrame
     DEF vars, putVars, feedVars, getVars, PlaceInv, HandsOK, Ended
<1>2. QED
  BY <1>1, PutKeepsPlaces, FeederKeepsPlaces, GetterKeepsPlaces DEF Next

-----------------------------------------------------------------------------
\* The places of an object that occupies a slot.
InBuffer(i) == \E p \in Procs : \E k \in DOMAIN buffer[p] : i = buffer[p][k]
InFeeder(i) == \E p \in Procs : i = fed[p]
InPipe(i)   == \E k \in DOMAIN pipe : i = pipe[k]
InGetter(i) == \E g \in Getters : getter[g] # "dead" /\ i = got[g]
InSlot(i) ==
  \/ i \in admitted /\ ~Ended(Producer[i])
  \/ InBuffer(i) \/ InFeeder(i) \/ InPipe(i) \/ InGetter(i)

\* The items in use are those that take up a slot,
LEMMA UsedMembers == TypesOK => Used = {i \in Items : InSlot(i)}
<1> SUFFICES ASSUME TypesOK PROVE Used = {i \in Items : InSlot(i)}
  OBVIOUS
<1> USE ProcessQueueAssumption DEF TypesOK
<1>1. \A i : (\E p \in Procs : i \in ToSet(buffer[p])) <=> InBuffer(i)
  BY DEF InBuffer, ToSet
<1>2. \A i : i \in ToSet(pipe) <=> InPipe(i)
  BY DEF InPipe, ToSet
<1>3. \A i : i \in {got[g] : g \in {h \in Getters : getter[h] # "dead"}}
               <=> InGetter(i)
  BY DEF InGetter
<1>4. \A i : i \in Occupying <=> InSlot(i)
  BY <1>1, <1>2, <1>3 DEF Occupying, InSlot, InFeeder
<1>5. \A i : InBuffer(i) \/ InPipe(i) => i \in Items
  BY DEF InBuffer, InPipe
<1>6. \A i : InFeeder(i) \/ InGetter(i) => i \in Items \cup {NoItem}
  BY DEF InFeeder, InGetter
<1>7. \A i : InSlot(i) => i \in Items \cup {NoItem}
  BY <1>5, <1>6 DEF InSlot
<1>8. QED
  BY <1>4, <1>7 DEF Used

\* also in the next state.
LEMMA UsedMembersNext == TypesOK' => Used' = {i \in Items : InSlot(i)'}
<1>1. (TypesOK => Used = {i \in Items : InSlot(i)})'
  BY UsedMembers, PTL
<1>2. QED
  BY <1>1

\* What a step may do with the slots.
KeepsSlots  == Used' = Used /\ UNCHANGED sem
TakesSlot   == \E i : i \notin Used /\ Used' = Used \cup {i} /\ sem > 0 /\ sem' = sem - 1
ReturnsSlot == \E i : i \in Used /\ Used' = Used \ {i} /\ sem' = sem + 1
LosesSlots  == /\ Used' \in SUBSET Used /\ UNCHANGED sem
               /\ SomeoneKilled' \/ exiting' # {}

\* Any of these keeps the account of the slots.
LEMMA SlotStep ==
  ASSUME TypesOK, SlotInv, SomeoneKilled => SomeoneKilled', exiting \subseteq exiting',
         KeepsSlots \/ TakesSlot \/ ReturnsSlot \/ LosesSlots
  PROVE  SlotInv'
<1> DEFINE n == Cardinality(Used)
<1>1. /\ IsFiniteSet(Used) /\ n \in Nat /\ sem \in Nat /\ Capacity \in Nat
      /\ sem + n <= Capacity
      /\ SomeoneKilled \/ exiting # {} \/ sem + n = Capacity
  BY FS_CardinalityType, ProcessQueueAssumption DEF SlotInv, SlotsAccounted, Used, TypesOK
<1>2. SUFFICES /\ IsFiniteSet(Used') /\ sem' + Cardinality(Used') <= Capacity
               /\ \/ SomeoneKilled' \/ exiting' # {}
                  \/ sem' + Cardinality(Used') = Capacity
  BY DEF SlotInv, SlotsAccounted, Used
<1>3. CASE KeepsSlots
  BY <1>1, <1>3 DEF KeepsSlots
<1>4. CASE TakesSlot
  <2>1. PICK i : i \notin Used /\ Used' = Used \cup {i} /\ sem' = sem - 1
    BY <1>4 DEF TakesSlot
  <2>2. IsFiniteSet(Used') /\ Cardinality(Used') = n + 1
    BY <1>1, <2>1, FS_AddElement
  <2>3. QED
    BY <1>1, <2>1, <2>2
<1>5. CASE ReturnsSlot
  <2>1. PICK i : i \in Used /\ Used' = Used \ {i} /\ sem' = sem + 1
    BY <1>5 DEF ReturnsSlot
  <2>2. IsFiniteSet(Used') /\ Cardinality(Used') = n - 1
    BY <1>1, <2>1, FS_RemoveElement
  <2>3. QED
    BY <1>1, <2>1, <2>2
<1>6. CASE LosesSlots
  <2>1. /\ IsFiniteSet(Used') /\ Cardinality(Used') <= n
        /\ Cardinality(Used') \in Nat
    BY <1>1, <1>6, FS_Subset, FS_CardinalityType DEF LosesSlots
  <2>2. QED
    BY <1>1, <1>6, <2>1 DEF LosesSlots
<1>7. QED
  BY <1>3, <1>4, <1>5, <1>6

\* acquire() takes a slot for a new object; the object keeps it in its buffer.
LEMMA PutSlots ==
  ASSUME TypesOK, TypesOK', PlaceInv, NEW i \in Items, Admit(i) \/ Fill(i)
  PROVE  KeepsSlots \/ TakesSlot
<1> USE ProcessQueueAssumption DEF TypesOK, PlaceInv
<1>1. CASE Admit(i)
  <2>1. /\ i \in fresh /\ ~Ended(Producer[i]) /\ sem > 0 /\ sem' = sem - 1
        /\ admitted' = admitted \cup {i}
        /\ UNCHANGED <<buffer, feeder, fed, pipe, getter, got>>
    BY <1>1 DEF Admit, feedVars, getVars
  <2>2. ~InSlot(i)
    <3>1. i \notin admitted /\ ~InBuffer(i) /\ ~InFeeder(i)
      BY <2>1 DEF InBuffer, InFeeder, PutOnce, BuffersApart, FedApart, Outside
    <3>2. ~InPipe(i) /\ ~InGetter(i)
      BY <2>1 DEF InPipe, InGetter, PutOnce, PipeApart, GotApart, Outside
    <3>3. QED
      BY <3>1, <3>2 DEF InSlot
  <2>3. \A j \in Items : InSlot(j)' <=> InSlot(j) \/ j = i
    BY <2>1 DEF InSlot, InBuffer, InFeeder, InPipe, InGetter, Ended
  <2>4. i \notin Used /\ Used' = Used \cup {i}
    BY <2>2, <2>3, UsedMembers, UsedMembersNext
  <2>5. QED
    BY <2>1, <2>4 DEF TakesSlot
<1>2. CASE Fill(i)
  <2> DEFINE q == Producer[i]
  <2>1. /\ admitted' = admitted \ {i} /\ i \in admitted /\ q \in Procs /\ ~Ended(q)
        /\ buffer' = [buffer EXCEPT ![q] = Append(@, i)]
        /\ UNCHANGED <<feeder, fed, pipe, getter, got, sem>>
    BY <1>2 DEF Fill, feedVars, getVars
  <2>2. \A j : InBuffer(j)' <=> InBuffer(j) \/ j = i
    <3>1. \A j : j = i => InBuffer(j)'
      <4>1. /\ buffer'[q] = Append(buffer[q], i)
            /\ Len(buffer[q]) + 1 \in DOMAIN buffer'[q]
            /\ buffer'[q][Len(buffer[q]) + 1] = i
        BY <2>1, AppendFacts
      <4>2. QED
        BY <2>1, <4>1 DEF InBuffer
    <3>2. ASSUME NEW r \in Procs, NEW k \in DOMAIN buffer[r]
          PROVE  \E l \in DOMAIN buffer'[r] : buffer[r][k] = buffer'[r][l]
      <4>1. k \in DOMAIN buffer'[r] /\ buffer'[r][k] = buffer[r][k]
        BY <2>1, AppendFacts
      <4>2. QED
        BY <4>1
    <3>3. \A j : InBuffer(j)' => InBuffer(j) \/ j = i
      <4>1. ASSUME NEW r \in Procs, NEW k \in DOMAIN buffer'[r]
            PROVE  \/ k \in DOMAIN buffer[r] /\ buffer'[r][k] = buffer[r][k]
                   \/ buffer'[r][k] = i
        BY <2>1, AppendFacts
      <4>2. QED
        BY <4>1 DEF InBuffer
    <3>4. \A j : InBuffer(j) => InBuffer(j)'
      BY <3>2 DEF InBuffer
    <3>5. QED
      BY <3>1, <3>3, <3>4
  <2>3. \A j \in Items : InSlot(j)' <=> InSlot(j)
    BY <2>1, <2>2 DEF InSlot, InFeeder, InPipe, InGetter, Ended
  <2>4. QED
    BY <2>1, <2>3, UsedMembers, UsedMembersNext DEF KeepsSlots
<1>3. QED
  BY <1>1, <1>2

\* The feeder keeps the slot of what it carries, and returns that of an object
\* it drops; a process that ends takes slots along.
LEMMA FeederSlots ==
  ASSUME TypesOK, TypesOK', PlaceInv, NEW p \in Procs,
         FeederStep(p) \/ Exit(p) \/ KillPutter(p)
  PROVE  KeepsSlots \/ ReturnsSlot \/ LosesSlots
<1> USE ProcessQueueAssumption DEF TypesOK, PlaceInv
<1>1. UNCHANGED <<admitted, received, got, getter>>
  BY DEF FeederStep, Pop, Pickle, PickleFails, PickleFailsLate, LockPipe, Send,
         UnlockPipe, MeetSentinel, Exit, KillPutter, putVars, getVars
<1>2. ASSUME \A j \in Items : InSlot(j)' <=> InSlot(j), UNCHANGED sem
      PROVE  KeepsSlots
  BY <1>2, UsedMembers, UsedMembersNext DEF KeepsSlots
<1>3. CASE Pop(p)
  <2>1. /\ fed' = [fed EXCEPT ![p] = buffer[p][1]] /\ fed[p] = NoItem
        /\ buffer' = [buffer EXCEPT ![p] = Tail(@)]
        /\ feeder' = [feeder EXCEPT ![p] = "pickle"]
        /\ feeder[p] = "wait" /\ buffer[p] # <<>> /\ 1 \in DOMAIN buffer[p]
        /\ UNCHANGED <<pipe, sem>>
    <3>1. feeder[p] = "wait" /\ buffer[p] # <<>>
      BY <1>3 DEF Pop
    <3>2. Head(buffer[p]) = buffer[p][1] /\ 1 \in DOMAIN buffer[p]
      BY <3>1, TailFacts
    <3>3. fed[p] = NoItem
      BY <3>1 DEF HandsOK
    <3>4. QED
      BY <1>3, <3>2, <3>3 DEF Pop, FGoto
  <2>2. \A j \in Items : InBuffer(j)' \/ InFeeder(j)' => InBuffer(j) \/ InFeeder(j)
    BY <2>1, TailFacts DEF InBuffer, InFeeder
  <2>3. \A j \in Items : InFeeder(j) => InFeeder(j)'
    BY <2>1 DEF InFeeder
  <2>4. \A j \in Items : InBuffer(j) => InBuffer(j)' \/ InFeeder(j)'
    <3>1. ASSUME NEW q \in Procs, NEW k \in DOMAIN buffer[q]
          PROVE  \/ \E l \in DOMAIN buffer'[q] : buffer[q][k] = buffer'[q][l]
                 \/ buffer[q][k] = fed'[p]
      <4>1. CASE q = p /\ k = 1
        BY <2>1, <4>1
      <4>2. CASE q = p /\ k # 1
        <5>1. buffer'[p] = Tail(buffer[p])
          BY <2>1
        <5>2. k - 1 \in DOMAIN buffer'[p] /\ buffer[p][k] = buffer'[p][k - 1]
          BY <2>1, <5>1, <4>2, TailFacts
        <5>3. QED
          BY <4>2, <5>2
      <4>3. CASE q # p
        BY <2>1, <4>3
      <4>4. QED
        BY <4>1, <4>2, <4>3
    <3>2. QED
      BY <3>1 DEF InBuffer, InFeeder
  <2>5. \A j : /\ InPipe(j)' <=> InPipe(j)
               /\ InGetter(j)' <=> InGetter(j)
    BY <1>1, <2>1 DEF InPipe, InGetter
  <2>6. \A q \in Procs : Ended(q)' <=> Ended(q)
    BY <2>1 DEF Ended
  <2>7. QED
    BY <1>1, <1>2, <2>1, <2>2, <2>3, <2>4, <2>5, <2>6 DEF InSlot
<1>4. CASE Send(p)
  <2>1. /\ pipe' = Append(pipe, fed[p]) /\ fed' = [fed EXCEPT ![p] = NoItem]
        /\ feeder' = [feeder EXCEPT ![p] = "unlock"] /\ feeder[p] = "send"
        /\ fed[p] \in Items /\ UNCHANGED <<buffer, sem>>
    BY <1>4 DEF Send, FGoto, putVars, HandsOK
  <2>2. \A j \in Items : InPipe(j)' <=> InPipe(j) \/ j = fed[p]
    <3>1. \A j \in Items : InPipe(j)' => InPipe(j) \/ j = fed[p]
      BY <2>1, AppendFacts DEF InPipe
    <3>2. \A k \in DOMAIN pipe : k \in DOMAIN pipe' /\ pipe'[k] = pipe[k]
      BY <2>1, AppendFacts
    <3>3. Len(pipe) + 1 \in DOMAIN pipe' /\ pipe'[Len(pipe) + 1] = fed[p]
      BY <2>1, AppendFacts
    <3>4. QED
      BY <3>1, <3>2, <3>3 DEF InPipe
  <2>3. \A j \in Items : InFeeder(j) <=> InFeeder(j)' \/ j = fed[p]
    BY <2>1 DEF InFeeder
  <2>4. \A j : /\ InBuffer(j)' <=> InBuffer(j)
               /\ InGetter(j)' <=> InGetter(j)
    BY <1>1, <2>1 DEF InBuffer, InGetter
  <2>5. \A q \in Procs : Ended(q)' <=> Ended(q)
    BY <2>1 DEF Ended
  <2>6. QED
    BY <1>1, <1>2, <2>1, <2>2, <2>3, <2>4, <2>5 DEF InSlot
<1>5. CASE PickleFails(p)
  <2>1. /\ fed' = [fed EXCEPT ![p] = NoItem] /\ fed[p] \in Items
        /\ feeder' = [feeder EXCEPT ![p] = "wait"] /\ feeder[p] = "pickle"
        /\ sem' = sem + 1 /\ UNCHANGED <<buffer, pipe>>
    BY <1>5 DEF PickleFails, FGoto, putVars, HandsOK
  <2>2. \A j \in Items : InSlot(j)' <=> InSlot(j) /\ j # fed[p]
    <3>1. \A j \in Items : InFeeder(j)' <=> InFeeder(j) /\ j # fed[p]
      BY <2>1 DEF InFeeder, FedApart
    <3>2. /\ fed[p] \notin admitted /\ ~InPipe(fed[p]) /\ ~InGetter(fed[p])
          /\ ~InBuffer(fed[p])
      <4>1. fed[p] \notin Outside /\ Producer[fed[p]] = p
        BY <2>1 DEF FedApart
      <4>2. ~InPipe(fed[p])
        BY DEF PipeApart, InPipe
      <4>3. ~InGetter(fed[p])
        BY <2>1, <4>1 DEF GotApart, InGetter, Outside
      <4>4. ~InBuffer(fed[p])
        BY <4>1 DEF BuffersApart, InBuffer
      <4>5. QED
        BY <4>1, <4>2, <4>3, <4>4 DEF Outside
    <3>3. \A j : /\ InBuffer(j)' <=> InBuffer(j)
                 /\ InPipe(j)' <=> InPipe(j)
                 /\ InGetter(j)' <=> InGetter(j)
      BY <1>1, <2>1 DEF InPipe, InBuffer, InGetter
    <3>4. \A q \in Procs : Ended(q)' <=> Ended(q)
      BY <2>1 DEF Ended
    <3>5. QED
      BY <1>1, <3>1, <3>2, <3>3, <3>4 DEF InSlot
  <2>3. InSlot(fed[p])
    BY DEF InSlot, InFeeder
  <2>4. fed[p] \in Used /\ Used' = Used \ {fed[p]}
    BY <2>1, <2>2, <2>3, UsedMembers, UsedMembersNext
  <2>5. QED
    BY <2>1, <2>4 DEF ReturnsSlot
<1>6. CASE PickleFailsLate(p) \/ KillPutter(p)
  <2>1. /\ fed' = [fed EXCEPT ![p] = NoItem]
        /\ buffer' = [buffer EXCEPT ![p] = <<>>] /\ UNCHANGED <<pipe, sem, exiting>>
        /\ \/ feeder' = [feeder EXCEPT ![p] = "gone"] /\ p \in exiting
           \/ feeder' = [feeder EXCEPT ![p] = "dead"]
    BY <1>6 DEF PickleFailsLate, KillPutter, FGoto
  <2>2. \A j \in Items : InSlot(j)' => InSlot(j)
    <3>1. \A j \in Items : /\ InBuffer(j)' => InBuffer(j)
                           /\ InFeeder(j)' => InFeeder(j)
                           /\ InPipe(j)' => InPipe(j)
      BY <2>1 DEF InBuffer, InFeeder, InPipe
    <3>2. \A q \in Procs : Ended(q) => Ended(q)'
      BY <2>1 DEF Ended
    <3>3. \A j : InGetter(j)' => InGetter(j)
      BY <1>1 DEF InGetter
    <3>4. QED
      BY <1>1, <3>1, <3>2, <3>3 DEF InSlot
  <2>3. SomeoneKilled' \/ exiting' # {}
    BY <2>1 DEF SomeoneKilled
  <2>4. QED
    BY <2>1, <2>2, <2>3, UsedMembers, UsedMembersNext DEF LosesSlots
<1>7. CASE Pickle(p) \/ LockPipe(p) \/ UnlockPipe(p) \/ Exit(p)
  <2>1. /\ UNCHANGED <<buffer, fed, pipe, sem>>
        /\ \A q \in Procs : Ended(q)' <=> Ended(q)
    BY <1>7 DEF Pickle, LockPipe, UnlockPipe, Exit, putVars, feedVars, FGoto, Ended
  <2>2. QED
    BY <1>1, <1>2, <2>1 DEF InSlot, InBuffer, InFeeder, InPipe, InGetter
<1>8. CASE MeetSentinel(p)
  <2>1. /\ UNCHANGED <<buffer, fed, pipe, sem>> /\ p \in exiting
        /\ feeder' = [feeder EXCEPT ![p] = "gone"]
    BY <1>8 DEF MeetSentinel, putVars, FGoto
  <2>2. \A j \in admitted : Ended(Producer[j])' <=> Ended(Producer[j])
    BY <2>1 DEF PutOnce, Ended
  <2>3. QED
    BY <1>1, <1>2, <2>1, <2>2 DEF InSlot, InBuffer, InFeeder, InPipe, InGetter
<1>9. QED
  BY <1>3, <1>4, <1>5, <1>6, <1>7, <1>8 DEF FeederStep

\* A getter keeps the slot of what it has read until release().
LEMMA GetterSlots ==
  ASSUME TypesOK, TypesOK', PlaceInv, NEW g \in Getters,
         GetterStep(g) \/ KillGetter(g)
  PROVE  KeepsSlots \/ ReturnsSlot \/ LosesSlots
<1> USE ProcessQueueAssumption DEF TypesOK, PlaceInv
<1>1. UNCHANGED <<admitted, buffer, fed, feeder>>
  BY DEF GetterStep, LockReader, PollFails, Receive, ReleaseSlot, UnlockReader,
         KillGetter, putVars, feedVars
<1>2. \A j : /\ j \in admitted' /\ ~Ended(Producer[j])'
                  <=> j \in admitted /\ ~Ended(Producer[j])
             /\ InBuffer(j)' <=> InBuffer(j)
             /\ InFeeder(j)' <=> InFeeder(j)
  BY <1>1 DEF InBuffer, InFeeder, Ended
<1>3. ASSUME \A j \in Items : InSlot(j)' <=> InSlot(j), UNCHANGED sem
      PROVE  KeepsSlots
  BY <1>3, UsedMembers, UsedMembersNext DEF KeepsSlots
<1>4. CASE Receive(g)
  <2>1. /\ getter[g] = "poll" /\ pipe # <<>> /\ pipe' = Tail(pipe)
        /\ got' = [got EXCEPT ![g] = pipe[1]] /\ 1 \in DOMAIN pipe
        /\ getter'[g] # "dead" /\ got[g] = NoItem /\ UNCHANGED sem
        /\ \A h \in Getters : h # g => getter'[h] = getter[h]
    <3>1. getter[g] = "poll" /\ pipe # <<>> /\ got[g] = NoItem
      BY <1>4 DEF Receive, HandsOK
    <3>2. Head(pipe) = pipe[1] /\ 1 \in DOMAIN pipe
      BY <3>1, TailFacts
    <3>3. QED
      BY <1>4, <3>1, <3>2 DEF Receive, GGoto
  <2>2. \A j \in Items : InPipe(j) <=> InPipe(j)' \/ j = pipe[1]
    <3>1. \A k \in DOMAIN pipe' : k + 1 \in DOMAIN pipe /\ pipe'[k] = pipe[k + 1]
      BY <2>1, TailFacts
    <3>2. \A k \in DOMAIN pipe :
             k # 1 => k - 1 \in DOMAIN pipe' /\ pipe[k] = pipe'[k - 1]
      BY <2>1, TailFacts
    <3>3. \A j \in Items : InPipe(j)' \/ j = pipe[1] => InPipe(j)
      BY <2>1, <3>1 DEF InPipe
    <3>4. \A j \in Items : InPipe(j) => InPipe(j)' \/ j = pipe[1]
      BY <3>2 DEF InPipe
    <3>5. QED
      BY <3>3, <3>4
  <2>3. \A j \in Items : InGetter(j)' <=> InGetter(j) \/ j = pipe[1]
    <3>1. \A h \in Getters : h # g => got'[h] = got[h] /\ getter'[h] = getter[h]
      BY <2>1
    <3>2. got'[g] = pipe[1] /\ got[g] \notin Items
      BY <2>1
    <3>3. \A j \in Items : InGetter(j)' => InGetter(j) \/ j = pipe[1]
      BY <3>1, <3>2 DEF InGetter
    <3>4. \A j \in Items : InGetter(j) => InGetter(j)'
      <4>1. ASSUME NEW h \in Getters, getter[h] # "dead", got[h] \in Items
            PROVE  getter'[h] # "dead" /\ got'[h] = got[h]
        BY <3>1, <3>2, <4>1
      <4>2. QED
        BY <4>1 DEF InGetter
    <3>5. \A j \in Items : j = pipe[1] => InGetter(j)'
      BY <2>1, <3>2 DEF InGetter
    <3>6. QED
      BY <3>3, <3>4, <3>5
  <2>4. QED
    BY <1>2, <1>3, <2>1, <2>2, <2>3 DEF InSlot
<1>5. CASE ReleaseSlot(g)
  <2>1. /\ getter[g] = "release" /\ got[g] \in Items
        /\ got' = [got EXCEPT ![g] = NoItem] /\ sem' = sem + 1
        /\ getter' = [getter EXCEPT ![g] =
                        IF g \in Blocking THEN "idle" ELSE "unlock"]
        /\ UNCHANGED pipe
    BY <1>5 DEF ReleaseSlot, GGoto, HandsOK
  <2>2. \A j \in Items : InSlot(j)' <=> InSlot(j) /\ j # got[g]
    <3>1. \A j \in Items : InGetter(j)' <=> InGetter(j) /\ j # got[g]
      <4>1. \A h \in Getters : h # g => /\ getter'[h] = getter[h]
                                        /\ got'[h] = got[h] /\ got[h] # got[g]
        BY <2>1 DEF GotApart
      <4>2. QED
        BY <2>1, <4>1 DEF InGetter
    <3>2. /\ got[g] \notin admitted /\ ~InPipe(got[g]) /\ ~InFeeder(got[g])
          /\ ~InBuffer(got[g])
      BY <2>1 DEF GotApart, PutOnce, FedApart, PipeApart, BuffersApart, Outside,
                  InPipe, InFeeder, InBuffer
    <3>3. \A j : InPipe(j)' <=> InPipe(j)
      BY <2>1 DEF InPipe
    <3>4. QED
      BY <1>2, <3>1, <3>2, <3>3 DEF InSlot
  <2>3. InSlot(got[g])
    BY <2>1 DEF InSlot, InGetter
  <2>4. got[g] \in Used /\ Used' = Used \ {got[g]}
    BY <2>1, <2>2, <2>3, UsedMembers, UsedMembersNext
  <2>5. QED
    BY <2>1, <2>4 DEF ReturnsSlot
<1>6. CASE KillGetter(g)
  <2>1. /\ getter' = [getter EXCEPT ![g] = "dead"] /\ UNCHANGED <<pipe, sem, got>>
    BY <1>6 DEF KillGetter, GGoto
  <2>2. \A j : /\ InPipe(j)' <=> InPipe(j)
               /\ InGetter(j)' => InGetter(j)
    BY <2>1 DEF InPipe, InGetter
  <2>3. SomeoneKilled'
    BY <2>1 DEF SomeoneKilled
  <2>4. \A j \in Items : InSlot(j)' => InSlot(j)
    BY <1>2, <2>2 DEF InSlot
  <2>5. QED
    BY <2>1, <2>3, <2>4, UsedMembers, UsedMembersNext DEF LosesSlots
<1>7. CASE LockReader(g) \/ PollFails(g) \/ UnlockReader(g)
  <2>1. /\ UNCHANGED <<pipe, sem, got>>
        /\ \A h \in Getters : getter'[h] = "dead" <=> getter[h] = "dead"
    BY <1>7 DEF LockReader, PollFails, UnlockReader, GGoto
  <2>2. \A j : /\ InPipe(j)' <=> InPipe(j)
               /\ InGetter(j)' <=> InGetter(j)
    BY <2>1 DEF InPipe, InGetter
  <2>3. QED
    BY <1>2, <1>3, <2>1, <2>2 DEF InSlot
<1>8. QED
  BY <1>4, <1>5, <1>6, <1>7 DEF GetterStep

-----------------------------------------------------------------------------
\* SlotInv is inductive, given the places of the objects.
LEMMA StepKeepsSlots == TypesOK /\ PlaceInv /\ SlotInv /\ [Next]_vars => SlotInv'
<1> SUFFICES ASSUME TypesOK, PlaceInv, SlotInv, [Next]_vars PROVE SlotInv'
  OBVIOUS
<1>1. TypesOK'
  BY StepKeepsTypes
<1>2. CASE UNCHANGED vars
  BY <1>2 DEF vars, putVars, feedVars, getVars, SlotInv, Used, Occupying, Ended,
              SlotsAccounted, SomeoneKilled
<1>3. CASE Next
  <2>1. KeepsSlots \/ TakesSlot \/ ReturnsSlot \/ LosesSlots
    BY <1>1, <1>3, PutSlots, FeederSlots, GetterSlots DEF Next
  <2>2. exiting \subseteq exiting'
    BY <1>3 DEF Next, Admit, Fill, FeederStep, Pop, Pickle, PickleFails,
                PickleFailsLate, LockPipe, Send, UnlockPipe, MeetSentinel, Exit,
                KillPutter, GetterStep, LockReader, PollFails, Receive,
                ReleaseSlot, UnlockReader, KillGetter, putVars
  <2>3. \A p \in Procs : feeder[p] = "dead" => feeder'[p] = "dead"
    BY <1>3 DEF TypesOK, Next, Admit, Fill, FeederStep, Pop, Pickle, PickleFails,
                PickleFailsLate, LockPipe, Send, UnlockPipe, MeetSentinel, Exit,
                KillPutter, GetterStep, LockReader, PollFails, Receive,
                ReleaseSlot, UnlockReader, KillGetter, feedVars, FGoto, Ended
  <2>4. \A g \in Getters : getter[g] = "dead" => getter'[g] = "dead"
    BY <1>3 DEF TypesOK, Next, Admit, Fill, FeederStep, Pop, Pickle, PickleFails,
                PickleFailsLate, LockPipe, Send, UnlockPipe, MeetSentinel, Exit,
                KillPutter, GetterStep, LockReader, PollFails, Receive,
                ReleaseSlot, UnlockReader, KillGetter, getVars, GGoto
  <2>5. SomeoneKilled => SomeoneKilled'
    BY <2>3, <2>4 DEF SomeoneKilled
  <2>6. QED
    BY <2>1, <2>2, <2>5, SlotStep
<1>4. QED
  BY <1>2, <1>3

-----------------------------------------------------------------------------
\* What put() moves is kept.
LEMMA PutKeepsObjects ==
  ASSUME TypesOK, PlaceInv, LossInv, NEW i \in Items, Admit(i) \/ Fill(i)
  PROVE  LossInv'
<1> USE ProcessQueueAssumption DEF TypesOK
<1>1. CASE Admit(i)
  <2>1. /\ fresh' = fresh \ {i} /\ admitted' = admitted \cup {i}
        /\ UNCHANGED <<buffer, feeder, fed, pipe, received>>
    BY <1>1 DEF Admit, feedVars, getVars
  <2>2. Kept(i)'
    BY <2>1 DEF Kept
  <2>3. \A j \in Items : Kept(j) => Kept(j)'
    BY <2>1 DEF Kept, Delivered
  <2>4. QED
    BY <2>1, <2>2, <2>3 DEF LossInv
<1>2. CASE Fill(i)
  <2> DEFINE q == Producer[i]
  <2>1. /\ admitted' = admitted \ {i} /\ q \in Procs
        /\ buffer' = [buffer EXCEPT ![q] = Append(@, i)]
        /\ UNCHANGED <<fresh, feeder, fed, pipe, received>>
    BY <1>2 DEF Fill, feedVars, getVars
  <2>2. /\ Len(buffer[q]) + 1 \in DOMAIN buffer'[q]
        /\ buffer'[q][Len(buffer[q]) + 1] = i
    BY <2>1, AppendFacts
  <2>3. ASSUME NEW r \in Procs, NEW k \in DOMAIN buffer[r]
        PROVE  k \in DOMAIN buffer'[r] /\ buffer'[r][k] = buffer[r][k]
    BY <2>1, AppendFacts
  <2>4. Kept(i)'
    BY <2>2 DEF Kept
  <2>5. \A j \in Items : Kept(j) /\ j # i => Kept(j)'
    BY <2>1, <2>3 DEF Kept, Delivered
  <2>6. QED
    BY <2>1, <2>4, <2>5 DEF LossInv
<1>3. QED
  BY <1>1, <1>2

\* The feeder keeps what it can pickle until its process is killed.
LEMMA FeederKeepsObjects ==
  ASSUME TypesOK, PlaceInv, LossInv, NEW p \in Procs,
         FeederStep(p) \/ Exit(p) \/ KillPutter(p)
  PROVE  LossInv'
<1> USE ProcessQueueAssumption DEF TypesOK
<1>1. UNCHANGED <<fresh, admitted, received>>
  BY DEF FeederStep, Pop, Pickle, PickleFails, PickleFailsLate, LockPipe, Send,
         UnlockPipe, MeetSentinel, Exit, KillPutter, putVars, getVars
<1>2. CASE Pop(p)
  <2>1. /\ fed' = [fed EXCEPT ![p] = Head(buffer[p])] /\ fed[p] = NoItem
        /\ buffer' = [buffer EXCEPT ![p] = Tail(@)] /\ buffer[p] # <<>>
        /\ feeder' = [feeder EXCEPT ![p] = "pickle"] /\ feeder[p] = "wait"
        /\ UNCHANGED pipe
    BY <1>2 DEF Pop, FGoto, PlaceInv, HandsOK
  <2>2. /\ fed'[p] = buffer[p][1] /\ buffer'[p] = Tail(buffer[p])
        /\ \A k \in DOMAIN buffer[p] :
             k # 1 => k - 1 \in DOMAIN buffer'[p] /\ buffer[p][k] = buffer'[p][k - 1]
    BY <2>1, TailFacts
  <2>3. \A q \in Procs : q # p => buffer'[q] = buffer[q] /\ fed'[q] = fed[q]
    BY <2>1
  <2>4. ASSUME NEW i \in Items, Kept(i) PROVE Kept(i)'
    <3>1. CASE Producer[i] # p
      <4>1. /\ buffer'[Producer[i]] = buffer[Producer[i]]
            /\ fed'[Producer[i]] = fed[Producer[i]]
        BY <2>3, <3>1
      <4>2. QED
        BY <1>1, <2>1, <2>4, <4>1 DEF Kept, Delivered
    <3>2. CASE Producer[i] = p
      <4>1. CASE \E k \in DOMAIN buffer[p] : i = buffer[p][k]
        <5>1. PICK k \in DOMAIN buffer[p] : i = buffer[p][k]
          BY <4>1
        <5>2. i = fed'[p] \/ \E l \in DOMAIN buffer'[p] : i = buffer'[p][l]
          BY <2>2, <5>1
        <5>3. QED
          BY <3>2, <5>2 DEF Kept
      <4>2. CASE i \in admitted \/ Delivered(i)
        BY <1>1, <2>1, <4>2 DEF Kept, Delivered
      <4>3. i # fed[p]
        BY <2>1
      <4>4. QED
        BY <2>4, <3>2, <4>1, <4>2, <4>3 DEF Kept
    <3>3. QED
      BY <3>1, <3>2
  <2>5. \A q \in Procs : feeder[q] = "dead" => feeder'[q] = "dead"
    BY <2>1
  <2>6. QED
    BY <1>1, <2>4, <2>5 DEF LossInv
<1>3. CASE Send(p)
  <2>1. /\ pipe' = Append(pipe, fed[p]) /\ fed' = [fed EXCEPT ![p] = NoItem]
        /\ feeder' = [feeder EXCEPT ![p] = "unlock"] /\ feeder[p] = "send"
        /\ fed[p] \in Items /\ UNCHANGED buffer
    BY <1>3 DEF Send, FGoto, putVars, PlaceInv, HandsOK
  <2>2. /\ \A k \in DOMAIN pipe : k \in DOMAIN pipe' /\ pipe'[k] = pipe[k]
        /\ Len(pipe) + 1 \in DOMAIN pipe' /\ pipe'[Len(pipe) + 1] = fed[p]
    BY <2>1, AppendFacts
  <2>3. \A i \in Items : Delivered(i) \/ i = fed[p] => Delivered(i)'
    BY <1>1, <2>2 DEF Delivered, ToSet
  <2>4. \A q \in Procs : q # p => fed'[q] = fed[q]
    BY <2>1
  <2>5. \A i \in Items : Kept(i) => Kept(i)'
    BY <1>1, <2>1, <2>3, <2>4 DEF Kept
  <2>6. \A q \in Procs : feeder[q] = "dead" => feeder'[q] = "dead"
    BY <2>1
  <2>7. QED
    BY <1>1, <2>5, <2>6 DEF LossInv
<1>4. CASE PickleFails(p) \/ PickleFailsLate(p)
  <2>1. /\ fed' = [fed EXCEPT ![p] = NoItem] /\ feeder[p] = "pickle"
        /\ fed[p] \in Unsendable /\ UNCHANGED pipe
        /\ buffer' \in {buffer, [buffer EXCEPT ![p] = <<>>]}
        /\ feeder' \in {[feeder EXCEPT ![p] = "wait"], [feeder EXCEPT ![p] = "gone"]}
    BY <1>4 DEF PickleFails, PickleFailsLate, FGoto, putVars
  <2>2. \E j \in Unsendable : Producer[j] = p
    BY <2>1 DEF PlaceInv, FedApart
  <2>3. \A q \in Procs : q # p => buffer'[q] = buffer[q] /\ fed'[q] = fed[q]
    BY <2>1
  <2>4. \A i \in Items : Producer[i] # p /\ Kept(i) => Kept(i)'
    BY <1>1, <2>1, <2>3 DEF Kept, Delivered
  <2>5. \A q \in Procs : feeder[q] = "dead" => feeder'[q] = "dead"
    BY <2>1
  <2>6. QED
    BY <1>1, <2>2, <2>4, <2>5 DEF LossInv
<1>5. CASE KillPutter(p)
  <2>1. /\ fed' = [fed EXCEPT ![p] = NoItem] /\ UNCHANGED pipe
        /\ buffer' = [buffer EXCEPT ![p] = <<>>]
        /\ feeder' = [feeder EXCEPT ![p] = "dead"]
    BY <1>5 DEF KillPutter, FGoto
  <2>2. \A q \in Procs : q # p => buffer'[q] = buffer[q] /\ fed'[q] = fed[q]
    BY <2>1
  <2>3. \A i \in Items : Producer[i] # p /\ Kept(i) => Kept(i)'
    BY <1>1, <2>1, <2>2 DEF Kept, Delivered
  <2>4. feeder'[p] = "dead" /\ \A q \in Procs : q # p => feeder'[q] = feeder[q]
    BY <2>1
  <2>5. QED
    BY <1>1, <2>3, <2>4 DEF LossInv
<1>6. CASE \/ Pickle(p) \/ LockPipe(p) \/ UnlockPipe(p) \/ MeetSentinel(p) \/ Exit(p)
  <2>1. UNCHANGED <<buffer, fed, pipe>>
    BY <1>6 DEF Pickle, LockPipe, UnlockPipe, MeetSentinel, Exit, putVars, feedVars
  <2>2. \A q \in Procs : feeder[q] = "dead" => feeder'[q] = "dead"
    BY <1>6 DEF Pickle, LockPipe, UnlockPipe, MeetSentinel, Exit, FGoto, feedVars
  <2>3. \A i \in Items : Kept(i) => Kept(i)'
    BY <1>1, <2>1 DEF Kept, Delivered
  <2>4. QED
    BY <1>1, <2>2, <2>3 DEF LossInv
<1>7. QED
  BY <1>2, <1>3, <1>4, <1>5, <1>6 DEF FeederStep

\* LossInv is inductive: get() moves the first of the pipe to what was received.
LEMMA StepKeepsObjects == TypesOK /\ PlaceInv /\ LossInv /\ [Next]_vars => LossInv'
<1> SUFFICES ASSUME TypesOK, PlaceInv, LossInv, [Next]_vars PROVE LossInv'
  OBVIOUS
<1>1. CASE UNCHANGED vars
  BY <1>1 DEF vars, putVars, feedVars, getVars, LossInv, Kept, Delivered
<1>2. ASSUME NEW g \in Getters, GetterStep(g) \/ KillGetter(g) PROVE LossInv'
  <2>1. /\ UNCHANGED <<fresh, admitted, buffer, fed, feeder>>
        /\ \/ UNCHANGED <<pipe, received>>
           \/ /\ pipe # <<>> /\ pipe' = Tail(pipe)
              /\ received' = received \cup {Head(pipe)}
    BY <1>2 DEF GetterStep, LockReader, PollFails, Receive, ReleaseSlot,
                UnlockReader, KillGetter, putVars, feedVars
  <2>2. \A i : Delivered(i) => Delivered(i)'
    <3>1. CASE UNCHANGED <<pipe, received>>
      BY <3>1 DEF Delivered
    <3>2. CASE /\ pipe # <<>> /\ pipe' = Tail(pipe)
               /\ received' = received \cup {Head(pipe)}
      <4>1. /\ Head(pipe) = pipe[1]
            /\ \A k \in DOMAIN pipe :
                 k # 1 => k - 1 \in DOMAIN pipe' /\ pipe[k] = pipe'[k - 1]
        BY <3>2, TailFacts DEF TypesOK
      <4>2. \A i \in ToSet(pipe) : i = Head(pipe) \/ i \in ToSet(pipe')
        BY <4>1 DEF ToSet
      <4>3. QED
        BY <3>2, <4>2 DEF Delivered
    <3>3. QED
      BY <2>1, <3>1, <3>2
  <2>3. QED
    BY <2>1, <2>2 DEF LossInv, Kept
<1>3. QED
  BY <1>1, <1>2, PutKeepsObjects, FeederKeepsObjects DEF Next

-----------------------------------------------------------------------------
\* A new queue satisfies the inductive invariant.
LEMMA InitIndInv == Init => IndInv
<1> SUFFICES ASSUME Init PROVE IndInv
  OBVIOUS
<1> USE ProcessQueueAssumption DEF Init
<1>1. TypesOK
  BY DEF TypesOK
<1>2. PlaceInv
  BY DEF PlaceInv, PutOnce, BuffersApart, FedApart, PipeApart, GotApart, HandsOK,
         Outside, Ended
<1>3. Used = {}
  <2>1. \A i \in Items : ~InSlot(i)
    BY DEF InSlot, InBuffer, InFeeder, InPipe, InGetter
  <2>2. QED
    BY <1>1, <2>1, UsedMembers
<1>4. SlotInv
  <2>1. IsFiniteSet(Used) /\ Cardinality(Used) = 0 /\ sem = Capacity
    BY <1>3, FS_EmptySet
  <2>2. sem + Cardinality(Used) = Capacity
    BY <2>1
  <2>3. QED
    BY <2>1, <2>2 DEF SlotInv, SlotsAccounted, Used
<1>5. LossInv
  BY DEF LossInv
<1>6. QED
  BY <1>1, <1>2, <1>4, <1>5 DEF IndInv

\* It holds in every state of the queue.
LEMMA IndInvHolds == Spec => []IndInv
<1>1. IndInv /\ [Next]_vars => IndInv'
  BY StepKeepsTypes, StepKeepsPlaces, StepKeepsSlots, StepKeepsObjects DEF IndInv
<1>2. QED
  BY InitIndInv, <1>1, PTL DEF Spec

\* Every variable of the queue keeps its type; the semaphore stays within its
\* bound, so that release() never raises.
THEOREM TypeCorrect == Spec => []TypeOK
<1>1. IndInv => TypeOK
  <2>1. SUFFICES ASSUME IndInv PROVE TypeOK
    OBVIOUS
  <2>2. Cardinality(Used) \in Nat /\ sem + Cardinality(Used) <= Capacity
    BY <2>1, FS_CardinalityType DEF IndInv, SlotInv, SlotsAccounted, Used
  <2>3. sem \in 0 .. Capacity
    BY <2>1, <2>2, ProcessQueueAssumption DEF IndInv, TypesOK
  <2>4. QED
    BY <2>1, <2>3 DEF IndInv, TypesOK, TypeOK
<1>2. QED
  BY IndInvHolds, <1>1, PTL

\* Slots: none is given back twice, and none leaks unless a process was killed
\* or failed on its way out, for any number of processes and objects.
THEOREM SlotsAreAccounted == Spec => []SlotsAccounted
<1>1. IndInv => SlotsAccounted
  BY DEF IndInv, SlotInv
<1>2. QED
  BY IndInvHolds, <1>1, PTL

\* A process that ends by itself takes nothing along that it put and that can
\* be pickled with everything else it put.
THEOREM ExitsLoseNothing == Spec => []ExitLosesNothing
<1>1. IndInv => ExitLosesNothing
  <2>1. SUFFICES ASSUME IndInv, NEW p \in Procs, feeder[p] = "gone",
                        NEW i \in Items \ fresh, Producer[i] = p,
                        ~\E j \in Unsendable : Producer[j] = p
                 PROVE  Delivered(i)
    BY DEF ExitLosesNothing
  <2>2. p \in exiting /\ buffer[p] = <<>> /\ fed[p] = NoItem /\ i \notin admitted
    BY <2>1 DEF IndInv, PlaceInv, HandsOK, PutOnce, Ended
  <2>3. Kept(i)
    BY <2>1 DEF IndInv, LossInv
  <2>4. QED
    BY <2>1, <2>2, <2>3, ProcessQueueAssumption DEF Kept
<1>2. QED
  BY IndInvHolds, <1>1, PTL

-----------------------------------------------------------------------------
(***************************************************************************)
(* The queue implements Channel.  Which objects a buffer or the pipe has,  *)
(* and in which order, after Append and Tail.                              *)
(***************************************************************************)
LEMMA PrecedesAt ==
  ASSUME NEW s, NEW k \in DOMAIN s, NEW l \in DOMAIN s, k < l
  PROVE  Precedes(s, s[k], s[l])
  BY DEF Precedes

\* Append puts an object behind all others.
LEMMA AppendOrder ==
  ASSUME NEW S, NEW s \in Seq(S), NEW x \in S
  PROVE  /\ \A i : i \in ToSet(Append(s, x)) <=> i \in ToSet(s) \/ i = x
         /\ \A j, i : Precedes(Append(s, x), j, i)
                        <=> Precedes(s, j, i) \/ (j \in ToSet(s) /\ i = x)
<1> DEFINE t == Append(s, x)
<1>1. /\ DOMAIN t = DOMAIN s \cup {Len(s) + 1} /\ t[Len(s) + 1] = x
      /\ \A k \in DOMAIN s : t[k] = s[k] /\ k \in Nat /\ k < Len(s) + 1
      /\ Len(s) + 1 \notin DOMAIN s /\ Len(s) \in Nat
  OBVIOUS
<1> HIDE DEF t
<1>2. \A i : i \in ToSet(t) <=> i \in ToSet(s) \/ i = x
  BY <1>1 DEF ToSet
<1>3. ASSUME NEW j, NEW i, Precedes(t, j, i)
      PROVE  Precedes(s, j, i) \/ (j \in ToSet(s) /\ i = x)
  <2>1. PICK k \in DOMAIN t, l \in DOMAIN t : k < l /\ t[k] = j /\ t[l] = i
    BY <1>3 DEF Precedes
  <2>2. k \in DOMAIN s
    BY <1>1, <2>1
  <2>3. j \in ToSet(s) /\ s[k] = j
    BY <1>1, <2>1, <2>2 DEF ToSet
  <2>4. l \in DOMAIN s \/ i = x
    BY <1>1, <2>1
  <2>5. l \in DOMAIN s => s[l] = i
    BY <1>1, <2>1
  <2>6. QED
    BY <2>1, <2>2, <2>3, <2>4, <2>5, PrecedesAt
<1>4. ASSUME NEW j, NEW i, Precedes(s, j, i)
      PROVE  Precedes(t, j, i)
  BY <1>1, <1>4 DEF Precedes
<1>5. ASSUME NEW j \in ToSet(s)
      PROVE  Precedes(t, j, x)
  BY <1>1 DEF Precedes, ToSet
<1>6. QED
  BY <1>2, <1>3, <1>4, <1>5 DEF t

\* Tail takes the head away, which was before all others.
LEMMA TailOrder ==
  ASSUME NEW S, NEW s \in Seq(S), s # <<>>
  PROVE  /\ \A i : i \in ToSet(s) <=> i = Head(s) \/ i \in ToSet(Tail(s))
         /\ \A j, i : Precedes(s, j, i)
                        <=> Precedes(Tail(s), j, i) \/ (j = Head(s) /\ i \in ToSet(Tail(s)))
<1> DEFINE t == Tail(s)
<1>1. /\ 1 \in DOMAIN s /\ s[1] = Head(s)
      /\ \A k \in DOMAIN t : k \in Nat /\ k + 1 \in DOMAIN s /\ 1 < k + 1 /\ t[k] = s[k + 1]
      /\ \A k \in DOMAIN s : /\ k \in Nat /\ 1 =< k
                             /\ k # 1 => k - 1 \in DOMAIN t /\ s[k] = t[k - 1]
  BY TailFacts
<1> HIDE DEF t
<1>2. \A i : i \in ToSet(s) <=> i = Head(s) \/ i \in ToSet(t)
  BY <1>1 DEF ToSet
<1>3. ASSUME NEW j, NEW i, Precedes(s, j, i)
      PROVE  Precedes(t, j, i) \/ (j = Head(s) /\ i \in ToSet(t))
  <2>1. PICK k \in DOMAIN s, l \in DOMAIN s : k < l /\ s[k] = j /\ s[l] = i
    BY <1>3 DEF Precedes
  <2>2. l # 1 /\ l - 1 \in DOMAIN t /\ i = t[l - 1]
    BY <1>1, <2>1
  <2>3. CASE k = 1
    BY <1>1, <2>1, <2>2, <2>3 DEF ToSet
  <2>4. CASE k # 1
    <3>1. k - 1 \in DOMAIN t /\ j = t[k - 1] /\ k - 1 < l - 1
      BY <1>1, <2>1, <2>4
    <3>2. QED
      BY <2>2, <3>1, PrecedesAt
  <2>5. QED
    BY <2>3, <2>4
<1>4. ASSUME NEW j, NEW i, Precedes(t, j, i)
      PROVE  Precedes(s, j, i)
  <2>1. PICK k \in DOMAIN t, l \in DOMAIN t : k < l /\ t[k] = j /\ t[l] = i
    BY <1>4 DEF Precedes
  <2>2. k + 1 \in DOMAIN s /\ l + 1 \in DOMAIN s /\ k + 1 < l + 1
        /\ s[k + 1] = j /\ s[l + 1] = i
    BY <1>1, <2>1
  <2>3. QED
    BY <2>2 DEF Precedes
<1>5. ASSUME NEW i \in ToSet(t)
      PROVE  Precedes(s, Head(s), i)
  BY <1>1 DEF Precedes, ToSet
<1>6. QED
  BY <1>2, <1>3, <1>4, <1>5 DEF t

\* The order of s is one of its objects.
LEMMA OrderedMembers ==
  ASSUME NEW s, NEW i, NEW j, Precedes(s, j, i)
  PROVE  i \in ToSet(s) /\ j \in ToSet(s)
  BY DEF Precedes, ToSet

\* Nothing is in order where nothing is.
LEMMA EmptyOrder == ToSet(<<>>) = {} /\ \A i, j : ~Precedes(<<>>, j, i)
  BY DEF ToSet, Precedes

(***************************************************************************)
(* Steps of Channel under the mapping, from what a step of the queue does  *)
(* to the objects on their way and to their order.                         *)
(***************************************************************************)
SameLine(j, i) == Producer[j] = Producer[i]

\* The objects on their way are in one of three places, and not yet received.
LEMMA WayParts ==
  ASSUME TypesOK, PlaceInv, NEW i \in Items
  PROVE  /\ Producer[i] \in Procs
         /\ OnItsWay(i) => i \notin Outside
         /\ Piped(i) => ~Fed(i) /\ ~Buffered(i)
         /\ Fed(i) => ~Buffered(i)
         /\ \A p \in Procs : i = fed[p] \/ i \in ToSet(buffer[p]) => Producer[i] = p
<1>1. Producer[i] \in Procs /\ i # NoItem
  BY ProcessQueueAssumption
<1> USE <1>1 DEF TypesOK, PlaceInv, ToSet
<1>2. Piped(i) => ~Fed(i) /\ ~Buffered(i) /\ i \notin Outside
  BY DEF PipeApart, Piped, Fed, Buffered
<1>3. Buffered(i) => ~Fed(i) /\ i \notin Outside
  BY DEF BuffersApart, Fed, Buffered
<1>4. Fed(i) => i \notin Outside
  BY DEF FedApart, Fed
<1>5. \A p \in Procs : i = fed[p] \/ i \in ToSet(buffer[p]) => Producer[i] = p
  BY DEF FedApart, BuffersApart
<1>6. QED
  BY <1>2, <1>3, <1>4, <1>5 DEF OnItsWay

\* Nothing of Channel changes.
LEMMA ChannelStutters ==
  ASSUME \A i \in Items : OnItsWay(i)' <=> OnItsWay(i),
         \A i, j \in Items : SameLine(j, i) => (Before(j, i)' <=> Before(j, i)),
         \A p \in Procs : Ended(p)' <=> Ended(p),
         UNCHANGED received
  PROVE  UNCHANGED Abstract!vars
  BY DEF Abstract!vars, SameLine

\* Objects leave the channel.
LEMMA ChannelRemoves ==
  ASSUME NEW S \in SUBSET Items,
         \A i \in Items : OnItsWay(i)' <=> OnItsWay(i) /\ i \notin S,
         \A i, j \in Items :
           SameLine(j, i) => (Before(j, i)' <=> Before(j, i) /\ i \notin S /\ j \notin S)
  PROVE  Abstract!Remove(S)
<1>1. {i \in Items : OnItsWay(i)}' = {i \in Items : OnItsWay(i)} \ S
  OBVIOUS
<1> DEFINE A(i) == {j \in Items : Producer[j] = Producer[i] /\ Before(j, i)}
<1>2. \A i \in Items : A(i)' = IF i \in S THEN {} ELSE A(i) \ S
  BY DEF SameLine
<1>3. [i \in Items |-> A(i)]' = [i \in Items |-> IF i \in S THEN {} ELSE A(i) \ S]
  BY <1>2
<1>4. QED
  BY <1>1, <1>3 DEF Abstract!Remove

\* put() leaves its object behind all others of its process.
LEMMA FillPuts ==
  ASSUME TypesOK, PlaceInv, NEW x \in Items, Fill(x)
  PROVE  Abstract!Put(x)
<1> DEFINE p == Producer[x]
<1>1. /\ p \in Procs /\ buffer[p] \in Seq(Items) /\ x \in admitted /\ ~Ended(p)
      /\ buffer' = [buffer EXCEPT ![p] = Append(buffer[p], x)]
      /\ UNCHANGED <<pipe, fed, received, feeder>>
  BY ProcessQueueAssumption DEF Fill, TypesOK, feedVars, getVars
<1>2. ~OnItsWay(x) /\ x \notin received
  BY <1>1, WayParts DEF Outside, PlaceInv, PutOnce
<1>3. \A i \in Items :
        /\ Piped(i)' <=> Piped(i)
        /\ Fed(i)' <=> Fed(i)
        /\ Buffered(i)' <=> Buffered(i) \/ i = x
  <2>1. \A i \in Items : Buffered(i)' <=> Buffered(i) \/ i = x
    BY <1>1, AppendOrder DEF Buffered, TypesOK
  <2>2. QED
    BY <1>1, <2>1 DEF Piped, Fed
<1>4. \A i, j \in Items : SameLine(j, i) =>
        (Before(j, i)' <=> Before(j, i) \/ (i = x /\ OnItsWay(j)))
  <2>1. SUFFICES ASSUME NEW i \in Items, NEW j \in Items, SameLine(j, i)
                 PROVE  Before(j, i)' <=> Before(j, i) \/ (i = x /\ OnItsWay(j))
    OBVIOUS
  <2>2. Precedes(buffer[Producer[i]], j, i)'
          <=> Precedes(buffer[Producer[i]], j, i) \/ (i = x /\ Buffered(j))
    BY <1>1, <2>1, AppendOrder DEF Buffered, TypesOK, SameLine
  <2>3. i = x => ~Piped(i) /\ ~Fed(i) /\ ~Buffered(i)
    BY <1>2 DEF OnItsWay
  <2>4. Precedes(pipe, j, i)' <=> Precedes(pipe, j, i)
    BY <1>1
  <2>5. j = x => ~Piped(j) /\ ~Fed(j)
    BY <1>2 DEF OnItsWay
  <2>6. QED
    BY <1>3, <2>2, <2>3, <2>4, <2>5 DEF Before, OnItsWay
<1>5. \A j \in Items : SameLine(j, x) => ~Before(j, x)
  BY <1>2, OrderedMembers DEF Before, OnItsWay, Piped, Buffered
<1> DEFINE W    == {i \in Items : OnItsWay(i)}
           A(i) == {j \in Items : Producer[j] = Producer[i] /\ Before(j, i)}
<1>6. W' = W \cup {x} /\ x \notin received \cup W
  BY <1>2, <1>3 DEF OnItsWay
<1>7. \A i \in Items : A(i)' = IF i = x THEN {j \in W : Producer[j] = p} ELSE A(i)
  BY <1>4, <1>5 DEF SameLine
<1>8. [i \in Items |-> A(i)]'
        = [[i \in Items |-> A(i)] EXCEPT ![x] = {j \in W : Producer[j] = p}]
  BY <1>7
<1>9. {q \in Procs : ~Ended(q)}' = {q \in Procs : ~Ended(q)}
  BY <1>1 DEF Ended
<1>10. QED
  BY <1>1, <1>6, <1>8, <1>9 DEF Abstract!Put, Abstract!Line

\* popleft() takes the first object out of the buffer into the hands of the
\* feeder.
LEMMA PopStutters ==
  ASSUME TypesOK, PlaceInv, NEW p \in Procs, Pop(p)
  PROVE  UNCHANGED Abstract!vars
<1> DEFINE x == Head(buffer[p])
           rest == Tail(buffer[p])
<1>1. /\ buffer[p] \in Seq(Items) /\ buffer[p] # <<>> /\ feeder[p] = "wait"
      /\ buffer' = [buffer EXCEPT ![p] = rest] /\ fed' = [fed EXCEPT ![p] = x]
      /\ \A q \in Procs : Ended(q)' <=> Ended(q)
      /\ UNCHANGED <<pipe, received>>
  BY DEF Pop, TypesOK, FGoto, getVars, Ended
<1>2. x \in Items /\ Producer[x] = p /\ fed[p] = NoItem /\ NoItem \notin Items
  BY <1>1, TailOrder, WayParts, TailFacts, ProcessQueueAssumption
  DEF PlaceInv, HandsOK
<1>3. x \notin ToSet(rest)
  BY <1>1, TailFacts DEF PlaceInv, BuffersApart, ToSet
<1>4. ASSUME NEW i \in Items
      PROVE  /\ Piped(i)' <=> Piped(i)
             /\ Producer[i] # p => /\ Fed(i)' <=> Fed(i)
                                   /\ buffer'[Producer[i]] = buffer[Producer[i]]
             /\ Producer[i] = p => /\ ~Fed(i) /\ (Fed(i)' <=> i = x)
                                   /\ Buffered(i)' <=> i \in ToSet(rest)
                                   /\ Buffered(i) <=> i = x \/ i \in ToSet(rest)
  BY <1>1, <1>2, TailOrder, ProcessQueueAssumption DEF Piped, Fed, Buffered, TypesOK
<1>5. \A i \in Items : Producer[i] # p => (Buffered(i)' <=> Buffered(i))
  BY <1>4 DEF Buffered
<1>6. \A i \in Items : OnItsWay(i)' <=> OnItsWay(i)
  BY <1>4, <1>5 DEF OnItsWay
<1>7. ASSUME NEW i \in Items, NEW j \in Items, SameLine(j, i)
      PROVE  Before(j, i)' <=> Before(j, i)
  <2>1. Precedes(pipe, j, i)' <=> Precedes(pipe, j, i)
    BY <1>1
  <2>2. CASE Producer[i] # p
    <3>1. Precedes(buffer[Producer[i]], j, i)' <=> Precedes(buffer[Producer[i]], j, i)
      BY <1>4, <2>2
    <3>2. QED
      BY <1>4, <1>5, <1>7, <2>1, <2>2, <3>1 DEF Before, SameLine
  <2>3. CASE Producer[i] = p
    <3>1. Precedes(buffer[Producer[i]], j, i)' <=> Precedes(rest, j, i)
      BY <1>1, <2>3 DEF TypesOK
    <3>2. Precedes(buffer[Producer[i]], j, i)
            <=> Precedes(rest, j, i) \/ (j = x /\ i \in ToSet(rest))
      BY <1>1, <2>3, TailOrder
    <3>3. Producer[j] = p
      BY <1>7, <2>3 DEF SameLine
    <3>4. QED
      BY <1>3, <1>4, <2>1, <2>3, <3>1, <3>2, <3>3 DEF Before
  <2>4. QED
    BY <2>2, <2>3
<1>8. QED
  BY <1>1, <1>6, <1>7, ChannelStutters

\* The feeder writes the object in its hands to the end of the pipe.
LEMMA SendStutters ==
  ASSUME TypesOK, PlaceInv, NEW p \in Procs, Send(p)
  PROVE  UNCHANGED Abstract!vars
<1> DEFINE x == fed[p]
<1>1. /\ pipe \in Seq(Items) /\ feeder[p] = "send"
      /\ pipe' = Append(pipe, x) /\ fed' = [fed EXCEPT ![p] = NoItem]
      /\ \A q \in Procs : Ended(q)' <=> Ended(q)
      /\ UNCHANGED <<buffer, received>>
  BY DEF Send, TypesOK, FGoto, getVars, putVars, Ended
<1>2. x \in Items /\ Producer[x] = p /\ NoItem \notin Items
  BY <1>1, ProcessQueueAssumption DEF PlaceInv, HandsOK, FedApart, TypesOK
<1>3. ASSUME NEW i \in Items
      PROVE  /\ Piped(i)' <=> Piped(i) \/ i = x
             /\ Fed(i)' <=> Fed(i) /\ i # x
             /\ i = x => Fed(i)
             /\ Producer[i] = p /\ Fed(i) => i = x
             /\ Buffered(i)' <=> Buffered(i)
             /\ Precedes(buffer[Producer[i]], i, i)' <=> Precedes(buffer[Producer[i]], i, i)
  BY <1>1, <1>2, AppendOrder, ProcessQueueAssumption DEF Piped, Fed, Buffered, TypesOK
<1>4. \A i \in Items : OnItsWay(i)' <=> OnItsWay(i)
  BY <1>3 DEF OnItsWay
<1>5. ASSUME NEW i \in Items, NEW j \in Items, SameLine(j, i)
      PROVE  Before(j, i)' <=> Before(j, i)
  <2>1. Precedes(pipe, j, i)' <=> Precedes(pipe, j, i) \/ (Piped(j) /\ i = x)
    BY <1>1, <1>2, AppendOrder DEF Piped
  <2>2. Precedes(buffer[Producer[i]], j, i)' <=> Precedes(buffer[Producer[i]], j, i)
    BY <1>1
  <2>3. Fed(i) /\ j = x => i = x
    BY <1>2, <1>3, <1>5 DEF SameLine
  <2>4. i = x => ~Buffered(i)
    BY <1>3, WayParts
  <2>5. Fed(j) /\ i = x => j = x
    BY <1>2, <1>3, <1>5 DEF SameLine
  <2>6. j = x => ~Piped(j) /\ ~Buffered(j)
    BY <1>3, WayParts
  <2>7. Buffered(i) /\ Fed(j) => Fed(j)' \/ j = x
    BY <1>3
  <2>8. QED
    BY <1>3, <2>1, <2>2, <2>3, <2>4, <2>5, <2>6, <2>7 DEF Before
<1>6. QED
  BY <1>1, <1>4, <1>5, ChannelStutters

\* get() takes the first object of the pipe: nothing of its process is ahead.
LEMMA ReceiveTakes ==
  ASSUME TypesOK, PlaceInv, NEW g \in Getters, Receive(g)
  PROVE  \E i \in Items : Abstract!Take(i)
<1>0. PICK x \in Items : x = Head(pipe)
  BY TailFacts DEF Receive, TypesOK
<1> DEFINE rest == Tail(pipe)
<1>1. /\ x = Head(pipe) /\ pipe \in Seq(Items) /\ pipe # <<>> /\ pipe' = rest
      /\ received' = received \cup {x}
      /\ UNCHANGED <<buffer, fed, feeder>>
  BY <1>0 DEF Receive, TypesOK, feedVars, putVars
<1>2. x \in Items /\ x \notin ToSet(rest)
  BY <1>1, TailFacts DEF PlaceInv, PipeApart, ToSet
<1>3. Piped(x) /\ ~Fed(x) /\ ~Buffered(x) /\ x \notin received
  BY <1>1, <1>2, TailOrder, WayParts DEF Piped, OnItsWay, Outside
<1>4. ASSUME NEW i \in Items
      PROVE  /\ Piped(i)' <=> i \in ToSet(rest)
             /\ Piped(i) <=> i = x \/ i \in ToSet(rest)
             /\ Fed(i)' <=> Fed(i)
             /\ Buffered(i)' <=> Buffered(i)
  BY <1>1, TailOrder DEF Piped, Fed, Buffered
<1>5. ASSUME NEW i \in Items, NEW j \in Items
      PROVE  /\ Precedes(pipe, j, i)' <=> Precedes(rest, j, i)
             /\ Precedes(pipe, j, i) <=> Precedes(rest, j, i)
                                           \/ (j = x /\ i \in ToSet(rest))
             /\ Precedes(buffer[Producer[i]], j, i)'
                  <=> Precedes(buffer[Producer[i]], j, i)
             /\ Precedes(rest, j, i) => j # x /\ i # x
             /\ Precedes(buffer[Producer[i]], j, i) => Buffered(i)
  BY <1>1, <1>2, TailOrder, OrderedMembers DEF Buffered
<1>6. \A i \in Items : OnItsWay(i)' <=> OnItsWay(i) /\ i \notin {x}
  BY <1>2, <1>3, <1>4 DEF OnItsWay
<1>7. ASSUME NEW i \in Items, NEW j \in Items, SameLine(j, i)
      PROVE  Before(j, i)' <=> Before(j, i) /\ i \notin {x} /\ j \notin {x}
  <2>1. Precedes(buffer[Producer[i]], j, i) => Buffered(j)
    BY <1>7, OrderedMembers DEF Buffered, SameLine
  <2>2. QED
    BY <1>2, <1>3, <1>4, <1>5, <2>1 DEF Before
<1>8. Abstract!Remove({x})
  BY <1>2, <1>6, <1>7, ChannelRemoves
<1>9. \A j \in Items : ~Before(j, x)
  BY <1>2, <1>3, <1>5 DEF Before
<1>10. {q \in Procs : ~Ended(q)}' = {q \in Procs : ~Ended(q)}
  BY <1>1 DEF Ended
<1>11. Abstract!Take(x)
  BY <1>1, <1>2, <1>3, <1>8, <1>9, <1>10 DEF Abstract!Take, OnItsWay
<1>12. QED
  BY <1>11

\* An object that cannot be pickled is dropped by the feeder that holds it.
LEMMA PickleFailsDrops ==
  ASSUME TypesOK, PlaceInv, NEW p \in Procs, PickleFails(p)
  PROVE  \E i \in Items : Abstract!Drop(i)
<1>1. PICK x \in Items : x = fed[p] /\ x \in Unsendable
  BY ProcessQueueAssumption DEF PickleFails
<1>2. /\ fed' = [fed EXCEPT ![p] = NoItem] /\ Producer[x] = p /\ fed[p] = x
      /\ NoItem \notin Items
      /\ UNCHANGED <<buffer, pipe, received>>
      /\ \A q \in Procs : Ended(q)' <=> Ended(q)
  BY <1>1, WayParts, ProcessQueueAssumption
  DEF PickleFails, putVars, getVars, FGoto, Ended, TypesOK
<1>3. Fed(x) /\ ~Piped(x) /\ ~Buffered(x) /\ x \notin received
  BY <1>2, WayParts DEF Fed, OnItsWay, Outside
<1>4. \A i \in Items :
        /\ Piped(i)' <=> Piped(i)
        /\ Buffered(i)' <=> Buffered(i)
        /\ Fed(i)' <=> Fed(i) /\ i # x
        /\ Producer[i] = p /\ Fed(i) => i = x
  BY <1>2, ProcessQueueAssumption DEF Piped, Buffered, Fed, TypesOK
<1>5. \A i \in Items : OnItsWay(i)' <=> OnItsWay(i) /\ i \notin {x}
  BY <1>3, <1>4 DEF OnItsWay
<1>6. ASSUME NEW i \in Items, NEW j \in Items, SameLine(j, i)
      PROVE  Before(j, i)' <=> Before(j, i) /\ i \notin {x} /\ j \notin {x}
  <2>1. /\ Precedes(pipe, j, i)' <=> Precedes(pipe, j, i)
        /\ Precedes(buffer[Producer[i]], j, i)' <=> Precedes(buffer[Producer[i]], j, i)
    BY <1>2
  <2>2. /\ Precedes(pipe, j, i) => Piped(j) /\ Piped(i)
        /\ Precedes(buffer[Producer[i]], j, i) => Buffered(j) /\ Buffered(i)
    BY <1>6, OrderedMembers DEF Piped, Buffered, SameLine
  <2>3. j = x /\ Fed(i) => i = x
    BY <1>2, <1>4, <1>6 DEF SameLine
  <2>4. QED
    BY <1>3, <1>4, <2>1, <2>2, <2>3 DEF Before
<1>7. Abstract!Remove({x})
  BY <1>5, <1>6, ChannelRemoves
<1>8. {q \in Procs : ~Ended(q)}' = {q \in Procs : ~Ended(q)}
  BY <1>2
<1>9. Abstract!Drop(x)
  BY <1>1, <1>2, <1>3, <1>7, <1>8 DEF Abstract!Drop, OnItsWay
<1>10. QED
  BY <1>9

\* A process that ends leaves what is in the pipe; what its feeder holds and
\* what is in its buffer, if anything, is lost, and nothing else was put later.
LEMMA ProcessEnds ==
  ASSUME TypesOK, PlaceInv, NEW p \in Procs, ~Ended(p),
         feeder' = [feeder EXCEPT ![p] = "gone"] \/ feeder' = [feeder EXCEPT ![p] = "dead"],
         fed' = [fed EXCEPT ![p] = NoItem],
         buffer' = [buffer EXCEPT ![p] = <<>>],
         UNCHANGED <<pipe, received>>
  PROVE  Abstract!End(p)
<1> DEFINE Lost(i) == Producer[i] = p /\ (Fed(i) \/ Buffered(i))
<1>1. PICK S \in SUBSET Items : \A i \in Items : i \in S <=> Lost(i)
  <2>1. {i \in Items : Lost(i)} \in SUBSET Items
    OBVIOUS
  <2>2. \A i \in Items : i \in {j \in Items : Lost(j)} <=> Lost(i)
    OBVIOUS
  <2> HIDE DEF Lost
  <2>3. QED
    BY <2>1, <2>2
<1>2. ASSUME NEW i \in Items
      PROVE  /\ Piped(i)' <=> Piped(i)
             /\ Fed(i)' <=> Fed(i) /\ Producer[i] # p
             /\ Buffered(i)' <=> Buffered(i) /\ Producer[i] # p
             /\ Producer[i] # p => buffer'[Producer[i]] = buffer[Producer[i]]
             /\ Producer[i] = p => buffer'[Producer[i]] = <<>>
  BY EmptyOrder, ProcessQueueAssumption DEF Piped, Fed, Buffered, TypesOK
<1>3. \A i \in Items : OnItsWay(i)' <=> OnItsWay(i) /\ i \notin S
  BY <1>1, <1>2, WayParts DEF OnItsWay
<1>4. ASSUME NEW i \in Items, NEW j \in Items, SameLine(j, i)
      PROVE  /\ Before(j, i)' <=> Before(j, i) /\ i \notin S /\ j \notin S
             /\ Before(j, i) /\ j \in S => i \in S
  <2>1. /\ Precedes(pipe, j, i)' <=> Precedes(pipe, j, i)
        /\ Precedes(pipe, j, i) => Piped(j) /\ Piped(i)
        /\ Precedes(buffer[Producer[i]], j, i) => Buffered(j) /\ Buffered(i)
    BY <1>4, OrderedMembers DEF Piped, Buffered, SameLine
  <2>2. Precedes(buffer[Producer[i]], j, i)'
          <=> Precedes(buffer[Producer[i]], j, i) /\ Producer[i] # p
    BY <1>2, EmptyOrder
  <2>3. Producer[j] = Producer[i]
    BY <1>4 DEF SameLine
  <2>4. /\ Piped(i) => ~Fed(i) /\ ~Buffered(i)
        /\ Piped(j) => ~Fed(j) /\ ~Buffered(j)
    BY WayParts
  <2>5. i \in S <=> Producer[i] = p /\ (Fed(i) \/ Buffered(i))
    BY <1>1
  <2>6. j \in S <=> Producer[i] = p /\ (Fed(j) \/ Buffered(j))
    BY <1>1, <2>3
  <2>7. QED
    BY <1>2, <2>1, <2>2, <2>3, <2>4, <2>5, <2>6 DEF Before
<1>5. Abstract!Remove(S)
  BY <1>3, <1>4, ChannelRemoves
<1>6. \A i \in S : OnItsWay(i) /\ Producer[i] = p
  BY <1>1 DEF OnItsWay
<1>7. {q \in Procs : ~Ended(q)}' = {q \in Procs : ~Ended(q)} \ {p}
  BY DEF Ended, TypesOK
<1>8. \A i \in S, j \in Items : Producer[i] = Producer[j] /\ Before(i, j) => j \in S
  BY <1>4 DEF SameLine
<1>9. QED
  BY <1>5, <1>6, <1>7, <1>8 DEF Abstract!End, Abstract!Line

\* Each step of the queue is a step of Channel, or leaves it as it is.
LEMMA StepImplementsChannel ==
  TypesOK /\ PlaceInv /\ [Next]_vars => [Abstract!Next]_(Abstract!vars)
<1> SUFFICES ASSUME TypesOK, PlaceInv, [Next]_vars
             PROVE  Abstract!Next \/ UNCHANGED Abstract!vars
  OBVIOUS
<1>1. ASSUME UNCHANGED <<pipe, buffer, fed, received>>,
             \A q \in Procs : Ended(q)' <=> Ended(q)
      PROVE  UNCHANGED Abstract!vars
  <2>1. \A i \in Items : OnItsWay(i)' <=> OnItsWay(i)
    BY <1>1 DEF OnItsWay, Piped, Fed, Buffered
  <2>2. \A i, j \in Items : Before(j, i)' <=> Before(j, i)
    BY <1>1 DEF Before, Piped, Fed, Buffered
  <2>3. QED
    BY <1>1, <2>1, <2>2, ChannelStutters
<1>2. ASSUME NEW i \in Items, Admit(i)
      PROVE  UNCHANGED Abstract!vars
  BY <1>1, <1>2 DEF Admit, feedVars, getVars, Ended
<1>3. ASSUME NEW i \in Items, Fill(i)
      PROVE  Abstract!Next
  BY <1>3, FillPuts DEF Abstract!Next
<1>4. ASSUME NEW p \in Procs, FeederStep(p)
      PROVE  Abstract!Next \/ UNCHANGED Abstract!vars
  <2>1. CASE Pop(p)
    BY <2>1, PopStutters
  <2>2. CASE Pickle(p)
    BY <1>1, <2>2 DEF Pickle, putVars, getVars, FGoto, Ended, TypesOK
  <2>3. CASE PickleFails(p)
    BY <2>3, PickleFailsDrops DEF Abstract!Next
  <2>4. CASE PickleFailsLate(p)
    <3>1. Abstract!End(p)
      BY <2>4, ProcessEnds DEF PickleFailsLate, getVars, FGoto, Ended, TypesOK
    <3>2. QED
      BY <3>1 DEF Abstract!Next
  <2>5. CASE LockPipe(p)
    BY <1>1, <2>5 DEF LockPipe, putVars, getVars, FGoto, Ended, TypesOK
  <2>6. CASE Send(p)
    BY <2>6, SendStutters
  <2>7. CASE UnlockPipe(p)
    BY <1>1, <2>7 DEF UnlockPipe, putVars, getVars, FGoto, Ended, TypesOK
  <2>8. CASE MeetSentinel(p)
    <3>1. fed[p] = NoItem /\ buffer[p] = <<>>
      BY <2>8 DEF MeetSentinel, PlaceInv, HandsOK
    <3>2. fed' = [fed EXCEPT ![p] = NoItem] /\ buffer' = [buffer EXCEPT ![p] = <<>>]
      BY <2>8, <3>1 DEF MeetSentinel, putVars, TypesOK
    <3>3. Abstract!End(p)
      BY <2>8, <3>2, ProcessEnds DEF MeetSentinel, getVars, FGoto, Ended, TypesOK
    <3>4. QED
      BY <3>3 DEF Abstract!Next
  <2>9. QED
    BY <1>4, <2>1, <2>2, <2>3, <2>4, <2>5, <2>6, <2>7, <2>8 DEF FeederStep
<1>5. ASSUME NEW p \in Procs, Exit(p)
      PROVE  UNCHANGED Abstract!vars
  BY <1>1, <1>5 DEF Exit, feedVars, getVars, Ended
<1>6. ASSUME NEW p \in Procs, KillPutter(p)
      PROVE  Abstract!Next
  <2>1. Abstract!End(p)
    BY <1>6, ProcessEnds DEF KillPutter, getVars, FGoto
  <2>2. QED
    BY <2>1 DEF Abstract!Next
<1>7. ASSUME NEW g \in Getters, GetterStep(g)
      PROVE  Abstract!Next \/ UNCHANGED Abstract!vars
  <2>1. CASE Receive(g)
    BY <2>1, ReceiveTakes DEF Abstract!Next
  <2>2. CASE LockReader(g) \/ PollFails(g) \/ ReleaseSlot(g) \/ UnlockReader(g)
    BY <1>1, <2>2 DEF LockReader, PollFails, ReleaseSlot, UnlockReader, putVars,
                      feedVars, Ended
  <2>3. QED
    BY <1>7, <2>1, <2>2 DEF GetterStep
<1>8. ASSUME NEW g \in Getters, KillGetter(g)
      PROVE  UNCHANGED Abstract!vars
  BY <1>1, <1>8 DEF KillGetter, putVars, feedVars, getVars, Ended
<1>9. CASE UNCHANGED vars
  BY <1>1, <1>9 DEF vars, putVars, feedVars, getVars, Ended
<1>10. QED
  BY <1>2, <1>3, <1>4, <1>5, <1>6, <1>7, <1>8, <1>9 DEF Next

(***************************************************************************)
(* A queue between processes implements Channel: what one process puts is  *)
(* received in the order of the puts and each object once, whoever gets    *)
(* it, whatever cannot be pickled, and whenever processes end or are       *)
(* killed.                                                                 *)
(***************************************************************************)
THEOREM QueueImplementsChannel == Spec => ImplementsChannel
<1>1. Init => Abstract!Init
  <2>1. SUFFICES ASSUME Init PROVE Abstract!Init
    OBVIOUS
  <2>2. \A i \in Items : ~OnItsWay(i)
    BY <2>1, EmptyOrder, ProcessQueueAssumption DEF Init, OnItsWay, Piped, Fed, Buffered
  <2>3. \A i, j \in Items : ~Before(j, i)
    BY <2>1, <2>2, EmptyOrder, ProcessQueueAssumption
    DEF Init, Before, OnItsWay
  <2>4. received = {} /\ \A p \in Procs : ~Ended(p)
    BY <2>1 DEF Init, Ended
  <2>5. QED
    BY <2>2, <2>3, <2>4 DEF Abstract!Init
<1>2. IndInv /\ [Next]_vars => [Abstract!Next]_(Abstract!vars)
  BY StepImplementsChannel DEF IndInv
<1>3. QED
  BY <1>1, <1>2, IndInvHolds, PTL DEF Spec, ImplementsChannel, Abstract!Spec

=============================================================================

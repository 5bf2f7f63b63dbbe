-------------------------- MODULE KwLoadGuardProofs --------------------------
(***************************************************************************)
(* For every queue size, every finite set of drivers and any number of     *)
(* callbacks at once: the semaphore of the load guard agrees with its      *)
(* queue, and the queue is there whenever it is indexed, unless the unload *)
(* gave up waiting.                                                        *)
(***************************************************************************)
EXTENDS KwLoadGuard, FiniteSetTheorems, TLAPS

CbPc == {"none", "enter", "check", "queue", "release", "drop", "leave", "done"}
WkPc == {"none", "wait", "dequeue", "process", "baseline", "gone"}
BossPc == {"start", "register", "collect", "up", "remove", "drain", "stop", "join", "off"}

(* The callbacks that have counted themselves in and not yet out. *)
Counted == {d \in Drv : cb[d] \in {"check", "queue", "release", "drop", "leave"}}

CountTypes ==
    /\ g_LgItems \in Nat
    /\ g_LgInFlight \in Nat
    /\ items \in Seq(Drv)
    /\ cb \in [Drv -> CbPc]
    /\ wkPc \in WkPc
    /\ boss \in BossPc

(* How far the unload has come says what can still touch the queue. *)
Phases ==
    /\ g_LgInFlight = Cardinality(Counted)
    /\ boss \notin {"register", "collect", "up"} => ~g_LgRunning
    /\ wkPc \in {"wait", "dequeue", "process", "baseline"} => boss \notin {"start", "off"}
    /\ boss \notin {"start", "off"} => g_LgQueue = "there" \/ gaveUp
    /\ boss \in {"start", "stop", "join", "off"} /\ ~gaveUp => \A d \in Drv : cb[d] # "queue"
    /\ \A d \in Drv : d \notin loaded => cb[d] = "none"
    /\ fault => gaveUp

IInv == CountTypes /\ SemaphoreCountsQueue /\ Phases

-----------------------------------------------------------------------------
(* Moving one callback into, or out of, a set of places changes the number *)
(* of callbacks there by one.                                              *)
LEMMA PlaceEntered ==
    ASSUME NEW d \in Drv, NEW S, NEW T, S \subseteq Drv, d \notin S, T = S \cup {d}
    PROVE  Cardinality(T) = Cardinality(S) + 1 /\ Cardinality(S) \in Nat
<1>1. IsFiniteSet(S)
  BY FS_Subset, DriversAssumption
<1> QED
  BY ZenonT(60), <1>1, FS_AddElement, FS_CardinalityType

LEMMA PlaceLeft ==
    ASSUME NEW d \in Drv, NEW S, NEW T, S \subseteq Drv, d \in S, T = S \ {d}
    PROVE  Cardinality(T) = Cardinality(S) - 1 /\ Cardinality(T) \in Nat /\ Cardinality(S) \in Nat
<1>1. IsFiniteSet(S)
  BY FS_Subset, DriversAssumption
<1> QED
  BY <1>1, FS_RemoveElement, FS_Subset, FS_CardinalityType, DriversAssumption

(* Nobody is in a place that holds no callback, and only then. *)
LEMMA PlaceEmpty ==
    ASSUME NEW S, S \subseteq Drv
    PROVE  /\ Cardinality(S) \in Nat
           /\ Cardinality(S) = 0 <=> S = {}
<1>1. IsFiniteSet(S)
  BY FS_Subset, DriversAssumption
<1> QED
  BY <1>1, FS_EmptySet, FS_CardinalityType

LEMMA InitHolds == Init => IInv
<1> SUFFICES ASSUME Init PROVE IInv
  OBVIOUS
<1>1. CountTypes
  BY DEF Init, CountTypes, CbPc, WkPc, BossPc
<1>2. Counted = {} /\ Releasing = {} /\ InHand = 0
  BY DEF Init, Counted, Releasing, InHand
<1>3. Cardinality({}) = 0
  BY FS_EmptySet
<1>4. SemaphoreCountsQueue
  BY <1>2, <1>3, QueueSizeAssumption DEF Init, SemaphoreCountsQueue
<1>5. Phases
  BY <1>2, <1>3 DEF Init, Phases
<1> QED
  BY <1>1, <1>4, <1>5 DEF IInv

(* A step that leaves the queue, the semaphore and the callbacks alone and *)
(* does not touch the worker's unit keeps the counts.                      *)
LEMMA CountsKept ==
    ASSUME IInv, UNCHANGED <<items, g_LgItems, g_LgInFlight, cb, itemOk>>, InHand' = InHand,
           wkPc' \in WkPc, boss' \in BossPc
    PROVE  CountTypes' /\ SemaphoreCountsQueue' /\ Releasing' = Releasing /\ Counted' = Counted
<1>1. Releasing' = Releasing /\ Counted' = Counted
  BY DEF Releasing, Counted
<1>2. CountTypes'
  BY DEF IInv, CountTypes
<1>3. SemaphoreCountsQueue'
  BY <1>1 DEF IInv, SemaphoreCountsQueue
<1> QED
  BY <1>1, <1>2, <1>3

(* The start: no callback can run before the registration. *)
LEMMA StartKeeps ==
    ASSUME IInv, InitializeGuard \/ InitializeFails \/ Register \/ LgCollectBaseline \/ TimerDue
    PROVE  IInv'
<1>1. ASSUME InitializeGuard PROVE IInv'
  <2>1. /\ UNCHANGED <<items, g_LgItems, g_LgInFlight, cb, itemOk, gaveUp, fault, loaded>>
        /\ boss = "start" /\ boss' = "register" /\ wkPc' = "wait" /\ g_LgQueue' = "there"
    BY <1>1 DEF InitializeGuard, unloadVars, queueVars
  <2>2. wkPc \notin {"wait", "dequeue", "process", "baseline"}
    BY <2>1 DEF IInv, Phases
  <2>3. InHand' = InHand
    BY <2>1, <2>2 DEF InHand
  <2>4. CountTypes' /\ SemaphoreCountsQueue' /\ Counted' = Counted
    BY <2>1, <2>3, CountsKept DEF WkPc, BossPc
  <2>5. Phases'
    BY <2>1, <2>4 DEF IInv, Phases
  <2> QED
    BY <2>4, <2>5 DEF IInv
<1>2. ASSUME InitializeFails PROVE IInv'
  <2>1. /\ UNCHANGED <<items, g_LgItems, g_LgInFlight, cb, itemOk, gaveUp, fault, wkPc, g_LgRunning, g_LgQueue, loaded>>
        /\ boss = "start" /\ boss' = "off"
    BY <1>2 DEF InitializeFails, unloadVars, queueVars, workVars
  <2>2. InHand' = InHand /\ wkPc' \in WkPc
    BY <2>1 DEF InHand, IInv, CountTypes
  <2>3. CountTypes' /\ SemaphoreCountsQueue' /\ Counted' = Counted
    BY <2>1, <2>2, CountsKept DEF BossPc
  <2>4. Phases'
    BY <2>1, <2>3 DEF IInv, Phases
  <2> QED
    BY <2>3, <2>4 DEF IInv
<1>3. ASSUME Register \/ LgCollectBaseline \/ TimerDue PROVE IInv'
  <2>1. /\ UNCHANGED <<items, g_LgItems, g_LgInFlight, cb, itemOk, gaveUp, fault, wkPc, g_LgRunning, g_LgQueue, loaded>>
        /\ \/ boss = "register" /\ boss' = "collect"
           \/ boss = "collect" /\ boss' = "up"
           \/ boss' = boss
    BY <1>3 DEF Register, LgCollectBaseline, TimerDue, unloadVars, queueVars, workVars
  <2>2. InHand' = InHand /\ wkPc' \in WkPc /\ boss' \in BossPc
    BY <2>1 DEF InHand, IInv, CountTypes, BossPc
  <2>3. CountTypes' /\ SemaphoreCountsQueue' /\ Counted' = Counted
    BY <2>1, <2>2, CountsKept
  <2>4. Phases'
    BY <2>1, <2>3 DEF IInv, Phases
  <2> QED
    BY <2>3, <2>4 DEF IInv
<1> QED
  BY <1>1, <1>2, <1>3

(* The callback: a path goes in before its unit, and g_LgInFlight is       *)
(* raised before g_LgRunning is read.                                      *)
LEMMA CallbackKeeps ==
    ASSUME IInv, NEW d \in Drv, LoadDriver(d) \/ LgImageNotify(d)
    PROVE  IInv'
<1> USE DEF cbRest, unloadVars, workVars
<1>0. /\ Releasing \subseteq Drv /\ Counted \subseteq Drv
      /\ InHand \in Nat /\ Len(items) \in Nat /\ Cardinality(Releasing) \in Nat
  BY PlaceEmpty DEF Releasing, Counted, InHand, IInv, CountTypes
<1>1. ASSUME LoadDriver(d) PROVE IInv'
  <2>1. /\ d \notin loaded /\ loaded' = loaded \cup {d} /\ cb[d] = "none"
        /\ cb' = [cb EXCEPT ![d] = IF g_LgRegistered THEN "enter" ELSE "none"]
        /\ UNCHANGED <<items, g_LgItems, g_LgInFlight, itemOk, gaveUp, fault, wkPc, boss, g_LgRunning, g_LgQueue>>
    BY <1>1 DEF LoadDriver, IInv, Phases
  <2>2. cb' \in [Drv -> CbPc]
    BY <2>1 DEF IInv, CountTypes, CbPc
  <2>3. Releasing' = Releasing /\ Counted' = Counted /\ InHand' = InHand
    BY <2>1 DEF Releasing, Counted, InHand, IInv, CountTypes
  <2>4. CountTypes' /\ SemaphoreCountsQueue'
    BY <2>1, <2>2, <2>3 DEF IInv, CountTypes, SemaphoreCountsQueue
  <2>5. Phases'
    BY <2>1, <2>3 DEF IInv, Phases, CountTypes
  <2> QED
    BY <2>4, <2>5 DEF IInv
<1>2. ASSUME NotifyEnter(d) PROVE IInv'
  <2>1. /\ cb[d] = "enter" /\ cb' = [cb EXCEPT ![d] = "check"] /\ g_LgInFlight' = g_LgInFlight + 1
        /\ UNCHANGED <<items, g_LgItems, itemOk, gaveUp, fault, wkPc, boss, g_LgRunning, g_LgQueue, loaded>>
    BY <1>2 DEF NotifyEnter
  <2>2. Releasing' = Releasing /\ Counted' = Counted \cup {d} /\ d \notin Counted /\ InHand' = InHand
    BY <2>1 DEF Releasing, Counted, InHand, IInv, CountTypes
  <2>3. Cardinality(Counted') = Cardinality(Counted) + 1
    BY <1>0, <2>2, PlaceEntered
  <2>4. CountTypes'
    BY <2>1 DEF IInv, CountTypes, CbPc
  <2>5. SemaphoreCountsQueue'
    BY <2>1, <2>2 DEF IInv, SemaphoreCountsQueue
  <2>6. Phases'
    BY <2>1, <2>3 DEF IInv, Phases, CountTypes
  <2> QED
    BY <2>4, <2>5, <2>6 DEF IInv
<1>3. ASSUME NotifyCheck(d) PROVE IInv'
  <2>1. /\ cb[d] = "check"
        /\ cb' = [cb EXCEPT ![d] = IF g_LgRunning /\ g_LgQueue = "there" THEN "queue" ELSE "leave"]
        /\ UNCHANGED <<items, g_LgItems, g_LgInFlight, itemOk, gaveUp, fault, wkPc, boss, g_LgRunning, g_LgQueue, loaded>>
    BY <1>3 DEF NotifyCheck
  <2>2. Releasing' = Releasing /\ Counted' = Counted /\ InHand' = InHand
    BY <2>1 DEF Releasing, Counted, InHand, IInv, CountTypes
  <2>3. CountTypes'
    BY <2>1 DEF IInv, CountTypes, CbPc
  <2>4. SemaphoreCountsQueue'
    BY <2>1, <2>2 DEF IInv, SemaphoreCountsQueue
  <2>5. Phases'
    BY <2>1, <2>2 DEF IInv, Phases, CountTypes
  <2> QED
    BY <2>3, <2>4, <2>5 DEF IInv
<1>4. ASSUME NotifyQueue(d) PROVE IInv'
  <2>1. /\ cb[d] = "queue"
        /\ UNCHANGED <<g_LgItems, g_LgInFlight, itemOk, gaveUp, wkPc, boss, g_LgRunning, g_LgQueue, loaded>>
    BY <1>4 DEF NotifyQueue
  <2>2. CASE Len(items) < QUEUE_SIZE
    <3>1. /\ items' = Append(items, d) /\ cb' = [cb EXCEPT ![d] = "release"]
          /\ fault' = (g_LgQueue # "there")
      BY <1>4, <2>2 DEF NotifyQueue
    <3>2. Releasing' = Releasing \cup {d} /\ d \notin Releasing /\ Counted' = Counted /\ InHand' = InHand
      BY <2>1, <3>1 DEF Releasing, Counted, InHand, IInv, CountTypes
    <3>3. Cardinality(Releasing') = Cardinality(Releasing) + 1
      BY <1>0, <3>2, PlaceEntered
    <3>4. items' \in Seq(Drv) /\ Len(items') = Len(items) + 1
      BY <3>1 DEF IInv, CountTypes
    <3>5. CountTypes'
      BY <2>1, <3>1, <3>4 DEF IInv, CountTypes, CbPc
    <3>6. SemaphoreCountsQueue'
      BY SMTT(30), <1>0, <2>1, <2>2, <3>2, <3>3, <3>4, QueueSizeAssumption DEF IInv,
         SemaphoreCountsQueue, CountTypes
    <3>7. Phases'
      BY ZenonT(60), <2>1, <3>1, <3>2 DEF IInv, Phases, CountTypes
    <3> QED
      BY <3>5, <3>6, <3>7 DEF IInv
  <2>3. CASE ~(Len(items) < QUEUE_SIZE)
    <3>1. cb' = [cb EXCEPT ![d] = "drop"] /\ UNCHANGED <<items, fault>>
      BY <1>4, <2>3 DEF NotifyQueue
    <3>2. Releasing' = Releasing /\ Counted' = Counted /\ InHand' = InHand
      BY <2>1, <3>1 DEF Releasing, Counted, InHand, IInv, CountTypes
    <3>3. CountTypes'
      BY <2>1, <3>1 DEF IInv, CountTypes, CbPc
    <3>4. SemaphoreCountsQueue'
      BY <2>1, <3>1, <3>2 DEF IInv, SemaphoreCountsQueue
    <3>5. Phases'
      BY <2>1, <3>1, <3>2 DEF IInv, Phases, CountTypes
    <3> QED
      BY <3>3, <3>4, <3>5 DEF IInv
  <2> QED
    BY <2>2, <2>3
<1>5. ASSUME NotifyRelease(d) PROVE IInv'
  <2>1. /\ cb[d] \in {"release", "drop"} /\ cb' = [cb EXCEPT ![d] = "leave"]
        /\ UNCHANGED <<items, g_LgInFlight, itemOk, gaveUp, fault, wkPc, boss, g_LgRunning, g_LgQueue, loaded>>
    BY <1>5 DEF NotifyRelease
  <2>2. Counted' = Counted /\ InHand' = InHand
    BY <2>1 DEF Counted, InHand, IInv, CountTypes
  <2>3. cb' \in [Drv -> CbPc]
    BY <2>1 DEF IInv, CountTypes, CbPc
  <2>4. CASE cb[d] = "release"
    <3>1. g_LgItems' = g_LgItems + 1
      BY <1>5, <2>4 DEF NotifyRelease
    <3>2. Releasing' = Releasing \ {d} /\ d \in Releasing
      BY <2>1, <2>4 DEF Releasing, IInv, CountTypes
    <3>3. Cardinality(Releasing') = Cardinality(Releasing) - 1
      BY <1>0, <3>2, PlaceLeft
    <3>4. CountTypes'
      BY <2>1, <2>3, <3>1 DEF IInv, CountTypes
    <3>5. SemaphoreCountsQueue'
      BY SMTT(30), <1>0, <2>1, <2>2, <3>1, <3>3 DEF IInv, SemaphoreCountsQueue, CountTypes
    <3>6. Phases'
      BY <2>1, <2>2 DEF IInv, Phases, CountTypes
    <3> QED
      BY <3>4, <3>5, <3>6 DEF IInv
  <2>5. CASE cb[d] = "drop"
    <3>1. g_LgItems' = g_LgItems
      BY <1>5, <2>5 DEF NotifyRelease
    <3>2. Releasing' = Releasing
      BY SMTT(30), <2>1, <2>5 DEF Releasing, IInv, CountTypes
    <3>3. CountTypes' /\ SemaphoreCountsQueue'
      BY <2>1, <2>2, <2>3, <3>1, <3>2 DEF IInv, CountTypes, SemaphoreCountsQueue
    <3>4. Phases'
      BY <2>1, <2>2 DEF IInv, Phases, CountTypes
    <3> QED
      BY <3>3, <3>4 DEF IInv
  <2> QED
    BY <2>1, <2>4, <2>5
<1>6. ASSUME NotifyLeave(d) PROVE IInv'
  <2>1. /\ cb[d] = "leave" /\ cb' = [cb EXCEPT ![d] = "done"] /\ g_LgInFlight' = g_LgInFlight - 1
        /\ UNCHANGED <<items, g_LgItems, itemOk, gaveUp, fault, wkPc, boss, g_LgRunning, g_LgQueue, loaded>>
    BY <1>6 DEF NotifyLeave
  <2>2. Releasing' = Releasing /\ Counted' = Counted \ {d} /\ d \in Counted /\ InHand' = InHand
    BY <2>1 DEF Releasing, Counted, InHand, IInv, CountTypes
  <2>3. Cardinality(Counted') = Cardinality(Counted) - 1 /\ Cardinality(Counted') \in Nat
    BY <1>0, <2>2, PlaceLeft
  <2>4. Phases'
    BY <2>1, <2>3 DEF IInv, Phases, CountTypes
  <2>5. CountTypes'
    BY <2>1, <2>3 DEF IInv, CountTypes, CbPc, Phases
  <2>6. SemaphoreCountsQueue'
    BY <2>1, <2>2 DEF IInv, SemaphoreCountsQueue
  <2> QED
    BY <2>4, <2>5, <2>6 DEF IInv
<1> QED
  BY <1>1, <1>2, <1>3, <1>4, <1>5, <1>6 DEF LgImageNotify

(* The worker: the unit it takes stands for the path it takes next, and it *)
(* is gone before the queue is freed.                                      *)
LEMMA WorkerKeeps ==
    ASSUME IInv, ~fault, LgWorker
    PROVE  IInv'
<1> USE DEF wkRest, unloadVars
<1>0. /\ UNCHANGED <<g_LgInFlight, itemOk, gaveUp, cb, boss, g_LgRunning, g_LgQueue, loaded>>
      /\ Releasing' = Releasing /\ Counted' = Counted
      /\ Cardinality(Releasing) \in Nat /\ Len(items) \in Nat
  <2>1. UNCHANGED <<g_LgInFlight, itemOk, gaveUp, cb, boss, g_LgRunning, g_LgQueue, loaded>>
    BY ZenonT(60) DEF LgWorker, WorkerWait, LgDequeue, WorkerProcess, LgBaselinePass
  <2>2. Releasing' = Releasing /\ Counted' = Counted
    BY <2>1 DEF Releasing, Counted
  <2>3. Cardinality(Releasing) \in Nat
    BY PlaceEmpty DEF Releasing
  <2> QED
    BY <2>1, <2>2, <2>3 DEF IInv, CountTypes
<1>1. ASSUME WorkerWait PROVE IInv'
  <2>1. /\ wkPc = "wait" /\ UNCHANGED <<items, fault>>
        /\ \/ wkPc' = "gone" /\ g_LgItems' = g_LgItems
           \/ wkPc' = "dequeue" /\ g_LgItems > 0 /\ g_LgItems' = g_LgItems - 1
           \/ wkPc' = "baseline" /\ g_LgItems' = g_LgItems
    BY <1>1 DEF WorkerWait
  <2>2. CountTypes'
    BY <1>0, <2>1 DEF IInv, CountTypes, WkPc
  <2>3. SemaphoreCountsQueue'
    BY <1>0, <2>1 DEF IInv, CountTypes, SemaphoreCountsQueue, InHand
  <2>4. Phases'
    BY <1>0, <2>1 DEF IInv, Phases
  <2> QED
    BY <2>2, <2>3, <2>4 DEF IInv
<1>2. ASSUME LgDequeue PROVE IInv'
  <2>1. wkPc = "dequeue" /\ g_LgItems' = g_LgItems
    BY <1>2 DEF LgDequeue
  <2>2. CASE itemOk /\ items # <<>>
    <3>1. wkPc' = "process" /\ items' = Tail(items) /\ fault' = (g_LgQueue # "there")
      BY <1>2, <2>2 DEF LgDequeue
    <3>2. items' \in Seq(Drv) /\ Len(items') = Len(items) - 1
      BY <2>2, <3>1 DEF IInv, CountTypes
    <3>3. CountTypes'
      BY <1>0, <2>1, <3>1, <3>2 DEF IInv, CountTypes, WkPc
    <3>4. SemaphoreCountsQueue'
      BY <1>0, <2>1, <3>1, <3>2, QueueSizeAssumption DEF IInv, CountTypes,
         SemaphoreCountsQueue, InHand
    <3>5. Phases'
      BY ZenonT(60), <1>0, <2>1, <3>1 DEF IInv, Phases
    <3> QED
      BY <3>3, <3>4, <3>5 DEF IInv
  <2>3. CASE ~(itemOk /\ items # <<>>)
    <3>1. wkPc' = "wait" /\ UNCHANGED <<items, fault>>
      BY <1>2, <2>3 DEF LgDequeue
    <3>2. CountTypes'
      BY <1>0, <2>1, <3>1 DEF IInv, CountTypes, WkPc
    <3>3. ~itemOk
      <4>1. g_LgItems + Cardinality(Releasing) + 1 <= Len(items)
        BY <2>1 DEF IInv, SemaphoreCountsQueue, InHand
      <4>2. Len(items) # 0
        BY <1>0, <4>1 DEF IInv, CountTypes
      <4>3. items # <<>>
        BY <4>2
      <4> QED
        BY <2>3, <4>3
    <3>4. SemaphoreCountsQueue'
      BY <1>0, <2>1, <3>1, <3>3 DEF IInv, CountTypes, SemaphoreCountsQueue, InHand
    <3>5. Phases'
      BY <1>0, <2>1, <3>1 DEF IInv, Phases
    <3> QED
      BY <3>2, <3>4, <3>5 DEF IInv
  <2> QED
    BY <2>2, <2>3
<1>3. ASSUME WorkerProcess \/ LgBaselinePass PROVE IInv'
  <2>1. /\ wkPc \in {"process", "baseline"} /\ wkPc' \in {"wait", "baseline"}
        /\ UNCHANGED <<items, g_LgItems, fault>>
    BY ZenonT(60), <1>3 DEF WorkerProcess, LgBaselinePass
  <2>2. InHand' = InHand
    BY <2>1 DEF InHand
  <2>3. CountTypes'
    BY <1>0, <2>1 DEF IInv, CountTypes, WkPc
  <2>4. SemaphoreCountsQueue'
    BY <1>0, <2>1, <2>2 DEF IInv, SemaphoreCountsQueue
  <2>5. Phases'
    BY <1>0, <2>1 DEF IInv, Phases
  <2> QED
    BY <2>3, <2>4, <2>5 DEF IInv
<1> QED
  BY <1>1, <1>2, <1>3 DEF LgWorker

(* The unload: once nobody is counted in and g_LgRunning is off, nobody is *)
(* at the queue and nobody gets there.                                     *)
LEMMA UnloadKeeps ==
    ASSUME IInv, DriverLoadGuardUninitialize
    PROVE  IInv'
<1> USE DEF unRest, unloadVars, workVars, queueVars
<1>0. UNCHANGED <<items, g_LgItems, g_LgInFlight, cb, itemOk, fault, wkPc, loaded>>
  BY DEF DriverLoadGuardUninitialize, UnloadBegin, RemoveCallback, Drained, GiveUpWaiting,
     StopWorker, FreeState
<1>1. InHand' = InHand /\ wkPc' \in WkPc
  BY <1>0 DEF InHand, IInv, CountTypes
<1>2. boss' \in BossPc
  BY DEF DriverLoadGuardUninitialize, UnloadBegin, RemoveCallback, Drained, GiveUpWaiting,
     StopWorker, FreeState, BossPc
<1>3. CountTypes' /\ SemaphoreCountsQueue' /\ Counted' = Counted
  BY SMTT(30), <1>0, <1>1, <1>2, CountsKept
<1>4. ASSUME UnloadBegin \/ RemoveCallback \/ StopWorker PROVE Phases'
  BY SMTT(30), <1>0, <1>3, <1>4 DEF UnloadBegin, RemoveCallback, StopWorker, IInv, Phases
<1>5. ASSUME Drained PROVE Phases'
  <2>1. Counted = {}
    BY ZenonT(60), <1>5, PlaceEmpty DEF Drained, IInv, Phases, Counted
  <2>2. \A d \in Drv : cb[d] # "queue"
    BY <2>1 DEF Counted
  <2> QED
    BY SMTT(30), <1>0, <1>3, <1>5, <2>2 DEF Drained, IInv, Phases
<1>6. ASSUME GiveUpWaiting PROVE Phases'
  BY <1>0, <1>3, <1>6 DEF GiveUpWaiting, IInv, Phases
<1>7. ASSUME FreeState PROVE Phases'
  BY SMTT(30), <1>0, <1>3, <1>7 DEF FreeState, IInv, Phases
<1> QED
  BY SMTT(30), <1>3, <1>4, <1>5, <1>6, <1>7 DEF DriverLoadGuardUninitialize, IInv

LEMMA NextKeeps == IInv /\ [Next]_lgVars => IInv'
<1> SUFFICES ASSUME IInv, [Next]_lgVars PROVE IInv'
  OBVIOUS
<1>1. ASSUME Next PROVE IInv'
  <2>1. ASSUME InitializeGuard \/ InitializeFails \/ Register \/ LgCollectBaseline \/ TimerDue PROVE IInv'
    BY <2>1, StartKeeps
  <2>2. ASSUME NEW d \in Drv, LoadDriver(d) \/ LgImageNotify(d) PROVE IInv'
    BY <2>2, CallbackKeeps
  <2>3. ASSUME ~fault, LgWorker PROVE IInv'
    BY <2>3, WorkerKeeps
  <2>4. ASSUME DriverLoadGuardUninitialize PROVE IInv'
    BY <2>4, UnloadKeeps
  <2> QED
    BY <1>1, <2>1, <2>2, <2>3, <2>4 DEF Next
<1>2. ASSUME UNCHANGED lgVars PROVE IInv'
  <2>1. /\ UNCHANGED <<items, g_LgItems, g_LgInFlight, cb, itemOk, wkPc, boss, gaveUp, fault, loaded>>
        /\ UNCHANGED <<g_LgRunning, g_LgQueue>>
    BY <1>2 DEF lgVars
  <2>2. InHand' = InHand /\ wkPc' \in WkPc /\ boss' \in BossPc
    BY <2>1 DEF InHand, IInv, CountTypes
  <2>3. CountTypes' /\ SemaphoreCountsQueue' /\ Counted' = Counted
    BY <2>1, <2>2, CountsKept
  <2>4. Phases'
    BY <2>1, <2>3 DEF IInv, Phases
  <2> QED
    BY <2>3, <2>4 DEF IInv
<1> QED
  BY <1>1, <1>2

-----------------------------------------------------------------------------
(* KeReleaseSemaphore in LgImageNotify never passes the limit the          *)
(* semaphore was created with, and no path stays behind in the queue of a  *)
(* sleeping worker, for every queue size and any number of drivers loading *)
(* at once.                                                                *)
THEOREM SemaphoreCorrect == Spec => []SemaphoreCountsQueue
<1>1. IInv => SemaphoreCountsQueue
  BY DEF IInv
<1> QED
  BY <1>1, InitHolds, NextKeeps, PTL DEF Spec

(* The "unload safety" of driver_load_guard.c:53-54: counting in before    *)
(* g_LgRunning is read and draining after it was cleared keeps every       *)
(* callback and the worker off a freed queue, except when the five seconds *)
(* of the drain run out.                                                   *)
THEOREM QueueSafe == Spec => []QueueThere
<1>1. IInv => QueueThere
  BY DEF IInv, Phases, QueueThere
<1> QED
  BY <1>1, InitHolds, NextKeeps, PTL DEF Spec
=============================================================================

----------------------------- MODULE KwLoadGuard -----------------------------
(***************************************************************************)
(* The driver-load guard of the Windows driver (driver_load_guard.c): the  *)
(* load-image callback, the bounded queue and the semaphore behind it, the *)
(* worker that hashes and decides, the pass over the drivers that were     *)
(* there at start, and the start and unload that surround them.            *)
(*                                                                         *)
(* A callback may be running for every driver at the same time.  What runs *)
(* under the queue's spin lock is one step; everything else that another   *)
(* thread can come between is a step of its own.                           *)
(***************************************************************************)
EXTENDS KwTable, FiniteSets

CONSTANTS
    Drv,            \* the drivers that can be loaded
    AtStart,        \* those loaded before KernelGuard
    Digest,         \* the Authenticode digest of each
    Setups,         \* what the start finds: [table, deny, allow, lock, memory], where table (the
                    \* generated one) has entries [digest, malicious, ok], deny and allow (registry)
                    \* have entries [digest, ok], and memory names the lists that get their memory
    QUEUE_SIZE,     \* LG_QUEUE_SIZE
    MAX_BASELINE,   \* LG_MAX_BASELINE
    MAX_HASHES,     \* LG_MAX_USER_HASHES
    NoDrv           \* no driver

ASSUME QueueSizeAssumption == QUEUE_SIZE \in Nat \ {0}
ASSUME DriversAssumption == IsFiniteSet(Drv) /\ NoDrv \notin Drv

VARIABLES
    boss,           \* where DriverEntry, later the unload, is
    g_LgRunning,
    g_LgRegistered,
    g_LgQueue,      \* "none", "there", or "leaked" (g_LgQueue = NULL, not freed)
    items,          \* what the queue holds, head first (Head, Tail and Count)
    g_LgItems,      \* the semaphore
    g_LgStop,
    timer,          \* g_LgBaselineTimer: "off", "set", "due"
    baseline,       \* g_LgBaselinePaths
    g_LgInFlight,
    g_LgDropped,
    lists,          \* the tables loaded: builtin, class, sorted, deny, allow, lock
    cb,             \* where the callback of each driver is
    wkPc,           \* where the worker is
    wkItem,         \* the driver it has taken from the queue
    wkTodo,         \* what is left of its start pass
    itemOk,         \* the worker got memory for an item
    loaded,         \* the drivers the system has loaded
    reports,        \* [drv, alert, level] reported so far
    fault,          \* the queue was indexed although it is not there
    \* history, never read by an action
    gaveUp,         \* the unload stopped waiting for a callback
    seen,           \* drivers the callback put into the queue
    missed,         \* drivers counted in g_LgDropped
    decided,        \* <<driver, baseline>> the worker is done with
    collected       \* the drivers of the start pass, or {} if it has none

lgVars == <<boss, g_LgRunning, g_LgRegistered, g_LgQueue, items, g_LgItems, g_LgStop, timer,
            baseline, g_LgInFlight, g_LgDropped, lists, cb, wkPc, wkItem, wkTodo, itemOk, loaded,
            reports, fault, gaveUp, seen, missed, decided, collected>>

-----------------------------------------------------------------------------
(* Lists and verdict *)

(* LgHashListRoutine for every string of the value: the well-formed ones, up to the limit. *)
LgLoadList(reg) ==
    LET good == SelectSeq(reg, LAMBDA e : e.ok)
    IN {good[i].digest : i \in 1..(IF Len(good) < MAX_HASHES THEN Len(good) ELSE MAX_HASHES)}

(* Mutant: the order of the table is taken for granted. *)
LgLoadBuiltin_TrustsOrder(table) ==
    LET good == SelectSeq(table, LAMBDA e : e.ok)
    IN [table |-> [i \in 1..Len(good) |-> good[i].digest],
        class |-> [i \in 1..Len(good) |-> good[i].malicious], sorted |-> TRUE]

(* The entries that parse, with the class beside each, and whether they are in order. *)
LgLoadBuiltin(table) ==
    LET good   == SelectSeq(table, LAMBDA e : e.ok)
        digits == [i \in 1..Len(good) |-> good[i].digest]
    IN [table |-> digits, class |-> [i \in 1..Len(good) |-> good[i].malicious],
        sorted |-> DtIsAscending(digits)]

NoBuiltin == [table |-> <<>>, class |-> <<>>, sorted |-> FALSE]

NoLists == [builtin |-> NoBuiltin, deny |-> {}, allow |-> {}, lock |-> FALSE]

LgBuiltinFind(d) == DtFind(lists.builtin.table, lists.builtin.sorted, Digest[d])

(* LgProcessPath once the file is hashed: what is reported, if anything. *)
Verdict(d, base) ==
    LET idx       == LgBuiltinFind(d)
        malicious == idx >= 0 /\ lists.builtin.class[idx + 1]
    IN CASE Digest[d] \in lists.allow -> {}
         [] Digest[d] \notin lists.allow /\ (idx >= 0 \/ Digest[d] \in lists.deny) ->
                {[drv |-> d, alert |-> "vuln_driver",
                  level |-> IF malicious \/ ~base THEN 2 ELSE 1]}
         [] OTHER -> IF lists.lock /\ ~base
                     THEN {[drv |-> d, alert |-> "module_loaded", level |-> 1]} ELSE {}

(* LgHashFile may fail: the file is gone, too large, shrinking or no image. *)
LgReportUnreadable(d, base) ==
    IF base THEN {} ELSE {[drv |-> d, alert |-> "module_loaded", level |-> 1]}

LgProcessPath(d, base) ==
    /\ \/ reports' = reports \cup Verdict(d, base)
       \/ reports' = reports \cup LgReportUnreadable(d, base)
    /\ decided' = decided \cup {<<d, base>>}

-----------------------------------------------------------------------------
Init ==
    /\ boss = "start" /\ g_LgRunning = FALSE /\ g_LgRegistered = FALSE
    /\ g_LgQueue = "none" /\ items = <<>> /\ g_LgItems = 0 /\ g_LgStop = FALSE
    /\ timer = "off" /\ baseline = <<>> /\ g_LgInFlight = 0 /\ g_LgDropped = 0
    /\ lists = NoLists
    /\ cb = [d \in Drv |-> "none"]
    /\ wkPc = "none" /\ wkItem = NoDrv /\ wkTodo = <<>> /\ itemOk \in BOOLEAN
    /\ loaded = AtStart /\ reports = {} /\ fault = FALSE
    /\ gaveUp = FALSE /\ seen = {} /\ missed = {} /\ decided = {} /\ collected = {}

unloadVars == <<g_LgStop, gaveUp>>
workVars == <<wkPc, wkItem, wkTodo, reports, decided>>
queueVars == <<items, g_LgItems, g_LgInFlight, g_LgDropped, cb, seen, missed, fault>>

(* DriverLoadGuardInitialize up to the worker thread: the lists (each may find no memory) and the *)
(* queue.  Without a queue or a thread everything is freed and the driver goes on without guard.  *)
InitializeGuard ==
    /\ boss = "start"
    /\ \E s \in Setups :
        lists' = [builtin |-> IF "builtin" \in s.memory THEN LgLoadBuiltin(s.table) ELSE NoBuiltin,
                  deny    |-> IF "deny" \in s.memory THEN LgLoadList(s.deny) ELSE {},
                  allow   |-> IF "allow" \in s.memory THEN LgLoadList(s.allow) ELSE {},
                  lock    |-> s.lock]
    /\ boss' = "register" /\ g_LgQueue' = "there" /\ g_LgRunning' = TRUE
    /\ wkPc' = "wait"
    /\ UNCHANGED <<wkItem, wkTodo, g_LgRegistered, timer, baseline, itemOk, loaded, reports,
                   decided, collected, unloadVars, queueVars>>

InitializeFails ==
    /\ boss = "start"
    /\ boss' = "off"
    /\ UNCHANGED <<g_LgRunning, g_LgRegistered, g_LgQueue, lists, timer, baseline, itemOk, loaded,
                   collected, unloadVars, workVars, queueVars>>

(* PsSetLoadImageNotifyRoutine; a failure leaves the start pass only. *)
Register ==
    /\ boss = "register"
    /\ boss' = "collect"
    /\ g_LgRegistered' \in BOOLEAN
    /\ UNCHANGED <<g_LgRunning, g_LgQueue, lists, timer, baseline, itemOk, loaded, collected,
                   unloadVars, workVars, queueVars>>

(* LgCollectBaseline, in the order the system lists its modules; no memory means no pass. *)
LgCollectBaseline ==
    /\ boss = "collect"
    /\ boss' = "up"
    /\ \E some \in BOOLEAN, order \in [1..Cardinality(loaded) -> loaded] :
        /\ \A i, j \in DOMAIN order : i # j => order[i] # order[j]
        /\ baseline' = IF some
                       THEN SubSeq(order, 1, IF Len(order) < MAX_BASELINE THEN Len(order) ELSE MAX_BASELINE)
                       ELSE <<>>
        /\ timer' = IF baseline' # <<>> THEN "set" ELSE "off"
        /\ collected' = {baseline'[i] : i \in 1..Len(baseline')}
    /\ UNCHANGED <<g_LgRunning, g_LgRegistered, g_LgQueue, lists, itemOk, loaded, unloadVars,
                   workVars, queueVars>>

TimerDue ==
    /\ timer = "set"
    /\ timer' = "due"
    /\ UNCHANGED <<boss, g_LgRunning, g_LgRegistered, g_LgQueue, lists, baseline, itemOk, loaded,
                   collected, unloadVars, workVars, queueVars>>

-----------------------------------------------------------------------------
(* The callback *)

(* The system loads a driver and calls whoever is registered at that moment. *)
LoadDriver(d) ==
    /\ d \notin loaded
    /\ loaded' = loaded \cup {d}
    /\ cb' = [cb EXCEPT ![d] = IF g_LgRegistered THEN "enter" ELSE "none"]
    /\ UNCHANGED <<boss, g_LgRunning, g_LgRegistered, g_LgQueue, lists, timer, baseline, itemOk,
                   collected, unloadVars, workVars, items, g_LgItems, g_LgInFlight, g_LgDropped,
                   seen, missed, fault>>

cbRest == <<boss, g_LgRunning, g_LgRegistered, g_LgQueue, lists, timer, baseline, itemOk, loaded,
            collected, unloadVars, workVars>>

(* The callback counts itself in ... *)
NotifyEnter(d) ==
    /\ cb[d] = "enter"
    /\ g_LgInFlight' = g_LgInFlight + 1
    /\ cb' = [cb EXCEPT ![d] = "check"]
    /\ UNCHANGED <<items, g_LgItems, g_LgDropped, seen, missed, fault, cbRest>>

(* ... then looks whether the guard runs and has a queue ... *)
NotifyCheck(d) ==
    /\ cb[d] = "check"
    /\ cb' = [cb EXCEPT ![d] = IF g_LgRunning /\ g_LgQueue = "there" THEN "queue" ELSE "leave"]
    /\ UNCHANGED <<items, g_LgItems, g_LgInFlight, g_LgDropped, seen, missed, fault, cbRest>>

(* ... then, under the lock, stores the path if there is room ... *)
NotifyQueue(d) ==
    /\ cb[d] = "queue"
    /\ IF Len(items) < QUEUE_SIZE
       THEN /\ items' = Append(items, d)
            /\ cb' = [cb EXCEPT ![d] = "release"]
            /\ seen' = seen \cup {d}
            /\ fault' = (g_LgQueue # "there")
       ELSE /\ cb' = [cb EXCEPT ![d] = "drop"]
            /\ UNCHANGED <<items, seen, fault>>
    /\ UNCHANGED <<g_LgItems, g_LgInFlight, g_LgDropped, missed, cbRest>>

(* Mutant: the worker is woken for a driver that found no room, too. *)
NotifyRelease_Always(d) ==
    /\ cb[d] \in {"release", "drop"}
    /\ g_LgItems' = g_LgItems + 1
    /\ IF cb[d] = "release" THEN UNCHANGED <<g_LgDropped, missed>>
       ELSE g_LgDropped' = g_LgDropped + 1 /\ missed' = missed \cup {d}
    /\ cb' = [cb EXCEPT ![d] = "leave"]
    /\ UNCHANGED <<items, g_LgInFlight, seen, fault, cbRest>>

(* ... and after it wakes the worker or counts the loss ... *)
NotifyRelease(d) ==
    /\ cb[d] \in {"release", "drop"}
    /\ IF cb[d] = "release"
       THEN g_LgItems' = g_LgItems + 1 /\ UNCHANGED <<g_LgDropped, missed>>
       ELSE g_LgDropped' = g_LgDropped + 1 /\ missed' = missed \cup {d} /\ UNCHANGED g_LgItems
    /\ cb' = [cb EXCEPT ![d] = "leave"]
    /\ UNCHANGED <<items, g_LgInFlight, seen, fault, cbRest>>

(* ... and counts itself out. *)
NotifyLeave(d) ==
    /\ cb[d] = "leave"
    /\ g_LgInFlight' = g_LgInFlight - 1
    /\ cb' = [cb EXCEPT ![d] = "done"]
    /\ UNCHANGED <<items, g_LgItems, g_LgDropped, seen, missed, fault, cbRest>>

LgImageNotify(d) ==
    NotifyEnter(d) \/ NotifyCheck(d) \/ NotifyQueue(d) \/ NotifyRelease(d) \/ NotifyLeave(d)

-----------------------------------------------------------------------------
(* The worker *)

wkRest == <<boss, g_LgRunning, g_LgRegistered, g_LgQueue, lists, itemOk, loaded, collected, unloadVars,
            g_LgInFlight, g_LgDropped, cb, seen, missed>>

(* KeWaitForMultipleObjects: stop before items before the timer. *)
WorkerWait ==
    /\ wkPc = "wait"
    /\ \/ /\ g_LgStop
          /\ wkPc' = "gone"
          /\ UNCHANGED <<g_LgItems, timer, wkTodo>>
       \/ /\ ~g_LgStop /\ g_LgItems > 0
          /\ g_LgItems' = g_LgItems - 1
          /\ wkPc' = "dequeue"
          /\ UNCHANGED <<timer, wkTodo>>
       \/ /\ ~g_LgStop /\ g_LgItems = 0 /\ timer = "due"
          /\ timer' = "off"
          /\ wkPc' = "baseline" /\ wkTodo' = baseline
          /\ UNCHANGED g_LgItems
    /\ UNCHANGED <<wkItem, items, baseline, reports, decided, fault, wkRest>>

(* LgDequeue; without memory for the item nothing is taken out. *)
LgDequeue ==
    /\ wkPc = "dequeue"
    /\ IF itemOk /\ items # <<>>
       THEN /\ wkPc' = "process" /\ wkItem' = Head(items)
            /\ items' = Tail(items)
            /\ fault' = (g_LgQueue # "there")
       ELSE wkPc' = "wait" /\ UNCHANGED <<wkItem, items, fault>>
    /\ UNCHANGED <<wkTodo, g_LgItems, timer, baseline, reports, decided, wkRest>>

WorkerProcess ==
    /\ wkPc = "process"
    /\ LgProcessPath(wkItem, FALSE)
    /\ wkPc' = "wait" /\ wkItem' = NoDrv
    /\ UNCHANGED <<wkTodo, items, g_LgItems, timer, baseline, fault, wkRest>>

(* LgBaselinePass: driver after driver until done or told to stop, then the paths are freed. *)
LgBaselinePass ==
    /\ wkPc = "baseline"
    /\ IF g_LgStop \/ wkTodo = <<>>
       THEN /\ wkPc' = "wait" /\ wkTodo' = <<>>
            /\ baseline' = <<>>
            /\ UNCHANGED <<reports, decided>>
       ELSE /\ LgProcessPath(Head(wkTodo), TRUE)
            /\ wkTodo' = Tail(wkTodo)
            /\ UNCHANGED <<wkPc, baseline>>
    /\ UNCHANGED <<wkItem, items, g_LgItems, timer, fault, wkRest>>

LgWorker == WorkerWait \/ LgDequeue \/ WorkerProcess \/ LgBaselinePass

-----------------------------------------------------------------------------
(* DriverLoadGuardUninitialize *)

unRest == <<itemOk, loaded, collected, workVars, queueVars>>

UnloadBegin ==
    /\ boss = "up"
    /\ boss' = "remove" /\ g_LgRunning' = FALSE
    /\ UNCHANGED <<g_LgRegistered, g_LgQueue, timer, baseline, lists, unloadVars, unRest>>

RemoveCallback ==
    /\ boss = "remove"
    /\ boss' = "drain" /\ g_LgRegistered' = FALSE
    /\ UNCHANGED <<g_LgRunning, g_LgQueue, timer, baseline, lists, unloadVars, unRest>>

(* Mutant: the unload does not look at g_LgInFlight. *)
Drained_NotAsked ==
    /\ boss = "drain"
    /\ boss' = "stop"
    /\ UNCHANGED <<g_LgRunning, g_LgRegistered, g_LgQueue, timer, baseline, lists, unloadVars,
                   unRest>>

(* 500 looks at g_LgInFlight, 10 ms apart; a callback still in flight makes it leak the queue. *)
Drained ==
    /\ boss = "drain" /\ g_LgInFlight = 0
    /\ boss' = "stop"
    /\ UNCHANGED <<g_LgRunning, g_LgRegistered, g_LgQueue, timer, baseline, lists, unloadVars,
                   unRest>>

GiveUpWaiting ==
    /\ boss = "drain" /\ g_LgInFlight > 0
    /\ boss' = "stop" /\ g_LgQueue' = "leaked" /\ gaveUp' = TRUE
    /\ UNCHANGED <<g_LgRunning, g_LgRegistered, g_LgStop, timer, baseline, lists, unRest>>

StopWorker ==
    /\ boss = "stop"
    /\ boss' = "join" /\ g_LgStop' = TRUE
    /\ UNCHANGED <<g_LgRunning, g_LgRegistered, g_LgQueue, timer, baseline, lists, gaveUp, unRest>>

(* The worker is gone: the timer is cancelled and LgFreeState frees what is left. *)
FreeState ==
    /\ boss = "join" /\ wkPc = "gone"
    /\ boss' = "off" /\ timer' = "off" /\ baseline' = <<>> /\ lists' = NoLists
    /\ g_LgQueue' = IF g_LgQueue = "there" THEN "none" ELSE g_LgQueue
    /\ UNCHANGED <<g_LgRunning, g_LgRegistered, unloadVars, unRest>>

DriverLoadGuardUninitialize ==
    UnloadBegin \/ RemoveCallback \/ Drained \/ GiveUpWaiting \/ StopWorker \/ FreeState

-----------------------------------------------------------------------------
(* A fault in the kernel is the end of the system. *)
Next ==
    /\ ~fault
    /\ \/ InitializeGuard \/ InitializeFails \/ Register \/ LgCollectBaseline \/ TimerDue
       \/ \E d \in Drv : LoadDriver(d) \/ LgImageNotify(d)
       \/ LgWorker
       \/ DriverLoadGuardUninitialize

Spec == Init /\ [][Next]_lgVars

-----------------------------------------------------------------------------
(* Properties *)

Releasing == {d \in Drv : cb[d] = "release"}
InHand == IF wkPc = "dequeue" THEN 1 ELSE 0

(* What the semaphore says, together with what was queued but not yet      *)
(* released and with the unit the worker has just taken, is never more     *)
(* than what the queue holds, so KeReleaseSemaphore never passes its limit *)
(* LG_QUEUE_SIZE (it would raise an exception in the callback).  While the *)
(* worker has memory for an item it is never less either, so no path is    *)
(* left in the queue of a worker that sleeps.                              *)
SemaphoreCountsQueue ==
    /\ g_LgItems + Cardinality(Releasing) + InHand <= Len(items)
    /\ itemOk => g_LgItems + Cardinality(Releasing) + InHand = Len(items)
    /\ Len(items) <= QUEUE_SIZE

(* The callback and the worker index the queue only while it is there,     *)
(* unless the unload ran out of patience with a callback                   *)
(* (driver_load_guard.c:53-54 and :742).                                   *)
QueueThere == fault => gaveUp

Listed(d) ==
    \/ \E i \in 1..Len(lists.builtin.table) : lists.builtin.table[i] = Digest[d]
    \/ Digest[d] \in lists.deny

KnownMalicious(d) ==
    \E i \in 1..Len(lists.builtin.table) :
        lists.builtin.table[i] = Digest[d] /\ lists.builtin.class[i]

(* While the guard is up, every driver that came after the registration is *)
(* on its way through the callback or the queue, decided, or counted as    *)
(* dropped; every other one is in the start pass if there is one that had  *)
(* room ("never a missed one", driver_load_guard.c:693).  A listed driver  *)
(* that was decided has its report, whatever the order of the table ("only *)
(* slow, never blind"), and one found at start is only critical if it is   *)
(* known malware.                                                          *)
DriversAnswered ==
    boss = "up" =>
      /\ \A d \in loaded :
            IF cb[d] # "none"
            THEN \/ cb[d] \in {"enter", "check", "queue", "drop"}
                 \/ \E i \in 1..Len(items) : items[i] = d
                 \/ wkItem = d \/ <<d, FALSE>> \in decided \/ d \in missed
            ELSE /\ g_LgRegistered /\ Cardinality(collected) \in 1..(MAX_BASELINE - 1) => d \in collected
                 /\ d \in collected => \/ \E i \in 1..Len(baseline) : baseline[i] = d
                                       \/ <<d, TRUE>> \in decided
      /\ \A d \in loaded : /\ <<d, FALSE>> \in decided /\ Listed(d) /\ Digest[d] \notin lists.allow
                               => \E r \in reports : r.drv = d
      /\ \A r \in reports :
            /\ r.alert = "vuln_driver" => Listed(r.drv) /\ Digest[r.drv] \notin lists.allow
            /\ r.alert = "vuln_driver" /\ <<r.drv, FALSE>> \notin decided =>
                    (r.level = 2 <=> KnownMalicious(r.drv))
=============================================================================

------------------------------ MODULE KgNotify ------------------------------
(***************************************************************************)
(* The other half of kg_comms.c: the rate limiter in front of the ring and *)
(* the fallback channel behind it, a work item that turns notifications    *)
(* into uevents on a device that comes late and goes early.                *)
(*                                                                         *)
(* Both take kc->lock, so a notification is published in one step here;    *)
(* KgRing looks inside that step, at the reader that takes no lock.        *)
(***************************************************************************)
EXTENDS Integers

CONSTANTS
    SLOTS,          \* KG_NOTIFY_SLOTS (16)
    BURST,          \* KG_RL_BURST (32)
    MaxNotify,      \* bound on the notifications published
    MaxTicks        \* bound on the rate-limiter intervals a window spans

INFO     == 0
WATCH    == 1
CRITICAL == 2
Level    == INFO .. CRITICAL
Seq      == 0 .. MaxNotify - 1

VARIABLES
    write_index,
    level,              \* level[q]: the alert level of notification q
    rl_tokens, owed,    \* the token bucket; intervals since rl_last_ns, at most BURST
    limited, ticks,     \* since some moment: alerts the bucket let through, intervals
    dropped,            \* has an alert been refused (notifications_dropped)
    toQueue,            \* notifiers past the lock that are about to queue the work
    dev,                \* the uevent device: absent, set, cleared, released
    pending, worker,    \* uevent_work queued; where kg_uevent_workfn() is
    ue_cursor, holding  \* holding: the notification it is about to signal

limitVars == <<rl_tokens, owed, limited, ticks, dropped>>
ueVars == <<dev, pending, worker, ue_cursor, holding>>
vars == <<write_index, level, rl_tokens, owed, limited, ticks, dropped, toQueue,
          dev, pending, worker, ue_cursor, holding>>

MinOf(a, b) == IF a < b THEN a ELSE b
MaxOf(a, b) == IF a > b THEN a ELSE b

Init ==
    /\ write_index = 0 /\ level = [q \in Seq |-> INFO]
    /\ rl_tokens = BURST /\ owed = 0 /\ limited = 0 /\ ticks = 0 /\ dropped = FALSE
    /\ toQueue = 0
    /\ dev = "absent" /\ pending = FALSE /\ worker = "idle"
    /\ ue_cursor = 0 /\ holding = 0

-----------------------------------------------------------------------------
(* kg_comms_notify() *)

(* What the bucket holds once the elapsed intervals are added. *)
Refilled == MinOf(BURST, rl_tokens + owed)

(* Mutant: rl_last_ns stays, so the same intervals are credited again. *)
kg_rl_allow_CreditsTwice(l) ==
    IF l >= CRITICAL THEN UNCHANGED <<rl_tokens, owed, limited>>
    ELSE /\ Refilled > 0
         /\ rl_tokens' = Refilled - 1 /\ limited' = limited + 1
         /\ UNCHANGED owed

(* kg_rl_allow() lets an alert of level l through; critical ones bypass it. *)
kg_rl_allow(l) ==
    IF l >= CRITICAL THEN UNCHANGED <<rl_tokens, owed, limited>>
    ELSE /\ Refilled > 0
         /\ rl_tokens' = Refilled - 1 /\ owed' = 0 /\ limited' = limited + 1

NotifyRefused(l) ==
    /\ l < CRITICAL /\ Refilled = 0
    /\ rl_tokens' = Refilled /\ owed' = 0
    /\ dropped' = TRUE
    /\ UNCHANGED <<write_index, level, limited, ticks, toQueue, ueVars>>

(* The HMAC cannot be computed: the token is spent, nothing is published. *)
NotifyHmacFails(l) ==
    /\ kg_rl_allow(l)
    /\ UNCHANGED <<write_index, level, ticks, dropped, toQueue, ueVars>>

NotifyPublish(l) ==
    /\ write_index < MaxNotify
    /\ kg_rl_allow(l)
    /\ write_index' = write_index + 1
    /\ level' = [level EXCEPT ![write_index] = l]
    /\ toQueue' = IF l >= WATCH THEN toQueue + 1 ELSE toQueue
    /\ UNCHANGED <<ticks, dropped, ueVars>>

(* After the unlock. *)
NotifyQueue ==
    /\ toQueue > 0
    /\ toQueue' = toQueue - 1
    /\ pending' = TRUE
    /\ UNCHANGED <<write_index, level, limitVars, dev, worker, ue_cursor, holding>>

(* KG_RL_INTERVAL_NS passes. *)
Tick ==
    /\ ticks < MaxTicks
    /\ ticks' = ticks + 1
    /\ owed' = MinOf(BURST, owed + 1)
    /\ UNCHANGED <<write_index, level, rl_tokens, limited, dropped, toQueue, ueVars>>

(* Counting starts afresh: any moment may begin the window RateBounded looks at. *)
NewWindow ==
    /\ limited' = 0 /\ ticks' = 0
    /\ UNCHANGED <<write_index, level, rl_tokens, owed, dropped, toQueue, ueVars>>

-----------------------------------------------------------------------------
(* kg_uevent_workfn() and its device *)

WorkStart ==
    /\ pending /\ worker = "idle"
    /\ pending' = FALSE /\ worker' = "scan"
    /\ UNCHANGED <<write_index, level, limitVars, toQueue, dev, ue_cursor, holding>>

(* One turn of the loop, under the lock.  (A slot read under the lock is      *)
(* always whole, because the writer holds it too: "valid" does not fail.)    *)
UeventScan ==
    LET i == MaxOf(ue_cursor, write_index - SLOTS) IN
    /\ worker = "scan"
    /\ IF dev # "set" \/ ue_cursor = write_index
       THEN worker' = "idle" /\ UNCHANGED <<ue_cursor, holding>>
       ELSE /\ ue_cursor' = i + 1 /\ holding' = i
            /\ worker' = IF level[i] >= WATCH THEN "emit" ELSE "scan"
    /\ UNCHANGED <<write_index, level, limitVars, toQueue, dev, pending>>

(* kobject_uevent_env(), on the device read under the lock. *)
UeventEmit ==
    /\ worker = "emit"
    /\ worker' = "scan"
    /\ UNCHANGED <<write_index, level, limitVars, toQueue, dev, pending, ue_cursor, holding>>

(* Mutant: what was raised before the device came is not flushed. *)
SetDevice_NoFlush ==
    /\ dev = "absent"
    /\ dev' = "set"
    /\ UNCHANGED <<write_index, level, limitVars, toQueue, pending, worker, ue_cursor,
                   holding>>

(* kg_comms_set_device(dev): queues the work for what was raised before. *)
SetDevice ==
    /\ dev = "absent"
    /\ dev' = "set" /\ pending' = TRUE
    /\ UNCHANGED <<write_index, level, limitVars, toQueue, worker, ue_cursor, holding>>

(* kg_comms_set_device(NULL), then cancel_work_sync(). *)
ClearDevice ==
    /\ dev = "set"
    /\ dev' = "cleared"
    /\ UNCHANGED <<write_index, level, limitVars, toQueue, pending, worker, ue_cursor,
                   holding>>

CancelWork ==
    /\ dev = "cleared" /\ worker = "idle"
    /\ dev' = "released" /\ pending' = FALSE
    /\ UNCHANGED <<write_index, level, limitVars, toQueue, worker, ue_cursor, holding>>

-----------------------------------------------------------------------------
WorkerStep == WorkStart \/ UeventScan \/ UeventEmit

Next ==
    \/ \E l \in Level : NotifyRefused(l) \/ NotifyHmacFails(l) \/ NotifyPublish(l)
    \/ NotifyQueue \/ Tick \/ NewWindow
    \/ WorkerStep \/ SetDevice \/ ClearDevice \/ CancelWork

Spec == Init /\ [][Next]_vars

(* The workqueue runs what is queued, a notifier gets past its last line, and *)
(* kg_init() goes on to create the device.                                    *)
FairSpec == Spec /\ WF_vars(WorkerStep) /\ WF_vars(NotifyQueue) /\ WF_vars(SetDevice)

-----------------------------------------------------------------------------
(* Properties. *)

(* kg_rl_allow(): in any stretch of time the alerts below CRITICAL that are  *)
(* let through are at most the burst and one for each interval.              *)
RateBounded == limited <= BURST + ticks

(* Every WATCH or CRITICAL notification passes the fallback channel, also    *)
(* the ones raised before the device existed, unless the device goes away.   *)
EventuallySignalled ==
    \A q \in Seq : write_index > q /\ level[q] >= WATCH
                      ~> ue_cursor > q \/ dev \in {"cleared", "released"}
=============================================================================

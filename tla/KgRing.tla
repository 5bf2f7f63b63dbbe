------------------------------- MODULE KgRing -------------------------------
(***************************************************************************)
(* The notification channel of the Linux module (kg_comms.c) with its      *)
(* reader, the monitor (kgmon.c: cmd_monitor, drain, read_slot).           *)
(*                                                                         *)
(* Writers publish under kc->lock, one store after the other; the monitor  *)
(* maps the ring and takes no lock, so its loads interleave with those     *)
(* stores.  A slot keeps its magic (is it valid), its sequence field, and  *)
(* its body (the other fields and the HMAC), which is named by the         *)
(* notification it was written for: the HMAC of a copy verifies exactly    *)
(* when sequence and body belong together.                                 *)
(***************************************************************************)
EXTENDS Integers, FiniteSets

CONSTANTS
    SLOTS,          \* KG_NOTIFY_SLOTS (16)
    Writer,         \* contexts that call kg_comms_notify()
    TRIES,          \* how often drain() tries a slot (50)
    MaxNotify       \* bound on the notifications published

None == "none"

ASSUME RingAssumption ==
    SLOTS \in Nat \ {0} /\ TRIES \in Nat \ {0} /\ MaxNotify \in Nat /\ None \notin Writer

Seq  == 0 .. MaxNotify - 1
Blank == -1         \* what an all-zero slot holds: nobody's body
Field == {"seq", "body"}

VARIABLES
    magic, seqOf, bodyOf,   \* the slots of the ring
    driver_nonce, write_index,
    lock,                   \* who holds kc->lock, or None
    writer, fill,           \* where each writer is; fields its holder has to store
    mon,                    \* where the monitor is
    cursor, target,         \* drain(): *cursor and w
    copy, todo, tries,      \* read_slot(): *out, fields still to copy; attempts
    seen, woken,            \* poll(): *seen; wake-up received
    fate                    \* what the monitor made of each notification

ringVars == <<magic, seqOf, bodyOf, driver_nonce, write_index>>
writeVars == <<lock, writer, fill>>
readVars == <<target, copy, todo, tries>>
pollVars == <<seen, woken>>
monVars == <<mon, cursor, readVars, pollVars, fate>>
vars == <<magic, seqOf, bodyOf, driver_nonce, write_index, lock, writer, fill, mon,
          cursor, target, copy, todo, tries, seen, woken, fate>>

Slot(q) == q % SLOTS
MaxOf(a, b) == IF a > b THEN a ELSE b

NoCopy == [seq |-> 0, body |-> Blank]

Init ==
    /\ magic = [s \in 0 .. SLOTS - 1 |-> FALSE]
    /\ seqOf = [s \in 0 .. SLOTS - 1 |-> 0]
    /\ bodyOf = [s \in 0 .. SLOTS - 1 |-> Blank]
    /\ driver_nonce = 0 /\ write_index = 0
    /\ lock = None /\ writer = [t \in Writer |-> "idle"] /\ fill = {}
    /\ mon = "start" /\ cursor = 0 /\ target = 0
    /\ copy = NoCopy /\ todo = {} /\ tries = 0
    /\ seen = 0 /\ woken = FALSE
    /\ fate = [q \in Seq |-> "pending"]

-----------------------------------------------------------------------------
(* kg_comms_notify(), past the rate limiter (see KgNotify). *)

NotifyLock(t) ==
    /\ writer[t] = "idle" /\ lock = None /\ driver_nonce < MaxNotify
    /\ lock' = t
    /\ driver_nonce' = driver_nonce + 1
    /\ writer' = [writer EXCEPT ![t] = "hmac"]
    /\ UNCHANGED <<magic, seqOf, bodyOf, write_index, fill, monVars>>

NotifyHmacFails(t) ==
    /\ writer[t] = "hmac"
    /\ driver_nonce' = driver_nonce - 1
    /\ lock' = None
    /\ writer' = [writer EXCEPT ![t] = "idle"]
    /\ UNCHANGED <<magic, seqOf, bodyOf, write_index, fill, monVars>>

(* Mutant: the slot stays valid while it is rewritten. *)
NotifyInvalidate_Skipped(t) ==
    /\ writer[t] = "hmac"
    /\ fill' = Field
    /\ writer' = [writer EXCEPT ![t] = "fill"]
    /\ UNCHANGED <<ringVars, lock, monVars>>

(* The HMAC is there: the slot's magic is set to 0. *)
NotifyInvalidate(t) ==
    /\ writer[t] = "hmac"
    /\ magic' = [magic EXCEPT ![Slot(driver_nonce - 1)] = FALSE]
    /\ fill' = Field
    /\ writer' = [writer EXCEPT ![t] = "fill"]
    /\ UNCHANGED <<seqOf, bodyOf, driver_nonce, write_index, lock, monVars>>

(* Plain stores: the compiler may order the fields as it likes. *)
NotifyFill(t, f) ==
    LET q == driver_nonce - 1 IN
    /\ writer[t] = "fill" /\ f \in fill
    /\ seqOf' = IF f = "seq" THEN [seqOf EXCEPT ![Slot(q)] = q] ELSE seqOf
    /\ bodyOf' = IF f = "body" THEN [bodyOf EXCEPT ![Slot(q)] = q] ELSE bodyOf
    /\ fill' = fill \ {f}
    /\ UNCHANGED <<magic, driver_nonce, write_index, lock, writer, monVars>>

NotifyValidate(t) ==
    /\ writer[t] = "fill" /\ fill = {}
    /\ magic' = [magic EXCEPT ![Slot(driver_nonce - 1)] = TRUE]
    /\ writer' = [writer EXCEPT ![t] = "publish"]
    /\ UNCHANGED <<seqOf, bodyOf, driver_nonce, write_index, lock, fill, monVars>>

NotifyPublish(t) ==
    /\ writer[t] = "publish"
    /\ write_index' = driver_nonce
    /\ lock' = None
    /\ writer' = [writer EXCEPT ![t] = "wake"]
    /\ UNCHANGED <<magic, seqOf, bodyOf, driver_nonce, fill, monVars>>

(* After the unlock: wake the pollers. *)
NotifyWake(t) ==
    /\ writer[t] = "wake"
    /\ woken' = (woken \/ mon \in {"check", "asleep"})
    /\ writer' = [writer EXCEPT ![t] = "idle"]
    /\ UNCHANGED <<ringVars, lock, fill, mon, cursor, readVars, seen, fate>>

-----------------------------------------------------------------------------
(* The monitor *)

(* open(): kg_comms_open() notes where the ring is. *)
MonitorOpen ==
    /\ mon = "start"
    /\ seen' = write_index
    /\ mon' = "begin"
    /\ UNCHANGED <<ringVars, writeVars, cursor, readVars, woken, fate>>

(* The first cursor: the backlog, or with --new only what comes. *)
MonitorBegin ==
    /\ mon = "begin"
    /\ cursor' \in {write_index, MaxOf(write_index - SLOTS, 0)}
    /\ fate' = [q \in Seq |-> IF q < cursor' THEN "old" ELSE "pending"]
    /\ mon' = "drain"
    /\ UNCHANGED <<ringVars, writeVars, readVars, pollVars>>

(* Mutants: the last notification is left for later; an overrun skips one   *)
(* notification that is still there.                                        *)
DrainBegin_LeavesLast ==
    LET from == MaxOf(cursor, write_index - SLOTS) IN
    /\ mon = "drain"
    /\ target' = write_index
    /\ cursor' = from
    /\ fate' = [q \in Seq |-> IF q \in cursor .. from - 1 THEN "lost" ELSE fate[q]]
    /\ mon' = IF from >= write_index - 1 THEN "register" ELSE "slot"
    /\ tries' = 0
    /\ UNCHANGED <<ringVars, writeVars, copy, todo, pollVars>>

DrainBegin_SkipsOneMore ==
    LET from == IF write_index - cursor > SLOTS THEN write_index - SLOTS + 1 ELSE cursor IN
    /\ mon = "drain"
    /\ target' = write_index
    /\ cursor' = from
    /\ fate' = [q \in Seq |-> IF q \in cursor .. from - 1 THEN "lost" ELSE fate[q]]
    /\ mon' = IF from = write_index THEN "register" ELSE "slot"
    /\ tries' = 0
    /\ UNCHANGED <<ringVars, writeVars, copy, todo, pollVars>>

(* drain(): what w says, and the notifications lost to an overrun. *)
DrainBegin ==
    LET from == MaxOf(cursor, write_index - SLOTS) IN
    /\ mon = "drain"
    /\ target' = write_index
    /\ cursor' = from
    /\ fate' = [q \in Seq |-> IF q \in cursor .. from - 1 THEN "lost" ELSE fate[q]]
    /\ mon' = IF from = write_index THEN "register" ELSE "slot"
    /\ tries' = 0
    /\ UNCHANGED <<ringVars, writeVars, copy, todo, pollVars>>

(* The verdict on the notification at the cursor, and on to the next one.  *)
(* (The copy is dead from here on; it is cleared to keep states few.)      *)
Settle(f) ==
    /\ fate' = [fate EXCEPT ![cursor] = f]
    /\ cursor' = cursor + 1
    /\ tries' = 0 /\ copy' = NoCopy
    /\ mon' = IF cursor + 1 = target THEN "register" ELSE "slot"

(* SLOT_RETRY. *)
Retry ==
    /\ tries' = tries + 1
    /\ mon' = IF tries + 1 < TRIES THEN "slot" ELSE "verdict"
    /\ copy' = NoCopy
    /\ UNCHANGED <<cursor, fate>>

(* read_slot(): load magic, copy the fields, load magic again. *)
ReadMagic ==
    /\ mon = "slot"
    /\ IF magic[Slot(cursor)]
       THEN mon' = "copy" /\ todo' = Field /\ UNCHANGED <<cursor, fate, tries, copy>>
       ELSE Retry /\ UNCHANGED todo
    /\ UNCHANGED <<ringVars, writeVars, target, pollVars>>

ReadCopy(f) ==
    /\ mon = "copy" /\ f \in todo
    /\ copy' = IF f = "seq" THEN [seq |-> seqOf[Slot(cursor)], body |-> copy.body]
                            ELSE [seq |-> copy.seq, body |-> bodyOf[Slot(cursor)]]
    /\ todo' = todo \ {f}
    /\ UNCHANGED <<ringVars, writeVars, mon, cursor, target, tries, pollVars, fate>>

ReadRecheck ==
    /\ mon = "copy" /\ todo = {}
    /\ IF ~magic[Slot(cursor)] THEN Retry
       ELSE IF copy.seq = cursor
            THEN Settle(IF copy.body = copy.seq THEN "shown" ELSE "forged")
            ELSE mon' = "verdict" /\ UNCHANGED <<cursor, fate, tries, copy>>
    /\ UNCHANGED <<ringVars, writeVars, target, todo, pollVars>>

ReadVerdict ==
    /\ mon = "verdict"
    /\ Settle(IF write_index - cursor > SLOTS - 1 THEN "overwritten" ELSE "tamper")
    /\ UNCHANGED <<ringVars, writeVars, target, todo, pollVars>>

(* poll(): kg_comms_poll() first joins the wait queue, then looks. *)
PollRegister ==
    /\ mon = "register"
    /\ mon' = "check" /\ woken' = FALSE
    /\ UNCHANGED <<ringVars, writeVars, cursor, readVars, seen, fate>>

PollCheck ==
    /\ mon = "check"
    /\ seen' = write_index
    /\ mon' = IF write_index # seen THEN "drain" ELSE "asleep"
    /\ UNCHANGED <<ringVars, writeVars, cursor, readVars, woken, fate>>

PollWoken ==
    /\ mon = "asleep" /\ woken
    /\ mon' = "check" /\ woken' = FALSE
    /\ UNCHANGED <<ringVars, writeVars, cursor, readVars, seen, fate>>

(* POLL_MS passes, or a signal interrupts poll(). *)
PollTimeout ==
    /\ mon = "asleep"
    /\ mon' = "drain"
    /\ UNCHANGED <<ringVars, writeVars, cursor, readVars, pollVars, fate>>

-----------------------------------------------------------------------------
WriterStep(t) ==
    \/ NotifyHmacFails(t) \/ NotifyInvalidate(t) \/ \E f \in Field : NotifyFill(t, f)
    \/ NotifyValidate(t) \/ NotifyPublish(t) \/ NotifyWake(t)

(* Everything the monitor does without waiting for its timeout. *)
MonitorStep ==
    \/ MonitorOpen \/ MonitorBegin \/ DrainBegin \/ ReadMagic
    \/ (\E f \in Field : ReadCopy(f)) \/ ReadRecheck \/ ReadVerdict
    \/ PollRegister \/ PollCheck \/ PollWoken

Next ==
    \/ \E t \in Writer : NotifyLock(t) \/ WriterStep(t)
    \/ MonitorStep \/ PollTimeout

Spec == Init /\ [][Next]_vars

(* A writer holds a spinlock with interrupts off: it finishes.  The monitor   *)
(* is scheduled; the timeout of poll() is not relied on, and nothing forces  *)
(* an alert to be raised.                                                    *)
FairSpec ==
    /\ Spec
    /\ \A t \in Writer : WF_vars(WriterStep(t))
    /\ WF_vars(MonitorStep)

-----------------------------------------------------------------------------
(* Properties. *)

(* The publication protocol keeps half-written slots from the monitor: a     *)
(* copy whose HMAC fails is passed on only if the slot had been rewritten    *)
(* from beginning to end while it was being copied.                          *)
HalfWrittenNeverForged ==
    [][\A q \in Seq : fate[q] # "forged" /\ fate'[q] = "forged" =>
          /\ magic[Slot(q)]
          /\ seqOf[Slot(q)] = bodyOf[Slot(q)] /\ seqOf[Slot(q)] # q]_vars

(* The channel as its reader sees it.  A number counts as claimed once its   *)
(* HMAC is there.                                                            *)
Claimed == IF \E t \in Writer : writer[t] = "hmac" THEN driver_nonce - 1 ELSE driver_nonce

Log == INSTANCE RingLog WITH claimed <- Claimed, published <- write_index

(* drain() and read_slot() against kg_comms_notify(): every notification is  *)
(* settled once and in order; one that was not shown whole had been lapped,  *)
(* and no interleaving makes the monitor report tampering (drain(): "A valid *)
(* slot with the wrong sequence number ... is not a race").                  *)
ImplementsLog == Log!Spec

(* Every published notification is settled by a running monitor, without     *)
(* relying on the timeout of poll().                                         *)
EventuallySettled ==
    \A q \in Seq : write_index > q ~> fate[q] # "pending"

(* kg_comms.c: "a slot's 'magic' is 0 while being rewritten and is           *)
(* release-stored last, so a reader detects torn reads"; kgmon.c: "an        *)
(* overrun is not misreported as an HMAC failure".                           *)
NoFalseForgery == \A q \in Seq : fate[q] # "forged"
=============================================================================

------------------------------ MODULE KwChannel ------------------------------
(***************************************************************************)
(* The notification ring between the Windows driver and its monitor:       *)
(* SecureCommNotify (secure_comms.c), which any system thread may be       *)
(* running, and PollThreadProc (driver_comm.c).  Nobody takes a lock: a    *)
(* slot is claimed with DriverNonce and published with WriteIndex.         *)
(*                                                                         *)
(* The content of the notification that claims number n is n itself, so a  *)
(* mixture of two notifications can be told from either.                   *)
(***************************************************************************)
EXTENDS Integers, Sequences

CONSTANTS
    SLOTS,          \* NOTIFICATION_SLOTS
    Thread,         \* the system threads that notify
    MaxNotify,      \* bound: notifications
    MaxRestarts,    \* bound: restarts of the monitor
    Nothing         \* the content and the HMAC of a zeroed slot

ASSUME SlotsAssumption == SLOTS \in Nat \ {0}

VARIABLES
    DriverNonce,
    WriteIndex,
    slot,           \* Notifications: [magic, seq, body, hmac]
    at,             \* the number each thread has claimed
    pc,             \* where each thread is in SecureCommNotify
    localRead,      \* the read cursor of the poll thread
    writeIdx,       \* what it last read of WriteIndex
    rpc,            \* where it is
    rec,            \* the ALERT_RECORD it is filling: [seq, body]
    restarts,
    \* history, never read by an action
    alerts,         \* what was given to the callback: [want, seq, body, valid, nonce]
    skipped,        \* what was passed over: [want, nonce]
    overlapped,     \* two threads were in SecureCommNotify at the same time
    hmacFailed      \* an HMAC could not be computed

chVars == <<DriverNonce, WriteIndex, slot, at, pc, localRead, writeIdx, rpc, rec, restarts,
            alerts, skipped, overlapped, hmacFailed>>
readerVars == <<localRead, writeIdx, rpc, rec, restarts, alerts, skipped>>
writerVars == <<DriverNonce, WriteIndex, slot, at, pc, overlapped, hmacFailed>>

EmptySlot == [magic |-> FALSE, seq |-> 0, body |-> Nothing, hmac |-> Nothing]

ChInit ==
    /\ DriverNonce = 0 /\ WriteIndex = 0
    /\ slot = [i \in 0..SLOTS - 1 |-> EmptySlot]
    /\ at = [t \in Thread |-> 0] /\ pc = [t \in Thread |-> "idle"]
    /\ localRead = 0 /\ writeIdx = 0 /\ rpc = "wait" /\ rec = [seq |-> 0, body |-> Nothing]
    /\ restarts = 0
    /\ alerts = <<>> /\ skipped = {} /\ overlapped = FALSE /\ hmacFailed = FALSE

-----------------------------------------------------------------------------
(* SecureCommNotify *)

Mine(t) == at[t] % SLOTS

(* Mutant: WriteIndex is advanced first, as the claim. *)
Claim_WithIndex(t) ==
    /\ pc[t] = "idle" /\ DriverNonce < MaxNotify
    /\ at' = [at EXCEPT ![t] = DriverNonce]
    /\ DriverNonce' = DriverNonce + 1 /\ WriteIndex' = WriteIndex + 1
    /\ pc' = [pc EXCEPT ![t] = "magic"]
    /\ overlapped' = (overlapped \/ \E u \in Thread : pc[u] # "idle")
    /\ UNCHANGED <<slot, hmacFailed, readerVars>>

(* InterlockedIncrement(DriverNonce) claims a number, and with it a slot. *)
Claim(t) ==
    /\ pc[t] = "idle" /\ DriverNonce < MaxNotify
    /\ at' = [at EXCEPT ![t] = DriverNonce]
    /\ DriverNonce' = DriverNonce + 1
    /\ pc' = [pc EXCEPT ![t] = "magic"]
    /\ overlapped' = (overlapped \/ \E u \in Thread : pc[u] # "idle")
    /\ UNCHANGED <<WriteIndex, slot, hmacFailed, readerVars>>

(* The fields are stored in the slot itself, in this order. *)
Store(t, from, to, new) ==
    /\ pc[t] = from
    /\ slot' = [slot EXCEPT ![Mine(t)] = new]
    /\ pc' = [pc EXCEPT ![t] = to]
    /\ UNCHANGED <<DriverNonce, WriteIndex, at, overlapped, hmacFailed, readerVars>>

StoreMagic(t) == Store(t, "magic", "seq", [slot[Mine(t)] EXCEPT !.magic = TRUE])
StoreSeq(t)   == Store(t, "seq", "body", [slot[Mine(t)] EXCEPT !.seq = at[t]])
StoreBody(t)  == Store(t, "body", "zero", [slot[Mine(t)] EXCEPT !.body = at[t]])
ZeroHmac(t)   == Store(t, "zero", "sign", [slot[Mine(t)] EXCEPT !.hmac = Nothing])

(* The HMAC covers what the slot holds, not what the caller passed. *)
Sign(t) ==
    LET s == slot[Mine(t)]
    IN Store(t, "sign", "publish", [s EXCEPT !.hmac = <<s.seq, s.body>>])

(* BCrypt fails: the function returns, with the number taken and nothing published. *)
SignFails(t) ==
    /\ pc[t] = "sign"
    /\ pc' = [pc EXCEPT ![t] = "idle"]
    /\ hmacFailed' = TRUE
    /\ UNCHANGED <<DriverNonce, WriteIndex, slot, at, overlapped, readerVars>>

(* InterlockedIncrement(WriteIndex): one more, whoever it is. *)
Publish(t) ==
    /\ pc[t] = "publish"
    /\ WriteIndex' = WriteIndex + 1
    /\ pc' = [pc EXCEPT ![t] = "idle"]
    /\ UNCHANGED <<DriverNonce, slot, at, overlapped, hmacFailed, readerVars>>

SecureCommNotify(t) ==
    Claim(t) \/ StoreMagic(t) \/ StoreSeq(t) \/ StoreBody(t) \/ ZeroHmac(t) \/ Sign(t)
    \/ SignFails(t) \/ Publish(t)

-----------------------------------------------------------------------------
(* PollThreadProc *)

Next1 == localRead % SLOTS

PollLook ==
    /\ rpc = "wait"
    /\ writeIdx' = WriteIndex
    /\ rpc' = "loop"
    /\ UNCHANGED <<localRead, rec, restarts, alerts, skipped, writerVars>>

(* Magic and SequenceNumber decide whether the slot is looked at; if not it is passed over. *)
PollCheck ==
    /\ rpc = "loop"
    /\ IF localRead = writeIdx
       THEN rpc' = "wait" /\ UNCHANGED <<localRead, skipped>>
       ELSE IF slot[Next1].magic /\ slot[Next1].seq = localRead
            THEN rpc' = "fields" /\ UNCHANGED <<localRead, skipped>>
            ELSE /\ localRead' = localRead + 1
                 /\ skipped' = skipped \cup {[want |-> localRead, nonce |-> DriverNonce]}
                 /\ UNCHANGED rpc
    /\ UNCHANGED <<writeIdx, rec, restarts, alerts, writerVars>>

(* DriverComm_FormatAlert copies the fields, then the number, out of the live slot ... *)
FormatFields ==
    /\ rpc = "fields"
    /\ rec' = [rec EXCEPT !.body = slot[Next1].body]
    /\ rpc' = "number"
    /\ UNCHANGED <<localRead, writeIdx, restarts, alerts, skipped, writerVars>>

FormatNumber ==
    /\ rpc = "number"
    /\ rec' = [rec EXCEPT !.seq = slot[Next1].seq]
    /\ rpc' = "verify"
    /\ UNCHANGED <<localRead, writeIdx, restarts, alerts, skipped, writerVars>>

(* ... and checks the HMAC over what the slot holds by then; the callback gets the record. *)
HmacSha256Verify ==
    /\ rpc = "verify"
    /\ alerts' = Append(alerts, [want  |-> localRead, seq |-> rec.seq, body |-> rec.body,
                                 valid |-> slot[Next1].hmac = <<slot[Next1].seq, slot[Next1].body>>,
                                 nonce |-> DriverNonce])
    /\ localRead' = localRead + 1
    /\ rpc' = "loop"
    /\ UNCHANGED <<writeIdx, rec, restarts, skipped, writerVars>>

(* A new monitor (DriverComm_Open, DriverComm_StartPolling) reads from number 0. *)
Restart ==
    /\ rpc = "wait" /\ restarts < MaxRestarts
    /\ restarts' = restarts + 1
    /\ localRead' = 0 /\ writeIdx' = 0
    /\ alerts' = <<>> /\ skipped' = {}
    /\ UNCHANGED <<rpc, rec, writerVars>>

PollThreadProc == PollLook \/ PollCheck \/ FormatFields \/ FormatNumber \/ HmacSha256Verify

ChNext == (\E t \in Thread : SecureCommNotify(t)) \/ PollThreadProc \/ Restart

ChSpec == ChInit /\ [][ChNext]_chVars

-----------------------------------------------------------------------------
(* As long as the notifications come one after the other and every HMAC    *)
(* can be computed, the monitor gets each of them, in order, valid and as  *)
(* it was sent, also one that starts late, unless the ring has gone round  *)
(* and the slot was claimed again (driver_comm.c:219-233 has no other way  *)
(* to tell).                                                               *)
SerialChannelExact ==
    ~overlapped /\ ~hmacFailed =>
        /\ \A s \in skipped : s.nonce > s.want + SLOTS
        /\ \A i \in 1..Len(alerts) :
              \/ alerts[i].valid /\ alerts[i].seq = alerts[i].want /\ alerts[i].body = alerts[i].want
              \/ alerts[i].nonce > alerts[i].want + SLOTS
        /\ \A i \in 2..Len(alerts) : alerts[i - 1].want < alerts[i].want

(* secure_comms.c:182: "the notification is fully written before           *)
(* WriteIndex advances": every number below WriteIndex whose slot was not  *)
(* claimed again is complete and signed.                                   *)
WrittenBeforeIndex ==
    \A n \in 0..WriteIndex - 1 :
        n + SLOTS >= DriverNonce =>
            slot[n % SLOTS] = [magic |-> TRUE, seq |-> n, body |-> n, hmac |-> <<n, n>>]
=============================================================================

------------------------------ MODULE KwProofs ------------------------------
(***************************************************************************)
(* Proofs about three parts of the Windows program in which nobody takes a *)
(* lock: the notification ring, for every number of slots and every set of *)
(* threads; the counter interrupts, for every number of processors; and    *)
(* the queue between the windows of the monitor, whatever it holds.        *)
(***************************************************************************)
EXTENDS KwChannel, KwMonitor, TLAPS

(* KwChannel: the inductive invariant of SerialChannelExact. *)

Content == Nat \cup {Nothing}
Notification == [magic : BOOLEAN, seq : Nat, body : Content, hmac : (Nat \X Content) \cup {Nothing}]
Alert == [want : Nat, seq : Nat, body : Content, valid : BOOLEAN, nonce : Nat]

ChType ==
    /\ DriverNonce \in Nat /\ WriteIndex \in Nat
    /\ slot \in [0..SLOTS - 1 -> Notification]
    /\ at \in [Thread -> Nat]
    /\ pc \in [Thread -> {"idle", "magic", "seq", "body", "zero", "sign", "publish"}]
    /\ localRead \in Nat /\ writeIdx \in Nat
    /\ rpc \in {"wait", "loop", "fields", "number", "verify"}
    /\ rec \in [seq : Nat, body : Content]
    /\ alerts \in Seq(Alert) /\ skipped \subseteq [want : Nat, nonce : Nat]
    /\ overlapped \in BOOLEAN /\ hmacFailed \in BOOLEAN

(* Between the claim and the publication there is one thread, and the number *)
(* it has claimed is the one WriteIndex will cover next.                     *)
OneWriter ==
    /\ \A t, u \in Thread : pc[t] # "idle" /\ pc[u] # "idle" => t = u
    /\ \A t \in Thread : pc[t] # "idle" => at[t] = WriteIndex /\ DriverNonce = WriteIndex + 1
    /\ (\A t \in Thread : pc[t] = "idle") => DriverNonce = WriteIndex

(* What it has stored so far. *)
PartWritten ==
    \A t \in Thread :
        /\ pc[t] \in {"seq", "body", "zero", "sign", "publish"} => slot[Mine(t)].magic
        /\ pc[t] \in {"body", "zero", "sign", "publish"} => slot[Mine(t)].seq = at[t]
        /\ pc[t] \in {"zero", "sign", "publish"} => slot[Mine(t)].body = at[t]
        /\ pc[t] = "publish" => slot[Mine(t)].hmac = <<at[t], at[t]>>

Reused(n) == DriverNonce > n + SLOTS

(* What the monitor has read of the number it is at. *)
ReaderFollows ==
    /\ localRead <= writeIdx /\ writeIdx <= WriteIndex
    /\ rpc \in {"fields", "number", "verify"} => localRead < writeIdx
    /\ rpc \in {"number", "verify"} => rec.body = localRead \/ Reused(localRead)
    /\ rpc = "verify" => rec.seq = localRead \/ Reused(localRead)

(* What it has passed on or passed over. *)
AlertsExact ==
    /\ \A s \in skipped : s.nonce > s.want + SLOTS
    /\ \A i \in 1..Len(alerts) :
          \/ alerts[i].valid /\ alerts[i].seq = alerts[i].want /\ alerts[i].body = alerts[i].want
          \/ alerts[i].nonce > alerts[i].want + SLOTS
    /\ \A i \in 2..Len(alerts) : alerts[i - 1].want < alerts[i].want
    /\ \A i \in 1..Len(alerts) : alerts[i].want < localRead

ChInv ==
    /\ ChType
    /\ ~overlapped /\ ~hmacFailed =>
          OneWriter /\ PartWritten /\ WrittenBeforeIndex /\ ReaderFollows /\ AlertsExact


(* SLOTS consecutive numbers have SLOTS different slots. *)
LEMMA ChSlotRange == ASSUME NEW q \in Nat PROVE q % SLOTS \in 0 .. SLOTS - 1
BY SlotsAssumption

LEMMA ChSmallMultiple ==
    ASSUME NEW d \in Int, 0 < SLOTS * d, SLOTS * d < SLOTS
    PROVE  FALSE
<1> USE SlotsAssumption
<1>1. ASSUME d >= 1 PROVE SLOTS * d >= SLOTS
  <2>1. SLOTS * d = SLOTS + SLOTS * (d - 1)
    OBVIOUS
  <2>2. SLOTS * (d - 1) >= 0
    BY <1>1
  <2>3. QED
    BY <2>1, <2>2
<1>2. ASSUME d <= 0 PROVE SLOTS * d <= 0
  <2>1. SLOTS * (-d) >= 0
    BY <1>2
  <2>2. QED
    BY <2>1
<1>3. QED
  BY <1>1, <1>2

LEMMA ChSlotsDiffer ==
    ASSUME NEW a \in Nat, NEW b \in Nat, a < b, b < a + SLOTS
    PROVE  a % SLOTS # b % SLOTS
<1> SUFFICES ASSUME a % SLOTS = b % SLOTS PROVE FALSE
  OBVIOUS
<1> DEFINE x == a \div SLOTS
           y == b \div SLOTS
           r == a % SLOTS
<1>1. x \in Nat /\ y \in Nat /\ r \in Nat /\ a = SLOTS * x + r /\ b = SLOTS * y + r
  BY SlotsAssumption
<1> HIDE DEF x, y, r
<1>2. SLOTS * (y - x) = b - a
  BY <1>1, SlotsAssumption
<1>3. y - x \in Int /\ 0 < SLOTS * (y - x) /\ SLOTS * (y - x) < SLOTS
  BY <1>1, <1>2, SlotsAssumption
<1>4. QED
  BY <1>3, ChSmallMultiple

-----------------------------------------------------------------------------
ChCalm == ~overlapped /\ ~hmacFailed

ChExact == OneWriter /\ PartWritten /\ WrittenBeforeIndex /\ ReaderFollows /\ AlertsExact

Complete(n) == [magic |-> TRUE, seq |-> n, body |-> n, hmac |-> <<n, n>>]

LEMMA ChInitial == ChInit => ChInv
<1> SUFFICES ASSUME ChInit PROVE ChInv
  OBVIOUS
<1> USE SlotsAssumption
<1>1. /\ DriverNonce = 0 /\ WriteIndex = 0 /\ localRead = 0 /\ writeIdx = 0 /\ rpc = "wait"
      /\ alerts = <<>> /\ skipped = {} /\ overlapped = FALSE /\ hmacFailed = FALSE
      /\ slot = [i \in 0..SLOTS - 1 |-> EmptySlot]
      /\ at = [t \in Thread |-> 0] /\ pc = [t \in Thread |-> "idle"]
      /\ rec = [seq |-> 0, body |-> Nothing]
  BY ZenonT(60) DEF ChInit
<1>2. ChType
  <2>1. EmptySlot \in Notification
    BY DEF EmptySlot, Notification, Content
  <2>2. slot \in [0..SLOTS - 1 -> Notification]
    BY <1>1, <2>1
  <2>3. rec \in [seq : Nat, body : Content] /\ alerts \in Seq(Alert)
    BY <1>1 DEF Content
  <2>4. at \in [Thread -> Nat]
    BY <1>1
  <2>5. pc \in [Thread -> {"idle", "magic", "seq", "body", "zero", "sign", "publish"}]
    BY <1>1
  <2>6. overlapped \in BOOLEAN /\ hmacFailed \in BOOLEAN
    BY ZenonT(60), <1>1
  <2>7. QED
    BY <1>1, <2>2, <2>3, <2>4, <2>5, <2>6 DEF ChType
<1>3. OneWriter /\ PartWritten
  BY <1>1 DEF OneWriter, PartWritten
<1>4. WrittenBeforeIndex /\ ReaderFollows /\ AlertsExact
  BY <1>1 DEF WrittenBeforeIndex, ReaderFollows, AlertsExact
<1>5. QED
  BY <1>2, <1>3, <1>4 DEF ChInv

(* SecureCommNotify() claims a number: the slots below WriteIndex that are   *)
(* still theirs do not change.                                               *)
LEMMA ClaimStep ==
    ASSUME ChInv, NEW t \in Thread, Claim(t)
    PROVE  ChInv'
<1> USE SlotsAssumption
<1>1. /\ pc[t] = "idle" /\ at' = [at EXCEPT ![t] = DriverNonce] /\ DriverNonce' = DriverNonce + 1
      /\ pc' = [pc EXCEPT ![t] = "magic"]
      /\ overlapped' = (overlapped \/ \E u \in Thread : pc[u] # "idle")
      /\ UNCHANGED <<WriteIndex, slot, hmacFailed, localRead, writeIdx, rpc, rec, alerts, skipped>>
  BY DEF Claim, readerVars
<1>2. /\ DriverNonce \in Nat /\ WriteIndex \in Nat /\ localRead \in Nat
      /\ at \in [Thread -> Nat]
      /\ pc \in [Thread -> {"idle", "magic", "seq", "body", "zero", "sign", "publish"}]
  BY DEF ChInv, ChType
<1>3. ChType'
  <2>1. overlapped' \in BOOLEAN
    BY <1>1 DEF ChInv, ChType
  <2>2. at' \in [Thread -> Nat] /\ DriverNonce' \in Nat
    BY <1>1, <1>2
  <2>3. pc' \in [Thread -> {"idle", "magic", "seq", "body", "zero", "sign", "publish"}]
    BY <1>1, <1>2
  <2>4. ChType
    BY DEF ChInv
  <2>5. QED
    BY ZenonT(60), <1>1, <2>1, <2>2, <2>3, <2>4 DEF ChType
<1>4. ASSUME ChCalm' PROVE ChExact'
  <2>1. ChCalm /\ \A u \in Thread : pc[u] = "idle"
    BY ZenonT(60), <1>1, <1>4 DEF ChCalm
  <2>2. OneWriter /\ WrittenBeforeIndex /\ ReaderFollows /\ AlertsExact /\ DriverNonce = WriteIndex
    BY <2>1 DEF ChInv, ChCalm, OneWriter
  <2>3. \A u \in Thread : pc'[u] = IF u = t THEN "magic" ELSE "idle"
    BY <1>1, <1>2, <2>1
  <2>4. at'[t] = WriteIndex
    BY <1>1, <1>2, <2>2
  <2>5. OneWriter'
    BY <1>1, <1>2, <2>2, <2>3, <2>4 DEF OneWriter
  <2>6. PartWritten'
    BY <2>3 DEF PartWritten
  <2>7. WrittenBeforeIndex'
    BY <1>1, <1>2, <2>2 DEF WrittenBeforeIndex
  <2>8. ReaderFollows'
    BY <1>1, <1>2, <2>2 DEF ReaderFollows, Reused
  <2>9. AlertsExact'
    BY ZenonT(60), <1>1, <2>2 DEF AlertsExact
  <2>10. QED
    BY <2>5, <2>6, <2>7, <2>8, <2>9 DEF ChExact
<1>5. QED
  BY <1>3, <1>4 DEF ChInv, ChCalm, ChExact

(* It stores a field: no slot but its own changes, and that one belongs to   *)
(* no number below WriteIndex that is still there.                           *)
LEMMA StoreStep ==
    ASSUME ChInv, NEW t \in Thread, NEW from, NEW to, NEW new, Store(t, from, to, new),
           from # "idle", new \in Notification,
           to \in {"seq", "body", "zero", "sign", "publish"},
           ChCalm /\ PartWritten =>
              /\ new.magic
              /\ to \in {"body", "zero", "sign", "publish"} => new.seq = at[t]
              /\ to \in {"zero", "sign", "publish"} => new.body = at[t]
              /\ to = "publish" => new.hmac = <<at[t], at[t]>>
    PROVE  ChInv'
<1> USE SlotsAssumption
<1>1. /\ pc[t] = from /\ slot' = [slot EXCEPT ![Mine(t)] = new] /\ pc' = [pc EXCEPT ![t] = to]
      /\ UNCHANGED <<DriverNonce, WriteIndex, at, overlapped, hmacFailed, localRead, writeIdx,
                     rpc, rec, alerts, skipped>>
  BY DEF Store, readerVars
<1>2. /\ DriverNonce \in Nat /\ WriteIndex \in Nat /\ at \in [Thread -> Nat]
      /\ slot \in [0..SLOTS - 1 -> Notification]
      /\ pc \in [Thread -> {"idle", "magic", "seq", "body", "zero", "sign", "publish"}]
  BY DEF ChInv, ChType
<1>3. Mine(t) \in 0..SLOTS - 1
  BY ZenonT(60), <1>2, ChSlotRange DEF Mine
<1>4. ChType'
  <2>1. slot' \in [0..SLOTS - 1 -> Notification]
    BY <1>1, <1>2, <1>3
  <2>2. pc' \in [Thread -> {"idle", "magic", "seq", "body", "zero", "sign", "publish"}]
    BY <1>1, <1>2
  <2>3. ChType
    BY DEF ChInv
  <2>4. QED
    BY ZenonT(60), <1>1, <2>1, <2>2, <2>3 DEF ChType
<1>5. ASSUME ChCalm PROVE ChExact'
  <2>1. OneWriter /\ PartWritten /\ WrittenBeforeIndex /\ ReaderFollows /\ AlertsExact
    BY ZenonT(60), <1>5 DEF ChInv, ChCalm
  <2>2. /\ at[t] = WriteIndex /\ DriverNonce = WriteIndex + 1
        /\ \A u \in Thread : u # t => pc[u] = "idle"
    BY ZenonT(60), <1>1, <2>1 DEF OneWriter
  <2>3. \A u \in Thread : pc'[u] = IF u = t THEN to ELSE pc[u]
    BY <1>1, <1>2
  <2>4. OneWriter'
    BY <1>1, <1>2, <2>1, <2>2, <2>3 DEF OneWriter
  <2>5. slot'[Mine(t)] = new /\ Mine(t)' = Mine(t)
    BY <1>1, <1>2, <1>3 DEF Mine
  <2>6. PartWritten'
    <3> SUFFICES ASSUME NEW u \in Thread
                 PROVE  /\ pc'[u] \in {"seq", "body", "zero", "sign", "publish"} => slot'[Mine(u)'].magic
                        /\ pc'[u] \in {"body", "zero", "sign", "publish"} => slot'[Mine(u)'].seq = at'[u]
                        /\ pc'[u] \in {"zero", "sign", "publish"} => slot'[Mine(u)'].body = at'[u]
                        /\ pc'[u] = "publish" => slot'[Mine(u)'].hmac = <<at'[u], at'[u]>>
      BY ZenonT(60) DEF PartWritten
    <3>1. CASE u # t
      BY <3>1, <2>2, <2>3
    <3>2. CASE u = t
      BY <3>2, <1>1, <1>5, <2>1, <2>3, <2>5
    <3>3. QED
      BY <3>1, <3>2
  <2>7. WrittenBeforeIndex'
    <3> SUFFICES ASSUME NEW n \in 0..WriteIndex - 1, n + SLOTS >= DriverNonce
                 PROVE  slot'[n % SLOTS] = Complete(n)
      BY <1>1 DEF WrittenBeforeIndex, Complete
    <3>1. slot[n % SLOTS] = Complete(n)
      BY <2>1 DEF WrittenBeforeIndex, Complete
    <3>2. n \in Nat /\ n < WriteIndex /\ WriteIndex < n + SLOTS
      BY <1>2, <2>2
    <3>3. n % SLOTS # Mine(t)
      BY ZenonT(60), <1>2, <2>2, <3>2, ChSlotsDiffer DEF Mine
    <3>4. n % SLOTS \in 0..SLOTS - 1
      BY <3>2, ChSlotRange
    <3>5. QED
      BY <1>1, <1>2, <1>3, <3>1, <3>3, <3>4
  <2>8. ReaderFollows' /\ AlertsExact'
    BY ZenonT(60), <1>1, <2>1 DEF ReaderFollows, AlertsExact, Reused
  <2>9. QED
    BY <2>4, <2>6, <2>7, <2>8 DEF ChExact
<1>6. ChCalm' => ChCalm
  BY <1>1 DEF ChCalm
<1>7. QED
  BY <1>4, <1>5, <1>6 DEF ChInv, ChCalm, ChExact

LEMMA FieldsStep ==
    ASSUME ChInv, NEW t \in Thread,
           StoreMagic(t) \/ StoreSeq(t) \/ StoreBody(t) \/ ZeroHmac(t) \/ Sign(t)
    PROVE  ChInv'
<1> DEFINE s == slot[Mine(t)]
<1>1. s \in Notification /\ at[t] \in Nat
  BY ChSlotRange DEF ChInv, ChType, Mine
<1> HIDE DEF s
<1>2. PartWritten =>
        /\ pc[t] \in {"seq", "body", "zero", "sign", "publish"} => s.magic
        /\ pc[t] \in {"body", "zero", "sign", "publish"} => s.seq = at[t]
        /\ pc[t] \in {"zero", "sign", "publish"} => s.body = at[t]
  BY ZenonT(60) DEF PartWritten, s
<1>3. ASSUME StoreMagic(t) PROVE ChInv'
  <2> DEFINE new == [s EXCEPT !.magic = TRUE]
  <2>1. Store(t, "magic", "seq", new)
    BY <1>3 DEF StoreMagic, s
  <2>2. new \in Notification /\ new.magic
    BY ZenonT(60), <1>1 DEF Notification
  <2>3. QED
    BY ZenonT(60), <2>1, <2>2, StoreStep
<1>4. ASSUME StoreSeq(t) PROVE ChInv'
  <2> DEFINE new == [s EXCEPT !.seq = at[t]]
  <2>1. Store(t, "seq", "body", new) /\ pc[t] = "seq"
    BY <1>4 DEF StoreSeq, Store, s
  <2>2. new \in Notification /\ new.magic = s.magic /\ new.seq = at[t]
    BY <1>1 DEF Notification
  <2>3. QED
    BY ZenonT(60), <1>2, <2>1, <2>2, StoreStep
<1>5. ASSUME StoreBody(t) PROVE ChInv'
  <2> DEFINE new == [s EXCEPT !.body = at[t]]
  <2>1. Store(t, "body", "zero", new) /\ pc[t] = "body"
    BY <1>5 DEF StoreBody, Store, s
  <2>2. new \in Notification /\ new.magic = s.magic /\ new.seq = s.seq /\ new.body = at[t]
    BY <1>1 DEF Notification, Content
  <2>3. QED
    BY ZenonT(60), <1>2, <2>1, <2>2, StoreStep
<1>6. ASSUME ZeroHmac(t) PROVE ChInv'
  <2> DEFINE new == [s EXCEPT !.hmac = Nothing]
  <2>1. Store(t, "zero", "sign", new) /\ pc[t] = "zero"
    BY <1>6 DEF ZeroHmac, Store, s
  <2>2. new \in Notification /\ new.magic = s.magic /\ new.seq = s.seq /\ new.body = s.body
    BY <1>1 DEF Notification
  <2>3. QED
    BY ZenonT(60), <1>2, <2>1, <2>2, StoreStep
<1>7. ASSUME Sign(t) PROVE ChInv'
  <2> DEFINE new == [s EXCEPT !.hmac = <<s.seq, s.body>>]
  <2>1. Store(t, "sign", "publish", new) /\ pc[t] = "sign"
    BY <1>7 DEF Sign, Store, s
  <2>2. /\ new \in Notification /\ new.magic = s.magic /\ new.seq = s.seq /\ new.body = s.body
        /\ new.hmac = <<s.seq, s.body>>
    BY <1>1 DEF Notification
  <2>3. QED
    BY ZenonT(60), <1>2, <2>1, <2>2, StoreStep
<1>8. QED
  BY <1>3, <1>4, <1>5, <1>6, <1>7

(* It publishes: the number WriteIndex covers next is complete. *)
LEMMA PublishStep ==
    ASSUME ChInv, NEW t \in Thread, Publish(t)
    PROVE  ChInv'
<1> USE SlotsAssumption
<1>1. /\ pc[t] = "publish" /\ WriteIndex' = WriteIndex + 1 /\ pc' = [pc EXCEPT ![t] = "idle"]
      /\ UNCHANGED <<DriverNonce, slot, at, overlapped, hmacFailed, localRead, writeIdx,
                     rpc, rec, alerts, skipped>>
  BY DEF Publish, readerVars
<1>2. /\ DriverNonce \in Nat /\ WriteIndex \in Nat /\ at \in [Thread -> Nat]
      /\ slot \in [0..SLOTS - 1 -> Notification] /\ writeIdx \in Nat
      /\ pc \in [Thread -> {"idle", "magic", "seq", "body", "zero", "sign", "publish"}]
  BY DEF ChInv, ChType
<1>3. ChType'
  <2>1. WriteIndex' \in Nat
    BY <1>1, <1>2
  <2>2. pc' \in [Thread -> {"idle", "magic", "seq", "body", "zero", "sign", "publish"}]
    BY <1>1, <1>2
  <2>3. ChType
    BY DEF ChInv
  <2>4. QED
    BY ZenonT(60), <1>1, <2>1, <2>2, <2>3 DEF ChType
<1>4. ASSUME ChCalm PROVE ChExact'
  <2>1. OneWriter /\ PartWritten /\ WrittenBeforeIndex /\ ReaderFollows /\ AlertsExact
    BY ZenonT(60), <1>4 DEF ChInv, ChCalm
  <2>2. /\ at[t] = WriteIndex /\ DriverNonce = WriteIndex + 1
        /\ \A u \in Thread : u # t => pc[u] = "idle"
    BY ZenonT(60), <1>1, <2>1 DEF OneWriter
  <2>3. \A u \in Thread : pc'[u] = "idle"
    BY <1>1, <1>2, <2>2
  <2>4. OneWriter' /\ PartWritten'
    BY <1>1, <2>2, <2>3 DEF OneWriter, PartWritten
  <2>5. slot[WriteIndex % SLOTS] = Complete(WriteIndex)
    <3> DEFINE s == slot[WriteIndex % SLOTS]
    <3>1. s.magic /\ s.seq = WriteIndex /\ s.body = WriteIndex /\ s.hmac = <<WriteIndex, WriteIndex>>
      BY <1>1, <2>1, <2>2 DEF PartWritten, Mine
    <3>2. s \in Notification
      BY ZenonT(60), <1>2, ChSlotRange
    <3>3. QED
      BY ZenonT(60), <3>1, <3>2 DEF Notification, Complete
  <2>6. WrittenBeforeIndex'
    <3> SUFFICES ASSUME NEW n \in 0..WriteIndex, n + SLOTS >= DriverNonce
                 PROVE  slot[n % SLOTS] = Complete(n)
      BY <1>1, <1>2 DEF WrittenBeforeIndex, Complete
    <3>1. CASE n = WriteIndex
      BY <3>1, <2>5
    <3>2. CASE n # WriteIndex
      BY <3>2, <1>2, <2>1 DEF WrittenBeforeIndex, Complete
    <3>3. QED
      BY <3>1, <3>2
  <2>7. ReaderFollows'
    BY <1>1, <1>2, <2>1 DEF ReaderFollows, Reused
  <2>8. AlertsExact'
    BY ZenonT(60), <1>1, <2>1 DEF AlertsExact
  <2>9. QED
    BY <2>4, <2>6, <2>7, <2>8 DEF ChExact
<1>5. ChCalm' => ChCalm
  BY <1>1 DEF ChCalm
<1>6. QED
  BY <1>3, <1>4, <1>5 DEF ChInv, ChCalm, ChExact

LEMMA WriterStep ==
    ASSUME ChInv, NEW t \in Thread, SecureCommNotify(t)
    PROVE  ChInv'
<1>1. ASSUME SignFails(t) PROVE ChInv'
  <2>1. /\ pc' = [pc EXCEPT ![t] = "idle"] /\ hmacFailed' = TRUE
        /\ UNCHANGED <<DriverNonce, WriteIndex, slot, at, overlapped, localRead, writeIdx,
                       rpc, rec, alerts, skipped>>
    BY <1>1 DEF SignFails, readerVars
  <2>2. ChType
    BY DEF ChInv
  <2>3. pc' \in [Thread -> {"idle", "magic", "seq", "body", "zero", "sign", "publish"}]
    BY <2>1, <2>2 DEF ChType
  <2>4. QED
    BY ZenonT(60), <2>1, <2>2, <2>3 DEF ChInv, ChType
<1>2. QED
  BY <1>1, ClaimStep, FieldsStep, PublishStep DEF SecureCommNotify


-----------------------------------------------------------------------------
(* What the monitor finds in the slot it is at. *)
LEMMA ReadsComplete ==
    ASSUME ChInv, ChCalm, localRead < writeIdx
    PROVE  slot[Next1] = Complete(localRead) \/ Reused(localRead)
<1>1. WrittenBeforeIndex /\ ReaderFollows
  BY DEF ChInv, ChCalm
<1>2. localRead \in Nat /\ writeIdx \in Nat /\ WriteIndex \in Nat /\ DriverNonce \in Nat
  BY DEF ChInv, ChType
<1>3. localRead \in 0..WriteIndex - 1
  BY <1>1, <1>2 DEF ReaderFollows
<1>4. QED
  BY <1>1, <1>2, <1>3, SlotsAssumption DEF WrittenBeforeIndex, Complete, Next1, Reused

(* What a step of the monitor leaves alone keeps its part of the invariant. *)
LEMMA ReaderFrame ==
    ASSUME ChInv, UNCHANGED writerVars
    PROVE  /\ ChCalm' = ChCalm /\ (ChCalm => OneWriter' /\ PartWritten' /\ WrittenBeforeIndex')
           /\ UNCHANGED <<DriverNonce, WriteIndex, slot, at, pc, overlapped, hmacFailed>>
<1>1. UNCHANGED <<DriverNonce, WriteIndex, slot, at, pc, overlapped, hmacFailed>>
  BY DEF writerVars
<1>2. ChCalm => OneWriter /\ PartWritten /\ WrittenBeforeIndex
  BY ZenonT(60) DEF ChInv, ChCalm
<1>3. (OneWriter => OneWriter') /\ (WrittenBeforeIndex => WrittenBeforeIndex')
  BY ZenonT(60), <1>1 DEF OneWriter, WrittenBeforeIndex
<1>4. PartWritten => PartWritten'
  BY ZenonT(60), <1>1 DEF PartWritten, Mine
<1>5. QED
  BY ZenonT(60), <1>1, <1>2, <1>3, <1>4 DEF ChCalm

LEMMA WantsNumbers ==
    ASSUME ChType
    PROVE  \A i \in 1..Len(alerts) : alerts[i].want \in Nat
<1>1. alerts \in Seq(Alert)
  BY DEF ChType
<1>2. \A i \in 1..Len(alerts) : alerts[i] \in Alert
  BY <1>1
<1>3. QED
  BY <1>2 DEF Alert

LEMMA CheckStep == ASSUME ChInv, PollCheck PROVE ChInv'
<1>1. rpc = "loop" /\ UNCHANGED <<writeIdx, rec, alerts>> /\ UNCHANGED writerVars
  BY DEF PollCheck
<1>2. ChType
  BY DEF ChInv
<1>3. localRead \in Nat /\ writeIdx \in Nat /\ DriverNonce \in Nat /\ WriteIndex \in Nat
  BY <1>2 DEF ChType
<1>4. CASE UNCHANGED <<localRead, skipped>> /\ rpc' \in {"wait", "fields"}
           /\ (rpc' = "fields" => localRead # writeIdx)
  <2>1. ChType'
    BY ZenonT(60), <1>1, <1>2, <1>4, ReaderFrame DEF ChType
  <2>2. ASSUME ChCalm PROVE ReaderFollows' /\ AlertsExact'
    <3>1. ReaderFollows /\ AlertsExact
      BY <2>2 DEF ChInv, ChCalm
    <3>2. ReaderFollows'
      BY <1>1, <1>3, <1>4, <3>1, ReaderFrame DEF ReaderFollows
    <3>3. AlertsExact'
      BY ZenonT(60), <1>1, <1>4, <3>1 DEF AlertsExact
    <3>4. QED
      BY <3>2, <3>3
  <2>3. QED
    BY <1>1, <2>1, <2>2, ReaderFrame DEF ChInv, ChCalm
<1>5. CASE /\ localRead # writeIdx /\ ~(slot[Next1].magic /\ slot[Next1].seq = localRead)
           /\ localRead' = localRead + 1 /\ rpc' = rpc
           /\ skipped' = skipped \cup {[want |-> localRead, nonce |-> DriverNonce]}
  <2>1. ChType'
    <3>1. localRead' \in Nat /\ skipped' \subseteq [want : Nat, nonce : Nat]
      BY <1>2, <1>3, <1>5 DEF ChType
    <3>2. QED
      BY ZenonT(60), <1>1, <1>2, <1>5, <3>1, ReaderFrame DEF ChType
  <2>2. ASSUME ChCalm PROVE ReaderFollows' /\ AlertsExact'
    <3>1. ReaderFollows /\ AlertsExact
      BY <2>2 DEF ChInv, ChCalm
    <3>2. localRead < writeIdx
      BY <1>3, <1>5, <3>1 DEF ReaderFollows
    <3>3. Reused(localRead)
      <4>1. slot[Next1] # Complete(localRead)
        BY <1>5 DEF Complete
      <4>2. QED
        BY SMTT(30), <2>2, <3>2, <4>1, ReadsComplete
    <3>4. ReaderFollows'
      BY <1>1, <1>3, <1>5, <3>1, <3>2, ReaderFrame DEF ReaderFollows
    <3>5. \A s \in skipped' : s.nonce > s.want + SLOTS
      BY <1>5, <3>1, <3>3 DEF AlertsExact, Reused
    <3>6. \A i \in 1..Len(alerts) : alerts[i].want < localRead + 1
      BY <1>2, <1>3, <3>1, WantsNumbers DEF AlertsExact
    <3>7. AlertsExact'
      BY ZenonT(60), <1>1, <1>5, <3>1, <3>5, <3>6 DEF AlertsExact
    <3>8. QED
      BY <3>4, <3>7
  <2>3. QED
    BY <2>1, <2>2, ReaderFrame, <1>1 DEF ChInv, ChCalm
<1>6. QED
  BY ZenonT(60), <1>1, <1>4, <1>5 DEF PollCheck

LEMMA FormatStep == ASSUME ChInv, FormatFields \/ FormatNumber PROVE ChInv'
<1>1. UNCHANGED <<localRead, writeIdx, alerts, skipped>> /\ UNCHANGED writerVars
  BY DEF FormatFields, FormatNumber
<1>2. ChType
  BY DEF ChInv
<1>3. Next1 \in 0..SLOTS - 1
  BY SMTT(30), <1>2, ChSlotRange DEF ChType, Next1
<1>4. slot[Next1] \in Notification
  BY <1>2, <1>3 DEF ChType
<1>5. rec' \in [seq : Nat, body : Content]
  BY <1>2, <1>4 DEF FormatFields, FormatNumber, ChType, Notification
<1>6. ChType'
  <2>1. rpc' \in {"number", "verify"}
    BY DEF FormatFields, FormatNumber
  <2>2. QED
    BY ZenonT(60), <1>1, <1>2, <1>5, <2>1, ReaderFrame DEF ChType
<1>7. ASSUME ChCalm PROVE ReaderFollows' /\ AlertsExact'
  <2>1. ReaderFollows /\ AlertsExact
    BY <1>7 DEF ChInv, ChCalm
  <2>2. localRead < writeIdx
    BY <2>1 DEF ReaderFollows, FormatFields, FormatNumber
  <2>3. \/ slot[Next1].seq = localRead /\ slot[Next1].body = localRead
        \/ Reused(localRead)
    BY <1>7, <2>2, ReadsComplete DEF Complete
  <2>4. Reused(localRead)' = Reused(localRead)
    BY <1>1, ReaderFrame DEF Reused
  <2>5. AlertsExact'
    BY ZenonT(60), <1>1, <2>1 DEF AlertsExact
  <2>6. CASE FormatFields
    <3>1. rec'.body = slot[Next1].body /\ rpc' = "number"
      BY <1>2, <2>6 DEF FormatFields, ChType
    <3>2. ReaderFollows'
      BY <1>1, <2>1, <2>2, <2>3, <2>4, <3>1, ReaderFrame DEF ReaderFollows
    <3>3. QED
      BY <2>5, <3>2
  <2>7. CASE FormatNumber
    <3>1. rec'.seq = slot[Next1].seq /\ rec'.body = rec.body /\ rpc = "number" /\ rpc' = "verify"
      BY <1>2, <2>7 DEF FormatNumber, ChType
    <3>2. ReaderFollows'
      BY <1>1, <2>1, <2>2, <2>3, <2>4, <3>1, ReaderFrame DEF ReaderFollows
    <3>3. QED
      BY <2>5, <3>2
  <2>8. QED
    BY <2>6, <2>7
<1>8. QED
  BY <1>1, <1>6, <1>7, ReaderFrame DEF ChInv, ChCalm

LEMMA VerifyStep == ASSUME ChInv, HmacSha256Verify PROVE ChInv'
<1> DEFINE good == slot[Next1].hmac = <<slot[Next1].seq, slot[Next1].body>>
           a == [want |-> localRead, seq |-> rec.seq, body |-> rec.body, valid |-> good,
                 nonce |-> DriverNonce]
<1>1. /\ rpc = "verify" /\ alerts' = Append(alerts, a) /\ localRead' = localRead + 1
      /\ rpc' = "loop" /\ UNCHANGED <<writeIdx, rec, skipped>> /\ UNCHANGED writerVars
  BY DEF HmacSha256Verify
<1>2. ChType
  BY DEF ChInv
<1>3. localRead \in Nat /\ writeIdx \in Nat /\ DriverNonce \in Nat /\ WriteIndex \in Nat
  BY <1>2 DEF ChType
<1>4. good \in BOOLEAN
  OBVIOUS
<1>5. ASSUME ChCalm PROVE good \/ Reused(localRead)
  <2>1. localRead < writeIdx
    BY <1>1, <1>5 DEF ChInv, ChCalm, ReaderFollows
  <2>2. QED
    BY <1>5, <2>1, ReadsComplete DEF Complete
<1> HIDE DEF good
<1>6. a \in Alert
  BY <1>2, <1>3, <1>4 DEF ChType, Alert
<1>7. /\ a.want = localRead /\ a.seq = rec.seq /\ a.body = rec.body /\ a.valid = good
      /\ a.nonce = DriverNonce
  OBVIOUS
<1> HIDE DEF a
<1>8. /\ Len(alerts') = Len(alerts) + 1 /\ Len(alerts) \in Nat /\ alerts' \in Seq(Alert)
      /\ \A i \in 1..Len(alerts) : alerts'[i] = alerts[i]
      /\ alerts'[Len(alerts) + 1] = a
  BY <1>1, <1>2, <1>6 DEF ChType
<1>9. ChType'
  <2>1. localRead' \in Nat
    BY <1>1, <1>3
  <2>2. QED
    BY ZenonT(60), <1>1, <1>2, <1>8, <2>1, ReaderFrame DEF ChType
<1>10. ASSUME ChCalm PROVE ReaderFollows' /\ AlertsExact'
  <2>1. ReaderFollows /\ AlertsExact
    BY <1>10 DEF ChInv, ChCalm
  <2>2. ReaderFollows'
    BY <1>1, <1>3, <2>1, ReaderFrame DEF ReaderFollows
  <2>3. \A s \in skipped' : s.nonce > s.want + SLOTS
    BY ZenonT(60), <1>1, <2>1 DEF AlertsExact
  <2>4. \/ a.valid /\ a.seq = a.want /\ a.body = a.want
        \/ a.nonce > a.want + SLOTS
    BY <1>1, <1>5, <1>7, <1>10, <2>1 DEF ReaderFollows, Reused
  <2>5. \A i \in 1..Len(alerts) : alerts[i].want \in Nat
    BY <1>2, WantsNumbers
  <2>6. \A i \in 1..Len(alerts') :
          \/ alerts'[i].valid /\ alerts'[i].seq = alerts'[i].want /\ alerts'[i].body = alerts'[i].want
          \/ alerts'[i].nonce > alerts'[i].want + SLOTS
    <3> SUFFICES ASSUME NEW i \in 1..Len(alerts')
                 PROVE  \/ /\ alerts'[i].valid /\ alerts'[i].seq = alerts'[i].want
                           /\ alerts'[i].body = alerts'[i].want
                        \/ alerts'[i].nonce > alerts'[i].want + SLOTS
      OBVIOUS
    <3>1. i \in 1..Len(alerts) \/ i = Len(alerts) + 1
      BY <1>8
    <3>2. CASE i \in 1..Len(alerts)
      BY ZenonT(60), <3>2, <1>8, <2>1 DEF AlertsExact
    <3>3. CASE i = Len(alerts) + 1
      BY ZenonT(60), <3>3, <1>8, <2>4
    <3>4. QED
      BY <3>1, <3>2, <3>3
  <2>7. /\ \A i \in 2..Len(alerts') : alerts'[i - 1].want < alerts'[i].want
        /\ \A i \in 1..Len(alerts') : alerts'[i].want < localRead'
    BY SMTT(30), <1>1, <1>3, <1>7, <1>8, <2>1, <2>5 DEF AlertsExact
  <2>8. QED
    BY ZenonT(60), <2>2, <2>3, <2>6, <2>7 DEF AlertsExact
<1>11. QED
  BY <1>1, <1>9, <1>10, ReaderFrame DEF ChInv, ChCalm

LEMMA ChStep == ChInv /\ [ChNext]_chVars => ChInv'
<1> SUFFICES ASSUME ChInv, [ChNext]_chVars PROVE ChInv'
  OBVIOUS
<1>1. ChType
  BY DEF ChInv
<1>2. CASE PollLook
  <2>1. /\ rpc = "wait" /\ writeIdx' = WriteIndex /\ rpc' = "loop"
        /\ UNCHANGED <<localRead, rec, alerts, skipped>> /\ UNCHANGED writerVars
    BY <1>2 DEF PollLook
  <2>2. ChType'
    BY ZenonT(60), <1>1, <2>1, ReaderFrame DEF ChType
  <2>3. ASSUME ChCalm PROVE ReaderFollows' /\ AlertsExact'
    <3>1. ReaderFollows /\ AlertsExact
      BY <2>3 DEF ChInv, ChCalm
    <3>2. ReaderFollows'
      BY <1>1, <2>1, <3>1, ReaderFrame DEF ReaderFollows, ChType
    <3>3. QED
      BY ZenonT(60), <2>1, <3>1, <3>2 DEF AlertsExact
  <2>4. QED
    BY <2>1, <2>2, <2>3, ReaderFrame DEF ChInv, ChCalm
<1>3. CASE Restart
  <2>1. /\ rpc = "wait" /\ localRead' = 0 /\ writeIdx' = 0 /\ alerts' = <<>> /\ skipped' = {}
        /\ UNCHANGED <<rpc, rec>> /\ UNCHANGED writerVars
    BY <1>3 DEF Restart
  <2>2. ChType'
    <3>1. localRead' \in Nat /\ writeIdx' \in Nat /\ alerts' \in Seq(Alert)
          /\ skipped' \subseteq [want : Nat, nonce : Nat]
      BY <2>1
    <3>2. QED
      BY ZenonT(60), <1>1, <2>1, <3>1, ReaderFrame DEF ChType
  <2>3. AlertsExact'
    BY <2>1 DEF AlertsExact
  <2>4. ReaderFollows'
    BY <1>1, <2>1, ReaderFrame DEF ReaderFollows, ChType
  <2>5. QED
    BY <2>1, <2>2, <2>3, <2>4, ReaderFrame DEF ChInv, ChCalm
<1>4. CASE UNCHANGED chVars
  <2>1. UNCHANGED writerVars /\ UNCHANGED <<localRead, writeIdx, rpc, rec, alerts, skipped>>
    BY <1>4 DEF chVars, writerVars
  <2>2. ChType'
    BY ZenonT(60), <1>1, <2>1, ReaderFrame DEF ChType
  <2>3. ASSUME ChCalm PROVE ReaderFollows' /\ AlertsExact'
    <3>1. ReaderFollows /\ AlertsExact
      BY <2>3 DEF ChInv, ChCalm
    <3>2. QED
      BY ZenonT(60), <2>1, <3>1, ReaderFrame DEF ReaderFollows, AlertsExact, Reused
  <2>4. QED
    BY <2>1, <2>2, <2>3, ReaderFrame DEF ChInv, ChCalm
<1>5. QED
  BY <1>2, <1>3, <1>4, WriterStep, CheckStep, FormatStep, VerifyStep DEF ChNext,
     PollThreadProc

LEMMA ChInvariant == ChSpec => []ChInv
BY ChInitial, ChStep, PTL DEF ChSpec

(* SecureCommNotify() and PollThreadProc(): for any number of slots and      *)
(* threads, notifications that come one after the other reach the monitor    *)
(* in order, valid and as they were sent, unless the ring has gone round.    *)
THEOREM ChannelExact == ChSpec => []SerialChannelExact
<1>1. ChInv => SerialChannelExact
  BY ZenonT(60) DEF ChInv, AlertsExact, SerialChannelExact
<1>2. QED
  BY ChInvariant, <1>1, PTL

(* secure_comms.c:182 for writers one at a time: what is below WriteIndex is *)
(* complete and signed, unless its slot was claimed again.                   *)
THEOREM WrittenFirst == ChSpec => [](~overlapped /\ ~hmacFailed => WrittenBeforeIndex)
<1>1. ChInv => (~overlapped /\ ~hmacFailed => WrittenBeforeIndex)
  BY ZenonT(60) DEF ChInv
<1>2. QED
  BY ChInvariant, <1>1, PTL

-----------------------------------------------------------------------------
(* KwMonitor: the inductive invariant of WindowsAgree. *)

AlertCopy == [id : Nat, level : Nat, valid : BOOLEAN]
Message == [to : {"main", "log"}, msg : {"alert", "clear"}, alert : AlertCopy]
View == [rows : Nat, red : BOOLEAN, events : Nat]

(* What the list and the event log show once a message has been handled. *)
Shows(v, m) ==
    [rows   |-> IF m.to = "main" THEN v.rows ELSE IF m.msg = "clear" THEN 0 ELSE v.rows + 1,
     red    |-> IF m.to = "main" THEN v.red
                ELSE IF m.msg = "clear" THEN FALSE ELSE (v.red \/ m.alert.level >= 1),
     events |-> IF m.to = "main" /\ m.msg = "alert" THEN v.events + 1 ELSE v.events]

(* f is what they show as the messages of q are handled one after the other. *)
Walk(q, f) ==
    /\ f \in [0..Len(q) -> View]
    /\ \A i \in 1..Len(q) : f[i] = Shows(f[i - 1], q[i])

Red(rows) == \E i \in 1..Len(rows) : rows[i].level >= 1

MoType ==
    /\ posted \in Seq(Message) /\ list \in Seq(AlertCopy) /\ eventLog \in Seq([id : Nat, level : Int])
    /\ g_TotalAlerts \in Nat /\ g_AlertActive \in BOOLEAN /\ sent \in Nat
    /\ s_Stored \in [0..STORED_MAX - 1 -> AlertCopy] /\ s_StoredCount \in Nat
    /\ lost \in BOOLEAN /\ button \in BOOLEAN

(* The records for the file are the rows, until the ring goes round. *)
StoredRows ==
    /\ s_StoredCount = Len(list)
    /\ s_StoredCount <= STORED_MAX => \A i \in 1..s_StoredCount : s_Stored[i - 1] = list[i]

(* The count and the icon are ahead of the list by the messages that wait. *)
Ahead(f) ==
    /\ Walk(posted, f)
    /\ f[0].events = Len(eventLog) /\ f[Len(posted)].events = sent
    /\ ~button =>
          /\ f[0].rows = Len(list) /\ f[Len(posted)].rows = g_TotalAlerts
          /\ f[0].red = Red(list) /\ f[Len(posted)].red = g_AlertActive

MoInv == MoType /\ StoredRows /\ (~lost => \E f : Ahead(f))

LEMMA ShowsType == ASSUME NEW v \in View, NEW m \in Message PROVE Shows(v, m) \in View
<1>1. /\ v.rows \in Nat /\ v.red \in BOOLEAN /\ v.events \in Nat
      /\ m.alert.level \in Nat
  BY DEF View, Message, AlertCopy
<1>2. (IF m.to = "main" THEN v.red
       ELSE IF m.msg = "clear" THEN FALSE ELSE (v.red \/ m.alert.level >= 1)) \in BOOLEAN
  BY ZenonT(60), <1>1
<1>3. /\ (IF m.to = "main" THEN v.rows ELSE IF m.msg = "clear" THEN 0 ELSE v.rows + 1) \in Nat
      /\ (IF m.to = "main" /\ m.msg = "alert" THEN v.events + 1 ELSE v.events) \in Nat
  BY <1>1
<1>4. QED
  BY ZenonT(60), <1>2, <1>3 DEF Shows, View

(* A message more at the end of the queue. *)
LEMMA WalkAppend ==
    ASSUME NEW q \in Seq(Message), NEW m \in Message, NEW f, Walk(q, f)
    PROVE  \E g : /\ Walk(Append(q, m), g) /\ g[0] = f[0]
                  /\ g[Len(Append(q, m))] = Shows(f[Len(q)], m)
<1> DEFINE n == Len(q)
           last == Shows(f[n], m)
           g == [i \in 0..n + 1 |-> IF i <= n THEN f[i] ELSE last]
<1>1. /\ n \in Nat /\ Len(Append(q, m)) = n + 1 /\ Append(q, m)[n + 1] = m
      /\ \A i \in 1..n : Append(q, m)[i] = q[i]
  OBVIOUS
<1>2. f \in [0..n -> View] /\ \A i \in 1..n : f[i] = Shows(f[i - 1], q[i])
  BY DEF Walk
<1>3. last \in View
  BY SMTT(30), <1>1, <1>2, ShowsType
<1>4. g[n + 1] = last /\ \A i \in 0..n : g[i] = f[i]
  BY <1>1
<1>5. g \in [0..n + 1 -> View]
  BY SMTT(30), <1>1, <1>2, <1>3
<1>6. \A i \in 1..n + 1 : g[i] = Shows(g[i - 1], Append(q, m)[i])
  <2> SUFFICES ASSUME NEW i \in 1..n + 1 PROVE g[i] = Shows(g[i - 1], Append(q, m)[i])
    BY SMTT(30)
  <2>1. CASE i \in 1..n
    <3>1. i - 1 \in 0..n /\ i \in 0..n
      BY SMTT(30), <1>1, <2>1
    <3>2. g[i - 1] = f[i - 1] /\ g[i] = f[i] /\ Append(q, m)[i] = q[i]
      BY SMTT(30), <1>1, <1>4, <2>1, <3>1
    <3>3. QED
      BY <1>2, <2>1, <3>2
  <2>2. CASE i = n + 1
    <3>1. i - 1 = n /\ n \in 0..n
      BY <1>1, <2>2
    <3>2. g[i - 1] = f[n]
      BY SMTT(30), <1>4, <3>1
    <3>3. QED
      BY <1>1, <1>4, <2>2, <3>2
  <2>3. QED
    BY SMTT(30), <1>1, <2>1, <2>2
<1>7. g[0] = f[0]
  BY SMTT(30), <1>1, <1>4
<1> HIDE DEF g, last
<1>8. Walk(Append(q, m), g)
  BY SMTT(30), <1>1, <1>5, <1>6 DEF Walk
<1>9. g[Len(Append(q, m))] = Shows(f[Len(q)], m)
  BY <1>1, <1>4 DEF last
<1>10. QED
  BY <1>7, <1>8, <1>9

(* The first message is taken out of the queue. *)
LEMMA WalkTail ==
    ASSUME NEW q \in Seq(Message), q # <<>>, NEW f, Walk(q, f)
    PROVE  \E g : /\ Walk(Tail(q), g) /\ g[0] = Shows(f[0], Head(q))
                  /\ g[Len(Tail(q))] = f[Len(q)]
<1> DEFINE n == Len(q)
           g == [i \in 0..n - 1 |-> f[i + 1]]
<1>1. /\ n \in Nat /\ n >= 1 /\ Len(Tail(q)) = n - 1 /\ Head(q) = q[1]
      /\ \A i \in 1..n - 1 : Tail(q)[i] = q[i + 1]
  OBVIOUS
<1>2. f \in [0..n -> View] /\ \A i \in 1..n : f[i] = Shows(f[i - 1], q[i])
  BY DEF Walk
<1>3. g \in [0..n - 1 -> View] /\ \A i \in 0..n - 1 : g[i] = f[i + 1]
  BY SMTT(30), <1>1, <1>2
<1> HIDE DEF g
<1>4. \A i \in 1..n - 1 : g[i] = Shows(g[i - 1], Tail(q)[i])
  <2> SUFFICES ASSUME NEW i \in 1..n - 1 PROVE g[i] = Shows(g[i - 1], Tail(q)[i])
    OBVIOUS
  <2>1. /\ i \in 0..n - 1 /\ i - 1 \in 0..n - 1 /\ i + 1 \in 1..n /\ (i - 1) + 1 = i
        /\ (i + 1) - 1 = i
    BY <1>1
  <2>2. g[i] = f[i + 1] /\ g[i - 1] = f[i] /\ Tail(q)[i] = q[i + 1]
    BY <1>1, <1>3, <2>1
  <2>3. QED
    BY SMTT(30), <1>2, <2>1, <2>2
<1>5. Walk(Tail(q), g)
  BY <1>1, <1>3, <1>4 DEF Walk
<1>6. g[0] = Shows(f[0], Head(q))
  <2>1. 0 \in 0..n - 1 /\ 1 \in 1..n /\ 1 - 1 = 0
    BY <1>1
  <2>2. g[0] = f[1] /\ f[1] = Shows(f[0], q[1])
    BY <1>2, <1>3, <2>1
  <2>3. QED
    BY <1>1, <2>2
<1>7. g[Len(Tail(q))] = f[n]
  BY SMTT(30), <1>1, <1>3
<1>8. QED
  BY <1>5, <1>6, <1>7

LEMMA ShowsMain ==
    ASSUME NEW v \in View, NEW m \in Message, m.to = "main"
    PROVE  /\ Shows(v, m).rows = v.rows /\ Shows(v, m).red = v.red
           /\ Shows(v, m).events = IF m.msg = "alert" THEN v.events + 1 ELSE v.events
  BY DEF Shows

LEMMA ShowsLog ==
    ASSUME NEW v \in View, NEW m \in Message, m.to = "log"
    PROVE  /\ Shows(v, m).events = v.events
           /\ m.msg = "clear" => Shows(v, m).rows = 0 /\ Shows(v, m).red = FALSE
           /\ m.msg = "alert" => /\ Shows(v, m).rows = v.rows + 1
                                 /\ Shows(v, m).red = (v.red \/ m.alert.level >= 1)
  BY ZenonT(60) DEF Shows

LEMMA WalkEnds ==
    ASSUME NEW q \in Seq(Message), NEW f, Walk(q, f)
    PROVE  f[0] \in View /\ f[Len(q)] \in View
<1>1. Len(q) \in Nat /\ f \in [0..Len(q) -> View]
  BY DEF Walk
<1>2. QED
  BY <1>1

LEMMA SmallRemainder == \A n \in Nat : n < STORED_MAX => n % STORED_MAX = n
BY StoredAssumption

LEMMA MoInitial == MoInit => MoInv
<1> SUFFICES ASSUME MoInit PROVE MoInv
  OBVIOUS
<1> USE StoredAssumption
<1>1. /\ posted = <<>> /\ g_TotalAlerts = 0 /\ g_AlertActive = FALSE /\ eventLog = <<>>
      /\ list = <<>> /\ s_Stored = [i \in 0..STORED_MAX - 1 |-> NoAlert] /\ s_StoredCount = 0
      /\ sent = 0 /\ lost = FALSE /\ button = FALSE
  BY ZenonT(60) DEF MoInit
<1>2. MoType
  <2>1. NoAlert \in AlertCopy
    BY DEF NoAlert, AlertCopy
  <2>2. s_Stored \in [0..STORED_MAX - 1 -> AlertCopy]
    BY <1>1, <2>1
  <2>3. /\ posted \in Seq(Message) /\ list \in Seq(AlertCopy)
        /\ eventLog \in Seq([id : Nat, level : Int])
    BY <1>1
  <2>4. g_AlertActive \in BOOLEAN /\ lost \in BOOLEAN /\ button \in BOOLEAN
    BY ZenonT(60), <1>1
  <2>5. g_TotalAlerts \in Nat /\ sent \in Nat /\ s_StoredCount \in Nat
    BY <1>1
  <2>6. QED
    BY ZenonT(60), <2>2, <2>3, <2>4, <2>5 DEF MoType
<1>3. StoredRows
  BY <1>1 DEF StoredRows
<1>4. \E f : Ahead(f)
  <2> DEFINE v == [rows |-> 0, red |-> FALSE, events |-> 0]
             f == [i \in 0..0 |-> v]
  <2>1. v \in View
    BY DEF View
  <2>2. v.rows = 0 /\ v.red = FALSE /\ v.events = 0
    OBVIOUS
  <2> HIDE DEF v
  <2>3. Walk(<<>>, f) /\ f[0] = v
    BY <2>1 DEF Walk
  <2> HIDE DEF f
  <2>4. Red(<<>>) = FALSE /\ Len(posted) = 0 /\ Len(list) = 0 /\ Len(eventLog) = 0
    BY <1>1 DEF Red
  <2>5. Ahead(f)
    BY ZenonT(60), <1>1, <2>2, <2>3, <2>4 DEF Ahead
  <2>6. QED
    BY <2>5
<1>5. QED
  BY <1>2, <1>3, <1>4 DEF MoInv

(* OnNewAlert() and the menu post to the message window. *)
LEMMA PostStep ==
    ASSUME MoInv, NEW m \in Message, m.to = "main", posted' = Append(posted, m),
           sent' = IF m.msg = "alert" THEN sent + 1 ELSE sent,
           UNCHANGED <<g_TotalAlerts, g_AlertActive, eventLog, list, s_Stored, s_StoredCount,
                       lost, button>>
    PROVE  MoInv'
<1>1. MoType
  BY DEF MoInv
<1>2. posted \in Seq(Message) /\ posted' \in Seq(Message) /\ sent' \in Nat
  BY <1>1 DEF MoType
<1>3. MoType'
  BY ZenonT(60), <1>1, <1>2 DEF MoType
<1>4. StoredRows'
  BY ZenonT(60) DEF MoInv, StoredRows
<1>5. ASSUME ~lost PROVE \E g : Ahead(g)'
  <2>1. PICK f : Ahead(f)
    BY ZenonT(60), <1>5 DEF MoInv
  <2>2. Walk(posted, f)
    BY ZenonT(60), <2>1 DEF Ahead
  <2>3. PICK g : /\ Walk(Append(posted, m), g) /\ g[0] = f[0]
                 /\ g[Len(Append(posted, m))] = Shows(f[Len(posted)], m)
    BY ZenonT(60), <1>2, <2>2, WalkAppend
  <2>4. f[Len(posted)] \in View
    BY <1>2, <2>2, WalkEnds
  <2>5. /\ g[Len(posted')].rows = f[Len(posted)].rows /\ g[Len(posted')].red = f[Len(posted)].red
        /\ g[Len(posted')].events = sent'
    <3>1. f[Len(posted)].events = sent
      BY ZenonT(60), <2>1 DEF Ahead
    <3>2. QED
      <4>1. /\ Shows(f[Len(posted)], m).rows = f[Len(posted)].rows
            /\ Shows(f[Len(posted)], m).red = f[Len(posted)].red
            /\ Shows(f[Len(posted)], m).events =
                 IF m.msg = "alert" THEN f[Len(posted)].events + 1 ELSE f[Len(posted)].events
        BY SMTT(30), <2>4, ShowsMain
      <4>2. g[Len(posted')] = Shows(f[Len(posted)], m)
        BY <2>3
      <4>3. QED
        BY ZenonT(60), <3>1, <4>1, <4>2
  <2>6. Ahead(g)'
    BY ZenonT(60), <2>1, <2>3, <2>5 DEF Ahead
  <2>7. QED
    BY ZenonT(60), <2>6
<1>6. QED
  BY ZenonT(60), <1>3, <1>4, <1>5 DEF MoInv

(* MsgWndProc takes a message and may post one to the dialog. *)
LEMMA MainStep ==
    ASSUME MoInv, NEW m \in Message, m.to = "log", posted # <<>>, Head(posted).to = "main",
           m.msg = Head(posted).msg, m.msg = "alert" => m.alert = Head(posted).alert,
           posted' = Append(Tail(posted), m),
           g_TotalAlerts' = IF m.msg = "alert" THEN g_TotalAlerts + 1 ELSE 0,
           g_AlertActive' = IF m.msg = "alert" THEN g_AlertActive \/ m.alert.level >= 1 ELSE FALSE,
           eventLog' \in Seq([id : Nat, level : Int]),
           Len(eventLog') = IF m.msg = "alert" THEN Len(eventLog) + 1 ELSE Len(eventLog),
           UNCHANGED <<list, s_Stored, s_StoredCount, sent, lost, button>>
    PROVE  MoInv'
<1>1. MoType
  BY SMTT(30) DEF MoInv
<1>2. /\ posted \in Seq(Message) /\ Tail(posted) \in Seq(Message) /\ Head(posted) \in Message
      /\ posted' \in Seq(Message) /\ g_TotalAlerts' \in Nat
  BY <1>1 DEF MoType
<1>3. g_AlertActive' \in BOOLEAN
  BY ZenonT(60), <1>1 DEF MoType
<1>4. MoType'
  BY ZenonT(60), <1>1, <1>2, <1>3 DEF MoType
<1>5. StoredRows'
  BY ZenonT(60) DEF MoInv, StoredRows
<1>6. ASSUME ~lost PROVE \E g : Ahead(g)'
  <2>1. PICK f : Ahead(f)
    BY ZenonT(60), <1>6 DEF MoInv
  <2>2. Walk(posted, f)
    BY ZenonT(60), <2>1 DEF Ahead
  <2>3. PICK e : /\ Walk(Tail(posted), e) /\ e[0] = Shows(f[0], Head(posted))
                 /\ e[Len(Tail(posted))] = f[Len(posted)]
    BY ZenonT(60), <1>2, <2>2, WalkTail
  <2>4. PICK g : /\ Walk(Append(Tail(posted), m), g) /\ g[0] = e[0]
                 /\ g[Len(Append(Tail(posted), m))] = Shows(e[Len(Tail(posted))], m)
    BY ZenonT(60), <1>2, <2>3, WalkAppend
  <2>5. f[0] \in View /\ f[Len(posted)] \in View
    BY <1>2, <2>2, WalkEnds
  <2>6. /\ g[0].rows = f[0].rows /\ g[0].red = f[0].red
        /\ g[0].events = IF m.msg = "alert" THEN f[0].events + 1 ELSE f[0].events
    <3>1. /\ Shows(f[0], Head(posted)).rows = f[0].rows /\ Shows(f[0], Head(posted)).red = f[0].red
          /\ Shows(f[0], Head(posted)).events = IF m.msg = "alert" THEN f[0].events + 1
                                                ELSE f[0].events
      BY SMTT(30), <1>2, <2>5, ShowsMain
    <3>2. g[0] = Shows(f[0], Head(posted))
      BY <2>3, <2>4
    <3>3. QED
      BY ZenonT(60), <3>1, <3>2
  <2>7. /\ g[Len(posted')].events = f[Len(posted)].events
        /\ m.msg = "clear" => g[Len(posted')].rows = 0 /\ g[Len(posted')].red = FALSE
        /\ m.msg = "alert" =>
              /\ g[Len(posted')].rows = f[Len(posted)].rows + 1
              /\ g[Len(posted')].red = (f[Len(posted)].red \/ m.alert.level >= 1)
    <3> DEFINE v == f[Len(posted)]
    <3>1. /\ Shows(v, m).events = v.events
          /\ m.msg = "clear" => Shows(v, m).rows = 0 /\ Shows(v, m).red = FALSE
          /\ m.msg = "alert" => /\ Shows(v, m).rows = v.rows + 1
                                /\ Shows(v, m).red = (v.red \/ m.alert.level >= 1)
      BY ZenonT(60), <2>5, ShowsLog
    <3>2. g[Len(posted')] = Shows(v, m)
      BY SMTT(30), <2>3, <2>4
    <3> HIDE DEF v
    <3>3. QED
      BY ZenonT(60), <3>1, <3>2 DEF v
  <2>8. m.msg = "alert" \/ m.msg = "clear"
    BY DEF Message
  <2>9. g[0].events = Len(eventLog') /\ g[Len(posted')].events = sent'
    BY ZenonT(60), <2>1, <2>6, <2>7 DEF Ahead
  <2>10. ASSUME ~button
         PROVE  /\ g[0].rows = Len(list') /\ g[0].red = Red(list')
                /\ g[Len(posted')].rows = g_TotalAlerts' /\ g[Len(posted')].red = g_AlertActive'
    <3>1. /\ f[0].rows = Len(list) /\ f[Len(posted)].rows = g_TotalAlerts
          /\ f[0].red = Red(list) /\ f[Len(posted)].red = g_AlertActive
      BY ZenonT(60), <2>1, <2>10 DEF Ahead
    <3>2. Red(list') = Red(list)
      BY ZenonT(60) DEF Red
    <3>3. g[Len(posted')].rows = g_TotalAlerts'
      BY ZenonT(60), <2>7, <2>8, <3>1
    <3>4. g[Len(posted')].red = g_AlertActive'
      BY ZenonT(60), <2>7, <2>8, <3>1
    <3>5. QED
      BY ZenonT(60), <2>6, <3>1, <3>2, <3>3, <3>4
  <2>11. Ahead(g)'
    BY ZenonT(60), <2>4, <2>9, <2>10 DEF Ahead
  <2>12. QED
    BY ZenonT(60), <2>11
<1>7. QED
  BY ZenonT(60), <1>4, <1>5, <1>6 DEF MoInv

(* LogDlgProc takes a message: a row more, or none at all. *)
LEMMA LogStep ==
    ASSUME MoInv, posted # <<>>, Head(posted).to = "log", posted' = Tail(posted),
           Head(posted).msg = "alert" =>
              /\ list' = Append(list, Head(posted).alert) /\ s_StoredCount' = s_StoredCount + 1
              /\ s_Stored' = [s_Stored EXCEPT ![s_StoredCount % STORED_MAX] = Head(posted).alert],
           Head(posted).msg = "clear" => list' = <<>> /\ s_StoredCount' = 0 /\ s_Stored' = s_Stored,
           UNCHANGED <<g_TotalAlerts, g_AlertActive, eventLog, sent, lost, button>>
    PROVE  MoInv'
<1> DEFINE h == Head(posted)
<1>1. MoType
  BY DEF MoInv
<1>2. /\ posted \in Seq(Message) /\ posted' \in Seq(Message) /\ h \in Message
      /\ list \in Seq(AlertCopy) /\ s_StoredCount \in Nat
      /\ s_Stored \in [0..STORED_MAX - 1 -> AlertCopy]
  BY <1>1 DEF MoType
<1> HIDE DEF h
<1>3. h.alert \in AlertCopy /\ (h.msg = "alert" \/ h.msg = "clear")
  BY <1>2 DEF Message
<1>4. s_StoredCount % STORED_MAX \in 0..STORED_MAX - 1
  BY SMTT(30), <1>2, StoredAssumption
<1>5. /\ list' \in Seq(AlertCopy) /\ s_StoredCount' \in Nat
      /\ s_Stored' \in [0..STORED_MAX - 1 -> AlertCopy]
  <2>1. CASE h.msg = "clear"
    <3>1. list' = <<>> /\ s_StoredCount' = 0 /\ s_Stored' = s_Stored
      BY SMTT(30), <2>1 DEF h
    <3>2. QED
      BY <1>2, <3>1
  <2>2. CASE h.msg = "alert"
    <3>1. /\ list' = Append(list, h.alert) /\ s_StoredCount' = s_StoredCount + 1
          /\ s_Stored' = [s_Stored EXCEPT ![s_StoredCount % STORED_MAX] = h.alert]
      BY ZenonT(60), <2>2 DEF h
    <3>2. QED
      BY <1>2, <1>3, <1>4, <3>1
  <2>3. QED
    BY <1>3, <2>1, <2>2
<1>6. MoType'
  BY ZenonT(60), <1>1, <1>2, <1>5 DEF MoType
<1>7. Len(list) \in Nat
  BY <1>2
<1>8. ASSUME h.msg = "alert"
      PROVE  /\ Len(list') = Len(list) + 1 /\ list'[Len(list) + 1] = h.alert
             /\ \A i \in 1..Len(list) : list'[i] = list[i]
  BY <1>2, <1>3, <1>8 DEF h
<1>9. StoredRows'
  <2>1. CASE h.msg = "clear"
    BY <2>1, StoredAssumption DEF StoredRows, h
  <2>2. CASE h.msg = "alert"
    <3>1. s_StoredCount = Len(list) /\ s_StoredCount' = s_StoredCount + 1
      BY <2>2 DEF MoInv, StoredRows, h
    <3>2. ASSUME s_StoredCount' <= STORED_MAX
          PROVE  \A i \in 1..s_StoredCount' : s_Stored'[i - 1] = list'[i]
      <4>1. /\ s_StoredCount \in Nat /\ s_StoredCount < STORED_MAX /\ s_StoredCount <= STORED_MAX
            /\ s_StoredCount \in 0..STORED_MAX - 1
        BY <1>2, <3>1, <3>2, StoredAssumption
      <4>2. s_StoredCount % STORED_MAX = s_StoredCount
        BY <4>1, SmallRemainder
      <4>3. s_Stored' = [s_Stored EXCEPT ![s_StoredCount] = h.alert]
        BY <2>2, <4>2 DEF h
      <4>4. \A i \in 1..s_StoredCount : s_Stored[i - 1] = list[i]
        BY <4>1 DEF MoInv, StoredRows
      <4>5. ASSUME NEW i \in 1..s_StoredCount' PROVE s_Stored'[i - 1] = list'[i]
        <5>1. CASE i = s_StoredCount + 1
          BY SMTT(30), <5>1, <1>2, <1>8, <2>2, <3>1, <4>1, <4>3
        <5>2. CASE i \in 1..s_StoredCount
          <6>1. i - 1 \in 0..STORED_MAX - 1 /\ i - 1 # s_StoredCount
            BY SMTT(30), <5>2, <4>1, StoredAssumption
          <6>2. s_Stored'[i - 1] = s_Stored[i - 1]
            BY <1>2, <4>3, <6>1
          <6>3. QED
            BY <5>2, <1>8, <2>2, <3>1, <4>4, <6>2
        <5>3. QED
          BY SMTT(30), <1>2, <3>1, <5>1, <5>2
      <4>6. QED
        BY <4>5
    <3>3. QED
      BY <1>8, <2>2, <3>1, <3>2 DEF StoredRows
  <2>3. QED
    BY <1>3, <2>1, <2>2
<1>10. ASSUME ~lost PROVE \E g : Ahead(g)'
  <2>1. PICK f : Ahead(f)
    BY ZenonT(60), <1>10 DEF MoInv
  <2>2. Walk(posted, f)
    BY ZenonT(60), <2>1 DEF Ahead
  <2>3. PICK g : /\ Walk(Tail(posted), g) /\ g[0] = Shows(f[0], h)
                 /\ g[Len(Tail(posted))] = f[Len(posted)]
    BY ZenonT(60), <1>2, <2>2, WalkTail DEF h
  <2>4. f[0] \in View
    BY <1>2, <2>2, WalkEnds
  <2>5. /\ g[0].events = f[0].events
        /\ h.msg = "clear" => g[0].rows = 0 /\ g[0].red = FALSE
        /\ h.msg = "alert" => /\ g[0].rows = f[0].rows + 1
                              /\ g[0].red = (f[0].red \/ h.alert.level >= 1)
    <3> DEFINE v == f[0]
    <3>1. /\ Shows(v, h).events = v.events
          /\ h.msg = "clear" => Shows(v, h).rows = 0 /\ Shows(v, h).red = FALSE
          /\ h.msg = "alert" => /\ Shows(v, h).rows = v.rows + 1
                                /\ Shows(v, h).red = (v.red \/ h.alert.level >= 1)
      <4>1. h.to = "log"
        BY SMTT(30) DEF h
      <4>2. QED
        BY ZenonT(60), <1>2, <2>4, <4>1, ShowsLog
    <3>2. g[0] = Shows(v, h)
      BY <2>3
    <3> HIDE DEF v
    <3>3. QED
      BY ZenonT(60), <3>1, <3>2 DEF v
  <2>6. ASSUME ~button PROVE g[0].rows = Len(list') /\ g[0].red = Red(list')
    <3>1. f[0].rows = Len(list) /\ f[0].red = Red(list)
      BY ZenonT(60), <2>1, <2>6 DEF Ahead
    <3>2. CASE h.msg = "clear"
      <4>1. list' = <<>> /\ Len(list') = 0
        BY <3>2 DEF h
      <4>2. Red(list') = FALSE
        BY SMTT(30), <4>1 DEF Red
      <4>3. g[0].rows = 0 /\ g[0].red = FALSE
        BY <3>2, <2>5
      <4>4. QED
        BY ZenonT(60), <4>1, <4>2, <4>3
    <3>3. CASE h.msg = "alert"
      <4>1. Red(list') = (Red(list) \/ h.alert.level >= 1)
        <5>1. Red(list) => Red(list')
          <6> SUFFICES ASSUME NEW i \in 1..Len(list), list[i].level >= 1 PROVE Red(list')
            BY DEF Red
          <6>1. i \in 1..Len(list') /\ list'[i] = list[i]
            BY <3>3, <1>7, <1>8
          <6>2. QED
            BY <6>1 DEF Red
        <5>2. h.alert.level >= 1 => Red(list')
          <6>1. Len(list) + 1 \in 1..Len(list') /\ list'[Len(list) + 1] = h.alert
            BY SMTT(30), <3>3, <1>7, <1>8
          <6>2. QED
            BY <6>1 DEF Red
        <5>3. Red(list') => Red(list) \/ h.alert.level >= 1
          <6> SUFFICES ASSUME NEW i \in 1..Len(list'), list'[i].level >= 1
                       PROVE  Red(list) \/ h.alert.level >= 1
            BY SMTT(30) DEF Red
          <6>1. CASE i = Len(list) + 1
            BY SMTT(30), <6>1, <3>3, <1>8
          <6>2. CASE i \in 1..Len(list)
            BY SMTT(30), <6>2, <3>3, <1>8 DEF Red
          <6>3. QED
            BY SMTT(30), <6>1, <6>2, <3>3, <1>7, <1>8
        <5>4. Red(list) \in BOOLEAN /\ Red(list') \in BOOLEAN
          BY DEF Red
        <5>5. QED
          BY ZenonT(60), <5>1, <5>2, <5>3, <5>4
      <4>2. g[0].rows = Len(list')
        BY ZenonT(60), <3>1, <3>3, <1>8, <2>5
      <4>3. g[0].red = Red(list')
        BY ZenonT(60), <3>1, <3>3, <4>1, <2>5
      <4>4. QED
        BY <4>2, <4>3
    <3>4. QED
      BY <1>3, <3>2, <3>3
  <2>7. Ahead(g)'
    BY ZenonT(60), <2>1, <2>3, <2>5, <2>6 DEF Ahead
  <2>8. QED
    BY ZenonT(60), <2>7
<1>11. QED
  BY ZenonT(60), <1>6, <1>9, <1>10 DEF MoInv

(* A copy for which there is no memory. *)
LEMMA LostStep ==
    ASSUME MoInv, lost', posted' \in Seq(Message), eventLog' \in Seq([id : Nat, level : Int]),
           g_TotalAlerts' \in Nat, g_AlertActive' \in BOOLEAN, sent' \in Nat, lost' \in BOOLEAN,
           UNCHANGED <<list, s_Stored, s_StoredCount, button>>
    PROVE  MoInv'
<1>1. MoType' /\ StoredRows'
  BY ZenonT(60) DEF MoInv, MoType, StoredRows
<1>2. QED
  BY ZenonT(60), <1>1 DEF MoInv

LEMMA MoStep == MoInv /\ [MoNext]_moVars => MoInv'
<1> SUFFICES ASSUME MoInv, [MoNext]_moVars PROVE MoInv'
  OBVIOUS
<1>1. MoType
  BY DEF MoInv
<1>2. /\ posted \in Seq(Message) /\ eventLog \in Seq([id : Nat, level : Int]) /\ sent \in Nat
      /\ g_TotalAlerts \in Nat
  BY <1>1 DEF MoType
<1>3. NoAlert \in AlertCopy
  BY DEF NoAlert, AlertCopy
<1>4. CASE OnNewAlert
  <2>1. /\ sent' = sent + 1
        /\ UNCHANGED <<g_TotalAlerts, g_AlertActive, eventLog, list, s_Stored, s_StoredCount, button>>
    BY <1>4 DEF OnNewAlert
  <2>2. ASSUME NEW l \in Level, NEW v \in BOOLEAN, UNCHANGED lost,
               posted' = Post("main", "alert", [id |-> sent + 1, level |-> l, valid |-> v])
        PROVE  MoInv'
    <3> DEFINE a == [id |-> sent + 1, level |-> l, valid |-> v]
               m == [to |-> "main", msg |-> "alert", alert |-> a]
    <3>1. a \in AlertCopy
      BY <1>2, StoredAssumption DEF AlertCopy
    <3> HIDE DEF a
    <3>2. m \in Message /\ m.to = "main" /\ m.msg = "alert"
      BY <3>1 DEF Message
    <3>3. posted' = Append(posted, m)
      BY <2>2 DEF Post, a
    <3> HIDE DEF m
    <3>4. QED
      BY ZenonT(60), <2>1, <2>2, <3>2, <3>3, PostStep
  <2>3. ASSUME lost' = TRUE, UNCHANGED posted PROVE MoInv'
    <3>1. sent' \in Nat /\ posted' \in Seq(Message) /\ eventLog' \in Seq([id : Nat, level : Int])
      BY <1>2, <2>1, <2>3
    <3>2. QED
      BY ZenonT(60), <1>1, <2>1, <2>3, <3>1, LostStep DEF MoType
  <2>4. QED
    BY ZenonT(60), <1>4, <2>2, <2>3 DEF OnNewAlert
<1>5. CASE MainNewAlert
  <2> DEFINE h == Head(posted)
             a == h.alert
             m == [to |-> "log", msg |-> "alert", alert |-> a]
  <2>1. /\ posted # <<>> /\ h.to = "main" /\ h.msg = "alert"
        /\ g_TotalAlerts' = g_TotalAlerts + 1 /\ g_AlertActive' = (g_AlertActive \/ a.level >= 1)
        /\ eventLog' = Append(eventLog, EventLogEntry(a))
        /\ UNCHANGED <<list, s_Stored, s_StoredCount, sent, button>>
    BY ZenonT(60), <1>5 DEF MainNewAlert, Got
  <2>2. h \in Message /\ Tail(posted) \in Seq(Message)
    BY <1>2, <2>1
  <2> HIDE DEF h
  <2>3. a \in AlertCopy
    BY <2>2 DEF Message
  <2> HIDE DEF a
  <2>4. EventLogEntry(a) \in [id : Nat, level : Int]
    BY <2>3 DEF EventLogEntry, AlertCopy
  <2>5. /\ eventLog' \in Seq([id : Nat, level : Int]) /\ Len(eventLog') = Len(eventLog) + 1
        /\ g_TotalAlerts' \in Nat
    BY <1>2, <2>1, <2>4
  <2>6. ASSUME posted' = Append(Tail(posted), m), UNCHANGED lost PROVE MoInv'
    <3>1. m \in Message /\ m.to = "log" /\ m.msg = "alert" /\ m.alert = a
      BY <2>3 DEF Message
    <3> HIDE DEF m
    <3>2. QED
      BY ZenonT(60), <2>1, <2>5, <2>6, <3>1, MainStep DEF a, h
  <2>7. ASSUME posted' = Tail(posted), lost' = TRUE PROVE MoInv'
    <3>1. g_AlertActive' \in BOOLEAN /\ sent' \in Nat /\ lost' \in BOOLEAN
      BY ZenonT(60), <1>1, <2>1, <2>7 DEF MoType
    <3>2. QED
      BY ZenonT(60), <2>1, <2>2, <2>5, <2>7, <3>1, LostStep
  <2>8. QED
    BY ZenonT(60), <1>5, <2>6, <2>7 DEF MainNewAlert, a, h
<1>6. CASE ChooseClear
  <2> DEFINE m == [to |-> "main", msg |-> "clear", alert |-> NoAlert]
  <2>1. /\ posted' = Append(posted, m)
        /\ UNCHANGED <<g_TotalAlerts, g_AlertActive, eventLog, list, s_Stored, s_StoredCount, sent,
                       lost, button>>
    BY <1>6 DEF ChooseClear, Post
  <2>2. m \in Message /\ m.to = "main" /\ m.msg # "alert"
    BY <1>3 DEF Message
  <2> HIDE DEF m
  <2>3. QED
    BY ZenonT(60), <2>1, <2>2, PostStep
<1>7. CASE MainClear
  <2> DEFINE m == [to |-> "log", msg |-> "clear", alert |-> NoAlert]
  <2>1. /\ posted # <<>> /\ Head(posted).to = "main" /\ Head(posted).msg = "clear"
        /\ posted' = Append(Tail(posted), m) /\ g_TotalAlerts' = 0 /\ g_AlertActive' = FALSE
        /\ UNCHANGED <<eventLog, list, s_Stored, s_StoredCount, sent, lost, button>>
    BY <1>7 DEF MainClear, Got
  <2>2. m \in Message /\ m.to = "log" /\ m.msg = "clear" /\ m.msg # "alert"
    BY <1>3 DEF Message
  <2> HIDE DEF m
  <2>3. eventLog' \in Seq([id : Nat, level : Int]) /\ Len(eventLog') = Len(eventLog)
    BY <1>2, <2>1
  <2>4. QED
    BY ZenonT(60), <2>1, <2>2, <2>3, MainStep
<1>8. CASE LogNewAlert
  <2>1. /\ posted # <<>> /\ Head(posted).to = "log" /\ Head(posted).msg = "alert"
        /\ posted' = Tail(posted) /\ list' = Append(list, Head(posted).alert)
        /\ s_StoredCount' = s_StoredCount + 1
        /\ s_Stored' = [s_Stored EXCEPT ![s_StoredCount % STORED_MAX] = Head(posted).alert]
        /\ UNCHANGED <<g_TotalAlerts, g_AlertActive, eventLog, sent, lost, button>>
    BY ZenonT(60), <1>8 DEF LogNewAlert, Got
  <2>2. Head(posted).msg # "clear"
    BY <2>1
  <2>3. QED
    BY ZenonT(60), <2>1, <2>2, LogStep
<1>9. CASE LogClear
  <2>1. /\ posted # <<>> /\ Head(posted).to = "log" /\ Head(posted).msg = "clear"
        /\ posted' = Tail(posted) /\ list' = <<>> /\ s_StoredCount' = 0 /\ s_Stored' = s_Stored
        /\ UNCHANGED <<g_TotalAlerts, g_AlertActive, eventLog, sent, lost, button>>
    BY ZenonT(60), <1>9 DEF LogClear, ClearLog, Got
  <2>2. Head(posted).msg # "alert"
    BY <2>1
  <2>3. QED
    BY ZenonT(60), <2>1, <2>2, LogStep
<1>10. CASE PressClear
  <2>1. /\ button' = TRUE /\ list' = <<>> /\ s_StoredCount' = 0
        /\ UNCHANGED <<posted, g_TotalAlerts, g_AlertActive, eventLog, s_Stored, sent, lost>>
    BY ZenonT(60), <1>10 DEF PressClear, ClearLog
  <2>2. list' \in Seq(AlertCopy) /\ s_StoredCount' \in Nat /\ Len(list') = 0
    BY <2>1
  <2>3. MoType'
    BY ZenonT(60), <1>1, <2>1, <2>2 DEF MoType
  <2>4. StoredRows'
    BY <2>1, <2>2 DEF StoredRows
  <2>5. ASSUME NEW f, Ahead(f) PROVE Ahead(f)'
    BY ZenonT(60), <2>1, <2>5 DEF Ahead
  <2>6. QED
    BY ZenonT(60), <2>1, <2>3, <2>4, <2>5 DEF MoInv
<1>11. CASE SaveLog \/ Exit \/ UNCHANGED moVars
  <2>1. UNCHANGED <<posted, g_TotalAlerts, g_AlertActive, eventLog, list, s_Stored, s_StoredCount,
                    sent, lost, button>>
    BY <1>11 DEF SaveLog, Exit, moVars
  <2>2. MoType' /\ StoredRows'
    BY ZenonT(60), <2>1 DEF MoInv, MoType, StoredRows
  <2>3. ASSUME NEW f, Ahead(f) PROVE Ahead(f)'
    BY ZenonT(60), <2>1, <2>3 DEF Ahead, Red
  <2>4. QED
    BY ZenonT(60), <2>1, <2>2, <2>3 DEF MoInv
<1>12. QED
  BY <1>4, <1>5, <1>6, <1>7, <1>8, <1>9, <1>10, <1>11 DEF MoNext

(* MsgWndProc and LogDlgProc: whatever the order in which alerts and clears  *)
(* are posted and handled, the file, the event log, the tip and the icon     *)
(* agree with the list once the queue is empty.                              *)
THEOREM WindowsInStep == MoSpec => []WindowsAgree
<1>1. MoInv => WindowsAgree
  <2> SUFFICES ASSUME MoInv, posted = <<>>, ~lost
               PROVE  /\ s_StoredCount = Len(list)
                      /\ s_StoredCount <= STORED_MAX => SaveLines = list
                      /\ running => Len(eventLog) = sent
                      /\ ~button => /\ g_TotalAlerts = Len(list)
                                    /\ g_AlertActive <=> \E i \in 1..Len(list) : list[i].level >= 1
    BY ZenonT(60) DEF WindowsAgree
  <2>1. s_StoredCount = Len(list) /\ list \in Seq(AlertCopy) /\ g_AlertActive \in BOOLEAN
    BY DEF MoInv, StoredRows, MoType
  <2>2. PICK f : Ahead(f)
    BY ZenonT(60) DEF MoInv
  <2>3. Len(posted) = 0
    OBVIOUS
  <2>4. Len(eventLog) = sent
    BY ZenonT(60), <2>2, <2>3 DEF Ahead
  <2>5. ~button => g_TotalAlerts = Len(list) /\ g_AlertActive = Red(list)
    BY ZenonT(60), <2>2, <2>3 DEF Ahead
  <2>6. ASSUME s_StoredCount <= STORED_MAX PROVE SaveLines = list
    <3>1. \A i \in 1..s_StoredCount : s_Stored[i - 1] = list[i]
      BY <2>6 DEF MoInv, StoredRows
    <3>2. \A i \in 1..s_StoredCount : (i - 1) % STORED_MAX = i - 1
      BY <2>1, <2>6, StoredAssumption
    <3>3. list = [i \in 1..Len(list) |-> list[i]]
      BY <2>1
    <3>4. \A i \in 1..s_StoredCount : s_Stored[(i - 1) % STORED_MAX] = list[i]
      BY ZenonT(60), <3>1, <3>2
    <3>5. QED
      BY SMTT(30), <2>1, <3>3, <3>4 DEF SaveLines
  <2>7. ~button => (g_AlertActive <=> \E i \in 1..Len(list) : list[i].level >= 1)
    BY ZenonT(60), <2>5 DEF Red
  <2>8. QED
    BY <2>1, <2>4, <2>5, <2>6, <2>7
<1>2. QED
  BY MoInitial, MoStep, <1>1, PTL DEF MoSpec

-----------------------------------------------------------------------------
(* KwCpu: the inductive invariant of SharedLevelIsHighest.  The module is    *)
(* brought in here, after the proofs that have no use for it.               *)

CONSTANTS N, Machines, ALERT_COUNT, MaxOverflows, None
VARIABLES machine, features, strategy, cat, sibling, up, l1d, l2, level, counting, isr,
          PmuAlertLevel, crossed

INSTANCE KwCpu

CpType ==
    /\ N \in Nat
    /\ up \in -1 .. N + 1
    /\ level \in [Cpus -> 0..2] /\ PmuAlertLevel \in 0..2
    /\ isr \in [Cpus -> {"idle", "compare", "exchange"}]
    /\ crossed \in BOOLEAN

(* Before the counters run there is no interrupt and no alert. *)
NotYet ==
    up \in 0..N => PmuAlertLevel = 0 /\ \A c \in Cpus : level[c] = 0 /\ isr[c] = "idle"

(* The interrupt that is about to replace the shared level raises it. *)
OneExchange ==
    /\ \A c, d \in Cpus : isr[c] = "exchange" /\ isr[d] = "exchange" => c = d
    /\ \A c \in Cpus : isr[c] = "exchange" => level[c] > PmuAlertLevel
    /\ \A c \in Cpus : isr[c] = "idle" => level[c] <= PmuAlertLevel
    /\ PmuAlertLevel # 0 => \E c \in Cpus : level[c] >= PmuAlertLevel

CpInv == CpType /\ NotYet /\ (up # -1 /\ ~crossed => OneExchange)

LEMMA CpInitial == N \in Nat /\ CpInit => CpInv
<1> SUFFICES ASSUME N \in Nat PROVE CpInit => CpInv
  OBVIOUS
<1> USE DEF Cpus
<1>1. CpInit => CpType
  <2>1. -1 \in -1 .. N + 1 /\ 0 \in -1 .. N + 1
    OBVIOUS
  <2>2. CpInit => up = 0 /\ PmuAlertLevel = 0 /\ level = [c \in Cpus |-> 0] /\ crossed = FALSE
    BY ZenonT(60) DEF CpInit
  <2>3. CpInit => isr \in [Cpus -> {"idle", "compare", "exchange"}]
    BY DEF CpInit
  <2>4. [c \in Cpus |-> 0] \in [Cpus -> 0..2] /\ 0 \in 0..2
    OBVIOUS
  <2>5. QED
    BY ZenonT(60), <2>1, <2>2, <2>3, <2>4 DEF CpType
<1>2. CpInit => NotYet /\ OneExchange
  BY DEF CpInit, NotYet, OneExchange
<1>3. QED
  BY <1>1, <1>2 DEF CpInv

(* One interrupt counts, and the level of its processor does not fall. *)
LEMMA CountStep ==
    ASSUME CpInv, NEW c \in Cpus, PmiCount(c)
    PROVE  CpInv'
<1>1. /\ isr[c] = "idle" /\ isr' = [isr EXCEPT ![c] = "compare"] /\ up = N + 1
      /\ UNCHANGED <<up, PmuAlertLevel, crossed>>
  BY DEF PmiCount
<1>2. /\ level \in [Cpus -> 0..2] /\ PmuAlertLevel \in 0..2
      /\ isr \in [Cpus -> {"idle", "compare", "exchange"}]
  BY DEF CpInv, CpType
<1>3. \E l \in 0..2 : l >= level[c] /\ level' = [level EXCEPT ![c] = l]
  <2>1. PICK over \in SUBSET {"l1d", "l2"} \ {{}} :
          level' = [level EXCEPT ![c] =
                IF "l1d" \in over /\ l1d'[c] >= ALERT_COUNT THEN 2
                ELSE IF "l2" \in over /\ l2'[c] >= ALERT_COUNT /\ level[c] < 1 THEN 1
                ELSE level[c]]
    BY ZenonT(60) DEF PmiCount
  <2> DEFINE hit1 == "l1d" \in over /\ l1d'[c] >= ALERT_COUNT
             hit2 == "l2" \in over /\ l2'[c] >= ALERT_COUNT
             next == IF hit1 THEN 2 ELSE IF hit2 /\ level[c] < 1 THEN 1 ELSE level[c]
  <2>2. level' = [level EXCEPT ![c] = next]
    BY <2>1
  <2> HIDE DEF hit1, hit2
  <2>3. level[c] \in 0..2
    BY <1>2
  <2>4. next \in 0..2 /\ next >= level[c]
    BY <2>3
  <2>5. QED
    BY ZenonT(60), <2>2, <2>4
<1>4. PICK l \in 0..2 : l >= level[c] /\ level' = [level EXCEPT ![c] = l]
  BY ZenonT(60), <1>3
<1>5. CpType' /\ NotYet'
  BY <1>1, <1>2, <1>4 DEF CpInv, CpType, NotYet
<1>6. ASSUME ~crossed PROVE OneExchange'
  <2>1. OneExchange
    BY <1>1, <1>6 DEF CpInv, CpType
  <2>2. /\ \A d \in Cpus : isr'[d] = IF d = c THEN "compare" ELSE isr[d]
        /\ \A d \in Cpus : level'[d] = IF d = c THEN l ELSE level[d]
    BY <1>1, <1>2, <1>4
  <2>3. QED
    BY <1>1, <1>2, <1>4, <2>1, <2>2 DEF OneExchange
<1>7. QED
  BY <1>1, <1>5, <1>6 DEF CpInv

LEMMA CompareStep ==
    ASSUME CpInv, NEW c \in Cpus, PmiCompare(c)
    PROVE  CpInv'
<1>1. /\ isr[c] = "compare" /\ UNCHANGED <<up, level, PmuAlertLevel>>
      /\ isr' = [isr EXCEPT ![c] = IF level[c] > PmuAlertLevel THEN "exchange" ELSE "idle"]
      /\ crossed' = (crossed \/ (isr'[c] = "exchange"
                                   /\ \E d \in Cpus \ {c} : isr[d] = "exchange"))
  BY DEF PmiCompare
<1>2. /\ level \in [Cpus -> 0..2] /\ PmuAlertLevel \in 0..2
      /\ isr \in [Cpus -> {"idle", "compare", "exchange"}]
  BY DEF CpInv, CpType
<1>3. up \notin 0..N
  BY <1>1 DEF CpInv, NotYet
<1>4. CpType'
  <2>1. isr' \in [Cpus -> {"idle", "compare", "exchange"}]
    BY <1>1, <1>2
  <2>2. crossed' \in BOOLEAN
    BY <1>1
  <2>3. QED
    BY <1>1, <2>1, <2>2 DEF CpInv, CpType
<1>5. ASSUME up # -1, ~crossed' PROVE OneExchange'
  <2>1. OneExchange
    BY ZenonT(60), <1>1, <1>5 DEF CpInv
  <2>2. \A d \in Cpus : isr'[d] = IF d # c THEN isr[d]
                                  ELSE IF level[c] > PmuAlertLevel THEN "exchange" ELSE "idle"
    BY <1>1, <1>2
  <2>3. isr'[c] = "exchange" => \A d \in Cpus \ {c} : isr[d] # "exchange"
    BY ZenonT(60), <1>1, <1>5
  <2>4. QED
    BY <1>1, <1>2, <2>1, <2>2, <2>3 DEF OneExchange
<1>6. NotYet'
  BY ZenonT(60), <1>1, <1>3 DEF NotYet
<1>7. QED
  BY ZenonT(60), <1>1, <1>4, <1>5, <1>6 DEF CpInv

LEMMA ExchangeStep ==
    ASSUME CpInv, NEW c \in Cpus, PmiExchange(c)
    PROVE  CpInv'
<1>1. /\ isr[c] = "exchange" /\ UNCHANGED <<up, level, crossed>>
      /\ PmuAlertLevel' = level[c] /\ isr' = [isr EXCEPT ![c] = "idle"]
  BY DEF PmiExchange
<1>2. /\ level \in [Cpus -> 0..2] /\ PmuAlertLevel \in 0..2
      /\ isr \in [Cpus -> {"idle", "compare", "exchange"}]
  BY DEF CpInv, CpType
<1>3. up \notin 0..N
  BY <1>1 DEF CpInv, NotYet
<1>4. CpType'
  BY <1>1, <1>2 DEF CpInv, CpType
<1>5. ASSUME up # -1, ~crossed PROVE OneExchange'
  <2>1. OneExchange
    BY <1>5 DEF CpInv
  <2>2. \A d \in Cpus : isr'[d] = IF d = c THEN "idle" ELSE isr[d]
    BY <1>1, <1>2
  <2>3. QED
    BY <1>1, <1>2, <2>1, <2>2 DEF OneExchange
<1>6. NotYet'
  BY ZenonT(60), <1>1, <1>3 DEF NotYet
<1>7. QED
  BY ZenonT(60), <1>1, <1>4, <1>5, <1>6 DEF CpInv

LEMMA CpStep == CpInv /\ [CpNext]_cpVars => CpInv'
<1> SUFFICES ASSUME CpInv, [CpNext]_cpVars PROVE CpInv'
  OBVIOUS
<1>1. ASSUME NEW c \in Cpus, PmiIsr(c) PROVE CpInv'
  BY <1>1, CountStep, CompareStep, ExchangeStep DEF PmiIsr
<1>2. CASE ProbeCpuCapabilities
  <2>1. up \in 0..N - 1 /\ up' = up + 1 /\ UNCHANGED <<level, isr, PmuAlertLevel, crossed>>
    BY <1>2 DEF ProbeCpuCapabilities, pmuVars, Cpus
  <2>2. CpType' /\ NotYet'
    BY <2>1 DEF CpInv, CpType, NotYet
  <2>3. ~crossed => OneExchange'
    BY <2>1 DEF CpInv, CpType, OneExchange
  <2>4. QED
    BY ZenonT(60), <2>1, <2>2, <2>3 DEF CpInv
<1>3. CASE PmuInitialize
  <2>1. /\ up = N /\ up' = N + 1 /\ UNCHANGED <<isr, PmuAlertLevel, crossed>>
        /\ level' = [c \in Cpus |-> 0]
    BY <1>3 DEF PmuInitialize, PmuConfigure
  <2>2. PmuAlertLevel = 0 /\ \A c \in Cpus : level[c] = 0 /\ isr[c] = "idle"
    BY <2>1 DEF CpInv, CpType, NotYet
  <2>3. CpType'
    BY <2>1 DEF CpInv, CpType
  <2>4. NotYet'
    BY <2>1, <2>3 DEF CpType, NotYet
  <2>5. OneExchange'
    BY SMTT(30), <2>1, <2>2 DEF OneExchange
  <2>6. QED
    BY ZenonT(60), <2>3, <2>4, <2>5 DEF CpInv
<1>4. CASE EscalateCpus
  <2>1. UNCHANGED <<up, level, isr, PmuAlertLevel, crossed>>
    BY <1>4 DEF EscalateCpus, pmuVars
  <2>2. QED
    BY <2>1 DEF CpInv, CpType, NotYet, OneExchange
<1>5. CASE PmuUninitialize
  <2>1. up' = -1 /\ UNCHANGED <<isr, PmuAlertLevel, crossed>> /\ level' = [c \in Cpus |-> 0]
    BY <1>5 DEF PmuUninitialize
  <2>2. QED
    BY <2>1 DEF CpInv, CpType, NotYet
<1>6. CASE UNCHANGED cpVars
  BY ZenonT(60), <1>6 DEF cpVars, CpInv, CpType, NotYet, OneExchange
<1>7. QED
  BY <1>1, <1>2, <1>3, <1>4, <1>5, <1>6 DEF CpNext

(* PmiIsr(): for any number of processors, the level all of them share is   *)
(* the highest any has reached, as long as no two interrupts meet between   *)
(* the comparison and the exchange.                                         *)
THEOREM SharedLevelHighest == N \in Nat /\ CpSpec => []SharedLevelIsHighest
<1>1. CpInv => SharedLevelIsHighest
  <2> SUFFICES ASSUME CpInv, up = N + 1, ~crossed
               PROVE  /\ \A c \in Cpus : isr[c] = "idle" => level[c] <= PmuAlertLevel
                      /\ (\A c \in Cpus : isr[c] = "idle") /\ PmuAlertLevel # 0 =>
                            \E c \in Cpus : level[c] = PmuAlertLevel
    BY DEF SharedLevelIsHighest
  <2>1. OneExchange
    BY DEF CpInv, CpType
  <2>2. QED
    BY SMTT(30), <2>1 DEF CpInv, CpType, OneExchange
<1>2. QED
  BY CpInitial, CpStep, <1>1, PTL DEF CpSpec
=============================================================================

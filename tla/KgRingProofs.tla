---------------------------- MODULE KgRingProofs ----------------------------
(***************************************************************************)
(* The ring implements RingLog for every number of slots, writers, tries   *)
(* and notifications.  The argument: what a slot says while it is valid is *)
(* whole and is the latest number claimed for it, so that a reader that    *)
(* has not been lapped finds its notification undisturbed.                 *)
(***************************************************************************)
EXTENDS KgRing, TLAPS

USE RingAssumption

Holding == {"hmac", "fill", "publish"}

RingType ==
    /\ magic \in [0 .. SLOTS - 1 -> BOOLEAN]
    /\ seqOf \in [0 .. SLOTS - 1 -> Nat] /\ bodyOf \in [0 .. SLOTS - 1 -> Int]
    /\ driver_nonce \in Nat /\ write_index \in Nat
    /\ lock \in Writer \cup {None}
    /\ writer \in [Writer -> Holding \cup {"idle", "wake"}]
    /\ fill \subseteq Field /\ todo \subseteq Field
    /\ cursor \in Nat /\ target \in Nat
    /\ copy \in [seq : Nat, body : Int]
    /\ fate \in [Seq -> {"pending", "old", "lost", "shown", "forged", "overwritten", "tamper"}]

(* kc->lock: its holder is the only one between NotifyLock and NotifyPublish, *)
(* and its number is the next one.                                            *)
LockInv ==
    /\ \A t \in Writer : writer[t] \in Holding <=> lock = t
    /\ driver_nonce = IF lock = None THEN write_index ELSE write_index + 1
    /\ driver_nonce <= MaxNotify

(* What the holder has done to its slot so far. *)
FillInv ==
    \A t \in Writer :
        /\ writer[t] = "fill" =>
              /\ ~magic[Slot(write_index)]
              /\ "seq" \notin fill => seqOf[Slot(write_index)] = write_index
              /\ "body" \notin fill => bodyOf[Slot(write_index)] = write_index
        /\ writer[t] = "publish" =>
              /\ magic[Slot(write_index)]
              /\ seqOf[Slot(write_index)] = write_index
              /\ bodyOf[Slot(write_index)] = write_index

(* A valid slot is whole, and holds the latest number claimed for it. *)
ValidInv ==
    \A s \in 0 .. SLOTS - 1 : magic[s] =>
        /\ bodyOf[s] = seqOf[s] /\ Slot(seqOf[s]) = s
        /\ seqOf[s] + SLOTS >= Claimed

(* A notification that has been published and not lapped is in its slot. *)
Intact(q) == magic[Slot(q)] /\ seqOf[Slot(q)] = q /\ bodyOf[Slot(q)] = q
WindowInv ==
    \A q \in Nat : q < write_index /\ q + SLOTS >= Claimed => Intact(q)

(* The reader: the notification at the cursor is published; as long as it is *)
(* not lapped the copy is true; it is given up only when it is lapped.       *)
ReadInv ==
    /\ mon \in {"start", "begin"} =>
          cursor = 0 /\ \A q \in Seq : fate[q] = "pending"
    /\ cursor <= write_index
    /\ mon \in {"slot", "copy", "verdict"} => cursor < target /\ target <= write_index
    /\ mon = "copy" /\ cursor + SLOTS >= Claimed =>
          /\ "seq" \notin todo => copy.seq = cursor
          /\ "body" \notin todo => copy.body = cursor
    /\ mon = "verdict" => Claimed > cursor + SLOTS

RingInv == RingType /\ LockInv /\ FillInv /\ ValidInv /\ WindowInv /\ ReadInv

-----------------------------------------------------------------------------
(* Arithmetic of slot numbers: Slot() tells any SLOTS consecutive numbers     *)
(* apart, and repeats after SLOTS.                                            *)

LEMMA SlotRange == ASSUME NEW q \in Nat PROVE Slot(q) \in 0 .. SLOTS - 1
BY DEF Slot

LEMMA Division ==
    ASSUME NEW q \in Nat
    PROVE  q \div SLOTS \in Nat /\ q = SLOTS * (q \div SLOTS) + Slot(q)
BY DEF Slot

LEMMA SmallMultiple ==
    ASSUME NEW d \in Int, -SLOTS < SLOTS * d, SLOTS * d < SLOTS
    PROVE  d = 0
<1>1. ASSUME d >= 1 PROVE SLOTS * d >= SLOTS
  <2>1. SLOTS * d = SLOTS + SLOTS * (d - 1)
    OBVIOUS
  <2>2. SLOTS * (d - 1) >= 0
    BY <1>1
  <2>3. QED
    BY <2>1, <2>2
<1>2. ASSUME d <= -1 PROVE SLOTS * d <= -SLOTS
  <2>1. SLOTS * d = -SLOTS - SLOTS * (-d - 1)
    OBVIOUS
  <2>2. SLOTS * (-d - 1) >= 0
    BY <1>2
  <2>3. QED
    BY <2>1, <2>2
<1>3. QED
  BY <1>1, <1>2

LEMMA SlotsDiffer ==
    ASSUME NEW a \in Nat, NEW b \in Nat, a < b, b < a + SLOTS
    PROVE  Slot(a) # Slot(b)
<1> SUFFICES ASSUME Slot(a) = Slot(b) PROVE FALSE
  OBVIOUS
<1> DEFINE x == a \div SLOTS
           y == b \div SLOTS
<1>1. /\ x \in Nat /\ a = SLOTS * x + Slot(a)
      /\ y \in Nat /\ b = SLOTS * y + Slot(b)
  BY ZenonT(60), Division
<1>2. Slot(a) \in Nat
  BY SlotRange
<1> HIDE DEF x, y
<1>3. SLOTS * (y - x) = b - a
  BY <1>1, <1>2
<1>4. y - x \in Int /\ -SLOTS < SLOTS * (y - x) /\ SLOTS * (y - x) < SLOTS
  BY <1>1, <1>3
<1>5. y - x = 0
  BY <1>4, SmallMultiple
<1>6. QED
  BY <1>3, <1>5

LEMMA SlotRepeats == ASSUME NEW a \in Nat PROVE Slot(a + SLOTS) = Slot(a)
<1> DEFINE b == a + SLOTS
           x == a \div SLOTS
           y == b \div SLOTS
<1>1. /\ x \in Nat /\ a = SLOTS * x + Slot(a)
      /\ y \in Nat /\ b = SLOTS * y + Slot(b)
  BY SMTT(30), Division
<1>2. Slot(a) \in 0 .. SLOTS - 1 /\ Slot(b) \in 0 .. SLOTS - 1
  BY SlotRange
<1> HIDE DEF x, y
<1>3. SLOTS * (x + 1 - y) = Slot(b) - Slot(a)
  BY <1>1, <1>2
<1>4. /\ x + 1 - y \in Int
      /\ -SLOTS < SLOTS * (x + 1 - y) /\ SLOTS * (x + 1 - y) < SLOTS
  BY <1>1, <1>2, <1>3
<1>5. x + 1 - y = 0
  BY <1>4, SmallMultiple
<1>6. QED
  BY <1>2, <1>3, <1>5

-----------------------------------------------------------------------------
(* The inductive step. *)

(* A number is claimed from the time its slot is invalidated. *)
ClaimedFacts ==
    /\ Claimed \in {write_index, write_index + 1}
    /\ lock = None => Claimed = write_index
    /\ \A t \in Writer : writer[t] = "hmac" => Claimed = write_index
    /\ \A t \in Writer : writer[t] \in {"fill", "publish"} => Claimed = write_index + 1

LEMMA ClaimedImplied == RingType /\ LockInv => ClaimedFacts
BY DEF RingType, LockInv, Claimed, Holding, ClaimedFacts

LEMMA ClaimedIs == ASSUME RingType, LockInv PROVE ClaimedFacts
BY ClaimedImplied

LEMMA ClaimedIsNext == ASSUME RingType', LockInv' PROVE ClaimedFacts'
BY ClaimedImplied, PTL

LEMMA RingInit == Init => RingInv
<1> SUFFICES ASSUME Init PROVE RingInv
  OBVIOUS
<1>1. RingType
  BY DEF Init, RingType, Holding, NoCopy, Blank, Field, None
<1>2. LockInv /\ FillInv /\ ReadInv
  BY DEF Init, LockInv, FillInv, ReadInv, Holding, Claimed
<1>3. ValidInv /\ WindowInv
  BY DEF Init, ValidInv, WindowInv
<1>4. QED
  BY <1>1, <1>2, <1>3 DEF RingInv

(* The reader's part survives whatever the writers do: numbers only grow. *)
LEMMA WritersKeepReadInv ==
    ASSUME RingType, ReadInv, Claimed \in Nat, Claimed' \in Nat, Claimed' >= Claimed,
           write_index' \in Nat, write_index' >= write_index,
           UNCHANGED <<mon, cursor, target, copy, todo, fate>>
    PROVE  ReadInv'
BY DEF RingType, ReadInv

(* ... and the ring's part whatever the reader does. *)
LEMMA MonitorKeepsRing ==
    ASSUME RingInv, UNCHANGED <<ringVars, writeVars>>
    PROVE  LockInv' /\ FillInv' /\ ValidInv' /\ WindowInv' /\ Claimed' = Claimed
<1>1. Claimed' = Claimed
  BY DEF Claimed, ringVars, writeVars
<1>2. QED
  BY <1>1 DEF RingInv, LockInv, FillInv, ValidInv, WindowInv, Intact, ringVars, writeVars

(* One step of a writer. *)
LEMMA WriterInv ==
    ASSUME RingInv, NEW t \in Writer, NotifyLock(t) \/ WriterStep(t)
    PROVE  RingInv' /\ Claimed' >= Claimed
<1> USE DEF RingInv
<1> DEFINE w == write_index
<1>0. /\ w \in Nat /\ w \in Int /\ Slot(w) \in 0 .. SLOTS - 1 /\ Claimed \in Nat
      /\ \A q \in Nat : Slot(q) \in 0 .. SLOTS - 1
  <2>1. w \in Nat /\ \A q \in Nat : Slot(q) \in 0 .. SLOTS - 1
    BY SlotRange DEF RingType
  <2>2. Claimed \in {w, w + 1}
    BY ClaimedIs DEF ClaimedFacts
  <2>3. QED
    BY <2>1, <2>2
<1>1. CASE NotifyLock(t)
  <2>1. RingType' /\ LockInv'
    BY <1>1 DEF NotifyLock, monVars, readVars, pollVars, RingType, LockInv, Holding
  <2>2. Claimed' = Claimed
    BY <1>1, <2>1, ClaimedIs DEF ClaimedFacts, NotifyLock, RingType, LockInv, Claimed,
       Holding
  <2>3. FillInv'
    BY <1>1 DEF NotifyLock, FillInv, LockInv, RingType, Holding
  <2>4. ValidInv' /\ WindowInv'
    BY <1>1, <2>2 DEF NotifyLock, ValidInv, WindowInv, Intact
  <2>5. QED
    BY <1>0, <1>1, <2>1, <2>2, <2>3, <2>4, WritersKeepReadInv
       DEF NotifyLock, monVars, readVars, pollVars
<1>2. CASE NotifyHmacFails(t)
  <2>1. lock = t /\ driver_nonce = w + 1
    BY <1>2 DEF NotifyHmacFails, LockInv, Holding, RingType
  <2>2. RingType' /\ LockInv'
    <3>1. driver_nonce' = w
      BY <1>0, <1>2, <2>1 DEF NotifyHmacFails
    <3>2. writer' \in [Writer -> Holding \cup {"idle", "wake"}] /\ lock' \in Writer \cup {None}
      BY <1>2 DEF NotifyHmacFails, RingType
    <3>3. RingType'
      BY ZenonT(60), <1>0, <1>2, <3>1, <3>2 DEF NotifyHmacFails, monVars, readVars,
         pollVars, RingType
    <3>4. LockInv'
      <4>1. ASSUME NEW u \in Writer PROVE writer'[u] \notin Holding /\ lock' # u
        BY <1>2, <2>1 DEF NotifyHmacFails, RingType, LockInv, Holding
      <4>2. driver_nonce' = write_index' /\ driver_nonce' <= MaxNotify
        BY <1>0, <1>2, <2>1, <3>1 DEF NotifyHmacFails, LockInv
      <4>3. QED
        BY <1>2, <4>1, <4>2 DEF NotifyHmacFails, LockInv
    <3>5. QED
      BY <3>3, <3>4
  <2>3. Claimed' = Claimed
    BY <1>2, <2>1, <2>2, ClaimedIs DEF ClaimedFacts, NotifyHmacFails, RingType, LockInv,
       Claimed, Holding
  <2>4. FillInv'
    BY <1>2, <2>1 DEF NotifyHmacFails, FillInv, LockInv, RingType, Holding
  <2>5. ValidInv' /\ WindowInv'
    BY <1>2, <2>3 DEF NotifyHmacFails, ValidInv, WindowInv, Intact
  <2>6. QED
    BY <1>0, <1>2, <2>2, <2>3, <2>4, <2>5, WritersKeepReadInv
       DEF NotifyHmacFails, monVars, readVars, pollVars
<1>3. CASE NotifyInvalidate(t)
  <2>1. lock = t /\ driver_nonce = w + 1 /\ driver_nonce - 1 = w
    BY <1>0, <1>3 DEF NotifyInvalidate, LockInv, Holding, RingType
  <2>2. RingType' /\ LockInv' /\ magic' = [magic EXCEPT ![Slot(w)] = FALSE]
    BY ZenonT(60), <1>0, <1>3, <2>1 DEF NotifyInvalidate, monVars, readVars, pollVars,
       RingType, LockInv, Holding, Field
  <2>3. Claimed = w /\ Claimed' = w + 1
    <3>1. Claimed = w
      BY <1>3, ClaimedIs DEF ClaimedFacts, NotifyInvalidate
    <3>2. ~\E u \in Writer : writer'[u] = "hmac"
      BY <1>3, <2>1 DEF NotifyInvalidate, LockInv, RingType, Holding
    <3>3. QED
      BY <1>3, <2>1, <3>1, <3>2 DEF NotifyInvalidate, Claimed
  <2>4. FillInv'
    BY <1>0, <1>3, <2>1, <2>2 DEF NotifyInvalidate, FillInv, LockInv, RingType, Holding,
       Field
  <2>5. ValidInv'
    <3>1. SUFFICES ASSUME NEW s \in 0 .. SLOTS - 1, magic[s], s # Slot(w)
                   PROVE  /\ bodyOf[s] = seqOf[s] /\ Slot(seqOf[s]) = s
                          /\ seqOf[s] + SLOTS >= w + 1
      BY SMTT(30), <1>0, <1>3, <2>2, <2>3 DEF NotifyInvalidate, ValidInv, RingType
    <3>2. /\ seqOf[s] \in Nat /\ bodyOf[s] = seqOf[s] /\ Slot(seqOf[s]) = s
          /\ seqOf[s] + SLOTS >= w
      BY <2>3, <3>1 DEF ValidInv, RingType
    <3>3. seqOf[s] + SLOTS # w
      BY SMTT(30), <3>1, <3>2, SlotRepeats
    <3>4. QED
      BY SMTT(30), <1>0, <3>2, <3>3
  <2>6. WindowInv'
    <3>1. SUFFICES ASSUME NEW q \in Nat, q < w, q + SLOTS >= w + 1
                   PROVE  Intact(q)'
      BY <1>3, <2>3 DEF NotifyInvalidate, WindowInv
    <3>2. Intact(q) /\ Slot(q) # Slot(w)
      BY <1>0, <2>3, <3>1, SlotsDiffer DEF WindowInv
    <3>3. QED
      BY <1>0, <1>3, <2>2, <3>2 DEF NotifyInvalidate, Intact, RingType
  <2>7. QED
    BY <1>0, <1>3, <2>2, <2>3, <2>4, <2>5, <2>6, WritersKeepReadInv
       DEF NotifyInvalidate, monVars, readVars, pollVars
<1>4. ASSUME NEW f \in Field, NotifyFill(t, f) PROVE RingInv' /\ Claimed' >= Claimed
  <2>1. lock = t /\ driver_nonce = w + 1 /\ driver_nonce - 1 = w /\ ~magic[Slot(w)]
    BY SMTT(30), <1>0, <1>4 DEF NotifyFill, LockInv, FillInv, Holding, RingType
  <2>2. RingType' /\ LockInv'
    <3>1. /\ seqOf' = seqOf \/ seqOf' = [seqOf EXCEPT ![Slot(w)] = w]
          /\ bodyOf' = bodyOf \/ bodyOf' = [bodyOf EXCEPT ![Slot(w)] = w]
      BY ZenonT(60), <1>4, <2>1 DEF NotifyFill
    <3>2. /\ seqOf' \in [0 .. SLOTS - 1 -> Nat] /\ bodyOf' \in [0 .. SLOTS - 1 -> Int]
          /\ fill' \subseteq Field
      <4>1. seqOf' \in [0 .. SLOTS - 1 -> Nat]
        BY ZenonT(60), <1>0, <3>1 DEF RingType
      <4>2. bodyOf' \in [0 .. SLOTS - 1 -> Int]
        BY ZenonT(60), <1>0, <3>1 DEF RingType
      <4>3. fill' \subseteq Field
        BY <1>4 DEF NotifyFill, RingType
      <4>4. QED
        BY <4>1, <4>2, <4>3
    <3>3. QED
      BY ZenonT(60), <1>4, <3>2 DEF NotifyFill, monVars, readVars, pollVars, RingType,
         LockInv
  <2>3. Claimed' = Claimed /\ Claimed = w + 1
    BY <1>4, ClaimedIs DEF ClaimedFacts, NotifyFill, Claimed
  <2>4. FillInv'
    BY ZenonT(60), <1>0, <1>4, <2>1 DEF NotifyFill, FillInv, LockInv, RingType, Holding,
       Field
  <2>5. \A s \in 0 .. SLOTS - 1 : s # Slot(w) => seqOf'[s] = seqOf[s] /\ bodyOf'[s] = bodyOf[s]
    BY <1>4, <2>1 DEF NotifyFill, RingType
  <2>6. ValidInv'
    BY <1>0, <1>4, <2>1, <2>3, <2>5 DEF NotifyFill, ValidInv
  <2>7. WindowInv'
    <3>1. SUFFICES ASSUME NEW q \in Nat, q < w, q + SLOTS >= w + 1
                   PROVE  Intact(q)'
      BY <1>4, <2>3 DEF NotifyFill, WindowInv
    <3>2. Intact(q) /\ Slot(q) # Slot(w)
      BY <1>0, <2>3, <3>1, SlotsDiffer DEF WindowInv
    <3>3. QED
      BY <1>0, <1>4, <2>5, <3>2 DEF NotifyFill, Intact
  <2>8. QED
    BY SMTT(30), <1>0, <1>4, <2>2, <2>3, <2>4, <2>6, <2>7, WritersKeepReadInv
       DEF NotifyFill, monVars, readVars, pollVars
<1>5. CASE NotifyValidate(t)
  <2>1. lock = t /\ driver_nonce = w + 1 /\ driver_nonce - 1 = w
    BY SMTT(30), <1>0, <1>5 DEF NotifyValidate, LockInv, Holding, RingType
  <2>2. /\ RingType' /\ LockInv' /\ magic' = [magic EXCEPT ![Slot(w)] = TRUE]
        /\ seqOf[Slot(w)] = w /\ bodyOf[Slot(w)] = w
    BY ZenonT(60), <1>0, <1>5, <2>1 DEF NotifyValidate, monVars, readVars, pollVars,
       RingType, LockInv, FillInv, Holding
  <2>3. Claimed' = Claimed /\ Claimed = w + 1
    BY SMTT(30), <1>5, <2>1, <2>2, ClaimedIs DEF ClaimedFacts, NotifyValidate, Claimed,
       RingType, LockInv, Holding
  <2>4. FillInv'
    BY <1>0, <1>5, <2>1, <2>2 DEF NotifyValidate, FillInv, LockInv, RingType, Holding
  <2>5. ValidInv'
    <3>1. SUFFICES ASSUME NEW s \in 0 .. SLOTS - 1, magic'[s]
                   PROVE  /\ bodyOf[s] = seqOf[s] /\ Slot(seqOf[s]) = s
                          /\ seqOf[s] + SLOTS >= w + 1
      BY <1>5, <2>3 DEF NotifyValidate, ValidInv
    <3>2. CASE s = Slot(w)
      BY <1>0, <2>2, <3>2
    <3>3. CASE s # Slot(w)
      BY SMTT(30), <2>2, <2>3, <3>1, <3>3 DEF ValidInv, RingType
    <3>4. QED
      BY <3>2, <3>3
  <2>6. WindowInv'
    <3>1. SUFFICES ASSUME NEW q \in Nat, q < w, q + SLOTS >= w + 1
                   PROVE  Intact(q)'
      BY <1>5, <2>3 DEF NotifyValidate, WindowInv
    <3>2. Intact(q)
      BY <2>3, <3>1 DEF WindowInv
    <3>3. QED
      BY ZenonT(60), <1>0, <1>5, <2>2, <3>2 DEF NotifyValidate, Intact, RingType
  <2>7. QED
    BY <1>0, <1>5, <2>2, <2>3, <2>4, <2>5, <2>6, WritersKeepReadInv
       DEF NotifyValidate, monVars, readVars, pollVars
<1>6. CASE NotifyPublish(t)
  <2>1. lock = t /\ driver_nonce = w + 1
    BY <1>0, <1>6 DEF NotifyPublish, LockInv, Holding, RingType
  <2>2. RingType' /\ LockInv' /\ write_index' = w + 1 /\ Intact(w)
    BY ZenonT(60), <1>0, <1>6, <2>1 DEF NotifyPublish, monVars, readVars, pollVars,
       RingType, LockInv, FillInv, Holding, Intact
  <2>3. Claimed' = Claimed /\ Claimed = w + 1
    BY SMTT(30), <1>6, <2>1, <2>2, ClaimedIs DEF ClaimedFacts, NotifyPublish, Claimed,
       RingType, LockInv, Holding
  <2>4. FillInv'
    BY <1>6, <2>1 DEF NotifyPublish, FillInv, LockInv, RingType, Holding
  <2>5. ValidInv'
    BY <1>6, <2>3 DEF NotifyPublish, ValidInv
  <2>6. WindowInv'
    BY <1>0, <1>6, <2>2, <2>3 DEF NotifyPublish, WindowInv, Intact
  <2>7. QED
    BY <1>0, <1>6, <2>2, <2>3, <2>4, <2>5, <2>6, WritersKeepReadInv
       DEF NotifyPublish, monVars, readVars, pollVars
<1>7. CASE NotifyWake(t)
  <2>1. RingType' /\ LockInv'
    BY SMTT(30), <1>7 DEF NotifyWake, ringVars, readVars, RingType, LockInv, Holding
  <2>2. Claimed' = Claimed
    BY SMTT(30), <1>7, <2>1 DEF NotifyWake, ringVars, Claimed, RingType
  <2>3. FillInv' /\ ValidInv' /\ WindowInv'
    BY <1>7, <2>2 DEF NotifyWake, ringVars, FillInv, ValidInv, WindowInv, Intact, RingType
  <2>4. QED
    BY SMTT(30), <1>0, <1>7, <2>1, <2>2, <2>3, WritersKeepReadInv DEF NotifyWake, ringVars,
       readVars
<1>8. QED
  BY <1>1, <1>2, <1>3, <1>4, <1>5, <1>6, <1>7 DEF WriterStep

(* The cursor is on a published notification, which is intact until lapped.   *)
LEMMA AtCursor ==
    ASSUME RingInv, mon \in {"slot", "copy", "verdict"}
    PROVE  /\ cursor \in Seq /\ cursor < write_index /\ Claimed \in Nat
           /\ cursor + SLOTS >= Claimed => Intact(cursor)
           /\ cursor + SLOTS < Claimed => write_index - cursor > SLOTS - 1
<1>1. Claimed \in {write_index, write_index + 1}
  BY SMTT(30), ClaimedIs DEF ClaimedFacts, RingInv
<1>2. cursor \in Nat /\ write_index \in Nat /\ cursor < write_index /\ write_index <= MaxNotify
  BY SMTT(30) DEF RingInv, RingType, ReadInv, LockInv
<1>3. QED
  BY SMTT(30), <1>1, <1>2 DEF RingInv, WindowInv, Seq

(* Giving up on a slot after TRIES times, or trying once more. *)
LEMMA RetryInv ==
    ASSUME RingInv, RingType', mon \in {"slot", "copy"}, Retry, ~magic[Slot(cursor)],
           Claimed' = Claimed, UNCHANGED <<target, write_index>>
    PROVE  ReadInv'
<1>1. cursor \in Nat /\ Claimed \in Nat /\ (cursor + SLOTS >= Claimed => Intact(cursor))
  BY AtCursor DEF Seq
<1>2. Claimed > cursor + SLOTS
  BY <1>1 DEF Intact
<1>3. QED
  BY <1>1, <1>2 DEF Retry, RingInv, ReadInv

(* On to the next notification. *)
LEMMA SettleInv ==
    ASSUME RingInv, mon \in {"copy", "verdict"}, NEW f \in {"shown", "forged", "overwritten"},
           Settle(f), Claimed' = Claimed, UNCHANGED <<ringVars, writeVars, target, todo>>
    PROVE  RingType' /\ ReadInv'
<1>1. cursor \in Seq /\ cursor < target /\ target <= write_index
  BY AtCursor DEF RingInv, ReadInv
<1>2. /\ cursor' = cursor + 1 /\ copy' = NoCopy /\ fate' = [fate EXCEPT ![cursor] = f]
      /\ mon' = IF cursor + 1 = target THEN "register" ELSE "slot"
  BY SMTT(30) DEF Settle
<1>3. RingType'
  BY SMTT(30), <1>1, <1>2 DEF RingInv, RingType, ringVars, writeVars, NoCopy, Blank
<1>4. ReadInv'
  BY SMTT(30), <1>1, <1>2, <1>3 DEF RingInv, RingType, ReadInv, ringVars
<1>5. QED
  BY SMTT(30), <1>3, <1>4

(* One step of the monitor. *)
LEMMA MonitorInv ==
    ASSUME RingInv, MonitorStep \/ PollTimeout
    PROVE  RingInv' /\ Claimed' = Claimed
<1>1. UNCHANGED <<ringVars, writeVars>>
  BY DEF MonitorStep, MonitorOpen, MonitorBegin, DrainBegin, ReadMagic, ReadCopy,
     ReadRecheck, ReadVerdict, PollRegister, PollCheck, PollWoken, PollTimeout
<1>2. LockInv' /\ FillInv' /\ ValidInv' /\ WindowInv' /\ Claimed' = Claimed
  BY <1>1, MonitorKeepsRing
<1>0. SUFFICES RingType' /\ ReadInv'
  BY SMTT(30), <1>2 DEF RingInv
<1>t. Claimed \in Nat /\ write_index \in Nat /\ cursor \in Nat
  <2>1. Claimed \in {write_index, write_index + 1}
    BY ClaimedIs DEF ClaimedFacts, RingInv
  <2>2. QED
    BY <2>1 DEF RingInv, RingType
<1>3. CASE MonitorOpen \/ PollRegister \/ PollCheck \/ PollWoken \/ PollTimeout
  BY ZenonT(60), <1>1, <1>2, <1>3 DEF MonitorOpen, PollRegister, PollCheck, PollWoken,
     PollTimeout, RingInv, RingType, ReadInv, ringVars, writeVars, readVars, pollVars
<1>4. CASE MonitorBegin
  <2>1. cursor' \in Nat /\ cursor' <= write_index
    BY <1>t, <1>4 DEF MonitorBegin, MaxOf
  <2>2. QED
    BY <1>1, <1>2, <1>4, <2>1 DEF MonitorBegin, RingInv, RingType, ReadInv, ringVars,
       writeVars, readVars, pollVars
<1>5. CASE DrainBegin
  <2>1. cursor' \in Nat /\ cursor' <= write_index /\ target' = write_index
    BY <1>t, <1>5 DEF DrainBegin, MaxOf, RingInv, ReadInv
  <2>2. mon' \in {"register", "slot"} /\ (mon' = "slot" => cursor' < target')
    BY SMTT(30), <1>t, <1>5, <2>1 DEF DrainBegin
  <2>3. fate' \in [Seq -> {"pending", "old", "lost", "shown", "forged", "overwritten",
                            "tamper"}]
    BY SMTT(30), <1>5 DEF DrainBegin, RingInv, RingType
  <2>4. RingType'
    BY ZenonT(60), <1>1, <1>5, <2>1, <2>3 DEF DrainBegin, RingInv, RingType, ringVars,
       writeVars
  <2>5. ReadInv'
    BY <1>t, <1>1, <1>5, <2>1, <2>2 DEF DrainBegin, ReadInv, ringVars
  <2>6. QED
    BY <2>4, <2>5
<1>6. CASE ReadMagic
  <2>1. RingType'
    <3>1. NoCopy \in [seq : Nat, body : Int]
      BY DEF NoCopy, Blank
    <3>2. /\ copy' \in [seq : Nat, body : Int] /\ todo' \subseteq Field
          /\ UNCHANGED <<cursor, fate>>
      BY SMTT(30), <1>6, <3>1 DEF ReadMagic, Retry, RingInv, RingType
    <3>3. QED
      BY <1>1, <1>6, <3>2 DEF ReadMagic, RingInv, RingType, ringVars, writeVars
  <2>2. CASE magic[Slot(cursor)]
    BY SMTT(30), <1>1, <1>2, <1>6, <2>1, <2>2 DEF ReadMagic, RingInv, RingType, ReadInv,
       ringVars, Field
  <2>3. CASE ~magic[Slot(cursor)]
    BY <1>1, <1>2, <1>6, <2>1, <2>3, RetryInv DEF ReadMagic, ringVars
  <2>4. QED
    BY SMTT(30), <2>1, <2>2, <2>3
<1>7. ASSUME NEW f \in Field, ReadCopy(f) PROVE RingType' /\ ReadInv'
  <2>1. Slot(cursor) \in 0 .. SLOTS - 1
    BY SMTT(30), <1>t, SlotRange
  <2>2. RingType'
    BY SMTT(30), <1>1, <1>7, <2>1 DEF ReadCopy, RingInv, RingType, ringVars, writeVars
  <2>3. cursor + SLOTS >= Claimed => Intact(cursor)
    BY ZenonT(60), <1>7, AtCursor DEF ReadCopy
  <2>4. ReadInv'
    BY SMTT(30), <1>1, <1>2, <1>7, <2>3 DEF ReadCopy, Intact, RingInv, RingType, ReadInv,
       ringVars, Field
  <2>5. QED
    BY <2>2, <2>4
<1>8. CASE ReadRecheck
  <2>1. CASE ~magic[Slot(cursor)]
    <3>1. RingType'
      BY SMTT(30), <1>1, <1>8, <2>1 DEF ReadRecheck, Retry, RingInv, RingType, ringVars,
         writeVars, NoCopy, Blank
    <3>2. QED
      BY ZenonT(60), <1>1, <1>2, <1>8, <2>1, <3>1, RetryInv DEF ReadRecheck, ringVars
  <2>2. CASE magic[Slot(cursor)] /\ copy.seq = cursor
    BY ZenonT(60), <1>1, <1>2, <1>8, <2>2, SettleInv DEF ReadRecheck
  <2>3. CASE magic[Slot(cursor)] /\ copy.seq # cursor
    <3>1. Claimed > cursor + SLOTS
      BY <1>t, <1>8, <2>3 DEF ReadRecheck, RingInv, ReadInv
    <3>2. QED
      BY SMTT(30), <1>1, <1>2, <1>8, <2>3, <3>1 DEF ReadRecheck, RingInv, RingType, ReadInv,
         ringVars, writeVars
  <2>4. QED
    BY <2>1, <2>2, <2>3
<1>9. CASE ReadVerdict
  <2>1. write_index - cursor > SLOTS - 1
    BY <1>9, AtCursor DEF ReadVerdict, RingInv, ReadInv
  <2>2. QED
    BY SMTT(30), <1>1, <1>2, <1>9, <2>1, SettleInv DEF ReadVerdict
<1>10. QED
  BY SMTT(30), <1>3, <1>4, <1>5, <1>6, <1>7, <1>8, <1>9 DEF MonitorStep

LEMMA RingNext == ASSUME RingInv, [Next]_vars PROVE RingInv'
<1>1. CASE Next
  BY <1>1, WriterInv, MonitorInv DEF Next
<1>2. CASE UNCHANGED vars
  <2>1. UNCHANGED <<ringVars, writeVars>> /\ UNCHANGED <<mon, cursor, target, copy, todo, fate>>
    BY <1>2 DEF vars, ringVars, writeVars
  <2>2. LockInv' /\ FillInv' /\ ValidInv' /\ WindowInv' /\ Claimed' = Claimed
    BY SMTT(30), <2>1, MonitorKeepsRing
  <2>3. RingType' /\ ReadInv'
    BY <2>1, <2>2 DEF RingInv, RingType, ReadInv, ringVars, writeVars
  <2>4. QED
    BY <2>2, <2>3 DEF RingInv
<1>3. QED
  BY <1>1, <1>2

LEMMA RingInvariant == Spec => []RingInv
BY RingInit, RingNext, PTL DEF Spec

-----------------------------------------------------------------------------
(* The refinement: what each step is to the reader's log. *)

(* To the log a writer only claims and publishes. *)
LEMMA WriterRefines ==
    ASSUME RingInv, NEW t \in Writer, NotifyLock(t) \/ WriterStep(t)
    PROVE  [Log!Next]_Log!vars
<1>0. UNCHANGED <<cursor, fate>>
  BY DEF WriterStep, NotifyLock, NotifyHmacFails, NotifyInvalidate, NotifyFill,
     NotifyValidate, NotifyPublish, NotifyWake, monVars
<1>1. RingInv'
  BY SMTT(30), WriterInv
<1> USE DEF RingInv
<1>2. /\ Claimed \in {write_index, write_index + 1} /\ write_index \in Nat
      /\ \A u \in Writer : writer[u] = "hmac" => Claimed = write_index
      /\ \A u \in Writer : writer[u] \in {"fill", "publish"} => Claimed = write_index + 1
  BY SMTT(30), ClaimedIs DEF ClaimedFacts, RingType
<1>3. CASE NotifyInvalidate(t)
  <2>1. Claimed = write_index /\ write_index' = write_index
    BY <1>2, <1>3 DEF NotifyInvalidate
  <2>2. writer'[t] = "fill"
    BY <1>3 DEF NotifyInvalidate, RingType
  <2>3. Claimed' = write_index' + 1
    BY <1>1, <2>2, ClaimedIsNext DEF ClaimedFacts
  <2>4. Log!Claim
    BY <1>0, <2>1, <2>3 DEF Log!Claim
  <2>5. QED
    BY <2>4 DEF Log!Next
<1>4. CASE NotifyPublish(t)
  <2>1. Claimed = write_index + 1
    BY <1>2, <1>4 DEF NotifyPublish
  <2>2. Claimed' = Claimed /\ write_index' = Claimed
    <3>1. lock = t /\ driver_nonce = write_index + 1
      BY <1>4 DEF NotifyPublish, LockInv, RingType, Holding
    <3>2. lock' = None /\ write_index' = write_index + 1
      BY <1>4, <3>1 DEF NotifyPublish
    <3>3. Claimed' = write_index'
      BY <1>1, <3>2, ClaimedIsNext DEF ClaimedFacts
    <3>4. QED
      BY <2>1, <3>2, <3>3
  <2>3. Log!Publish
    BY <1>0, <1>2, <2>1, <2>2 DEF Log!Publish
  <2>4. QED
    BY <2>3 DEF Log!Next
<1>5. CASE NotifyLock(t) \/ NotifyHmacFails(t)
  <2>1. write_index' = write_index
    BY <1>5 DEF NotifyLock, NotifyHmacFails
  <2>2. lock = None \/ writer[t] = "hmac"
    BY SMTT(30), <1>5 DEF NotifyLock, NotifyHmacFails
  <2>3. lock' = None \/ writer'[t] = "hmac"
    BY <1>5 DEF NotifyLock, NotifyHmacFails, RingType
  <2>4. Claimed = write_index
    BY <2>2, ClaimedIs DEF ClaimedFacts
  <2>5. Claimed' = write_index'
    BY <1>1, <2>3, ClaimedIsNext DEF ClaimedFacts
  <2>6. QED
    BY <1>0, <2>1, <2>4, <2>5 DEF Log!vars
<1>6. CASE NotifyValidate(t) \/ (\E f \in Field : NotifyFill(t, f))
  <2>1. write_index' = write_index /\ writer[t] = "fill"
    BY SMTT(30), <1>6 DEF NotifyValidate, NotifyFill
  <2>2. writer'[t] \in {"fill", "publish"}
    BY <1>6 DEF NotifyValidate, NotifyFill, RingType
  <2>3. Claimed = write_index + 1
    BY <1>2, <2>1
  <2>4. Claimed' = write_index' + 1
    BY <1>1, <2>2, ClaimedIsNext DEF ClaimedFacts
  <2>5. QED
    BY <1>0, <2>1, <2>3, <2>4 DEF Log!vars
<1>7. CASE NotifyWake(t)
  <2>1. write_index' = write_index
    BY SMTT(30), <1>7 DEF NotifyWake, ringVars
  <2>2. Claimed' = Claimed
    BY <1>7 DEF NotifyWake, ringVars, Claimed, RingType
  <2>3. QED
    BY <1>0, <2>1, <2>2 DEF Log!vars
<1>8. QED
  BY SMTT(30), <1>3, <1>4, <1>5, <1>6, <1>7 DEF WriterStep

(* The reader starts, shows, misses, skips or stutters. *)
LEMMA MonitorRefines ==
    ASSUME RingInv, MonitorStep \/ PollTimeout
    PROVE  [Log!Next]_Log!vars
<1>1. UNCHANGED <<ringVars, writeVars>>
  BY DEF MonitorStep, MonitorOpen, MonitorBegin, DrainBegin, ReadMagic, ReadCopy,
     ReadRecheck, ReadVerdict, PollRegister, PollCheck, PollWoken, PollTimeout
<1>2. Claimed' = Claimed /\ write_index' = write_index
  BY SMTT(30), <1>1, MonitorKeepsRing DEF ringVars
<1>t. /\ Claimed \in Nat /\ Claimed >= write_index /\ write_index \in Nat /\ cursor \in Nat
      /\ write_index <= MaxNotify
  BY SMTT(30), ClaimedIs DEF ClaimedFacts, RingInv, RingType, LockInv
<1>3. CASE UNCHANGED <<cursor, fate>>
  BY <1>2, <1>3 DEF Log!vars
<1>4. CASE MonitorOpen \/ PollRegister \/ PollCheck \/ PollWoken \/ PollTimeout \/ ReadMagic
           \/ \E f \in Field : ReadCopy(f)
  BY <1>3, <1>4 DEF MonitorOpen, PollRegister, PollCheck, PollWoken, PollTimeout, ReadMagic,
     ReadCopy, Retry
<1>5. CASE MonitorBegin
  <2>1. cursor = 0 /\ \A q \in Seq : fate[q] = "pending"
    BY <1>5 DEF MonitorBegin, RingInv, ReadInv
  <2>2. cursor' \in 0 .. write_index
    BY <1>t, <1>5 DEF MonitorBegin, MaxOf
  <2>3. fate' = [q \in Log!Seq |-> IF q < cursor' THEN "old" ELSE fate[q]]
    BY <1>5, <2>1 DEF MonitorBegin, Seq, Log!Seq
  <2>4. Log!Begin
    BY <1>2, <2>1, <2>2, <2>3 DEF Log!Begin
  <2>5. QED
    BY <2>4 DEF Log!Next
<1>6. CASE DrainBegin
  <2> DEFINE from == MaxOf(cursor, write_index - SLOTS)
  <2>1. /\ cursor' = from
        /\ fate' = [q \in Seq |-> IF q \in cursor .. from - 1 THEN "lost" ELSE fate[q]]
    BY <1>6 DEF DrainBegin
  <2>2. CASE from = cursor
    <3>1. cursor .. from - 1 = {}
      BY <1>t, <2>2
    <3>2. fate' = fate
      BY <2>1, <3>1 DEF RingInv, RingType
    <3>3. QED
      BY <1>3, <2>1, <2>2, <3>2
  <2>3. CASE from # cursor
    <3>1. from = write_index - SLOTS /\ from \in cursor + 1 .. write_index
      BY <1>t, <2>3 DEF MaxOf
    <3>2. Log!Lapped(from - 1)
      BY SMTT(30), <1>t, <3>1 DEF Log!Lapped
    <3>3. Log!Skip
      BY SMTT(30), <1>2, <2>1, <3>1, <3>2 DEF Log!Skip, Log!Seq, Seq
    <3>4. QED
      BY <3>3 DEF Log!Next
  <2>4. QED
    BY <2>2, <2>3
<1>7. CASE ReadRecheck
  <2>1. cursor < write_index /\ mon = "copy" /\ todo = {}
    BY <1>7, AtCursor DEF ReadRecheck
  <2>2. CASE UNCHANGED <<cursor, fate>>
    BY <1>3, <2>2
  <2>3. CASE Settle("shown")
    <3>1. Log!Show
      BY <1>2, <2>1, <2>3 DEF Settle, Log!Show
    <3>2. QED
      BY <3>1 DEF Log!Next
  <2>4. CASE Settle("forged") /\ copy.body # cursor
    <3>1. Log!Lapped(cursor)
      BY <1>t, <2>1, <2>4 DEF Log!Lapped, RingInv, ReadInv
    <3>2. Log!Miss
      BY SMTT(30), <1>2, <2>1, <2>4, <3>1 DEF Settle, Log!Miss
    <3>3. QED
      BY <3>2 DEF Log!Next
  <2>5. QED
    BY SMTT(30), <1>7, <2>2, <2>3, <2>4 DEF ReadRecheck, Retry
<1>8. CASE ReadVerdict
  <2>1. cursor < write_index /\ write_index - cursor > SLOTS - 1 /\ Log!Lapped(cursor)
    BY <1>t, <1>8, AtCursor DEF ReadVerdict, RingInv, ReadInv, Log!Lapped
  <2>2. Log!Miss
    BY <1>2, <1>8, <2>1 DEF ReadVerdict, Settle, Log!Miss
  <2>3. QED
    BY <2>2 DEF Log!Next
<1>9. QED
  BY <1>4, <1>5, <1>6, <1>7, <1>8 DEF MonitorStep

(* However the stores of kg_comms_notify() interleave with the loads of       *)
(* drain() and read_slot(), the reader sees the log that RingLog promises.    *)
THEOREM RingImplementsLog == Spec => ImplementsLog
<1>1. Init => Log!Init
  BY DEF Init, Log!Init, Claimed, Seq, Log!Seq
<1>2. ASSUME RingInv, [Next]_vars PROVE [Log!Next]_Log!vars
  <2>1. CASE Next
    BY <1>2, <2>1, WriterRefines, MonitorRefines DEF Next
  <2>2. CASE UNCHANGED vars
    BY <2>2 DEF vars, Log!vars, Claimed
  <2>3. QED
    BY <1>2, <2>1, <2>2
<1>3. QED
  BY RingInvariant, <1>1, <1>2, PTL DEF Spec, ImplementsLog, Log!Spec

(* A copy whose HMAC fails is passed on only if its slot was rewritten as a   *)
(* whole under the reader's loads, never while a writer is still filling it.  *)
THEOREM RingHalfWritten == Spec => HalfWrittenNeverForged
<1> DEFINE Step(q) == fate[q] # "forged" /\ fate'[q] = "forged" =>
                        /\ magic[Slot(q)]
                        /\ seqOf[Slot(q)] = bodyOf[Slot(q)] /\ seqOf[Slot(q)] # q
<1>1. ASSUME RingInv, [Next]_vars, NEW q \in Seq PROVE Step(q)
  <2>1. SUFFICES ASSUME fate[q] # "forged", fate'[q] = "forged"
                 PROVE  magic[Slot(q)] /\ seqOf[Slot(q)] = bodyOf[Slot(q)] /\ seqOf[Slot(q)] # q
    OBVIOUS
  <2>2. fate' # fate
    BY SMTT(30), <2>1
  <2>3. ReadRecheck
    <3>1. ~UNCHANGED vars /\ ~\E t \in Writer : NotifyLock(t) \/ WriterStep(t)
      BY <2>2 DEF vars, WriterStep, NotifyLock, NotifyHmacFails, NotifyInvalidate,
         NotifyFill, NotifyValidate, NotifyPublish, NotifyWake, monVars
    <3>2. ~MonitorBegin /\ ~DrainBegin
      BY SMTT(30), <1>1, <2>1 DEF MonitorBegin, DrainBegin
    <3>3. ~ReadVerdict
      BY SMTT(30), <1>1, <2>1 DEF ReadVerdict, Settle, RingInv, RingType
    <3>4. QED
      BY SMTT(30), <1>1, <2>2, <3>1, <3>2, <3>3 DEF Next, MonitorStep, MonitorOpen,
         PollRegister, PollCheck, PollWoken, PollTimeout, ReadMagic, ReadCopy, Retry
  <2>4. q = cursor /\ magic[Slot(q)] /\ copy.seq = q /\ copy.body # q
    BY SMTT(30), <1>1, <2>1, <2>3 DEF ReadRecheck, Retry, Settle, RingInv, RingType
  <2>5. q + SLOTS < Claimed /\ Claimed \in Nat /\ q \in Nat
    <3>1. mon = "copy" /\ todo = {}
      BY <2>3 DEF ReadRecheck
    <3>2. Claimed \in Nat /\ cursor \in Nat
      BY <1>1, <3>1, AtCursor DEF Seq
    <3>3. cursor + SLOTS >= Claimed => copy.body = cursor
      BY <1>1, <3>1 DEF RingInv, ReadInv
    <3>4. QED
      BY SMTT(30), <2>4, <3>2, <3>3
  <2>6. Slot(q) \in 0 .. SLOTS - 1
    BY <2>5, SlotRange
  <2>7. seqOf[Slot(q)] = bodyOf[Slot(q)] /\ seqOf[Slot(q)] + SLOTS >= Claimed
    BY SMTT(30), <1>1, <2>4, <2>6 DEF RingInv, ValidInv
  <2>8. QED
    BY SMTT(30), <2>4, <2>5, <2>7
<1>2. ASSUME RingInv, [Next]_vars PROVE \A q \in Seq : Step(q)
  BY SMTT(30), <1>1, <1>2
<1>3. ASSUME RingInv, [Next]_vars PROVE [\A q \in Seq : Step(q)]_vars
  BY <1>2, <1>3
<1>4. QED
  BY RingInvariant, <1>3, PTL DEF Spec, HalfWrittenNeverForged

-----------------------------------------------------------------------------
(* The rate limiter (KgNotify), for any burst.  It has a ring of its own in *)
(* which a notification is published in one step.                           *)

CONSTANTS FallbackSlots, FallbackMax, BURST, MaxTicks

ASSUME LimiterAssumption == BURST \in Nat

VARIABLES index, level, rl_tokens, owed, limited, ticks, dropped, toQueue,
          dev, pending, worker, ue_cursor, holding

Nf == INSTANCE KgNotify WITH SLOTS <- FallbackSlots, MaxNotify <- FallbackMax,
                             write_index <- index

(* KgNotify: kg_rl_allow() lets through at most the burst and one alert per *)
(* interval, in any stretch of time.                                        *)
RateBounded == Nf!RateBounded

(* What the bucket could still let through and what it has let through add up *)
(* to no more than the burst and one for each interval.                       *)
LimiterInv ==
    /\ rl_tokens \in 0 .. BURST /\ owed \in 0 .. BURST
    /\ limited \in Nat /\ ticks \in Nat
    /\ limited + Nf!Refilled <= BURST + ticks

(* In no stretch of time does kg_rl_allow() let more alerts below CRITICAL    *)
(* through than the burst and one for each interval.                          *)
THEOREM RateIsBounded == Nf!Spec => []RateBounded
<1> USE LimiterAssumption
<1> USE DEF LimiterInv, Nf!Refilled, Nf!MinOf
<1>1. Nf!Init => LimiterInv
  BY SMTT(30) DEF Nf!Init
<1>2. ASSUME LimiterInv, [Nf!Next]_Nf!vars PROVE LimiterInv'
  <2>1. ASSUME NEW l \in Nf!Level, Nf!kg_rl_allow(l), UNCHANGED ticks PROVE LimiterInv'
    BY SMTT(30), <1>2, <2>1 DEF Nf!kg_rl_allow
  <2>2. ASSUME NEW l \in Nf!Level,
               Nf!NotifyRefused(l) \/ Nf!NotifyHmacFails(l) \/ Nf!NotifyPublish(l)
        PROVE  LimiterInv'
    <3>1. CASE Nf!NotifyRefused(l)
      BY SMTT(30), <1>2, <3>1 DEF Nf!NotifyRefused
    <3>2. CASE Nf!NotifyHmacFails(l) \/ Nf!NotifyPublish(l)
      BY SMTT(30), <2>1, <3>2 DEF Nf!NotifyHmacFails, Nf!NotifyPublish
    <3>3. QED
      BY SMTT(30), <2>2, <3>1, <3>2
  <2>3. CASE Nf!Tick \/ Nf!NewWindow
    BY <1>2, <2>3 DEF Nf!Tick, Nf!NewWindow
  <2>4. CASE UNCHANGED <<rl_tokens, owed, limited, ticks>>
    BY <1>2, <2>4
  <2>5. QED
    BY ZenonT(60), <1>2, <2>2, <2>3, <2>4 DEF Nf!Next, Nf!vars, Nf!NotifyQueue,
       Nf!WorkerStep, Nf!WorkStart, Nf!UeventScan, Nf!UeventEmit, Nf!SetDevice,
       Nf!ClearDevice, Nf!CancelWork, Nf!limitVars
<1>3. LimiterInv => RateBounded
  BY DEF RateBounded, Nf!RateBounded
<1>4. QED
  BY <1>1, <1>2, <1>3, PTL DEF Nf!Spec
=============================================================================

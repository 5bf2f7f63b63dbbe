----------------------------- MODULE KgHwProofs -----------------------------
(* Proofs about the PCI audit, for any number of addresses, identities and *)
(* table entries.                                                          *)
EXTENDS KgHw, TLAPS

-----------------------------------------------------------------------------
(* The inductive invariant. *)

Device == {d \in [id : Id \cup {None}, bme : BOOLEAN] : d.bme => d.id \in Id}
Kind == {"hidden", "mismatch", "missing"}
Suspect == [slot : Slot, kind : Kind, seen : 1 .. 2, reported : BOOLEAN]
DmaRecord == [slot : Slot, id : Id, alerted : BOOLEAN, cleared : BOOLEAN]

HwType ==
    /\ ConstantsOK
    /\ hw \in [Slot -> Device]
    /\ cold \in [Slot -> BOOLEAN]
    /\ os \in [Slot -> Id \cup {None}]
    /\ ecam \in BOOLEAN /\ enforcing \in BOOLEAN
    /\ phase \in {"scan", "base", "up", "cancel", "gone", "off"}
    /\ stop \in BOOLEAN /\ pending \in BOOLEAN /\ kicker \in BOOLEAN /\ late \in BOOLEAN
    /\ pc \in {"idle", "scan", "hw2os", "os2hw", "settle", "audit", "prune"}
    /\ at \in Slot
    /\ cur \in [Slot -> Device]
    /\ crowded \in BOOLEAN
    /\ quiet \in 0 .. 3
    /\ susp \subseteq Suspect
    /\ recs \subseteq DmaRecord

(* Before kg_hw_init() is through there is no pass and nothing is recorded;  *)
(* after kg_hw_exit() there is no pass either, except by a late kick; and    *)
(* every loop over the slots starts at the first.                            *)
HwLife ==
    /\ phase \in {"scan", "base", "off"} =>
          /\ pc = "idle" /\ ~pending /\ ~kicker
          /\ quiet = 0 /\ susp = {} /\ touched = {} /\ recs = {} /\ atLoad = {}
    /\ phase = "gone" /\ ~late => pc = "idle" /\ ~pending /\ ~kicker
    /\ phase # "scan" /\ pc \in {"idle", "settle", "prune"} => at = 1
    /\ ~ecam => pc \notin {"hw2os", "os2hw", "settle"}

(* A record is about a device outside the baseline, and with ECAM the        *)
(* baseline has everything the OS knew at load.                              *)
HwLoad ==
    /\ ecam => atLoad \subseteq base
    /\ \A r \in recs : <<r.slot, r.id>> \notin base

(* The slots the pass under way has read, and those it has audited. *)
Scanned(s) == \/ pc = "scan" /\ s < at
              \/ pc \in {"hw2os", "os2hw", "settle", "audit", "prune"}
Audited(s) == (pc = "audit" /\ s < at) \/ pc = "prune"

(* What MastersDealtWith says of a slot. *)
Announced(s) ==
    /\ ~enforcing
    /\ crowded \/ \E r \in recs : r.slot = s /\ r.id = hw[s].id /\ r.alerted

(* Once a pass has ended since anything changed, what the pass under way has *)
(* read of an unauthorised master is what is there; once it has audited the  *)
(* slot, and ever after the next pass, the master is dealt with.             *)
HwMasters ==
    \A s \in Slot : Unauthorised(s) =>
        /\ quiet >= 1 /\ Scanned(s) => cur[s].id = hw[s].id /\ cur[s].bme
        /\ quiet >= 1 /\ Audited(s) => Announced(s)
        /\ quiet >= 2 => Announced(s)

(* The kind under which kg_cross_check() notes a discrepancy, and the slots  *)
(* it has compared.                                                          *)
KindOf(s) == IF os[s] = None THEN "hidden"
             ELSE IF hw[s].id = None THEN "missing" ELSE "mismatch"
Checked(s) == \/ pc = "hw2os" /\ s < at /\ KindOf(s) # "missing"
              \/ pc = "os2hw" /\ (KindOf(s) = "missing" => s < at)
              \/ pc = "settle"
Compared(s) == Checked(s) \/ pc \in {"audit", "prune"}

Suspected(s) == crowded \/ Noted(s, KindOf(s)) # {}
Reported(s) == crowded \/ \E e \in Noted(s, KindOf(s)) : e.reported

(* A discrepancy that stays is read right by every pass that started after   *)
(* it appeared, noted by the first such pass and reported by the second.     *)
HwSuspects ==
    ecam => \A s \in Slot : Discrepancy(s) =>
        /\ quiet >= 1 /\ Scanned(s) => cur[s].id = hw[s].id
        /\ quiet >= 1 /\ Checked(s) => <<s, KindOf(s)>> \in touched
        /\ quiet >= 1 /\ Compared(s) => Suspected(s)
        /\ quiet >= 2 => Suspected(s)
        /\ quiet >= 2 /\ Compared(s) => Reported(s)
        /\ quiet >= 3 => Reported(s)

(* The suspects are those of the last pass and of the one under way, and a   *)
(* pass notes a slot only when it gets there.                                *)
HwTransient ==
    /\ \A e \in susp : <<e.slot, e.kind>> \in lastPass \cup touched
    /\ \A s \in Slot, k \in Kind : <<s, k>> \in touched =>
          \/ pc = "hw2os" /\ s < at /\ k # "missing"
          \/ pc = "os2hw" /\ (k = "missing" => s < at)
          \/ pc = "settle"

HwInv == HwType /\ HwLife /\ HwLoad /\ HwMasters /\ HwSuspects /\ HwTransient

-----------------------------------------------------------------------------
(* Types, and the life of the work item. *)

(* A device that is there has an identity, and setting or clearing its      *)
(* bus-master bit leaves it that device.                                    *)
LEMMA DeviceFacts ==
    ASSUME NEW d \in Device
    PROVE  /\ d.bme \in BOOLEAN /\ d.id \in Id \cup {None}
           /\ d.bme => d.id \in Id
           /\ [d EXCEPT !.bme = FALSE] \in Device
           /\ d.id # None => [d EXCEPT !.bme = TRUE] \in Device
<1>1. d \in [id : Id \cup {None}, bme : BOOLEAN] /\ (d.bme => d.id \in Id)
  BY DEF Device
<1>2. d.bme \in BOOLEAN /\ d.id \in Id \cup {None}
  BY <1>1
<1>3. /\ [d EXCEPT !.bme = FALSE] \in [id : Id \cup {None}, bme : BOOLEAN]
      /\ [d EXCEPT !.bme = TRUE] \in [id : Id \cup {None}, bme : BOOLEAN]
      /\ [d EXCEPT !.bme = FALSE].bme = FALSE
      /\ [d EXCEPT !.bme = TRUE].id = d.id
  BY ZenonT(60), <1>1
<1>4. QED
  BY ZenonT(60), <1>1, <1>2, <1>3 DEF Device

(* An empty slot is an empty device. *)
LEMMA AbsentType == Absent \in Device /\ ~Absent.bme /\ Absent.id = None
BY DEF Device, Absent

(* What a scan reads of a slot is a device or an empty slot. *)
LEMMA ScanReadType ==
    ASSUME HwType, NEW s \in Slot, ScanRead(s)
    PROVE  cur' \in [Slot -> Device]
<1>1. Answers(s) \in Device
  BY AbsentType DEF HwType, Answers
<1>2. Answers(s).bme \in BOOLEAN /\ Absent \in Device
  BY ZenonT(60), <1>1, DeviceFacts, AbsentType
<1>3. os[s] # None => [id |-> os[s], bme |-> Answers(s).bme] \in Device
  BY <1>2 DEF HwType, Device
<1>4. QED
  BY <1>1, <1>2, <1>3 DEF ScanRead, HwType

(* A loop over the slots stays on them. *)
LEMMA VisitType ==
    ASSUME HwType, NEW s \in Slot, NEW from, NEW to, Visit(s, from, to)
    PROVE  at' \in Slot /\ pc' \in {pc, to}
BY DEF HwType, ConstantsOK, Visit, Slot

(* The second sighting of a suspect, as an entry of kg_susp. *)
LEMMA SeenAgain ==
    ASSUME NEW e \in Suspect
    PROVE  LET f == [e EXCEPT !.seen = 2, !.reported = @ \/ TRUE]
           IN  f \in Suspect /\ f.slot = e.slot /\ f.kind = e.kind /\ f.reported
<1>1. (e.reported \/ TRUE) = TRUE
  OBVIOUS
<1>2. 2 \in 1 .. 2
  OBVIOUS
<1>3. [e EXCEPT !.seen = 2, !.reported = TRUE] \in Suspect
  BY ZenonT(60), <1>2 DEF Suspect
<1>4. LET f == [e EXCEPT !.seen = 2, !.reported = TRUE]
      IN  f.slot = e.slot /\ f.kind = e.kind /\ f.reported
  BY DEF Suspect
<1>5. QED
  BY ZenonT(60), <1>1, <1>3, <1>4

(* kg_note_suspect() keeps the type of its table. *)
LEMMA NoteType ==
    ASSUME HwType, NEW s \in Slot, NEW k \in Kind, kg_note_suspect(s, k)
    PROVE  susp' \subseteq Suspect /\ crowded' \in BOOLEAN /\ (crowded => crowded')
<1>1. \A e \in Noted(s, k) : [e EXCEPT !.seen = 2, !.reported = @ \/ TRUE] \in Suspect
  BY SeenAgain DEF HwType, Noted
<1>2. [slot |-> s, kind |-> k, seen |-> 1, reported |-> FALSE] \in Suspect
  BY DEF Suspect
<1>3. susp' \subseteq Suspect
  <2>1. CASE susp' = (susp \ Noted(s, k)) \cup
                     {[e EXCEPT !.seen = 2, !.reported = @ \/ TRUE] : e \in Noted(s, k)}
    BY ZenonT(60), <1>1, <2>1 DEF HwType
  <2>2. CASE susp' = susp \cup {[slot |-> s, kind |-> k, seen |-> 1, reported |-> FALSE]}
    BY ZenonT(60), <1>2, <2>2 DEF HwType
  <2>3. CASE susp' = susp
    BY <2>3 DEF HwType
  <2>4. QED
    BY ZenonT(60), <2>1, <2>2, <2>3 DEF kg_note_suspect, Note
<1>4. crowded' \in BOOLEAN /\ (crowded => crowded')
  BY ZenonT(60) DEF kg_note_suspect, Note, HwType
<1>5. QED
  BY <1>3, <1>4

(* Every step of the PCI audit and of the machine around it keeps the types. *)
LEMMA HwTypeStep ==
    ASSUME HwType, Next
    PROVE  HwType'
<1> USE DEF machine, config, life, scan, tables, history
<1>1. \A s \in Slot : hw[s] \in Device /\ Absent \in Device
  BY AbsentType DEF HwType
<1>2. ASSUME NEW s \in Slot, Plug(s) \/ Unplug(s) PROVE HwType'
  <2>1. \A i \in Id : [id |-> i, bme |-> FALSE] \in Device
    BY DEF Device
  <2>2. hw' \in [Slot -> Device] /\ cold' \in [Slot -> BOOLEAN]
    BY ZenonT(60), <1>1, <1>2, <2>1 DEF Plug, Unplug, HwType
  <2>3. QED
    BY <1>2, <2>2 DEF Plug, Unplug, Change, HwType
<1>3. ASSUME NEW s \in Slot, Enumerate(s) \/ Remove(s) PROVE HwType'
  <2>1. os' \in [Slot -> Id \cup {None}]
    <3>1. hw[s].id \in Id \cup {None}
      BY ZenonT(60), <1>1, DeviceFacts
    <3>2. QED
      BY <1>3, <3>1 DEF Enumerate, Remove, HwType
  <2>2. pending' \in BOOLEAN
    BY ZenonT(60), <1>3 DEF Enumerate, Remove, kg_pci_notify, HwType
  <2>3. QED
    BY <1>3, <2>1, <2>2 DEF Enumerate, Remove, Change, HwType
<1>4. ASSUME NEW s \in Slot, BusMaster(s) PROVE HwType'
  <2>1. hw' \in [Slot -> Device]
    <3>1. hw[s].id # None
      BY <1>4 DEF BusMaster, Answers, Absent
    <3>2. [hw[s] EXCEPT !.bme = TRUE] \in Device
      BY ZenonT(60), <1>1, <3>1, DeviceFacts
    <3>3. QED
      BY <1>4, <3>2 DEF BusMaster, HwType
  <2>2. pending' \in BOOLEAN
    BY ZenonT(60), <1>4 DEF BusMaster, kg_pci_notify, HwType
  <2>3. QED
    BY <1>4, <2>1, <2>2 DEF BusMaster, Change, HwType
<1>5. ASSUME NEW s \in Slot, Power(s) PROVE HwType'
  <2>1. cold' \in [Slot -> BOOLEAN]
    BY <1>5 DEF Power, HwType
  <2>2. QED
    BY <1>5, <2>1 DEF Power, Change, HwType
<1>6. ASSUME NEW s \in Slot, InitScan(s) PROVE HwType'
  <2>1. cur' \in [Slot -> Device]
    BY <1>6, ScanReadType DEF InitScan
  <2>2. at' \in Slot /\ phase' \in {"scan", "base"}
    BY <1>6 DEF InitScan, Slot, HwType, ConstantsOK
  <2>3. QED
    BY <1>6, <2>1, <2>2 DEF InitScan, HwType
<1>7. CASE InitBaseline
  <2>1. cur' \in [Slot -> Device]
    BY <1>1, <1>7 DEF InitBaseline
  <2>2. QED
    BY ZenonT(60), <1>7, <2>1 DEF InitBaseline, HwType
<1>8. CASE InitFails \/ WorkBegin \/ KickQueue \/ ExitStop \/ ExitCancel
  <2>1. CASE InitFails
    BY ZenonT(60), <2>1 DEF InitFails, HwType
  <2>2. CASE WorkBegin
    BY ZenonT(60), <2>2 DEF WorkBegin, HwType
  <2>3. CASE KickQueue
    BY ZenonT(60), <2>3 DEF KickQueue, HwType
  <2>4. CASE ExitStop
    BY ZenonT(60), <2>4 DEF ExitStop, HwType
  <2>5. CASE ExitCancel
    BY ZenonT(60), <2>5 DEF ExitCancel, HwType
  <2>6. QED
    BY <1>8, <2>1, <2>2, <2>3, <2>4, <2>5
<1>9. ASSUME NEW s \in Slot, ScanSlot(s) PROVE HwType'
  <2>1. cur' \in [Slot -> Device]
    BY <1>9, ScanReadType DEF ScanSlot
  <2>2. at' \in Slot /\ pc' \in {pc, "hw2os", "audit"}
    BY <1>9, VisitType DEF ScanSlot
  <2>3. QED
    BY <1>9, <2>1, <2>2 DEF ScanSlot, HwType
<1>10. ASSUME NEW s \in Slot, CheckHw(s) \/ CheckOs(s) PROVE HwType'
  <2>1. at' \in Slot /\ pc' \in {pc, "os2hw", "settle"}
    BY <1>10, VisitType DEF CheckHw, CheckOs
  <2>2. susp' \subseteq Suspect /\ crowded' \in BOOLEAN
    <3>1. CASE UNCHANGED <<susp, touched, crowded>>
      BY <3>1 DEF HwType
    <3>2. CASE \E k \in Kind : kg_note_suspect(s, k)
      BY <3>2, NoteType
    <3>3. QED
      BY <1>10, <3>1, <3>2 DEF CheckHw, CheckOs, Kind
  <2>3. QED
    BY <1>10, <2>1, <2>2 DEF CheckHw, CheckOs, HwType
<1>11. CASE CheckEnd
  BY <1>11 DEF CheckEnd, HwType
<1>12. ASSUME NEW s \in Slot, AuditSlot(s) PROVE HwType'
  <2>1. at' \in Slot /\ pc' \in {pc, "prune"}
    BY ZenonT(60), <1>12, VisitType DEF AuditSlot
  <2>2. hw' \in [Slot -> Device]
    <3>1. [hw[s] EXCEPT !.bme = FALSE] \in Device
      BY ZenonT(60), <1>1, DeviceFacts
    <3>2. QED
      BY ZenonT(60), <1>12, <3>1 DEF AuditSlot, Cleared, HwType
  <2>3. recs' \subseteq DmaRecord /\ crowded' \in BOOLEAN
    <3>1. CASE UNCHANGED <<hw, recs, crowded>>
      BY SMTT(30), <3>1 DEF HwType
    <3>2. CASE ~UNCHANGED <<hw, recs, crowded>>
      <4> DEFINE got == kg_dma_rec_get(s, cur[s].id)
                 b == enforcing /\ (os[s] # None \/ ecam)
                 New(r) == [r EXCEPT !.alerted = TRUE, !.cleared = @ \/ b]
      <4>1. /\ cur[s].bme
            /\ recs' = (recs \ got) \cup {New(r) : r \in got}
            /\ crowded' = (crowded \/ got = {})
        BY ZenonT(60), <1>12, <3>2 DEF AuditSlot
      <4>2. cur[s].id \in Id
        BY ZenonT(60), <4>1, DeviceFacts DEF HwType
      <4>3. got \subseteq DmaRecord
        <5>1. [slot |-> s, id |-> cur[s].id, alerted |-> FALSE, cleared |-> FALSE] \in DmaRecord
          BY <4>2 DEF DmaRecord
        <5>2. QED
          BY ZenonT(60), <5>1 DEF kg_dma_rec_get, HwType
      <4>4. \A r \in DmaRecord : New(r) \in DmaRecord
        BY ZenonT(60) DEF DmaRecord
      <4>5. recs' \subseteq DmaRecord
        <5> HIDE DEF got, New
        <5>1. QED
          BY <4>1, <4>3, <4>4 DEF HwType
      <4>6. QED
        BY ZenonT(60), <4>1, <4>5 DEF HwType
    <3>3. QED
      BY <3>1, <3>2
  <2>4. QED
    BY ZenonT(60), <1>12, <2>1, <2>2, <2>3 DEF AuditSlot, HwType
<1>13. CASE AuditEnd
  <2>1. cur' \in [Slot -> Device]
    BY <1>1, <1>13 DEF AuditEnd
  <2>2. quiet' \in 0 .. 3
    BY <1>13 DEF AuditEnd, HwType
  <2>3. pending' \in BOOLEAN /\ recs' \subseteq DmaRecord
    BY <1>13 DEF AuditEnd, HwType
  <2>4. QED
    BY <1>13, <2>1, <2>2, <2>3 DEF AuditEnd, HwType
<1>14. QED
  BY ZenonT(60), <1>2, <1>3, <1>4, <1>5, <1>6, <1>7, <1>8, <1>9, <1>10, <1>11, <1>12, <1>13
     DEF Next, Machine, Pass

(* A module that has just been loaded satisfies the invariant. *)
LEMMA HwInit == ConstantsOK /\ Init => HwInv
<1> SUFFICES ASSUME ConstantsOK, Init PROVE HwInv
  OBVIOUS
<1>1. {Absent} \cup [id : Id, bme : BOOLEAN] \subseteq Device
  BY AbsentType DEF Device
<1>2. hw \in [Slot -> Device]
  BY <1>1 DEF Init
<1>3. os \in [Slot -> Id \cup {None}]
  BY ZenonT(60), <1>2, DeviceFacts DEF Init
<1>4. cold \in [Slot -> BOOLEAN] /\ cur \in [Slot -> Device]
  BY AbsentType DEF Init
<1>5. at \in Slot /\ at = 1 /\ quiet = 0 /\ quiet \in 0 .. 3
  BY DEF Init, Slot, ConstantsOK
<1>6. HwType
  BY ZenonT(60), <1>2, <1>3, <1>4, <1>5 DEF Init, HwType
<1>7. HwLife /\ HwLoad /\ HwTransient
  BY ZenonT(60), <1>5 DEF Init, HwLife, HwLoad, HwTransient
<1>8. HwMasters /\ HwSuspects
  BY <1>5 DEF HwMasters, HwSuspects
<1>9. QED
  BY <1>6, <1>7, <1>8 DEF HwInv

(* No step before the baseline queues work or records anything, and none    *)
(* after kg_hw_exit() does, but for a kick that was under way.              *)
LEMMA HwLifeStep ==
    ASSUME HwType, HwLife, Next
    PROVE  HwLife'
<1> USE DEF machine, config, life, scan, tables, history
<1>1. CASE Machine
  <2>1. /\ phase \in {"scan", "base", "up"} /\ quiet' = 0
        /\ UNCHANGED <<phase, kicker, ecam, pc, at, susp, touched, recs, atLoad>>
    BY ZenonT(60), <1>1
       DEF Machine, Plug, Enumerate, BusMaster, Unplug, Remove, Power,
           Change
  <2>2. pending' => pending \/ phase = "up"
    BY ZenonT(60), <1>1
       DEF Machine, Plug, Enumerate, BusMaster, Unplug, Remove, Power,
           kg_pci_notify
  <2>3. QED
    BY <2>1, <2>2 DEF HwLife
<1>2. ASSUME NEW s \in Slot, InitScan(s) PROVE HwLife'
  BY <1>2 DEF InitScan, HwLife, HwType
<1>3. CASE InitBaseline \/ InitFails
  BY <1>3 DEF InitBaseline, InitFails, HwLife
<1>4. CASE WorkBegin
  BY ZenonT(60), <1>4 DEF WorkBegin, HwLife
<1>5. CASE KickQueue \/ ExitStop \/ ExitCancel
  BY <1>5 DEF KickQueue, ExitStop, ExitCancel, HwLife, HwType
<1>6. ASSUME NEW s \in Slot, ScanSlot(s) PROVE HwLife'
  BY ZenonT(60), <1>6 DEF ScanSlot, Visit, HwLife, HwType
<1>7. ASSUME NEW s \in Slot, CheckHw(s) \/ CheckOs(s) PROVE HwLife'
  <2>1. pc \in {"hw2os", "os2hw"} /\ pc' \in {"hw2os", "os2hw", "settle"}
        /\ (pc' = "settle" => at' = 1)
    BY ZenonT(60), <1>7 DEF CheckHw, CheckOs, Visit
  <2>2. UNCHANGED <<phase, late, pending, kicker, ecam>>
    BY ZenonT(60), <1>7 DEF CheckHw, CheckOs
  <2>3. QED
    BY ZenonT(60), <2>1, <2>2 DEF HwLife
<1>8. CASE CheckEnd
  BY ZenonT(60), <1>8 DEF CheckEnd, HwLife
<1>9. ASSUME NEW s \in Slot, AuditSlot(s) PROVE HwLife'
  <2>1. pc = "audit" /\ pc' \in {"audit", "prune"} /\ (pc' = "prune" => at' = 1)
    BY ZenonT(60), <1>9 DEF AuditSlot, Visit
  <2>2. UNCHANGED <<phase, late, pending, kicker, ecam>>
    BY ZenonT(60), <1>9 DEF AuditSlot
  <2>3. QED
    BY ZenonT(60), <2>1, <2>2 DEF HwLife
<1>10. CASE AuditEnd
  BY ZenonT(60), <1>10 DEF AuditEnd, HwLife
<1>11. QED
  BY ZenonT(60), <1>1, <1>2, <1>3, <1>4, <1>5, <1>6, <1>7, <1>8, <1>9, <1>10
     DEF Next, Pass

(* What the audit is after in a slot: an unauthorised master. *)
Finds(s) == /\ cur[s].bme /\ cur[s].id \notin Bridge
            /\ ~kg_dma_authorized(s, cur[s].id)

(* What a turn of the audit loop does to the records: nothing, or the slot  *)
(* gets an announced record if there is room, and the others stay.          *)
LEMMA AuditRecords ==
    ASSUME HwType, NEW s \in Slot, AuditSlot(s)
    PROVE  IF Finds(s)
           THEN /\ hw' = Cleared(s)
                /\ crowded => crowded'
                /\ crowded' \/ \E r \in recs' : r.slot = s /\ r.id = cur[s].id /\ r.alerted
                /\ \A r \in recs' : r \in recs \/ (r.slot = s /\ r.id = cur[s].id)
                /\ \A r \in recs : r \in recs' \/ (r.slot = s /\ r.id = cur[s].id)
           ELSE UNCHANGED <<hw, recs, crowded>>
<1>0. ~Finds(s) => UNCHANGED <<hw, recs, crowded>>
  BY ZenonT(60) DEF AuditSlot, Finds
<1> SUFFICES ASSUME Finds(s)
             PROVE  /\ hw' = Cleared(s)
                    /\ crowded => crowded'
                    /\ crowded' \/ \E r \in recs' : r.slot = s /\ r.id = cur[s].id /\ r.alerted
                    /\ \A r \in recs' : r \in recs \/ (r.slot = s /\ r.id = cur[s].id)
                    /\ \A r \in recs : r \in recs' \/ (r.slot = s /\ r.id = cur[s].id)
  BY <1>0
<1> DEFINE got == kg_dma_rec_get(s, cur[s].id)
           b == enforcing /\ (os[s] # None \/ ecam)
           New(r) == [r EXCEPT !.alerted = TRUE, !.cleared = @ \/ b]
<1>1. /\ hw' = Cleared(s)
      /\ crowded' = (crowded \/ got = {})
      /\ recs' = (recs \ got) \cup {New(r) : r \in got}
  BY ZenonT(60) DEF AuditSlot, Finds
<1>2. cur[s].id \in Id
  BY ZenonT(60), DeviceFacts DEF HwType, Finds
<1>3. \A r \in got : r \in DmaRecord /\ r.slot = s /\ r.id = cur[s].id
  <2> DEFINE first == [slot |-> s, id |-> cur[s].id, alerted |-> FALSE, cleared |-> FALSE]
  <2>1. first \in DmaRecord /\ first.slot = s /\ first.id = cur[s].id
    BY <1>2 DEF DmaRecord
  <2>2. got \in {{r \in recs : r.slot = s /\ r.id = cur[s].id}, {}, {first}}
    BY ZenonT(60) DEF kg_dma_rec_get
  <2> HIDE DEF first, got
  <2>3. QED
    BY ZenonT(60), <2>1, <2>2 DEF HwType
<1>4. \A r \in DmaRecord : New(r).slot = r.slot /\ New(r).id = r.id /\ New(r).alerted
  BY DEF DmaRecord
<1> HIDE DEF got, New
<1>5. /\ crowded => crowded'
      /\ \A r \in recs' : r \in recs \/ (r.slot = s /\ r.id = cur[s].id)
      /\ \A r \in recs : r \in recs' \/ (r.slot = s /\ r.id = cur[s].id)
  <2>1. crowded => crowded'
    BY ZenonT(60), <1>1
  <2>2. ASSUME NEW r \in recs', r \notin recs PROVE r.slot = s /\ r.id = cur[s].id
    <3>1. PICK q \in got : r = New(q)
      BY <1>1, <2>2
    <3>2. QED
      BY <1>3, <1>4, <3>1
  <2>3. \A r \in recs : r \in recs' \/ r \in got
    BY <1>1
  <2>4. QED
    BY SMTT(30), <1>3, <2>1, <2>2, <2>3
<1>6. ASSUME got # {}
      PROVE  \E r \in recs' : r.slot = s /\ r.id = cur[s].id /\ r.alerted
  <2>1. PICK r \in got : TRUE
    BY <1>6
  <2>2. New(r) \in recs' /\ New(r).slot = s /\ New(r).id = cur[s].id /\ New(r).alerted
    BY <1>1, <1>3, <1>4
  <2>3. QED
    BY <2>2
<1>7. QED
  BY ZenonT(60), <1>1, <1>5, <1>6

(* Records are only ever made of devices outside the baseline. *)
LEMMA HwLoadStep ==
    ASSUME HwType, HwLife, HwLoad, Next
    PROVE  HwLoad'
<1> USE DEF machine, config, life, scan, tables, history
<1>1. CASE UNCHANGED <<ecam, atLoad, base>> /\ recs' \subseteq recs
  BY <1>1 DEF HwLoad
<1>2. CASE InitBaseline
  BY ZenonT(60), <1>2 DEF InitBaseline, HwLoad, HwLife
<1>3. ASSUME NEW s \in Slot, AuditSlot(s) PROVE HwLoad'
  <2>1. UNCHANGED <<ecam, atLoad, base>>
    BY ZenonT(60), <1>3 DEF AuditSlot
  <2>2. \A r \in recs' : <<r.slot, r.id>> \notin base
    BY ZenonT(60), <1>3, AuditRecords DEF HwLoad, kg_dma_authorized, Finds
  <2>3. QED
    BY <2>1, <2>2 DEF HwLoad
<1>4. QED
  BY ZenonT(60), <1>1, <1>2, <1>3
     DEF Next, Pass, Machine, Plug, Enumerate, BusMaster, Unplug, Remove,
         Power, Change, InitScan, InitFails, WorkBegin, KickQueue, ExitStop,
         ExitCancel, ScanSlot, CheckHw, CheckOs, CheckEnd, AuditEnd

(* The audit takes the bus-master bit and leaves the device. *)
LEMMA AuditKeepsIds ==
    ASSUME HwType, NEW t \in Slot, AuditSlot(t)
    PROVE  \A s \in Slot : hw'[s] = hw[s] \/ (hw'[s].id = hw[s].id /\ ~hw'[s].bme)
<1>1. hw[t] \in Device
  BY DEF HwType
<1>2. [hw[t] EXCEPT !.bme = FALSE].id = hw[t].id /\ ~[hw[t] EXCEPT !.bme = FALSE].bme
  BY <1>1 DEF Device
<1>3. QED
  BY ZenonT(60), <1>2 DEF AuditSlot, Cleared, HwType

(* An unauthorised master is there, under an identity the records can have. *)
LEMMA UnauthorisedFacts ==
    ASSUME HwType, NEW s \in Slot, Unauthorised(s)
    PROVE  /\ ~cold[s] /\ Answers(s) = hw[s] /\ hw[s].bme
           /\ hw[s].id \in Id /\ hw[s].id # None
           /\ ecam \/ os[s] # None
<1>1. ~cold[s] /\ Answers(s) = hw[s] /\ hw[s].bme
  BY AbsentType DEF Unauthorised, Answers
<1>2. hw[s].id \in Id
  BY ZenonT(60), <1>1, DeviceFacts DEF HwType
<1>3. QED
  BY SMTT(30), <1>1, <1>2 DEF Unauthorised, HwType, ConstantsOK

(* Every pass that starts after the last change reads the unauthorised      *)
(* masters right, and deals with them when its audit comes to them.         *)
LEMMA HwMastersStep ==
    ASSUME HwType, HwLife, HwMasters, Next
    PROVE  HwMasters'
<1> USE DEF machine, config, life, scan, tables, history
<1>1. CASE quiet' = 0
  BY <1>1 DEF HwMasters
<1>2. ASSUME UNCHANGED <<hw, cold, os, ecam, enforcing, base, recs, quiet>>,
             phase' = "up" => phase = "up", crowded => crowded',
             \A s \in Slot : /\ Scanned(s)' => Scanned(s) /\ cur'[s] = cur[s]
                             /\ Audited(s)' => Audited(s)
      PROVE  HwMasters'
  <2>1. \A s \in Slot : Unauthorised(s)' => Unauthorised(s)
    BY ZenonT(60), <1>2 DEF Unauthorised, Answers, kg_dma_authorized
  <2>2. \A s \in Slot : Announced(s) => Announced(s)'
    BY ZenonT(60), <1>2 DEF Announced
  <2>3. QED
    BY ZenonT(60), <1>2, <2>1, <2>2 DEF HwMasters
<1>3. CASE Machine
  BY ZenonT(60), <1>1, <1>3
     DEF Machine, Plug, Enumerate, BusMaster, Unplug, Remove, Power,
         Change
<1>4. CASE (\E s \in Slot : InitScan(s)) \/ InitBaseline \/ InitFails
  BY ZenonT(60), <1>1, <1>4 DEF InitScan, InitBaseline, InitFails, HwLife
<1>5. CASE KickQueue \/ ExitStop \/ ExitCancel
  <2>1. UNCHANGED <<hw, cold, os, ecam, enforcing, base, recs, quiet, crowded, pc, at, cur>>
    BY ZenonT(60), <1>5 DEF KickQueue, ExitStop, ExitCancel
  <2>2. phase' = "up" => phase = "up"
    BY ZenonT(60), <1>5 DEF KickQueue, ExitStop, ExitCancel
  <2>3. QED
    BY ZenonT(60), <1>2, <2>1, <2>2 DEF Scanned, Audited
<1>6. CASE WorkBegin
  <2>1. /\ UNCHANGED <<hw, cold, os, ecam, enforcing, base, recs, quiet, crowded, cur, phase>>
        /\ pc' = "scan" /\ at' = 1
    BY ZenonT(60), <1>6 DEF WorkBegin, HwLife
  <2>2. \A s \in Slot : ~Scanned(s)' /\ ~Audited(s)'
    BY <2>1 DEF Scanned, Audited, Slot
  <2>3. QED
    BY ZenonT(60), <1>2, <2>1, <2>2
<1>7. ASSUME NEW t \in Slot, ScanSlot(t) PROVE HwMasters'
  <2>1. /\ UNCHANGED <<hw, cold, os, ecam, enforcing, base, recs, quiet, crowded, phase>>
        /\ pc = "scan" /\ at = t
    BY ZenonT(60), <1>7 DEF ScanSlot, Visit
  <2>2. \A s \in Slot : Unauthorised(s)' => Unauthorised(s)
    BY ZenonT(60), <2>1 DEF Unauthorised, Answers, kg_dma_authorized
  <2>3. \A s \in Slot : Announced(s) => Announced(s)'
    BY ZenonT(60), <2>1 DEF Announced
  <2>4. \A s \in Slot : ~Audited(s)' /\ (Scanned(s)' => s = t \/ Scanned(s))
    BY SMTT(30), <1>7, <2>1 DEF ScanSlot, Visit, Scanned, Audited, Slot
  <2>5. \A s \in Slot : s # t => cur'[s] = cur[s]
    BY SMTT(30), <1>7 DEF ScanSlot, ScanRead, HwType
  <2>6. Unauthorised(t) => cur'[t].id = hw[t].id /\ cur'[t].bme
    <3> SUFFICES ASSUME Unauthorised(t) PROVE cur'[t].id = hw[t].id /\ cur'[t].bme
      BY SMTT(30)
    <3>1. Answers(t) = hw[t] /\ hw[t].bme /\ hw[t].id # None /\ (ecam \/ os[t] = hw[t].id)
      BY SMTT(30), UnauthorisedFacts DEF Unauthorised
    <3>2. cur'[t] = IF ecam THEN hw[t] ELSE [id |-> os[t], bme |-> hw[t].bme]
      BY ZenonT(60), <1>7, <3>1 DEF ScanSlot, ScanRead, HwType
    <3>3. QED
      BY SMTT(30), <3>1, <3>2
  <2>7. QED
    BY ZenonT(60), <2>1, <2>2, <2>3, <2>4, <2>5, <2>6 DEF HwMasters
<1>8. ASSUME NEW t \in Slot, CheckHw(t) \/ CheckOs(t) PROVE HwMasters'
  <2>1. UNCHANGED <<hw, cold, os, ecam, enforcing, base, recs, quiet, cur, phase>>
    BY ZenonT(60), <1>8 DEF CheckHw, CheckOs
  <2>2. crowded => crowded'
    BY ZenonT(60), <1>8 DEF CheckHw, CheckOs, kg_note_suspect, Note
  <2>3. pc \in {"hw2os", "os2hw"} /\ pc' \in {"hw2os", "os2hw", "settle"}
    BY ZenonT(60), <1>8 DEF CheckHw, CheckOs, Visit
  <2>4. QED
    BY ZenonT(60), <1>2, <2>1, <2>2, <2>3 DEF Scanned, Audited
<1>9. CASE CheckEnd
  <2>1. /\ UNCHANGED <<hw, cold, os, ecam, enforcing, base, recs, quiet, crowded, cur, phase>>
        /\ pc = "settle" /\ pc' = "audit" /\ at' = at
    BY ZenonT(60), <1>9 DEF CheckEnd
  <2>2. \/ phase' # "up"
        \/ \A s \in Slot : Scanned(s) /\ ~Audited(s)'
    BY <2>1 DEF Scanned, Audited, HwLife, Slot
  <2>3. QED
    BY ZenonT(60), <1>2, <2>1, <2>2 DEF HwMasters, Unauthorised
<1>10. ASSUME NEW t \in Slot, AuditSlot(t) PROVE HwMasters'
  <2>1. UNCHANGED <<cold, os, ecam, enforcing, base, quiet, cur, phase>>
    BY ZenonT(60), <1>10 DEF AuditSlot
  <2>2. /\ pc = "audit" /\ at = t
        /\ \A s \in Slot : Scanned(s) /\ (Audited(s)' => s = t \/ Audited(s))
    <3>1. Visit(t, "audit", "prune")
      BY ZenonT(60), <1>10 DEF AuditSlot
    <3>2. QED
      BY <3>1 DEF Visit, Scanned, Audited, Slot
  <2>3. \A s \in Slot : hw'[s] = hw[s] \/ (hw'[s].id = hw[s].id /\ ~hw'[s].bme)
    BY ZenonT(60), <1>10, AuditKeepsIds
  <2>4. ASSUME NEW s \in Slot, Unauthorised(s)'
        PROVE  Unauthorised(s) /\ hw'[s] = hw[s]
    <3>1. hw'[s].bme
      BY SMTT(30), <2>4, AbsentType DEF Unauthorised, Answers
    <3>2. hw'[s] = hw[s]
      BY SMTT(30), <2>3, <3>1
    <3>3. QED
      BY ZenonT(60), <2>1, <2>4, <3>2 DEF Unauthorised, Answers, kg_dma_authorized
  <2>5. ASSUME NEW s \in Slot, Unauthorised(s)', Announced(s), s # t
        PROVE  Announced(s)'
    BY SMTT(30), <1>10, <2>1, <2>4, <2>5, AuditRecords DEF Announced
  <2>6. ASSUME Unauthorised(t)', quiet >= 1 PROVE Announced(t)'
    <3>1. /\ Unauthorised(t) /\ hw'[t] = hw[t]
          /\ cur[t].id = hw[t].id /\ cur[t].bme
      BY <2>2, <2>4, <2>6 DEF HwMasters
    <3>2. Finds(t)
      BY ZenonT(60), <3>1 DEF Finds, Unauthorised
    <3>3. ~enforcing
      <4> SUFFICES ASSUME enforcing PROVE FALSE
        OBVIOUS
      <4>1. hw' = [hw EXCEPT ![t].bme = FALSE]
        BY SMTT(30), <1>10, <3>1, <3>2, AuditRecords, UnauthorisedFacts DEF Cleared
      <4>2. ~hw'[t].bme
        BY <4>1 DEF HwType, Device
      <4>3. QED
        BY <3>1, <4>2, UnauthorisedFacts
    <3>4. crowded' \/ \E r \in recs' : r.slot = t /\ r.id = cur[t].id /\ r.alerted
      BY ZenonT(60), <1>10, <3>2, AuditRecords
    <3>5. QED
      BY ZenonT(60), <2>1, <3>1, <3>3, <3>4 DEF Announced
  <2>7. quiet >= 2 => quiet >= 1
    BY DEF HwType
  <2>8. QED
    BY ZenonT(60), <2>1, <2>2, <2>4, <2>5, <2>6, <2>7 DEF HwMasters
<1>11. CASE AuditEnd
  <2>1. /\ UNCHANGED <<hw, cold, os, ecam, enforcing, base, crowded, phase>>
        /\ pc = "prune" /\ pc' = "idle"
        /\ recs' = {r \in recs : cur[r.slot].id = r.id}
    BY ZenonT(60), <1>11 DEF AuditEnd
  <2>2. \A s \in Slot : /\ Unauthorised(s)' => Unauthorised(s)
                        /\ ~Scanned(s)' /\ ~Audited(s)'
    BY ZenonT(60), <2>1 DEF Unauthorised, Answers, kg_dma_authorized, Scanned, Audited
  <2>3. quiet' >= 2 => quiet >= 1
    BY SMTT(30), <1>11 DEF AuditEnd, HwType
  <2>4. ASSUME NEW s \in Slot, Unauthorised(s), quiet >= 1 PROVE Announced(s)'
    <3>1. Announced(s) /\ cur[s].id = hw[s].id
      BY SMTT(30), <2>1, <2>4 DEF HwMasters, Scanned, Audited
    <3>2. QED
      BY ZenonT(60), <2>1, <3>1 DEF Announced
  <2>5. QED
    BY ZenonT(60), <2>2, <2>3, <2>4 DEF HwMasters
<1>12. QED
  BY ZenonT(60), <1>3, <1>4, <1>5, <1>6, <1>7, <1>8, <1>9, <1>10, <1>11 DEF Next, Pass

-----------------------------------------------------------------------------
(* The cross-check. *)

(* What kg_note_suspect() does to its table: the suspect is in it or there  *)
(* was no room, it is reported if it was in it before and only then, and    *)
(* the other suspects stay.                                                 *)
NoteEffect(t, k) ==
    /\ touched' = touched \cup {<<t, k>>}
    /\ crowded => crowded'
    /\ crowded' \/ \E e \in susp' : e.slot = t /\ e.kind = k
    /\ Noted(t, k) # {} => \E e \in susp' : e.slot = t /\ e.kind = k /\ e.reported
    /\ \A e \in susp : e \in susp' \/ (e.slot = t /\ e.kind = k)
    /\ \A e \in susp' : \/ e \in susp
                        \/ /\ e.slot = t /\ e.kind = k
                           /\ e.reported => Noted(t, k) # {}

(* It does just that. *)
LEMMA NoteDoes ==
    ASSUME HwType, NEW t \in Slot, NEW k \in Kind, kg_note_suspect(t, k)
    PROVE  NoteEffect(t, k)
<1> USE DEF NoteEffect
<1> DEFINE Again(e) == [e EXCEPT !.seen = 2, !.reported = @ \/ TRUE]
           first == [slot |-> t, kind |-> k, seen |-> 1, reported |-> FALSE]
<1>1. touched' = touched \cup {<<t, k>>} /\ (crowded => crowded')
  BY ZenonT(60) DEF kg_note_suspect, Note
<1>2. \A e \in Noted(t, k) :
         e \in susp /\ e.slot = t /\ e.kind = k
         /\ Again(e).slot = t /\ Again(e).kind = k /\ Again(e).reported
  BY ZenonT(60), SeenAgain DEF HwType, Noted
<1>3. first.slot = t /\ first.kind = k /\ ~first.reported
  OBVIOUS
<1> HIDE DEF Again, first
<1>4. CASE Noted(t, k) # {}
  <2>1. susp' = (susp \ Noted(t, k)) \cup {Again(e) : e \in Noted(t, k)}
    BY ZenonT(60), <1>4 DEF kg_note_suspect, Note, Again
  <2>2. PICK f \in Noted(t, k) : TRUE
    BY <1>4
  <2>3. Again(f) \in susp' /\ Again(f).slot = t /\ Again(f).kind = k /\ Again(f).reported
    BY <1>2, <2>1
  <2>4. \A e \in susp : e \in susp' \/ (e.slot = t /\ e.kind = k)
    BY <1>2, <2>1
  <2>5. \A e \in susp' : e \in susp \/ (e.slot = t /\ e.kind = k)
    BY <1>2, <2>1
  <2>6. QED
    BY ZenonT(60), <1>1, <1>4, <2>3, <2>4, <2>5
<1>5. CASE Noted(t, k) = {}
  <2>1. \/ susp' = susp /\ crowded'
        \/ susp' = susp \cup {first}
    BY ZenonT(60), <1>5 DEF kg_note_suspect, Note, first
  <2>2. QED
    BY ZenonT(60), <1>1, <1>3, <1>5, <2>1
<1>6. QED
  BY <1>4, <1>5

(* kg_cross_check() compares a slot against the OS's view and notes at most *)
(* one discrepancy, whose kind the loop determines.                         *)
LEMMA CheckEffect ==
    ASSUME HwType, NEW t \in Slot, CheckHw(t) \/ CheckOs(t)
    PROVE  /\ UNCHANGED <<hw, cold, os, ecam, enforcing, base, recs, quiet, cur, phase,
                          lastPass>>
           /\ \/ UNCHANGED <<susp, touched, crowded>>
              \/ \E k \in Kind : /\ kg_note_suspect(t, k)
                                 /\ k = "missing" <=> pc = "os2hw"
           /\ at = t
           /\ \/ pc = "hw2os" /\ Visit(t, "hw2os", "os2hw")
              \/ pc = "os2hw" /\ Visit(t, "os2hw", "settle")
<1> USE DEF machine, config, life, scan, tables, history
<1>1. CASE CheckHw(t)
  <2>1. /\ UNCHANGED <<hw, cold, os, ecam, enforcing, base, recs, quiet, cur, phase, lastPass>>
        /\ Visit(t, "hw2os", "os2hw") /\ at = t /\ pc = "hw2os"
    BY ZenonT(60), <1>1 DEF CheckHw, Visit
  <2>2. \/ UNCHANGED <<susp, touched, crowded>>
        \/ kg_note_suspect(t, "hidden") \/ kg_note_suspect(t, "mismatch")
    BY ZenonT(60), <1>1 DEF CheckHw
  <2>3. QED
    BY ZenonT(60), <2>1, <2>2 DEF Kind
<1>2. CASE CheckOs(t)
  <2>1. /\ UNCHANGED <<hw, cold, os, ecam, enforcing, base, recs, quiet, cur, phase, lastPass>>
        /\ Visit(t, "os2hw", "settle") /\ at = t /\ pc = "os2hw"
    BY ZenonT(60), <1>2 DEF CheckOs, Visit
  <2>2. UNCHANGED <<susp, touched, crowded>> \/ kg_note_suspect(t, "missing")
    BY ZenonT(60), <1>2 DEF CheckOs
  <2>3. QED
    BY ZenonT(60), <2>1, <2>2 DEF Kind
<1>3. QED
  BY <1>1, <1>2

(* A slot that has been read right is noted under the kind it has. *)
LEMMA CheckNotes ==
    ASSUME HwType, NEW t \in Slot, CheckHw(t) \/ CheckOs(t),
           Discrepancy(t), cur[t].id = hw[t].id, KindOf(t) = "missing" <=> pc = "os2hw"
    PROVE  kg_note_suspect(t, KindOf(t))
<1>1. CASE CheckHw(t)
  <2>1. pc = "hw2os" /\ hw[t].id # None /\ os[t] # hw[t].id
    BY ZenonT(60), <1>1 DEF CheckHw, Visit, Discrepancy, KindOf
  <2>2. QED
    BY ZenonT(60), <1>1, <2>1 DEF CheckHw, KindOf
<1>2. CASE CheckOs(t)
  <2>1. os[t] # None /\ hw[t].id = None /\ ~cold[t] /\ KindOf(t) = "missing"
    BY ZenonT(60), <1>2 DEF CheckOs, Visit, Discrepancy, KindOf
  <2>2. QED
    BY ZenonT(60), <1>2, <2>1 DEF CheckOs
<1>3. QED
  BY <1>1, <1>2

(* A step that leaves identities, power and the OS's view alone leaves the  *)
(* discrepancies and their kinds alone.                                     *)
LEMMA SameDiscrepancies ==
    ASSUME UNCHANGED <<cold, os>>, \A s \in Slot : hw'[s].id = hw[s].id
    PROVE  \A s \in Slot : /\ Discrepancy(s)' <=> Discrepancy(s)
                           /\ KindOf(s)' = KindOf(s)
BY ZenonT(60) DEF Discrepancy, KindOf

(* A discrepancy that stays is noted by the first pass that started after   *)
(* it appeared, and reported by the second.                                 *)
LEMMA HwSuspectsStep ==
    ASSUME HwType, HwLife, HwSuspects, Next
    PROVE  HwSuspects'
<1> USE DEF machine, config, life, scan, tables, history
<1>1. CASE quiet' = 0
  <2>1. ~(quiet' >= 1) /\ ~(quiet' >= 2) /\ ~(quiet' >= 3)
    BY <1>1
  <2>2. QED
    BY ZenonT(60), <2>1 DEF HwSuspects
<1>2. CASE Machine
  BY ZenonT(60), <1>1, <1>2
     DEF Machine, Plug, Enumerate, BusMaster, Unplug, Remove, Power,
         Change
<1>3. CASE (\E s \in Slot : InitScan(s)) \/ InitBaseline \/ InitFails
  BY ZenonT(60), <1>1, <1>3 DEF InitScan, InitBaseline, InitFails, HwLife
<1>4. ASSUME UNCHANGED <<cold, os, ecam, quiet, susp>>, crowded => crowded',
             \A s \in Slot : hw'[s].id = hw[s].id,
             \A s \in Slot : /\ Scanned(s)' => Scanned(s) /\ cur'[s] = cur[s]
                             /\ Checked(s)' => Checked(s) /\ touched' = touched
                             /\ Compared(s)' => Compared(s)
      PROVE  HwSuspects'
  <2>1. \A s \in Slot : /\ Discrepancy(s)' <=> Discrepancy(s)
                        /\ KindOf(s)' = KindOf(s)
    BY ZenonT(60), <1>4, SameDiscrepancies
  <2>2. \A s \in Slot : /\ Suspected(s) => Suspected(s)'
                        /\ Reported(s) => Reported(s)'
    BY ZenonT(60), <1>4, <2>1 DEF Suspected, Reported, Noted
  <2>3. QED
    BY ZenonT(60), <1>4, <2>1, <2>2 DEF HwSuspects
<1>5. CASE KickQueue \/ ExitStop \/ ExitCancel
  <2>1. UNCHANGED <<hw, cold, os, ecam, quiet, susp, touched, crowded, pc, at, cur>>
    BY ZenonT(60), <1>5 DEF KickQueue, ExitStop, ExitCancel
  <2>2. QED
    BY ZenonT(60), <1>4, <2>1 DEF Scanned, Checked, Compared, KindOf
<1>6. CASE WorkBegin
  <2>1. /\ UNCHANGED <<hw, cold, os, ecam, quiet, susp, touched, crowded, cur>>
        /\ phase # "scan" /\ pc' = "scan" /\ at' = 1
    BY ZenonT(60), <1>6 DEF WorkBegin, HwLife
  <2>2. \A s \in Slot : ~Scanned(s)' /\ ~Checked(s)' /\ ~Compared(s)'
    BY <2>1 DEF Scanned, Checked, Compared, Slot
  <2>3. QED
    BY ZenonT(60), <1>4, <2>1, <2>2
<1>7. ASSUME NEW t \in Slot, ScanSlot(t) PROVE HwSuspects'
  <2> SUFFICES ASSUME ecam PROVE HwSuspects'
    BY ZenonT(60), <1>7 DEF ScanSlot, HwSuspects
  <2>1. /\ UNCHANGED <<hw, cold, os, ecam, quiet, susp, touched, crowded>>
        /\ Visit(t, "scan", "hw2os")
    BY <1>7 DEF ScanSlot
  <2>2. \A s \in Slot : /\ Discrepancy(s)' <=> Discrepancy(s)
                        /\ KindOf(s)' = KindOf(s)
    BY <2>1, SameDiscrepancies
  <2>3. \A s \in Slot : /\ Suspected(s) => Suspected(s)'
                        /\ Reported(s) => Reported(s)'
    BY ZenonT(60), <2>1, <2>2 DEF Suspected, Reported, Noted
  <2>4. \A s \in Slot : ~Checked(s)' /\ ~Compared(s)' /\ (Scanned(s)' => s = t \/ Scanned(s))
    BY SMTT(30), <2>1 DEF Visit, Scanned, Checked, Compared, Slot
  <2>5. /\ \A s \in Slot : s # t => cur'[s] = cur[s]
        /\ ~cold[t] => cur'[t] = hw[t]
    BY <1>7 DEF ScanSlot, ScanRead, Answers, HwType
  <2>6. QED
    BY ZenonT(60), <2>1, <2>2, <2>3, <2>4, <2>5 DEF HwSuspects, Discrepancy
<1>8. ASSUME NEW t \in Slot, CheckHw(t) \/ CheckOs(t) PROVE HwSuspects'
  <2> SUFFICES ASSUME ecam PROVE HwSuspects'
    BY ZenonT(60), <1>8, CheckEffect DEF HwSuspects
  <2>1. /\ UNCHANGED <<hw, cold, os, ecam, quiet, cur>> /\ at = t
        /\ \/ pc = "hw2os" /\ Visit(t, "hw2os", "os2hw")
           \/ pc = "os2hw" /\ Visit(t, "os2hw", "settle")
    BY ZenonT(60), <1>8, CheckEffect
  <2>2. \A s \in Slot : /\ Discrepancy(s)' <=> Discrepancy(s)
                        /\ KindOf(s)' = KindOf(s)
    BY <2>1, SameDiscrepancies
  <2>3. \A s \in Slot : /\ Suspected(s) => Suspected(s)'
                        /\ Reported(s) => Reported(s)'
                        /\ \A k \in Kind : <<s, k>> \in touched => <<s, k>> \in touched'
    <3>1. CASE UNCHANGED <<susp, touched, crowded>>
      BY ZenonT(60), <2>2, <3>1 DEF Suspected, Reported, Noted
    <3>2. ASSUME NEW k \in Kind, kg_note_suspect(t, k)
          PROVE  \A s \in Slot : /\ Suspected(s) => Suspected(s)'
                                 /\ Reported(s) => Reported(s)'
                                 /\ \A l \in Kind : <<s, l>> \in touched => <<s, l>> \in touched'
      <4>1. NoteEffect(t, k)
        BY ZenonT(60), <3>2, NoteDoes
      <4>2. \A s \in Slot : Suspected(s) => Suspected(s)'
        BY ZenonT(60), <2>2, <4>1 DEF NoteEffect, Suspected, Noted
      <4>3. \A s \in Slot : Reported(s) => Reported(s)'
        BY ZenonT(60), <2>2, <4>1 DEF NoteEffect, Reported, Noted
      <4>4. \A s \in Slot, l \in Kind : <<s, l>> \in touched => <<s, l>> \in touched'
        BY ZenonT(60), <4>1 DEF NoteEffect
      <4>5. QED
        BY ZenonT(60), <4>2, <4>3, <4>4
    <3>3. QED
      BY ZenonT(60), <1>8, <3>1, <3>2, CheckEffect
  <2>4. \A s \in Slot : Scanned(s)
    BY ZenonT(60), <2>1 DEF Scanned
  <2>5. \A s \in Slot : /\ Checked(s)' =>
                             Checked(s) \/ (s = t /\ (KindOf(t) = "missing" <=> pc = "os2hw"))
                        /\ Compared(s)' => Checked(s)'
    <3>1. CASE pc = "hw2os" /\ Visit(t, "hw2os", "os2hw")
      BY <2>2, <3>1 DEF Visit, Checked, Compared, Slot
    <3>2. CASE pc = "os2hw" /\ Visit(t, "os2hw", "settle")
      BY <2>2, <3>2 DEF Visit, Checked, Compared, Slot
    <3>3. QED
      BY <2>1, <3>1, <3>2
  <2>6. ASSUME Discrepancy(t), quiet >= 1, KindOf(t) = "missing" <=> pc = "os2hw"
        PROVE  /\ <<t, KindOf(t)>> \in touched' /\ Suspected(t)'
               /\ Suspected(t) => Reported(t)'
    <3>1. cur[t].id = hw[t].id
      BY ZenonT(60), <2>4, <2>6 DEF HwSuspects
    <3>2. kg_note_suspect(t, KindOf(t))
      BY ZenonT(60), <1>8, <2>6, <3>1, CheckNotes
    <3>3. KindOf(t) \in Kind
      BY ZenonT(60) DEF KindOf, Kind
    <3>4. NoteEffect(t, KindOf(t))
      BY ZenonT(60), <3>2, <3>3, NoteDoes
    <3>5. QED
      BY ZenonT(60), <2>2, <3>4 DEF NoteEffect, Suspected, Reported, Noted
  <2>7. \A s \in Slot : KindOf(s) \in Kind
    BY ZenonT(60) DEF KindOf, Kind
  <2>8. quiet >= 2 => quiet >= 1
    BY DEF HwType
  <2>9. ASSUME NEW s \in Slot, Discrepancy(s)
        PROVE  /\ quiet >= 1 => cur[s].id = hw[s].id
               /\ quiet >= 1 /\ Checked(s)' => <<s, KindOf(s)>> \in touched' /\ Suspected(s)'
               /\ quiet >= 2 => Suspected(s)'
               /\ quiet >= 2 /\ Checked(s)' => Reported(s)'
               /\ quiet >= 3 => Reported(s)'
    <3>1. /\ quiet >= 1 => cur[s].id = hw[s].id
          /\ quiet >= 1 /\ Checked(s) => <<s, KindOf(s)>> \in touched /\ Suspected(s)
          /\ quiet >= 2 => Suspected(s)
          /\ quiet >= 2 /\ Checked(s) => Reported(s)
          /\ quiet >= 3 => Reported(s)
      BY ZenonT(60), <2>4, <2>9 DEF HwSuspects, Compared
    <3>2. QED
      BY ZenonT(60), <2>3, <2>5, <2>6, <2>7, <2>8, <2>9, <3>1
  <2>10. QED
    BY ZenonT(60), <2>1, <2>2, <2>5, <2>9 DEF HwSuspects
<1>9. CASE CheckEnd
  <2>1. /\ UNCHANGED <<hw, cold, os, ecam, quiet, cur, crowded>>
        /\ pc = "settle" /\ pc' = "audit"
        /\ susp' = {e \in susp : <<e.slot, e.kind>> \in touched}
    BY ZenonT(60), <1>9 DEF CheckEnd
  <2>2. \A s \in Slot : /\ Discrepancy(s)' <=> Discrepancy(s)
                        /\ KindOf(s)' = KindOf(s)
    BY <2>1, SameDiscrepancies
  <2>3. \A s \in Slot : Scanned(s) /\ Checked(s) /\ Compared(s) /\ ~Checked(s)'
    BY ZenonT(60), <2>1 DEF Scanned, Checked, Compared
  <2>4. \A s \in Slot : <<s, KindOf(s)>> \in touched =>
                              /\ Suspected(s) => Suspected(s)'
                              /\ Reported(s) => Reported(s)'
    BY ZenonT(60), <2>1, <2>2 DEF Suspected, Reported, Noted
  <2>5. (quiet >= 2 => quiet >= 1) /\ (quiet >= 3 => quiet >= 1)
    BY DEF HwType
  <2>6. QED
    BY ZenonT(60), <2>1, <2>2, <2>3, <2>4, <2>5 DEF HwSuspects
<1>10. ASSUME NEW t \in Slot, AuditSlot(t) PROVE HwSuspects'
  <2>1. /\ UNCHANGED <<cold, os, ecam, quiet, susp, touched, cur>>
        /\ pc = "audit" /\ pc' \in {"audit", "prune"}
    BY ZenonT(60), <1>10 DEF AuditSlot, Visit
  <2>2. (crowded => crowded') /\ \A s \in Slot : hw'[s].id = hw[s].id
    BY ZenonT(60), <1>10, AuditRecords, AuditKeepsIds
  <2>3. QED
    BY ZenonT(60), <1>4, <2>1, <2>2 DEF Scanned, Checked, Compared
<1>11. CASE AuditEnd
  <2>1. /\ UNCHANGED <<hw, cold, os, ecam, susp, touched, crowded>>
        /\ pc = "prune" /\ pc' = "idle"
    BY ZenonT(60), <1>11 DEF AuditEnd
  <2>2. \A s \in Slot : /\ Discrepancy(s)' <=> Discrepancy(s)
                        /\ KindOf(s)' = KindOf(s)
    BY <2>1, SameDiscrepancies
  <2>3. \A s \in Slot : Compared(s) /\ ~Scanned(s)' /\ ~Checked(s)' /\ ~Compared(s)'
    BY ZenonT(60), <2>1 DEF Scanned, Checked, Compared
  <2>4. \A s \in Slot : /\ Suspected(s) => Suspected(s)'
                        /\ Reported(s) => Reported(s)'
    BY ZenonT(60), <2>1, <2>2 DEF Suspected, Reported, Noted
  <2>5. (quiet' >= 2 => quiet >= 1) /\ (quiet' >= 3 => quiet >= 2)
    BY <1>11 DEF AuditEnd, HwType
  <2>6. QED
    BY ZenonT(60), <2>1, <2>2, <2>3, <2>4, <2>5 DEF HwSuspects
<1>12. QED
  BY ZenonT(60), <1>2, <1>3, <1>5, <1>6, <1>7, <1>8, <1>9, <1>10, <1>11 DEF Next, Pass

(* Only the cross-check notes suspects, each when it gets to the slot. *)
LEMMA HwTransientStep ==
    ASSUME HwType, HwLife, HwTransient, Next
    PROVE  HwTransient' /\ TransientStep
<1> USE DEF machine, config, life, scan, tables, history
<1>1. ASSUME UNCHANGED <<susp, touched, lastPass>>,
             touched = {} \/ UNCHANGED <<pc, at>>
                \/ (pc \notin {"hw2os", "os2hw", "settle"} /\ HwTransient)
      PROVE  HwTransient' /\ TransientStep
  BY ZenonT(60), <1>1 DEF HwTransient, TransientStep, Noted
<1>2. CASE Machine
  BY ZenonT(60), <1>1, <1>2
     DEF Machine, Plug, Enumerate, BusMaster, Unplug, Remove, Power,
         Change
<1>3. CASE (\E s \in Slot : InitScan(s)) \/ InitBaseline \/ InitFails
  BY ZenonT(60), <1>1, <1>3 DEF InitScan, InitBaseline, InitFails, HwLife
<1>4. CASE KickQueue \/ ExitStop \/ ExitCancel \/ WorkBegin \/ AuditEnd
  BY ZenonT(60), <1>1, <1>4
     DEF KickQueue, ExitStop, ExitCancel, WorkBegin, AuditEnd
<1>5. ASSUME NEW t \in Slot, ScanSlot(t) \/ AuditSlot(t)
      PROVE  HwTransient' /\ TransientStep
  BY ZenonT(60), <1>1, <1>5 DEF ScanSlot, AuditSlot, Visit
<1>6. CASE CheckEnd
  BY ZenonT(60), <1>6 DEF CheckEnd, HwTransient, TransientStep, Noted
<1>7. ASSUME NEW t \in Slot, CheckHw(t) \/ CheckOs(t)
      PROVE  HwTransient' /\ TransientStep
  <2>1. /\ lastPass' = lastPass /\ at = t
        /\ \/ pc = "hw2os" /\ Visit(t, "hw2os", "os2hw")
           \/ pc = "os2hw" /\ Visit(t, "os2hw", "settle")
    BY ZenonT(60), <1>7, CheckEffect
  <2>2. ASSUME NEW s \in Slot, NEW k \in Kind,
               \/ pc = "hw2os" /\ s < at /\ k # "missing"
               \/ pc = "os2hw" /\ (k = "missing" => s < at)
               \/ s = t /\ (k = "missing" <=> pc = "os2hw")
        PROVE  \/ pc' = "hw2os" /\ s < at' /\ k # "missing"
               \/ pc' = "os2hw" /\ (k = "missing" => s < at')
               \/ pc' = "settle"
    BY <2>1, <2>2 DEF Visit, Slot
  <2>3. CASE UNCHANGED <<susp, touched, crowded>>
    <3>1. TransientStep
      BY ZenonT(60), <2>3 DEF TransientStep, Noted
    <3>2. HwTransient'
      BY ZenonT(60), <2>1, <2>2, <2>3 DEF HwTransient
    <3>3. QED
      BY <3>1, <3>2
  <2>4. ASSUME NEW k \in Kind, kg_note_suspect(t, k), k = "missing" <=> pc = "os2hw"
        PROVE  HwTransient' /\ TransientStep
    <3>1. /\ touched' = touched \cup {<<t, k>>}
          /\ \A e \in susp' : \/ e \in susp
                              \/ /\ e.slot = t /\ e.kind = k
                                 /\ e.reported => Noted(t, k) # {}
      <4>1. NoteEffect(t, k)
        BY ZenonT(60), <2>4, NoteDoes
      <4>2. QED
        BY ZenonT(60), <4>1 DEF NoteEffect
    <3>2. <<t, k>> \notin touched
      BY SMTT(30), <2>1, <2>4 DEF HwTransient, Slot
    <3>3. \A e \in susp' : <<e.slot, e.kind>> \in lastPass' \cup touched'
      BY ZenonT(60), <2>1, <3>1 DEF HwTransient
    <3>4. ASSUME NEW s \in Slot, NEW l \in Kind, <<s, l>> \in touched'
          PROVE  \/ pc' = "hw2os" /\ s < at' /\ l # "missing"
                 \/ pc' = "os2hw" /\ (l = "missing" => s < at')
                 \/ pc' = "settle"
      <4>1. <<s, l>> \in touched \/ (s = t /\ l = k)
        BY SMTT(30), <3>1, <3>4
      <4>2. QED
        BY ZenonT(60), <2>1, <2>2, <2>4, <4>1 DEF HwTransient
    <3>5. ASSUME NEW e \in susp', e.reported,
                 ~ \E f \in Noted(e.slot, e.kind) : f.reported
          PROVE  <<e.slot, e.kind>> \in lastPass
      <4>1. e \notin susp
        BY <3>5 DEF Noted
      <4>2. e.slot = t /\ e.kind = k /\ Noted(t, k) # {}
        BY SMTT(30), <3>1, <3>5, <4>1
      <4>3. PICK f \in susp : f.slot = t /\ f.kind = k
        BY <4>2 DEF Noted
      <4>4. QED
        BY SMTT(30), <3>2, <4>2, <4>3 DEF HwTransient
    <3>6. QED
      BY ZenonT(60), <3>3, <3>4, <3>5 DEF HwTransient, TransientStep
  <2>5. QED
    BY ZenonT(60), <1>7, <2>3, <2>4, CheckEffect
<1>8. QED
  BY ZenonT(60), <1>2, <1>3, <1>4, <1>5, <1>6, <1>7 DEF Next, Pass

-----------------------------------------------------------------------------
(* What follows. *)

(* Bus mastering is only ever taken by the audit, from what it found. *)
LEMMA HwCutsStep ==
    ASSUME HwType, Next
    PROVE  CutsUnauthorised
<1> USE DEF machine, config, life, scan, tables, history
<1> SUFFICES ASSUME NEW s \in Slot, hw[s].bme, hw'[s] = [hw[s] EXCEPT !.bme = FALSE],
                    cur[s].id = hw[s].id
             PROVE  hw[s].id \notin Bridge \cup DmaAllow /\ <<s, hw[s].id>> \notin base
  BY ZenonT(60) DEF CutsUnauthorised
<1>1. hw[s] \in Device /\ hw[s].id \in Id /\ hw[s].id # None
  BY ZenonT(60), DeviceFacts DEF HwType, ConstantsOK
<1>2. hw'[s].id = hw[s].id /\ ~hw'[s].bme
  BY <1>1 DEF Device
<1>3. hw' # hw
  BY ZenonT(60), <1>2
<1>4. ASSUME NEW t \in Slot, Plug(t) \/ BusMaster(t) \/ Unplug(t) PROVE FALSE
  <2>1. t = s
    BY ZenonT(60), <1>2, <1>4 DEF Plug, BusMaster, Unplug, HwType
  <2>2. CASE Plug(t) \/ BusMaster(t)
    BY ZenonT(60), <1>1, <2>1, <2>2 DEF Plug, BusMaster
  <2>3. CASE Unplug(t)
    BY ZenonT(60), <1>1, <1>2, <2>1, <2>3, AbsentType DEF Unplug, HwType
  <2>4. QED
    BY <1>4, <2>2, <2>3
<1>5. PICK t \in Slot : AuditSlot(t)
  BY ZenonT(60), <1>3, <1>4 DEF Next, Pass, Machine, Enumerate, Remove, Power, InitScan,
     InitBaseline, InitFails, WorkBegin, KickQueue, ExitStop, ExitCancel, ScanSlot, CheckHw,
     CheckOs, CheckEnd, AuditEnd
<1>6. Finds(t) /\ hw' = Cleared(t)
  BY ZenonT(60), <1>3, <1>5, AuditRecords
<1>7. t = s
  BY ZenonT(60), <1>2, <1>6 DEF Cleared, HwType
<1>8. QED
  BY ZenonT(60), <1>6, <1>7 DEF Finds, kg_dma_authorized

(* HwInv is inductive. *)
LEMMA HwStep ==
    HwInv /\ [Next]_vars => HwInv' /\ TransientStep /\ CutsUnauthorised
<1>1. ASSUME HwInv, Next PROVE HwInv' /\ TransientStep /\ CutsUnauthorised
  BY ZenonT(60), <1>1, HwTypeStep, HwLifeStep, HwLoadStep, HwMastersStep, HwSuspectsStep,
                 HwTransientStep, HwCutsStep DEF HwInv
<1>2. ASSUME HwInv, UNCHANGED vars PROVE HwInv' /\ TransientStep /\ CutsUnauthorised
  <2>1. UNCHANGED <<hw, cold, os, events, ecam, enforcing, phase, stop, pending, kicker, late,
                    pc, at, cur, base, susp, touched, recs, crowded, quiet, lastPass, atLoad>>
    BY <1>2 DEF vars, machine, config, life, scan, tables, history
  <2>2. HwType' /\ HwLife' /\ HwLoad' /\ HwTransient'
    <3>0. HwType'
      BY ZenonT(60), <1>2, <2>1 DEF HwInv, HwType
    <3>1. HwLife'
      BY ZenonT(60), <1>2, <2>1 DEF HwInv, HwLife
    <3>2. HwLoad' /\ HwTransient'
      BY ZenonT(60), <1>2, <2>1 DEF HwInv, HwLoad, HwTransient
    <3>3. QED
      BY <3>0, <3>1, <3>2
  <2>3. HwMasters'
    BY ZenonT(60), <1>2, <2>1 DEF HwInv, HwMasters, Unauthorised, Answers,
       kg_dma_authorized, Scanned, Audited, Announced
  <2>4. HwSuspects'
    <3>1. \A s \in Slot : /\ Discrepancy(s)' <=> Discrepancy(s)
                          /\ Scanned(s)' <=> Scanned(s)
                          /\ Checked(s)' <=> Checked(s)
                          /\ Compared(s)' <=> Compared(s)
                          /\ KindOf(s)' = KindOf(s)
      BY ZenonT(60), <2>1 DEF Discrepancy, Scanned, Checked, Compared, KindOf
    <3>2. \A s \in Slot : /\ Suspected(s)' <=> Suspected(s)
                          /\ Reported(s)' <=> Reported(s)
      BY ZenonT(60), <2>1 DEF Suspected, Reported, Noted, KindOf
    <3>3. QED
      BY <1>2, <2>1, <3>1, <3>2 DEF HwInv, HwSuspects
  <2>5. TransientStep
    BY ZenonT(60), <2>1 DEF TransientStep, Noted
  <2>6. CutsUnauthorised
    <3> SUFFICES ASSUME NEW s \in Slot, hw[s].bme, hw'[s] = [hw[s] EXCEPT !.bme = FALSE]
                 PROVE  FALSE
      BY DEF CutsUnauthorised
    <3>1. hw[s] \in Device
      BY <1>2 DEF HwInv, HwType
    <3>2. QED
      BY <2>1, <3>1 DEF Device
  <2>7. QED
    BY <2>2, <2>3, <2>4, <2>5, <2>6 DEF HwInv
<1>3. QED
  BY <1>1, <1>2

(* It says what the invariants say. *)
LEMMA HwImplies ==
    HwInv => PersistentReported /\ KnownAtLoadTrusted /\ MastersDealtWith /\ NoPassAfterExit
<1> SUFFICES ASSUME HwInv
             PROVE  /\ PersistentReported /\ KnownAtLoadTrusted
                    /\ MastersDealtWith /\ NoPassAfterExit
  OBVIOUS
<1>1. PersistentReported
  <2> SUFFICES ASSUME ecam, NEW s \in Slot, quiet = 3, Discrepancy(s)
               PROVE  crowded \/ \E e \in susp : e.slot = s /\ e.reported
    BY DEF PersistentReported
  <2>1. quiet >= 3
    OBVIOUS
  <2>2. Reported(s)
    BY ZenonT(60), <2>1 DEF HwInv, HwSuspects
  <2>3. QED
    BY ZenonT(60), <2>2 DEF Reported, Noted
<1>2. KnownAtLoadTrusted
  BY ZenonT(60) DEF HwInv, HwLoad, KnownAtLoadTrusted
<1>3. MastersDealtWith
  BY DEF HwInv, HwMasters, Announced, MastersDealtWith
<1>4. NoPassAfterExit
  BY ZenonT(60) DEF HwInv, HwType, HwLife, NoPassAfterExit
<1>5. QED
  BY <1>1, <1>2, <1>3, <1>4

(* The PCI audit, for any number of addresses: a discrepancy between        *)
(* hardware and OS that lasts is reported, what the OS knew at load is not  *)
(* announced, an unauthorised bus master is dealt with by the next whole    *)
(* pass, and after kg_hw_exit() no pass runs but for a kick under way.      *)
THEOREM PciAudit ==
    ConstantsOK /\ Spec =>
        [](PersistentReported /\ KnownAtLoadTrusted /\ MastersDealtWith /\ NoPassAfterExit)
<1>1. ConstantsOK /\ Spec => []HwInv
  BY HwInit, HwStep, PTL DEF Spec
<1>2. QED
  BY <1>1, HwImplies, PTL

(* ... and what no step of it does: report a discrepancy that only one pass *)
(* in a row met, or take bus mastering from an authorised device that was   *)
(* there at the scan.                                                       *)
THEOREM PciAuditSteps ==
    ConstantsOK /\ Spec => [][TransientStep /\ CutsUnauthorised]_vars
<1>1. ConstantsOK /\ Spec => []HwInv
  BY HwInit, HwStep, PTL DEF Spec
<1>2. QED
  BY <1>1, HwStep, PTL DEF Spec

=============================================================================

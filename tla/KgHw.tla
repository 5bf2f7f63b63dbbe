--------------------------------- MODULE KgHw ---------------------------------
(***************************************************************************)
(* The PCI audit (kg_hw.c): the periodic scan of what answers in hardware, *)
(* the cross-check against what the OS enumerated, the DMA audit with its  *)
(* records and its enforcement, and the life of the work item.  Devices    *)
(* are plugged, enumerated, powered off, turned into bus masters and       *)
(* removed by the rest of the machine between any two steps of a scan.     *)
(***************************************************************************)
EXTENDS Naturals, FiniteSets

CONSTANTS
    NSLOT,              \* number of bus/device/function addresses
    Boot,               \* the ones that may hold a device at load
    Id,                 \* vendor:device identities
    Bridge,             \* those whose header type is not 0
    DmaAllow,           \* identities in dma_allow=
    MAX_SUSPECT,        \* KG_MAX_SUSPECT
    MaxEvents           \* bound: changes the rest of the machine makes

Slot == 1..NSLOT
None == "none"

(* There is at least one address, and None is no identity. *)
ConstantsOK == NSLOT \in Nat \ {0} /\ None \notin Id

Absent == [id |-> None, bme |-> FALSE]

VARIABLES
    hw,         \* what is plugged, and its bus-master bit
    cold,       \* slots without power (D3cold): they answer nothing
    os,         \* what the OS enumerated
    events,     \* changes so far
    ecam,       \* kg_necam > 0
    enforcing,  \* kg_enforcing()
    phase,      \* "scan", "base", "up", "cancel", "gone", "off"
    stop,       \* kg_hw_stop
    pending,    \* kg_hw_work is queued
    pc,         \* the pass: "idle", "scan", "hw2os", "os2hw", "settle",
                \* "audit", "prune"
    at,         \* the slot the current loop is at
    cur,        \* kg_cur
    base,       \* kg_base: pairs of slot and identity
    susp,       \* kg_susp: [slot, kind, seen, reported]
    touched,    \* entries of kg_susp noted in this pass
    recs,       \* kg_dma_recs: [slot, id, alerted, cleared]
    crowded,    \* history: kg_susp or kg_dma_recs had no room
    kicker,     \* a kg_hw_kick() that has seen kg_hw_stop false
    late,       \* history: such a kick was under way when the driver left
    quiet,      \* history: passes ended since anything changed
    lastPass,   \* history: what the previous pass noted
    atLoad      \* history: what the OS knew when the baseline was taken

machine == <<hw, cold, os, events>>
config == <<ecam, enforcing>>
life == <<phase, stop, pending, kicker, late>>
scan == <<pc, at, cur>>
tables == <<base, susp, touched, recs, crowded>>
history == <<quiet, lastPass, atLoad>>
vars == <<machine, config, life, scan, tables, history>>

Answers(s) == IF cold[s] THEN Absent ELSE hw[s]
Known(f) == {<<s, f[s]>> : s \in {t \in Slot : f[t] # None}}

Init ==
    /\ hw \in {f \in [Slot -> {Absent} \cup [id : Id, bme : BOOLEAN]] :
                  \A s \in Slot \ Boot : f[s] = Absent}
    /\ os = [s \in Slot |-> hw[s].id]
    /\ cold \in {c \in [Slot -> BOOLEAN] : \A s \in Slot : c[s] => hw[s].id # None /\ ~hw[s].bme}
    /\ events = 0
    /\ ecam \in BOOLEAN /\ enforcing \in BOOLEAN
    /\ phase = "scan" /\ stop = TRUE /\ pending = FALSE
    /\ kicker = FALSE /\ late = FALSE
    /\ pc = "idle" /\ at = 1 /\ cur = [s \in Slot |-> Absent]
    /\ base = {} /\ susp = {} /\ touched = {} /\ recs = {}
    /\ crowded = FALSE
    /\ quiet = 0 /\ lastPass = {} /\ atLoad = {}

-----------------------------------------------------------------------------
(* The rest of the machine. *)

Change ==
    /\ events < MaxEvents /\ events' = events + 1 /\ phase \in {"scan", "base", "up"}
    /\ quiet' = 0
    /\ UNCHANGED <<config, scan, tables, lastPass, atLoad>>

(* kg_pci_notify() is registered while the driver is up. *)
kg_pci_notify == pending' = (pending \/ (phase = "up" /\ ~stop))

(* A slot may be filled again before the OS has noticed that it was emptied. *)
Plug(s) ==
    /\ hw[s].id = None
    /\ \E i \in Id : hw' = [hw EXCEPT ![s] = [id |-> i, bme |-> FALSE]]
    /\ Change /\ UNCHANGED <<cold, os, life>>

(* BUS_NOTIFY_ADD_DEVICE *)
Enumerate(s) ==
    /\ hw[s].id # None /\ os[s] = None
    /\ os' = [os EXCEPT ![s] = hw[s].id]
    /\ kg_pci_notify
    /\ Change /\ UNCHANGED <<hw, cold, phase, stop, kicker, late>>

(* A driver binds, BUS_NOTIFY_BOUND_DRIVER, or the device does it itself. *)
BusMaster(s) ==
    /\ Answers(s).id # None /\ ~hw[s].bme
    /\ hw' = [hw EXCEPT ![s].bme = TRUE]
    /\ IF os[s] # None THEN kg_pci_notify ELSE UNCHANGED pending
    /\ Change /\ UNCHANGED <<cold, os, phase, stop, kicker, late>>

Unplug(s) ==
    /\ hw[s].id # None
    /\ hw' = [hw EXCEPT ![s] = Absent] /\ cold' = [cold EXCEPT ![s] = FALSE]
    /\ Change /\ UNCHANGED <<os, life>>

Remove(s) ==
    /\ os[s] # None /\ hw[s].id # os[s]
    /\ os' = [os EXCEPT ![s] = None]
    /\ Change /\ UNCHANGED <<hw, cold, life>>

Power(s) ==
    /\ os[s] # None /\ os[s] = hw[s].id /\ ~hw[s].bme
    /\ cold' = [cold EXCEPT ![s] = ~@]
    /\ Change /\ UNCHANGED <<hw, os, life>>

Machine ==
    \E s \in Slot : \/ Plug(s) \/ Enumerate(s) \/ BusMaster(s)
                    \/ Unplug(s) \/ Remove(s) \/ Power(s)

-----------------------------------------------------------------------------
(* A scan: kg_scan_ecam() reads the hardware, kg_scan_os() what the OS has. *)

ScanRead(s) ==
    cur' = [cur EXCEPT ![s] = IF ecam THEN Answers(s)
                              ELSE IF os[s] = None THEN Absent
                              ELSE [id |-> os[s], bme |-> Answers(s).bme]]

(* One turn of a loop over the slots, and where the last one leads.  After  *)
(* kg_hw_exit() there are no tables to loop over.                           *)
Visit(s, from, to) ==
    /\ pc = from /\ at = s /\ phase # "gone"
    /\ IF s = NSLOT THEN pc' = to /\ at' = 1 ELSE at' = s + 1 /\ UNCHANGED pc

(* kg_hw_init(): the first scan is the baseline. *)
InitScan(s) ==
    /\ phase = "scan" /\ at = s /\ ScanRead(s)
    /\ IF s = NSLOT THEN phase' = "base" /\ at' = 1 ELSE at' = s + 1 /\ UNCHANGED phase
    /\ UNCHANGED <<machine, config, stop, pending, kicker, late, pc, tables, history>>

(* ... together with what the OS enumerated; then the work item starts. *)
InitBaseline ==
    /\ phase = "base"
    /\ base' = Known([s \in Slot |-> cur[s].id]) \cup IF ecam THEN Known(os) ELSE {}
    /\ atLoad' = Known(os)
    /\ cur' = [s \in Slot |-> Absent]
    /\ phase' = "up" /\ stop' = FALSE /\ pending' = TRUE
    /\ UNCHANGED <<machine, config, kicker, late, pc, at, susp, touched, recs, crowded,
                   quiet, lastPass>>

InitFails ==
    /\ phase = "scan" /\ at = 1
    /\ phase' = "off"
    /\ UNCHANGED <<machine, config, stop, pending, kicker, late, scan, tables, history>>

WorkBegin ==
    /\ pending /\ pc = "idle"
    /\ pending' = FALSE /\ pc' = "scan"
    /\ UNCHANGED <<machine, config, phase, stop, kicker, late, at, cur, tables, history>>

ScanSlot(s) ==
    /\ Visit(s, "scan", IF ecam THEN "hw2os" ELSE "audit")
    /\ ScanRead(s)
    /\ UNCHANGED <<machine, config, life, tables, history>>

(* kg_note_suspect(): the second sighting in a row is reported. *)
Noted(s, k) == {e \in susp : e.slot = s /\ e.kind = k}

Note(s, k, reported) ==
    /\ susp' = CASE Noted(s, k) # {} ->
                      (susp \ Noted(s, k)) \cup
                        {[e EXCEPT !.seen = 2, !.reported = @ \/ reported] : e \in Noted(s, k)}
                 [] Noted(s, k) = {} /\ Cardinality(susp) < MAX_SUSPECT ->
                      susp \cup {[slot |-> s, kind |-> k, seen |-> 1, reported |-> FALSE]}
                 [] OTHER -> susp
    /\ crowded' = (crowded \/ (Noted(s, k) = {} /\ susp' = susp))
    /\ touched' = touched \cup {<<s, k>>}

(* Mutant: the first. *)
kg_note_suspect_AtOnce(s, k) ==
    /\ susp' = (susp \ Noted(s, k)) \cup {[slot |-> s, kind |-> k, seen |-> 1, reported |-> TRUE]}
    /\ touched' = touched \cup {<<s, k>>}
    /\ UNCHANGED crowded

kg_note_suspect(s, k) == Note(s, k, TRUE)

(* kg_cross_check(), hardware to OS *)
CheckHw(s) ==
    /\ Visit(s, "hw2os", "os2hw")
    /\ CASE cur[s].id # None /\ os[s] = None -> kg_note_suspect(s, "hidden")
         [] cur[s].id # None /\ os[s] \notin {None, cur[s].id} -> kg_note_suspect(s, "mismatch")
         [] OTHER -> UNCHANGED <<susp, touched, crowded>>
    /\ UNCHANGED <<machine, config, life, cur, base, recs, history>>

(* ... and OS to hardware; D3cold devices are not missing. *)
CheckOs(s) ==
    /\ Visit(s, "os2hw", "settle")
    /\ IF os[s] # None /\ ~cold[s] /\ cur[s].id = None
       THEN kg_note_suspect(s, "missing") ELSE UNCHANGED <<susp, touched, crowded>>
    /\ UNCHANGED <<machine, config, life, cur, base, recs, history>>

(* "a suspect not seen this time has resolved" *)
CheckEnd ==
    /\ pc = "settle"
    /\ susp' = {e \in susp : <<e.slot, e.kind>> \in touched}
    /\ lastPass' = touched /\ touched' = {}
    /\ pc' = "audit"
    /\ UNCHANGED <<machine, config, life, at, cur, base, crowded, recs, quiet, atLoad>>

-----------------------------------------------------------------------------
(* The DMA audit. *)

kg_dma_authorized(s, i) == <<s, i>> \in base \/ i \in DmaAllow

(* kg_dma_rec_get(): the record of this device, new if there is room. *)
kg_dma_rec_get(s, i) ==
    IF \E r \in recs : r.slot = s /\ r.id = i THEN {r \in recs : r.slot = s /\ r.id = i}
    ELSE IF Cardinality(recs) >= MAX_SUSPECT THEN {}
    ELSE {[slot |-> s, id |-> i, alerted |-> FALSE, cleared |-> FALSE]}

(* kg_disable_bme(), by address: pci_clear_master(), then through ECAM. *)
Cleared(s) == IF enforcing /\ (os[s] # None \/ ecam) THEN [hw EXCEPT ![s].bme = FALSE] ELSE hw

(* One turn of the loop of kg_dma_audit(). *)
AuditSlot(s) ==
    /\ Visit(s, "audit", "prune")
    /\ IF cur[s].bme /\ cur[s].id \notin Bridge /\ ~kg_dma_authorized(s, cur[s].id)
       THEN \E got \in {kg_dma_rec_get(s, cur[s].id)} :
              /\ crowded' = (crowded \/ got = {})
              /\ hw' = Cleared(s)
              /\ recs' = (recs \ got) \cup
                         {[r EXCEPT !.alerted = TRUE,
                                    !.cleared = @ \/ (enforcing /\ (os[s] # None \/ ecam))] :
                           r \in got}
       ELSE UNCHANGED <<hw, recs, crowded>>
    /\ UNCHANGED <<cold, os, events, config, life, cur, base, susp, touched, history>>

(* kg_dma_rec_prune(), and the end of kg_hw_workfn().  The next scan starts *)
(* from kg_ncur = 0, and kg_cur is not used before.                         *)
AuditEnd ==
    /\ pc = "prune"
    /\ recs' = {r \in recs : cur[r.slot].id = r.id}
    /\ pc' = "idle" /\ pending' = (pending \/ ~stop)
    /\ cur' = [s \in Slot |-> Absent]
    /\ quiet' = IF quiet < 3 THEN quiet + 1 ELSE 3
    /\ UNCHANGED <<machine, config, phase, stop, kicker, late, at, base, susp,
                   touched, crowded, lastPass, atLoad>>

Pass ==
    \/ WorkBegin \/ CheckEnd \/ AuditEnd
    \/ \E s \in Slot : ScanSlot(s) \/ CheckHw(s) \/ CheckOs(s) \/ AuditSlot(s)

-----------------------------------------------------------------------------
(* kg_hw_kick(), by whoever raises the posture, reads kg_hw_stop and then   *)
(* queues the work.  While the driver is up that only brings forward a pass *)
(* that is due anyway; around an exit the two steps are told apart.         *)
KickQueue ==
    /\ kicker /\ kicker' = FALSE /\ pending' = TRUE
    /\ UNCHANGED <<machine, config, phase, stop, late, scan, tables, history>>

(* kg_hw_exit(): kg_hw_stop is set, and the notifier, which looks at it,    *)
(* unregistered.                                                            *)
ExitStop ==
    /\ phase = "up" /\ phase' = "cancel" /\ stop' = TRUE
    /\ kicker' \in BOOLEAN
    /\ UNCHANGED <<machine, config, pending, late, scan, tables, history>>

(* cancel_delayed_work_sync(), and the tables are freed. *)
ExitCancel ==
    /\ phase = "cancel" /\ pc = "idle" /\ phase' = "gone"
    /\ pending' = FALSE /\ late' = kicker
    /\ UNCHANGED <<machine, config, stop, kicker, scan, tables, history>>

Next ==
    \/ Machine \/ Pass \/ KickQueue
    \/ (\E s \in Slot : InitScan(s)) \/ InitBaseline \/ InitFails
    \/ ExitStop \/ ExitCancel

Spec == Init /\ [][Next]_vars

-----------------------------------------------------------------------------
(* Properties. *)

(* Where hardware and OS disagree about a slot. *)
Discrepancy(s) == ~cold[s] /\ hw[s].id # os[s]

(* kg_note_suspect(): "alert when it persists".  A slot about which hardware *)
(* and OS have disagreed for two whole passes has been reported, unless a    *)
(* table ran out of room.                                                    *)
PersistentReported ==
    ecam => \A s \in Slot : quiet = 3 /\ Discrepancy(s) =>
        crowded \/ \E e \in susp : e.slot = s /\ e.reported

(* ... and a discrepancy that only one pass in a row met never is: hot-plug  *)
(* settles between the OS's view and the hardware's without an alert.        *)
TransientStep ==
    \A e \in susp' : e.reported /\ ~(\E f \in Noted(e.slot, e.kind) : f.reported)
        => <<e.slot, e.kind>> \in lastPass

(* kg_baseline_add_os_view(): "without it, a dGPU that wakes up an hour      *)
(* later would look like a brand-new bus master".  What the OS knew at load, *)
(* powered or not, is never announced as unauthorised.                       *)
KnownAtLoadTrusted == ecam => \A r \in recs : <<r.slot, r.id>> \notin atLoad

Unauthorised(s) ==
    /\ phase = "up" /\ Answers(s).bme /\ hw[s].id \notin Bridge
    /\ ~kg_dma_authorized(s, hw[s].id)
    /\ ecam \/ os[s] = hw[s].id

(* "Enforcement is re-applied every pass": an unauthorised device that the   *)
(* rest of the machine leaves alone is no bus master after a whole pass, and *)
(* without enforcement it has an announced record if there is room for one.  *)
MastersDealtWith ==
    \A s \in Slot : quiet >= 2 /\ Unauthorised(s) =>
        /\ ~enforcing
        /\ crowded \/ \E r \in recs : r.slot = s /\ r.id = hw[s].id /\ r.alerted

(* The audit takes bus mastering by address, from a scan some steps old: it  *)
(* never takes it from an authorised device or a bridge that was there at    *)
(* the scan.  (A device swapped since then may lose it.)                     *)
CutsUnauthorised ==
    \A s \in Slot : hw[s].bme /\ hw'[s] = [hw[s] EXCEPT !.bme = FALSE] =>
        \/ cur[s].id # hw[s].id
        \/ hw[s].id \notin Bridge \cup DmaAllow /\ <<s, hw[s].id>> \notin base

(* kg_hw_exit() frees kg_cur and kg_base after cancel_delayed_work_sync():   *)
(* no pass runs without them, unless a kick had read kg_hw_stop before exit  *)
(* set it and queued the work after the cancel.                              *)
NoPassAfterExit == pc # "idle" => phase \in {"up", "cancel"} \/ late
===============================================================================

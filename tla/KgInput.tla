-------------------------------- MODULE KgInput --------------------------------
(***************************************************************************)
(* The keyboard-path audit (kg_input.c): keyboards followed through the    *)
(* driver's own handle, the baseline of handler names, the scan that       *)
(* gathers a keyboard's handles and judges and detaches them afterwards,   *)
(* and the table of what was already reported.  Handles are identified by  *)
(* their address; their owners attach, free and re-use them at any time.   *)
(***************************************************************************)
EXTENDS Naturals, FiniteSets

CONSTANTS
    Kbd,                \* keyboards
    Ptr,                \* addresses of input handles
    Name,               \* names of input handlers
    Stock,              \* KG_BUILTIN_HANDLERS and kbd_allow=
    MAX_HANDLES, MAX_BASE, MAX_REPORTED,
    KbdEvents           \* bound: changes the rest of the machine makes

Free == [kbd |-> "none", name |-> "none", hook |-> FALSE, link |-> "none"]

VARIABLES
    h,          \* memory at each address: [kbd, name, hook, link]
    events,     \* changes so far
    enforcing,  \* kg_enforcing()
    tracked,    \* kg_kbds
    phase,      \* "register", "base", "up", "cancel", "unreg", "gone", "off"
    stop,       \* kg_input_stop
    pending,    \* kg_input_work is queued
    kicker,     \* a kg_input_kick() that has looked at the flags before exit
    pc,         \* "idle", "scan", "judge", "enforce", "grace"
    todo,       \* keyboards the scan has left
    hi,         \* hi[]: what was gathered about the first of them
    left,       \* entries of hi the current loop has left
    victim,     \* the address being detached
    baseNames,  \* kg_base_names
    kbdReported,    \* kg_reported: pairs of an address and what was reported
    late,       \* history: a kick was under way when the driver left
    quiet,      \* history: passes ended since anything changed
    crowded,    \* history: a table had no room
    recycled    \* history: addresses re-used since they were last pruned or gathered

machine == <<h, events, recycled>>
life == <<phase, stop, pending, kicker, late>>
loop == <<pc, todo, hi, left, victim>>
tables == <<baseNames, kbdReported, crowded>>
kbdVars == <<machine, enforcing, tracked, life, loop, tables, quiet>>

Baselining == phase = "base"
KbdLock == pc = "idle"                              \* kg_kbd_lock is free
OnList(k) == {p \in Ptr : h[p].kbd = k /\ h[p].link = "on"}     \* dev->h_list

KbdInit ==
    /\ h \in [Ptr -> {Free} \cup [kbd : Kbd, name : Name, hook : {FALSE}, link : {"on"}]]
    /\ events = 0 /\ enforcing \in BOOLEAN /\ tracked = {}
    /\ phase = "register" /\ stop = FALSE /\ pending = FALSE
    /\ kicker = FALSE /\ late = FALSE
    /\ pc = "idle" /\ todo = {} /\ hi = {} /\ left = {} /\ victim = "none"
    /\ baseNames = {} /\ kbdReported = {} /\ crowded = FALSE
    /\ quiet = 0 /\ recycled = {}

-----------------------------------------------------------------------------
(* The rest of the machine. *)

Change ==
    /\ events < KbdEvents /\ events' = events + 1 /\ phase \in {"register", "base", "up"}
    /\ quiet' = 0

Named(p) == \E r \in kbdReported : r[1] = p
Gathered(p) == \E e \in hi : e.ptr = p

(* input_register_handle() of another handler *)
Attach(p) ==
    /\ h[p] = Free
    /\ \E k \in Kbd, n \in Name :
         h' = [h EXCEPT ![p] = [kbd |-> k, name |-> n, hook |-> FALSE, link |-> "on"]]
    /\ recycled' = IF Named(p) \/ Gathered(p) THEN recycled \cup {p} ELSE recycled
    /\ Change /\ UNCHANGED <<enforcing, tracked, life, loop, tables>>

(* input_unregister_handle() by the owner, who then frees the handle.  While *)
(* the driver waits for RCU readers of this very handle it is not yet        *)
(* self-linked, and that case is left out here.                              *)
Release(p) ==
    /\ h[p] # Free /\ victim # p
    /\ h' = [h EXCEPT ![p] = Free]
    /\ Change /\ UNCHANGED <<enforcing, tracked, life, loop, tables, recycled>>

(* Someone changes a callback of the handler. *)
Hook(p) ==
    /\ h[p] # Free /\ ~h[p].hook
    /\ h' = [h EXCEPT ![p].hook = TRUE]
    /\ Change /\ UNCHANGED <<enforcing, tracked, life, loop, tables, recycled>>

kg_input_kick == pending' = (pending \/ (phase = "up" /\ ~stop))

kg_input_connect(k) ==
    /\ phase \in {"base", "up"} /\ k \notin tracked /\ KbdLock
    /\ tracked' = tracked \cup {k} /\ kg_input_kick
    /\ Change
    /\ UNCHANGED <<h, recycled, enforcing, phase, stop, kicker, late, loop, tables>>

kg_input_disconnect(k) ==
    /\ phase \in {"base", "up"} /\ k \in tracked /\ KbdLock /\ tracked' = tracked \ {k}
    /\ Change /\ UNCHANGED <<h, recycled, enforcing, life, loop, tables>>

Machine ==
    \/ \E p \in Ptr : Attach(p) \/ Release(p) \/ Hook(p)
    \/ \E k \in Kbd : kg_input_connect(k) \/ kg_input_disconnect(k)

-----------------------------------------------------------------------------
(* kg_input_init(): connect() runs for the keyboards that exist, then what  *)
(* is attached becomes the baseline.                                        *)
Register ==
    /\ phase = "register"
    /\ \/ /\ phase' = "base" /\ tracked' \in SUBSET Kbd
          /\ pc' = "scan" /\ todo' = tracked'
       \/ phase' = "off" /\ UNCHANGED <<tracked, pc, todo>>
    /\ UNCHANGED <<machine, enforcing, stop, pending, kicker, late, hi, left, victim,
                   tables, quiet>>

WorkBegin ==
    /\ pending /\ pc = "idle"
    /\ pending' = FALSE /\ pc' = "scan" /\ todo' = tracked
    /\ UNCHANGED <<machine, enforcing, tracked, phase, stop, kicker, late, hi, left,
                   victim, tables, quiet>>

(* kg_scan_kbd() gathers up to KG_MAX_HANDLES handles; without memory for   *)
(* them it passes the keyboard over.                                        *)
Gather(k) ==
    /\ pc = "scan" /\ k \in todo /\ phase # "gone"
    /\ \/ /\ \E P \in SUBSET OnList(k) :
               /\ Cardinality(P) = IF Cardinality(OnList(k)) < MAX_HANDLES
                                   THEN Cardinality(OnList(k)) ELSE MAX_HANDLES
               /\ hi' = {[ptr |-> p, name |-> h[p].name, hook |-> h[p].hook] : p \in P}
               /\ crowded' = (crowded \/ P # OnList(k))
               /\ recycled' = {p \in recycled : Named(p)}
          /\ left' = hi' /\ todo' = todo \ {k} /\ pc' = "judge" /\ UNCHANGED quiet
       \/ /\ todo' = todo \ {k} /\ quiet' = 0
          /\ UNCHANGED <<hi, left, pc, crowded, recycled>>
    /\ UNCHANGED <<h, events, enforcing, tracked, life, victim, baseNames, kbdReported>>

(* Mutant: the names of the baseline do not count. *)
kg_handler_authorised_ListsOnly(n) == n \in Stock

kg_handler_authorised(n) == n \in Stock \cup baseNames

(* kg_base_add() and kg_mark_reported() add only while there is room. *)
kg_base_add(n) == IF Cardinality(baseNames) < MAX_BASE THEN baseNames \cup {n} ELSE baseNames

kg_mark_reported(S) ==
    IF Cardinality(kbdReported \cup S) <= MAX_REPORTED THEN kbdReported \cup S ELSE kbdReported

(* What kg_scan_kbd() and kg_check_callbacks() have to say about an entry. *)
Verdicts(e) ==
    {<<e.ptr, what>> : what \in
        (IF ~Baselining /\ ~kg_handler_authorised(e.name) THEN {"filter"} ELSE {}) \cup
        (IF e.hook THEN {"hook"} ELSE {})}

Judge(e) ==
    /\ pc = "judge" /\ e \in left /\ left' = left \ {e}
    /\ baseNames' = IF Baselining THEN kg_base_add(e.name) ELSE baseNames
    /\ kbdReported' = kg_mark_reported(Verdicts(e))
    /\ crowded' = (crowded \/ ~(Verdicts(e) \subseteq kbdReported')
                   \/ (Baselining /\ e.name \notin baseNames'))
    /\ UNCHANGED <<machine, enforcing, tracked, life, pc, todo, hi, victim, quiet>>

JudgeEnd ==
    /\ pc = "judge" /\ left = {}
    /\ IF enforcing /\ ~Baselining THEN pc' = "enforce" /\ left' = hi /\ UNCHANGED hi
       ELSE pc' = "scan" /\ hi' = {} /\ UNCHANGED left
    /\ UNCHANGED <<machine, enforcing, tracked, life, todo, victim, tables, quiet>>

Unlink(p) ==
    IF p \in Ptr /\ h[p].link = "on"
    THEN h' = [h EXCEPT ![p].link = "poison"] /\ victim' = p /\ pc' = "grace"
    ELSE UNCHANGED <<h, victim, pc>>

(* Mutant: what was reported is taken to have been dealt with. *)
kg_detach_handle_Once(e) ==
    /\ pc = "enforce" /\ e \in left /\ left' = left \ {e}
    /\ IF kg_handler_authorised(e.name) \/ <<e.ptr, "filter">> \in kbdReported
       THEN UNCHANGED <<h, victim, pc>> ELSE Unlink(e.ptr)
    /\ UNCHANGED <<events, recycled, enforcing, tracked, life, todo, hi, tables, quiet>>

(* kg_detach_handle(): under dev->mutex, and only what is still listed. *)
kg_detach_handle(e) ==
    /\ pc = "enforce" /\ e \in left /\ left' = left \ {e}
    /\ IF kg_handler_authorised(e.name) THEN UNCHANGED <<h, victim, pc>> ELSE Unlink(e.ptr)
    /\ UNCHANGED <<events, recycled, enforcing, tracked, life, todo, hi, tables, quiet>>

(* ... and after synchronize_rcu() it is self-linked. *)
SelfLink ==
    /\ pc = "grace" /\ pc' = "enforce"
    /\ h' = [h EXCEPT ![victim].link = "self"] /\ victim' = "none"
    /\ UNCHANGED <<events, recycled, enforcing, tracked, life, todo, hi, left, tables, quiet>>

EnforceEnd ==
    /\ pc = "enforce" /\ left = {} /\ pc' = "scan" /\ hi' = {}
    /\ UNCHANGED <<machine, enforcing, tracked, life, todo, left, victim, tables, quiet>>

Listed == UNION {OnList(k) : k \in tracked}

kg_prune_reported ==
    /\ kbdReported' = {r \in kbdReported : r[1] \in Listed}
    /\ recycled' = {p \in recycled : \E r \in kbdReported' : r[1] = p}

(* The end of the scan, and of kg_input_init() or of kg_input_workfn(). *)
ScanEnd ==
    /\ pc = "scan" /\ todo = {} /\ phase # "gone" /\ pc' = "idle"
    /\ kg_prune_reported
    /\ phase' = IF Baselining THEN "up" ELSE phase
    /\ pending' = (pending \/ ~stop)
    /\ quiet' = IF quiet < 2 THEN quiet + 1 ELSE 2
    /\ UNCHANGED <<h, events, enforcing, tracked, stop, kicker, late, todo, hi, left,
                   victim, baseNames, crowded>>

Scan ==
    \/ WorkBegin \/ JudgeEnd \/ SelfLink \/ EnforceEnd \/ ScanEnd
    \/ \E k \in Kbd : Gather(k)
    \/ \E e \in left : Judge(e) \/ kg_detach_handle(e)

-----------------------------------------------------------------------------
(* kg_input_kick() from the posture ladder looks at the flags and then      *)
(* queues the work; the two are told apart only by an exit in between.      *)
KickQueue ==
    /\ kicker /\ kicker' = FALSE /\ pending' = TRUE
    /\ UNCHANGED <<machine, enforcing, tracked, phase, stop, late, loop, tables, quiet>>

(* kg_input_exit() *)
ExitStop ==
    /\ phase = "up" /\ phase' = "cancel" /\ stop' = TRUE
    /\ kicker' \in BOOLEAN /\ late' = kicker'
    /\ UNCHANGED <<machine, enforcing, tracked, pending, loop, tables, quiet>>

ExitCancel ==
    /\ phase = "cancel" /\ pc = "idle" /\ phase' = "unreg" /\ pending' = FALSE
    /\ UNCHANGED <<machine, enforcing, tracked, stop, kicker, late, loop, tables, quiet>>

(* input_unregister_handler() disconnects every keyboard. *)
ExitUnregister ==
    /\ phase = "unreg" /\ (tracked # {} => KbdLock)
    /\ phase' = "gone" /\ tracked' = {}
    /\ UNCHANGED <<machine, enforcing, stop, pending, kicker, late, loop, tables, quiet>>

KbdNext ==
    \/ Machine \/ Register \/ Scan \/ KickQueue
    \/ ExitStop \/ ExitCancel \/ ExitUnregister

KbdSpec == KbdInit /\ [][KbdNext]_kbdVars

-----------------------------------------------------------------------------
(* Properties. *)

(* "Enforcement is re-evaluated every scan, so a handler that re-attaches is *)
(* dealt with again": an unauthorised handle that stays on the list of a     *)
(* tracked keyboard for a whole scan is reported, and with enforcement is    *)
(* off the list, unless a table had no room.                                 *)
FiltersDealtWith ==
    phase = "up" /\ quiet = 2 =>
        \A p \in Listed : ~kg_handler_authorised(h[p].name) =>
            crowded \/ (~enforcing /\ <<p, "filter">> \in kbdReported)

(* Handles are gathered under RCU and detached later, by address: one whose  *)
(* handler is authorised stays on the list, unless the address was re-used   *)
(* between the two.                                                          *)
DetachesUnauthorised ==
    \A p \in Ptr : h[p].link = "on" /\ h'[p].link = "poison" =>
        h[p].name \notin Stock \cup baseNames \/ p \in recycled

(* kg_input_exit(): after cancel_delayed_work_sync() no scan runs, unless a  *)
(* kick had looked at the flags before.                                      *)
NoScanAfterExit == phase = "gone" /\ pc # "idle" => late
================================================================================

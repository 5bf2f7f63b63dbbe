------------------------------ MODULE KwKeyboard ------------------------------
(***************************************************************************)
(* The keyboard monitor of the Windows driver (hw_keylogger_detect.c): the *)
(* walk over the keyboard stacks, the table of neutralized filters and the *)
(* patch of the filter driver's dispatch table, the detach, the self-      *)
(* healing and the restore at unload.  Meanwhile filters attach, come back *)
(* and put their own handlers back.                                        *)
(*                                                                         *)
(* What runs under g_NeutralizedLock is one step.  The dispatch table      *)
(* belongs to a driver, the table of filters to device objects: one driver *)
(* can have several.                                                       *)
(***************************************************************************)
EXTENDS Integers, Sequences, SequencesExt

CONSTANTS
    Kbd,                \* \Device\KeyboardClass0..9, in the order of the walk
    BaseOf,             \* the device object at the bottom of each
    Filter,             \* the device objects of drivers that are not whitelisted
    DriverOf,           \* the driver of each
    Trusted,            \* device objects of whitelisted drivers that may attach
    WalkFrom,           \* where the walk may start: "bottom" (as the code takes it), "top"
    MAX_NEUTRALIZED,    \* MAX_NEUTRALIZED_FILTERS
    MAX_REPORTED,       \* MAX_REPORTED_FILTERS
    MaxAttach,          \* bound: devices attached
    MaxHeal,            \* bound: handlers put back by a filter
    NoDev               \* NULL

VARIABLES
    stack,              \* the device objects of each keyboard, bottom first
    dispatch,           \* MajorFunction of each driver: [read, intdc], "own" or "stub"
    table,              \* g_NeutralizedFilters: [dev, lower, read, intdc]
    reported,           \* g_ReportedFilters
    enforcing,          \* KgEnforcing()
    from,               \* where the walk starts
    mpc,                \* where the monitor is: "walk", "lock", "detach", "ensure", "wait", "stopped", "restored"
    started,            \* the scan is made by the monitor thread, no longer by DriverEntry
    kbd,                \* how many stacks this pass has begun
    current, prev,      \* the cursor of the walk
    isTopmost,          \* what was seen before the lock
    attaches, heals,    \* bounds
    \* history, never read by an action
    moved,              \* a device was attached since the pass began
    healed,             \* a handler was put back since the pass began
    raced,              \* a device was attached between the look at a topmost device and its detach
    tops                \* the filters that were topmost when the pass began

kbVars == <<stack, dispatch, table, reported, enforcing, from, mpc, started, kbd, current, prev,
            isTopmost, attaches, heals, moved, healed, raced, tops>>

Drivers == {DriverOf[d] : d \in Filter}
Own == [read |-> "own", intdc |-> "own"]
Stub == [read |-> "stub", intdc |-> "stub"]

Attached(d) == \E k \in ToSet(Kbd) : d \in ToSet(stack[k])
StackOf(d) == CHOOSE k \in ToSet(Kbd) : d \in ToSet(stack[k])
Place(d) == CHOOSE i \in 1..Len(stack[StackOf(d)]) : stack[StackOf(d)][i] = d

(* d->AttachedDevice *)
Above(d) ==
    IF Attached(d) /\ Place(d) < Len(stack[StackOf(d)]) THEN stack[StackOf(d)][Place(d) + 1] ELSE NoDev

Topmost == {d \in Filter : Attached(d) /\ Above(d) = NoDev}
Entry(d) == {i \in 1..Len(table) : table[i].dev = d}

(* Whatever is attached to lower is detached, with all that is above it. *)
IoDetachDevice(lower) ==
    IF Attached(lower) THEN [stack EXCEPT ![StackOf(lower)] = SubSeq(@, 1, Place(lower))] ELSE stack

KbInit ==
    /\ \E d \in Filter \cup {NoDev} :
          stack = [k \in ToSet(Kbd) |-> IF k = Kbd[1] /\ d # NoDev THEN <<BaseOf[k], d>> ELSE <<BaseOf[k]>>]
    /\ dispatch = [v \in Drivers |-> Own]
    /\ table = <<>> /\ reported = <<>>
    /\ enforcing \in BOOLEAN /\ from \in WalkFrom
    /\ mpc = "wait" /\ started = FALSE /\ kbd = 0
    /\ current = NoDev /\ prev = NoDev /\ isTopmost = FALSE
    /\ attaches = 0 /\ heals = 0
    /\ moved = FALSE /\ healed = FALSE /\ raced = FALSE /\ tops = {}

-----------------------------------------------------------------------------
(* The machine *)

IoAttachDevice(d) ==
    /\ mpc # "restored" /\ attaches < MaxAttach /\ ~Attached(d)
    /\ attaches' = attaches + 1
    /\ \E k \in ToSet(Kbd) : stack' = [stack EXCEPT ![k] = Append(@, d)]
    /\ moved' = TRUE
    /\ raced' = (raced \/ (mpc \in {"lock", "detach"} /\ isTopmost))
    /\ UNCHANGED <<dispatch, table, reported, enforcing, from, mpc, started, kbd, current, prev,
                   isTopmost, heals, healed, tops>>

(* A filter driver puts one of its handlers back. *)
RestoreHandler(v) ==
    /\ mpc # "restored" /\ heals < MaxHeal
    /\ \E h \in {"read", "intdc"} :
          dispatch[v][h] = "stub" /\ dispatch' = [dispatch EXCEPT ![v][h] = "own"]
    /\ heals' = heals + 1
    /\ healed' = TRUE
    /\ UNCHANGED <<stack, table, reported, enforcing, from, mpc, started, kbd, current, prev,
                   isTopmost, attaches, moved, raced, tops>>

-----------------------------------------------------------------------------
(* PciDetectDiscrepancies *)

(* DriverEntry's scan, later a timeout of the thread's wait. *)
BeginPass ==
    /\ mpc = "wait"
    /\ mpc' = "walk"
    /\ kbd' = 0 /\ current' = NoDev /\ prev' = NoDev
    /\ moved' = FALSE /\ healed' = FALSE /\ tops' = Topmost
    /\ UNCHANGED <<stack, dispatch, table, reported, enforcing, from, started, isTopmost, attaches,
                   heals, raced>>

(* The next keyboard, at the end of a stack; after the last one the pass is over. *)
NextKeyboard ==
    /\ mpc = "walk" /\ current = NoDev
    /\ IF kbd < Len(Kbd)
       THEN LET s == stack[Kbd[kbd + 1]]
            IN /\ kbd' = kbd + 1
               /\ current' = (IF from = "top" THEN Last(s) ELSE s[1])
               /\ UNCHANGED <<mpc, started>>
       ELSE /\ mpc' = (IF started THEN "ensure" ELSE "wait")
            /\ started' = TRUE
            /\ UNCHANGED <<kbd, current>>
    /\ prev' = NoDev
    /\ UNCHANGED <<stack, dispatch, table, reported, enforcing, from, isTopmost, attaches, heals,
                   moved, healed, raced, tops>>

WalkUp(d) == current' = Above(d) /\ prev' = d

(* Mutant: the lower device of a filter is the last filter below it. *)
PassOver_KeepsPrev ==
    /\ mpc = "walk" /\ current \notin Filter \cup {NoDev}
    /\ current' = Above(current)
    /\ UNCHANGED <<stack, dispatch, table, reported, enforcing, from, mpc, started, kbd, prev,
                   isTopmost, attaches, heals, moved, healed, raced, tops>>

(* A whitelisted driver is passed over. *)
PassOver ==
    /\ mpc = "walk" /\ current \notin Filter \cup {NoDev}
    /\ WalkUp(current)
    /\ UNCHANGED <<stack, dispatch, table, reported, enforcing, from, mpc, started, kbd, isTopmost,
                   attaches, heals, moved, healed, raced, tops>>

(* Mutant: every filter counts as topmost. *)
LookAtFilter_AlwaysTop ==
    /\ mpc = "walk" /\ current \in Filter
    /\ isTopmost' = TRUE
    /\ IF enforcing THEN mpc' = "lock" /\ UNCHANGED <<current, prev>>
                    ELSE WalkUp(current) /\ UNCHANGED mpc
    /\ UNCHANGED <<stack, dispatch, table, reported, enforcing, from, started, kbd, attaches, heals,
                   moved, healed, raced, tops>>

(* A filter: look whether it is topmost, and report it unless one of the tables has it. *)
LookAtFilter ==
    /\ mpc = "walk" /\ current \in Filter
    /\ isTopmost' = (Above(current) = NoDev)
    /\ LET listed == ~enforcing /\ current \in ToSet(reported)
           already == Entry(current) # {} \/ listed
       IN reported' = IF ~already /\ ~enforcing /\ Len(reported) < MAX_REPORTED
                      THEN Append(reported, current) ELSE reported
    /\ IF enforcing THEN mpc' = "lock" /\ UNCHANGED <<current, prev>>
                    ELSE WalkUp(current) /\ UNCHANGED mpc
    /\ UNCHANGED <<stack, dispatch, table, enforcing, from, started, kbd, attaches, heals, moved,
                   healed, raced, tops>>

(* What the table and the dispatch table become; null: no handler saved. *)
NewEntry(d, lower) ==
    LET own == dispatch[DriverOf[d]]
        patched == own.read = "stub"
    IN [dev |-> d, lower |-> lower, read |-> IF patched THEN "null" ELSE own.read,
        intdc |-> IF patched THEN "null" ELSE own.intdc]

(* NeutralizeKbdFilterDriver: a known device only gets its lower device updated. *)
NeutralizeKbdFilterDriver ==
    /\ mpc = "lock"
    /\ IF Entry(current) # {}
       THEN /\ table' = [i \in 1..Len(table) |->
                            IF i \in Entry(current) THEN [table[i] EXCEPT !.lower = prev] ELSE table[i]]
            /\ mpc' = "walk" /\ WalkUp(current) /\ UNCHANGED dispatch
       ELSE IF Len(table) >= MAX_NEUTRALIZED
            THEN mpc' = "walk" /\ WalkUp(current) /\ UNCHANGED <<table, dispatch>>
            ELSE /\ table' = Append(table, NewEntry(current, prev))
                 /\ dispatch' = IF dispatch[DriverOf[current]].read = "stub" THEN dispatch
                                ELSE [dispatch EXCEPT ![DriverOf[current]] = Stub]
                 /\ mpc' = "detach" /\ UNCHANGED <<current, prev>>
    /\ UNCHANGED <<stack, reported, enforcing, from, started, kbd, isTopmost, attaches, heals,
                   moved, healed, raced, tops>>

(* The second tier, outside the lock, by what was seen before it. *)
Detach ==
    /\ mpc = "detach"
    /\ LET s == IF isTopmost /\ prev # NoDev THEN IoDetachDevice(prev) ELSE stack
       IN /\ stack' = s
          /\ current' = IF s = stack THEN Above(current) ELSE NoDev
    /\ prev' = current
    /\ mpc' = "walk"
    /\ UNCHANGED <<dispatch, table, reported, enforcing, from, started, kbd, isTopmost, attaches,
                   heals, moved, healed, raced, tops>>

-----------------------------------------------------------------------------
(* One entry: what is not the stub is saved and overwritten. *)
Repatch(st, i) ==
    LET v == DriverOf[st.table[i].dev]
        now == st.dispatch[v]
        saved == [h \in {"read", "intdc"} |-> IF now[h] = "stub" THEN st.table[i][h] ELSE now[h]]
    IN [table |-> [st.table EXCEPT ![i].read = saved.read, ![i].intdc = saved.intdc],
        dispatch |-> [st.dispatch EXCEPT ![v] = Stub]]

EnsureNeutralizedStillPatched ==
    /\ mpc = "ensure"
    /\ LET st == FoldLeftDomain(Repatch, [table |-> table, dispatch |-> dispatch], table)
       IN table' = st.table /\ dispatch' = st.dispatch
    /\ healed' = FALSE
    /\ mpc' = "wait"
    /\ UNCHANGED <<stack, reported, enforcing, from, started, kbd, current, prev, isTopmost,
                   attaches, heals, moved, raced, tops>>

(* The thread sees its stop event and ends, *)
Stop ==
    /\ mpc = "wait" /\ started
    /\ mpc' = "stopped"
    /\ UNCHANGED <<stack, dispatch, table, reported, enforcing, from, started, kbd, current, prev,
                   isTopmost, attaches, heals, moved, healed, raced, tops>>

(* Mutant: the second handler is forgotten. *)
Restore_ReadOnly(disp, e) ==
    [disp EXCEPT ![DriverOf[e.dev]].read =
        IF e.read # "null" /\ @ = "stub" THEN e.read ELSE @]

(* One entry of HwKeyloggerUninitialize: a saved handler replaces the stub. *)
Restore(disp, e) ==
    [disp EXCEPT ![DriverOf[e.dev]] =
        [h \in {"read", "intdc"} |-> IF e[h] # "null" /\ @[h] = "stub" THEN e[h] ELSE @[h]]]

(* and the unload restores the dispatch tables. *)
HwKeyloggerUninitialize ==
    /\ mpc = "stopped"
    /\ dispatch' = FoldLeft(Restore, dispatch, table)
    /\ mpc' = "restored"
    /\ UNCHANGED <<stack, table, reported, enforcing, from, started, kbd, current, prev, isTopmost,
                   attaches, heals, moved, healed, raced, tops>>

HwMonitorThreadFunc ==
    \/ BeginPass \/ NextKeyboard \/ PassOver \/ LookAtFilter \/ NeutralizeKbdFilterDriver \/ Detach
    \/ EnsureNeutralizedStillPatched

KbNext ==
    \/ HwMonitorThreadFunc \/ Stop \/ HwKeyloggerUninitialize
    \/ \E d \in Filter \cup Trusted : IoAttachDevice(d)
    \/ \E v \in Drivers : RestoreHandler(v)

KbSpec == KbInit /\ [][KbNext]_kbVars

-----------------------------------------------------------------------------
(* After the unload no driver is left with a handler in the code that has  *)
(* gone: every dispatch table is the driver's own again, although only the *)
(* first of several device objects of a driver saved it, and although the  *)
(* driver may have put one handler back in the meantime                    *)
(* (hw_keylogger_detect.c:470-480 and :906-930).                           *)
HandlersRestored == mpc = "restored" => \A v \in Drivers : dispatch[v] = Own

(* Between two passes, if nothing was attached and no handler put back     *)
(* since the last one began, the two tables fit the stacks: every filter   *)
(* in a stack is in the table unless that is full, its driver's dispatch   *)
(* table is the stub, and the stub sends its requests to the device        *)
(* directly below, so the keyboard still works                             *)
(* (hw_keylogger_detect.c:111-135, :446-452 and :533-556).                 *)
TablesFitStacks ==
    mpc = "wait" /\ started /\ enforcing /\ from = "bottom" /\ ~moved /\ ~healed =>
        \A d \in Filter : Attached(d) =>
            \/ Entry(d) = {} /\ Len(table) = MAX_NEUTRALIZED
            \/ \E i \in Entry(d) : /\ table[i].lower = stack[StackOf(d)][Place(d) - 1]
                                   /\ dispatch[DriverOf[d]] = Stub

(* A whitelisted driver stays where it attached: only an unauthorized      *)
(* topmost filter is detached, unless the other attached after the look    *)
(* and before the detach (hw_keylogger_detect.c:611 and :497).             *)
TrustedNotDetached ==
    [][~raced => \A d \in Trusted : Attached(d) => Attached(d)']_kbVars

(* README.md:189: the monitor thread "re-applies both tiers": a filter     *)
(* that is topmost throughout a pass is not in the stack after it.         *)
BothTiersReapplied ==
    mpc = "wait" /\ started /\ enforcing /\ ~moved => \A d \in tops : ~Attached(d)
=============================================================================

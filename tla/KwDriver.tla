------------------------------- MODULE KwDriver -------------------------------
(***************************************************************************)
(* The Windows driver as a whole: DriverEntry with its error paths and the *)
(* unload (driver_main.c), the threads that run in between (the integrity  *)
(* worker, the keyboard monitor, the load-guard worker), the router every  *)
(* alert goes through and the fail-safe mode (shared_state.c), and the     *)
(* region of the secure channel (secure_comms.c), which is allocated late  *)
(* and freed early.                                                        *)
(*                                                                         *)
(* Every actor has the list of what it still has to do in this call.  One  *)
(* entry is one step, so another thread can come between any two.          *)
(***************************************************************************)
EXTENDS Integers, Sequences, FiniteSets, SequencesExt

CONSTANTS
    Cpu,            \* processors
    MaxTicks,       \* bound: periods of each thread
    Beginnings,     \* what may be wrong with the machine at start: sets of "idt", "hook", "text",
                    \* "filter", "vuln" and "crypto" (BCrypt fails)
    Threats,        \* what may go wrong later
    MaxThreats      \* bound: how many of these at a time

VARIABLES
    phase,          \* the step DriverEntry is at; "up", "unloading", "failing", "unloaded", "failed"
    todo,           \* what each actor still has to do
    thread,         \* each thread: "none", "runs" or "gone"
    stop,           \* the threads whose stop event is set
    ticks,          \* periods of each thread so far
    comm,           \* g_SharedMemKernel: "none", "there", or "freed" while the pointer still stands
    parts,          \* what else exists: "cache", "pmu", "patch", "device", "link"
    stateHash,      \* StateHash holds the hash of the policy block
    textHash,       \* g_Baseline: "none", or the sections were "clean" or "patched" when it was taken
    enforce,        \* EnforceMode
    failSafe,       \* FailSafeMode
    full,           \* the processors at MitigateFullSpectrum
    known,          \* the keyboard filter is in a table of the monitor
    threats,        \* what is wrong now
    channel,        \* the types of the notifications written, each where it first appears
    \* history, never read by an action
    strays,         \* actors that wrote to the region after it was freed
    causes,         \* the alerts that asked for fail-safe
    early           \* the policy hash was checked before it was set

kdVars == <<phase, todo, thread, stop, ticks, comm, parts, stateHash, textHash, enforce, failSafe,
            full, known, threats, channel, strays, causes, early>>

Threads == {"integ", "hw", "lg"}
Actor   == Threads \cup {"boss"}

Do(op, type, level) == [op |-> op, type |-> type, level |-> level]
Step(op) == Do(op, "", 0)

-----------------------------------------------------------------------------
(* DispatchCrossModuleEvent, for the alerts this build can raise, all at PASSIVE_LEVEL *)
DispatchCrossModuleEvent(type, level) ==
    CASE type = "IDT_HOOK" ->
            <<Step("escalate"), Do("notify", type, level)>>
      [] type \in {"TEXT_PATCH", "DISPATCH_HOOK"} ->
            <<Do("notify", type, 2), Do("failsafe", type, 2), Do("notify", type, level)>>
      [] type = "STATE_CORRUPT" ->
            <<Do("failsafe", type, level), Do("notify", type, level)>>
      [] type = "VULN_DRIVER" /\ level >= 2 ->
            <<Do("notify", type, level), Do("failsafe", type, level)>>
      [] OTHER ->
            <<Do("notify", type, level)>>

-----------------------------------------------------------------------------
(* What DriverEntry, its error paths and the unload call, in order *)

LoadGuardDown  == <<Do("stop", "lg", 0), Do("join", "lg", 0)>>
CommDown       == <<Step("free"), Step("forget")>>
PmuDown        == <<Do("drop", "pmu", 0)>>
HwDown         == <<Do("stop", "hw", 0), Do("join", "hw", 0), Do("drop", "patch", 0)>>
IntegrityDown  == <<Do("stop", "integ", 0), Do("join", "integ", 0)>>
CacheDown      == <<Do("drop", "cache", 0)>>

(* Mutant: the first error path to have something to undo does not. *)
ErrorPath_KeepsCache(step) ==
    LET shared == LoadGuardDown \o CommDown \o PmuDown \o IntegrityDown \o CacheDown
    IN CASE step \in {"cache", "integ"} -> <<>>
         [] step = "comm"   -> PmuDown \o IntegrityDown \o CacheDown
         [] step = "device" -> shared
         [] step = "link"   -> <<Do("drop", "device", 0)>> \o shared

(* The error path taken when a step of DriverEntry fails. *)
ErrorPath(step) ==
    LET shared == LoadGuardDown \o CommDown \o PmuDown \o IntegrityDown \o CacheDown
    IN CASE step = "cache"  -> <<>>
         [] step = "integ"  -> CacheDown
         [] step = "comm"   -> PmuDown \o IntegrityDown \o CacheDown
         [] step = "device" -> shared
         [] step = "link"   -> <<Do("drop", "device", 0)>> \o shared

ScpdDriverUnload ==
    LoadGuardDown \o CommDown \o PmuDown \o HwDown \o IntegrityDown \o CacheDown
    \o <<Do("drop", "link", 0), Do("drop", "device", 0)>>

(* What each step of DriverEntry does when it succeeds: the checks it makes itself come first. *)
EntrySteps == <<"cache", "integ", "hw", "pmu", "comm", "lg", "device", "link", "hash">>

After(step) ==
    LET i == CHOOSE j \in 1..Len(EntrySteps) : EntrySteps[j] = step
    IN IF i = Len(EntrySteps) THEN "up" ELSE EntrySteps[i + 1]

Fatal == {"cache", "integ", "comm", "device", "link"}

FirstChecks == <<Step("baseline"), Step("idt"), Step("hook")>>

EntryWork(step) ==
    CASE step = "integ"  -> FirstChecks \o <<Do("start", "integ", 0)>>
      [] step = "hw"     -> <<Step("filter"), Do("start", "hw", 0)>>
      [] step = "comm"   -> <<Step("allocate")>>
      [] step = "lg"     -> <<Do("start", "lg", 0)>> \o DispatchCrossModuleEvent("LOAD_POLICY", 1)
      [] step = "hash"   -> <<Step("hash")>>
      [] OTHER           -> <<Do("add", step, 0)>>

(* One period of each thread. *)
Period(t) ==
    CASE t = "integ" -> <<Step("idt"), Step("hook"), Step("text"), Step("state")>>
      [] t = "hw"    -> <<Step("filter")>>
      [] t = "lg"    -> <<Step("vuln")>>

-----------------------------------------------------------------------------
(* KgLoadPolicy: the registry decides if it holds 0 or 1, else the absence of a hypervisor. *)
KgLoadPolicy(registry, hypervisor) == IF registry \in {0, 1} THEN registry = 1 ELSE ~hypervisor

KdInit ==
    /\ phase = EntrySteps[1]
    /\ todo = [a \in Actor |-> <<>>]
    /\ thread = [t \in Threads |-> "none"] /\ stop = {} /\ ticks = [t \in Threads |-> 0]
    /\ comm = "none" /\ parts = {} /\ stateHash = FALSE /\ textHash = "none"
    /\ enforce \in {KgLoadPolicy(registry, hv) : registry \in 0..2, hv \in BOOLEAN}
    /\ failSafe = FALSE /\ full = {} /\ known = FALSE
    /\ threats \in Beginnings
    /\ channel = <<>>
    /\ strays = {} /\ causes = {} /\ early = FALSE

Loaded == phase \notin {"unloaded", "failed"}

(* DriverEntry goes on to its next step. *)
DriverEntry ==
    /\ phase \in ToSet(EntrySteps) /\ todo["boss"] = <<>>
    /\ todo' = [todo EXCEPT !["boss"] = EntryWork(phase)]
    /\ phase' = After(phase)
    /\ UNCHANGED <<thread, stop, ticks, comm, parts, stateHash, textHash, enforce, failSafe, full,
                   known, threats, channel, strays, causes, early>>

(* A step fails: the ones that are not fatal are passed over, the others end DriverEntry. *)
DriverEntryFails ==
    /\ phase \in Fatal \cup {"hw", "lg"} /\ todo["boss"] = <<>>
    /\ phase' = IF phase \in Fatal THEN "failing" ELSE After(phase)
    /\ \E checked \in BOOLEAN :
          \* A module may fail before its first checks or when it starts its thread after them.
          todo' = [todo EXCEPT !["boss"] = (IF checked /\ phase = "integ" THEN FirstChecks
                                            ELSE IF phase = "hw" THEN <<Step("filter")>> ELSE <<>>)
                                           \o (IF phase \in Fatal THEN ErrorPath(phase) ELSE <<>>)]
    /\ UNCHANGED <<thread, stop, ticks, comm, parts, stateHash, textHash, enforce, failSafe, full,
                   known, threats, channel, strays, causes, early>>

Unload ==
    /\ phase = "up" /\ todo["boss"] = <<>>
    /\ phase' = "unloading"
    /\ todo' = [todo EXCEPT !["boss"] = ScpdDriverUnload]
    /\ UNCHANGED <<thread, stop, ticks, comm, parts, stateHash, textHash, enforce, failSafe, full,
                   known, threats, channel, strays, causes, early>>

(* The image goes away once the unload, or the failed DriverEntry, has returned. *)
Return ==
    /\ phase \in {"unloading", "failing"} /\ todo["boss"] = <<>>
    /\ phase' = IF phase = "unloading" THEN "unloaded" ELSE "failed"
    /\ UNCHANGED <<todo, thread, stop, ticks, comm, parts, stateHash, textHash, enforce, failSafe,
                   full, known, threats, channel, strays, causes, early>>

(* A thread wakes up: its stop event is set, or a period begins. *)
ThreadWakes(t) ==
    /\ Loaded /\ thread[t] = "runs" /\ todo[t] = <<>>
    /\ IF t \in stop
       THEN thread' = [thread EXCEPT ![t] = "gone"] /\ UNCHANGED <<todo, ticks>>
       ELSE /\ ticks[t] < MaxTicks
            /\ ticks' = [ticks EXCEPT ![t] = @ + 1]
            /\ todo' = [todo EXCEPT ![t] = Period(t)]
            /\ UNCHANGED thread
    /\ UNCHANGED <<phase, stop, comm, parts, stateHash, textHash, enforce, failSafe, full, known,
                   threats, channel, strays, causes, early>>

(* The machine changes under the driver. *)
Appears(x) ==
    /\ phase = "up" /\ x \notin threats /\ Cardinality(threats \cap Threats) < MaxThreats
    /\ threats' = threats \cup {x}
    /\ UNCHANGED <<phase, todo, thread, stop, ticks, comm, parts, stateHash, textHash, enforce,
                   failSafe, full, known, channel, strays, causes, early>>

-----------------------------------------------------------------------------
(* Now(a, op): the next thing a has to do is op.  Then(a, ops): it is done, ops come next. *)
Now(a, op) == Loaded /\ todo[a] # <<>> /\ Head(todo[a]).op = op
Then(a, ops) == todo' = [todo EXCEPT ![a] = ops \o Tail(todo[a])]
Task(a) == Head(todo[a])

(* Mutant: the pointer is not looked at. *)
Notify_Unchecked(a) ==
    /\ Now(a, "notify")
    /\ Then(a, <<Do("write", Task(a).type, Task(a).level)>>)
    /\ UNCHANGED <<phase, thread, stop, ticks, comm, parts, stateHash, textHash, enforce, failSafe,
                   full, known, threats, channel, strays, causes, early>>

(* SecureCommNotify looks at the pointer, *)
Notify(a) ==
    /\ Now(a, "notify")
    /\ Then(a, IF comm = "none" THEN <<>> ELSE <<Do("write", Task(a).type, Task(a).level)>>)
    /\ UNCHANGED <<phase, thread, stop, ticks, comm, parts, stateHash, textHash, enforce, failSafe,
                   full, known, threats, channel, strays, causes, early>>

(* and then writes to the region; without an HMAC the index stays where it was. *)
Write(a) ==
    /\ Now(a, "write")
    /\ Then(a, <<>>)
    /\ IF comm = "there" /\ "crypto" \in threats THEN UNCHANGED <<channel, strays>>
       ELSE IF comm = "there"
       THEN /\ channel' = IF Task(a).type \in ToSet(channel) THEN channel
                         ELSE Append(channel, Task(a).type)
            /\ UNCHANGED strays
       ELSE strays' = strays \cup {a} /\ UNCHANGED channel
    /\ UNCHANGED <<phase, thread, stop, ticks, comm, parts, stateHash, textHash, enforce, failSafe,
                   full, known, threats, causes, early>>

(* EnterFailSafeMode: the flag is read, then set; then come the processors and the notification. *)
FailSafeCheck(a) ==
    /\ Now(a, "failsafe")
    /\ Then(a, IF failSafe THEN <<>> ELSE <<Step("setflag")>>)
    /\ causes' = causes \cup {Task(a).type}
    /\ UNCHANGED <<phase, thread, stop, ticks, comm, parts, stateHash, textHash, enforce, failSafe,
                   full, known, threats, channel, strays, early>>

FailSafeSet(a) ==
    /\ Now(a, "setflag")
    /\ failSafe' = TRUE
    /\ Then(a, <<Step("allfull"), Do("notify", "FAIL_SAFE", 2)>>)
    /\ UNCHANGED <<phase, thread, stop, ticks, comm, parts, stateHash, textHash, enforce, full,
                   known, threats, channel, strays, causes, early>>

EnterFailSafeMode(a) == FailSafeCheck(a) \/ FailSafeSet(a)

(* The processors at full spectrum: all of them, or the one the alert was raised on. *)
Escalate(a) ==
    /\ \/ Now(a, "allfull") /\ full' = Cpu
       \/ Now(a, "escalate") /\ \E c \in Cpu : full' = full \cup {c}
    /\ Then(a, <<>>)
    /\ UNCHANGED <<phase, thread, stop, ticks, comm, parts, stateHash, textHash, enforce, failSafe,
                   known, threats, channel, strays, causes, early>>

(* A check: an alert if it finds something.  One alert stands for those of all vectors, *)
(* dispatch entries or drivers it looks at.                                             *)
Look(a, op, found, type, levels) ==
    /\ Now(a, op)
    /\ \/ found /\ \E level \in levels : Then(a, DispatchCrossModuleEvent(type, level))
       \/ ~found /\ Then(a, <<>>)
    /\ UNCHANGED <<phase, thread, stop, ticks, comm, parts, stateHash, textHash, enforce, failSafe,
                   full, known, threats, channel, strays, causes, early>>

IdtVerifyKeyboardHandler(a) == Look(a, "idt", "idt" \in threats, "IDT_HOOK", {1, 2})
ScanKeyboardDrivers(a) == Look(a, "hook", "hook" \in threats, "DISPATCH_HOOK", {2})
LgReportDenied(a) ==
    Look(a, "vuln", "vuln" \in threats /\ "crypto" \notin threats, "VULN_DRIVER", {1, 2})

(* The sections as they are now; none without a list of modules or without digests *)
BuildIntegrityBaseline(a) ==
    /\ Now(a, "baseline")
    /\ textHash' \in {"none", IF "crypto" \in threats THEN "none"
                              ELSE IF "text" \in threats THEN "patched" ELSE "clean"}
    /\ Then(a, <<>>)
    /\ UNCHANGED <<phase, thread, stop, ticks, comm, parts, stateHash, enforce, failSafe, full,
                   known, threats, channel, strays, causes, early>>

(* Mutant: sections are compared without a baseline. *)
VerifyModuleIntegrity_NoBaseline(a) ==
    \E thatOne \in BOOLEAN :
        Look(a, "text", thatOne /\ textHash # "patched" /\ "text" \in threats, "TEXT_PATCH", {2})

(* One section in each period, which need not be the one that changed. *)
VerifyModuleIntegrity(a) ==
    LET differs == textHash = "clean" /\ "text" \in threats /\ "crypto" \notin threats
    IN \E thatOne \in BOOLEAN : Look(a, "text", thatOne /\ differs, "TEXT_PATCH", {2})

(* Nothing after DriverEntry changes the block that is hashed; a digest that cannot be *)
(* computed counts as one that differs.                                                *)
VerifySharedStateIntegrity(a) ==
    /\ Now(a, "state")
    /\ early' = (early \/ ~stateHash)
    /\ Then(a, IF stateHash /\ "crypto" \notin threats THEN <<>>
               ELSE DispatchCrossModuleEvent("STATE_CORRUPT", 2))
    /\ UNCHANGED <<phase, thread, stop, ticks, comm, parts, stateHash, textHash, enforce, failSafe,
                   full, known, threats, channel, strays, causes>>

(* PciDetectDiscrepancies: a filter is noted once; the router hears of it with enforcement on. *)
DetectFilter(a) ==
    /\ Now(a, "filter")
    /\ IF "filter" \in threats /\ ~known
       THEN /\ known' = TRUE
            /\ IF enforce
               THEN /\ parts' = parts \cup {"patch"}
                    /\ Then(a, DispatchCrossModuleEvent("KBD_FILTER_NEUTRALIZED", 2))
               ELSE Then(a, <<>>) /\ UNCHANGED parts
       ELSE Then(a, <<>>) /\ UNCHANGED <<known, parts>>
    /\ UNCHANGED <<phase, thread, stop, ticks, comm, stateHash, textHash, enforce, failSafe, full,
                   threats, channel, strays, causes, early>>

(* The resources the steps of DriverEntry make and the unload and the error paths take away *)
kdRest == <<phase, ticks, textHash, enforce, failSafe, full, known, threats, channel, strays,
            causes, early>>

Part(a) ==
    /\ \/ Now(a, "add") /\ parts' = parts \cup {Task(a).type}
       \/ Now(a, "drop") /\ parts' = parts \ {Task(a).type}
    /\ Then(a, <<>>)
    /\ UNCHANGED <<kdRest, thread, stop, comm, stateHash>>

StartThread(a) ==
    /\ Now(a, "start")
    /\ thread' = [thread EXCEPT ![Task(a).type] = "runs"]
    /\ Then(a, <<>>)
    /\ UNCHANGED <<kdRest, parts, stop, comm, stateHash>>

StopThread(a) ==
    /\ \/ Now(a, "stop") /\ stop' = stop \cup {Task(a).type}
       \/ Now(a, "join") /\ thread[Task(a).type] # "runs" /\ UNCHANGED stop
    /\ Then(a, <<>>)
    /\ UNCHANGED <<kdRest, parts, thread, comm, stateHash>>

SecureCommInitialize(a) ==
    /\ Now(a, "allocate")
    /\ comm' = "there"
    /\ Then(a, <<>>)
    /\ UNCHANGED <<kdRest, parts, thread, stop, stateHash>>

SecureCommUninitialize(a) ==
    /\ \/ Now(a, "free") /\ comm' = "freed"
       \/ Now(a, "forget") /\ comm' = "none"
    /\ Then(a, <<>>)
    /\ UNCHANGED <<kdRest, parts, thread, stop, stateHash>>

UpdateSharedStateHash(a) ==
    /\ Now(a, "hash")
    /\ stateHash' = ("crypto" \notin threats)
    /\ Then(a, <<>>)
    /\ UNCHANGED <<kdRest, parts, thread, stop, comm>>

KdNext ==
    \/ DriverEntry \/ DriverEntryFails \/ Unload \/ Return
    \/ \E t \in Threads : ThreadWakes(t)
    \/ \E x \in Threats : Appears(x)
    \/ \E a \in Actor :
          \/ Notify(a) \/ Write(a) \/ EnterFailSafeMode(a) \/ Escalate(a)
          \/ IdtVerifyKeyboardHandler(a) \/ ScanKeyboardDrivers(a) \/ LgReportDenied(a)
          \/ BuildIntegrityBaseline(a) \/ VerifyModuleIntegrity(a) \/ VerifySharedStateIntegrity(a)
          \/ DetectFilter(a) \/ Part(a) \/ StartThread(a) \/ StopThread(a)
          \/ SecureCommInitialize(a) \/ SecureCommUninitialize(a) \/ UpdateSharedStateHash(a)

KdSpec == KdInit /\ [][KdNext]_kdVars

-----------------------------------------------------------------------------
(* A driver that is gone leaves nothing behind: after an unload no thread  *)
(* of it runs, no dispatch table points into it, and the device, the       *)
(* link and the region are gone; after a failed DriverEntry the same holds *)
(* except for the keyboard monitor, which no error path of DriverEntry     *)
(* takes down (driver_main.c:187-243).                                     *)
UnloadLeavesNothing ==
    /\ phase = "unloaded" => parts = {} /\ comm = "none" /\ \A t \in Threads : thread[t] # "runs"
    /\ phase = "failed"   => parts \subseteq {"patch"} /\ comm = "none"
                            /\ \A t \in Threads \ {"hw"} : thread[t] # "runs"

(* Only the two threads that the unload stops after it has freed the       *)
(* region (driver_main.c:116-120) can still write to it, never the load    *)
(* guard and never the unload itself, and none while the driver is up.     *)
StraysAreLateThreads ==
    /\ strays \subseteq {"integ", "hw"}
    /\ strays # {} => phase \in {"unloading", "failing", "unloaded", "failed"}

(* Fail-safe is entered for a reason, and shows: once it is on, and nobody *)
(* is in the middle of entering it, every processor is at full spectrum.   *)
(* The reason is an alert about something that is there: a hook, a denied  *)
(* driver, a section patched since the baseline; a corrupt policy block    *)
(* only if the integrity thread looked before DriverEntry set the hash     *)
(* (driver_main.c:252) or BCrypt fails (shared_state.c:262).  For a denied *)
(* driver the channel holds the cause before the effect                    *)
(* (shared_state.c:384), unless somebody else caused it.                   *)
FailSafeIsJustified ==
    LET first(type) == {i \in 1..Len(channel) : channel[i] = type}
    IN /\ failSafe => causes # {}
       /\ "DISPATCH_HOOK" \in causes => "hook" \in threats
       /\ "VULN_DRIVER" \in causes => "vuln" \in threats
       /\ "TEXT_PATCH" \in causes => "text" \in threats /\ textHash = "clean"
       /\ "STATE_CORRUPT" \in causes => early \/ "crypto" \in threats
       /\ failSafe /\ (\A a \in Actor : todo[a] = <<>>) => full = Cpu
       /\ causes = {"VULN_DRIVER"} =>
             \A i \in first("FAIL_SAFE") : \E j \in first("VULN_DRIVER") : j < i
=============================================================================

------------------------------- MODULE KgModules -------------------------------
(***************************************************************************)
(* What the driver does about other kernel modules: the load gate          *)
(* (kg_modgate.c), the .text baselines that follow modules as they come    *)
(* and go (kg_integrity.c), and the order in which kg_init() and kg_exit() *)
(* bring them up and take them down.  Modules are loaded and unloaded by   *)
(* other processes the whole time, and mod_lock is written by another one. *)
(* The module loader itself (notifier chains, references, RCU list) is the *)
(* kernel's and is modelled from how the driver uses it.                   *)
(***************************************************************************)
EXTENDS Integers, Sequences, FiniteSets, FiniteSetsExt

CONSTANTS
    Mod,                    \* the other modules
    ModName, ModVersion,    \* their names and srcversions
    DenyParam, AllowParam,  \* mod_deny=, mod_allow=: entries [name, srcver, ok]
    LIST_MAX,               \* KG_GATE_LIST_MAX
    TEXT_MAX,               \* the module texts that text_max_mb has room for
    MaxWrites, MaxLoads     \* bounds: writes of mod_lock, loads of modules

ASSUME ModulesAssumption == {LIST_MAX, TEXT_MAX, MaxWrites, MaxLoads} \subseteq Nat

AnyVersion == ""

(* kg_gate_parse(): malformed entries are skipped, and only the first       *)
(* KG_GATE_LIST_MAX of the others are used.                                 *)
kg_gate_parse(csv) ==
    LET good == SelectSeq(csv, LAMBDA e : e.ok)
    IN  {good[i] : i \in 1..(IF Len(good) < LIST_MAX THEN Len(good) ELSE LIST_MAX)}

kg_deny == kg_gate_parse(DenyParam)
kg_allow == {e.name : e \in kg_gate_parse(AllowParam)}

kg_gate_denied(m) ==
    \E e \in kg_deny : /\ e.name = ModName[m]
                       /\ e.srcver \in {AnyVersion, ModVersion[m]}

VARIABLES
    st,             \* module loader: where each module is
    loads,          \* ... and how many loads there were
    lockRead,       \* the p_lock a gate notifier has read, per module
    step,           \* where kg_init() or kg_exit() is; "up" between them, "gone" after
    undo,           \* kg_init() failed and is taking down what it had set up
    p_lock, base, ready,    \* lock mode, its baseline, kg_gate_ready
    writer,         \* the process that writes mod_lock: [pc, was, left]
    snap,           \* modules kg_for_each_live_module() holds for a snapshot
    held,           \* ... and for the text baseline
    gateNb, textNb, \* the two notifiers are registered
    regions,        \* baselines held for each module's text
    skipped,        \* ... and the modules whose text found no room
    worker,         \* kg_integ_work: "off", "queued", "verify", "tail"
    ahead,          \* the modules whose text the pass still has to verify
    reported,       \* history: this load was reported
    gap,            \* history: past the gate before it existed, not live at the walk
    odd             \* history: came or went while the notifier was being set up

vars == <<st, loads, lockRead, step, undo, p_lock, base, ready, writer, snap, held,
          gateNb, textNb, regions, skipped, worker, ahead, reported, gap, odd>>

loader == <<st, loads, lockRead>>
gate == <<p_lock, base, ready, writer, snap, gateNb>>
text == <<held, textNb, regions, skipped, worker, ahead>>
history == <<reported, gap, odd>>

Live == {m \in Mod : st[m] \in {"set", "live"}}     \* state is MODULE_STATE_LIVE
Verifying == worker = "verify"                      \* kg_region_lock is held
Referenced == held \cup snap
CfgLock == writer.pc # "snap" /\ step # "swap"      \* kg_gate_cfg_lock is free

(* Mutant: the loaded modules are walked before the gate is there. *)
InitOrder_WalkFirst ==
    [snap |-> "swap", swap |-> "walk", walk |-> "gateReg", gateReg |-> "enum",
     enum |-> "add", add |-> "textReg", textReg |-> "work", work |-> "misc"]

(* What kg_init() does next, what kg_exit() does next, and what a kg_init()   *)
(* that failed does next.                                                     *)
InitOrder ==
    [snap |-> "swap", swap |-> "gateReg", gateReg |-> "walk", walk |-> "enum",
     enum |-> "add", add |-> "textReg", textReg |-> "work", work |-> "misc"]
ExitOrder ==
    [gateUnreg |-> "gateFree", gateFree |-> "textUnreg",
     textUnreg |-> "stop", stop |-> "cancel", cancel |-> "free", free |-> "gone"]
UndoOrder ==
    [textUnreg |-> "stop", stop |-> "cancel", cancel |-> "free", free |-> "gateUnreg",
     gateUnreg |-> "gateFree", gateFree |-> "gone"]

Init ==
    /\ st \in [Mod -> {"none", "live"}]
    /\ loads = 0 /\ lockRead = [m \in Mod |-> FALSE]
    /\ step = "snap" /\ undo = FALSE
    /\ p_lock \in BOOLEAN /\ base = {} /\ ready = FALSE
    /\ writer = [pc |-> "idle", was |-> FALSE, left |-> MaxWrites]
    /\ snap = {} /\ held = {}
    /\ gateNb = FALSE /\ textNb = FALSE
    /\ regions = [m \in Mod |-> 0] /\ skipped = {}
    /\ worker = "off" /\ ahead = {}
    /\ reported = [m \in Mod |-> FALSE] /\ gap = [m \in Mod |-> FALSE]
    /\ odd = [m \in Mod |-> FALSE]

-----------------------------------------------------------------------------
(* The module loader, and the notifiers it calls. *)

(* finit_module(): add_unformed_module() admits one module of a name. *)
LoadBegin(m) ==
    /\ st[m] = "none" /\ step # "gone"
    /\ loads < MaxLoads /\ loads' = loads + 1
    /\ \A o \in Mod : ModName[o] = ModName[m] => st[o] = "none"
    /\ st' = [st EXCEPT ![m] = "coming"]
    /\ UNCHANGED <<lockRead, step, undo, gate, text, history>>

(* The COMING chain while the gate is not there. *)
ComingUnseen(m) ==
    /\ st[m] = "coming" /\ ~gateNb
    /\ st' = [st EXCEPT ![m] = "init"]
    /\ UNCHANGED <<loads, lockRead, step, undo, gate, text, history>>

(* kg_gate_notify() is called first, and reads p_lock. *)
GateEnter(m) ==
    /\ st[m] = "coming" /\ gateNb
    /\ st' = [st EXCEPT ![m] = "gate"]
    /\ lockRead' = [lockRead EXCEPT ![m] = p_lock /\ ~kg_gate_denied(m)]
    /\ UNCHANGED <<loads, step, undo, gate, text, history>>

kg_gate_trusted(m) == ModName[m] \in kg_allow \cup base

(* ... and then decides.  A refused module goes away at once. *)
kg_gate_notify(m) ==
    /\ st[m] = "gate"
    /\ \E enforcing \in BOOLEAN :
         LET hit == kg_gate_denied(m) \/ (lockRead[m] /\ ~kg_gate_trusted(m))
         IN  /\ st' = [st EXCEPT ![m] = IF hit /\ enforcing THEN "none" ELSE "init"]
             /\ reported' = [reported EXCEPT ![m] = hit /\ ~enforcing]
    /\ lockRead' = [lockRead EXCEPT ![m] = FALSE]
    /\ UNCHANGED <<loads, step, undo, gate, text, gap, odd>>

(* The module's init() returns: 0, or an error that takes it to GOING. *)
InitReturns(m) ==
    /\ st[m] = "init"
    /\ \E s \in {"set", "going"} : st' = [st EXCEPT ![m] = s]
    /\ odd' = [odd EXCEPT ![m] = @ \/ (st'[m] = "set" /\ step \in {"add", "textReg"})]
    /\ UNCHANGED <<loads, lockRead, step, undo, gate, text, reported, gap>>

Used == MapThenSumSet(LAMBDA m : regions[m], Mod)
Room == IF Used < TEXT_MAX THEN TEXT_MAX - Used ELSE 0

(* kg_region_add(): text_max_mb caps the copies. *)
kg_region_add(S) ==
    \E A \in {B \in SUBSET S : Cardinality(B) = Min({Cardinality(S), Room})} :
        /\ regions' = [m \in Mod |-> regions[m] + (IF m \in A THEN 1 ELSE 0)]
        /\ skipped' = (skipped \ A) \cup (S \ A)

(* The LIVE chain: kg_module_notify() adds a baseline under kg_region_lock. *)
LiveNotify(m) ==
    /\ st[m] = "set"
    /\ IF textNb THEN ~Verifying /\ kg_region_add({m})
       ELSE UNCHANGED <<regions, skipped>>
    /\ st' = [st EXCEPT ![m] = "live"]
    /\ UNCHANGED <<loads, lockRead, step, undo, gate, held, textNb, worker, ahead, history>>

Unload(m) ==
    /\ st[m] = "live" /\ m \notin Referenced
    /\ st' = [st EXCEPT ![m] = "going"]
    /\ UNCHANGED <<loads, lockRead, step, undo, gate, text, history>>

(* Mutants: the baseline stays; kg_region_lock is not taken. *)
GoingNotify_Ignored(m) ==
    /\ st[m] = "going"
    /\ textNb => ~Verifying
    /\ st' = [st EXCEPT ![m] = "none"]
    /\ UNCHANGED <<loads, lockRead, step, undo, gate, text, history>>

(* The history variables start again with the next load. *)
Forget(m) ==
    /\ skipped' = skipped \ {m}
    /\ reported' = [reported EXCEPT ![m] = FALSE] /\ gap' = [gap EXCEPT ![m] = FALSE]

(* ... and it left a baseline behind. *)
Orphaned(m) == regions'[m] > 0 /\ (textNb \/ step = "textReg")

GoingNotify_NoLock(m) ==
    /\ st[m] = "going"
    /\ regions' = IF textNb THEN [regions EXCEPT ![m] = Max({@ - 1, 0})] ELSE regions
    /\ st' = [st EXCEPT ![m] = "none"]
    /\ odd' = [odd EXCEPT ![m] = Orphaned(m)]
    /\ Forget(m)
    /\ UNCHANGED <<loads, lockRead, step, undo, gate, held, textNb, worker, ahead>>

(* The GOING chain: kg_module_remove() drops one baseline; then the memory  *)
(* of the module is freed.                                                  *)
GoingNotify(m) ==
    /\ st[m] = "going"
    /\ textNb => ~Verifying
    /\ regions' = IF textNb THEN [regions EXCEPT ![m] = Max({@ - 1, 0})] ELSE regions
    /\ st' = [st EXCEPT ![m] = "none"]
    /\ odd' = [odd EXCEPT ![m] = Orphaned(m)]
    /\ Forget(m)
    /\ UNCHANGED <<loads, lockRead, step, undo, gate, held, textNb, worker, ahead>>

-----------------------------------------------------------------------------
(* Writing mod_lock. *)

(* kg_gate_cfg_set_lock(): param_set_bool() stores the new value ... *)
SetLock(val) ==
    /\ writer.pc = "idle" /\ step # "gone" /\ writer.left > 0
    /\ writer' = [pc |-> "check", was |-> p_lock, left |-> writer.left - 1]
    /\ p_lock' = val
    /\ UNCHANGED <<loader, step, undo, base, ready, snap, gateNb, text, history>>

(* ... and then, under kg_gate_cfg_lock, a baseline is recorded. *)
SetLockCheck ==
    /\ writer.pc = "check" /\ CfgLock
    /\ IF ready /\ p_lock /\ ~writer.was
       THEN snap' = Live /\ writer' = [writer EXCEPT !.pc = "snap"]
       ELSE writer' = [writer EXCEPT !.pc = "idle", !.was = FALSE] /\ UNCHANGED snap
    /\ UNCHANGED <<loader, step, undo, p_lock, base, ready, gateNb, text, history>>

(* kg_gate_snapshot() swaps the new table in, or fails for want of memory. *)
SetLockSwap ==
    /\ writer.pc = "snap"
    /\ snap' = {} /\ writer' = [writer EXCEPT !.pc = "idle", !.was = FALSE]
    /\ \/ /\ base' = {ModName[m] : m \in snap}
          /\ UNCHANGED p_lock
       \/ p_lock' = writer.was /\ UNCHANGED base
    /\ UNCHANGED <<loader, step, undo, ready, gateNb, text, history>>

-----------------------------------------------------------------------------
(* kg_init(): the gate, then the text baselines. *)

InitStep(this) == step = this /\ step' = InitOrder[this] /\ UNCHANGED undo

(* kg_modgate_init() takes kg_gate_cfg_lock and looks at p_lock. *)
GateSnap ==
    /\ step = "snap" /\ writer.pc # "snap"
    /\ IF p_lock THEN snap' = Live /\ step' = InitOrder.snap /\ UNCHANGED ready
       ELSE step' = InitOrder.swap /\ ready' = TRUE /\ UNCHANGED snap
    /\ UNCHANGED <<loader, undo, p_lock, base, writer, gateNb, text, history>>

GateSwap ==
    /\ InitStep("swap")
    /\ snap' = {} /\ ready' = TRUE
    /\ \/ /\ base' = {ModName[m] : m \in snap}
          /\ UNCHANGED p_lock
       \/ p_lock' = FALSE /\ UNCHANGED base
    /\ UNCHANGED <<loader, writer, gateNb, text, history>>

(* Without its notifier the gate is taken down; the driver goes on. *)
GateRegister ==
    /\ step = "gateReg"
    /\ \/ gateNb' = TRUE /\ step' = InitOrder.gateReg /\ UNCHANGED <<base, ready>>
       \/ /\ writer.pc # "snap" /\ ready' = FALSE /\ base' = {}
          /\ step' = "enum"
          /\ UNCHANGED gateNb
    /\ UNCHANGED <<loader, undo, p_lock, writer, snap, text, history>>

(* The walk over the modules that are already loaded. *)
GateWalk ==
    /\ InitStep("walk")
    /\ reported' = [m \in Mod |-> reported[m] \/ (m \in Live /\ kg_gate_denied(m))]
    /\ gap' = [m \in Mod |-> st[m] = "init" /\ ~reported[m]]
    /\ UNCHANGED <<loader, gate, text, odd>>

(* kg_enumerate_modules(): references first, then the baselines. *)
Enumerate ==
    /\ InitStep("enum")
    /\ held' = Live
    /\ odd' = [m \in Mod |-> odd[m] \/ st[m] = "set"]
    /\ UNCHANGED <<loader, gate, textNb, regions, skipped, worker, ahead, reported, gap>>

(* No memory for the CPU baseline: no integrity monitor, and that is fine. *)
IntegrityUnavailable ==
    /\ step = "enum" /\ step' = "misc"
    /\ UNCHANGED <<loader, undo, gate, text, history>>

EnumerateAdd ==
    /\ InitStep("add")
    /\ kg_region_add(held)
    /\ held' = {}
    /\ UNCHANGED <<loader, gate, textNb, worker, ahead, history>>

TextRegister ==
    /\ InitStep("textReg")
    /\ textNb' \in BOOLEAN
    /\ odd' = [m \in Mod |-> odd[m] /\ textNb']
    /\ UNCHANGED <<loader, gate, held, regions, skipped, worker, ahead, reported, gap>>

TextWork ==
    /\ InitStep("work")
    /\ worker' = "queued"
    /\ UNCHANGED <<loader, gate, held, textNb, regions, skipped, ahead,
                   history>>

(* misc_register() succeeds, or everything is taken down again. *)
Misc ==
    /\ step = "misc"
    /\ \/ step' = "up" /\ UNCHANGED undo
       \/ step' = "textUnreg" /\ undo' = TRUE
    /\ UNCHANGED <<loader, gate, text, history>>

-----------------------------------------------------------------------------
(* The integrity worker verifies one region at a time, kg_region_lock held. *)

VerifyBegin ==
    /\ worker = "queued" /\ worker' = "verify"
    /\ ahead' = {m \in Mod : regions[m] > 0}
    /\ UNCHANGED <<loader, step, undo, gate, held, textNb, regions, skipped, history>>

VerifyRegion(m) ==
    /\ Verifying /\ m \in ahead
    /\ ahead' = ahead \ {m}
    /\ UNCHANGED <<loader, step, undo, gate, held, textNb, regions, skipped, worker,
                   history>>

VerifyEnd ==
    /\ Verifying /\ ahead = {} /\ worker' = "tail"
    /\ UNCHANGED <<loader, step, undo, gate, held, textNb, regions, skipped, ahead,
                   history>>

(* The rest of kg_integ_workfn(): queued again, unless kg_integ_stop. *)
Stopped ==
    step \in {"cancel", "free", "gone"} \/ (undo /\ step \in {"gateUnreg", "gateFree"})

WorkEnd ==
    /\ worker = "tail"
    /\ worker' = IF Stopped THEN "off" ELSE "queued"
    /\ UNCHANGED <<loader, step, undo, gate, held, textNb, regions, skipped, ahead,
                   history>>

-----------------------------------------------------------------------------
(* kg_exit() *)

Exit ==
    /\ step = "up" /\ step' = "gateUnreg"
    /\ UNCHANGED <<loader, undo, gate, text, history>>

ExitStep(this) ==
    /\ step = this /\ step' = (IF undo THEN UndoOrder ELSE ExitOrder)[this]
    /\ UNCHANGED undo

(* unregister_module_notifier() "Waits for a notifier that is running". *)
GateUnregister ==
    /\ ExitStep("gateUnreg") /\ \A m \in Mod : st[m] # "gate"
    /\ gateNb' = FALSE
    /\ reported' = [m \in Mod |-> FALSE] /\ gap' = [m \in Mod |-> FALSE]
    /\ UNCHANGED <<loader, p_lock, base, ready, writer, snap, text, odd>>

GateFree ==
    /\ ExitStep("gateFree") /\ writer.pc # "snap"
    /\ ready' = FALSE /\ base' = {}
    /\ UNCHANGED <<loader, p_lock, writer, snap, gateNb, text, history>>

TextUnregister ==
    /\ ExitStep("textUnreg")
    /\ textNb' = FALSE
    /\ skipped' = {} /\ odd' = [m \in Mod |-> FALSE]
    /\ UNCHANGED <<loader, gate, held, regions, worker, ahead, reported, gap>>

TextStop ==
    /\ ExitStep("stop")
    /\ UNCHANGED <<loader, gate, text, history>>

(* Mutant: cancel_delayed_work() *)
TextCancel_NoSync ==
    /\ ExitStep("cancel")
    /\ worker' = IF worker = "queued" THEN "off" ELSE worker
    /\ UNCHANGED <<loader, gate, held, textNb, regions, skipped, ahead,
                   history>>

(* cancel_delayed_work_sync() *)
TextCancel ==
    /\ ExitStep("cancel") /\ worker \in {"off", "queued"}
    /\ worker' = "off"
    /\ UNCHANGED <<loader, gate, held, textNb, regions, skipped, ahead,
                   history>>

TextFree ==
    /\ ExitStep("free") /\ ~Verifying
    /\ regions' = [m \in Mod |-> 0]
    /\ UNCHANGED <<loader, gate, held, textNb, skipped, worker, ahead, history>>

Loader(m) ==
    \/ ComingUnseen(m) \/ GateEnter(m) \/ kg_gate_notify(m)
    \/ InitReturns(m) \/ LiveNotify(m) \/ GoingNotify(m)

Driver ==
    \/ GateSnap \/ GateSwap \/ GateRegister \/ GateWalk
    \/ Enumerate \/ IntegrityUnavailable \/ EnumerateAdd \/ TextRegister \/ TextWork \/ Misc
    \/ GateUnregister \/ GateFree \/ TextUnregister \/ TextStop \/ TextCancel \/ TextFree

Worker == VerifyBegin \/ VerifyEnd \/ WorkEnd \/ \E m \in Mod : VerifyRegion(m)

(* The driver is gone and the loader idle: nothing more has to happen. *)
Finished ==
    /\ step = "gone" /\ writer.pc = "idle" /\ \A m \in Mod : st[m] \in {"none", "live"}
    /\ UNCHANGED vars

Next ==
    \/ \E m \in Mod : LoadBegin(m) \/ Unload(m) \/ Loader(m)
    \/ Driver \/ Worker \/ Exit \/ Finished
    \/ (\E val \in BOOLEAN : SetLock(val)) \/ SetLockCheck \/ SetLockSwap

Spec == Init /\ [][Next]_vars

-----------------------------------------------------------------------------
(* Properties. *)

(* kg_main.c: the gate is registered early "so no module loads unseen while *)
(* the monitors below start up".  Once the gate is up, a module on the deny  *)
(* list is live only if its load was reported, by kg_gate_notify() or by the *)
(* walk.  (gap: its COMING chain ran before the gate was there, and it was   *)
(* not yet live at the walk.)                                                *)
DeniedSeen ==
    gateNb /\ step # "walk" =>
        \A m \in Live : kg_gate_denied(m) => reported[m] \/ gap[m]

(* kg_integrity.c: "baselines follow modules as they come and go".  While    *)
(* the notifier is registered a module has one baseline from its LIVE chain  *)
(* to its GOING chain, unless there was no room, and none after it.  (odd:   *)
(* it came or went while the notifier was being set up.)                     *)
BaselinesFollow ==
    textNb => \A m \in Mod : ~odd[m] =>
        /\ st[m] = "live" /\ m \notin skipped => regions[m] = 1
        /\ st[m] \notin {"live", "going"} => regions[m] = 0

(* kg_region_lock is held across a whole pass, msleep() included, so that    *)
(* kg_module_remove() keeps a module's text mapped until the pass is over:   *)
(* while the notifier is registered the worker has no unloaded text ahead.   *)
VerifiesLoadedText ==
    textNb /\ Verifying => \A m \in ahead : odd[m] \/ st[m] # "none"

(* "baselines follow modules as they come and go", for every module: while   *)
(* the notifier is registered, no baseline outlives its module.              *)
NoOrphanBaseline ==
    textNb => \A m \in Mod : regions[m] > 0 => st[m] # "none"

(* After kg_exit(), or a kg_init() that failed, nothing of the driver runs   *)
(* or is registered: its code is about to be unmapped.                       *)
ExitClean ==
    step = "gone" =>
        /\ ~gateNb /\ ~textNb /\ worker = "off" /\ base = {}
        /\ \A m \in Mod : st[m] # "gate" /\ regions[m] = 0
=============================================================================

-------------------------------- MODULE KgPmu --------------------------------
(***************************************************************************)
(* The PMU detector of the Linux module (kg_pmu.c): counter overflows are  *)
(* counted in NMI context, a sampler work item turns the counts into rates *)
(* and levels, raises alerts, escalates a CPU with its SMT siblings and    *)
(* relaxes them when all of them are calm.                                 *)
(*                                                                         *)
(* Time is counted in ticks of a second.  A work item that is due, an irq  *)
(* work and a running sampler finish before the next tick.  CPUs are one   *)
(* core here: all of them are SMT siblings.  One event kind is modelled;   *)
(* the two kinds share no state but the flag "crit" they are or-ed into.   *)
(***************************************************************************)
EXTENDS Integers, FiniteSets

CONSTANTS
    Cpu,
    WINDOW,             \* pmu_window_ms, in seconds
    REPEAT,             \* seconds after which a lasting condition is alerted again (10)
    CALM,               \* KG_PMU_CALM_WINDOWS
    U32,                \* number of values of an unsigned int (2^32)
    PWarnValues, PCritValues,   \* what pmu_warn and pmu_crit may be set to
    MaxPerTick,         \* bound on the overflows of one CPU in a second
    MaxBusy,            \* how many seconds of load in a row are told apart
    PostureMoves,       \* does the posture go to HIGH and come back
    HotCpu              \* the CPUs that go offline and come back; not all of them

ASSUME PmuAssumption ==
    /\ IsFiniteSet(Cpu)
    /\ {WINDOW, REPEAT, CALM, U32} \subseteq Nat \ {0}
    /\ PWarnValues \cup PCritValues \subseteq 0 .. U32 - 1
    /\ {MaxPerTick, MaxBusy} \subseteq Nat
    /\ PostureMoves \in BOOLEAN
    /\ HotCpu \subseteq Cpu /\ HotCpu # Cpu

CRITICAL == 2
WATCH    == 1
Off      == -1

VARIABLES
    p_warn, p_crit,
    online,
    ovf,                \* overflows since the sampler last looked
    iw,                 \* the irq work of each CPU: no, queued, running
    level, calm, age,   \* age: seconds since last_alert_ns, at most REPEAT
    crit,
    work,               \* seconds until kg_pmu_dwork runs, or Off
    sampler,            \* idle, count or relax
    todo,               \* CPUs the running loop of the sampler has not seen
    elapsed, denom,     \* seconds since kg_pmu_last_ns; denom_ms of this run
    limit,              \* warn and crit as this run read them
    high, full,         \* posture at HIGH or above; CPUs at full-spectrum
    disturbed,          \* the posture was lowered or a CPU came online since the
                        \* last critical alert
    phase,              \* running, then kg_pmu_exit(): stopping, removed, gone
    second, busy        \* overflows in this second; seconds of heavy load in a row

paramVars == <<p_warn, p_crit>>
countVars == <<level, calm, age, crit>>
sampleVars == <<work, sampler, todo, elapsed, denom, limit>>
postureVars == <<high, full, disturbed>>
loadVars == <<second, busy>>
vars == <<p_warn, p_crit, online, ovf, iw, level, calm, age, crit, work, sampler,
          todo, elapsed, denom, limit, high, full, disturbed, phase, second, busy>>

MinOf(a, b) == IF a < b THEN a ELSE b
MaxOf(a, b) == IF a > b THEN a ELSE b

(* kg_pmu_thresholds(), in unsigned arithmetic. *)
Warn == MaxOf(p_warn, 1)
Crit == MaxOf(p_crit, (Warn + 1) % U32)

Init ==
    /\ p_warn \in PWarnValues /\ p_crit \in PCritValues
    /\ online = Cpu
    /\ ovf = [c \in Cpu |-> 0] /\ iw = [c \in Cpu |-> "no"]
    /\ level = [c \in Cpu |-> 0] /\ calm = [c \in Cpu |-> 0]
    /\ age = [c \in Cpu |-> REPEAT] /\ crit = [c \in Cpu |-> FALSE]
    /\ work = WINDOW /\ sampler = "idle" /\ todo = {} /\ elapsed = 0 /\ denom = WINDOW
    /\ limit = [warn |-> Warn, crit |-> Crit]
    /\ high = FALSE /\ full = {} /\ disturbed = FALSE
    /\ phase = "running"
    /\ second = [c \in Cpu |-> 0] /\ busy = [c \in Cpu |-> 0]

-----------------------------------------------------------------------------
(* NMI and irq work.  An overflow during the driver's own scan (kg_self_busy) *)
(* is not counted and is no overflow here; the forced flush and the vote for *)
(* the task to name (KgVote) touch none of this state.                       *)

HasCounter(c) == c \in online /\ phase \in {"running", "stopping"}

kg_pmu_overflow(c) ==
    /\ HasCounter(c) /\ second[c] < MaxPerTick
    /\ second' = [second EXCEPT ![c] = @ + 1]
    /\ IF phase = "running"
       THEN /\ ovf' = [ovf EXCEPT ![c] = @ + 1]
            /\ iw' = IF ovf[c] + 1 = Crit THEN [iw EXCEPT ![c] = "queued"] ELSE iw
       ELSE UNCHANGED <<ovf, iw>>
    /\ UNCHANGED <<paramVars, online, countVars, sampleVars, postureVars, phase, busy>>

(* kg_pmu_irq_work(): look at kg_pmu_stop, then mod_delayed_work(0). *)
IrqWorkLook(c) ==
    /\ iw[c] = "queued"
    /\ iw' = [iw EXCEPT ![c] = IF phase = "running" THEN "running" ELSE "no"]
    /\ UNCHANGED <<paramVars, online, ovf, countVars, sampleVars, postureVars, phase, loadVars>>

IrqWorkQueue(c) ==
    /\ iw[c] = "running"
    /\ iw' = [iw EXCEPT ![c] = "no"]
    /\ work' = 0
    /\ UNCHANGED <<paramVars, online, ovf, countVars, sampler, todo, elapsed, denom, limit,
                   postureVars, phase, loadVars>>

-----------------------------------------------------------------------------
(* kg_pmu_sample() *)

SampleStart ==
    /\ work = 0 /\ sampler = "idle"
    /\ work' = Off /\ sampler' = "count" /\ todo' = online
    /\ denom' = MaxOf(elapsed, WINDOW) /\ elapsed' = 0
    /\ limit' = [warn |-> Warn, crit |-> Crit]
    /\ UNCHANGED <<paramVars, online, ovf, iw, countVars, postureVars, phase, loadVars>>

Rate(c) == ovf[c] \div denom
LevelOf(r) ==
    IF r >= limit.crit THEN CRITICAL ELSE IF r >= limit.warn THEN WATCH ELSE 0

(* Mutant: a lasting condition is not alerted again. *)
AlertDue_Once(c, lvl) == lvl > level[c] /\ age[c] >= 1

(* An alert for cpu c is due: the level rose, or it lasts. *)
AlertDue(c, lvl) ==
    \/ lvl > level[c] /\ age[c] >= 1
    \/ lvl > 0 /\ lvl = level[c] /\ age[c] >= REPEAT

(* kg_report(): a critical alert escalates the CPU and its online siblings. *)
Alert(c, lvl) ==
    /\ age' = [age EXCEPT ![c] = 0]
    /\ level' = [level EXCEPT ![c] = lvl]
    /\ calm' = [calm EXCEPT ![c] = 0]
    /\ full' = IF lvl >= CRITICAL THEN full \cup online ELSE full
    /\ disturbed' = (disturbed /\ lvl < CRITICAL)

(* The level falls only after CALM calm windows in a row. *)
Settle(c, lvl) ==
    /\ LET n == IF lvl < level[c] THEN calm[c] + 1 ELSE 0 IN
       IF n >= CALM
       THEN level' = [level EXCEPT ![c] = lvl] /\ calm' = [calm EXCEPT ![c] = 0]
       ELSE calm' = [calm EXCEPT ![c] = n] /\ UNCHANGED level
    /\ UNCHANGED <<age, full, disturbed>>

(* One turn of the first loop.  A CPU that went offline has no counter left. *)
CountOne(c) ==
    IF HasCounter(c)
    THEN /\ ovf' = [ovf EXCEPT ![c] = 0]
         /\ LET lvl == LevelOf(Rate(c)) IN
            IF AlertDue(c, lvl) THEN Alert(c, lvl) ELSE Settle(c, lvl)
         /\ crit' = [crit EXCEPT ![c] = level'[c] >= CRITICAL]
    ELSE /\ crit' = [crit EXCEPT ![c] = FALSE]
         /\ UNCHANGED <<ovf, level, calm, age, full, disturbed>>

SampleCpu ==
    /\ sampler = "count"
    /\ \E c \in todo : todo' = todo \ {c} /\ CountOne(c)
    /\ UNCHANGED <<paramVars, online, iw, work, sampler, elapsed, denom, limit,
                   high, phase, loadVars>>

SampleRelaxStart ==
    /\ sampler = "count" /\ todo = {}
    /\ sampler' = "relax" /\ todo' = online
    /\ UNCHANGED <<paramVars, online, ovf, iw, countVars, work, elapsed, denom, limit,
                   postureVars, phase, loadVars>>

(* Mutant: only the CPU's own level is looked at. *)
SampleRelaxCpu_OwnOnly ==
    /\ sampler = "relax"
    /\ \E c \in todo :
          /\ todo' = todo \ {c}
          /\ full' = IF ~crit[c] /\ ~high THEN full \ {c} ELSE full
    /\ UNCHANGED <<paramVars, online, ovf, iw, countVars, work, sampler, elapsed, denom, limit,
                   high, disturbed, phase, loadVars>>

(* One turn of the second loop: relaxed once no sibling is critical.  The *)
(* sibling mask holds the online CPUs of the core and the CPU itself.     *)
SampleRelaxCpu ==
    /\ sampler = "relax"
    /\ \E c \in todo :
          LET hot == \E s \in online \cup {c} : crit[s] IN
          /\ todo' = todo \ {c}
          /\ full' = IF ~hot /\ ~high THEN full \ {c} ELSE full
    /\ UNCHANGED <<paramVars, online, ovf, iw, countVars, work, sampler, elapsed, denom, limit,
                   high, disturbed, phase, loadVars>>

(* Mutant: a run that was woken early does not queue the next one. *)
SampleEnd_NotQueued ==
    /\ sampler = "relax" /\ todo = {}
    /\ sampler' = "idle"
    /\ work' = IF phase = "running" /\ elapsed > 0 THEN WINDOW ELSE work
    /\ UNCHANGED <<paramVars, online, ovf, iw, countVars, todo, elapsed, denom, limit,
                   postureVars, phase, loadVars>>

(* queue_delayed_work() leaves a work item that is already queued alone. *)
SampleEnd ==
    /\ sampler = "relax" /\ todo = {}
    /\ sampler' = "idle"
    /\ work' = IF phase = "running" /\ work = Off THEN WINDOW ELSE work
    /\ UNCHANGED <<paramVars, online, ovf, iw, countVars, todo, elapsed, denom, limit,
                   postureVars, phase, loadVars>>

-----------------------------------------------------------------------------
(* Surroundings: time, parameters, posture, hotplug, exit *)

Tick ==
    /\ sampler = "idle" /\ work # 0 /\ \A c \in Cpu : iw[c] = "no"
    /\ phase = "running"
    /\ work' = IF work > 0 THEN work - 1 ELSE work
    /\ elapsed' = MinOf(elapsed + 1, WINDOW)
    /\ age' = [c \in Cpu |-> MinOf(age[c] + 1, REPEAT)]
    /\ busy' = [c \in Cpu |-> IF c \in online /\ second[c] >= 2 * Crit
                              THEN MinOf(busy[c] + 1, MaxBusy) ELSE 0]
    /\ second' = [c \in Cpu |-> 0]
    /\ UNCHANGED <<paramVars, online, ovf, iw, level, calm, crit, sampler, todo, denom, limit,
                   postureVars, phase>>

WriteParameter ==
    /\ p_warn' \in PWarnValues /\ p_crit' \in PCritValues
    /\ UNCHANGED <<online, ovf, iw, countVars, sampleVars, postureVars, phase, loadVars>>

(* kg_mit_set_posture(): HIGH holds every CPU at full-spectrum; coming back *)
(* restores every CPU's baseline.                                           *)
SetPosture ==
    /\ PostureMoves
    /\ high' = ~high
    /\ full' = IF high' THEN Cpu ELSE {}
    /\ disturbed' = (disturbed \/ high)
    /\ UNCHANGED <<paramVars, online, ovf, iw, countVars, sampleVars, phase, loadVars>>

kg_pmu_cpu_online(c) ==
    /\ phase = "running" /\ c \notin online
    /\ online' = online \cup {c}
    /\ level' = [level EXCEPT ![c] = 0] /\ calm' = [calm EXCEPT ![c] = 0]
    /\ ovf' = [ovf EXCEPT ![c] = 0]
    /\ full' = IF high THEN full \cup {c} ELSE full \ {c}      \* kg_mit_store()
    /\ disturbed' = TRUE
    /\ UNCHANGED <<paramVars, iw, age, crit, sampleVars, high, phase, loadVars>>

(* perf_event_release_kernel(), irq_work_sync(). *)
kg_pmu_cpu_offline(c) ==
    /\ phase = "running" /\ c \in online \cap HotCpu /\ iw[c] = "no"
    /\ online' = online \ {c}
    /\ crit' = [crit EXCEPT ![c] = FALSE]
    /\ UNCHANGED <<paramVars, ovf, iw, level, calm, age, sampleVars, postureVars, phase, loadVars>>

ExitStop ==
    /\ phase = "running"
    /\ phase' = "stopping"
    /\ UNCHANGED <<paramVars, online, ovf, iw, countVars, sampleVars, postureVars, loadVars>>

(* cpuhp_remove_state(): the offline callback on every CPU. *)
ExitRemove ==
    /\ phase = "stopping" /\ \A c \in Cpu : iw[c] = "no"
    /\ phase' = "removed"
    /\ crit' = [c \in Cpu |-> FALSE]
    /\ UNCHANGED <<paramVars, online, ovf, iw, level, calm, age, sampleVars, postureVars, loadVars>>

(* cancel_delayed_work_sync(). *)
ExitCancel ==
    /\ phase = "removed" /\ sampler = "idle"
    /\ phase' = "gone" /\ work' = Off
    /\ UNCHANGED <<paramVars, online, ovf, iw, countVars, sampler, todo, elapsed, denom, limit,
                   postureVars, loadVars>>

-----------------------------------------------------------------------------
Machinery ==
    \/ \E c \in Cpu : IrqWorkLook(c) \/ IrqWorkQueue(c)
    \/ SampleStart \/ SampleCpu \/ SampleRelaxStart \/ SampleRelaxCpu \/ SampleEnd

Next ==
    \/ \E c \in Cpu : kg_pmu_overflow(c) \/ kg_pmu_cpu_online(c) \/ kg_pmu_cpu_offline(c)
    \/ Machinery \/ Tick \/ WriteParameter \/ SetPosture
    \/ ExitStop \/ ExitRemove \/ ExitCancel

Spec == Init /\ [][Next]_vars

(* Interrupts and work items run, and time passes. *)
FairSpec == Spec /\ WF_vars(Machinery) /\ WF_vars(Tick)

-----------------------------------------------------------------------------
(* Properties. *)

(* "a sibling was escalated because of its core partner and must stay        *)
(* escalated as long as that partner is under attack": between two runs of   *)
(* the sampler every CPU of a core with a critical CPU is at full-spectrum   *)
(* (until the posture is lowered or a CPU comes online, which start afresh).  *)
CoreStaysEscalated ==
    sampler = "idle" /\ ~disturbed /\ (\E s \in online : crit[s]) => online \subseteq full

(* The sampler is always going to run again, so counts are never left lying: *)
(* irq works, early wake-ups and the periodic re-queue lose no run of it.    *)
SamplerComesBack ==
    phase = "running" => work # Off \/ sampler # "idle"

(* pmu_crit: "Overflows/second per CPU that raise a critical alert".  A CPU  *)
(* that has overflowed at twice that rate for MaxBusy seconds is critical    *)
(* ("wake the sampler to escalate", "never lost, only deferred").            *)
LoadIsNoticed ==
    \A c \in Cpu : busy[c] = MaxBusy /\ phase = "running" => level[c] = CRITICAL

(* A critical CPU that was taken back to its baseline, because the posture   *)
(* was stepped down from HIGH or because it came online late, is escalated   *)
(* again while the condition lasts: the alert repeats.                       *)
Reescalated ==
    \A c \in Cpu : c \in online /\ crit[c] ~> c \in full \/ ~crit[c] \/ phase # "running"
=============================================================================

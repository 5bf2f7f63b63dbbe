------------------------------ MODULE KgPosture ------------------------------
(***************************************************************************)
(* The response posture of the Linux module (kg_posture.c), the guarded    *)
(* policy table it governs (kg_mitigate.c, kg_state.c) and the alerts that *)
(* move it (kg_dispatch).                                                  *)
(*                                                                         *)
(* Every critical section of kg_guard_lock or kg_pos_lock is one action.   *)
(* What the code does after it has dropped a lock, or has read before it   *)
(* takes one, is a step of its own: a thread's job records where it is.    *)
(*                                                                         *)
(* Time: "quiet" is the age of kg_pos_trigger_mono, cut off at MaxQuiet    *)
(* (no decision looks further back); decayWork counts down to the run of   *)
(* the delayed work item.                                                  *)
(***************************************************************************)
EXTENDS Integers, FiniteSets

CONSTANTS
    Cpu,                 \* the rows of kg_guard.cpu: possible CPUs
    Siblings,            \* [Cpu -> SUBSET Cpu], topology_sibling_cpumask()
    MdsVuln, L1tfVuln, VerwClear,  \* what the probe finds on this machine
    Thread,              \* process contexts: work items and ioctl callers
    Integ, Pmu,          \* those that run kg_integ_workfn(), kg_pmu_sample()
    MaxPostureValues,    \* what the max_posture parameter may be set to
    DecayValues,         \* what posture_decay_s may be set to
    OperatorTargets,     \* what KG_IOC_SET_POSTURE may ask for
    MaxQuiet,            \* longest quiet period told apart
    MaxCorruptions       \* bound on how often memory corruption hits the table

NORMAL   == 0
ELEVATED == 1
HIGH     == 2
FAILSAFE == 3
Posture  == NORMAL .. FAILSAFE

STRAT_NONE == 0
STRAT_VERW == 1
STRAT_L1D == 2
STRAT_VERW_L1D == 3
STRAT_FULL == 4
Strategy == STRAT_NONE .. STRAT_FULL

INFO     == 0
WATCH    == 1
CRITICAL == 2

Off == -1       \* no delayed work pending / decay function not running

ASSUME CpuAssumption == IsFiniteSet(Cpu) /\ Siblings \in [Cpu -> SUBSET Cpu]
ASSUME ProbeAssumption == {MdsVuln, L1tfVuln, VerwClear} \subseteq BOOLEAN
ASSUME ThreadAssumption == Integ # Pmu
ASSUME ParameterAssumption ==
    /\ MaxPostureValues \subseteq Nat /\ MaxPostureValues # {}
    /\ DecayValues \subseteq 0 .. MaxQuiet /\ DecayValues # {}
    /\ OperatorTargets \subseteq Posture
    /\ MaxQuiet \in Nat /\ MaxCorruptions \in Nat

VARIABLES
    posture, failsafe,      \* kg_guard.hdr
    strategy, base,         \* kg_guard.cpu[].strategy, .base_strategy
    digest,                 \* kg_guard.digest: the table it was computed over
    online,                 \* cpu_online_mask
    untrusted, ready,       \* kg_pos_untrusted, kg_pos_ready
    quiet,                  \* now - kg_pos_trigger_mono, at most MaxQuiet
    decayWork,              \* ticks until kg_pos_decay_work runs, or Off
    decaying,               \* the secs a running kg_pos_decay_fn() has read, or Off
    maxPosture, decayS,     \* module parameters, writable at run time
    failSafeFlag,           \* KG_MIT_FAIL_SAFE in active_mitigation_flags
    corruptReported,        \* kg_state_corrupt_reported
    job,                    \* what each thread is in the middle of
    corruptions             \* how often the table was corrupted

guardVars == <<posture, failsafe, strategy, base, digest>>
decayVars == <<quiet, decayWork, decaying>>
paramVars == <<maxPosture, decayS>>
vars == <<posture, failsafe, strategy, base, digest, online, untrusted, ready,
          quiet, decayWork, decaying, maxPosture, decayS, failSafeFlag,
          corruptReported, job, corruptions>>

-----------------------------------------------------------------------------
(* The policy table and its hash. *)

(* SHA-256 is taken to be injective, so the digest is what was hashed. *)
Table == [posture |-> posture, failsafe |-> failsafe,
          strategy |-> strategy, base |-> base]

kg_guard_verify == digest = Table

(* kg_guard_unlock_release(): re-hash whatever the table now holds. *)
kg_guard_unlock_release ==
    digest' = [posture |-> posture', failsafe |-> failsafe',
               strategy |-> strategy', base |-> base']

(* The cheapest strategy that covers what the CPU is vulnerable to. *)
ProbedStrategy ==
    CASE ~MdsVuln /\ ~L1tfVuln -> STRAT_NONE
      [] MdsVuln /\ ~L1tfVuln  -> STRAT_VERW
      [] ~MdsVuln /\ L1tfVuln  -> STRAT_L1D
      [] OTHER -> IF VerwClear THEN STRAT_VERW_L1D ELSE STRAT_FULL

kg_mit_store(cpu) ==
    /\ base' = [base EXCEPT ![cpu] = ProbedStrategy]
    /\ strategy' = [strategy EXCEPT ![cpu] =
                       IF posture >= HIGH THEN STRAT_FULL ELSE ProbedStrategy]
    /\ UNCHANGED <<posture, failsafe>>
    /\ kg_guard_unlock_release

kg_mit_set_posture(target) ==
    /\ strategy' = CASE target >= HIGH  -> [c \in Cpu |-> STRAT_FULL]
                     [] target < HIGH /\ posture >= HIGH -> base
                     [] OTHER -> strategy
    /\ posture' = target
    /\ failsafe' = (target = FAILSAFE)
    /\ UNCHANGED base
    /\ kg_guard_unlock_release

kg_mit_escalate_cpu(cpu) ==
    /\ strategy' = [strategy EXCEPT ![cpu] = STRAT_FULL]
    /\ UNCHANGED <<posture, failsafe, base>>
    /\ kg_guard_unlock_release

(* Mutant: relies on the caller's unlocked check of the posture. *)
kg_mit_relax_cpu_Unchecked(cpu) ==
    /\ strategy' = [strategy EXCEPT ![cpu] = base[cpu]]
    /\ UNCHANGED <<posture, failsafe, base>>
    /\ kg_guard_unlock_release

kg_mit_relax_cpu(cpu) ==
    /\ strategy' = IF posture < HIGH
                   THEN [strategy EXCEPT ![cpu] = base[cpu]] ELSE strategy
    /\ UNCHANGED <<posture, failsafe, base>>
    /\ kg_guard_unlock_release

-----------------------------------------------------------------------------
(* Threads: what a process context still has to do. *)

Label == {"idle", "escalate", "siblings", "raise", "afterUp",
          "announce", "relax"}

Job == [at : Label, cpus : SUBSET Cpu, target : Posture,
        corrupt : BOOLEAN, operator : BOOLEAN]

(* A job on some CPUs, an automatic raise, an operator's request. *)
CpuJob(at, cpus) == [at |-> at, cpus |-> cpus, target |-> NORMAL,
                     corrupt |-> FALSE, operator |-> FALSE]
PostureJob(at, target, corrupt, operator) ==
    [at |-> at, cpus |-> {}, target |-> target, corrupt |-> corrupt,
     operator |-> operator]

Idle == CpuJob("idle", {})

Become(t, j) == job' = [job EXCEPT ![t] = j]

MinOf(a, b) == IF a < b THEN a ELSE b

(* min(target, cap), read before kg_posture_raise() takes kg_pos_lock. *)
RaiseJob(target, corrupt) ==
    PostureJob("raise", MinOf(target, maxPosture), corrupt, FALSE)

(* Back to idle, or on to the operator's announcement. *)
AfterFollowUp(j) == IF j.operator THEN [j EXCEPT !.at = "announce"] ELSE Idle

Init ==
    /\ posture = NORMAL /\ failsafe = FALSE
    /\ online \in (SUBSET Cpu) \ {{}}
    /\ base = [c \in Cpu |-> IF c \in online THEN ProbedStrategy ELSE STRAT_NONE]
    /\ strategy = base
    /\ digest = Table
    /\ untrusted = FALSE /\ ready = TRUE
    /\ quiet = MaxQuiet /\ decayWork = Off /\ decaying = Off
    /\ maxPosture \in MaxPostureValues /\ decayS \in DecayValues
    /\ failSafeFlag = FALSE /\ corruptReported = FALSE
    /\ job = [t \in Thread |-> Idle]
    /\ corruptions = 0

-----------------------------------------------------------------------------
(* Alerts: kg_report() notifies, then kg_dispatch() routes. *)

(* The rung kg_dispatch() asks for; NORMAL where it asks for none.  The two *)
(* PMU alerts are routed by PmuAlert, corruption by VerifyFails.            *)
AlertType == {"UNAUTHORIZED_DMA", "PCI_DISCREPANCY", "UNAUTHORIZED_KBD_FILTER",
              "KBD_FILTER_NEUTRALIZED", "DEVICE_BME_DISABLED", "MODULE_LOADED",
              "VULN_DRIVER", "DRIVER_BLOCKED", "IDT_HOOK", "CTRL_REG_TAMPER",
              "TEXT_PATCH", "DISPATCH_HOOK", "POSTURE_CHANGED"}

Rung(type, level) ==
    CASE type \in {"UNAUTHORIZED_DMA", "PCI_DISCREPANCY", "UNAUTHORIZED_KBD_FILTER",
                   "KBD_FILTER_NEUTRALIZED", "DEVICE_BME_DISABLED"} -> ELEVATED
      [] type = "MODULE_LOADED" /\ level >= WATCH -> ELEVATED
      [] type = "VULN_DRIVER" -> IF level >= CRITICAL THEN HIGH ELSE ELEVATED
      [] type = "DRIVER_BLOCKED" /\ level >= CRITICAL -> ELEVATED
      [] type \in {"IDT_HOOK", "CTRL_REG_TAMPER"} /\ level >= CRITICAL -> HIGH
      [] type \in {"TEXT_PATCH", "DISPATCH_HOOK"} /\ level >= CRITICAL -> FAILSAFE
      [] OTHER -> NORMAL

kg_dispatch(t) ==
    /\ t # Pmu /\ job[t].at = "idle"
    /\ \E rung \in {Rung(a[1], a[2]) : a \in AlertType \X (INFO .. CRITICAL)} \ {NORMAL} :
          Become(t, RaiseJob(rung, FALSE))
    /\ UNCHANGED <<guardVars, online, untrusted, ready, decayVars, paramVars,
                   failSafeFlag, corruptReported, corruptions>>

(* A critical PMU alert about cpu. *)
PmuAlert(t) ==
    /\ t = Pmu /\ job[t].at = "idle"
    /\ \E cpu \in Cpu :
          Become(t, IF cpu \in online
                    THEN CpuJob("escalate", {cpu})
                    ELSE RaiseJob(ELEVATED, FALSE))
    /\ UNCHANGED <<guardVars, online, untrusted, ready, decayVars, paramVars,
                   failSafeFlag, corruptReported, corruptions>>

EscalateCpu(t) ==
    /\ job[t].at = "escalate"
    /\ \E cpu \in job[t].cpus :
          /\ kg_mit_escalate_cpu(cpu)
          /\ Become(t, CpuJob("siblings", Siblings[cpu] \ {cpu}))
    /\ UNCHANGED <<online, untrusted, ready, decayVars, paramVars,
                   failSafeFlag, corruptReported, corruptions>>

(* kg_mit_flush_siblings(): one sibling per step, then the raise. *)
EscalateSibling(t) ==
    /\ job[t].at = "siblings"
    /\ \E sib \in job[t].cpus :
          /\ IF sib \in online THEN kg_mit_escalate_cpu(sib)
                               ELSE UNCHANGED guardVars
          /\ Become(t, CpuJob("siblings", job[t].cpus \ {sib}))
    /\ UNCHANGED <<online, untrusted, ready, decayVars, paramVars,
                   failSafeFlag, corruptReported, corruptions>>

SiblingsDone(t) ==
    /\ job[t].at = "siblings" /\ job[t].cpus = {}
    /\ Become(t, RaiseJob(ELEVATED, FALSE))
    /\ UNCHANGED <<guardVars, online, untrusted, ready, decayVars, paramVars,
                   failSafeFlag, corruptReported, corruptions>>

(* kg_integ_workfn(): the policy-state check at the end of a pass. *)
VerifyPasses(t) ==
    /\ t = Integ /\ job[t].at = "idle"
    /\ kg_guard_verify
    /\ corruptReported' = FALSE
    /\ UNCHANGED <<guardVars, online, untrusted, ready, decayVars, paramVars,
                   failSafeFlag, job, corruptions>>

VerifyFails(t) ==
    /\ t = Integ /\ job[t].at = "idle"
    /\ ~kg_guard_verify
    /\ ~corruptReported
    /\ corruptReported' = TRUE
    /\ Become(t, RaiseJob(FAILSAFE, TRUE))
    /\ UNCHANGED <<guardVars, online, untrusted, ready, decayVars, paramVars,
                   failSafeFlag, corruptions>>

(* The PMU sampler finds a calm CPU off its baseline (unlocked check), then *)
(* asks for it to be relaxed.                                               *)
RelaxCheck(t) ==
    /\ t = Pmu /\ job[t].at = "idle"
    /\ \E cpu \in online :
          /\ posture < HIGH
          /\ strategy[cpu] # base[cpu]
          /\ Become(t, CpuJob("relax", {cpu}))
    /\ UNCHANGED <<guardVars, online, untrusted, ready, decayVars, paramVars,
                   failSafeFlag, corruptReported, corruptions>>

RelaxCpu(t) ==
    /\ job[t].at = "relax"
    /\ \E cpu \in job[t].cpus : kg_mit_relax_cpu(cpu)
    /\ Become(t, Idle)
    /\ UNCHANGED <<online, untrusted, ready, decayVars, paramVars,
                   failSafeFlag, corruptReported, corruptions>>

-----------------------------------------------------------------------------
(* Transitions of the ladder: the kg_pos_lock sections. *)

kg_pos_apply_locked(target) ==
    /\ kg_mit_set_posture(target)
    /\ failSafeFlag' = (failSafeFlag /\ target = FAILSAFE)

(* Evaluated on the posture the section leaves behind. *)
kg_pos_arm_decay_locked ==
    decayWork' = IF ready /\ decayS # 0 /\ posture' = ELEVATED
                 THEN decayS ELSE decayWork

RaiseNotReady(t) ==
    /\ job[t].at = "raise" /\ ~ready
    /\ Become(t, Idle)
    /\ UNCHANGED <<guardVars, online, untrusted, ready, decayVars, paramVars,
                   failSafeFlag, corruptReported, corruptions>>

(* Mutant: any other target is applied, not only a higher one. *)
kg_posture_raise_AnyTarget(t) ==
    LET target == job[t].target IN
    /\ job[t].at = "raise" /\ ready
    /\ untrusted' = (untrusted \/ job[t].corrupt)
    /\ quiet' = IF target >= ELEVATED THEN 0 ELSE quiet
    /\ IF target # posture
       THEN /\ kg_pos_apply_locked(target)
            /\ Become(t, [job[t] EXCEPT !.at = "afterUp"])
       ELSE /\ UNCHANGED <<guardVars, failSafeFlag>>
            /\ Become(t, Idle)
    /\ kg_pos_arm_decay_locked
    /\ UNCHANGED <<online, ready, decaying, paramVars, corruptReported, corruptions>>

kg_posture_raise(t) ==
    LET target == job[t].target IN
    /\ job[t].at = "raise" /\ ready
    /\ untrusted' = (untrusted \/ job[t].corrupt)
    /\ quiet' = IF target >= ELEVATED THEN 0 ELSE quiet
    /\ IF target > posture
       THEN /\ kg_pos_apply_locked(target)
            /\ Become(t, [job[t] EXCEPT !.at = "afterUp"])
       ELSE /\ UNCHANGED <<guardVars, failSafeFlag>>
            /\ Become(t, Idle)
    /\ kg_pos_arm_decay_locked
    /\ UNCHANGED <<online, ready, decaying, paramVars, corruptReported, corruptions>>

(* Mutants: steps down from an untrusted state; leaves the timer alone. *)
kg_posture_set_Trusting(t) ==
    /\ t \notin {Integ, Pmu} /\ ready /\ job[t].at = "idle"
    /\ \E target \in OperatorTargets :
          /\ target # posture
          /\ kg_pos_apply_locked(target)
          /\ Become(t, PostureJob(IF target > posture THEN "afterUp" ELSE "announce",
                                  target, FALSE, TRUE))
    /\ quiet' = 0
    /\ kg_pos_arm_decay_locked
    /\ UNCHANGED <<online, untrusted, ready, decaying, paramVars,
                   corruptReported, corruptions>>

kg_posture_set_NoTimer(t) ==
    /\ t \notin {Integ, Pmu} /\ ready /\ job[t].at = "idle"
    /\ \E target \in OperatorTargets :
          /\ target # posture
          /\ ~(target < posture /\ posture >= HIGH /\ untrusted)
          /\ kg_pos_apply_locked(target)
          /\ Become(t, PostureJob(IF target > posture THEN "afterUp" ELSE "announce",
                                  target, FALSE, TRUE))
    /\ quiet' = 0
    /\ UNCHANGED <<online, untrusted, ready, decayWork, decaying, paramVars,
                   corruptReported, corruptions>>

(* KG_IOC_SET_POSTURE.  The requests it refuses, and the request for the *)
(* posture already held, change nothing.                                 *)
kg_posture_set(t) ==
    /\ t \notin {Integ, Pmu} /\ ready /\ job[t].at = "idle"
    /\ \E target \in OperatorTargets :
          /\ target # posture
          /\ ~(target < posture /\ posture >= HIGH /\ untrusted)
          /\ kg_pos_apply_locked(target)
          /\ Become(t, PostureJob(IF target > posture THEN "afterUp" ELSE "announce",
                                  target, FALSE, TRUE))
    /\ quiet' = 0
    /\ kg_pos_arm_decay_locked
    /\ UNCHANGED <<online, untrusted, ready, decaying, paramVars,
                   corruptReported, corruptions>>

(* Mutant: the flag is stored, not or-ed in. *)
kg_pos_after_up_Overwrite(t) ==
    /\ job[t].at = "afterUp"
    /\ failSafeFlag' = (job[t].target = FAILSAFE)
    /\ Become(t, AfterFollowUp(job[t]))
    /\ UNCHANGED <<guardVars, online, untrusted, ready, decayVars, paramVars,
                   corruptReported, corruptions>>

(* No lock held: the statistics flag.  The flushes, the alert and the kicks *)
(* that follow it change nothing here.                                      *)
kg_pos_after_up(t) ==
    /\ job[t].at = "afterUp"
    /\ failSafeFlag' = (failSafeFlag \/ job[t].target = FAILSAFE)
    /\ Become(t, AfterFollowUp(job[t]))
    /\ UNCHANGED <<guardVars, online, untrusted, ready, decayVars, paramVars,
                   corruptReported, corruptions>>

kg_pos_announce(t) ==
    /\ job[t].at = "announce"
    /\ Become(t, Idle)
    /\ UNCHANGED <<guardVars, online, untrusted, ready, decayVars, paramVars,
                   failSafeFlag, corruptReported, corruptions>>

(* The delayed work runs: decay_s is read before the lock is taken. *)
DecayStart ==
    /\ decayWork = 0 /\ decaying = Off
    /\ decayWork' = Off
    /\ decaying' = decayS
    /\ UNCHANGED <<guardVars, online, untrusted, ready, quiet, paramVars,
                   failSafeFlag, corruptReported, job, corruptions>>

DecayLocked_AnyRung ==
    /\ decaying # Off
    /\ decaying' = Off
    /\ IF ready /\ decaying # 0 /\ posture > NORMAL
       THEN IF quiet >= decaying
            THEN kg_pos_apply_locked(NORMAL) /\ UNCHANGED decayWork
            ELSE decayWork' = decaying - quiet /\ UNCHANGED <<guardVars, failSafeFlag>>
       ELSE UNCHANGED <<guardVars, failSafeFlag, decayWork>>
    /\ UNCHANGED <<online, untrusted, ready, quiet, paramVars,
                   corruptReported, job, corruptions>>

DecayLocked ==
    /\ decaying # Off
    /\ decaying' = Off
    /\ IF ready /\ decaying # 0 /\ posture = ELEVATED
       THEN IF quiet >= decaying
            THEN kg_pos_apply_locked(NORMAL) /\ UNCHANGED decayWork
            ELSE decayWork' = decaying - quiet /\ UNCHANGED <<guardVars, failSafeFlag>>
       ELSE UNCHANGED <<guardVars, failSafeFlag, decayWork>>
    /\ UNCHANGED <<online, untrusted, ready, quiet, paramVars,
                   corruptReported, job, corruptions>>

-----------------------------------------------------------------------------
(* Environment and life cycle. *)

Tick ==
    /\ quiet < MaxQuiet \/ decayWork > 0
    /\ quiet' = IF quiet < MaxQuiet THEN quiet + 1 ELSE quiet
    /\ decayWork' = IF decayWork > 0 THEN decayWork - 1 ELSE decayWork
    /\ UNCHANGED <<guardVars, online, untrusted, ready, decaying, paramVars,
                   failSafeFlag, corruptReported, job, corruptions>>

WriteParameter ==
    /\ maxPosture' \in MaxPostureValues
    /\ decayS' \in DecayValues
    /\ UNCHANGED <<guardVars, online, untrusted, ready, decayVars,
                   failSafeFlag, corruptReported, job, corruptions>>

kg_mit_cpu_online(cpu) ==
    /\ cpu \notin online
    /\ online' = online \cup {cpu}
    /\ kg_mit_store(cpu)
    /\ UNCHANGED <<untrusted, ready, decayVars, paramVars, failSafeFlag,
                   corruptReported, job, corruptions>>

CpuOffline(cpu) ==
    /\ online \ {cpu} # {}
    /\ online' = online \ {cpu}
    /\ UNCHANGED <<guardVars, untrusted, ready, decayVars, paramVars,
                   failSafeFlag, corruptReported, job, corruptions>>

(* The fault kg_guard_verify() is there for: a row of the table changes     *)
(* behind the module's back.  Any wrong strategy would do; it is the weakest. *)
Corrupt ==
    /\ corruptions < MaxCorruptions
    /\ \E c \in Cpu :
          /\ strategy[c] # STRAT_NONE
          /\ strategy' = [strategy EXCEPT ![c] = STRAT_NONE]
    /\ corruptions' = corruptions + 1
    /\ UNCHANGED <<posture, failsafe, base, digest, online, untrusted, ready,
                   decayVars, paramVars, failSafeFlag, corruptReported, job>>

(* kg_posture_exit(): first no new work, then cancel_delayed_work_sync(). *)
ExitNotReady ==
    /\ ready
    /\ ready' = FALSE
    /\ UNCHANGED <<guardVars, online, untrusted, decayVars, paramVars,
                   failSafeFlag, corruptReported, job, corruptions>>

ExitCancel ==
    /\ ~ready /\ decaying = Off /\ decayWork # Off
    /\ decayWork' = Off
    /\ UNCHANGED <<guardVars, online, untrusted, ready, quiet, decaying, paramVars,
                   failSafeFlag, corruptReported, job, corruptions>>

ThreadStep(t) ==
    \/ kg_dispatch(t) \/ PmuAlert(t) \/ VerifyPasses(t) \/ VerifyFails(t)
    \/ EscalateCpu(t) \/ EscalateSibling(t) \/ SiblingsDone(t)
    \/ RelaxCheck(t) \/ RelaxCpu(t)
    \/ kg_posture_raise(t) \/ RaiseNotReady(t) \/ kg_posture_set(t)
    \/ kg_pos_after_up(t) \/ kg_pos_announce(t)

Next ==
    \/ \E t \in Thread : ThreadStep(t)
    \/ DecayStart \/ DecayLocked \/ Tick \/ WriteParameter
    \/ \E cpu \in Cpu : kg_mit_cpu_online(cpu) \/ CpuOffline(cpu)
    \/ Corrupt \/ ExitNotReady \/ ExitCancel

Spec == Init /\ [][Next]_vars

(* Time passes, and the workqueue runs a work item that is due and finishes *)
(* one that is running.  Nothing forces an alert or an operator to come.    *)
FairSpec == Spec /\ WF_vars(Tick) /\ WF_vars(DecayStart) /\ WF_vars(DecayLocked)

-----------------------------------------------------------------------------
(* Properties. *)

(* Every variable has its type. *)
TypeOK ==
    /\ posture \in Posture /\ failsafe \in BOOLEAN
    /\ strategy \in [Cpu -> Strategy] /\ base \in [Cpu -> Strategy]
    /\ digest \in [posture : Posture, failsafe : BOOLEAN,
                   strategy : [Cpu -> Strategy], base : [Cpu -> Strategy]]
    /\ online \subseteq Cpu
    /\ untrusted \in BOOLEAN /\ ready \in BOOLEAN
    /\ quiet \in 0 .. MaxQuiet
    /\ decayWork \in Off .. MaxQuiet /\ decaying \in Off .. MaxQuiet
    /\ maxPosture \in MaxPostureValues /\ decayS \in DecayValues
    /\ failSafeFlag \in BOOLEAN /\ corruptReported \in BOOLEAN
    /\ job \in [Thread -> Job]
    /\ corruptions \in 0 .. MaxCorruptions

(* The floor (kg_mitigate.c, kg_mit_set_posture): at HIGH and above every    *)
(* row of the table is full-spectrum, whatever relax steps, CPUs coming      *)
(* online and escalations are in flight, as long as nothing corrupted it.    *)
FloorHeld ==
    corruptions = 0 /\ posture >= HIGH => \A c \in Cpu : strategy[c] = STRAT_FULL

(* No online CPU is ever left with less than what its own probe asked for:   *)
(* stepping down, relaxing and hotplug restore the probed strategy and       *)
(* nothing weaker.                                                           *)
NeverBelowProbe ==
    corruptions = 0 => \A c \in online : strategy[c] \in {ProbedStrategy, STRAT_FULL}

(* The hash in kg_guard.digest matches the table outside kg_guard_lock, so   *)
(* kg_guard_verify() raises no false alarm, and the fail-safe bit is set     *)
(* exactly on the top rung (kg.h, struct kg_guard_hdr).                      *)
HashMatchesTable ==
    /\ corruptions = 0 => kg_guard_verify
    /\ failsafe <=> posture = FAILSAFE

(* The fail-safe state is never entered silently: while it lasts, either the *)
(* statistics flag is up or the thread that entered it still has to put it up *)
(* (kg_pos_after_up runs after kg_pos_lock is dropped).                      *)
FailSafeFlagComes ==
    posture = FAILSAFE => \/ failSafeFlag
                          \/ \E t \in Thread : job[t].at = "afterUp" /\ job[t].target = FAILSAFE

(* Lowering is never automatic above ELEVATED, and ELEVATED falls to NORMAL  *)
(* by itself only after the whole quiet period that the decay function read. *)
LoweringIsDeliberate ==
    [][posture' < posture => \/ \E t \in Thread : kg_posture_set(t)
                             \/ posture = ELEVATED /\ quiet >= decaying /\ decaying > 0]_vars

(* Once the policy state was found corrupt, HIGH and FAILSAFE are never left *)
(* downwards, not even by an operator.                                       *)
UntrustedNeverStepsDown ==
    [][untrusted /\ posture >= HIGH => posture' >= posture]_vars

(* ELEVATED lasts for ever only if triggers keep coming.  (For a decay time  *)
(* above zero.)                                                              *)
ElevatedDecays ==
    <>[](ready /\ posture = ELEVATED /\ decayS > 0) => []<>(quiet = 0)

(* The abstract ladder, over the CPUs whose row is full-spectrum and the    *)
(* operators whose change is still to be announced.                         *)
Ladder == INSTANCE PostureLadder
             WITH full <- {c \in Cpu : strategy[c] = STRAT_FULL},
                  announcing <- {t \in Thread : job[t].operator}

(* Threads, timers, late follow-ups, the hash and the table together        *)
(* implement the ladder the header comment of kg_posture.c describes (for a  *)
(* table nothing corrupts).                                                 *)
ImplementsLadder == Ladder!Spec
=============================================================================

-------------------------- MODULE KgPostureProofs --------------------------
(* Proofs about KgPosture, for every set of CPUs and threads and every *)
(* value of the module parameters.                                     *)
EXTENDS KgPosture, TLAPS

USE CpuAssumption, ProbeAssumption, ThreadAssumption, ParameterAssumption

(* The strategy chosen for the machine is one of the strategies. *)
LEMMA ProbedStrategyType == ProbedStrategy \in Strategy
BY DEF ProbedStrategy, Strategy, STRAT_NONE, STRAT_VERW, STRAT_L1D,
       STRAT_VERW_L1D, STRAT_FULL

(* The four named postures are the rungs of the ladder. *)
LEMMA Rungs == {NORMAL, ELEVATED, HIGH, FAILSAFE} \subseteq Posture
BY DEF Posture, NORMAL, ELEVATED, HIGH, FAILSAFE

(* kg_dispatch() asks for a rung of the ladder, whatever the alert. *)
LEMMA RungType == \A a \in AlertType \X (INFO .. CRITICAL) : Rung(a[1], a[2]) \in Posture
BY DEF Rung, AlertType, Posture, NORMAL, ELEVATED, HIGH, FAILSAFE

(* The request of kg_posture_raise() is capped by max_posture. *)
LEMMA RaiseJobType ==
    ASSUME TypeOK, NEW target \in Posture, NEW corrupt \in BOOLEAN
    PROVE  /\ RaiseJob(target, corrupt) \in Job
           /\ RaiseJob(target, corrupt).at = "raise"
           /\ RaiseJob(target, corrupt).target <= maxPosture
<1> DEFINE r == MinOf(target, maxPosture)
<1>1. maxPosture \in Nat
  BY DEF TypeOK
<1>2. r \in Posture /\ r <= maxPosture
  BY <1>1 DEF MinOf, Posture, NORMAL, FAILSAFE
<1> HIDE DEF r
<1>3. RaiseJob(target, corrupt) = PostureJob("raise", r, corrupt, FALSE)
  BY DEF RaiseJob, r
<1>4. QED
  BY <1>2, <1>3 DEF PostureJob, Job, Label

(* A thread outside the driver has a job of the right type. *)
LEMMA IdleType == Idle \in Job /\ Idle.at = "idle"
BY DEF Idle, CpuJob, Job, Label, Posture, NORMAL, FAILSAFE

(* A thread that moves on to another job keeps the type of job. *)
LEMMA BecomeType ==
    ASSUME TypeOK, NEW t \in Thread, NEW j \in Job, Become(t, j)
    PROVE  job' \in [Thread -> Job]
BY DEF TypeOK, Become

(* A job over CPUs (escalate, siblings, relax) has its type. *)
LEMMA CpuJobType ==
    ASSUME NEW at \in Label, NEW cpus \in SUBSET Cpu
    PROVE  CpuJob(at, cpus) \in Job
BY DEF CpuJob, Job, Posture, NORMAL, FAILSAFE

(* A job that moves the posture has its type. *)
LEMMA PostureJobType ==
    ASSUME NEW at \in Label, NEW target \in Posture,
           NEW corrupt \in BOOLEAN, NEW operator \in BOOLEAN
    PROVE  PostureJob(at, target, corrupt, operator) \in Job
BY DEF PostureJob, Job

(* A job that only moves to another label keeps its type. *)
LEMMA JobAtType ==
    ASSUME NEW j \in Job, NEW at \in Label
    PROVE  [j EXCEPT !.at = at] \in Job
BY DEF Job

(* The types of the table, as one conjunct. *)
GuardType ==
    /\ posture \in Posture /\ failsafe \in BOOLEAN
    /\ strategy \in [Cpu -> Strategy] /\ base \in [Cpu -> Strategy]
    /\ digest \in [posture : Posture, failsafe : BOOLEAN,
                   strategy : [Cpu -> Strategy], base : [Cpu -> Strategy]]

(* kg_guard_unlock_release() stores a hash of the right type. *)
LEMMA UnlockType ==
    ASSUME posture' \in Posture, failsafe' \in BOOLEAN,
           strategy' \in [Cpu -> Strategy], base' \in [Cpu -> Strategy],
           kg_guard_unlock_release
    PROVE  GuardType'
BY DEF GuardType, kg_guard_unlock_release

(* kg_mit_store() keeps the type of the table. *)
LEMMA StoreType ==
    ASSUME GuardType, NEW cpu \in Cpu, kg_mit_store(cpu)
    PROVE  GuardType'
<1>1. strategy' \in [Cpu -> Strategy] /\ base' \in [Cpu -> Strategy]
  BY ProbedStrategyType DEF GuardType, kg_mit_store, Strategy, STRAT_NONE, STRAT_FULL
<1>2. QED
  BY <1>1, UnlockType DEF GuardType, kg_mit_store

(* kg_mit_set_posture() keeps the type of the table. *)
LEMMA SetPostureType ==
    ASSUME GuardType, NEW target \in Posture, kg_mit_set_posture(target)
    PROVE  GuardType'
<1>1. strategy' \in [Cpu -> Strategy] /\ base' \in [Cpu -> Strategy]
  BY DEF GuardType, kg_mit_set_posture, Strategy, STRAT_NONE, STRAT_FULL,
         Posture, NORMAL, HIGH, FAILSAFE
<1>2. QED
  BY <1>1, UnlockType DEF GuardType, kg_mit_set_posture

(* kg_mit_escalate_cpu() keeps the type of the table. *)
LEMMA EscalateType ==
    ASSUME GuardType, NEW cpu \in Cpu, kg_mit_escalate_cpu(cpu)
    PROVE  GuardType'
<1>1. strategy' \in [Cpu -> Strategy] /\ base' \in [Cpu -> Strategy]
  BY DEF GuardType, kg_mit_escalate_cpu, Strategy, STRAT_NONE, STRAT_FULL
<1>2. QED
  BY <1>1, UnlockType DEF GuardType, kg_mit_escalate_cpu

(* kg_mit_relax_cpu() keeps the type of the table. *)
LEMMA RelaxType ==
    ASSUME GuardType, NEW cpu \in Cpu, kg_mit_relax_cpu(cpu)
    PROVE  GuardType'
<1>1. strategy' \in [Cpu -> Strategy] /\ base' \in [Cpu -> Strategy]
  BY DEF GuardType, kg_mit_relax_cpu
<1>2. QED
  BY <1>1, UnlockType DEF GuardType, kg_mit_relax_cpu

(* Every variable keeps its type in every reachable state of kg_posture.c, *)
(* kg_mitigate.c and the alert router.                                     *)
THEOREM TypeCorrect == Spec => []TypeOK
<1>1. Init => TypeOK
  <2> SUFFICES ASSUME Init PROVE TypeOK
    OBVIOUS
  <2>1. base \in [Cpu -> Strategy]
    BY ProbedStrategyType DEF Init, Strategy, STRAT_NONE, STRAT_FULL
  <2>2. Table \in [posture : Posture, failsafe : BOOLEAN,
                   strategy : [Cpu -> Strategy], base : [Cpu -> Strategy]]
    <3>1. posture \in Posture /\ failsafe \in BOOLEAN /\ strategy \in [Cpu -> Strategy]
      BY ZenonT(60), <2>1, Rungs DEF Init
    <3>2. QED
      BY <2>1, <3>1 DEF Table
  <2>3. job \in [Thread -> Job]
    BY IdleType DEF Init
  <2>4. online \subseteq Cpu /\ quiet \in 0 .. MaxQuiet
    BY DEF Init
  <2>5. decayWork \in Off .. MaxQuiet /\ decaying \in Off .. MaxQuiet
    BY DEF Init, Off
  <2>6. corruptions \in 0 .. MaxCorruptions
    BY DEF Init
  <2>7. QED
    BY ZenonT(60), <2>1, <2>2, <2>3, <2>4, <2>5, <2>6, Rungs DEF Init, TypeOK
<1>2. TypeOK /\ [Next]_vars => TypeOK'
  <2> SUFFICES ASSUME TypeOK, [Next]_vars PROVE TypeOK'
    OBVIOUS
  <2> USE DEF guardVars, decayVars, paramVars
  <2>0. GuardType
    BY DEF TypeOK, GuardType
  <2>1. ASSUME NEW t \in Thread, kg_dispatch(t) PROVE TypeOK'
    <3>1. PICK rung \in Posture : Become(t, RaiseJob(rung, FALSE))
      BY ZenonT(60), <2>1, RungType DEF kg_dispatch
    <3>2. job' \in [Thread -> Job]
      BY ZenonT(60), <3>1, RaiseJobType, BecomeType
    <3>3. QED
      BY <2>1, <3>2 DEF kg_dispatch, TypeOK
  <2>2. ASSUME NEW t \in Thread, PmuAlert(t) PROVE TypeOK'
    <3>1. PICK cpu \in Cpu : Become(t, IF cpu \in online THEN CpuJob("escalate", {cpu})
                                        ELSE RaiseJob(ELEVATED, FALSE))
      BY ZenonT(60), <2>2 DEF PmuAlert
    <3>2. CpuJob("escalate", {cpu}) \in Job
      BY CpuJobType DEF Label
    <3>3. RaiseJob(ELEVATED, FALSE) \in Job
      BY ZenonT(60), RaiseJobType, Rungs
    <3>4. job' \in [Thread -> Job]
      BY ZenonT(60), <3>1, <3>2, <3>3, BecomeType
    <3>5. QED
      BY <2>2, <3>4 DEF PmuAlert, TypeOK
  <2>3. ASSUME NEW t \in Thread, VerifyPasses(t) \/ VerifyFails(t) PROVE TypeOK'
    <3>1. RaiseJob(FAILSAFE, TRUE) \in Job
      BY ZenonT(60), RaiseJobType, Rungs
    <3>2. job' \in [Thread -> Job]
      BY ZenonT(60), <2>3, <3>1, BecomeType DEF VerifyPasses, VerifyFails, TypeOK
    <3>3. QED
      BY ZenonT(60), <2>3, <3>2 DEF VerifyPasses, VerifyFails, TypeOK
  <2>4. ASSUME NEW t \in Thread, EscalateCpu(t) PROVE TypeOK'
    <3>1. PICK cpu \in job[t].cpus :
             kg_mit_escalate_cpu(cpu) /\ Become(t, CpuJob("siblings", Siblings[cpu] \ {cpu}))
      BY ZenonT(60), <2>4 DEF EscalateCpu
    <3>2. cpu \in Cpu
      BY DEF TypeOK, Job
    <3>3. CpuJob("siblings", Siblings[cpu] \ {cpu}) \in Job
      BY <3>2, CpuJobType DEF Label
    <3>4. job' \in [Thread -> Job]
      BY <3>1, <3>3, BecomeType
    <3>5. GuardType'
      BY <2>0, <3>1, <3>2, EscalateType
    <3>6. QED
      BY <2>4, <3>4, <3>5 DEF EscalateCpu, TypeOK, GuardType
  <2>5. ASSUME NEW t \in Thread, EscalateSibling(t) PROVE TypeOK'
    <3>1. PICK sib \in job[t].cpus :
             /\ IF sib \in online THEN kg_mit_escalate_cpu(sib) ELSE UNCHANGED guardVars
             /\ Become(t, CpuJob("siblings", job[t].cpus \ {sib}))
      BY ZenonT(60), <2>5 DEF EscalateSibling
    <3>2. sib \in Cpu /\ job[t].cpus \in SUBSET Cpu
      BY DEF TypeOK, Job
    <3>3. CpuJob("siblings", job[t].cpus \ {sib}) \in Job
      BY <3>2, CpuJobType DEF Label
    <3>4. job' \in [Thread -> Job]
      BY <3>1, <3>3, BecomeType
    <3>5. GuardType'
      BY <2>0, <3>1, <3>2, EscalateType DEF GuardType
    <3>6. QED
      BY <2>5, <3>4, <3>5 DEF EscalateSibling, TypeOK, GuardType
  <2>6. ASSUME NEW t \in Thread, SiblingsDone(t) PROVE TypeOK'
    <3>1. RaiseJob(ELEVATED, FALSE) \in Job
      BY ZenonT(60), RaiseJobType, Rungs
    <3>2. job' \in [Thread -> Job]
      BY ZenonT(60), <2>6, <3>1, BecomeType DEF SiblingsDone
    <3>3. QED
      BY <2>6, <3>2 DEF SiblingsDone, TypeOK
  <2>7. ASSUME NEW t \in Thread, RelaxCheck(t) PROVE TypeOK'
    <3>1. PICK cpu \in online : Become(t, CpuJob("relax", {cpu}))
      BY ZenonT(60), <2>7 DEF RelaxCheck
    <3>2. CpuJob("relax", {cpu}) \in Job
      BY CpuJobType DEF Label, TypeOK
    <3>3. job' \in [Thread -> Job]
      BY <3>1, <3>2, BecomeType
    <3>4. QED
      BY <2>7, <3>3 DEF RelaxCheck, TypeOK
  <2>8. ASSUME NEW t \in Thread, RelaxCpu(t) PROVE TypeOK'
    <3>1. PICK cpu \in job[t].cpus : kg_mit_relax_cpu(cpu)
      BY <2>8 DEF RelaxCpu
    <3>2. cpu \in Cpu
      BY DEF TypeOK, Job
    <3>3. GuardType' /\ job' \in [Thread -> Job]
      BY <2>0, <2>8, <3>1, <3>2, RelaxType, IdleType, BecomeType DEF RelaxCpu
    <3>4. QED
      BY <2>8, <3>3 DEF RelaxCpu, TypeOK, GuardType
  <2>9. ASSUME NEW t \in Thread, RaiseNotReady(t) \/ kg_pos_announce(t) PROVE TypeOK'
    <3>1. job' \in [Thread -> Job]
      BY <2>9, IdleType, BecomeType DEF RaiseNotReady, kg_pos_announce
    <3>2. QED
      BY <2>9, <3>1 DEF RaiseNotReady, kg_pos_announce, TypeOK
  <2>10. ASSUME NEW t \in Thread, kg_posture_raise(t) PROVE TypeOK'
    <3>1. job[t] \in Job /\ job[t].target \in Posture /\ job[t].corrupt \in BOOLEAN
      BY DEF TypeOK, Job
    <3>2. [job[t] EXCEPT !.at = "afterUp"] \in Job
      BY ZenonT(60), <3>1, JobAtType DEF Label
    <3>3. job' \in [Thread -> Job]
      BY <2>10, <3>2, IdleType, BecomeType DEF kg_posture_raise
    <3>4. GuardType' /\ failSafeFlag' \in BOOLEAN
      BY ZenonT(60), <2>0, <2>10, <3>1, SetPostureType
         DEF kg_posture_raise, kg_pos_apply_locked, TypeOK, GuardType
    <3>5. decayWork' \in Off .. MaxQuiet
      BY <2>10 DEF kg_posture_raise, kg_pos_arm_decay_locked, TypeOK, Off
    <3>6. quiet' \in 0 .. MaxQuiet
      BY <2>10 DEF kg_posture_raise, TypeOK
    <3>7. QED
      BY <2>10, <3>1, <3>3, <3>4, <3>5, <3>6 DEF kg_posture_raise, TypeOK, GuardType
  <2>11. ASSUME NEW t \in Thread, kg_posture_set(t) PROVE TypeOK'
    <3>1. PICK target \in OperatorTargets :
             /\ kg_pos_apply_locked(target)
             /\ Become(t, PostureJob(IF target > posture THEN "afterUp" ELSE "announce",
                                     target, FALSE, TRUE))
      BY ZenonT(60), <2>11 DEF kg_posture_set
    <3>2. PostureJob(IF target > posture THEN "afterUp" ELSE "announce",
                     target, FALSE, TRUE) \in Job
      BY ZenonT(60), PostureJobType DEF Label
    <3>3. job' \in [Thread -> Job]
      BY ZenonT(60), <3>1, <3>2, BecomeType
    <3>4. GuardType' /\ failSafeFlag' \in BOOLEAN
      BY <2>0, <3>1, SetPostureType DEF kg_pos_apply_locked
    <3>5. decayWork' \in Off .. MaxQuiet /\ quiet' \in 0 .. MaxQuiet
      BY SMTT(30), <2>11 DEF kg_posture_set, kg_pos_arm_decay_locked, TypeOK, Off
    <3>6. QED
      BY <2>11, <3>3, <3>4, <3>5 DEF kg_posture_set, TypeOK, GuardType
  <2>12. ASSUME NEW t \in Thread, kg_pos_after_up(t) PROVE TypeOK'
    <3>1. job[t] \in Job
      BY DEF TypeOK
    <3>2. [job[t] EXCEPT !.at = "announce"] \in Job
      BY ZenonT(60), <3>1, JobAtType DEF Label
    <3>3. job' \in [Thread -> Job]
      BY <2>12, <3>2, IdleType, BecomeType DEF kg_pos_after_up, AfterFollowUp
    <3>4. QED
      BY <2>12, <3>3 DEF kg_pos_after_up, TypeOK
  <2>13. CASE DecayStart
    BY SMTT(30), <2>13 DEF DecayStart, TypeOK, Off
  <2>14. CASE DecayLocked
    <3>0. NORMAL \in Posture
      BY Rungs
    <3>1. GuardType' /\ failSafeFlag' \in BOOLEAN
      <4>1. CASE kg_pos_apply_locked(NORMAL)
        BY <2>0, <3>0, <4>1, SetPostureType DEF kg_pos_apply_locked
      <4>2. CASE UNCHANGED <<guardVars, failSafeFlag>>
        BY <2>0, <4>2 DEF GuardType, TypeOK
      <4>3. QED
        BY <2>14, <4>1, <4>2 DEF DecayLocked
    <3>2. decayWork' \in Off .. MaxQuiet
      BY SMTT(30), <2>14 DEF DecayLocked, TypeOK, Off
    <3>3. QED
      BY SMTT(30), <2>14, <3>1, <3>2 DEF DecayLocked, TypeOK, GuardType, Off
  <2>15. CASE Tick
    BY SMTT(30), <2>15 DEF Tick, TypeOK, Off
  <2>16. CASE WriteParameter
    BY <2>16 DEF WriteParameter, TypeOK
  <2>17. ASSUME NEW cpu \in Cpu, kg_mit_cpu_online(cpu) PROVE TypeOK'
    <3>1. GuardType'
      BY <2>0, <2>17, StoreType DEF kg_mit_cpu_online
    <3>2. QED
      BY <2>17, <3>1 DEF kg_mit_cpu_online, TypeOK, GuardType
  <2>18. ASSUME NEW cpu \in Cpu, CpuOffline(cpu) PROVE TypeOK'
    BY <2>18 DEF CpuOffline, TypeOK
  <2>19. CASE Corrupt
    <3>1. strategy' \in [Cpu -> Strategy] /\ corruptions' \in 0 .. MaxCorruptions
      BY SMTT(30), <2>19 DEF Corrupt, TypeOK, Strategy, STRAT_NONE, STRAT_FULL
    <3>2. QED
      BY <2>19, <3>1 DEF Corrupt, TypeOK
  <2>20. CASE ExitNotReady \/ ExitCancel
    BY ZenonT(60), <2>20 DEF ExitNotReady, ExitCancel, TypeOK, Off
  <2>21. CASE UNCHANGED vars
    BY <2>21 DEF vars, TypeOK
  <2>22. QED
    BY <2>1, <2>2, <2>3, <2>4, <2>5, <2>6, <2>7, <2>8, <2>9, <2>10, <2>11, <2>12,
       <2>13, <2>14, <2>15, <2>16, <2>17, <2>18, <2>19, <2>20, <2>21
       DEF Next, ThreadStep
<1>3. QED
  BY <1>1, <1>2, PTL DEF Spec

-----------------------------------------------------------------------------
(* The table. *)

(* What a step can do to the table: nothing, one of the four locked        *)
(* mutations of kg_mitigate.c, or a corruption.                            *)
LEMMA GuardStep ==
    ASSUME TypeOK, [Next]_vars
    PROVE  \/ UNCHANGED guardVars /\ corruptions' = corruptions /\ online' \subseteq online
           \/ \E cpu \in Cpu : /\ kg_mit_store(cpu) /\ online' = online \cup {cpu}
                               /\ corruptions' = corruptions
           \/ \E target \in Posture : kg_mit_set_posture(target) /\ UNCHANGED <<online, corruptions>>
           \/ \E cpu \in Cpu : /\ kg_mit_escalate_cpu(cpu) \/ kg_mit_relax_cpu(cpu)
                               /\ UNCHANGED <<online, corruptions>>
           \/ corruptions' = corruptions + 1 /\ UNCHANGED <<posture, failsafe>>
<1>1. ASSUME NEW t \in Thread, EscalateCpu(t) \/ EscalateSibling(t) \/ RelaxCpu(t)
      PROVE  \/ UNCHANGED <<guardVars, online, corruptions>>
             \/ \E cpu \in Cpu : /\ kg_mit_escalate_cpu(cpu) \/ kg_mit_relax_cpu(cpu)
                                 /\ UNCHANGED <<online, corruptions>>
  <2>1. job[t].cpus \subseteq Cpu
    BY DEF TypeOK, Job
  <2>2. QED
    BY ZenonT(60), <1>1, <2>1 DEF EscalateCpu, EscalateSibling, RelaxCpu
<1>2. ASSUME NEW t \in Thread, kg_posture_raise(t) \/ kg_posture_set(t)
      PROVE  \/ UNCHANGED <<guardVars, online, corruptions>>
             \/ \E target \in Posture : kg_mit_set_posture(target) /\ UNCHANGED <<online, corruptions>>
  <2>1. job[t].target \in Posture
    BY DEF TypeOK, Job
  <2>2. QED
    BY ZenonT(60), <1>2, <2>1 DEF kg_posture_raise, kg_posture_set, kg_pos_apply_locked
<1>3. CASE DecayLocked
  BY <1>3, Rungs DEF DecayLocked, kg_pos_apply_locked
<1>4. QED
  BY ZenonT(60), <1>1, <1>2, <1>3 DEF Next, ThreadStep, vars, guardVars, kg_dispatch,
     PmuAlert, VerifyPasses, VerifyFails, SiblingsDone, RelaxCheck, RaiseNotReady,
     kg_pos_after_up, kg_pos_announce, DecayStart, Tick, WriteParameter, kg_mit_cpu_online,
     CpuOffline, Corrupt, ExitNotReady, ExitCancel

(* The inductive invariant of the table.  FloorHeld and NeverBelowProbe are *)
(* not inductive: a relax step or a step down copies base_strategy, so the  *)
(* invariant has to say what base_strategy holds for a CPU that is online.  *)
GuardInv ==
    /\ failsafe <=> posture = FAILSAFE
    /\ corruptions = 0 =>
          /\ digest = Table
          /\ posture >= HIGH => \A c \in Cpu : strategy[c] = STRAT_FULL
          /\ \A c \in online : /\ base[c] = ProbedStrategy
                               /\ strategy[c] \in {ProbedStrategy, STRAT_FULL}

(* GuardInv is an invariant of every interleaving. *)
LEMMA GuardInvariant == Spec => [](TypeOK /\ GuardInv)
<1>1. Init => GuardInv
  BY DEF Init, GuardInv, Table, NORMAL, HIGH, FAILSAFE
<1>2. TypeOK /\ GuardInv /\ [Next]_vars => GuardInv'
  <2> SUFFICES ASSUME TypeOK, GuardInv, [Next]_vars PROVE GuardInv'
    OBVIOUS
  <2>1. CASE UNCHANGED guardVars /\ corruptions' = corruptions /\ online' \subseteq online
    BY <2>1 DEF GuardInv, guardVars, Table
  <2>2. ASSUME NEW cpu \in Cpu, kg_mit_store(cpu), online' = online \cup {cpu},
               corruptions' = corruptions
        PROVE  GuardInv'
    BY SMTT(30), <2>2 DEF GuardInv, kg_mit_store, kg_guard_unlock_release, Table, TypeOK
  <2>3. ASSUME NEW target \in Posture, kg_mit_set_posture(target),
               UNCHANGED <<online, corruptions>>
        PROVE  GuardInv'
    <3> DEFINE Rows == /\ posture' >= HIGH => \A c \in Cpu : strategy'[c] = STRAT_FULL
                       /\ \A c \in online' : /\ base'[c] = ProbedStrategy
                                             /\ strategy'[c] \in {ProbedStrategy, STRAT_FULL}
    <3>1. posture' = target /\ base' = base
      BY <2>3 DEF kg_mit_set_posture
    <3>2. failsafe' <=> posture' = FAILSAFE
      BY ZenonT(60), <2>3 DEF kg_mit_set_posture
    <3>3. digest' = Table'
      BY <2>3 DEF kg_mit_set_posture, kg_guard_unlock_release, Table
    <3>4. ASSUME corruptions = 0, target >= HIGH PROVE Rows
      <4>1. strategy' = [c \in Cpu |-> STRAT_FULL]
        BY <2>3, <3>4 DEF kg_mit_set_posture, HIGH, Posture, NORMAL, FAILSAFE
      <4>2. QED
        BY <2>3, <3>1, <3>4, <4>1 DEF GuardInv, TypeOK
    <3>5. ASSUME corruptions = 0, target < HIGH, posture >= HIGH PROVE Rows
      <4>1. strategy' = base
        BY <2>3, <3>5 DEF kg_mit_set_posture, TypeOK, Posture, NORMAL, HIGH, FAILSAFE
      <4>2. QED
        BY SMTT(30), <2>3, <3>1, <3>5, <4>1 DEF GuardInv, TypeOK, Posture, NORMAL, HIGH,
           FAILSAFE
    <3>6. ASSUME corruptions = 0, target < HIGH, posture < HIGH PROVE Rows
      <4>1. strategy' = strategy
        BY SMTT(30), <2>3, <3>6 DEF kg_mit_set_posture, TypeOK, Posture, NORMAL, HIGH,
           FAILSAFE
      <4>2. QED
        BY SMTT(30), <2>3, <3>1, <3>6, <4>1 DEF GuardInv, TypeOK, Posture, NORMAL, HIGH,
           FAILSAFE
    <3>7. corruptions = 0 => Rows
      BY SMTT(30), <3>4, <3>5, <3>6 DEF TypeOK, Posture, NORMAL, HIGH, FAILSAFE
    <3>8. QED
      BY <2>3, <3>2, <3>3, <3>7 DEF GuardInv
  <2>4. ASSUME NEW cpu \in Cpu, kg_mit_escalate_cpu(cpu) \/ kg_mit_relax_cpu(cpu),
               UNCHANGED <<online, corruptions>>
        PROVE  GuardInv'
    <3>1. CASE kg_mit_escalate_cpu(cpu)
      BY <2>4, <3>1 DEF GuardInv, kg_mit_escalate_cpu, kg_guard_unlock_release, Table,
         TypeOK
    <3>2. CASE kg_mit_relax_cpu(cpu)
      BY SMTT(30), <2>4, <3>2 DEF GuardInv, kg_mit_relax_cpu, kg_guard_unlock_release,
         Table, TypeOK, Posture, NORMAL, HIGH, FAILSAFE
    <3>3. QED
      BY <2>4, <3>1, <3>2
  <2>5. CASE corruptions' = corruptions + 1 /\ UNCHANGED <<posture, failsafe>>
    BY SMTT(30), <2>5 DEF GuardInv, TypeOK
  <2>6. QED
    BY <2>1, <2>2, <2>3, <2>4, <2>5, GuardStep
<1>3. QED
  BY <1>1, <1>2, TypeCorrect, PTL DEF Spec

(* From HIGH upwards every CPU is at full-spectrum mitigation, an online CPU *)
(* never has less than its probe asked for, and the hash always matches the  *)
(* table, however PMU relax steps, CPU hotplug, alerts, operators and the    *)
(* decay timer interleave.                                                   *)
THEOREM TableCorrect == Spec => [](FloorHeld /\ NeverBelowProbe /\ HashMatchesTable)
<1>1. GuardInv => FloorHeld /\ NeverBelowProbe /\ HashMatchesTable
  BY SMTT(30) DEF GuardInv, FloorHeld, NeverBelowProbe, HashMatchesTable, kg_guard_verify
<1>2. QED
  BY <1>1, GuardInvariant, PTL

-----------------------------------------------------------------------------
(* The ladder. *)

(* The posture and the trust in the policy state move in three places only. *)
LEMMA PostureStep ==
    ASSUME TypeOK, [Next]_vars
    PROVE  \/ UNCHANGED <<posture, untrusted>>
           \/ \E t \in Thread : kg_posture_raise(t)
           \/ \E t \in Thread : kg_posture_set(t)
           \/ DecayLocked
BY ZenonT(60) DEF Next, ThreadStep, vars, guardVars, kg_dispatch, PmuAlert, VerifyPasses,
   VerifyFails, EscalateCpu, EscalateSibling, kg_mit_escalate_cpu, RelaxCpu,
   kg_mit_relax_cpu, SiblingsDone, RelaxCheck, RaiseNotReady, kg_pos_after_up,
   kg_pos_announce, DecayStart, Tick, WriteParameter, kg_mit_cpu_online, kg_mit_store,
   CpuOffline, Corrupt, ExitNotReady, ExitCancel

(* kg_posture_raise() never lowers the posture and never restores trust. *)
LEMMA RaisePosture ==
    ASSUME TypeOK, NEW t \in Thread, kg_posture_raise(t)
    PROVE  /\ untrusted' \in {untrusted, TRUE}
           /\ \/ posture' = posture
              \/ posture' \in Posture /\ posture' > posture
<1>1. job[t].target \in Posture /\ job[t].corrupt \in BOOLEAN
  BY DEF TypeOK, Job
<1>2. untrusted' \in {untrusted, TRUE}
  BY ZenonT(60), <1>1 DEF kg_posture_raise, TypeOK
<1>3. QED
  BY ZenonT(60), <1>1, <1>2 DEF kg_posture_raise, kg_pos_apply_locked, kg_mit_set_posture,
     guardVars

(* kg_posture_set() refuses to lower HIGH and FAILSAFE once untrusted. *)
LEMMA SetPosture ==
    ASSUME TypeOK, NEW t \in Thread, kg_posture_set(t)
    PROVE  /\ untrusted' = untrusted
           /\ posture' \in Posture
           /\ ~(untrusted /\ posture >= HIGH /\ posture' < posture)
BY DEF kg_posture_set, kg_pos_apply_locked, kg_mit_set_posture

(* kg_pos_decay_fn() lowers ELEVATED to NORMAL after the quiet period, or nothing. *)
LEMMA DecayPosture ==
    ASSUME TypeOK, DecayLocked
    PROVE  /\ untrusted' = untrusted
           /\ \/ posture' = posture
              \/ posture = ELEVATED /\ posture' = NORMAL /\ decaying > 0 /\ quiet >= decaying
BY DEF DecayLocked, kg_pos_apply_locked, kg_mit_set_posture, guardVars, TypeOK, Off

(* Lowering the posture takes an operator, or ELEVATED and a quiet period as *)
(* long as the decay function has read.                                      *)
THEOREM LoweringDeliberate == Spec => LoweringIsDeliberate
<1>1. TypeOK /\ [Next]_vars =>
        [posture' < posture => \/ \E t \in Thread : kg_posture_set(t)
                               \/ posture = ELEVATED /\ quiet >= decaying /\ decaying > 0]_vars
  <2> SUFFICES ASSUME TypeOK, [Next]_vars
               PROVE  posture' < posture =>
                        \/ \E t \in Thread : kg_posture_set(t)
                        \/ posture = ELEVATED /\ quiet >= decaying /\ decaying > 0
    OBVIOUS
  <2> SUFFICES ASSUME posture' < posture, ~ \E t \in Thread : kg_posture_set(t)
               PROVE  posture = ELEVATED /\ quiet >= decaying /\ decaying > 0
    OBVIOUS
  <2>1. posture \in Int
    BY SMTT(30) DEF TypeOK, Posture, NORMAL, FAILSAFE
  <2>2. ASSUME NEW t \in Thread, kg_posture_raise(t) PROVE FALSE
    <3>1. posture' = posture \/ (posture' \in Posture /\ posture' > posture)
      BY ZenonT(60), <2>2, RaisePosture
    <3>2. QED
      BY <2>1, <3>1 DEF Posture, NORMAL, FAILSAFE
  <2>3. DecayLocked
    BY <2>1, <2>2, PostureStep
  <2>4. QED
    BY <2>1, <2>3, DecayPosture
<1>2. QED
  BY <1>1, TypeCorrect, PTL DEF Spec, LoweringIsDeliberate

(* After a corruption was found, no operator request and no timer takes the *)
(* posture down from HIGH or FAILSAFE.                                      *)
THEOREM UntrustedStays == Spec => UntrustedNeverStepsDown
<1>1. TypeOK /\ [Next]_vars => [untrusted /\ posture >= HIGH => posture' >= posture]_vars
  <2> SUFFICES ASSUME TypeOK, [Next]_vars
               PROVE  untrusted /\ posture >= HIGH => posture' >= posture
    OBVIOUS
  <2> SUFFICES ASSUME untrusted, posture >= HIGH
               PROVE  posture' >= posture
    OBVIOUS
  <2>1. posture \in Int
    BY SMTT(30) DEF TypeOK, Posture, NORMAL, FAILSAFE
  <2>2. CASE DecayLocked
    BY <2>1, <2>2, DecayPosture DEF ELEVATED, HIGH
  <2>3. ASSUME NEW t \in Thread, kg_posture_raise(t) PROVE posture' >= posture
    <3>1. posture' = posture \/ (posture' \in Posture /\ posture' > posture)
      BY ZenonT(60), <2>3, RaisePosture
    <3>2. QED
      BY <2>1, <3>1 DEF Posture, NORMAL, FAILSAFE
  <2>4. ASSUME NEW t \in Thread, kg_posture_set(t) PROVE posture' >= posture
    <3>0. /\ posture' \in Posture
          /\ ~(untrusted /\ posture >= HIGH /\ posture' < posture)
      BY ZenonT(60), <2>4, SetPosture
    <3>1. posture' \in Posture /\ ~(posture' < posture)
      BY <3>0
    <3>2. QED
      BY <2>1, <3>1 DEF Posture, NORMAL, FAILSAFE
  <2>5. CASE posture' = posture
    BY <2>1, <2>5
  <2>6. QED
    BY ZenonT(60), <2>2, <2>3, <2>4, <2>5, PostureStep
<1>2. QED
  BY <1>1, TypeCorrect, PTL DEF Spec, UntrustedNeverStepsDown

-----------------------------------------------------------------------------
(* The fail-safe flag. *)

(* A thread that has yet to put the fail-safe flag up. *)
FlagOwed == \E t \in Thread : job[t].at = "afterUp" /\ job[t].target = FAILSAFE

(* Whatever else a thread or a timer does, it leaves the posture, the flag and *)
(* the threads on their way to kg_pos_after_up() as they are.                  *)
LEMMA FlagStep ==
    ASSUME TypeOK, [Next]_vars
    PROVE  \/ /\ UNCHANGED <<posture, failSafeFlag>>
              /\ \A t \in Thread : job[t].at = "afterUp" => job'[t] = job[t]
           \/ \E t \in Thread : kg_posture_raise(t) \/ kg_posture_set(t) \/ kg_pos_after_up(t)
           \/ DecayLocked
<1> USE DEF guardVars
<1> DEFINE Rest == /\ UNCHANGED <<posture, failSafeFlag>>
                   /\ \A t \in Thread : job[t].at = "afterUp" => job'[t] = job[t]
<1>1. ASSUME NEW t \in Thread, job[t].at # "afterUp", NEW j, Become(t, j)
      PROVE  \A u \in Thread : job[u].at = "afterUp" => job'[u] = job[u]
  BY <1>1 DEF Become, TypeOK
<1>2. ASSUME NEW t \in Thread,
             kg_dispatch(t) \/ PmuAlert(t) \/ VerifyFails(t) \/ SiblingsDone(t)
                \/ RelaxCheck(t) \/ RaiseNotReady(t) \/ kg_pos_announce(t)
      PROVE  Rest
  <2>1. job[t].at # "afterUp" /\ \E j : Become(t, j)
    BY ZenonT(60), <1>2 DEF kg_dispatch, PmuAlert, VerifyFails, SiblingsDone, RelaxCheck,
                            RaiseNotReady, kg_pos_announce
  <2>2. UNCHANGED <<posture, failSafeFlag>>
    BY ZenonT(60), <1>2 DEF kg_dispatch, PmuAlert, VerifyFails, SiblingsDone, RelaxCheck,
                            RaiseNotReady, kg_pos_announce
  <2>3. QED
    BY ZenonT(60), <2>1, <2>2, <1>1
<1>3. ASSUME NEW t \in Thread, EscalateCpu(t) \/ EscalateSibling(t) \/ RelaxCpu(t)
      PROVE  Rest
  <2>1. job[t].at # "afterUp" /\ \E j : Become(t, j)
    BY ZenonT(60), <1>3 DEF EscalateCpu, EscalateSibling, RelaxCpu
  <2>2. UNCHANGED <<posture, failSafeFlag>>
    BY ZenonT(60), <1>3 DEF EscalateCpu, EscalateSibling, RelaxCpu, kg_mit_escalate_cpu,
                            kg_mit_relax_cpu
  <2>3. QED
    BY ZenonT(60), <2>1, <2>2, <1>1
<1>4. CASE \/ \E t \in Thread : VerifyPasses(t)
           \/ DecayStart \/ Tick \/ WriteParameter \/ Corrupt \/ ExitNotReady \/ ExitCancel
           \/ \E cpu \in Cpu : kg_mit_cpu_online(cpu) \/ CpuOffline(cpu)
           \/ UNCHANGED vars
  BY ZenonT(60), <1>4 DEF VerifyPasses, DecayStart, Tick, WriteParameter, Corrupt,
     ExitNotReady, ExitCancel, kg_mit_cpu_online, kg_mit_store, CpuOffline, vars
<1>5. QED
  BY ZenonT(60), <1>2, <1>3, <1>4 DEF Next, ThreadStep

(* The fail-safe state is never silent: as long as it lasts the statistics  *)
(* flag is up or a thread is still on its way to put it up, even when other *)
(* threads lower and raise the posture before that thread gets there.       *)
THEOREM FailSafeNotSilent == Spec => []FailSafeFlagComes
<1>1. Init => FailSafeFlagComes
  BY DEF Init, FailSafeFlagComes, NORMAL, FAILSAFE
<1>2. TypeOK /\ FailSafeFlagComes /\ [Next]_vars => FailSafeFlagComes'
  <2> SUFFICES ASSUME TypeOK, FailSafeFlagComes, [Next]_vars, posture' = FAILSAFE
               PROVE  failSafeFlag' \/ FlagOwed'
    BY DEF FailSafeFlagComes, FlagOwed
  <2>1. posture = FAILSAFE => failSafeFlag \/ FlagOwed
    BY DEF FailSafeFlagComes, FlagOwed
  <2>2. CASE /\ UNCHANGED <<posture, failSafeFlag>>
             /\ \A t \in Thread : job[t].at = "afterUp" => job'[t] = job[t]
    BY <2>1, <2>2 DEF FlagOwed
  <2>3. ASSUME NEW t \in Thread, kg_posture_raise(t) PROVE failSafeFlag' \/ FlagOwed'
    <3>1. CASE job[t].target > posture
      <4>1. posture' = job[t].target /\ Become(t, [job[t] EXCEPT !.at = "afterUp"])
        BY ZenonT(60), <2>3, <3>1 DEF kg_posture_raise, kg_pos_apply_locked,
           kg_mit_set_posture
      <4>2. job'[t].at = "afterUp" /\ job'[t].target = FAILSAFE
        BY <4>1 DEF Become, TypeOK, Job
      <4>3. QED
        BY <4>2 DEF FlagOwed
    <3>2. CASE ~(job[t].target > posture)
      <4>1. UNCHANGED <<posture, failSafeFlag>> /\ Become(t, Idle) /\ job[t].at = "raise"
        BY ZenonT(60), <2>3, <3>2 DEF kg_posture_raise, guardVars
      <4>2. \A u \in Thread : job[u].at = "afterUp" => job'[u] = job[u]
        BY <4>1 DEF Become, TypeOK
      <4>3. QED
        BY <2>1, <4>1, <4>2 DEF FlagOwed
    <3>3. QED
      BY <3>1, <3>2
  <2>4. ASSUME NEW t \in Thread, kg_posture_set(t) PROVE failSafeFlag' \/ FlagOwed'
    <3>1. PICK target \in OperatorTargets :
             /\ target # posture /\ posture' = target
             /\ Become(t, PostureJob(IF target > posture THEN "afterUp" ELSE "announce",
                                     target, FALSE, TRUE))
      BY ZenonT(60), <2>4 DEF kg_posture_set, kg_pos_apply_locked, kg_mit_set_posture
    <3>2. target > posture
      BY <3>1 DEF TypeOK, Posture, NORMAL, FAILSAFE
    <3>3. job'[t] = PostureJob("afterUp", FAILSAFE, FALSE, TRUE)
      BY <3>1, <3>2 DEF Become, TypeOK
    <3>4. QED
      BY <3>3 DEF FlagOwed, PostureJob
  <2>5. ASSUME NEW t \in Thread, kg_pos_after_up(t) PROVE failSafeFlag' \/ FlagOwed'
    <3>1. posture = FAILSAFE
      BY <2>5 DEF kg_pos_after_up, guardVars
    <3>2. CASE failSafeFlag \/ job[t].target = FAILSAFE
      BY ZenonT(60), <2>5, <3>2 DEF kg_pos_after_up
    <3>3. CASE ~failSafeFlag /\ job[t].target # FAILSAFE
      <4>1. PICK u \in Thread : job[u].at = "afterUp" /\ job[u].target = FAILSAFE
        BY <2>1, <3>1, <3>3 DEF FlagOwed
      <4>2. u # t /\ job'[u] = job[u]
        BY <2>5, <3>3, <4>1 DEF kg_pos_after_up, Become, TypeOK
      <4>3. QED
        BY <4>1, <4>2 DEF FlagOwed
    <3>4. QED
      BY <3>2, <3>3
  <2>6. CASE DecayLocked
    <3>1. /\ ready /\ decaying # 0 /\ posture = ELEVATED /\ quiet >= decaying => posture' = NORMAL
          /\ posture = FAILSAFE => UNCHANGED <<failSafeFlag, job>>
          /\ posture' = posture \/ posture' = NORMAL
      BY <2>6 DEF DecayLocked, kg_pos_apply_locked, kg_mit_set_posture, guardVars,
                  NORMAL, ELEVATED, FAILSAFE
    <3>2. QED
      BY <2>1, <3>1 DEF FlagOwed, NORMAL, FAILSAFE
  <2>7. QED
    BY ZenonT(60), <2>2, <2>3, <2>4, <2>5, <2>6, FlagStep
<1>3. QED
  BY <1>1, <1>2, TypeCorrect, PTL DEF Spec

-----------------------------------------------------------------------------
(* The refinement of the abstract ladder. *)

(* A job carries the operator's mark from kg_posture_set() to the           *)
(* announcement, and nowhere else.                                          *)
OperatorInv ==
    \A t \in Thread : job[t].operator => job[t].at \in {"afterUp", "announce"}

(* The operators whose change is still to be announced. *)
Announcing == {t \in Thread : job[t].operator}

(* The jobs that alerts, the sampler and the verifier start carry no mark. *)
LEMMA Unmarked ==
    /\ ~Idle.operator
    /\ \A at, cpus : ~CpuJob(at, cpus).operator
    /\ \A target, corrupt : ~RaiseJob(target, corrupt).operator
BY DEF Idle, CpuJob, RaiseJob, PostureJob

(* A job without the mark takes the place of a job without it. *)
LEMMA UnmarkedJob ==
    ASSUME TypeOK, OperatorInv, NEW t \in Thread, ~job[t].operator,
           NEW j, ~j.operator, Become(t, j)
    PROVE  OperatorInv' /\ Announcing' = Announcing
<1>1. \A u \in Thread : job'[u] = IF u = t THEN j ELSE job[u]
  BY DEF Become, TypeOK
<1>2. \A u \in Thread : job'[u].operator <=> job[u].operator
  BY ZenonT(60), <1>1
<1>3. QED
  BY ZenonT(60), <1>1, <1>2 DEF OperatorInv, Announcing

(* kg_posture_set() marks the thread that ran it. *)
LEMMA SetAnnounces ==
    ASSUME TypeOK, OperatorInv, NEW t \in Thread, kg_posture_set(t)
    PROVE  /\ OperatorInv'
           /\ t \notin Announcing /\ Announcing' = Announcing \cup {t}
<1>0. PICK target \in OperatorTargets :
         Become(t, PostureJob(IF target > posture THEN "afterUp" ELSE "announce",
                              target, FALSE, TRUE))
  BY ZenonT(60) DEF kg_posture_set
<1> DEFINE at == IF target > posture THEN "afterUp" ELSE "announce"
<1>1. at \in {"afterUp", "announce"} /\ Become(t, PostureJob(at, target, FALSE, TRUE))
  BY ZenonT(60), <1>0
<1> HIDE DEF at
<1>2. \A u \in Thread : job'[u] = IF u = t THEN PostureJob(at, target, FALSE, TRUE) ELSE job[u]
  BY <1>1 DEF Become, TypeOK
<1>3. job'[t].operator /\ job'[t].at = at
  BY <1>2 DEF PostureJob
<1>4. job[t].at = "idle"
  BY DEF kg_posture_set
<1>5. QED
  BY ZenonT(60), <1>1, <1>2, <1>3, <1>4 DEF OperatorInv, Announcing

(* Every other step keeps the announcements that are due, or makes one. *)
LEMMA OthersAnnounce ==
    ASSUME TypeOK, OperatorInv, [Next]_vars, ~ \E t \in Thread : kg_posture_set(t)
    PROVE  /\ OperatorInv'
           /\ \/ Announcing' = Announcing
              \/ \E t \in Announcing : kg_pos_announce(t) /\ Announcing' = Announcing \ {t}
<1>1. ASSUME NEW t \in Thread,
             \/ kg_dispatch(t) \/ PmuAlert(t) \/ VerifyFails(t) \/ EscalateCpu(t)
             \/ EscalateSibling(t) \/ SiblingsDone(t) \/ RelaxCheck(t) \/ RelaxCpu(t)
             \/ RaiseNotReady(t)
      PROVE  OperatorInv' /\ Announcing' = Announcing
  <2>1. job[t].at \notin {"afterUp", "announce"}
    BY ZenonT(60), <1>1 DEF kg_dispatch, PmuAlert, VerifyFails, EscalateCpu,
       EscalateSibling, SiblingsDone, RelaxCheck, RelaxCpu, RaiseNotReady
  <2>2. \E j : Become(t, j) /\ ~j.operator
    <3>1. CASE kg_dispatch(t)
      BY ZenonT(60), <3>1, Unmarked DEF kg_dispatch
    <3>2. CASE PmuAlert(t)
      BY ZenonT(60), <3>2, Unmarked DEF PmuAlert
    <3>3. CASE VerifyFails(t)
      BY ZenonT(60), <3>3, Unmarked DEF VerifyFails
    <3>4. CASE EscalateCpu(t) \/ EscalateSibling(t)
      BY ZenonT(60), <3>4, Unmarked DEF EscalateCpu, EscalateSibling
    <3>5. CASE SiblingsDone(t) \/ RaiseNotReady(t)
      BY ZenonT(60), <3>5, Unmarked DEF SiblingsDone, RaiseNotReady
    <3>6. CASE RelaxCheck(t) \/ RelaxCpu(t)
      BY ZenonT(60), <3>6, Unmarked DEF RelaxCheck, RelaxCpu
    <3>7. QED
      BY ZenonT(60), <1>1, <3>1, <3>2, <3>3, <3>4, <3>5, <3>6
  <2>3. QED
    BY ZenonT(60), <2>1, <2>2, UnmarkedJob DEF OperatorInv
<1>2. ASSUME NEW t \in Thread, kg_posture_raise(t)
      PROVE  OperatorInv' /\ Announcing' = Announcing
  <2>1. job[t].at = "raise" /\ ~job[t].operator
    BY ZenonT(60), <1>2 DEF kg_posture_raise, OperatorInv
  <2>2. [job[t] EXCEPT !.at = "afterUp"].operator = job[t].operator
    BY DEF TypeOK, Job
  <2>3. \E j : Become(t, j) /\ ~j.operator
    BY ZenonT(60), <1>2, <2>1, <2>2, Unmarked DEF kg_posture_raise
  <2>4. QED
    BY ZenonT(60), <2>1, <2>3, UnmarkedJob
<1>3. ASSUME NEW t \in Thread, kg_pos_after_up(t)
      PROVE  OperatorInv' /\ Announcing' = Announcing
  <2>1. CASE ~job[t].operator
    BY ZenonT(60), <1>3, <2>1, Unmarked, UnmarkedJob DEF kg_pos_after_up, AfterFollowUp
  <2>2. CASE job[t].operator
    <3>1. \A u \in Thread : job'[u] = IF u = t THEN [job[t] EXCEPT !.at = "announce"] ELSE job[u]
      BY <1>3, <2>2 DEF kg_pos_after_up, AfterFollowUp, Become, TypeOK
    <3>2. job'[t].at = "announce" /\ job'[t].operator
      BY <2>2, <3>1 DEF TypeOK, Job
    <3>3. QED
      BY ZenonT(60), <2>2, <3>1, <3>2 DEF OperatorInv, Announcing
  <2>3. QED
    BY <2>1, <2>2
<1>4. ASSUME NEW t \in Thread, kg_pos_announce(t)
      PROVE  /\ OperatorInv'
             /\ \/ Announcing' = Announcing
                \/ t \in Announcing /\ Announcing' = Announcing \ {t}
  <2>1. \A u \in Thread : job'[u] = IF u = t THEN Idle ELSE job[u]
    BY <1>4 DEF kg_pos_announce, Become, TypeOK
  <2>2. OperatorInv' /\ Announcing' = Announcing \ {t}
    BY ZenonT(60), <2>1, Unmarked DEF OperatorInv, Announcing
  <2>3. QED
    BY ZenonT(60), <2>2 DEF Announcing
<1>5. CASE UNCHANGED job
  BY <1>5 DEF OperatorInv, Announcing
<1>6. \/ UNCHANGED job
      \/ \E t \in Thread :
            \/ kg_dispatch(t) \/ PmuAlert(t) \/ VerifyFails(t) \/ EscalateCpu(t)
            \/ EscalateSibling(t) \/ SiblingsDone(t) \/ RelaxCheck(t) \/ RelaxCpu(t)
            \/ RaiseNotReady(t) \/ kg_posture_raise(t) \/ kg_pos_after_up(t) \/ kg_pos_announce(t)
  BY ZenonT(60) DEF Next, ThreadStep, VerifyPasses, DecayStart, DecayLocked, Tick,
     WriteParameter, kg_mit_cpu_online, CpuOffline, Corrupt, ExitNotReady, ExitCancel, vars
<1>7. QED
  BY ZenonT(60), <1>1, <1>2, <1>3, <1>4, <1>5, <1>6

(* The CPUs at full-spectrum mitigation. *)
Full == {c \in Cpu : strategy[c] = STRAT_FULL}

(* The module's ladder is the one its header comment describes: alerts only *)
(* climb, only an operator descends from HIGH and FAILSAFE and nobody once  *)
(* the policy state is untrusted, ELEVATED decays, and every CPU is at full *)
(* spectrum from HIGH upwards.  This is about a table nothing corrupts: a   *)
(* corrupted row breaks the last of these until the next escalation.        *)
THEOREM LadderImplemented == MaxCorruptions = 0 => (Spec => ImplementsLadder)
<1> SUFFICES ASSUME MaxCorruptions = 0 PROVE Spec => Ladder!Spec
  BY DEF ImplementsLadder
<1>1. Init => OperatorInv /\ Ladder!Init
  <2> SUFFICES ASSUME Init PROVE OperatorInv /\ Ladder!Init
    OBVIOUS
  <2>1. \A t \in Thread : ~job[t].operator
    BY Unmarked DEF Init
  <2>2. QED
    BY <2>1 DEF Init, OperatorInv, Ladder!Init, NORMAL
<1>2. TypeOK /\ OperatorInv /\ [Next]_vars => OperatorInv'
  BY SetAnnounces, OthersAnnounce
<1>3. /\ TypeOK /\ OperatorInv /\ [Next]_vars
      /\ TypeOK' /\ GuardInv'
      => [Ladder!Next]_(Ladder!vars)
  <2> SUFFICES ASSUME TypeOK, OperatorInv, [Next]_vars, TypeOK', GuardInv'
               PROVE  Ladder!Next
    OBVIOUS
  <2>1. Full' \in SUBSET Cpu /\ (posture' >= HIGH => Full' = Cpu)
    BY DEF TypeOK, GuardInv, Full
  <2>2. posture' \in Posture /\ posture \in Posture
    BY DEF TypeOK
  <2>3. Ladder!Posture = Posture /\ Ladder!ELEVATED = ELEVATED /\ Ladder!HIGH = HIGH
    BY DEF Ladder!Posture, Posture, Ladder!ELEVATED, ELEVATED, Ladder!HIGH, HIGH,
           NORMAL, FAILSAFE
  <2>4. ASSUME NEW t \in Thread, kg_posture_set(t) PROVE Ladder!OperatorStep
    <3>1. t \notin Announcing /\ Announcing' = Announcing \cup {t}
      BY ZenonT(60), <2>4, SetAnnounces
    <3>2. /\ untrusted' = untrusted
          /\ posture' # posture
          /\ ~(untrusted /\ posture >= HIGH /\ posture' < posture)
      BY ZenonT(60), <2>4, SetPosture DEF kg_posture_set, kg_pos_apply_locked,
         kg_mit_set_posture
    <3>3. \E p \in Posture \ {posture} :
             ~(untrusted /\ posture >= HIGH /\ p < posture) /\ Ladder!Stand(p)
      BY ZenonT(60), <2>1, <2>2, <2>3, <3>2 DEF Ladder!Stand, Full
    <3>4. \E u \in Thread \ Announcing : Announcing' = Announcing \cup {u}
      BY ZenonT(60), <3>1
    <3>5. QED
      BY ZenonT(60), <2>3, <3>2, <3>3, <3>4 DEF Ladder!OperatorStep, Announcing
  <2>5. ASSUME ~ \E t \in Thread : kg_posture_set(t), Announcing' = Announcing
        PROVE  Ladder!Climb \/ Ladder!Decay \/ Ladder!Retune
    <3>1. CASE posture' = posture /\ untrusted' \in {untrusted, TRUE}
      BY ZenonT(60), <2>1, <2>3, <2>5, <3>1 DEF Ladder!Retune, Ladder!Stand, Full,
         Announcing
    <3>2. CASE posture' > posture /\ untrusted' \in {untrusted, TRUE}
      BY ZenonT(60), <2>1, <2>2, <2>3, <2>5, <3>2 DEF Ladder!Climb, Ladder!Stand, Full,
         Announcing
    <3>3. CASE posture = ELEVATED /\ posture' = NORMAL /\ untrusted' = untrusted
      BY <2>1, <2>3, <2>5, <3>3 DEF Ladder!Decay, Ladder!Stand, Full, Announcing, NORMAL,
         HIGH
    <3>4. QED
      BY ZenonT(60), <2>5, <3>1, <3>2, <3>3, PostureStep, RaisePosture, DecayPosture
  <2>6. ASSUME NEW t \in Announcing, kg_pos_announce(t), Announcing' = Announcing \ {t}
        PROVE  Ladder!Announce
    BY ZenonT(60), <2>6 DEF Ladder!Announce, Announcing, kg_pos_announce, guardVars
  <2>7. QED
    BY ZenonT(60), <2>4, <2>5, <2>6, OthersAnnounce DEF Ladder!Next
<1>4. QED
  BY <1>1, <1>2, <1>3, GuardInvariant, PTL DEF Spec, Ladder!Spec

=============================================================================

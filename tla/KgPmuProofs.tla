----------------------------- MODULE KgPmuProofs -----------------------------
(* Proofs about KgPmu, for every set of CPUs, every window and repeat time, *)
(* and every setting of the thresholds, and about KgVote, for every set of  *)
(* tasks and every number of votes.                                         *)
EXTENDS KgPmu, KgVote, TLAPS

USE PmuAssumption

(* What the proofs need to know about the values of the variables. *)
PmuType ==
    /\ online \subseteq Cpu /\ full \subseteq Cpu
    /\ level \in [Cpu -> 0 .. CRITICAL] /\ crit \in [Cpu -> BOOLEAN]
    /\ work \in Nat \cup {Off}
    /\ todo \subseteq Cpu
    /\ high \in BOOLEAN /\ disturbed \in BOOLEAN

(* The flag a CPU is relaxed by follows its level as long as it has a counter. *)
FlagFollows == \A c \in Cpu : HasCounter(c) /\ level[c] = CRITICAL => crit[c]

(* CoreStaysEscalated, within a run of the sampler as well. *)
Escalated == ~disturbed /\ (\E s \in online : crit[s]) => online \subseteq full

CoreInv == PmuType /\ FlagFollows /\ Escalated

(* Whatever the rate and the limits, the level of a run is one of three. *)
LEMMA LevelType == ASSUME NEW r PROVE LevelOf(r) \in 0 .. CRITICAL
BY DEF LevelOf, CRITICAL, WATCH

LEMMA CoreInit == Init => CoreInv
<1> SUFFICES ASSUME Init PROVE CoreInv
  OBVIOUS
<1>1. WINDOW \in Nat
  BY DEF PmuAssumption
<1>2. PmuType
  <2>1. level \in [Cpu -> 0 .. CRITICAL]
    BY DEF Init, CRITICAL
  <2>2. crit \in [Cpu -> BOOLEAN]
    BY DEF Init
  <2>3. QED
    BY ZenonT(60), <1>1, <2>1, <2>2 DEF Init, PmuType
<1>3. FlagFollows /\ Escalated
  BY DEF Init, FlagFollows, Escalated, CRITICAL
<1>4. QED
  BY <1>2, <1>3 DEF CoreInv

(* One turn of the first loop leaves the flags of the other CPUs alone, and  *)
(* raises that of its own only in a critical alert, which escalates the core. *)
LEMMA CountOneCore ==
    ASSUME CoreInv, NEW c \in Cpu, CountOne(c), UNCHANGED <<online, phase>>
    PROVE  /\ level' \in [Cpu -> 0 .. CRITICAL] /\ crit' \in [Cpu -> BOOLEAN]
           /\ full' \subseteq Cpu /\ disturbed' \in BOOLEAN
           /\ FlagFollows' /\ Escalated'
<1> DEFINE lvl == LevelOf(Rate(c))
<1>0. lvl \in 0 .. CRITICAL
  BY LevelType
<1> HIDE DEF lvl
<1>1. CASE ~HasCounter(c)
  BY ZenonT(60), <1>1 DEF CountOne, CoreInv, PmuType, FlagFollows, Escalated, HasCounter
<1>2. CASE HasCounter(c) /\ AlertDue(c, lvl)
  <2>1. Alert(c, lvl) /\ crit' = [crit EXCEPT ![c] = level'[c] >= CRITICAL]
    BY <1>2 DEF CountOne, lvl
  <2>2. level' = [level EXCEPT ![c] = lvl] /\ level'[c] = lvl
    BY <2>1 DEF Alert, CoreInv, PmuType
  <2>3. CASE lvl >= CRITICAL
    BY ZenonT(60), <1>0, <2>1, <2>2, <2>3 DEF Alert, CoreInv, PmuType, FlagFollows,
       Escalated, HasCounter, CRITICAL
  <2>4. CASE lvl < CRITICAL
    BY <1>0, <2>1, <2>2, <2>4 DEF Alert, CoreInv, PmuType, FlagFollows, Escalated,
       HasCounter, CRITICAL
  <2>5. QED
    BY <1>0, <2>3, <2>4 DEF CRITICAL
<1>3. CASE HasCounter(c) /\ ~AlertDue(c, lvl)
  <2>1. Settle(c, lvl) /\ crit' = [crit EXCEPT ![c] = level'[c] >= CRITICAL]
    BY <1>3 DEF CountOne, lvl
  <2>2. \/ level' = level
        \/ level' = [level EXCEPT ![c] = lvl] /\ lvl < level[c]
    BY <2>1 DEF Settle
  <2>3. QED
    BY <1>0, <1>3, <2>1, <2>2 DEF Settle, CoreInv, PmuType, FlagFollows, Escalated,
       HasCounter, CRITICAL
<1>4. QED
  BY <1>1, <1>2, <1>3

LEMMA CoreNext == ASSUME CoreInv, [Next]_vars PROVE CoreInv'
<1> USE DEF CoreInv
<1>1. ASSUME NEW c \in Cpu, kg_pmu_overflow(c) PROVE CoreInv'
  BY <1>1 DEF kg_pmu_overflow, countVars, sampleVars, postureVars, PmuType, FlagFollows,
     Escalated, HasCounter
<1>2. ASSUME NEW c \in Cpu, kg_pmu_cpu_online(c) PROVE CoreInv'
  BY <1>2 DEF kg_pmu_cpu_online, sampleVars, PmuType, FlagFollows, Escalated, HasCounter,
     CRITICAL
<1>3. ASSUME NEW c \in Cpu, kg_pmu_cpu_offline(c) PROVE CoreInv'
  BY <1>3 DEF kg_pmu_cpu_offline, sampleVars, postureVars, PmuType, FlagFollows, Escalated,
     HasCounter
<1>4. ASSUME NEW c \in Cpu, IrqWorkLook(c) \/ IrqWorkQueue(c) PROVE CoreInv'
  BY <1>4 DEF IrqWorkLook, IrqWorkQueue, countVars, sampleVars, postureVars, PmuType,
     FlagFollows, Escalated, HasCounter
<1>5. CASE SampleStart
  BY <1>5 DEF SampleStart, countVars, postureVars, PmuType, FlagFollows, Escalated,
     HasCounter
<1>6. CASE SampleCpu
  <2>1. PICK c \in todo : todo' = todo \ {c} /\ CountOne(c)
    BY <1>6 DEF SampleCpu
  <2>2. c \in Cpu /\ UNCHANGED <<online, phase, work, high>>
    BY <1>6, <2>1 DEF SampleCpu, PmuType
  <2>3. QED
    BY <2>1, <2>2, CountOneCore DEF PmuType
<1>7. CASE SampleRelaxStart
  BY <1>7 DEF SampleRelaxStart, countVars, postureVars, PmuType, FlagFollows, Escalated,
     HasCounter
<1>8. CASE SampleRelaxCpu
  BY <1>8 DEF SampleRelaxCpu, countVars, PmuType, FlagFollows, Escalated, HasCounter
<1>9. CASE SampleEnd
  <2>1. WINDOW \in Nat
    BY SMTT(30) DEF PmuAssumption
  <2>2. QED
    BY <1>9, <2>1 DEF SampleEnd, countVars, postureVars, PmuType, FlagFollows, Escalated,
       HasCounter
<1>10. CASE Tick
  BY <1>10 DEF Tick, postureVars, PmuType, FlagFollows, Escalated, HasCounter, Off
<1>11. CASE WriteParameter
  BY <1>11 DEF WriteParameter, countVars, sampleVars, postureVars, PmuType, FlagFollows,
     Escalated, HasCounter
<1>12. CASE SetPosture
  BY <1>12 DEF SetPosture, countVars, sampleVars, PmuType, FlagFollows, Escalated,
     HasCounter
<1>13. CASE ExitStop
  BY <1>13 DEF ExitStop, countVars, sampleVars, postureVars, PmuType, FlagFollows,
     Escalated, HasCounter
<1>14. CASE ExitRemove
  BY <1>14 DEF ExitRemove, sampleVars, postureVars, PmuType, FlagFollows, Escalated,
     HasCounter
<1>15. CASE ExitCancel
  BY <1>15 DEF ExitCancel, countVars, postureVars, PmuType, FlagFollows, Escalated,
     HasCounter
<1>16. CASE UNCHANGED vars
  BY <1>16 DEF vars, PmuType, FlagFollows, Escalated, HasCounter
<1>17. QED
  BY <1>1, <1>2, <1>3, <1>4, <1>5, <1>6, <1>7, <1>8, <1>9, <1>10, <1>11, <1>12, <1>13,
     <1>14,
     <1>15, <1>16 DEF Next, Machinery

(* While a CPU of a core is critical, no CPU of that core is left at its      *)
(* baseline, however hotplug, posture steps, NMIs, early wake-ups, parameter  *)
(* writes and unload fall between the turns of the sampler's two loops.       *)
THEOREM CoreEscalated == Spec => []CoreStaysEscalated
<1>1. CoreInv => CoreStaysEscalated
  BY DEF CoreInv, Escalated, CoreStaysEscalated
<1>2. QED
  BY CoreInit, CoreNext, <1>1, PTL DEF Spec

(* No order of irq works, early wake-ups and re-queues leaves a running       *)
(* detector without a sampler that is running or queued.                      *)
THEOREM SamplerQueued == Spec => []SamplerComesBack
<1>0. WINDOW \in Nat
  BY DEF PmuAssumption
<1>1. Init => SamplerComesBack
  BY <1>0 DEF Init, SamplerComesBack, Off
<1>2. ASSUME CoreInv, SamplerComesBack, [Next]_vars PROVE SamplerComesBack'
  <2> USE DEF SamplerComesBack
  <2>1. ASSUME NEW c \in Cpu,
               kg_pmu_overflow(c) \/ kg_pmu_cpu_online(c) \/ kg_pmu_cpu_offline(c)
        PROVE  SamplerComesBack'
    BY SMTT(30), <1>2, <2>1 DEF kg_pmu_overflow, kg_pmu_cpu_online, kg_pmu_cpu_offline,
       sampleVars
  <2>2. ASSUME NEW c \in Cpu, IrqWorkLook(c) \/ IrqWorkQueue(c) PROVE SamplerComesBack'
    BY SMTT(30), <1>2, <2>2 DEF IrqWorkLook, IrqWorkQueue, sampleVars, Off
  <2>3. CASE SampleStart \/ SampleCpu \/ SampleRelaxStart \/ SampleRelaxCpu
    BY <1>2, <2>3 DEF SampleStart, SampleCpu, SampleRelaxStart, SampleRelaxCpu
  <2>4. CASE SampleEnd
    BY <1>0, <1>2, <2>4 DEF SampleEnd, Off
  <2>5. CASE Tick
    BY SMTT(30), <1>2, <2>5 DEF Tick, Off, CoreInv, PmuType
  <2>6. CASE WriteParameter \/ SetPosture \/ UNCHANGED vars
    BY SMTT(30), <1>2, <2>6 DEF WriteParameter, SetPosture, sampleVars, vars
  <2>7. CASE ExitStop \/ ExitRemove \/ ExitCancel
    BY <2>7 DEF ExitStop, ExitRemove, ExitCancel
  <2>8. QED
    BY SMTT(30), <1>2, <2>1, <2>2, <2>3, <2>4, <2>5, <2>6, <2>7 DEF Next, Machinery
<1>3. QED
  BY CoreInit, CoreNext, <1>1, <1>2, PTL DEF Spec

-----------------------------------------------------------------------------
(* KgVote: the majority argument (a candidate's lead is at most its counter, *)
(* any other task's is at most its negation) is carried through the         *)
(* handler's steps with a slack of one, which the reset may use up.          *)

(* How far a task is ahead of all others together. *)
Lead(t) == 2 * votes[t] - total

(* Every task's lead is bounded by the counter. *)
LeadsBounded ==
    \A t \in Task :
        Lead(t) <= (IF t = cand_tgid THEN 1 + cand_cnt ELSE 1 - cand_cnt)

(* No vote has been counted since the reset. *)
NoVotes == total = 0 /\ \A t \in Task : votes[t] = 0

(* A handler that looked before the reset finds the vote as the reset left it. *)
StaleHandler ==
    nmi # "idle" /\ ~fresh => NoVotes /\ (nmi # "setCnt" => cand_cnt = 0)

(* What a handler saw after the reset still holds when it acts on it. *)
FreshHandler ==
    nmi # "idle" /\ fresh =>
        /\ nmi = "inc" => cand_tgid = me
        /\ nmi \in {"compare", "dec", "setTgid"} => cand_tgid # me
        /\ nmi = "dec" => cand_cnt > 0
        /\ nmi = "setTgid" => cand_cnt <= 0
        /\ nmi = "setCnt" => cand_tgid = me /\ \A t \in Task : Lead(t) <= 1

(* What holds while no reset is under way. *)
VoteHeld ==
    /\ cand_cnt >= 0 \/ (cand_cnt = -1 /\ NoVotes)
    /\ nmi # "setCnt" => LeadsBounded
    /\ StaleHandler
    /\ FreshHandler

(* The inductive invariant. *)
VoteInv == TypeOK /\ (taker = "idle" => VoteHeld)

-----------------------------------------------------------------------------
(* The types of kg_pmu_cpu's vote fields are kept by every step of           *)
(* kg_pmu_overflow() and kg_pmu_sample().                                    *)
LEMMA TypeStep == TypeOK /\ [VoteNext]_voteVars => TypeOK'
<1> SUFFICES ASSUME TypeOK, [VoteNext]_voteVars PROVE TypeOK'
  OBVIOUS
<1>1. ASSUME NEW t \in Task, NmiLook(t) PROVE TypeOK'
  BY <1>1 DEF TypeOK, NmiLook
<1>2. CASE NmiCompare
  BY <1>2 DEF TypeOK, NmiCompare
<1>3. CASE NmiInc
  BY <1>3 DEF TypeOK, NmiInc, Cast
<1>4. CASE NmiDec
  BY <1>4 DEF TypeOK, NmiDec, Cast
<1>5. CASE NmiSetTgid
  BY <1>5 DEF TypeOK, NmiSetTgid
<1>6. CASE NmiSetCnt
  BY <1>6 DEF TypeOK, NmiSetCnt, Cast
<1>7. CASE SampleTake
  BY <1>7 DEF TypeOK, SampleTake
<1>8. CASE SampleReset
  <2>0. fresh' \in BOOLEAN
    BY ZenonT(60), <1>8 DEF SampleReset
  <2>1. /\ cand_cnt' \in Int /\ votes' \in [Task -> Nat]
        /\ total' \in Nat /\ taker' = "idle"
    BY <1>8 DEF SampleReset
  <2>2. cand_tgid' = cand_tgid /\ nmi' = nmi /\ me' = me
    BY <1>8 DEF SampleReset
  <2> QED
    BY <2>0, <2>1, <2>2 DEF TypeOK
<1>9. CASE UNCHANGED voteVars
  BY <1>9 DEF TypeOK, voteVars
<1> QED
  BY <1>1, <1>2, <1>3, <1>4, <1>5, <1>6, <1>7, <1>8, <1>9 DEF VoteNext

(* A counted vote moves its task's lead up by one and every other's down. *)
LEMMA CastLeads ==
    ASSUME TypeOK, nmi # "idle", fresh, Cast, NEW t \in Task
    PROVE  /\ Lead(t)' = IF t = me THEN Lead(t) + 1 ELSE Lead(t) - 1
           /\ Lead(t) \in Int
<1>1. votes[t] \in Nat /\ total \in Nat /\ me \in Task /\ votes \in [Task -> Nat]
  BY DEF TypeOK
<1>2. votes'[t] = (IF t = me THEN votes[t] + 1 ELSE votes[t]) /\ total' = total + 1
  BY <1>1 DEF Cast
<1> QED
  BY <1>1, <1>2 DEF Lead

(* A vote that crossed the reset is not counted. *)
LEMMA CastStale ==
    ASSUME ~fresh, Cast, NoVotes
    PROVE  NoVotes' /\ \A t \in Task : Lead(t)' = 0
BY DEF Cast, NoVotes, Lead

-----------------------------------------------------------------------------
(* The invariant is kept by every step of the NMI handler and the taker. *)
LEMMA VoteStep == VoteInv /\ [VoteNext]_voteVars => VoteInv'
<1> SUFFICES ASSUME VoteInv, [VoteNext]_voteVars, taker' = "idle"
             PROVE  VoteHeld'
  BY TypeStep DEF VoteInv
<1>t. TypeOK
  BY DEF VoteInv
<1>i. /\ cand_cnt \in Int /\ total \in Nat
      /\ \A t \in Task : votes[t] \in Nat /\ Lead(t) \in Int
  BY <1>t DEF TypeOK, Lead
<1>v. taker = "idle" => VoteHeld
  BY DEF VoteInv
<1>1. ASSUME NEW t \in Task, NmiLook(t) PROVE VoteHeld'
  BY <1>1, <1>v DEF NmiLook, VoteHeld, LeadsBounded, Lead, NoVotes, StaleHandler,
     FreshHandler
<1>2. CASE NmiCompare
  BY <1>2, <1>v, <1>i DEF NmiCompare, VoteHeld, LeadsBounded, Lead, NoVotes, StaleHandler,
     FreshHandler
<1>3. CASE NmiInc
  <2>1. nmi = "inc" /\ nmi' = "idle" /\ fresh' = fresh /\ cand_tgid' = cand_tgid
        /\ cand_cnt' = cand_cnt + 1 /\ Cast /\ VoteHeld
    BY <1>3, <1>v DEF NmiInc, Cast
  <2>2. StaleHandler' /\ FreshHandler'
    BY <2>1 DEF StaleHandler, FreshHandler
  <2>3. CASE fresh
    <3>1. me = cand_tgid
      BY <2>1, <2>3 DEF VoteHeld, FreshHandler
    <3>2. ASSUME NEW t \in Task
          PROVE  Lead(t)' = IF t = cand_tgid THEN Lead(t) + 1 ELSE Lead(t) - 1
      BY <1>t, <2>1, <2>3, <3>1, CastLeads
    <3>3. LeadsBounded'
      BY <1>i, <2>1, <3>2 DEF VoteHeld, LeadsBounded
    <3>4. cand_cnt' >= 0
      BY <1>i, <2>1 DEF VoteHeld
    <3> QED
      BY <2>2, <3>3, <3>4 DEF VoteHeld
  <2>4. CASE ~fresh
    <3>1. NoVotes /\ cand_cnt = 0
      BY <2>1, <2>4 DEF VoteHeld, StaleHandler
    <3>2. \A t \in Task : Lead(t)' = 0
      BY <2>1, <2>4, <3>1, CastStale
    <3> QED
      BY <2>1, <2>2, <3>1, <3>2 DEF VoteHeld, LeadsBounded
  <2> QED
    BY <2>3, <2>4
<1>4. CASE NmiDec
  <2>1. nmi = "dec" /\ nmi' = "idle" /\ fresh' = fresh /\ cand_tgid' = cand_tgid
        /\ cand_cnt' = cand_cnt - 1 /\ Cast /\ VoteHeld
    BY <1>4, <1>v DEF NmiDec, Cast
  <2>2. StaleHandler' /\ FreshHandler'
    BY <2>1 DEF StaleHandler, FreshHandler
  <2>3. CASE fresh
    <3>1. me # cand_tgid /\ cand_cnt > 0
      BY <2>1, <2>3 DEF VoteHeld, FreshHandler
    <3>2. ASSUME NEW t \in Task
          PROVE  Lead(t)' = IF t = me THEN Lead(t) + 1 ELSE Lead(t) - 1
      BY <1>t, <2>1, <2>3, CastLeads
    <3>3. LeadsBounded'
      BY <1>i, <2>1, <3>1, <3>2 DEF VoteHeld, LeadsBounded
    <3> QED
      BY <1>i, <2>1, <2>2, <3>1, <3>3 DEF VoteHeld
  <2>4. CASE ~fresh
    <3>1. NoVotes /\ cand_cnt = 0
      BY <2>1, <2>4 DEF VoteHeld, StaleHandler
    <3>2. NoVotes' /\ \A t \in Task : Lead(t)' = 0
      BY <2>1, <2>4, <3>1, CastStale
    <3> QED
      BY <2>1, <2>2, <3>1, <3>2 DEF VoteHeld, LeadsBounded
  <2> QED
    BY <2>3, <2>4
<1>5. CASE NmiSetTgid
  <2>1. nmi = "setTgid" /\ nmi' = "setCnt" /\ fresh' = fresh /\ cand_tgid' = me
        /\ cand_cnt' = cand_cnt /\ me' = me /\ votes' = votes /\ total' = total /\ VoteHeld
    BY <1>5, <1>v DEF NmiSetTgid
  <2>2. ASSUME fresh, NEW t \in Task PROVE Lead(t)' <= 1
    <3>1. cand_cnt <= 0 /\ LeadsBounded /\ (cand_cnt >= 0 \/ NoVotes)
      BY <2>1, <2>2 DEF VoteHeld, FreshHandler
    <3>2. Lead(t)' = Lead(t) /\ (NoVotes => Lead(t) = 0)
      BY <2>1, <2>2 DEF Lead, NoVotes
    <3> QED
      BY <1>i, <3>1, <3>2 DEF LeadsBounded
  <2>3. FreshHandler'
    BY <2>1, <2>2 DEF FreshHandler
  <2> QED
    BY <2>1, <2>3 DEF VoteHeld, StaleHandler, NoVotes
<1>6. CASE NmiSetCnt
  <2>1. nmi = "setCnt" /\ nmi' = "idle" /\ fresh' = fresh /\ cand_tgid' = cand_tgid
        /\ cand_cnt' = 1 /\ Cast /\ VoteHeld
    BY <1>6, <1>v DEF NmiSetCnt, Cast
  <2>2. StaleHandler' /\ FreshHandler'
    BY <2>1 DEF StaleHandler, FreshHandler
  <2>3. CASE fresh
    <3>1. me = cand_tgid /\ \A t \in Task : Lead(t) <= 1
      BY <2>1, <2>3 DEF VoteHeld, FreshHandler
    <3>2. ASSUME NEW t \in Task
          PROVE  Lead(t)' = IF t = cand_tgid THEN Lead(t) + 1 ELSE Lead(t) - 1
      BY <1>t, <2>1, <2>3, <3>1, CastLeads
    <3>3. LeadsBounded'
      BY <1>i, <2>1, <3>1, <3>2 DEF LeadsBounded
    <3> QED
      BY <2>1, <2>2, <3>3 DEF VoteHeld
  <2>4. CASE ~fresh
    <3>1. NoVotes
      BY <2>1, <2>4 DEF VoteHeld, StaleHandler
    <3>2. \A t \in Task : Lead(t)' = 0
      BY <2>1, <2>4, <3>1, CastStale
    <3> QED
      BY <2>1, <2>2, <3>2 DEF VoteHeld, LeadsBounded
  <2> QED
    BY <2>3, <2>4
<1>7. CASE SampleTake
  BY <1>7 DEF SampleTake
<1>8. CASE SampleReset
  <2>1. /\ cand_cnt' = 0 /\ fresh' = FALSE /\ total' = 0
        /\ \A t \in Task : votes'[t] = 0
    BY <1>8 DEF SampleReset
  <2>2. NoVotes' /\ \A t \in Task : Lead(t)' = 0
    BY SMTT(30), <2>1 DEF NoVotes, Lead
  <2> QED
    BY <2>1, <2>2 DEF VoteHeld, LeadsBounded, StaleHandler, FreshHandler
<1>9. CASE UNCHANGED voteVars
  BY <1>9, <1>v DEF voteVars, VoteHeld, LeadsBounded, Lead, NoVotes, StaleHandler,
     FreshHandler
<1> QED
  BY <1>1, <1>2, <1>3, <1>4, <1>5, <1>6, <1>7, <1>8, <1>9 DEF VoteNext

-----------------------------------------------------------------------------
(* kg_pmu_overflow() and kg_pmu_sample(), whatever tasks run and however     *)
(* the taker's reset falls between the atomic operations of a handler: an  *)
(* alert names the task that leads all others together by two votes.         *)
THEOREM MajorityIsNamed == VoteSpec => []MajorityNamed
<1>1. VoteInit => VoteInv
  BY NobodyAssumption DEF VoteInit, VoteInv, TypeOK, VoteHeld, LeadsBounded, Lead, NoVotes,
     StaleHandler, FreshHandler
<1>2. VoteInv => MajorityNamed
  <2> SUFFICES ASSUME VoteInv, nmi = "idle", taker = "idle", NEW t \in Task,
                      2 * votes[t] - total > 1, cand_tgid # t
               PROVE  FALSE
    BY DEF MajorityNamed
  <2>1. cand_cnt \in Int /\ total \in Nat /\ votes[t] \in Nat /\ VoteHeld
    BY DEF VoteInv, TypeOK
  <2>2. 2 * votes[t] - total <= 1 - cand_cnt
    BY <2>1 DEF VoteHeld, LeadsBounded, Lead
  <2> QED
    BY <2>1, <2>2 DEF VoteHeld, NoVotes
<1> QED
  BY <1>1, <1>2, VoteStep, PTL DEF VoteSpec
=============================================================================

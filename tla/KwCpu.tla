-------------------------------- MODULE KwCpu --------------------------------
(***************************************************************************)
(* What the Windows driver does to the processors: the probe that chooses  *)
(* the mitigation of each (cache_mitigation.c), the cache partition and    *)
(* the map of sibling threads, the flush that follows the chosen strategy  *)
(* (KernelGuard.h), and the performance counters with their interrupt      *)
(* (pmu_detection.c), which runs on all processors at once.                *)
(*                                                                         *)
(* A bit mask is the set of its bits.                                      *)
(***************************************************************************)
EXTENDS Integers, FiniteSets

CONSTANTS
    N,              \* processors, numbered from 0
    Machines,       \* [cpuid, archCap (sets of capability names), shift, ways, clos, x2apic]
    ALERT_COUNT,    \* PMU_ALERT_OVERFLOW_COUNT
    MaxOverflows,   \* bound: overflows of a counter of one processor
    None            \* MAXULONG: no sibling

ASSUME CpusAssumption == N \in Nat

VARIABLES
    machine,
    features,       \* g_CpuMit[].Features
    strategy,       \* g_CpuMit[].Strategy, "unset" before the probe
    cat,            \* g_CatConfig: [enabled, sensitive, default]
    sibling,        \* g_SmtMap[].SiblingProcessor
    up,             \* how far the start is: a processor to probe, then N, N + 1 (the PMU runs), -1 (unloaded)
    l1d, l2,        \* L1DMissOverflows, L2MissOverflows
    level,          \* AlertLevel of each processor
    counting,       \* the processors whose counters are enabled
    isr,            \* where the interrupt of each processor is
    PmuAlertLevel,
    \* history, never read by an action
    crossed     \* two interrupts were between the read and the write of PmuAlertLevel

cpVars == <<machine, features, strategy, cat, sibling, up, l1d, l2, level, counting, isr,
            PmuAlertLevel, crossed>>
setupVars == <<machine, features, strategy, cat, sibling>>
pmuVars == <<l1d, l2, level, counting, isr, PmuAlertLevel, crossed>>

Cpus == 0..N - 1

-----------------------------------------------------------------------------
(* ProbeCpuCapabilities: IA32_ARCH_CAPABILITIES is read only if CPUID says it is there. *)
Features(m) ==
    (m.cpuid \cap {"IBRS_ALL", "VERW_FLUSH", "L1D_FLUSH", "ARCH_CAP", "CAT_L3"})
    \cup (IF "ARCH_CAP" \notin m.cpuid THEN {}
          ELSE (m.archCap \cap {"RDCL_NO", "MDS_NO", "IBRS_ALL", "SSB_NO"})
               \cup (IF "RDCL_NO" \in m.archCap THEN {"L1TF_NO"} ELSE {}))
    \cup (IF m.shift > 0 THEN {"SMT"} ELSE {})

Strategy(f) ==
    CASE {"MDS_NO", "L1TF_NO"} \subseteq f           -> "None"
      [] "MDS_NO" \notin f /\ "L1TF_NO" \in f        -> "VerwOnly"
      [] "MDS_NO" \in f /\ "L1TF_NO" \notin f        -> "L1dFlushOnly"
      [] {"MDS_NO", "L1TF_NO"} \cap f = {} /\ "VERW_FLUSH" \in f -> "VerwPlusL1d"
      [] OTHER                                       -> "FullSpectrum"

(* ExecuteSecurityBoundaryFlush: what is executed on processor c *)
Flush(c) ==
    (IF strategy[c] \in {"VerwOnly", "VerwPlusL1d", "FullSpectrum"} THEN {"verw"} ELSE {})
    \cup (IF strategy[c] \in {"L1dFlushOnly", "VerwPlusL1d", "FullSpectrum"} /\ "L1D_FLUSH" \in features[c]
          THEN {"l1d"} ELSE {})
    \cup (IF strategy[c] = "FullSpectrum" THEN {"lfence"} ELSE {})

(* CatInitialize: the top quarter of the ways, at least one, is for sensitive data. *)
CatInitialize(m) ==
    IF "CAT_L3" \notin m.cpuid \/ m.clos < 1
    THEN [enabled |-> FALSE, sensitive |-> {}, default |-> {}]
    ELSE LET n == IF m.ways >= 4 THEN m.ways \div 4 ELSE 1
             top == {m.ways - 1 - i : i \in 0..n - 1}
         IN [enabled |-> TRUE, sensitive |-> top, default |-> (0..m.ways - 1) \ top]

(* Mutant: a processor that has a sibling is taken again. *)
Pair_Again(map, cpu, shift) ==
    LET free == {j \in 0..cpu - 1 : j % 2^shift # cpu % 2^shift /\ j \div 2^shift = cpu \div 2^shift}
        j == CHOOSE x \in free : \A y \in free : x <= y
    IN IF free = {} THEN map ELSE [map EXCEPT ![cpu] = j, ![j] = cpu]

(* SmtBuildTopology: each processor takes the first earlier one of its core that is still alone. *)
Pair(map, cpu, shift) ==
    LET free == {j \in 0..cpu - 1 : /\ map[j] = None
                                    /\ j % 2^shift # cpu % 2^shift
                                    /\ j \div 2^shift = cpu \div 2^shift}
        j == CHOOSE x \in free : \A y \in free : x <= y
    IN IF free = {} THEN map ELSE [map EXCEPT ![cpu] = j, ![j] = cpu]

SmtBuildTopology(shift) ==
    LET map[k \in 0..N] == IF k = 0 THEN [c \in Cpus |-> None] ELSE Pair(map[k - 1], k - 1, shift)
    IN map[N]

-----------------------------------------------------------------------------
CpInit ==
    /\ machine \in Machines
    /\ features = [c \in Cpus |-> {}] /\ strategy = [c \in Cpus |-> "unset"]
    /\ cat = [enabled |-> FALSE, sensitive |-> {}, default |-> {}]
    /\ sibling = [c \in Cpus |-> None]
    /\ up = 0
    /\ l1d = [c \in Cpus |-> 0] /\ l2 = [c \in Cpus |-> 0] /\ level = [c \in Cpus |-> 0]
    /\ counting = {} /\ isr = [c \in Cpus |-> "idle"] /\ PmuAlertLevel = 0 /\ crossed = FALSE

(* CacheMitigationInitialize probes one processor after the other. *)
ProbeCpuCapabilities ==
    /\ up \in Cpus
    /\ features' = [features EXCEPT ![up] = Features(machine)]
    /\ strategy' = [strategy EXCEPT ![up] = Strategy(Features(machine))]
    /\ cat' = CatInitialize(machine)
    /\ sibling' = IF up = N - 1 THEN SmtBuildTopology(machine.shift) ELSE sibling
    /\ up' = up + 1
    /\ UNCHANGED <<machine, pmuVars>>

(* PmuConfigureOnCpu, on every processor by one interrupt *)
PmuConfigure ==
    /\ counting' = Cpus
    /\ l1d' = [c \in Cpus |-> 0] /\ l2' = [c \in Cpus |-> 0] /\ level' = [c \in Cpus |-> 0]

PmuInitialize ==
    /\ up = N
    /\ PmuConfigure
    /\ up' = N + 1
    /\ UNCHANGED <<setupVars, isr, PmuAlertLevel, crossed>>

(* PmiIsr, the part that touches only its own processor; without the xAPIC no interrupt arrives. *)
PmiCount(c) ==
    /\ up = N + 1 /\ c \in counting /\ ~machine.x2apic /\ isr[c] = "idle"
    /\ \E over \in SUBSET {"l1d", "l2"} \ {{}} :
          /\ l1d' = IF "l1d" \in over THEN [l1d EXCEPT ![c] = @ + 1] ELSE l1d
          /\ l2' = IF "l2" \in over THEN [l2 EXCEPT ![c] = @ + 1] ELSE l2
          /\ l1d'[c] <= MaxOverflows /\ l2'[c] <= MaxOverflows
          /\ level' = [level EXCEPT ![c] =
                IF "l1d" \in over /\ l1d'[c] >= ALERT_COUNT THEN 2
                ELSE IF "l2" \in over /\ l2'[c] >= ALERT_COUNT /\ @ < 1 THEN 1 ELSE @]
    /\ isr' = [isr EXCEPT ![c] = "compare"]
    /\ UNCHANGED <<setupVars, up, counting, PmuAlertLevel, crossed>>

(* Mutant: the shared level is replaced only by one two levels higher. *)
PmiCompare_OffByOne(c) ==
    /\ isr[c] = "compare"
    /\ isr' = [isr EXCEPT ![c] = IF level[c] > PmuAlertLevel + 1 THEN "exchange" ELSE "idle"]
    /\ crossed' = (crossed \/ (isr'[c] = "exchange" /\ \E d \in Cpus \ {c} : isr[d] = "exchange"))
    /\ UNCHANGED <<setupVars, up, l1d, l2, level, counting, PmuAlertLevel>>

(* The shared level is compared *)
PmiCompare(c) ==
    /\ isr[c] = "compare"
    /\ isr' = [isr EXCEPT ![c] = IF level[c] > PmuAlertLevel THEN "exchange" ELSE "idle"]
    /\ crossed' = (crossed \/ (isr'[c] = "exchange" /\ \E d \in Cpus \ {c} : isr[d] = "exchange"))
    /\ UNCHANGED <<setupVars, up, l1d, l2, level, counting, PmuAlertLevel>>

(* and then replaced, whatever it is by now. *)
PmiExchange(c) ==
    /\ isr[c] = "exchange"
    /\ PmuAlertLevel' = level[c]
    /\ isr' = [isr EXCEPT ![c] = "idle"]
    /\ UNCHANGED <<setupVars, up, l1d, l2, level, counting, crossed>>

PmiIsr(c) == PmiCount(c) \/ PmiCompare(c) \/ PmiExchange(c)

(* The router (shared_state.c) sends one processor, the fail-safe mode all of them, to full spectrum. *)
EscalateCpus ==
    /\ up >= N
    /\ \E cs \in {{c} : c \in Cpus} \cup {Cpus} :
          strategy' = [c \in Cpus |-> IF c \in cs THEN "FullSpectrum" ELSE strategy[c]]
    /\ UNCHANGED <<machine, features, cat, sibling, up, pmuVars>>

(* The counters are set up once more everywhere and then cleared on the processor this runs on. *)
PmuUninitialize ==
    /\ up = N + 1 /\ \A c \in Cpus : isr[c] = "idle"
    /\ l1d' = [c \in Cpus |-> 0] /\ l2' = [c \in Cpus |-> 0] /\ level' = [c \in Cpus |-> 0]
    /\ \E here \in Cpus : counting' = Cpus \ {here}
    /\ up' = -1
    /\ UNCHANGED <<setupVars, isr, PmuAlertLevel, crossed>>

CpNext ==
    \/ ProbeCpuCapabilities \/ PmuInitialize \/ EscalateCpus \/ PmuUninitialize
    \/ \E c \in Cpus : PmiIsr(c)

CpSpec == CpInit /\ [][CpNext]_cpVars

-----------------------------------------------------------------------------
(* Whatever raises the strategy and in whatever order, what a boundary     *)
(* flush executes on a probed processor covers what the processor itself   *)
(* is exposed to: VERW unless it reports MDS_NO, the L1D flush unless it   *)
(* reports RDCL_NO or has none (cache_mitigation.c:85-108).  The cache     *)
(* partition gives every way to exactly one class and leaves neither empty *)
(* (a cache of one way cannot be divided), and siblings are two distinct   *)
(* processors of a core that name each other.                              *)
ProcessorsSetUp ==
    /\ \A c \in Cpus : strategy[c] # "unset" =>
          /\ ~("ARCH_CAP" \in machine.cpuid /\ "MDS_NO" \in machine.archCap) => "verw" \in Flush(c)
          /\ ~("ARCH_CAP" \in machine.cpuid /\ "RDCL_NO" \in machine.archCap)
             /\ "L1D_FLUSH" \in machine.cpuid => "l1d" \in Flush(c)
    /\ cat.enabled => /\ cat.sensitive \cup cat.default = 0..machine.ways - 1
                      /\ cat.sensitive \cap cat.default = {}
                      /\ cat.sensitive # {} /\ (machine.ways > 1 => cat.default # {})
    /\ \A c \in Cpus : sibling[c] # None =>
          /\ sibling[c] # c /\ sibling[sibling[c]] = c
          /\ c \div 2^machine.shift = sibling[c] \div 2^machine.shift

(* As long as no two interrupts met between the comparison and the         *)
(* exchange (pmu_detection.c:157-158), the shared level is not below the   *)
(* level of any processor whose interrupt has returned, and between        *)
(* interrupts it is the level of one of them.                              *)
SharedLevelIsHighest ==
    up = N + 1 /\ ~crossed =>
        /\ \A c \in Cpus : isr[c] = "idle" => level[c] <= PmuAlertLevel
        /\ (\A c \in Cpus : isr[c] = "idle") /\ PmuAlertLevel # 0 =>
               \E c \in Cpus : level[c] = PmuAlertLevel
=============================================================================

---------------------------- MODULE PostureLadder ----------------------------
(***************************************************************************)
(* What the response posture promises (header comment of kg_posture.c),    *)
(* without timers, hashes or a policy table: a ladder that alerts climb,   *)
(* that only an operator descends from the top two rungs, that nobody      *)
(* descends from there once the policy state is untrusted, and that holds  *)
(* every CPU at full-spectrum mitigation from HIGH upwards.  An operator's *)
(* step is announced afterwards.                                           *)
(***************************************************************************)
EXTENDS Integers

CONSTANTS Cpu, Thread

VARIABLES
    posture, untrusted,
    full,           \* the CPUs at full-spectrum
    announcing      \* operators who have changed the posture and not announced it

vars == <<posture, untrusted, full, announcing>>

Posture == 0 .. 3
ELEVATED == 1
HIGH == 2

Init ==
    /\ posture = 0
    /\ untrusted = FALSE
    /\ full \in SUBSET Cpu
    /\ announcing = {}

(* On every rung the CPUs the rung protects are protected. *)
Stand(p) ==
    /\ posture' = p
    /\ full' \in SUBSET Cpu
    /\ p >= HIGH => full' = Cpu

Climb ==
    /\ \E p \in Posture : p > posture /\ Stand(p)
    /\ untrusted' \in {untrusted, TRUE}
    /\ UNCHANGED announcing

OperatorStep ==
    /\ \E p \in Posture \ {posture} :
          /\ ~(untrusted /\ posture >= HIGH /\ p < posture)
          /\ Stand(p)
    /\ \E t \in Thread \ announcing : announcing' = announcing \cup {t}
    /\ UNCHANGED untrusted

Announce ==
    /\ \E t \in announcing : announcing' = announcing \ {t}
    /\ UNCHANGED <<posture, untrusted, full>>

Decay ==
    /\ posture = ELEVATED
    /\ Stand(0)
    /\ UNCHANGED <<untrusted, announcing>>

(* CPUs are escalated, relaxed and probed within what the rung allows, or *)
(* the policy state turns out to be corrupt.                              *)
Retune ==
    /\ Stand(posture)
    /\ untrusted' \in {untrusted, TRUE}
    /\ UNCHANGED announcing

Next == Climb \/ OperatorStep \/ Announce \/ Decay \/ Retune

Spec == Init /\ [][Next]_vars
=============================================================================

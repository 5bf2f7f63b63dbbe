-------------------------------- MODULE KgVote --------------------------------
(***************************************************************************)
(* Which task do the PMU overflows of a CPU belong to?  kg_pmu_overflow()  *)
(* keeps a majority vote (one candidate, one counter) in NMI context; the  *)
(* sampler takes the candidate and resets the vote from another CPU, with  *)
(* no lock between them.  Every atomic operation is a step.                *)
(***************************************************************************)
EXTENDS Integers

CONSTANTS
    Task,           \* the user tasks (tgids) that overflows hit
    MaxVotes        \* bound on the votes between two resets

ASSUME VoteAssumption == MaxVotes \in Nat

CONSTANT Nobody     \* tgid 0
ASSUME NobodyAssumption == Nobody \notin Task

VARIABLES
    cand_tgid, cand_cnt,
    nmi, me,            \* where the NMI handler is, and the task it votes for
    taker,              \* the sampler: "taken" between atomic_xchg() and atomic_set()
    fresh,              \* no reset has completed since the handler looked
    votes, total        \* votes cast since the last reset completed

voteVars == <<cand_tgid, cand_cnt, nmi, me, taker, fresh, votes, total>>

VoteInit ==
    /\ cand_tgid = Nobody /\ cand_cnt = 0
    /\ nmi = "idle" /\ me = Nobody /\ taker = "idle" /\ fresh = TRUE
    /\ votes = [t \in Task |-> 0] /\ total = 0

-----------------------------------------------------------------------------
(* kg_pmu_overflow() *)

(* The handler looks at the candidate. *)
NmiLook(t) ==
    /\ nmi = "idle" /\ total < MaxVotes
    /\ me' = t /\ fresh' = TRUE
    /\ nmi' = IF cand_tgid = t THEN "inc" ELSE "compare"
    /\ UNCHANGED <<cand_tgid, cand_cnt, taker, votes, total>>

(* ... and, if it is another task's, at the counter. *)
NmiCompare ==
    /\ nmi = "compare"
    /\ nmi' = IF cand_cnt <= 0 THEN "setTgid" ELSE "dec"
    /\ UNCHANGED <<cand_tgid, cand_cnt, me, taker, fresh, votes, total>>

(* The vote takes effect.  One that was in flight across a reset belongs to *)
(* neither period.                                                          *)
Cast ==
    /\ nmi' = "idle"
    /\ votes' = IF fresh THEN [votes EXCEPT ![me] = @ + 1] ELSE votes
    /\ total' = IF fresh THEN total + 1 ELSE total
    /\ UNCHANGED <<me, taker, fresh>>

NmiInc ==
    /\ nmi = "inc"
    /\ cand_cnt' = cand_cnt + 1
    /\ Cast
    /\ UNCHANGED cand_tgid

(* Mutant: a vote for another task does not count against the candidate. *)
NmiDec_Forgotten ==
    /\ nmi = "dec"
    /\ Cast
    /\ UNCHANGED <<cand_tgid, cand_cnt>>

NmiDec ==
    /\ nmi = "dec"
    /\ cand_cnt' = cand_cnt - 1
    /\ Cast
    /\ UNCHANGED cand_tgid

NmiSetTgid ==
    /\ nmi = "setTgid"
    /\ cand_tgid' = me
    /\ nmi' = "setCnt"
    /\ UNCHANGED <<cand_cnt, me, taker, fresh, votes, total>>

NmiSetCnt ==
    /\ nmi = "setCnt"
    /\ cand_cnt' = 1
    /\ Cast
    /\ UNCHANGED cand_tgid

-----------------------------------------------------------------------------
(* kg_pmu_sample(): an alert names the candidate and starts a new vote. *)

SampleTake ==
    /\ taker = "idle"
    /\ cand_tgid' = Nobody
    /\ taker' = "taken"
    /\ UNCHANGED <<cand_cnt, nmi, me, fresh, votes, total>>

SampleReset ==
    /\ taker = "taken"
    /\ cand_cnt' = 0
    /\ taker' = "idle"
    /\ fresh' = FALSE
    /\ votes' = [t \in Task |-> 0] /\ total' = 0
    /\ UNCHANGED <<cand_tgid, nmi, me>>

VoteNext ==
    \/ \E t \in Task : NmiLook(t)
    \/ NmiCompare \/ NmiInc \/ NmiDec \/ NmiSetTgid \/ NmiSetCnt
    \/ SampleTake \/ SampleReset

VoteSpec == VoteInit /\ [][VoteNext]_voteVars

-----------------------------------------------------------------------------
(* Properties. *)

(* Every variable has its type. *)
TypeOK ==
    /\ cand_tgid \in Task \cup {Nobody} /\ cand_cnt \in Int
    /\ nmi \in {"idle", "inc", "compare", "dec", "setTgid", "setCnt"}
    /\ me \in Task \cup {Nobody} /\ (nmi # "idle" => me \in Task)
    /\ taker \in {"idle", "taken"} /\ fresh \in BOOLEAN
    /\ votes \in [Task -> Nat] /\ total \in Nat

(* kg_pmu_overflow(): "Keep the majority vote of the user-mode task that was *)
(* running at each overflow".  A task that leads all others together by two  *)
(* votes is the one an alert names.  (A lead of one may be lost: a vote that *)
(* crosses a reset is charged to nobody.)                                    *)
MajorityNamed ==
    nmi = "idle" /\ taker = "idle" =>
        \A t \in Task : 2 * votes[t] - total > 1 => cand_tgid = t
=============================================================================

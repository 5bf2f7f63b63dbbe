------------------------------ MODULE MCKgPmu ------------------------------
(***************************************************************************)
(* The sampler and the vote it takes its offender from share no other      *)
(* state: a behaviour takes the steps of one while the other stands at its *)
(* beginning.                                                              *)
(***************************************************************************)
EXTENDS KgPmu, KgVote

VARIABLE which

MCNext ==
    \/ which = "pmu" /\ Next /\ UNCHANGED <<which, voteVars>>
    \/ which = "vote" /\ VoteNext /\ UNCHANGED <<which, vars>>

MCInit == which \in {"pmu", "vote"} /\ Init /\ VoteInit

(* KgPmu's fairness; nothing forces an overflow, or a vote. *)
MCSpec ==
    /\ MCInit
    /\ [][MCNext]_<<which, vars, voteVars>>
    /\ WF_vars(which = "pmu" /\ Machinery) /\ WF_vars(which = "pmu" /\ Tick)
=============================================================================

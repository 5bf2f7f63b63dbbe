------------------------------ MODULE MCKgRing ------------------------------
(***************************************************************************)
(* The two halves of kg_comms.c: the ring with its reader (KgRing), and    *)
(* the rate limiter with the fallback channel (KgNotify), for which a      *)
(* notification is published in one step.  A behaviour takes the steps of  *)
(* one half while the other stands at its beginning.  (KgRingProofs has    *)
(* the ring, and KgNotify as Nf.)                                          *)
(***************************************************************************)
EXTENDS KgRingProofs

VARIABLES which

nfVars == <<index, level, rl_tokens, owed, limited, ticks, dropped, toQueue,
            dev, pending, worker, ue_cursor, holding>>

MCNext ==
    \/ which = "ring" /\ Next /\ UNCHANGED <<which, nfVars>>
    \/ which = "notify" /\ Nf!Next /\ UNCHANGED <<which, vars>>

MCInit == which \in {"ring", "notify"} /\ Init /\ Nf!Init

(* The fairness of the half that is taken. *)
MCSpec ==
    /\ MCInit
    /\ [][MCNext]_<<which, vars, nfVars>>
    /\ \A t \in Writer : WF_vars(which = "ring" /\ WriterStep(t))
    /\ WF_vars(which = "ring" /\ MonitorStep)
    /\ WF_nfVars(which = "notify" /\ Nf!WorkerStep)
    /\ WF_nfVars(which = "notify" /\ Nf!NotifyQueue)
    /\ WF_nfVars(which = "notify" /\ Nf!SetDevice)

-----------------------------------------------------------------------------
(* KgNotify: every WATCH or CRITICAL notification passes kg_uevent_workfn(), *)
(* unless the device goes away.                                              *)
EventuallySignalled == Nf!EventuallySignalled
=============================================================================

------------------------------ MODULE RingLog ------------------------------
(***************************************************************************)
(* What the notification channel promises its reader: notifications are    *)
(* numbered without gaps; the reader settles them one after the other, and *)
(* settles one otherwise than by showing it only if the writer has lapped  *)
(* it, that is, has claimed a number at least SLOTS higher.                *)
(***************************************************************************)
EXTENDS Integers

CONSTANTS SLOTS, MaxNotify

VARIABLES claimed, published, cursor, fate

vars == <<claimed, published, cursor, fate>>

Seq == 0 .. MaxNotify - 1

Init ==
    /\ claimed = 0 /\ published = 0 /\ cursor = 0
    /\ fate = [q \in Seq |-> "pending"]

Claim ==
    /\ claimed = published
    /\ claimed' = claimed + 1
    /\ UNCHANGED <<published, cursor, fate>>

Publish ==
    /\ published < claimed
    /\ published' = claimed
    /\ UNCHANGED <<claimed, cursor, fate>>

Lapped(q) == claimed > q + SLOTS

(* The reader starts with part of the backlog. *)
Begin ==
    /\ cursor = 0
    /\ \E c \in 0 .. published :
          /\ cursor' = c
          /\ fate' = [q \in Seq |-> IF q < c THEN "old" ELSE fate[q]]
    /\ UNCHANGED <<claimed, published>>

Show ==
    /\ cursor < published
    /\ cursor' = cursor + 1
    /\ fate' = [fate EXCEPT ![cursor] = "shown"]
    /\ UNCHANGED <<claimed, published>>

(* Reports that a single notification could not be had. *)
Miss ==
    /\ cursor < published /\ Lapped(cursor)
    /\ cursor' = cursor + 1
    /\ \E f \in {"forged", "overwritten"} : fate' = [fate EXCEPT ![cursor] = f]
    /\ UNCHANGED <<claimed, published>>

(* Skips the notifications an overrun has cost. *)
Skip ==
    /\ \E c \in cursor + 1 .. published :
          /\ Lapped(c - 1)
          /\ cursor' = c
          /\ fate' = [q \in Seq |-> IF q \in cursor .. c - 1 THEN "lost" ELSE fate[q]]
    /\ UNCHANGED <<claimed, published>>

Next == Claim \/ Publish \/ Begin \/ Show \/ Miss \/ Skip

Spec == Init /\ [][Next]_vars
=============================================================================

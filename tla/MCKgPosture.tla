---------------------------- MODULE MCKgPosture ----------------------------
(* Small instances of KgPosture: two sibling CPUs, L1TF and MDS present. *)
EXTENDS KgPosture

CONSTANTS c1, c2

MCSiblings == [c \in Cpu |-> Cpu]
=============================================================================

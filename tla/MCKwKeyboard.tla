----------------------------- MODULE MCKwKeyboard -----------------------------
(* Two keyboards; two filters of one driver and one of another. *)
EXTENDS KwKeyboard

TwoKbds == <<"k1", "k2">>
Bases == [k1 |-> "b1", k2 |-> "b2"]
FilterDrivers == [f1 |-> "F", f2 |-> "F", h |-> "H"]
===============================================================================

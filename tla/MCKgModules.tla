------------------------------ MODULE MCKgModules ------------------------------
EXTENDS KgModules

(* m1 is an old version of a module, on the deny list by its srcversion; m2 *)
(* is another version of it, or another module altogether.                  *)
TwoMods == {"m1", "m2"}
Names == [m \in TwoMods |-> IF m = "m1" THEN "alpha" ELSE "beta"]
Versions == [m \in TwoMods |-> IF m = "m1" THEN "V1" ELSE "V2"]

Entry(name, srcver, ok) == [name |-> name, srcver |-> srcver, ok |-> ok]

(* One malformed entry, and one too many. *)
Deny == <<Entry("a!pha", "", FALSE), Entry("alpha", "V1", TRUE), Entry("beta", "V9", TRUE)>>
Allow == <<Entry("gamma", "", TRUE)>>
================================================================================

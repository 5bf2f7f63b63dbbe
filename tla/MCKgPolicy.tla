------------------------------ MODULE MCKgPolicy ------------------------------
EXTENDS KgPolicy

Rule(level, codes, throttle, reset, repeat_n, window, unacked, then) ==
    [min_level |-> level, codes |-> codes, throttle |-> throttle,
     reset |-> reset, repeat_n |-> repeat_n, window |-> window,
     unacked |-> unacked, do |-> 1, then |-> then]

(* Escalation by repetition alone, by repetition and by age with a rule for *)
(* forged notifications, and one that does not parse.                       *)
SmallPolicies ==
    {<<Rule(1, {}, 1, 2, 2, 1, 0, 1)>>,
     <<Rule(1, {}, 0, 2, 2, 1, 1, 1), Rule(3, {FORGED}, 0, 1, 0, 0, 0, 0)>>,
     <<Rule(1, {"PCI"}, 0, 1, 2, 1, 0, 0)>>}

Pci(offender, ok) == [code |-> "PCI", p1 |-> offender, level |-> 1, ok |-> ok]

SmallAlerts == {Pci(1, TRUE), Pci(1, FALSE)}
=============================================================================

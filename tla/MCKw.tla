--------------------------------- MODULE MCKw ---------------------------------
(***************************************************************************)
(* The parts of the Windows driver and its monitor, each on its own small  *)
(* instance: a behaviour takes the steps of one of them while the others   *)
(* stand at a beginning of theirs.                                         *)
(***************************************************************************)
EXTENDS TLC, KwLoadGuard, KwDigest, KwChannel, KwMonitor, KwDriver, MCKwKeyboard, KwCpu

VARIABLE which

-----------------------------------------------------------------------------
(* KwLoadGuard: a table that is sorted, or not, with an entry that does not *)
(* parse; a deny list with such an entry, and an allow list with more than  *)
(* fit; lists for which there is no memory.                                 *)
TableEntry(d, bad) == [digest |-> d, malicious |-> bad, ok |-> TRUE]
Ascending == <<TableEntry(1, FALSE), TableEntry(2, TRUE), TableEntry(4, TRUE)>>
Unordered == <<TableEntry(4, TRUE), [digest |-> 3, malicious |-> FALSE, ok |-> FALSE],
               TableEntry(2, TRUE), TableEntry(1, FALSE)>>
DigestOf == ("a" :> 1) @@ ("b" :> 2) @@ ("c" :> 3)
DenyList == <<[digest |-> 7, ok |-> FALSE], [digest |-> 3, ok |-> TRUE]>>
AllowList == <<[digest |-> 2, ok |-> TRUE], [digest |-> 1, ok |-> TRUE]>>

ThreeSetups ==
    {[table |-> Ascending, deny |-> DenyList, allow |-> <<>>, lock |-> TRUE,
      memory |-> {"builtin", "deny", "allow"}],
     [table |-> Unordered, deny |-> <<>>, allow |-> AllowList, lock |-> FALSE,
      memory |-> {"builtin", "deny", "allow"}],
     [table |-> Ascending, deny |-> DenyList, allow |-> AllowList, lock |-> TRUE,
      memory |-> {"allow"}]}

(* KwDigest: up to two sections behind six bytes of headers, whole or cut   *)
(* off, in any order, overlapping or not; with and without a certificate.   *)
SmallSection == [off : {6, 7, 8, 10}, size : 0..2]
SmallFiles ==
    [length : {8, 10}, checkOff : {1}, certEntry : {3, NoEntry}, headers : {6},
     sections : UNION {[1..n -> SmallSection] : n \in 0..2}, certOff : {0, 8, 9}, certSize : 0..2]

(* KwCpu: three processors without features, with a verw that clears and with *)
(* cache allocation; each kind of vulnerability and each width of the SMT id. *)
SmallMachines ==
    [cpuid : {{}, {"ARCH_CAP", "VERW_FLUSH", "L1D_FLUSH"}, {"ARCH_CAP", "L1D_FLUSH", "CAT_L3"}},
     archCap : SUBSET {"RDCL_NO", "MDS_NO"}, shift : 0..2, ways : {1, 4, 11}, clos : {1},
     x2apic : {TRUE}]
    \cup [cpuid : {{"CAT_L3"}}, archCap : {{}}, shift : {1}, ways : {11}, clos : {0},
          x2apic : {FALSE}]

-----------------------------------------------------------------------------
(* A part that is not the one taken stands at one of its initial states. *)
OneOf(S) == CHOOSE x \in S : TRUE
OneFile == OneOf(SmallFiles)
OneMachine == OneOf(SmallMachines)

WInit ==
    /\ which \in {"guard", "digest", "channel", "monitor", "driver", "keyboard", "cpu"}
    /\ which # "guard" => itemOk = TRUE
    /\ which # "digest" => file = OneFile
    /\ which # "driver" => enforce = TRUE /\ threats = OneOf(Beginnings)
    /\ which # "keyboard" => /\ stack = [k \in ToSet(Kbd) |-> <<BaseOf[k]>>]
                             /\ enforcing = TRUE /\ from = "bottom"
    /\ which # "cpu" => machine = OneMachine
    /\ Init /\ ChInit /\ MoInit /\ KdInit /\ KbInit /\ CpInit /\ DgInit

WNext ==
    /\ \/ /\ which = "guard" /\ Next
          /\ UNCHANGED <<dgVars, chVars, moVars, kdVars, kbVars, cpVars>>
       \/ /\ which = "digest" /\ DgNext
          /\ UNCHANGED <<lgVars, chVars, moVars, kdVars, kbVars, cpVars>>
       \/ /\ which = "channel" /\ ChNext
          /\ UNCHANGED <<lgVars, dgVars, moVars, kdVars, kbVars, cpVars>>
       \/ /\ which = "monitor" /\ MoNext
          /\ UNCHANGED <<lgVars, dgVars, chVars, kdVars, kbVars, cpVars>>
       \/ /\ which = "driver" /\ KdNext
          /\ UNCHANGED <<lgVars, dgVars, chVars, moVars, kbVars, cpVars>>
       \/ /\ which = "keyboard" /\ KbNext
          /\ UNCHANGED <<lgVars, dgVars, chVars, moVars, kdVars, cpVars>>
       \/ /\ which = "cpu" /\ CpNext
          /\ UNCHANGED <<lgVars, dgVars, chVars, moVars, kdVars, kbVars>>
    /\ UNCHANGED which

WSpec ==
    WInit /\ [][WNext]_<<which, lgVars, dgVars, chVars, moVars, kdVars, kbVars, cpVars>>
===============================================================================

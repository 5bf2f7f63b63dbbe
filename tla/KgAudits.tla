------------------------------- MODULE KgAudits -------------------------------
(***************************************************************************)
(* The module gate with the .text baselines (KgModules), the PCI audit     *)
(* (KgHw) and the keyboard audit (KgInput) share no data, so that a        *)
(* behaviour of the driver is one of each: this module takes one of them,  *)
(* with the others standing still.                                         *)
(*                                                                         *)
(* It starts with the proofs about KgModules, for every set of modules,    *)
(* whatever their names and versions and whatever the two lists say, and   *)
(* those about KgInput; then come the PCI audit (KgHw, KgHwProofs) and the *)
(* composition; then the theorems about the three together, for any        *)
(* devices, tables and lists.                                              *)
(***************************************************************************)
EXTENDS KgModules, TLAPS

(* What the proofs need to know about the values of the variables. *)
ModType ==
    /\ st \in [Mod -> {"none", "coming", "gate", "init", "set", "live", "going"}]
    /\ regions \in [Mod -> Nat] /\ ahead \subseteq Mod /\ held \subseteq Mod
    /\ reported \in [Mod -> BOOLEAN] /\ gap \in [Mod -> BOOLEAN] /\ odd \in [Mod -> BOOLEAN]
    /\ undo \in BOOLEAN /\ gateNb \in BOOLEAN /\ textNb \in BOOLEAN
    /\ writer \in [pc : {"idle", "check", "snap"}, was : BOOLEAN, left : Int]
    /\ p_lock \in BOOLEAN

(* A module on the deny list that is past the gate has been reported, from   *)
(* the walk on.                                                              *)
GateInv ==
    /\ step \in {"snap", "swap", "gateReg"} => ~gateNb
    /\ \A m \in Mod : st[m] = "gate" => gateNb
    /\ gateNb /\ step # "walk" =>
          \A m \in Mod : st[m] \in {"init", "set", "live"} /\ kg_gate_denied(m)
                            => reported[m] \/ gap[m]

(* The baselines of a module that came and went in the ordinary way. *)
Follows(m) ==
    /\ st[m] = "live" /\ m \notin skipped => regions[m] = 1
    /\ st[m] \notin {"live", "going"} => regions[m] = 0

(* The text baselines are built between the references that the enumeration  *)
(* takes and the registration of the notifier, and follow from there.        *)
TextInv ==
    /\ step \in {"snap", "swap", "gateReg", "walk", "enum", "add"} =>
          skipped = {} /\ \A m \in Mod : regions[m] = 0
    /\ step \in {"snap", "swap", "gateReg", "walk", "enum", "add", "textReg"} => ~textNb
    /\ step \in {"snap", "swap", "gateReg", "walk", "enum", "add", "textReg", "work"} =>
          worker = "off"
    /\ step = "add" => \A m \in Mod :
          /\ m \in held => st[m] \in {"set", "live"}
          /\ ~odd[m] /\ st[m] \in {"set", "live"} => m \in held /\ st[m] = "live"
    /\ step = "textReg" => \A m \in Mod : ~odd[m] => st[m] # "set"
    /\ textNb \/ step = "textReg" => \A m \in Mod : ~odd[m] => Follows(m)
    /\ textNb /\ Verifying => \A m \in ahead : regions[m] > 0

(* How far kg_exit(), or a kg_init() that failed, has got. *)
TearingText == step \in {"textUnreg", "stop", "cancel", "free"}
TearingGate == step \in {"gateUnreg", "gateFree"}
GateGone == step = "gone" \/ (~undo /\ TearingText)
TextGone == step = "gone" \/ (undo /\ TearingGate)

ExitInv ==
    /\ undo => TearingText \/ TearingGate \/ step = "gone"
    /\ GateGone \/ step = "gateFree" => ~gateNb
    /\ GateGone => ~ready /\ base = {} /\ writer.pc # "snap"
    /\ TextGone \/ step \in {"stop", "cancel", "free"} => ~textNb
    /\ TextGone \/ step = "free" => worker = "off"
    /\ TextGone => \A m \in Mod : regions[m] = 0

ModInv == ModType /\ GateInv /\ TextInv /\ ExitInv

LEMMA ModInit == Init => ModInv
<1> SUFFICES ASSUME Init PROVE ModInv
  OBVIOUS
<1>1. ModType
  <2>1. MaxWrites \in Int
    BY ModulesAssumption
  <2>2. regions \in [Mod -> Nat] /\ st \in [Mod -> {"none", "live"}]
    BY DEF Init
  <2>3. reported \in [Mod -> BOOLEAN] /\ gap \in [Mod -> BOOLEAN] /\ odd \in [Mod -> BOOLEAN]
    BY DEF Init
  <2>4. QED
    BY ZenonT(60), <2>1, <2>2, <2>3 DEF Init, ModType
<1>2. GateInv /\ TextInv /\ ExitInv
  BY DEF Init, GateInv, TextInv, ExitInv, Verifying, GateGone, TextGone, TearingText,
     TearingGate
<1>3. QED
  BY <1>1, <1>2 DEF ModInv

LEMMA ModNext == ASSUME ModInv, Next PROVE ModInv'
<1> USE DEF ModInv, ModType, GateInv, TextInv, ExitInv, Follows, Verifying,
            GateGone, TextGone, TearingText, TearingGate, loader, gate, text, history
<1>1. ASSUME NEW m \in Mod, LoadBegin(m) PROVE ModInv'
  BY SMTT(30), <1>1 DEF LoadBegin
<1>2. ASSUME NEW m \in Mod, ComingUnseen(m) PROVE ModInv'
  BY SMTT(30), <1>2 DEF ComingUnseen
<1>3. ASSUME NEW m \in Mod, GateEnter(m) PROVE ModInv'
  BY SMTT(30), <1>3 DEF GateEnter
<1>4. ASSUME NEW m \in Mod, kg_gate_notify(m) PROVE ModInv'
  BY SMTT(30), <1>4 DEF kg_gate_notify
<1>5. ASSUME NEW m \in Mod, InitReturns(m) PROVE ModInv'
  <2>1. PICK s \in {"set", "going"} : st' = [st EXCEPT ![m] = s]
    BY ZenonT(60), <1>5 DEF InitReturns
  <2>2. odd' \in [Mod -> BOOLEAN] /\ \A o \in Mod : odd[o] => odd'[o]
    BY SMTT(30), <1>5 DEF InitReturns
  <2>3. ModType' /\ GateInv' /\ ExitInv'
    BY SMTT(30), <1>5, <2>1, <2>2 DEF InitReturns
  <2>4. TextInv'
    BY ZenonT(60), <1>5, <2>1, <2>2 DEF InitReturns
  <2>5. QED
    BY <2>3, <2>4
<1>6. ASSUME NEW m \in Mod, LiveNotify(m) PROVE ModInv'
  BY <1>6 DEF LiveNotify, kg_region_add
<1>7. ASSUME NEW m \in Mod, Unload(m) PROVE ModInv'
  BY SMTT(30), <1>7 DEF Unload, Referenced
<1>8. ASSUME NEW m \in Mod, GoingNotify(m) PROVE ModInv'
  <2>1. /\ regions' \in [Mod -> Nat]
        /\ \A o \in Mod : regions[o] = 0 \/ o # m => regions'[o] = regions[o]
        /\ ~textNb => regions' = regions
    BY SMTT(30), <1>8 DEF GoingNotify, Max
  <2>2. /\ Orphaned(m) \in BOOLEAN
        /\ Orphaned(m) <=> regions'[m] # 0 /\ (textNb \/ step = "textReg")
    BY SMTT(30), <2>1 DEF Orphaned
  <2>3. /\ st' = [st EXCEPT ![m] = "none"] /\ odd' = [odd EXCEPT ![m] = Orphaned(m)]
        /\ skipped' = skipped \ {m} /\ (textNb => ~Verifying)
        /\ UNCHANGED <<step, undo, gateNb, textNb, held, worker, ahead, writer, p_lock,
                       ready, base>>
    BY SMTT(30), <1>8 DEF GoingNotify, Forget
  <2>4. ModType' /\ GateInv'
    BY SMTT(30), <1>8, <2>1, <2>2, <2>3 DEF GoingNotify, Forget
  <2>5. TextInv'
    <3>1. textNb \/ step = "textReg" => \A o \in Mod : ~odd'[o] => Follows(o)'
      BY SMTT(30), <1>8, <2>1, <2>2, <2>3 DEF GoingNotify
    <3>2. /\ step = "add" => m \notin held
          /\ textNb /\ Verifying => \A o \in ahead : regions[o] > 0
      BY SMTT(30), <1>8 DEF GoingNotify
    <3>3. step = "add" => \A o \in Mod :
             /\ o \in held => st'[o] \in {"set", "live"}
             /\ ~odd'[o] /\ st'[o] \in {"set", "live"} => o \in held /\ st'[o] = "live"
      BY SMTT(30), <2>2, <2>3, <3>2
    <3>4. QED
      BY SMTT(30), <2>1, <2>2, <2>3, <3>1, <3>2, <3>3
  <2>6. ExitInv'
    BY SMTT(30), <1>8, <2>1, <2>3 DEF GoingNotify
  <2>7. QED
    BY SMTT(30), <2>4, <2>5, <2>6
<1>9. ASSUME NEW m \in Mod, VerifyRegion(m) PROVE ModInv'
  BY SMTT(30), <1>9 DEF VerifyRegion
<1>10. ASSUME NEW val \in BOOLEAN, SetLock(val) PROVE ModInv'
  BY SMTT(30), <1>10 DEF SetLock
<1>11. CASE SetLockCheck
  <2>1. writer' \in [pc : {"idle", "check", "snap"}, was : BOOLEAN, left : Int]
    BY ZenonT(60), <1>11 DEF SetLockCheck
  <2>2. writer'.pc = "snap" => ready
    BY ZenonT(60), <1>11 DEF SetLockCheck
  <2>3. QED
    BY SMTT(30), <1>11, <2>1, <2>2 DEF SetLockCheck
<1>12. CASE SetLockSwap
  <2>1. writer' \in [pc : {"idle", "check", "snap"}, was : BOOLEAN, left : Int]
    BY ZenonT(60), <1>12 DEF SetLockSwap
  <2>2. ~GateGone
    BY SMTT(30), <1>12 DEF SetLockSwap
  <2>3. p_lock' \in BOOLEAN
    BY SMTT(30), <1>12 DEF SetLockSwap
  <2>4. QED
    BY SMTT(30), <1>12, <2>1, <2>2, <2>3 DEF SetLockSwap
<1>13. CASE GateSnap
  BY <1>13 DEF GateSnap, InitOrder
<1>14. CASE GateSwap
  BY ZenonT(60), <1>14 DEF GateSwap, InitStep, InitOrder
<1>15. CASE GateRegister
  <2>1. step' \in {"walk", "enum"} /\ UNCHANGED <<undo, textNb>>
    BY <1>15 DEF GateRegister, InitOrder
  <2>2. ModType'
    BY ZenonT(60), <1>15 DEF GateRegister
  <2>3. GateInv'
    BY SMTT(30), <1>15 DEF GateRegister, InitOrder
  <2>4. TextInv'
    BY SMTT(30), <1>15, <2>1 DEF GateRegister
  <2>5. ExitInv'
    BY SMTT(30), <1>15, <2>1 DEF GateRegister
  <2>6. QED
    BY ZenonT(60), <2>2, <2>3, <2>4, <2>5
<1>16. CASE GateWalk
  BY SMTT(30), <1>16 DEF GateWalk, InitStep, InitOrder, Live
<1>17. CASE Enumerate
  BY ZenonT(60), <1>17 DEF Enumerate, InitStep, InitOrder, Live
<1>18. CASE IntegrityUnavailable
  BY SMTT(30), <1>18 DEF IntegrityUnavailable
<1>19. CASE EnumerateAdd
  BY SMTT(30), <1>19 DEF EnumerateAdd, InitStep, InitOrder, kg_region_add
<1>20. CASE TextRegister
  BY SMTT(30), <1>20 DEF TextRegister, InitStep, InitOrder
<1>21. CASE TextWork
  BY SMTT(30), <1>21 DEF TextWork, InitStep, InitOrder
<1>22. CASE Misc
  <2>1. CASE step' = "up" /\ UNCHANGED undo
    BY SMTT(30), <1>22, <2>1 DEF Misc
  <2>2. CASE step' = "textUnreg" /\ undo' = TRUE
    BY SMTT(30), <1>22, <2>2 DEF Misc
  <2>3. QED
    BY ZenonT(60), <1>22, <2>1, <2>2 DEF Misc
<1>23. CASE GateUnregister
  BY ZenonT(60), <1>23 DEF GateUnregister, ExitStep, ExitOrder, UndoOrder
<1>24. CASE GateFree
  BY <1>24 DEF GateFree, ExitStep, ExitOrder, UndoOrder
<1>25. CASE TextUnregister
  BY ZenonT(60), <1>25 DEF TextUnregister, ExitStep, ExitOrder, UndoOrder
<1>26. CASE TextStop
  BY SMTT(30), <1>26 DEF TextStop, ExitStep, ExitOrder, UndoOrder
<1>27. CASE TextCancel
  BY SMTT(30), <1>27 DEF TextCancel, ExitStep, ExitOrder, UndoOrder
<1>28. CASE TextFree
  BY SMTT(30), <1>28 DEF TextFree, ExitStep, ExitOrder, UndoOrder
<1>29. CASE VerifyBegin
  BY SMTT(30), <1>29 DEF VerifyBegin
<1>30. CASE VerifyEnd
  BY SMTT(30), <1>30 DEF VerifyEnd
<1>31. CASE WorkEnd
  BY SMTT(30), <1>31 DEF WorkEnd, Stopped
<1>32. CASE Exit
  BY SMTT(30), <1>32 DEF Exit
<1>33. CASE Finished
  BY <1>33 DEF Finished, vars
<1>34. QED
  BY ZenonT(60), <1>1, <1>2, <1>3, <1>4, <1>5, <1>6, <1>7, <1>8, <1>9, <1>10, <1>11, <1>12,
     <1>13,
     <1>14, <1>15, <1>16, <1>17, <1>18, <1>19, <1>20, <1>21, <1>22, <1>23, <1>24, <1>25,
     <1>26, <1>27, <1>28, <1>29, <1>30, <1>31, <1>32, <1>33 DEF Next, Loader, Driver,
     Worker

(* ModInv is inductive. *)
LEMMA ModStep == ModInv /\ [Next]_vars => ModInv'
<1> SUFFICES ASSUME ModInv, [Next]_vars PROVE ModInv'
  OBVIOUS
<1>1. CASE Next
  BY SMTT(30), <1>1, ModNext
<1>2. CASE UNCHANGED vars
  BY <1>2 DEF vars, ModInv, ModType, GateInv, TextInv, ExitInv, Follows, Verifying,
     GateGone, TextGone, TearingText, TearingGate
<1>3. QED
  BY <1>1, <1>2

LEMMA ModInvariant == Spec => []ModInv
  BY ModInit, ModStep, PTL DEF Spec

(* It says that nothing is left once the driver has gone. *)
LEMMA ModExits == ModInv => ExitClean
  BY DEF ModInv, GateInv, ExitInv, GateGone, TextGone, ExitClean

(* From the walk on, no module on the deny list is live without a report,     *)
(* however loads, writes of mod_lock and the steps of kg_init() interleave.   *)
THEOREM DeniedReported == Spec => []DeniedSeen
<1>1. ModInv => DeniedSeen
  BY SMTT(30) DEF ModInv, GateInv, DeniedSeen, Live
<1>2. QED
  BY ModInvariant, <1>1, PTL

(* From the registration of the notifier to its end every module has exactly  *)
(* the baseline it should, but for those that came or went during set-up.     *)
THEOREM BaselinesExact == Spec => []BaselinesFollow
<1>1. ModInv => BaselinesFollow
  BY SMTT(30) DEF ModInv, TextInv, Follows, BaselinesFollow
<1>2. QED
  BY ModInvariant, <1>1, PTL

(* The worker never has the text of an unloaded module ahead: it holds        *)
(* kg_region_lock across the pass, and GOING waits for that lock.             *)
THEOREM PassSeesLoadedText == Spec => []VerifiesLoadedText
<1>1. ModInv => VerifiesLoadedText
  <2>1. SUFFICES ASSUME ModInv, textNb, Verifying, NEW m \in ahead, ~odd[m]
                 PROVE  st[m] # "none"
    BY SMTT(30) DEF VerifiesLoadedText
  <2>2. m \in Mod /\ regions[m] \in Nat /\ regions[m] > 0
    BY SMTT(30), <2>1 DEF ModInv, ModType, TextInv
  <2>3. Follows(m)
    BY SMTT(30), <2>1, <2>2 DEF ModInv, TextInv
  <2>4. QED
    BY SMTT(30), <2>2, <2>3 DEF Follows
<1>2. QED
  BY ModInvariant, <1>1, PTL

(* Whichever way the module goes, by kg_exit() or by a kg_init() that failed, *)
(* no notifier is registered or running, no work is queued, nothing is kept.  *)
THEOREM ModulesExitClean == Spec => []ExitClean
  BY ModInvariant, ModExits, PTL

-----------------------------------------------------------------------------
(* The keyboard-path audit (KgInput), and the proofs about it, for any        *)
(* keyboards, handles, handler names, lists and table sizes.                  *)

CONSTANTS Kbd, Ptr, Name, Stock, MAX_HANDLES, MAX_BASE, MAX_REPORTED, KbdEvents

VARIABLES h, events, enforcing, tracked, phase, stop, pending, kicker, pc, todo, hi, left,
          victim, baseNames, kbdReported, late, quiet, crowded, recycled

INSTANCE KgInput

Handle == [kbd : Kbd \cup {"none"}, name : Name \cup {"none"}, hook : BOOLEAN,
           link : {"none", "on", "poison", "self"}]

KbType ==
    /\ h \in [Ptr -> Handle]
    /\ enforcing \in BOOLEAN
    /\ phase \in {"register", "base", "up", "cancel", "unreg", "gone", "off"}
    /\ stop \in BOOLEAN /\ pending \in BOOLEAN /\ kicker \in BOOLEAN /\ late \in BOOLEAN
    /\ pc \in {"idle", "scan", "judge", "enforce", "grace"}
    /\ tracked \subseteq Kbd
    /\ crowded \in BOOLEAN
    /\ quiet \in 0 .. 2

(* Before kg_input_init() is through nothing is counted and no work queued;  *)
(* after kg_input_exit() there is no scan, except by a late kick.            *)
KbLife ==
    /\ phase \in {"register", "base", "off"} => quiet = 0 /\ ~pending /\ ~kicker
    /\ phase \in {"register", "off"} => pc = "idle"
    /\ kicker => late
    /\ phase \in {"unreg", "gone"} /\ ~late => pc = "idle" /\ ~pending

(* What a scan has gathered is still so when it acts on it, except for an    *)
(* address that was freed or used again since.                               *)
KbGathered ==
    /\ pc \in {"idle", "scan"} => hi = {}
    /\ left \subseteq hi
    /\ pc = "grace" => victim \in Ptr /\ h[victim].link = "poison"
    /\ \A e \in hi : /\ e.ptr \in Ptr
                     /\ e.ptr \in recycled \/ h[e.ptr] = Free \/ h[e.ptr].name = e.name

(* What FiltersDealtWith says of a handle, and the handles the scan has       *)
(* gathered and not finished with.                                            *)
Dealt(p) == crowded \/ (~enforcing /\ <<p, "filter">> \in kbdReported)
InHand(p) == \E e \in hi : /\ e.ptr = p /\ e.name = h[p].name
                           /\ e \in left \/ (pc = "judge" /\ <<p, "filter">> \in kbdReported)

(* Once a scan has ended since anything changed, the scan under way has in   *)
(* hand or has dealt with every unauthorised handle of the keyboards it has  *)
(* been to; after it, all of them are dealt with.                            *)
KbFilters ==
    phase = "up" => \A p \in Listed : ~kg_handler_authorised(h[p].name) =>
        /\ quiet >= 1 /\ pc # "idle" /\ h[p].kbd \notin todo => Dealt(p) \/ InHand(p)
        /\ quiet = 2 => Dealt(p)

KbInv == KbType /\ KbLife /\ KbGathered /\ KbFilters

-----------------------------------------------------------------------------
(* Types, and the life of the work item. *)

(* Changing a callback or a list link leaves a handle a handle with the same *)
(* handler on the same keyboard.                                             *)
LEMMA HandleFacts ==
    ASSUME NEW d \in Handle, NEW l \in {"none", "on", "poison", "self"}
    PROVE  /\ [d EXCEPT !.hook = TRUE] \in Handle
           /\ [d EXCEPT !.link = l] \in Handle
           /\ [d EXCEPT !.hook = TRUE].link = d.link
           /\ [d EXCEPT !.hook = TRUE].name = d.name
           /\ [d EXCEPT !.link = l].link = l
           /\ [d EXCEPT !.link = l].name = d.name
           /\ [d EXCEPT !.link = l].kbd = d.kbd
  BY ZenonT(60) DEF Handle

LEMMA FreeFacts == Free \in Handle /\ Free.link = "none"
  BY DEF Free, Handle

(* Only the owners and the enforcement change a handle. *)
LEMMA HandleStep ==
    ASSUME KbType, KbdNext
    PROVE  \/ UNCHANGED h
           \/ \E p \in Ptr : Attach(p) \/ Release(p) \/ Hook(p)
           \/ \E e \in left : /\ kg_detach_handle(e) /\ e.ptr \in Ptr /\ h[e.ptr].link = "on"
                              /\ ~kg_handler_authorised(e.name) /\ Unlink(e.ptr)
           \/ SelfLink
<1> USE DEF machine, life, loop, tables
<1>1. CASE Machine
  BY ZenonT(60), <1>1 DEF Machine, kg_input_connect, kg_input_disconnect
<1>2. CASE Register \/ KickQueue \/ ExitStop \/ ExitCancel \/ ExitUnregister
  BY ZenonT(60), <1>2 DEF Register, KickQueue, ExitStop, ExitCancel, ExitUnregister
<1>3. CASE WorkBegin \/ JudgeEnd \/ EnforceEnd \/ ScanEnd
  BY ZenonT(60), <1>3 DEF WorkBegin, JudgeEnd, EnforceEnd, ScanEnd
<1>4. CASE \E k \in Kbd : Gather(k)
  BY ZenonT(60), <1>4 DEF Gather
<1>5. ASSUME NEW e \in left, Judge(e) PROVE UNCHANGED h
  BY ZenonT(60), <1>5 DEF Judge
<1>6. ASSUME NEW e \in left, kg_detach_handle(e)
      PROVE  \/ UNCHANGED h
             \/ /\ e.ptr \in Ptr /\ h[e.ptr].link = "on"
                /\ ~kg_handler_authorised(e.name) /\ Unlink(e.ptr)
  BY ZenonT(60), <1>6 DEF kg_detach_handle, Unlink
<1>7. QED
  BY ZenonT(60), <1>1, <1>2, <1>3, <1>4, <1>5, <1>6 DEF KbdNext, Scan

LEMMA KbTypeStep ==
    ASSUME KbType, KbGathered, KbdNext
    PROVE  KbType'
<1> USE DEF machine, life, loop, tables
<1>1. h' \in [Ptr -> Handle]
  <2>1. ASSUME NEW p \in Ptr, Attach(p) \/ Release(p) \/ Hook(p)
        PROVE  h' \in [Ptr -> Handle]
    <3>1. CASE Attach(p)
      <4>1. PICK k \in Kbd, n \in Name :
              h' = [h EXCEPT ![p] = [kbd |-> k, name |-> n, hook |-> FALSE, link |-> "on"]]
        BY ZenonT(60), <3>1 DEF Attach
      <4>2. [kbd |-> k, name |-> n, hook |-> FALSE, link |-> "on"] \in Handle
        BY DEF Handle
      <4>3. QED
        BY <4>1, <4>2 DEF KbType
    <3>2. CASE Release(p)
      BY <3>2, FreeFacts DEF Release, KbType
    <3>3. CASE Hook(p)
      <4>1. h' = [h EXCEPT ![p] = [h[p] EXCEPT !.hook = TRUE]] /\ h[p] \in Handle
        BY <3>3 DEF Hook, KbType
      <4>2. [h[p] EXCEPT !.hook = TRUE] \in Handle
        BY ZenonT(60), <4>1, HandleFacts
      <4>3. QED
        BY <4>1, <4>2 DEF KbType
    <3>4. QED
      BY <2>1, <3>1, <3>2, <3>3
  <2>2. ASSUME NEW p \in Ptr, NEW l \in {"poison", "self"}, h' = [h EXCEPT ![p].link = l]
        PROVE  h' \in [Ptr -> Handle]
    <3>1. h' = [h EXCEPT ![p] = [h[p] EXCEPT !.link = l]] /\ h[p] \in Handle
      BY <2>2 DEF KbType
    <3>2. [h[p] EXCEPT !.link = l] \in Handle
      BY ZenonT(60), <3>1, HandleFacts
    <3>3. QED
      BY <3>1, <3>2 DEF KbType
  <2>3. CASE UNCHANGED h
    BY <2>3 DEF KbType
  <2>4. CASE SelfLink
    BY ZenonT(60), <2>2, <2>4 DEF SelfLink, KbGathered
  <2>5. CASE \E e \in left : e.ptr \in Ptr /\ h[e.ptr].link = "on" /\ Unlink(e.ptr)
    BY <2>2, <2>5 DEF Unlink
  <2>6. QED
    BY ZenonT(60), HandleStep, <2>1, <2>3, <2>4, <2>5
<1>2. enforcing' \in BOOLEAN
  BY ZenonT(60) DEF KbType, KbdNext, Machine, Scan, Attach, Release, Hook, kg_input_connect,
     kg_input_disconnect, Register, WorkBegin, Gather, Judge, JudgeEnd, kg_detach_handle,
     SelfLink, EnforceEnd, ScanEnd, KickQueue, ExitStop, ExitCancel, ExitUnregister
<1>3. /\ phase' \in {"register", "base", "up", "cancel", "unreg", "gone", "off"}
      /\ stop' \in BOOLEAN
  BY ZenonT(60) DEF KbType, KbdNext, Machine, Scan, Attach, Release, Hook, kg_input_connect,
     kg_input_disconnect, Register, WorkBegin, Gather, Judge, JudgeEnd, kg_detach_handle,
     SelfLink, EnforceEnd, ScanEnd, KickQueue, ExitStop, ExitCancel, ExitUnregister
<1>4. pending' \in BOOLEAN
  BY ZenonT(60) DEF KbType, KbdNext, Machine, Scan, Attach, Release, Hook, kg_input_connect,
     kg_input_kick, kg_input_disconnect, Register, WorkBegin, Gather, Judge, JudgeEnd,
     kg_detach_handle, SelfLink, EnforceEnd, ScanEnd, KickQueue, ExitStop, ExitCancel,
     ExitUnregister
<1>5. kicker' \in BOOLEAN /\ late' \in BOOLEAN
  BY ZenonT(60) DEF KbType, KbdNext, Machine, Scan, Attach, Release, Hook, kg_input_connect,
     kg_input_disconnect, Register, WorkBegin, Gather, Judge, JudgeEnd, kg_detach_handle,
     SelfLink, EnforceEnd, ScanEnd, KickQueue, ExitStop, ExitCancel, ExitUnregister
<1>6. pc' \in {"idle", "scan", "judge", "enforce", "grace"}
  BY ZenonT(60) DEF KbType, KbdNext, Machine, Scan, Attach, Release, Hook, kg_input_connect,
     kg_input_disconnect, Register, WorkBegin, Gather, Judge, JudgeEnd, kg_detach_handle,
     Unlink, SelfLink, EnforceEnd, ScanEnd, KickQueue, ExitStop, ExitCancel, ExitUnregister
<1>7. tracked' \subseteq Kbd
  BY ZenonT(60) DEF KbType, KbdNext, Machine, Scan, Attach, Release, Hook, kg_input_connect,
     kg_input_disconnect, Register, WorkBegin, Gather, Judge, JudgeEnd, kg_detach_handle,
     SelfLink, EnforceEnd, ScanEnd, KickQueue, ExitStop, ExitCancel, ExitUnregister
<1>8. crowded' \in BOOLEAN
  BY ZenonT(60) DEF KbType, KbdNext, Machine, Scan, Attach, Release, Hook, kg_input_connect,
     kg_input_disconnect, Register, WorkBegin, Gather, Judge, JudgeEnd, kg_detach_handle,
     SelfLink, EnforceEnd, ScanEnd, KickQueue, ExitStop, ExitCancel, ExitUnregister
<1>9. quiet' \in 0 .. 2
  <2>1. UNCHANGED quiet \/ quiet' = 0 \/ quiet' = IF quiet < 2 THEN quiet + 1 ELSE 2
    BY ZenonT(60) DEF KbdNext, Machine, Scan, Attach, Release, Hook, kg_input_connect, Change,
       kg_input_disconnect, Register, WorkBegin, Gather, Judge, JudgeEnd, kg_detach_handle,
       SelfLink, EnforceEnd, ScanEnd, KickQueue, ExitStop, ExitCancel, ExitUnregister
  <2>2. QED
    BY <2>1 DEF KbType
<1>10. QED
  BY <1>1, <1>2, <1>3, <1>4, <1>5, <1>6, <1>7, <1>8, <1>9 DEF KbType

LEMMA KbLifeStep ==
    ASSUME KbType, KbLife, KbdNext
    PROVE  KbLife'
<1> USE DEF machine, life, loop, tables
<1>1. ASSUME NEW p \in Ptr, Attach(p) \/ Release(p) \/ Hook(p) PROVE KbLife'
  <2>1. UNCHANGED <<life, pc>> /\ quiet' = 0
    BY ZenonT(60), <1>1 DEF Attach, Release, Hook, Change
  <2>2. QED
    BY SMTT(30), <2>1 DEF KbType, KbLife
<1>2. ASSUME NEW k \in Kbd, kg_input_connect(k) \/ kg_input_disconnect(k) PROVE KbLife'
  BY SMTT(30), <1>2
     DEF KbType, KbLife, kg_input_connect, kg_input_disconnect, Change, kg_input_kick
<1>3. CASE Register
  BY SMTT(30), <1>3 DEF KbType, KbLife, Register
<1>4. CASE WorkBegin
  BY SMTT(30), <1>4 DEF KbType, KbLife, WorkBegin
<1>5. ASSUME NEW k \in Kbd, Gather(k) PROVE KbLife'
  <2>1. /\ UNCHANGED life /\ pc = "scan" /\ phase # "gone" /\ pc' \in {"scan", "judge"}
        /\ quiet' = quiet \/ quiet' = 0
    BY ZenonT(60), <1>5 DEF Gather
  <2>2. QED
    BY SMTT(30), <2>1 DEF KbType, KbLife
<1>6. ASSUME NEW e \in left, Judge(e) \/ kg_detach_handle(e) PROVE KbLife'
  <2>1. /\ UNCHANGED <<life, quiet>> /\ pc # "idle"
    BY SMTT(30), <1>6 DEF Judge, kg_detach_handle
  <2>2. QED
    BY SMTT(30), <2>1 DEF KbType, KbLife
<1>7. CASE JudgeEnd \/ SelfLink \/ EnforceEnd
  <2>1. /\ UNCHANGED <<life, quiet>> /\ pc # "idle"
    BY SMTT(30), <1>7 DEF JudgeEnd, SelfLink, EnforceEnd
  <2>2. QED
    BY SMTT(30), <2>1 DEF KbType, KbLife
<1>8. CASE ScanEnd
  <2>1. /\ pc = "scan" /\ pc' = "idle" /\ phase # "gone" /\ UNCHANGED <<kicker, late>>
        /\ phase' = IF phase = "base" THEN "up" ELSE phase
    BY ZenonT(60), <1>8 DEF ScanEnd, Baselining
  <2>2. QED
    BY SMTT(30), <2>1 DEF KbType, KbLife
<1>9. CASE KickQueue \/ ExitStop
  BY SMTT(30), <1>9 DEF KbType, KbLife, KickQueue, ExitStop
<1>10. CASE ExitCancel \/ ExitUnregister
  BY SMTT(30), <1>10 DEF KbType, KbLife, ExitCancel, ExitUnregister
<1>11. QED
  BY ZenonT(60), <1>1, <1>2, <1>3, <1>4, <1>5, <1>6, <1>7, <1>8, <1>9, <1>10
     DEF KbdNext, Machine, Scan

LEMMA KbInit == KbdInit => KbInv
<1> SUFFICES ASSUME KbdInit PROVE KbInv
  OBVIOUS
<1>1. h \in [Ptr -> Handle]
  <2>1. {Free} \cup [kbd : Kbd, name : Name, hook : {FALSE}, link : {"on"}] \subseteq Handle
    BY ZenonT(60), FreeFacts DEF Handle
  <2>2. QED
    BY ZenonT(60), <2>1 DEF KbdInit
<1>2. KbType
  <2>1. quiet \in 0 .. 2
    BY DEF KbdInit
  <2>2. QED
    BY ZenonT(60), <1>1, <2>1 DEF KbdInit, KbType
<1>3. KbLife /\ KbGathered /\ KbFilters
  BY DEF KbdInit, KbLife, KbGathered, KbFilters
<1>4. QED
  BY <1>2, <1>3 DEF KbInv

-----------------------------------------------------------------------------
(* What was gathered. *)

(* The entries a scan holds change only when it gathers or is done with a  *)
(* keyboard.                                                               *)
LEMMA SnapStep ==
    ASSUME KbType, KbLife, KbGathered, KbdNext
    PROVE  \/ hi' = hi /\ left' \subseteq hi
                /\ (pc' \in {"idle", "scan"} => hi = {})
           \/ hi' = {} /\ left' = {}
           \/ \E k \in Kbd : Gather(k) /\ left' = hi' /\ pc' = "judge"
<1> USE DEF machine, life, loop, tables
<1>1. CASE Machine \/ KickQueue \/ ExitStop \/ ExitCancel \/ ExitUnregister
  BY ZenonT(60), <1>1
     DEF KbGathered, Machine, Attach, Release, Hook, kg_input_connect, kg_input_disconnect,
         KickQueue, ExitStop, ExitCancel, ExitUnregister
<1>2. CASE Register \/ WorkBegin \/ ScanEnd
  <2>1. pc \in {"idle", "scan"} \/ UNCHANGED <<pc, hi, left>>
    BY ZenonT(60), <1>2 DEF Register, WorkBegin, ScanEnd, KbLife
  <2>2. UNCHANGED <<hi, left>>
    BY ZenonT(60), <1>2 DEF Register, WorkBegin, ScanEnd
  <2>3. QED
    BY ZenonT(60), <2>1, <2>2 DEF KbGathered
<1>3. ASSUME NEW k \in Kbd, Gather(k)
      PROVE  \/ left' = hi' /\ pc' = "judge"
             \/ UNCHANGED <<hi, left, pc>>
  BY ZenonT(60), <1>3 DEF Gather
<1>4. CASE \E k \in Kbd : Gather(k)
  BY ZenonT(60), <1>3, <1>4 DEF KbGathered
<1>5. ASSUME NEW e \in left, Judge(e) \/ kg_detach_handle(e)
      PROVE  hi' = hi /\ left' \subseteq left /\ pc' \notin {"idle", "scan"}
  BY ZenonT(60), <1>5 DEF Judge, kg_detach_handle, Unlink
<1>6. CASE \E e \in left : Judge(e) \/ kg_detach_handle(e)
  BY ZenonT(60), <1>5, <1>6 DEF KbGathered
<1>7. CASE JudgeEnd \/ EnforceEnd
  <2>1. \/ hi' = hi /\ left' = hi /\ pc' = "enforce"
        \/ hi' = {} /\ left' = {}
    BY ZenonT(60), <1>7 DEF JudgeEnd, EnforceEnd
  <2>2. QED
    BY ZenonT(60), <2>1
<1>8. CASE SelfLink
  BY ZenonT(60), <1>8 DEF SelfLink, KbGathered
<1>9. QED
  BY ZenonT(60), <1>1, <1>2, <1>4, <1>6, <1>7, <1>8 DEF KbdNext, Scan

(* Handles of gathered addresses keep their handler, are freed or count as   *)
(* used again.                                                               *)
LEMMA KeepsHandler ==
    ASSUME KbType, KbGathered, KbdNext, NEW e \in hi, hi' = hi
    PROVE  e.ptr \in recycled' \/ h'[e.ptr] = Free \/ h'[e.ptr].name = e.name
<1> USE DEF machine, life, loop, tables
<1>1. /\ e.ptr \in Ptr /\ h[e.ptr] \in Handle
      /\ e.ptr \in recycled \/ h[e.ptr] = Free \/ h[e.ptr].name = e.name
  BY DEF KbGathered, KbType
<1>2. recycled \subseteq recycled'
  <2>1. UNCHANGED recycled \/ (\E p \in Ptr : Attach(p)) \/ (\E k \in Kbd : Gather(k)) \/ ScanEnd
    BY ZenonT(60)
       DEF KbdNext, Machine, Scan, Release, Hook, kg_input_connect, kg_input_disconnect,
           Register, WorkBegin, Judge, JudgeEnd, kg_detach_handle, SelfLink, EnforceEnd,
           KickQueue, ExitStop, ExitCancel, ExitUnregister
  <2>2. CASE (\E k \in Kbd : Gather(k)) \/ ScanEnd
    BY ZenonT(60), <2>2 DEF KbGathered, Gather, ScanEnd
  <2>3. CASE \E p \in Ptr : Attach(p)
    BY ZenonT(60), <2>3 DEF Attach
  <2>4. QED
    BY ZenonT(60), <2>1, <2>2, <2>3
<1>3. ASSUME NEW p \in Ptr, Attach(p) PROVE e.ptr \in recycled' \/ h'[e.ptr] = h[e.ptr]
  <2>1. CASE p = e.ptr
    BY ZenonT(60), <1>3, <2>1 DEF Attach, Gathered
  <2>2. CASE p # e.ptr
    BY <1>1, <1>3, <2>2 DEF Attach, KbType
  <2>3. QED
    BY <2>1, <2>2
<1>4. ASSUME NEW p \in Ptr, Release(p) PROVE h'[e.ptr] = Free \/ h'[e.ptr] = h[e.ptr]
  BY <1>1, <1>4 DEF Release, KbType
<1>5. ASSUME NEW p \in Ptr, Hook(p)
      PROVE  h'[e.ptr] = h[e.ptr] \/ (h[e.ptr] # Free /\ h'[e.ptr].name = h[e.ptr].name)
  BY <1>1, <1>5 DEF Hook, KbType, Handle
<1>6. ASSUME NEW p \in Ptr, NEW l \in {"poison", "self"}, h' = [h EXCEPT ![p].link = l],
             h[p].link # "none"
      PROVE  h'[e.ptr] = h[e.ptr] \/ (h[e.ptr] # Free /\ h'[e.ptr].name = h[e.ptr].name)
  <2>1. h[p] # Free
    BY <1>6, FreeFacts
  <2>2. QED
    BY <1>1, <1>6, <2>1 DEF KbType, Handle
<1>7. CASE SelfLink
  <2>1. victim \in Ptr /\ h[victim].link # "none" /\ h' = [h EXCEPT ![victim].link = "self"]
    BY <1>7 DEF SelfLink, KbGathered
  <2>2. QED
    BY ZenonT(60), <1>1, <1>2, <1>6, <2>1
<1>8. ASSUME NEW d \in left, d.ptr \in Ptr, h[d.ptr].link = "on", Unlink(d.ptr)
      PROVE  h'[e.ptr] = h[e.ptr] \/ (h[e.ptr] # Free /\ h'[e.ptr].name = h[e.ptr].name)
  <2>1. h[d.ptr].link # "none" /\ h' = [h EXCEPT ![d.ptr].link = "poison"]
    BY <1>8 DEF Unlink
  <2>2. QED
    BY ZenonT(60), <1>6, <1>8, <2>1
<1>9. CASE UNCHANGED h
  BY ZenonT(60), <1>1, <1>2, <1>9
<1>10. QED
  BY ZenonT(60), HandleStep, <1>1, <1>2, <1>3, <1>4, <1>5, <1>7, <1>8, <1>9

LEMMA KbGatheredStep ==
    ASSUME KbType, KbLife, KbGathered, KbdNext
    PROVE  KbGathered'
<1> USE DEF machine, life, loop, tables
<1>1. (pc' \in {"idle", "scan"} => hi' = {}) /\ left' \subseteq hi'
  BY ZenonT(60), SnapStep
<1>2. ASSUME pc' = "grace" PROVE victim' \in Ptr /\ h'[victim'].link = "poison"
  <2>1. CASE \E e \in left : kg_detach_handle(e) /\ e.ptr \in Ptr /\ h[e.ptr].link = "on"
                               /\ Unlink(e.ptr)
    <3>1. PICK e \in left : /\ e.ptr \in Ptr /\ h' = [h EXCEPT ![e.ptr].link = "poison"]
                            /\ victim' = e.ptr
      BY ZenonT(60), <2>1 DEF Unlink
    <3>2. QED
      BY <3>1 DEF KbType, Handle
  <2>2. ASSUME pc = "grace", UNCHANGED victim, UNCHANGED h \/ \E p \in Ptr : Hook(p)
        PROVE  victim' \in Ptr /\ h'[victim'].link = "poison"
    <3>1. victim \in Ptr /\ h[victim].link = "poison" /\ h[victim] \in Handle
      BY <2>2 DEF KbGathered, KbType
    <3>2. CASE UNCHANGED h
      BY <2>2, <3>1, <3>2
    <3>3. ASSUME NEW p \in Ptr, Hook(p) PROVE h'[victim].link = "poison"
      BY <3>1, <3>3 DEF Hook, KbType, Handle
    <3>4. QED
      BY <2>2, <3>1, <3>2, <3>3
  <2>3. ASSUME NEW p \in Ptr, Attach(p) \/ Release(p)
        PROVE  victim' \in Ptr /\ h'[victim'].link = "poison"
    <3>1. pc = "grace" /\ UNCHANGED victim
      BY ZenonT(60), <1>2, <2>3 DEF Attach, Release
    <3>2. victim \in Ptr /\ h[victim].link = "poison"
      BY <3>1 DEF KbGathered
    <3>3. p # victim
      BY ZenonT(60), <2>3, <3>2, FreeFacts DEF Attach, Release
    <3>4. h'[victim] = h[victim]
      BY <2>3, <3>2, <3>3 DEF Attach, Release, KbType
    <3>5. QED
      BY <3>1, <3>2, <3>4
  <2>4. (pc = "grace" /\ UNCHANGED victim) \/ \E e \in left : kg_detach_handle(e)
    BY ZenonT(60), <1>2
       DEF KbdNext, Machine, Scan, Attach, Release, Hook, kg_input_connect,
           kg_input_disconnect, Register, WorkBegin, Gather, Judge, JudgeEnd,
           SelfLink, EnforceEnd, ScanEnd, KickQueue, ExitStop, ExitCancel, ExitUnregister
  <2>5. ASSUME NEW e \in left, kg_detach_handle(e)
        PROVE  e.ptr \in Ptr /\ h[e.ptr].link = "on" /\ Unlink(e.ptr)
    BY ZenonT(60), <1>2, <2>5 DEF kg_detach_handle, Unlink
  <2>6. ~SelfLink
    BY ZenonT(60), <1>2 DEF SelfLink
  <2>7. QED
    BY ZenonT(60), HandleStep, <2>1, <2>2, <2>3, <2>4, <2>5, <2>6
<1>3. ASSUME NEW e \in hi'
      PROVE  /\ e.ptr \in Ptr
             /\ e.ptr \in recycled' \/ h'[e.ptr] = Free \/ h'[e.ptr].name = e.name
  <2>1. CASE hi' = hi
    BY ZenonT(60), <1>3, <2>1, KeepsHandler DEF KbGathered
  <2>2. ASSUME NEW k \in Kbd, Gather(k), pc' = "judge"
        PROVE  e.ptr \in Ptr /\ h'[e.ptr].name = e.name
    <3>1. UNCHANGED h
      BY ZenonT(60), <2>2 DEF Gather
    <3>2. PICK P \in SUBSET OnList(k) :
            hi' = {[ptr |-> p, name |-> h[p].name, hook |-> h[p].hook] : p \in P}
      BY ZenonT(60), <2>2 DEF Gather
    <3>3. PICK p \in P : e = [ptr |-> p, name |-> h[p].name, hook |-> h[p].hook]
      BY <1>3, <3>2
    <3>4. QED
      BY <3>1, <3>2, <3>3 DEF OnList
  <2>3. QED
    BY ZenonT(60), <1>3, SnapStep, <2>1, <2>2
<1>4. QED
  BY ZenonT(60), <1>1, <1>2, <1>3 DEF KbGathered

-----------------------------------------------------------------------------
(* Unauthorised handles. *)

LEMMA KbFiltersStep ==
    ASSUME KbType, KbLife, KbGathered, KbFilters, KbdNext
    PROVE  KbFilters'
<1> USE DEF machine, life, loop, tables
<1> SUFFICES ASSUME phase' = "up", NEW p \in Listed', ~kg_handler_authorised(h[p].name)'
             PROVE  /\ quiet' >= 1 /\ pc' # "idle" /\ h'[p].kbd \notin todo' =>
                           Dealt(p)' \/ InHand(p)'
                    /\ quiet' = 2 => Dealt(p)'
  BY ZenonT(60) DEF KbFilters
<1> DEFINE Claim == /\ quiet >= 1 /\ pc # "idle" /\ h[p].kbd \notin todo => Dealt(p) \/ InHand(p)
                    /\ quiet = 2 => Dealt(p)
<1>1. /\ p \in Ptr /\ h'[p].kbd \in tracked' /\ h'[p].link = "on"
      /\ h'[p].name \notin Stock \cup baseNames'
  BY ZenonT(60) DEF Listed, OnList, kg_handler_authorised
<1>2. ASSUME phase = "up", h'[p] = h[p], UNCHANGED <<tracked, baseNames>>
      PROVE  Claim /\ p \in Listed /\ ~kg_handler_authorised(h[p].name)
  <2>1. p \in OnList(h[p].kbd) /\ h[p].kbd \in tracked
    BY ZenonT(60), <1>1, <1>2 DEF OnList
  <2>2. p \in Listed
    BY ZenonT(60), <2>1 DEF Listed
  <2>3. ~kg_handler_authorised(h[p].name)
    BY ZenonT(60), <1>1, <1>2 DEF kg_handler_authorised
  <2>4. QED
    BY ZenonT(60), <1>2, <2>2, <2>3 DEF KbFilters
<1>3. CASE Machine
  <2>1. quiet' = 0
    BY ZenonT(60), <1>3
       DEF Machine, Attach, Release, Hook, kg_input_connect, kg_input_disconnect, Change
  <2>2. QED
    BY <2>1
<1>4. CASE Register \/ ExitStop \/ ExitCancel \/ ExitUnregister
  BY ZenonT(60), <1>4 DEF Register, ExitStop, ExitCancel, ExitUnregister
<1>5. CASE KickQueue
  <2>1. /\ phase = "up" /\ UNCHANGED <<h, tracked, baseNames, quiet, pc, todo, crowded,
                                       enforcing>>
        /\ UNCHANGED <<kbdReported, hi, left>>
    BY ZenonT(60), <1>5 DEF KickQueue
  <2>2. QED
    BY ZenonT(60), <1>2, <2>1 DEF Dealt, InHand
<1>6. CASE WorkBegin
  <2>1. /\ phase = "up" /\ UNCHANGED <<h, tracked, baseNames, quiet, crowded, enforcing,
                                       kbdReported>>
        /\ todo' = tracked
    BY ZenonT(60), <1>6 DEF WorkBegin
  <2>2. QED
    BY ZenonT(60), <1>1, <1>2, <2>1 DEF Dealt
<1>7. ASSUME NEW k \in Kbd, Gather(k)
      PROVE  /\ quiet' >= 1 /\ pc' # "idle" /\ h'[p].kbd \notin todo' => Dealt(p)' \/ InHand(p)'
             /\ quiet' = 2 => Dealt(p)'
  <2>1. CASE quiet' = 0
    BY <2>1
  <2>2. CASE quiet' # 0
    <3>1. PICK P \in SUBSET OnList(k) :
            /\ hi' = {[ptr |-> q, name |-> h[q].name, hook |-> h[q].hook] : q \in P}
            /\ crowded' = (crowded \/ P # OnList(k))
      BY ZenonT(60), <1>7, <2>2 DEF Gather
    <3>2. /\ phase = "up" /\ UNCHANGED <<h, tracked, baseNames, quiet, enforcing, kbdReported>>
          /\ pc = "scan" /\ left' = hi' /\ todo' = todo \ {k} /\ hi = {}
      BY ZenonT(60), <1>7, <2>2 DEF Gather, KbGathered
    <3>3. Dealt(p) => Dealt(p)'
      BY ZenonT(60), <3>1, <3>2 DEF Dealt
    <3>4. ~InHand(p)
      BY ZenonT(60), <3>2 DEF InHand
    <3>5. ASSUME h[p].kbd = k PROVE Dealt(p)' \/ InHand(p)'
      <4>1. CASE p \in P
        <5> DEFINE e == [ptr |-> p, name |-> h[p].name, hook |-> h[p].hook]
        <5>1. e \in hi'
          BY <3>1, <4>1
        <5>2. e.ptr = p /\ e.name = h'[p].name
          BY <3>2
        <5> HIDE DEF e
        <5>3. QED
          BY ZenonT(60), <3>2, <5>1, <5>2 DEF InHand
      <4>2. CASE p \notin P
        <5>1. p \in OnList(k)
          BY <1>1, <3>2, <3>5 DEF OnList
        <5>2. crowded'
          BY ZenonT(60), <3>1, <4>2, <5>1
        <5>3. QED
          BY <5>2 DEF Dealt
      <4>3. QED
        BY <4>1, <4>2
    <3>6. Claim
      BY <1>2, <3>2
    <3>7. QED
      BY ZenonT(60), <3>2, <3>3, <3>4, <3>5, <3>6
  <2>3. QED
    BY <2>1, <2>2
<1>8. ASSUME NEW e \in left, Judge(e)
      PROVE  /\ quiet' >= 1 /\ pc' # "idle" /\ h'[p].kbd \notin todo' => Dealt(p)' \/ InHand(p)'
             /\ quiet' = 2 => Dealt(p)'
  <2>1. /\ phase = "up" /\ UNCHANGED <<h, tracked, quiet, enforcing, todo, hi, pc>>
        /\ pc = "judge" /\ left' = left \ {e}
        /\ kbdReported' = kg_mark_reported(Verdicts(e))
        /\ crowded' = (crowded \/ ~(Verdicts(e) \subseteq kbdReported')
                         \/ (Baselining /\ e.name \notin baseNames'))
    BY ZenonT(60), <1>8 DEF Judge
  <2>2. ~Baselining /\ UNCHANGED baseNames
    BY ZenonT(60), <1>8, <2>1 DEF Judge, Baselining
  <2>3. kbdReported \subseteq kbdReported'
    BY ZenonT(60), <2>1 DEF kg_mark_reported
  <2>4. Dealt(p) => Dealt(p)'
    BY ZenonT(60), <2>1, <2>3 DEF Dealt
  <2>5. ASSUME InHand(p) PROVE Dealt(p)' \/ InHand(p)'
    <3>1. PICK d \in hi : /\ d.ptr = p /\ d.name = h[p].name
                          /\ d \in left \/ <<p, "filter">> \in kbdReported
      BY ZenonT(60), <2>5 DEF InHand
    <3>2. CASE d # e \/ <<p, "filter">> \in kbdReported
      <4>1. d \in left' \/ <<p, "filter">> \in kbdReported'
        BY ZenonT(60), <2>1, <2>3, <3>1, <3>2
      <4>2. QED
        BY ZenonT(60), <2>1, <3>1, <4>1 DEF InHand
    <3>3. CASE d = e
      <4>1. ~kg_handler_authorised(e.name)
        BY ZenonT(60), <2>1, <2>2, <1>2, <3>1, <3>3
      <4>2. <<p, "filter">> \in Verdicts(e)
        BY ZenonT(60), <2>2, <3>1, <3>3, <4>1 DEF Verdicts
      <4>3. crowded' \/ <<p, "filter">> \in kbdReported'
        BY ZenonT(60), <2>1, <4>2
      <4>4. QED
        BY ZenonT(60), <2>1, <3>1, <4>3 DEF Dealt, InHand
    <3>4. QED
      BY <3>2, <3>3
  <2>6. Claim
    BY <1>2, <2>1, <2>2
  <2>7. QED
    BY ZenonT(60), <2>1, <2>4, <2>5, <2>6
<1>9. CASE JudgeEnd
  <2>1. /\ phase = "up" /\ UNCHANGED <<h, tracked, baseNames, quiet, enforcing, todo,
                                       kbdReported, crowded>>
        /\ pc = "judge" /\ left = {}
    BY ZenonT(60), <1>9 DEF JudgeEnd
  <2>2. IF enforcing THEN left' = hi /\ UNCHANGED hi ELSE pc' = "scan"
    BY ZenonT(60), <1>9, <2>1 DEF JudgeEnd, Baselining
  <2>3. Dealt(p) => Dealt(p)'
    BY ZenonT(60), <2>1 DEF Dealt
  <2>4. InHand(p) => Dealt(p)' \/ InHand(p)'
    BY ZenonT(60), <2>1, <2>2 DEF InHand, Dealt
  <2>5. Claim
    BY <1>2, <2>1
  <2>6. QED
    BY ZenonT(60), <2>1, <2>3, <2>4, <2>5
<1>10. ASSUME NEW e \in left, kg_detach_handle(e)
       PROVE  /\ quiet' >= 1 /\ pc' # "idle" /\ h'[p].kbd \notin todo' => Dealt(p)' \/ InHand(p)'
              /\ quiet' = 2 => Dealt(p)'
  <2>1. /\ phase = "up" /\ UNCHANGED <<tracked, baseNames, quiet, enforcing, todo,
                                       kbdReported, crowded>>
        /\ UNCHANGED hi /\ pc = "enforce" /\ left' = left \ {e}
    BY ZenonT(60), <1>10 DEF kg_detach_handle
  <2>2. \/ UNCHANGED h
           /\ (kg_handler_authorised(e.name) \/ e.ptr \notin Ptr \/ h[e.ptr].link # "on")
        \/ e.ptr \in Ptr /\ h' = [h EXCEPT ![e.ptr].link = "poison"]
    BY ZenonT(60), <1>10 DEF kg_detach_handle, Unlink
  <2>3. h'[p] = h[p] /\ (e.ptr = p => kg_handler_authorised(e.name))
    <3>1. CASE UNCHANGED h /\ (kg_handler_authorised(e.name) \/ e.ptr \notin Ptr
                                 \/ h[e.ptr].link # "on")
      BY <1>1, <3>1
    <3>2. CASE e.ptr \in Ptr /\ h' = [h EXCEPT ![e.ptr].link = "poison"]
      <4>1. h[e.ptr] \in Handle /\ h'[e.ptr] = [h[e.ptr] EXCEPT !.link = "poison"]
        BY <3>2 DEF KbType
      <4>2. h'[e.ptr].link = "poison"
        BY <4>1, HandleFacts
      <4>3. e.ptr # p
        BY <1>1, <4>2
      <4>4. QED
        BY <1>1, <3>2, <4>3 DEF KbType
    <3>3. QED
      BY <2>2, <3>1, <3>2
  <2>4. ~kg_handler_authorised(h[p].name)
    BY <1>2, <2>1, <2>3
  <2>5. Claim
    BY <1>2, <2>1, <2>3
  <2>6. Dealt(p) => Dealt(p)'
    BY ZenonT(60), <2>1 DEF Dealt
  <2>7. InHand(p) => InHand(p)'
    BY ZenonT(60), <2>1, <2>3, <2>4 DEF InHand
  <2>8. QED
    BY ZenonT(60), <2>1, <2>3, <2>5, <2>6, <2>7
<1>11. CASE SelfLink
  <2>1. /\ phase = "up" /\ UNCHANGED <<tracked, baseNames, quiet, enforcing, todo,
                                       kbdReported, crowded>>
        /\ UNCHANGED <<hi, left>> /\ pc = "grace"
        /\ victim \in Ptr /\ h' = [h EXCEPT ![victim].link = "self"]
    BY ZenonT(60), <1>11 DEF SelfLink, KbGathered
  <2>2. h'[victim].link = "self"
    BY <2>1 DEF KbType, Handle
  <2>3. h'[p] = h[p]
    BY <1>1, <2>1, <2>2 DEF KbType
  <2>4. Claim
    BY <1>2, <2>1, <2>3
  <2>5. (Dealt(p) => Dealt(p)') /\ (InHand(p) => InHand(p)')
    BY ZenonT(60), <2>1, <2>3 DEF Dealt, InHand
  <2>6. quiet' = quiet /\ pc # "idle" /\ h'[p].kbd = h[p].kbd /\ todo' = todo
    BY <2>1, <2>3
  <2>7. QED
    BY <2>4, <2>5, <2>6
<1>12. CASE EnforceEnd
  <2>1. /\ phase = "up" /\ UNCHANGED <<h, tracked, baseNames, quiet, enforcing, todo,
                                       kbdReported, crowded>>
        /\ pc = "enforce" /\ left = {}
    BY ZenonT(60), <1>12 DEF EnforceEnd
  <2>2. (Dealt(p) => Dealt(p)') /\ ~InHand(p)
    BY ZenonT(60), <2>1 DEF Dealt, InHand
  <2>3. Claim
    BY <1>2, <2>1
  <2>4. QED
    BY ZenonT(60), <2>1, <2>2, <2>3
<1>13. CASE ScanEnd
  <2>1. /\ UNCHANGED <<h, tracked, baseNames, enforcing, crowded>>
        /\ pc = "scan" /\ pc' = "idle" /\ todo = {} /\ hi = {}
        /\ kbdReported' = {r \in kbdReported : r[1] \in Listed}
        /\ quiet' = IF quiet < 2 THEN quiet + 1 ELSE 2
        /\ phase = "base" \/ phase = "up"
    BY ZenonT(60), <1>13 DEF ScanEnd, kg_prune_reported, KbGathered, Baselining
  <2>2. CASE phase = "base"
    BY <2>1, <2>2 DEF KbLife
  <2>3. CASE phase = "up"
    <3>1. Claim /\ p \in Listed
      BY <1>2, <2>1, <2>3
    <3>2. ~InHand(p)
      BY ZenonT(60), <2>1 DEF InHand
    <3>3. Dealt(p) => Dealt(p)'
      <4>1. <<p, "filter">> \in kbdReported => <<p, "filter">> \in kbdReported'
        BY <2>1, <3>1
      <4>2. QED
        BY ZenonT(60), <2>1, <4>1 DEF Dealt
    <3>4. quiet' = 2 => quiet >= 1
      BY <2>1 DEF KbType
    <3>5. QED
      BY ZenonT(60), <2>1, <3>1, <3>2, <3>3, <3>4
  <2>4. QED
    BY <2>1, <2>2, <2>3
<1>14. QED
  BY ZenonT(60), <1>3, <1>4, <1>5, <1>6, <1>7, <1>8, <1>9, <1>10, <1>11, <1>12, <1>13
     DEF KbdNext, Scan

-----------------------------------------------------------------------------
(* What follows. *)

(* The scan unlinks what it gathered: the handle is the one it judged, unless *)
(* the address was used again.                                                *)
LEMMA KbDetachStep ==
    ASSUME KbType, KbGathered, KbdNext
    PROVE  DetachesUnauthorised
<1> SUFFICES ASSUME NEW p \in Ptr, h[p].link = "on", h'[p].link = "poison"
             PROVE  h[p].name \notin Stock \cup baseNames \/ p \in recycled
  BY ZenonT(60) DEF DetachesUnauthorised
<1>1. h[p] \in Handle /\ h[p] # Free
  BY FreeFacts DEF KbType
<1>2. ~UNCHANGED h
  OBVIOUS
<1>3. ASSUME NEW q \in Ptr, Attach(q) \/ Release(q) \/ Hook(q) PROVE FALSE
  <2>1. q = p
    BY <1>3 DEF Attach, Release, Hook, KbType
  <2>2. CASE Attach(q)
    BY ZenonT(60), <1>1, <2>1, <2>2 DEF Attach
  <2>3. CASE Release(q)
    BY <2>1, <2>3, FreeFacts DEF Release, KbType
  <2>4. CASE Hook(q)
    BY <1>1, <2>1, <2>4 DEF Hook, KbType, Handle
  <2>5. QED
    BY <1>3, <2>2, <2>3, <2>4
<1>4. ~SelfLink
  <2> SUFFICES ASSUME SelfLink PROVE FALSE
    OBVIOUS
  <2>1. victim \in Ptr /\ h' = [h EXCEPT ![victim].link = "self"]
    BY DEF SelfLink, KbGathered
  <2>2. QED
    BY <1>1, <2>1 DEF KbType, Handle
<1>5. PICK e \in left : /\ e.ptr \in Ptr /\ ~kg_handler_authorised(e.name)
                        /\ h[e.ptr].link = "on" /\ Unlink(e.ptr)
  BY ZenonT(60), <1>2, <1>3, <1>4, HandleStep
<1>6. e.ptr = p
  BY <1>5 DEF Unlink, KbType
<1>7. QED
  BY ZenonT(60), <1>1, <1>5, <1>6 DEF KbGathered, kg_handler_authorised

(* KbInv is inductive. *)
LEMMA KbStep ==
    KbInv /\ [KbdNext]_kbdVars => KbInv' /\ DetachesUnauthorised
<1>1. ASSUME KbInv, KbdNext PROVE KbInv' /\ DetachesUnauthorised
  BY ZenonT(60), <1>1, KbTypeStep, KbLifeStep, KbGatheredStep, KbFiltersStep, KbDetachStep
     DEF KbInv
<1>2. ASSUME KbInv, UNCHANGED kbdVars PROVE KbInv' /\ DetachesUnauthorised
  <2>1. UNCHANGED <<h, recycled, enforcing, tracked, phase, stop, pending, kicker, late,
                    pc, todo, hi, left, victim, baseNames, kbdReported, crowded, quiet>>
    BY <1>2 DEF kbdVars, machine, life, loop, tables
  <2>2. KbType' /\ KbLife' /\ KbGathered'
    <3>1. KbType'
      BY ZenonT(60), <1>2, <2>1 DEF KbInv, KbType
    <3>2. KbLife'
      BY ZenonT(60), <1>2, <2>1 DEF KbInv, KbLife
    <3>3. KbGathered'
      BY ZenonT(60), <1>2, <2>1 DEF KbInv, KbGathered
    <3>4. QED
      BY <3>1, <3>2, <3>3
  <2>3. Listed' = Listed
    <3>1. \A k : OnList(k)' = OnList(k)
      BY <2>1 DEF OnList
    <3>2. QED
      BY <2>1, <3>1 DEF Listed
  <2>4. KbFilters'
    BY ZenonT(60), <1>2, <2>1, <2>3 DEF KbInv, KbFilters, kg_handler_authorised, Dealt,
       InHand
  <2>5. DetachesUnauthorised
    BY <2>1 DEF DetachesUnauthorised
  <2>6. QED
    BY <2>2, <2>4, <2>5 DEF KbInv
<1>3. QED
  BY <1>1, <1>2

(* It says what the invariants say. *)
LEMMA KbImplies ==
    KbInv => FiltersDealtWith /\ NoScanAfterExit
<1>1. KbInv => FiltersDealtWith
  BY ZenonT(60) DEF KbInv, KbFilters, Dealt, FiltersDealtWith
<1>2. KbInv => NoScanAfterExit
  BY ZenonT(60) DEF KbInv, KbLife, NoScanAfterExit
<1>3. QED
  BY <1>1, <1>2

(* The keyboard audit: an unauthorised handle that outlasts a scan is       *)
(* reported, and with enforcement is off its list; after kg_input_exit() no *)
(* scan runs but for a kick under way.                                      *)
THEOREM KeyboardAudit == KbdSpec => [](FiltersDealtWith /\ NoScanAfterExit)
<1>1. KbdSpec => []KbInv
  BY KbInit, KbStep, PTL DEF KbdSpec
<1>2. QED
  BY <1>1, KbImplies, PTL

(* ... and no step of it takes an authorised handle off its list, unless    *)
(* the address was freed and used again since the scan gathered it.         *)
THEOREM KeyboardAuditSteps == KbdSpec => [][DetachesUnauthorised]_kbdVars
<1>1. KbdSpec => []KbInv
  BY KbInit, KbStep, PTL DEF KbdSpec
<1>2. QED
  BY <1>1, KbStep, PTL DEF KbdSpec

-----------------------------------------------------------------------------
(* The PCI audit, with the lemmas that KgHwProofs adds to it.  The variables *)
(* that it shares with the keyboard audit are used by the one taken.         *)

CONSTANTS NSLOT, Boot, Id, Bridge, DmaAllow, MAX_SUSPECT, HwEvents

VARIABLES which, hw, cold, os, ecam, at, cur, devBase, susp, touched, recs, lastPass, atLoad

Hw == INSTANCE KgHwProofs WITH MaxEvents <- HwEvents, base <- devBase

ASSUME HwAssumption == Hw!ConstantsOK

both == <<events, enforcing, phase, stop, pending, pc, kicker, late, quiet, crowded>>
hwOnly == <<hw, cold, os, ecam, at, cur, devBase, susp, touched, recs, lastPass, atLoad>>
kbdOnly == <<h, tracked, todo, hi, left, victim, baseNames, kbdReported, recycled>>
mcVars == <<which, vars, both, hwOnly, kbdOnly>>

NoBoth ==
    /\ events = 0 /\ enforcing = 0 /\ phase = 0 /\ stop = 0 /\ pending = 0 /\ pc = 0
    /\ kicker = 0 /\ late = 0 /\ quiet = 0 /\ crowded = 0
NoHw ==
    /\ hw = 0 /\ cold = 0 /\ os = 0 /\ ecam = 0 /\ at = 0 /\ cur = 0 /\ devBase = 0
    /\ susp = 0 /\ touched = 0 /\ recs = 0 /\ lastPass = 0 /\ atLoad = 0
NoKbd ==
    /\ h = 0 /\ tracked = 0 /\ todo = 0 /\ hi = 0 /\ left = 0 /\ victim = 0
    /\ baseNames = 0 /\ kbdReported = 0 /\ recycled = 0

MCInit ==
    /\ which \in {"mod", "hw", "kbd"}
    /\ which # "mod" => p_lock = FALSE /\ st = [m \in Mod |-> "none"]
    /\ Init
    /\ \/ which = "mod" /\ NoBoth /\ NoHw /\ NoKbd
       \/ which = "hw" /\ Hw!Init /\ NoKbd
       \/ which = "kbd" /\ KbdInit /\ NoHw

MCNext ==
    \/ which = "mod" /\ Next /\ UNCHANGED <<which, both, hwOnly, kbdOnly>>
    \/ which = "hw" /\ Hw!Next /\ UNCHANGED <<which, vars, kbdOnly>>
    \/ which = "kbd" /\ KbdNext /\ UNCHANGED <<which, vars, hwOnly>>

MCSpec == MCInit /\ [][MCNext]_mcVars

-----------------------------------------------------------------------------
(* The properties of the two audits, each for its own behaviours. *)

(* KgHw: a discrepancy that persists for two passes of kg_cross_check() is *)
(* reported, and one that a single pass met is not.                        *)
PersistentReported ==
    /\ [](which = "hw" => Hw!PersistentReported)
    /\ [][which = "hw" => Hw!TransientStep]_mcVars

(* KgHw, kg_dma_audit(), and KgInput, kg_scan_kbd(): an unauthorised bus     *)
(* master or keyboard handle is reported, and with enforcement is stopped,   *)
(* however often it comes back.                                              *)
UnauthorisedDealtWith ==
    which # "mod" => IF which = "hw" THEN Hw!MastersDealtWith ELSE FiltersDealtWith

(* KgHw, kg_disable_bme(), and KgInput, kg_detach_handle(): both act on what *)
(* an earlier step of the pass saw, and leave authorised ones alone; and     *)
(* what the OS knew at load is never announced as an unauthorised master.    *)
AuthorisedLeftAlone ==
    /\ [](which = "hw" => Hw!KnownAtLoadTrusted)
    /\ [][which # "mod" =>
             IF which = "hw" THEN Hw!CutsUnauthorised ELSE DetachesUnauthorised]_mcVars

(* kg_exit() and a kg_init() that failed leave nothing of the module gate and *)
(* the baselines running or registered; kg_hw_exit() and kg_input_exit() no   *)
(* pass, but for a kick that was already under way.                           *)
NothingAfterExit ==
    CASE which = "mod" -> ExitClean
      [] which = "hw"  -> Hw!NoPassAfterExit
      [] which = "kbd" -> NoScanAfterExit

-----------------------------------------------------------------------------
(* The three audits together. *)

(* The audit that is taken keeps its invariant. *)
AuditsInv ==
    /\ which \in {"mod", "hw", "kbd"}
    /\ ModInv
    /\ which = "hw" => Hw!HwInv
    /\ which = "kbd" => KbInv

(* What a step of the audit that is taken never does. *)
AuditsStep ==
    /\ which = "hw" => Hw!TransientStep /\ Hw!CutsUnauthorised
    /\ which = "kbd" => DetachesUnauthorised

LEMMA AuditsInit == MCInit => AuditsInv
  BY ZenonT(60), ModInit, Hw!HwInit, KbInit, HwAssumption DEF MCInit, AuditsInv

LEMMA AuditsNext == AuditsInv /\ [MCNext]_mcVars => AuditsInv' /\ AuditsStep
<1> SUFFICES ASSUME AuditsInv, [MCNext]_mcVars PROVE AuditsInv' /\ AuditsStep
  OBVIOUS
<1>1. UNCHANGED which
  BY DEF MCNext, mcVars
<1>2. [Next]_vars
  BY DEF MCNext, mcVars
<1>3. ModInv'
  BY <1>2, ModStep DEF AuditsInv
<1>4. ASSUME which = "hw" PROVE [Hw!Next]_(Hw!vars)
  <2>1. CASE MCNext
    BY ZenonT(60), <1>4, <2>1 DEF MCNext
  <2>2. CASE UNCHANGED mcVars
    BY <2>2 DEF mcVars, both, hwOnly, Hw!vars, Hw!machine, Hw!config, Hw!life, Hw!scan,
       Hw!tables, Hw!history
  <2>3. QED
    BY <2>1, <2>2
<1>5. which = "hw" => Hw!HwInv' /\ Hw!TransientStep /\ Hw!CutsUnauthorised
  BY ZenonT(60), <1>4, Hw!HwStep DEF AuditsInv
<1>6. ASSUME which = "kbd" PROVE [KbdNext]_kbdVars
  <2>1. CASE MCNext
    BY ZenonT(60), <1>6, <2>1 DEF MCNext
  <2>2. CASE UNCHANGED mcVars
    BY <2>2 DEF mcVars, both, kbdOnly, kbdVars, machine, life, loop, tables
  <2>3. QED
    BY <2>1, <2>2
<1>7. which = "kbd" => KbInv' /\ DetachesUnauthorised
  BY <1>6, KbStep DEF AuditsInv
<1>8. QED
  BY ZenonT(60), <1>1, <1>3, <1>5, <1>7 DEF AuditsInv, AuditsStep

LEMMA AuditsInvariant == MCSpec => []AuditsInv /\ [][AuditsStep]_mcVars
<1>1. MCSpec => []AuditsInv
  BY AuditsInit, AuditsNext, PTL DEF MCSpec
<1>2. QED
  BY <1>1, AuditsNext, PTL DEF MCSpec

-----------------------------------------------------------------------------
(* kg_note_suspect(): a discrepancy between hardware and OS that two passes *)
(* in a row met is reported, one that a single pass met is not, whatever    *)
(* the number of addresses and however often the machine changes.           *)
THEOREM LastingReported == MCSpec => PersistentReported
<1>1. AuditsInv => (which = "hw" => Hw!PersistentReported)
  BY Hw!HwImplies DEF AuditsInv
<1>2. AuditsStep => (which = "hw" => Hw!TransientStep)
  BY DEF AuditsStep
<1>3. QED
  BY AuditsInvariant, <1>1, <1>2, PTL DEF PersistentReported

(* kg_dma_audit() and kg_scan_kbd(): an unauthorised bus master or keyboard *)
(* handle does not outlast a whole pass without being dealt with.           *)
THEOREM OffendersDealtWith == MCSpec => []UnauthorisedDealtWith
<1>1. AuditsInv => UnauthorisedDealtWith
  BY Hw!HwImplies, KbImplies DEF AuditsInv, UnauthorisedDealtWith
<1>2. QED
  BY AuditsInvariant, <1>1, PTL

(* kg_disable_bme() and kg_detach_handle() act on what an earlier step saw, *)
(* and yet leave what is authorised alone.                                  *)
THEOREM AuthorisedSpared == MCSpec => AuthorisedLeftAlone
<1>1. AuditsInv => (which = "hw" => Hw!KnownAtLoadTrusted)
  BY Hw!HwImplies DEF AuditsInv
<1>2. AuditsInv /\ AuditsStep =>
          (which # "mod" =>
             IF which = "hw" THEN Hw!CutsUnauthorised ELSE DetachesUnauthorised)
  BY DEF AuditsInv, AuditsStep
<1>3. QED
  BY AuditsInvariant, <1>1, <1>2, PTL DEF AuthorisedLeftAlone

(* kg_exit(), kg_hw_exit() and kg_input_exit() leave nothing behind, but    *)
(* for the pass of a kick that was under way.                               *)
THEOREM ExitLeavesNothing == MCSpec => []NothingAfterExit
<1>1. AuditsInv => NothingAfterExit
  BY ZenonT(60), ModExits, Hw!HwImplies, KbImplies DEF AuditsInv, NothingAfterExit
<1>2. QED
  BY AuditsInvariant, <1>1, PTL
===============================================================================

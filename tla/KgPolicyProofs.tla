---------------------------- MODULE KgPolicyProofs ----------------------------
(***************************************************************************)
(* Proofs about kgmon's policy engine (KgPolicy), for any policies and     *)
(* alerts and any sizes of the incident table, the ring, the circular      *)
(* buffer of arrivals and the sequence numbers, as long as fewer than half *)
(* of those are in use.  The invariant has four parts: the ring and the    *)
(* reader's place in it, the alert the rules are working on, the file of   *)
(* `kgmon ack', and the incidents, each with its circular buffer against   *)
(* the list of its last arrivals.                                          *)
(***************************************************************************)
EXTENDS KgPolicy, TLAPS

-----------------------------------------------------------------------------
(* Sequence numbers. *)

(* Division by M has one remainder. *)
LEMMA Residue ==
    ASSUME NEW M \in Nat \ {0}, NEW z \in Int, NEW t \in 0..M - 1
    PROVE  (M * z + t) % M = t
<1> DEFINE a == M * z + t
<1> DEFINE x == a \div M
<1> DEFINE r == a % M
<1>1. a = M * x + r /\ r \in 0..M - 1 /\ x \in Int /\ a \in Int
  OBVIOUS
<1> HIDE DEF x, r
<1> DEFINE q == x - z
<1>2. M * q = t - r /\ q \in Int
  BY <1>1
<1> HIDE DEF q
<1>3. q >= 1 => M * q >= M
  BY <1>2
<1>4. q <= -1 => M * q <= -M
  BY <1>2
<1>5. q = 0
  BY <1>1, <1>2, <1>3, <1>4
<1>6. r = t
  BY <1>1, <1>2, <1>5
<1> QED
  BY <1>6 DEF r

(* The remainder of a difference, when the first remainder is the larger *)
(* one.                                                                  *)
LEMMA Residues ==
    ASSUME NEW M \in Nat \ {0}, NEW a \in Int, NEW b \in Int, a % M >= b % M
    PROVE  (a - b) % M = (a % M) - (b % M)
<1> DEFINE x == a \div M
<1> DEFINE y == b \div M
<1> DEFINE r == a % M
<1> DEFINE s == b % M
<1>1. /\ a = M * x + r /\ r \in 0..M - 1 /\ x \in Int
      /\ b = M * y + s /\ s \in 0..M - 1 /\ y \in Int
  OBVIOUS
<1>2. r >= s
  OBVIOUS
<1> HIDE DEF x, y, r, s
<1>3. a - b = M * (x - y) + (r - s) /\ x - y \in Int /\ r - s \in 0..M - 1
  BY <1>1, <1>2
<1>4. (a - b) % M = r - s
  BY ZenonT(60), <1>3, Residue
<1> QED
  BY <1>4 DEF r, s

(* Within the bound on notifications the sequence number names the *)
(* notification, across its wrap.                                  *)
LEMMA NumberOfSeq32 ==
    ASSUME NEW n \in 0..MaxAlerts
    PROVE  Seq32(n) \in 0..SEQ - 1 /\ Number(Seq32(n)) = n
<1> DEFINE x == (FirstSeq + n) \div SEQ
<1> DEFINE s == (FirstSeq + n) % SEQ
<1>1. SEQ \in Nat \ {0} /\ FirstSeq \in Nat /\ MaxAlerts \in Nat /\ n \in 0..SEQ - 1
  BY PolicyAssumption
<1>2. FirstSeq + n = SEQ * x + s /\ s \in 0..SEQ - 1 /\ x \in Int
  BY <1>1
<1> HIDE DEF x, s
<1>3. s - FirstSeq = SEQ * (- x) + n /\ - x \in Int
  BY <1>1, <1>2
<1>4. (s - FirstSeq) % SEQ = n
  BY <1>1, <1>3, Residue
<1> QED
  BY <1>2, <1>4 DEF s, Seq32, Number

(* A sequence number stands for a number below SEQ. *)
LEMMA NumberRange ==
    ASSUME NEW s \in 0..SEQ - 1
    PROVE  Number(s) \in 0..SEQ - 1
BY PolicyAssumption DEF Number

(* The signed comparison of kgp_ack() finds every notification up to the    *)
(* one acknowledged, as long as fewer than half the sequence numbers are in *)
(* use.                                                                     *)
LEMMA CoversNumbered ==
    ASSUME NEW u \in 0..SEQ - 1, NEW s \in 0..SEQ - 1,
           Number(s) <= Number(u), Number(u) < MaxAlerts
    PROVE  Covers(u, s)
<1>1. SEQ \in Nat \ {0} /\ FirstSeq \in Nat /\ MaxAlerts \in Nat /\ SEQ > 2 * MaxAlerts
  BY PolicyAssumption
<1>2. u - FirstSeq \in Int /\ s - FirstSeq \in Int
      /\ (u - FirstSeq) - (s - FirstSeq) = u - s
  BY <1>1
<1>3. (u - s) % SEQ = Number(u) - Number(s)
  BY ZenonT(60), <1>1, <1>2, Residues DEF Number
<1>4. Number(s) \in 0..SEQ - 1 /\ Number(u) \in 0..SEQ - 1
  BY <1>1, <1>2 DEF Number
<1>5. (u - s) % SEQ < MaxAlerts /\ (u - s) % SEQ \in Nat
  BY <1>1, <1>3, <1>4
<1>6. SEQ \div 2 >= MaxAlerts
  BY <1>1
<1> HIDE DEF Number
<1> QED
  BY <1>1, <1>5, <1>6 DEF Covers

-----------------------------------------------------------------------------
(* The invariant. *)

Code == {a.code : a \in Alerts} \cup Pseudo

AlertType == [code : Code, p1 : Nat, level : Level, seq : 0..SEQ - 1]

NoteType == [code : Code, p1 : Nat, level : Level, seq : 0..SEQ - 1, ok : BOOLEAN]

Incident ==
    [used : {TRUE}, rule : Nat, code : Code, p1 : Nat,
     first : Nat, last : Nat, run : Nat, seq : 0..SEQ - 1, count : Nat,
     recent : [0..MAX_REPEAT - 1 -> Nat], escalated : BOOLEAN, acked : BOOLEAN,
     thens : Nat, arrivals : Seq(Nat), due : BOOLEAN, start : Nat]

(* The monitor reads the ring in order, and what the ring holds is what was *)
(* raised last.                                                             *)
RingInv ==
    /\ raised \in 0..MaxAlerts /\ w \in 0..raised /\ cursor \in 0..w
    /\ forged \subseteq 0..raised - 1 /\ covered \subseteq 0..cursor - 1
    /\ ring \in Seq(NoteType)
    /\ IF raised - cursor > SLOTS THEN Len(ring) = SLOTS ELSE Len(ring) = raised - cursor
    /\ \A i \in 1..Len(ring) :
         /\ Number(ring[i].seq) = raised - Len(ring) + i - 1
         /\ ring[i].ok => Number(ring[i].seq) \notin forged

(* What the rules are given. *)
FeedInv ==
    /\ pol \in Policies /\ kgp_parse(pol)
    /\ pc = "rules" =>
         /\ feed.al \in AlertType /\ feed.ri \in DOMAIN pol
         /\ Number(feed.al.seq) \in 0..cursor - 1
         /\ Number(feed.al.seq) \notin covered
         /\ Number(feed.al.seq) \in forged =>
                feed.al.code \in Pseudo /\ feed.al.p1 = NoOffender

(* The acknowledgement file names a notification that was raised. *)
AckInv ==
    /\ ackFile \in [id : Nat, up_to : 0..SEQ - 1]
    /\ seen \in Nat /\ stat \in Nat /\ seen <= ackFile.id /\ stat <= ackFile.id
    /\ pc = "read" => ackFile.id >= 1
    /\ ackFile.id >= 1 => Number(ackFile.up_to) \in 0..raised - 1
    /\ acker \in {Idle} \cup 1..raised

(* The circular buffer of an incident holds its last arrivals. *)
Buffered(in) ==
    /\ IF in.count > MAX_REPEAT THEN Len(in.arrivals) = MAX_REPEAT
       ELSE Len(in.arrivals) = in.count
    /\ \A k \in 1..Len(in.arrivals) :
         in.arrivals[Len(in.arrivals) - k + 1] = in.recent[(in.count - k) % MAX_REPEAT]

(* What EscalatesOnceWhenDue says of one incident. *)
EscalatedOnce(in) ==
    /\ in.thens = IF in.escalated THEN 1 ELSE 0
    /\ in.due => in.escalated
    /\ in.escalated /\ pol[in.rule].unacked = 0 => in.due

(* The last alert of an incident was read; a forged one belongs to an *)
(* incident of kgmon's own, and one an acknowledgement covered to an  *)
(* acknowledged incident.                                             *)
Attributed(in) ==
    /\ Number(in.seq) \in 0..cursor - 1
    /\ Number(in.seq) \in forged => in.code \in Pseudo /\ in.p1 = NoOffender
    /\ Number(in.seq) \in covered => in.acked

(* An incident that is due by age is escalated or acknowledged once the   *)
(* pass of this second is done, and before the next second at the latest. *)
Timely(in) ==
    /\ in.last <= in.first
    /\ LET r == pol[in.rule]
       IN  /\ r.unacked > 0 /\ in.first > r.unacked => in.escalated \/ in.acked
           /\ looped = "done" /\ r.unacked > 0 /\ in.first >= r.unacked =>
                in.escalated \/ in.acked

(* The incident table: every slot is unused or as above. *)
IncidentInv(in) ==
    in = Unused \/ /\ in \in Incident /\ in.rule \in DOMAIN pol
                   /\ Buffered(in) /\ EscalatedOnce(in) /\ Attributed(in) /\ Timely(in)

TableInv == DOMAIN inc = Slot /\ \A s \in Slot : IncidentInv(inc[s])

KpInv == RingInv /\ FeedInv /\ AckInv /\ TableInv

(* What the proofs use of the constants. *)
LEMMA KpConstants ==
    /\ MAX_REPEAT \in Nat /\ MAX_REPEAT >= 2 /\ SLOTS \in Nat /\ SLOTS >= 1
    /\ SEQ \in Nat /\ SEQ >= 1 /\ MaxAlerts \in Nat /\ MAXAGE \in Nat
    /\ FirstSeq \in Nat
BY PolicyAssumption, AgesAssumption

(* The rules of a policy are numbered. *)
LEMMA PolicyDomain ==
    ASSUME pol \in Policies
    PROVE  DOMAIN pol \subseteq Nat
<1> DEFINE R == [min_level : Nat, codes : SUBSET STRING, throttle : Nat, reset : Nat,
                 repeat_n : Nat, window : Nat, unacked : Nat, do : Nat, then : Nat]
<1>1. pol \in Seq(R)
  BY RulesAssumption
<1> HIDE DEF R
<1> QED
  BY <1>1

(* kgmon's own conclusions are codes of alerts. *)
LEMMA PseudoCodes ==
    FORGED \in Code /\ Pseudo \subseteq Code
BY DEF Pseudo, Code

(* The parameters of a rule are numbers. *)
LEMMA PolicyRules ==
    ASSUME pol \in Policies, NEW i \in DOMAIN pol
    PROVE  /\ DOMAIN pol \subseteq Nat
           /\ pol[i].reset \in Nat /\ pol[i].unacked \in Nat /\ pol[i].window \in Nat
           /\ pol[i].repeat_n \in Nat /\ pol[i].throttle \in Nat
<1> DEFINE R == [min_level : Nat, codes : SUBSET STRING, throttle : Nat, reset : Nat,
                 repeat_n : Nat, window : Nat, unacked : Nat, do : Nat, then : Nat]
<1>1. pol \in Seq(R)
  BY RulesAssumption
<1>2. DOMAIN pol \subseteq Nat /\ pol[i] \in R
  <2> HIDE DEF R
  <2> QED
    BY <1>1
<1> QED
  BY <1>2

(* cmd_monitor() starts with an empty table and nothing read. *)
LEMMA KpInitInv == KpInit => KpInv
<1> SUFFICES ASSUME KpInit
             PROVE  KpInv
  OBVIOUS
<1>1. RingInv
  <2>1. Len(ring) = 0 /\ ring \in Seq(NoteType)
    BY DEF KpInit
  <2> QED
    BY <2>1, KpConstants DEF KpInit, RingInv
<1>2. FeedInv
  BY DEF KpInit, FeedInv
<1>3. AckInv
  BY KpConstants DEF KpInit, AckInv, Idle
<1>4. TableInv
  BY DEF KpInit, TableInv, IncidentInv
<1> QED
  BY <1>1, <1>2, <1>3, <1>4 DEF KpInv

(* A notification is numbered in the order it is raised; a full ring drops *)
(* the oldest.                                                             *)
LEMMA RingRaise ==
    ASSUME RingInv, NEW a \in Alerts, Raise(a)
    PROVE  RingInv'
<1> DEFINE n == [code |-> a.code, p1 |-> a.p1, level |-> a.level,
                 seq |-> Seq32(raised), ok |-> a.ok]
<1> DEFINE old == IF Len(ring) = SLOTS THEN Tail(ring) ELSE ring
<1>1. /\ raised \in 0..MaxAlerts /\ raised < MaxAlerts /\ w \in 0..raised /\ cursor \in 0..w
      /\ forged \subseteq 0..raised - 1 /\ covered \subseteq 0..cursor - 1
      /\ ring \in Seq(NoteType)
      /\ IF raised - cursor > SLOTS THEN Len(ring) = SLOTS ELSE Len(ring) = raised - cursor
  BY DEF RingInv, Raise
<1>2. Seq32(raised) \in 0..SEQ - 1 /\ Number(Seq32(raised)) = raised
  BY <1>1, NumberOfSeq32
<1>3. n \in NoteType /\ n.seq = Seq32(raised) /\ n.ok = a.ok
  BY <1>2, AlertsAssumption DEF NoteType, Level, Code
<1> HIDE DEF n
<1>4. /\ old \in Seq(NoteType)
      /\ IF Len(ring) = SLOTS THEN Len(old) = SLOTS - 1 ELSE Len(old) = Len(ring)
      /\ \A i \in 1..Len(old) :
            /\ Number(old[i].seq) = raised - Len(old) + i - 1
            /\ old[i].ok => Number(old[i].seq) \notin forged
  <2>1. CASE Len(ring) = SLOTS
    <3>1. /\ Tail(ring) \in Seq(NoteType) /\ Len(Tail(ring)) = SLOTS - 1
          /\ \A i \in 1..Len(Tail(ring)) : Tail(ring)[i] = ring[i + 1] /\ i + 1 \in 1..Len(ring)
      BY <1>1, <2>1, KpConstants
    <3>2. \A i \in 1..Len(ring) :
            /\ Number(ring[i].seq) = raised - Len(ring) + i - 1
            /\ ring[i].ok => Number(ring[i].seq) \notin forged
      BY DEF RingInv
    <3>3. ASSUME NEW i \in 1..Len(Tail(ring))
          PROVE  /\ Number(Tail(ring)[i].seq) = raised - Len(Tail(ring)) + i - 1
                 /\ Tail(ring)[i].ok => Number(Tail(ring)[i].seq) \notin forged
      <4>1. Number(ring[i + 1].seq) = raised - Len(ring) + (i + 1) - 1
        BY <3>1, <3>2
      <4>2. raised - Len(ring) + (i + 1) - 1 = raised - Len(Tail(ring)) + i - 1
        BY <1>1, <2>1, <3>1, KpConstants
      <4> QED
        BY <3>1, <3>2, <4>1, <4>2
    <3> QED
      BY <2>1, <3>1, <3>3
  <2>2. CASE Len(ring) # SLOTS
    BY ZenonT(60), <1>1, <2>2 DEF RingInv
  <2> QED
    BY <2>1, <2>2
<1> HIDE DEF old
<1>5. ring' = Append(old, n)
  BY DEF Raise, old, n
<1>6. /\ ring' \in Seq(NoteType) /\ Len(ring') = Len(old) + 1
      /\ \A i \in 1..Len(old) : ring'[i] = old[i]
      /\ ring'[Len(old) + 1] = n
  BY <1>3, <1>4, <1>5
<1>7. raised' = raised + 1 /\ cursor' = cursor /\ w' = w /\ covered' = covered
  BY DEF Raise
<1>8. forged' = IF a.ok THEN forged ELSE forged \cup {raised}
  BY DEF Raise
<1>9. ASSUME NEW i \in 1..Len(ring')
      PROVE  /\ Number(ring'[i].seq) = raised' - Len(ring') + i - 1
             /\ ring'[i].ok => Number(ring'[i].seq) \notin forged'
  <2>1. CASE i = Len(old) + 1
    <3>1. raised' - Len(ring') + i - 1 = raised
      BY <1>1, <1>4, <1>6, <1>7, <2>1
    <3>2. raised \notin forged
      BY <1>1
    <3> QED
      BY <1>2, <1>3, <1>6, <1>8, <2>1, <3>1, <3>2
  <2>2. CASE i # Len(old) + 1
    <3>1. i \in 1..Len(old) /\ ring'[i] = old[i]
      BY <1>4, <1>6, <2>2
    <3>2. raised' - Len(ring') + i - 1 = raised - Len(old) + i - 1
      BY <1>1, <1>4, <1>6, <1>7, <3>1
    <3>3. raised - Len(old) + i - 1 # raised
      BY <1>1, <1>4, <3>1
    <3> QED
      BY <1>4, <1>8, <3>1, <3>2, <3>3
  <2> QED
    BY <2>1, <2>2
<1>10. IF raised' - cursor' > SLOTS THEN Len(ring') = SLOTS ELSE Len(ring') = raised' - cursor'
  BY <1>1, <1>4, <1>6, <1>7, KpConstants
<1>11. /\ raised' \in 0..MaxAlerts /\ w' \in 0..raised' /\ cursor' \in 0..w'
       /\ forged' \subseteq 0..raised' - 1 /\ covered' \subseteq 0..cursor' - 1
  BY <1>1, <1>7, <1>8, KpConstants
<1> QED
  BY ZenonT(60), <1>6, <1>9, <1>10, <1>11 DEF RingInv

(* drain() reads a notification, or finds that it cannot. *)
LEMMA RingRead ==
    ASSUME RingInv, cursor < w, raised - cursor <= SLOTS
    PROVE  /\ Len(ring) = raised - cursor /\ Tail(ring) \in Seq(NoteType)
           /\ Len(Tail(ring)) = Len(ring) - 1
           /\ Head(ring) \in NoteType /\ Number(Head(ring).seq) = cursor
           /\ Head(ring).ok => cursor \notin forged
           /\ \A i \in 1..Len(Tail(ring)) :
                /\ Number(Tail(ring)[i].seq) = raised - Len(Tail(ring)) + i - 1
                /\ Tail(ring)[i].ok => Number(Tail(ring)[i].seq) \notin forged
<1>1. /\ raised \in Nat /\ w \in 0..raised /\ cursor \in 0..w
      /\ ring \in Seq(NoteType) /\ Len(ring) = raised - cursor /\ Len(ring) >= 1
  BY KpConstants DEF RingInv
<1>2. /\ Tail(ring) \in Seq(NoteType) /\ Len(Tail(ring)) = Len(ring) - 1
      /\ \A i \in 1..Len(Tail(ring)) : Tail(ring)[i] = ring[i + 1] /\ i + 1 \in 1..Len(ring)
      /\ Head(ring) = ring[1] /\ ring[1] \in NoteType
  BY <1>1
<1>3. \A i \in 1..Len(ring) :
        /\ Number(ring[i].seq) = raised - Len(ring) + i - 1
        /\ ring[i].ok => Number(ring[i].seq) \notin forged
  BY DEF RingInv
<1>4. Number(Head(ring).seq) = cursor /\ (Head(ring).ok => cursor \notin forged)
  <2>1. raised - Len(ring) + 1 - 1 = cursor /\ 1 \in 1..Len(ring)
    BY <1>1
  <2> QED
    BY <1>2, <1>3, <2>1
<1>5. ASSUME NEW i \in 1..Len(Tail(ring))
      PROVE  /\ Number(Tail(ring)[i].seq) = raised - Len(Tail(ring)) + i - 1
             /\ Tail(ring)[i].ok => Number(Tail(ring)[i].seq) \notin forged
  <2>1. Number(ring[i + 1].seq) = raised - Len(ring) + (i + 1) - 1
    BY <1>2, <1>3
  <2>2. raised - Len(ring) + (i + 1) - 1 = raised - Len(Tail(ring)) + i - 1
    BY <1>1, <1>2
  <2> QED
    BY <1>2, <1>3, <2>1, <2>2
<1> QED
  BY <1>1, <1>2, <1>4, <1>5

(* Every step keeps the ring and the place of the reader in it. *)
LEMMA RingStep ==
    ASSUME RingInv, AckInv, [KpNext]_kpVars
    PROVE  RingInv'
<1>1. ASSUME NEW a \in Alerts, Raise(a)
      PROVE  RingInv'
  BY <1>1, RingRaise
<1>2. CASE DrainBegin
  <2>1. CASE raised - cursor > SLOTS
    BY <1>2, <2>1, KpConstants DEF RingInv, DrainBegin
  <2>2. CASE ~ (raised - cursor > SLOTS)
    BY <1>2, <2>2, KpConstants DEF RingInv, DrainBegin
  <2> QED
    BY <2>1, <2>2
<1>3. ASSUME cursor < w, cursor' = cursor + 1,
             UNCHANGED <<raised, w, forged, covered>>,
             ring' = IF raised - cursor > SLOTS THEN ring ELSE Tail(ring)
      PROVE  RingInv'
  <2>1. CASE raised - cursor > SLOTS
    BY <1>3, <2>1, KpConstants DEF RingInv
  <2>2. CASE ~ (raised - cursor > SLOTS)
    <3>1. raised - cursor <= SLOTS /\ ring' = Tail(ring)
      BY <1>3, <2>2, KpConstants DEF RingInv
    <3>2. /\ raised \in 0..MaxAlerts /\ w \in 0..raised /\ cursor \in 0..w
          /\ forged \subseteq 0..raised - 1 /\ covered \subseteq 0..cursor - 1
      BY DEF RingInv
    <3>3. /\ ring' \in Seq(NoteType) /\ Len(ring') = raised - cursor - 1
          /\ \A i \in 1..Len(ring') :
                /\ Number(ring'[i].seq) = raised' - Len(ring') + i - 1
                /\ ring'[i].ok => Number(ring'[i].seq) \notin forged'
      BY <1>3, <3>1, RingRead
    <3>4. /\ raised' \in 0..MaxAlerts /\ w' \in 0..raised' /\ cursor' \in 0..w'
          /\ forged' \subseteq 0..raised' - 1 /\ covered' \subseteq 0..cursor' - 1
      BY <1>3, <3>2, KpConstants
    <3>5. IF raised' - cursor' > SLOTS THEN Len(ring') = SLOTS
          ELSE Len(ring') = raised' - cursor'
      BY <1>3, <3>1, <3>2, <3>3, KpConstants
    <3> QED
      BY ZenonT(60), <3>3, <3>4, <3>5 DEF RingInv
  <2> QED
    BY <2>1, <2>2
<1>4. CASE emit
  <2>1. ring' = IF raised - cursor > SLOTS THEN ring ELSE Tail(ring)
    BY <1>4, KpConstants DEF emit, RingInv
  <2> QED
    BY <1>3, <1>4, <2>1 DEF emit
<1>5. CASE Unreadable
  BY <1>3, <1>5 DEF Unreadable
<1>6. CASE CheckAckRead
  <2>1. covered' \subseteq 0..cursor - 1
    <3> DEFINE N == Number(ackFile.up_to)
    <3>1. N \in Int
      BY NumberRange DEF AckInv
    <3>2. covered' = covered \cup {n \in 0..N : n < cursor}
      BY <1>6 DEF CheckAckRead
    <3> HIDE DEF N
    <3>3. covered \subseteq 0..cursor - 1 /\ cursor \in Nat
      BY DEF RingInv
    <3>4. \A n \in 0..N : n < cursor => n \in 0..cursor - 1
      BY <3>1, <3>3
    <3> QED
      BY ZenonT(60), <3>2, <3>3, <3>4
  <2> QED
    BY <1>6, <2>1 DEF RingInv, CheckAckRead
<1>7. ASSUME UNCHANGED <<ring, raised, cursor, w, forged, covered>>
      PROVE  RingInv'
  BY <1>7 DEF RingInv
<1> QED
  BY ZenonT(60), <1>1, <1>2, <1>4, <1>5, <1>6, <1>7
     DEF KpNext, Monitor, kgp_alert, ReapAndStat, kgp_tick, AckLook, AckWrite,
         ChildEnds, Second, kpVars

-----------------------------------------------------------------------------
(* The alert in hand. *)

(* kgp_alert() is given the alert with a rule of the policy, or drain() *)
(* goes on.                                                             *)
LEMMA Fed ==
    ASSUME pol \in Policies, NEW al, NEW i \in Nat, Feed(al, i)
    PROVE  /\ pc' \in {"drain", "rules"}
           /\ pc' = "rules" => feed'.al = al /\ feed'.ri \in DOMAIN pol
BY DEF Feed

(* Every step keeps what is known of the alert the rules are given: it was *)
(* read, is not yet acknowledged, and is one of kgmon's own if its HMAC    *)
(* fails.                                                                  *)
LEMMA FeedStep ==
    ASSUME RingInv, FeedInv, [KpNext]_kpVars
    PROVE  FeedInv'
<1> DEFINE Clean(al) ==
        /\ al \in AlertType /\ Number(al.seq) \in 0..cursor' - 1
        /\ Number(al.seq) \notin covered
        /\ Number(al.seq) \in forged => al.code \in Pseudo /\ al.p1 = NoOffender
<1>1. ASSUME NEW al, NEW i \in Nat, Feed(al, i), Clean(al),
             UNCHANGED <<pol, covered, forged>>
      PROVE  FeedInv'
  <2>1. pc' = "rules" => feed'.al = al /\ feed'.ri \in DOMAIN pol
    BY <1>1, Fed DEF FeedInv
  <2> QED
    BY <1>1, <2>1 DEF FeedInv
<1>2. /\ cursor \in 0..MaxAlerts /\ raised \in 0..MaxAlerts /\ cursor <= raised
      /\ covered \subseteq 0..cursor - 1 /\ forged \subseteq 0..raised - 1
  BY KpConstants DEF RingInv
<1>3. ASSUME NEW code \in Pseudo, NEW level \in Level, cursor \in 0..cursor' - 1
      PROVE  Clean(policy_pseudo(code, level, cursor))
  <2> DEFINE al == policy_pseudo(code, level, cursor)
  <2>1. Seq32(cursor) \in 0..SEQ - 1 /\ Number(Seq32(cursor)) = cursor
    BY <1>2, NumberOfSeq32
  <2>2. al \in AlertType /\ al.seq = Seq32(cursor) /\ al.code = code /\ al.p1 = NoOffender
    BY <2>1, PseudoCodes DEF policy_pseudo, AlertType, NoOffender
  <2> HIDE DEF al
  <2>3. cursor \notin covered
    BY <1>2, KpConstants
  <2>4. Clean(al)
    BY <1>3, <2>1, <2>2, <2>3
  <2> QED
    BY <2>4 DEF al
<1>4. CASE DrainBegin
  <2>1. CASE raised - cursor > SLOTS
    <3>1. Feed(policy_pseudo(OVERRUN, 2, cursor), 1) /\ cursor' = raised - SLOTS
      BY <1>4, <2>1 DEF DrainBegin
    <3>2. cursor \in 0..cursor' - 1
      BY <1>2, <2>1, <3>1, KpConstants
    <3>3. Clean(policy_pseudo(OVERRUN, 2, cursor))
      BY <1>3, <3>2 DEF Pseudo, Level
    <3> HIDE DEF Clean
    <3> QED
      BY <1>1, <1>4, <3>1, <3>3 DEF DrainBegin
  <2>2. CASE ~ (raised - cursor > SLOTS)
    BY <1>4, <2>2 DEF DrainBegin, FeedInv
  <2> QED
    BY <2>1, <2>2
<1>5. CASE emit
  <2>1. cursor' = cursor + 1 /\ cursor < w /\ raised - cursor <= SLOTS
    BY <1>5 DEF emit
  <2> DEFINE h == Head(ring)
  <2>2. h \in NoteType /\ Number(h.seq) = cursor /\ (h.ok => cursor \notin forged)
    BY <2>1, RingRead
  <2> HIDE DEF h
  <2>3. /\ policy_feed(h) \in AlertType /\ policy_feed(h).seq = h.seq
        /\ ~ h.ok => policy_feed(h).code \in Pseudo /\ policy_feed(h).p1 = NoOffender
    BY <2>2, PseudoCodes DEF policy_feed, NoteType, AlertType, NoOffender, Level, Pseudo
  <2>4. Clean(policy_feed(h))
    BY <1>2, <2>1, <2>2, <2>3
  <2> HIDE DEF Clean
  <2> QED
    BY <1>1, <1>5, <2>4 DEF emit, h
<1>6. CASE Unreadable
  <2>1. cursor \in 0..cursor' - 1
    BY <1>2, <1>6 DEF Unreadable
  <2>2. /\ Clean(policy_pseudo(OVERRUN, 2, cursor))
        /\ Clean(policy_pseudo(TAMPER, 3, cursor))
    BY <1>3, <2>1 DEF Pseudo, Level
  <2> HIDE DEF Clean
  <2> QED
    BY <1>1, <1>6, <2>2 DEF Unreadable
<1>7. CASE kgp_alert
  <2>1. Clean(feed.al) /\ feed.ri + 1 \in Nat
    BY <1>7, PolicyDomain DEF kgp_alert, FeedInv
  <2> HIDE DEF Clean
  <2> QED
    BY <1>1, <1>7, <2>1 DEF kgp_alert
<1>8. ASSUME NEW a \in Alerts, Raise(a)
      PROVE  FeedInv'
  <2>1. forged' \subseteq forged \cup {raised}
    BY <1>8 DEF Raise
  <2>2. Number(feed.al.seq) \in 0..cursor - 1 => Number(feed.al.seq) # raised
    BY <1>2
  <2> QED
    BY <1>8, <2>1, <2>2 DEF Raise, FeedInv
<1>9. ASSUME UNCHANGED <<pol>>, pc' # "rules"
      PROVE  FeedInv'
  BY <1>9 DEF FeedInv
<1>10. ASSUME UNCHANGED <<pol, pc, feed, cursor, covered, forged>>
       PROVE  FeedInv'
  BY <1>10 DEF FeedInv
<1> HIDE DEF Clean
<1>11. CASE ReapAndStat \/ CheckAckRead \/ kgp_tick
  BY ZenonT(60), <1>9, <1>11 DEF ReapAndStat, CheckAckRead, kgp_tick
<1> QED
  BY ZenonT(60), <1>4, <1>5, <1>6, <1>7, <1>8, <1>10, <1>11
     DEF KpNext, Monitor, AckLook, AckWrite, ChildEnds, Second, kpVars

(* Every step keeps what is known of the acknowledgement file. *)
LEMMA AckStep ==
    ASSUME RingInv, AckInv, [KpNext]_kpVars
    PROVE  AckInv'
<1>1. raised \in 0..MaxAlerts
  BY DEF RingInv
<1>2. ASSUME NEW a \in Alerts, Raise(a)
      PROVE  AckInv'
  BY <1>1, <1>2, KpConstants DEF Raise, AckInv
<1>3. CASE AckLook
  BY <1>1, <1>3, KpConstants DEF AckLook, AckInv
<1>4. CASE AckWrite
  <2>1. acker \in 1..raised /\ acker - 1 \in 0..MaxAlerts
    BY <1>1, <1>4, KpConstants DEF AckWrite, AckInv
  <2>2. Seq32(acker - 1) \in 0..SEQ - 1 /\ Number(Seq32(acker - 1)) = acker - 1
    BY <2>1, NumberOfSeq32
  <2> QED
    BY <1>1, <1>4, <2>1, <2>2, KpConstants DEF AckWrite, AckInv
<1>5. CASE ReapAndStat
  BY <1>5 DEF ReapAndStat, AckInv
<1>6. CASE CheckAckRead
  BY <1>6 DEF CheckAckRead, AckInv
<1>7. ASSUME UNCHANGED <<raised, ackFile, seen, stat, acker>>, pc' = pc \/ pc' # "read"
      PROVE  AckInv'
  BY <1>7 DEF AckInv
<1>8. ASSUME NEW al, NEW i, Feed(al, i)
      PROVE  pc' # "read"
  BY <1>8 DEF Feed
<1>9. CASE DrainBegin \/ emit \/ Unreadable
  BY <1>7, <1>8, <1>9 DEF DrainBegin, emit, Unreadable
<1>10. CASE kgp_alert \/ kgp_tick
  BY ZenonT(60), <1>7, <1>8, <1>10 DEF kgp_alert, kgp_tick
<1> QED
  BY ZenonT(60), <1>2, <1>3, <1>4, <1>5, <1>6, <1>7, <1>9, <1>10
     DEF KpNext, Monitor, ChildEnds, Second, kpVars

-----------------------------------------------------------------------------
(* The circular buffer. *)

(* Places of the circular buffer that are less than its length apart *)
(* differ.                                                           *)
LEMMA ResiduesDiffer ==
    ASSUME NEW M \in Nat \ {0}, NEW c \in Int, NEW j \in 1..M - 1
    PROVE  (c - j) % M # c % M
<1> SUFFICES ASSUME (c - j) % M = c % M
             PROVE  FALSE
  OBVIOUS
<1>1. c % M \in Nat /\ c - j \in Int /\ c - (c - j) = j
  OBVIOUS
<1>2. (c - (c - j)) % M = (c % M) - ((c - j) % M)
  <2>1. c % M >= (c - j) % M
    BY <1>1
  <2> QED
    BY ZenonT(60), <1>1, <2>1, Residues
<1>3. j % M = 0
  BY <1>1, <1>2
<1>4. M * 0 + j = j /\ 0 \in Int /\ j \in 0..M - 1
  OBVIOUS
<1>5. j % M = j
  BY <1>4, Residue
<1> QED
  BY <1>3, <1>5

(* The list of the last MAX_REPEAT arrivals after one more. *)
LEMMA LastFewArrivals ==
    ASSUME NEW s \in Seq(Nat), Len(s) <= MAX_REPEAT
    PROVE  LET t == LastFew(Append(s, 0))
           IN  /\ t \in Seq(Nat) /\ Len(t) \in Nat
               /\ Len(t) = IF Len(s) = MAX_REPEAT THEN MAX_REPEAT ELSE Len(s) + 1
               /\ t[Len(t)] = 0
               /\ \A k \in 2..Len(t) : t[Len(t) - k + 1] = s[Len(s) - (k - 1) + 1]
<1> DEFINE a == Append(s, 0)
<1> DEFINE n == Len(s)
<1> DEFINE t == LastFew(a)
<1> DEFINE Goal ==
        /\ t \in Seq(Nat) /\ Len(t) \in Nat
        /\ Len(t) = IF n = MAX_REPEAT THEN MAX_REPEAT ELSE n + 1
        /\ t[Len(t)] = 0
        /\ \A k \in 2..Len(t) : t[Len(t) - k + 1] = s[n - (k - 1) + 1]
<1>0. n \in Nat /\ n <= MAX_REPEAT
  OBVIOUS
<1>1. a \in Seq(Nat) /\ Len(a) = n + 1 /\ a[n + 1] = 0
  OBVIOUS
<1>2. \A i \in 1..n : a[i] = s[i]
  OBVIOUS
<1> HIDE DEF a, n, t
<1>3. CASE n = MAX_REPEAT
  <2>1. t = Tail(a)
    BY <1>0, <1>1, <1>3, KpConstants DEF LastFew, t
  <2>2. t \in Seq(Nat) /\ Len(t) = n
    BY <1>0, <1>1, <2>1
  <2>3. \A i \in 1..n : t[i] = a[i + 1]
    BY <1>0, <1>1, <2>1
  <2>4. t[n] = 0
    <3>1. n \in 1..n
      BY <1>0, <1>3, KpConstants
    <3> QED
      BY <1>1, <2>3, <3>1
  <2>5. ASSUME NEW k \in 2..n
        PROVE  t[n - k + 1] = s[n - (k - 1) + 1]
    <3> DEFINE x == n - k + 1
    <3>1. x \in 1..n /\ x + 1 \in 1..n /\ x + 1 = n - (k - 1) + 1
      BY <1>0
    <3> HIDE DEF x
    <3>2. t[x] = s[x + 1]
      BY <1>2, <2>3, <3>1
    <3> QED
      BY <3>1, <3>2 DEF x
  <2>6. Goal
    BY <1>0, <1>3, <2>2, <2>4, <2>5, Zenon
  <2> QED
    BY <2>6, Zenon DEF n, t, a
<1>4. CASE n # MAX_REPEAT
  <2>1. t = a
    BY <1>0, <1>1, <1>4, KpConstants DEF LastFew, t
  <2> DEFINE m == Len(t)
  <2>2. t \in Seq(Nat) /\ m = n + 1 /\ t[n + 1] = 0
    BY <1>1, <2>1
  <2> HIDE DEF m
  <2>3. ASSUME NEW k \in 2..m
        PROVE  t[m - k + 1] = s[n - (k - 1) + 1]
    <3> DEFINE x == m - k + 1
    <3>1. x \in 1..n /\ x = n - (k - 1) + 1
      BY <1>0, <2>2
    <3> HIDE DEF x
    <3>2. t[x] = s[x]
      BY <1>2, <2>1, <3>1
    <3> QED
      BY <3>1, <3>2 DEF x
  <2>4. m \in Nat /\ t[m] = 0 /\ m = IF n = MAX_REPEAT THEN MAX_REPEAT ELSE n + 1
    BY <1>0, <1>4, <2>2
  <2>5. Goal
    BY <2>2, <2>3, <2>4, Zenon DEF m
  <2> QED
    BY <2>5, Zenon DEF n, t, a
<1> QED
  BY <1>3, <1>4

(* Writing an arrival at count modulo MAX_REPEAT keeps buffer and list in *)
(* step.                                                                  *)
LEMMA BufferedArrival ==
    ASSUME NEW in \in Incident, Buffered(in),
           NEW out, out.count = in.count + 1,
           out.arrivals = LastFew(Append(in.arrivals, 0)),
           out.recent = [in.recent EXCEPT ![in.count % MAX_REPEAT] = 0]
    PROVE  /\ Buffered(out) /\ out.arrivals \in Seq(Nat)
           /\ out.recent \in [0..MAX_REPEAT - 1 -> Nat]
<1> DEFINE M == MAX_REPEAT
<1> DEFINE s == in.arrivals
<1> DEFINE t == out.arrivals
<1> DEFINE c == in.count
<1> DEFINE b == in.recent
<1> DEFINE d == out.recent
<1> DEFINE e == out.count
<1>1. s \in Seq(Nat) /\ c \in Nat /\ b \in [0..M - 1 -> Nat] /\ Len(s) \in Nat
  BY DEF Incident
<1>2. /\ IF c > M THEN Len(s) = M ELSE Len(s) = c
      /\ \A k \in 1..Len(s) : s[Len(s) - k + 1] = b[(c - k) % M]
  BY DEF Buffered
<1>3. M \in Nat \ {0}
  BY KpConstants
<1>4. /\ t \in Seq(Nat) /\ Len(t) \in Nat
      /\ Len(t) = IF Len(s) = M THEN M ELSE Len(s) + 1
      /\ t[Len(t)] = 0
      /\ \A k \in 2..Len(t) : t[Len(t) - k + 1] = s[Len(s) - (k - 1) + 1]
  <2>1. Len(s) <= M
    BY <1>1, <1>2, <1>3
  <2>2. t = LastFew(Append(s, 0))
    OBVIOUS
  <2> HIDE DEF s, t
  <2> QED
    BY <1>1, <2>1, <2>2, LastFewArrivals, Zenon
<1>5. d = [b EXCEPT ![c % M] = 0] /\ e = c + 1
  OBVIOUS
<1> HIDE DEF M, s, t, c, b, d, e
<1>6. c % M \in 0..M - 1
  BY <1>1, <1>3
<1>7. /\ d \in [0..M - 1 -> Nat] /\ d[c % M] = 0
      /\ \A i \in 0..M - 1 : i # c % M => d[i] = b[i]
  BY <1>1, <1>5, <1>6
<1>8. IF e > M THEN Len(t) = M ELSE Len(t) = e
  BY <1>1, <1>5, <1>2, <1>3, <1>4
<1>9. ASSUME NEW k \in 1..Len(t)
      PROVE  t[Len(t) - k + 1] = d[(e - k) % M]
  <2>1. CASE k = 1
    <3>1. Len(t) - k + 1 = Len(t) /\ e - k = c
      BY <1>1, <1>5, <1>4, <2>1
    <3> QED
      BY <1>4, <1>7, <3>1
  <2>2. CASE k # 1
    <3>1. k \in 2..Len(t) /\ k - 1 \in 1..Len(s) /\ k - 1 \in 1..M - 1
      BY <1>1, <1>2, <1>3, <1>4, <2>2
    <3>2. t[Len(t) - k + 1] = s[Len(s) - (k - 1) + 1]
      BY ZenonT(60), <1>4, <3>1
    <3>3. s[Len(s) - (k - 1) + 1] = b[(c - (k - 1)) % M]
      BY <1>2, <3>1
    <3>4. (c - (k - 1)) % M # c % M
      <4>1. c \in Int
        BY <1>1
      <4> QED
        BY ZenonT(60), <1>3, <3>1, <4>1, ResiduesDiffer
    <3>5. (c - (k - 1)) % M \in 0..M - 1
      BY <1>1, <1>3, <3>1
    <3>6. e - k = c - (k - 1)
      BY <1>1, <1>5, <3>1
    <3> QED
      BY <1>7, <3>2, <3>3, <3>4, <3>5, <3>6
  <2> QED
    BY <2>1, <2>2
<1> QED
  BY <1>4, <1>7, <1>8, <1>9 DEF Buffered, M, t, d, e

-----------------------------------------------------------------------------
(* One incident. *)

(* The new values of an arrival leave an incident an incident. *)
LEMMA IncidentArrival ==
    ASSUME NEW in \in Incident, NEW n \in Nat, NEW rec \in [0..MAX_REPEAT - 1 -> Nat],
           NEW arr \in Seq(Nat), NEW hit \in BOOLEAN
    PROVE  [in EXCEPT !.last = 0, !.count = n, !.recent = rec, !.arrivals = arr, !.due = hit]
              \in Incident
BY ZenonT(60) DEF Incident

(* An arrival counts, is the last of the list, and leaves the rest of the *)
(* incident alone.                                                        *)
LEMMA ArrivedIncident ==
    ASSUME NEW r, NEW in \in Incident, Buffered(in),
           NEW out, out = Arrived(r, in)
    PROVE  /\ out \in Incident /\ Buffered(out) /\ out.last = 0
           /\ out.due = (in.due \/ Repeats(r, out.arrivals))
           /\ out.rule = in.rule /\ out.code = in.code /\ out.p1 = in.p1
           /\ out.first = in.first /\ out.seq = in.seq /\ out.acked = in.acked
           /\ out.escalated = in.escalated /\ out.thens = in.thens
<1> DEFINE arr == LastFew(Append(in.arrivals, 0))
<1> DEFINE rec == [in.recent EXCEPT ![in.count % MAX_REPEAT] = 0]
<1> DEFINE hit == in.due \/ Repeats(r, arr)
<1>1. out = [in EXCEPT !.last = 0, !.count = in.count + 1, !.recent = rec,
                       !.arrivals = arr, !.due = hit]
  BY DEF Arrived
<1>2. hit \in BOOLEAN
  OBVIOUS
<1> HIDE DEF arr, rec, hit
<1>3. DOMAIN in = {"used", "rule", "code", "p1", "first", "last", "run", "seq", "count",
                   "recent", "escalated", "acked", "thens", "arrivals", "due", "start"}
  BY DEF Incident
<1>4. /\ out.last = 0 /\ out.count = in.count + 1 /\ out.recent = rec /\ out.arrivals = arr
      /\ out.due = hit /\ out.rule = in.rule /\ out.code = in.code /\ out.p1 = in.p1
      /\ out.first = in.first /\ out.seq = in.seq /\ out.acked = in.acked
      /\ out.escalated = in.escalated /\ out.thens = in.thens
  BY <1>1, <1>3
<1>5. Buffered(out) /\ arr \in Seq(Nat) /\ rec \in [0..MAX_REPEAT - 1 -> Nat]
  <2>1. out.arrivals = LastFew(Append(in.arrivals, 0))
    BY <1>4 DEF arr
  <2>2. out.recent = [in.recent EXCEPT ![in.count % MAX_REPEAT] = 0]
    BY <1>4 DEF rec
  <2>3. out.count = in.count + 1
    BY <1>4
  <2>4. /\ Buffered(out) /\ out.arrivals \in Seq(Nat)
        /\ out.recent \in [0..MAX_REPEAT - 1 -> Nat]
    BY <2>1, <2>2, <2>3, BufferedArrival, Zenon
  <2> QED
    BY <1>4, <2>4, Zenon
<1>6. out \in Incident
  <2> DEFINE n == in.count + 1
  <2>1. n \in Nat
    BY DEF Incident
  <2>2. out = [in EXCEPT !.last = 0, !.count = n, !.recent = rec, !.arrivals = arr, !.due = hit]
    BY <1>1
  <2> HIDE DEF n
  <2> QED
    <3>1. arr \in Seq(Nat) /\ rec \in [0..MAX_REPEAT - 1 -> Nat]
      BY <1>5
    <3>2. [in EXCEPT !.last = 0, !.count = n, !.recent = rec, !.arrivals = arr, !.due = hit]
              \in Incident
      BY ZenonT(60), <1>2, <2>1, <3>1, IncidentArrival
    <3> QED
      BY <2>2, <3>2, Zenon
<1> QED
  BY <1>4, <1>5, <1>6 DEF hit

(* The look into the circular buffer finds what the list of the arrivals *)
(* says.                                                                 *)
LEMMA HitIsRepeat ==
    ASSUME NEW r, r.repeat_n \in {0} \cup 2..MAX_REPEAT,
           NEW in \in Incident, Buffered(in)
    PROVE  RepeatHit(r, in) <=> ~ in.escalated /\ Repeats(r, in.arrivals)
<1> DEFINE n == r.repeat_n
<1> DEFINE L == Len(in.arrivals)
<1>1. n \in Nat /\ n <= MAX_REPEAT /\ L \in Nat /\ in.count \in Nat /\ MAX_REPEAT \in Nat
  <2>1. L \in Nat /\ in.count \in Nat
    BY DEF Incident
  <2>2. n \in Nat /\ n <= MAX_REPEAT
    <3> HIDE DEF n
    <3>1. n \in {0} \cup 2..MAX_REPEAT
      BY DEF n
    <3> QED
      BY <3>1, KpConstants
  <2> QED
    BY <2>1, <2>2, KpConstants
<1>2. IF in.count > MAX_REPEAT THEN L = MAX_REPEAT ELSE L = in.count
  BY DEF Buffered
<1>3. \A k \in 1..L : in.arrivals[L - k + 1] = in.recent[(in.count - k) % MAX_REPEAT]
  BY DEF Buffered
<1>4. L >= n <=> in.count >= n
  <2> HIDE DEF L, n
  <2> QED
    BY <1>1, <1>2
<1>5. n > 0 /\ L >= n => in.arrivals[L - n + 1] = in.recent[(in.count - n) % MAX_REPEAT]
  <2> HIDE DEF L, n
  <2>1. n > 0 /\ L >= n => n \in 1..L
    BY <1>1
  <2> QED
    BY <1>3, <2>1
<1>6. RepeatHit(r, in) <=> /\ n > 0 /\ ~ in.escalated /\ in.count >= n
                           /\ in.recent[(in.count - n) % MAX_REPEAT] <= r.window
  BY DEF RepeatHit
<1>7. Repeats(r, in.arrivals) <=> n > 0 /\ L >= n /\ in.arrivals[L - n + 1] <= r.window
  BY DEF Repeats
<1> HIDE DEF L, n
<1> QED
  BY <1>4, <1>5, <1>6, <1>7

(* A new incident has no arrivals and no escalation. *)
LEMMA NewIncidentInv ==
    ASSUME NEW ri \in Nat, NEW al \in AlertType
    PROVE  LET in == NewIncident(ri, al)
           IN  /\ in \in Incident /\ Buffered(in)
               /\ in.rule = ri /\ in.code = al.code /\ in.p1 = al.p1 /\ in.first = 0
               /\ ~ in.escalated /\ ~ in.due /\ in.thens = 0
<1> DEFINE in == NewIncident(ri, al)
<1> DEFINE n == Number(al.seq)
<1> DEFINE b == [i \in 0..MAX_REPEAT - 1 |-> MAXAGE]
<1>1. n \in Nat /\ b \in [0..MAX_REPEAT - 1 -> Nat] /\ <<>> \in Seq(Nat)
  BY NumberRange, KpConstants DEF AlertType
<1>2. in = [used |-> TRUE, rule |-> ri, code |-> al.code, p1 |-> al.p1,
            first |-> 0, last |-> 0, run |-> 0, seq |-> al.seq, count |-> 0, recent |-> b,
            escalated |-> FALSE, acked |-> FALSE, thens |-> 0, arrivals |-> <<>>,
            due |-> FALSE, start |-> n]
  BY DEF NewIncident
<1> HIDE DEF n, b, in
<1>3. in \in Incident
  BY <1>1, <1>2 DEF Incident, AlertType
<1>4. in.count = 0 /\ in.arrivals = <<>>
  BY <1>2
<1>5. Buffered(in)
  <2>1. Len(in.arrivals) = 0
    BY <1>4
  <2> QED
    BY <1>4, <2>1, KpConstants DEF Buffered
<1>6. /\ in.rule = ri /\ in.code = al.code /\ in.p1 = al.p1 /\ in.first = 0
      /\ ~ in.escalated /\ ~ in.due /\ in.thens = 0
  BY <1>2
<1> QED
  BY <1>3, <1>5, <1>6 DEF in

(* What one alert makes of its incident. *)
LEMMA AlertedIncident ==
    ASSUME RingInv, FeedInv, pc = "rules", NEW in \in Incident, Buffered(in),
           NEW run \in BOOLEAN, NEW hit \in BOOLEAN,
           in.rule = feed.ri, in.code = feed.al.code, in.p1 = feed.al.p1,
           hit <=> ~ in.escalated /\ Repeats(pol[feed.ri], in.arrivals),
           Repeats(pol[feed.ri], in.arrivals) => in.due,
           in.due => in.escalated \/ Repeats(pol[feed.ri], in.arrivals),
           in.escalated /\ pol[feed.ri].unacked = 0 => in.due,
           in.thens = IF in.escalated THEN 1 ELSE 0,
           Timely(in)
    PROVE  IncidentInv([in EXCEPT !.seq = feed.al.seq,
                                  !.run = IF run THEN 0 ELSE @,
                                  !.escalated = @ \/ hit,
                                  !.thens = IF hit THEN @ + 1 ELSE @])
<1> DEFINE rn == IF run THEN 0 ELSE in.run
<1> DEFINE es == in.escalated \/ hit
<1> DEFINE th == IF hit THEN in.thens + 1 ELSE in.thens
<1> DEFINE sq == feed.al.seq
<1> DEFINE out == [in EXCEPT !.seq = sq, !.run = rn, !.escalated = es, !.thens = th]
<1>1. rn \in Nat /\ es \in BOOLEAN /\ th \in Nat /\ sq \in 0..SEQ - 1
  BY DEF Incident, FeedInv, AlertType
<1>2. th = IF es THEN 1 ELSE 0
  <2>1. in.escalated \in BOOLEAN
    BY DEF Incident
  <2> QED
    BY <2>1
<1> HIDE DEF rn, es, th, sq
<1>3. out \in Incident
  BY ZenonT(60), <1>1 DEF Incident
<1>4. DOMAIN in = {"used", "rule", "code", "p1", "first", "last", "run", "seq", "count",
                   "recent", "escalated", "acked", "thens", "arrivals", "due", "start"}
  BY DEF Incident
<1>5. /\ out.seq = sq /\ out.escalated = es /\ out.thens = th /\ out.rule = in.rule
      /\ out.code = in.code /\ out.p1 = in.p1 /\ out.first = in.first /\ out.last = in.last
      /\ out.acked = in.acked /\ out.due = in.due /\ out.count = in.count
      /\ out.recent = in.recent /\ out.arrivals = in.arrivals
  BY ZenonT(60), <1>4
<1> HIDE DEF out
<1>6. out.rule \in DOMAIN pol
  BY ZenonT(60), <1>5 DEF FeedInv
<1>7. Buffered(out)
  BY ZenonT(60), <1>5 DEF Buffered
<1>8. EscalatedOnce(out)
  <2>1. (in.due => es) /\ (es /\ pol[feed.ri].unacked = 0 => in.due)
    BY ZenonT(60) DEF es
  <2> QED
    BY <1>2, <1>5, <2>1 DEF EscalatedOnce
<1>9. Attributed(out)
  BY ZenonT(60), <1>5 DEF Attributed, FeedInv, sq
<1>10. Timely(out)
  <2>1. in.escalated => es
    BY DEF es
  <2> QED
    BY <1>5, <2>1 DEF Timely
<1>11. IncidentInv(out)
  BY <1>3, <1>6, <1>7, <1>8, <1>9, <1>10 DEF IncidentInv
<1> QED
  BY ZenonT(60), <1>11 DEF out, rn, es, th, sq

(* kgp_alert() keeps the incident table: repetition escalates once. *)
LEMMA TableAlert ==
    ASSUME KpInv, kgp_alert
    PROVE  TableInv'
<1> DEFINE al == feed.al
<1> DEFINE ri == feed.ri
<1> DEFINE r  == pol[ri]
<1>1. PICK s \in {incident_slot(inc, ri, al)} :
      \E fresh \in {Fresh(inc, s, ri, al)} :
      \E in \in {Arrived(r, IF fresh THEN NewIncident(ri, al) ELSE inc[s])} :
         LET run == fresh \/ in.run >= r.throttle
             hit == RepeatHit(r, in)
         IN  /\ inc' = [inc EXCEPT ![s] =
                          [in EXCEPT !.seq = al.seq,
                                     !.run = IF run THEN 0 ELSE @,
                                     !.escalated = @ \/ hit,
                                     !.thens = IF hit THEN @ + 1 ELSE @]]
             /\ child' \in Started((IF run THEN r.do ELSE 0) + (IF hit THEN r.then ELSE 0))
  BY DEF kgp_alert
<1> DEFINE fresh == Fresh(inc, s, ri, al)
<1> DEFINE base == IF fresh THEN NewIncident(ri, al) ELSE inc[s]
<1> DEFINE in == Arrived(r, base)
<1> DEFINE run == fresh \/ in.run >= r.throttle
<1> DEFINE hit == RepeatHit(r, in)
<1> DEFINE out == [in EXCEPT !.seq = al.seq, !.run = IF run THEN 0 ELSE @,
                             !.escalated = @ \/ hit, !.thens = IF hit THEN @ + 1 ELSE @]
<1>2. inc' = [inc EXCEPT ![s] = out]
  BY <1>1
<1>3. /\ RingInv /\ FeedInv /\ TableInv /\ pc = "rules"
      /\ UNCHANGED <<pol, cursor, forged, covered, looped>>
  BY DEF KpInv, kgp_alert
<1>4. /\ ri \in DOMAIN pol /\ ri \in Nat /\ al \in AlertType
      /\ r.repeat_n \in {0} \cup 2..MAX_REPEAT /\ r.unacked \in Nat
  BY <1>3, PolicyDomain, PolicyRules DEF FeedInv, kgp_parse, parse_rule
<1>5. ASSUME s \in Slot
      PROVE  IncidentInv(out)
  <2>1. /\ base \in Incident /\ Buffered(base)
        /\ base.rule = ri /\ base.code = al.code /\ base.p1 = al.p1
        /\ EscalatedOnce(base) /\ Timely(base)
    <3>1. CASE fresh
      <4> HIDE DEF fresh, al, ri
      <4>1. /\ base \in Incident /\ Buffered(base)
            /\ base.rule = ri /\ base.code = al.code /\ base.p1 = al.p1 /\ base.first = 0
            /\ ~ base.escalated /\ ~ base.due /\ base.thens = 0
        BY <3>1, <1>4, NewIncidentInv
      <4>2. base.last = 0
        BY <3>1 DEF NewIncident
      <4> HIDE DEF base
      <4>3. EscalatedOnce(base)
        BY <4>1 DEF EscalatedOnce
      <4>4. Timely(base)
        BY <1>4, <4>1, <4>2 DEF Timely
      <4> QED
        BY ZenonT(60), <4>1, <4>3, <4>4
    <3>2. CASE ~ fresh
      <4>1. inc[s].used /\ inc[s].rule = ri /\ inc[s].code = al.code /\ inc[s].p1 = al.p1
        BY <3>2 DEF Fresh
      <4>2. IncidentInv(inc[s]) /\ inc[s] # Unused
        BY <1>3, <1>5, <4>1 DEF TableInv, Unused
      <4> HIDE DEF fresh
      <4> QED
        BY <3>2, <4>1, <4>2 DEF IncidentInv
    <3> QED
      BY ZenonT(60), <3>1, <3>2
  <2> HIDE DEF base, r
  <2>2. /\ in \in Incident /\ Buffered(in) /\ in.last = 0
        /\ in.due = (base.due \/ Repeats(r, in.arrivals))
        /\ in.rule = base.rule /\ in.code = base.code /\ in.p1 = base.p1
        /\ in.first = base.first /\ in.seq = base.seq /\ in.acked = base.acked
        /\ in.escalated = base.escalated /\ in.thens = base.thens
    BY <2>1, ArrivedIncident
  <2> HIDE DEF in
  <2>3. hit <=> ~ in.escalated /\ Repeats(r, in.arrivals)
    BY <1>4, <2>2, HitIsRepeat
  <2>4. run \in BOOLEAN /\ hit \in BOOLEAN
    BY DEF Fresh, RepeatHit
  <2> HIDE DEF hit, run
  <2>5. /\ Repeats(r, in.arrivals) => in.due
        /\ in.due => in.escalated \/ Repeats(r, in.arrivals)
        /\ in.escalated /\ r.unacked = 0 => in.due
        /\ in.thens = IF in.escalated THEN 1 ELSE 0
    BY ZenonT(60), <2>1, <2>2 DEF EscalatedOnce, r
  <2>6. Timely(in)
    <3>1. in.first \in Nat
      BY <2>2 DEF Incident
    <3> QED
      BY <2>1, <2>2, <3>1 DEF Timely
  <2> QED
    BY ZenonT(60), <1>3, <2>1, <2>2, <2>3, <2>4, <2>5, <2>6, AlertedIncident DEF r
<1> HIDE DEF out
<1>6. DOMAIN inc' = Slot
  BY <1>2, <1>3 DEF TableInv
<1>7. ASSUME NEW u \in Slot
      PROVE  IncidentInv(inc'[u])
  BY ZenonT(60), <1>2, <1>3, <1>5, <1>7 DEF TableInv
<1>8. ASSUME NEW u \in Slot
      PROVE  IncidentInv(inc[u])'
  BY ZenonT(60), <1>3, <1>7
     DEF IncidentInv, EscalatedOnce, Attributed, Timely
<1> QED
  BY <1>6, <1>8 DEF TableInv

(* The acknowledgement reaches every incident whose last alert it covers. *)
LEMMA TableAck ==
    ASSUME KpInv, CheckAckRead
    PROVE  TableInv'
<1> DEFINE u == ackFile.up_to
<1>0. RingInv /\ FeedInv /\ TableInv /\ AckInv
  BY DEF KpInv
<1>5. pol' = pol /\ cursor' = cursor /\ forged' = forged /\ looped' = looped
  BY DEF CheckAckRead
<1>1. inc' = kgp_ack(u) /\ covered' = covered \cup {n \in 0..Number(u) : n < cursor}
  BY DEF CheckAckRead
<1>2. u \in 0..SEQ - 1 /\ Number(u) \in Nat /\ Number(u) < MaxAlerts
  <2>1. u \in 0..SEQ - 1 /\ Number(u) \in 0..raised - 1 /\ raised \in 0..MaxAlerts
    BY <1>0 DEF AckInv, CheckAckRead, RingInv
  <2> HIDE DEF u
  <2> QED
    BY <2>1, KpConstants
<1> HIDE DEF u
<1>3. DOMAIN inc' = Slot
  BY <1>1 DEF kgp_ack
<1>4. ASSUME NEW s \in Slot
      PROVE  IncidentInv(inc[s])'
  <2> DEFINE in == inc[s]
  <2>1. IncidentInv(in)
    BY <1>0 DEF TableInv
  <2>2. CASE ~ in.used
    <3>1. in = Unused
      BY ZenonT(60), <2>1, <2>2 DEF IncidentInv, Incident
    <3>2. inc'[s] = Unused
      BY <1>1, <2>2, <3>1 DEF kgp_ack
    <3> QED
      BY <3>2 DEF IncidentInv
  <2>3. CASE in.used
    <3>1. /\ in \in Incident /\ in.rule \in DOMAIN pol
          /\ Buffered(in) /\ EscalatedOnce(in) /\ Attributed(in) /\ Timely(in)
      BY <2>1, <2>3 DEF IncidentInv, Unused
    <3>2. CASE Covers(u, in.seq)
      <4> DEFINE out == [in EXCEPT !.acked = TRUE]
      <4>1. inc'[s] = out
        BY <1>1, <2>3, <3>2 DEF kgp_ack
      <4>2. out \in Incident
        BY ZenonT(60), <3>1 DEF Incident
      <4>3. DOMAIN in = {"used", "rule", "code", "p1", "first", "last", "run", "seq", "count",
                   "recent", "escalated", "acked", "thens", "arrivals", "due", "start"}
        BY ZenonT(60), <3>1 DEF Incident
      <4>4. /\ out.acked = TRUE
            /\ out.seq = in.seq /\ out.escalated = in.escalated /\ out.thens = in.thens
            /\ out.rule = in.rule /\ out.code = in.code /\ out.p1 = in.p1
            /\ out.first = in.first /\ out.last = in.last
            /\ out.due = in.due /\ out.count = in.count
            /\ out.recent = in.recent /\ out.arrivals = in.arrivals
        BY <4>3
      <4> HIDE DEF out, in
      <4>5. Buffered(out)
        BY ZenonT(60), <3>1, <4>4 DEF Buffered
      <4>6. (EscalatedOnce(inc[s]) /\ Timely(inc[s]))'
        BY ZenonT(60), <1>5, <3>1, <4>1, <4>4 DEF EscalatedOnce, Timely
      <4>7. Attributed(inc[s])'
        BY ZenonT(60), <1>5, <3>1, <4>1, <4>4 DEF Attributed
      <4> QED
        BY ZenonT(60), <1>5, <3>1, <4>1, <4>2, <4>4, <4>5, <4>6, <4>7 DEF IncidentInv, Buffered
    <3>3. CASE ~ Covers(u, in.seq)
      <4>1. inc'[s] = in
        BY <1>1, <2>3, <3>3 DEF kgp_ack
      <4>2. in.seq \in 0..SEQ - 1 /\ Number(in.seq) \in Nat
        <5>1. in.seq \in 0..SEQ - 1
          BY ZenonT(60), <3>1 DEF Incident
        <5>2. Number(in.seq) \in 0..SEQ - 1
          BY <5>1, NumberRange
        <5> QED
          BY <5>1, <5>2, KpConstants
      <4> HIDE DEF in
      <4>3. ~ (Number(in.seq) <= Number(u))
        BY <1>2, <3>3, <4>2, CoversNumbered
      <4>4. Number(in.seq) \in covered' => Number(in.seq) \in covered
        BY <1>1, <1>2, <4>2, <4>3
      <4>5. Attributed(inc[s])'
        BY ZenonT(60), <1>5, <3>1, <4>1, <4>4 DEF Attributed
      <4>6. (EscalatedOnce(inc[s]) /\ Timely(inc[s]) /\ Buffered(inc[s]))'
        BY ZenonT(60), <1>5, <3>1, <4>1 DEF EscalatedOnce, Timely, Buffered
      <4> QED
        BY <1>5, <3>1, <4>1, <4>5, <4>6 DEF IncidentInv
    <3> QED
      BY <3>2, <3>3
  <2> QED
    BY <2>2, <2>3
<1> QED
  BY <1>3, <1>4 DEF TableInv

(* kgp_tick() keeps it: age escalates what is neither acknowledged nor *)
(* escalated, and what has been silent is forgotten.                   *)
LEMMA TableTick ==
    ASSUME KpInv, kgp_tick
    PROVE  TableInv'
<1> DEFINE hits == {s \in Slot : inc[s].used /\ ~Forgets(inc[s]) /\ AgeHit(inc[s])}
<1>0. FeedInv /\ TableInv
  BY DEF KpInv
<1>4. pol' = pol /\ cursor' = cursor /\ forged' = forged /\ covered' = covered
  BY ZenonT(60) DEF kgp_tick
<1>1. inc' = [s \in Slot |->
                IF ~inc[s].used \/ Forgets(inc[s]) THEN Unused
                ELSE IF s \in hits THEN [inc[s] EXCEPT !.escalated = TRUE, !.thens = @ + 1]
                ELSE inc[s]]
  BY ZenonT(60) DEF kgp_tick
<1>2. DOMAIN inc' = Slot
  BY ZenonT(60), <1>1
<1>3. ASSUME NEW s \in Slot
      PROVE  IncidentInv(inc[s])'
  <2> DEFINE in == inc[s]
  <2>1. IncidentInv(in)
    BY <1>0 DEF TableInv
  <2>2. CASE ~in.used \/ Forgets(in)
    <3>1. inc'[s] = Unused
      BY ZenonT(60), <1>1, <2>2
    <3> QED
      BY <3>1 DEF IncidentInv
  <2>3. CASE ~ (~in.used \/ Forgets(in))
    <3>1. /\ in \in Incident /\ in.rule \in DOMAIN pol
          /\ Buffered(in) /\ EscalatedOnce(in) /\ Attributed(in) /\ Timely(in)
      BY <2>1, <2>3 DEF IncidentInv, Unused
    <3>2. pol[in.rule].unacked \in Nat
      BY <1>0, <3>1, PolicyRules DEF FeedInv
    <3>3. CASE AgeHit(in)
      <4> DEFINE n == in.thens + 1
      <4> DEFINE out == [in EXCEPT !.escalated = TRUE, !.thens = n]
      <4>1. inc'[s] = out
        BY ZenonT(60), <1>1, <2>3, <3>3
      <4>2. n \in Nat /\ n = 1
        BY <3>1, <3>3 DEF EscalatedOnce, AgeHit
      <4> HIDE DEF n
      <4>3. out \in Incident
        BY ZenonT(60), <3>1, <4>2 DEF Incident
      <4>4. DOMAIN in = {"used", "rule", "code", "p1", "first", "last", "run", "seq", "count",
                   "recent", "escalated", "acked", "thens", "arrivals", "due", "start"}
        BY ZenonT(60), <3>1 DEF Incident
      <4>5. /\ out.escalated = TRUE /\ out.thens = n
            /\ out.seq = in.seq /\ out.acked = in.acked
            /\ out.rule = in.rule /\ out.code = in.code /\ out.p1 = in.p1
            /\ out.first = in.first /\ out.last = in.last
            /\ out.due = in.due /\ out.count = in.count
            /\ out.recent = in.recent /\ out.arrivals = in.arrivals
        BY <4>4
      <4>6. pol[in.rule].unacked > 0
        BY <3>3 DEF AgeHit
      <4> HIDE DEF out, in
      <4>7. Buffered(out)
        BY ZenonT(60), <3>1, <4>5 DEF Buffered
      <4>8. (EscalatedOnce(inc[s]) /\ Timely(inc[s]))'
        BY <1>4, <3>1, <3>2, <4>1, <4>2, <4>5, <4>6 DEF EscalatedOnce, Timely
      <4>9. Attributed(inc[s])'
        BY <1>4, <3>1, <4>1, <4>5 DEF Attributed
      <4> QED
        BY ZenonT(60), <1>4, <3>1, <4>1, <4>3, <4>5, <4>7, <4>8, <4>9 DEF IncidentInv, Buffered
    <3>4. CASE ~ AgeHit(in)
      <4>1. inc'[s] = in
        BY ZenonT(60), <1>1, <2>3, <3>4
      <4>2. /\ in.last <= in.first
            /\ pol[in.rule].unacked > 0 /\ in.first >= pol[in.rule].unacked =>
                    in.escalated \/ in.acked
            /\ pol[in.rule].unacked > 0 /\ in.first > pol[in.rule].unacked =>
                    in.escalated \/ in.acked
        BY ZenonT(60), <3>1, <3>4 DEF AgeHit, Timely
      <4> HIDE DEF in
      <4>3. Timely(inc[s])'
        BY ZenonT(60), <1>4, <4>1, <4>2 DEF Timely
      <4>4. (EscalatedOnce(inc[s]) /\ Attributed(inc[s]) /\ Buffered(inc[s]))'
        BY <1>4, <3>1, <4>1 DEF EscalatedOnce, Attributed, Buffered
      <4> QED
        BY <1>4, <3>1, <4>1, <4>3, <4>4 DEF IncidentInv
    <3> QED
      BY <3>3, <3>4
  <2> QED
    BY <2>2, <2>3
<1> QED
  BY <1>2, <1>3 DEF TableInv

(* An age grows by a second, or stays at the largest that is told apart. *)
LEMMA OlderAge ==
    ASSUME NEW a \in Nat
    PROVE  Older(a) \in Nat /\ a <= Older(a) /\ Older(a) <= a + 1
BY KpConstants DEF Older

(* Older ages leave an incident an incident. *)
LEMMA OlderIncident ==
    ASSUME NEW in \in Incident, NEW f \in Nat, NEW l \in Nat, NEW n \in Nat,
           NEW rec \in [0..MAX_REPEAT - 1 -> Nat], NEW arr \in Seq(Nat)
    PROVE  [in EXCEPT !.first = f, !.last = l, !.run = n, !.recent = rec, !.arrivals = arr]
              \in Incident
BY ZenonT(60) DEF Incident

(* A second leaves the buffer and the list of the arrivals in step. *)
LEMMA OlderBuffer ==
    ASSUME NEW in \in Incident, Buffered(in)
    PROVE  LET rec == [i \in DOMAIN in.recent |-> Older(in.recent[i])]
               arr == [i \in DOMAIN in.arrivals |-> Older(in.arrivals[i])]
           IN  /\ rec \in [0..MAX_REPEAT - 1 -> Nat]
               /\ arr \in Seq(Nat) /\ Len(arr) = Len(in.arrivals)
               /\ \A k \in 1..Len(arr) :
                    arr[Len(arr) - k + 1] = rec[(in.count - k) % MAX_REPEAT]
<1> DEFINE b == in.recent
<1> DEFINE s == in.arrivals
<1> DEFINE n == Len(s)
<1> DEFINE M == MAX_REPEAT
<1> DEFINE rec == [i \in DOMAIN b |-> Older(b[i])]
<1> DEFINE arr == [i \in DOMAIN s |-> Older(s[i])]
<1>1. b \in [0..M - 1 -> Nat] /\ s \in Seq(Nat) /\ n \in Nat /\ in.count \in Nat
  BY DEF Incident
<1>2. M \in Nat \ {0}
  BY KpConstants
<1>3. \A k \in 1..n : s[n - k + 1] = b[(in.count - k) % M]
  BY DEF Buffered
<1>4. DOMAIN b = 0..M - 1 /\ \A i \in 0..M - 1 : b[i] \in Nat
  <2> HIDE DEF b, M
  <2> QED
    BY <1>1
<1>5. DOMAIN s = 1..n /\ \A i \in 1..n : s[i] \in Nat
  <2> HIDE DEF s
  <2> QED
    BY <1>1
<1>6. rec \in [0..M - 1 -> Nat] /\ \A i \in 0..M - 1 : rec[i] = Older(b[i])
  <2> HIDE DEF b, M
  <2> QED
    BY ZenonT(60), <1>4, OlderAge
<1>7. /\ arr \in [1..n -> Nat] /\ \A i \in 1..n : arr[i] = Older(s[i])
  <2> HIDE DEF s, n
  <2> QED
    BY ZenonT(60), <1>5, OlderAge
<1>8. arr \in Seq(Nat) /\ Len(arr) = n
  <2> HIDE DEF arr, n
  <2> QED
    BY <1>1, <1>7
<1> HIDE DEF b, s, n, M, rec, arr
<1>9. ASSUME NEW k \in 1..n
      PROVE  arr[n - k + 1] = rec[(in.count - k) % M]
  <2>1. n - k + 1 \in 1..n
    BY <1>1
  <2>2. (in.count - k) % M \in 0..M - 1
    BY <1>1, <1>2
  <2> QED
    BY <1>3, <1>6, <1>7, <2>1, <2>2
<1>10. \A k \in 1..Len(arr) : arr[Len(arr) - k + 1] = rec[(in.count - k) % M]
  BY <1>8, <1>9, Zenon
<1> QED
  BY <1>6, <1>8, <1>10, Zenon DEF b, s, n, M, rec, arr

(* A second that passes keeps the table: the pass of the loop in it has *)
(* escalated what was due by age.                                       *)
LEMMA TableSecond ==
    ASSUME KpInv, Second
    PROVE  TableInv'
<1>0. FeedInv /\ TableInv /\ looped = "done"
  BY ZenonT(60) DEF KpInv, Second
<1>1. /\ pol' = pol /\ cursor' = cursor /\ forged' = forged /\ covered' = covered
      /\ looped' = "no"
  BY ZenonT(60) DEF Second
<1>2. inc' = [s \in Slot |->
                IF ~inc[s].used THEN Unused
                ELSE [inc[s] EXCEPT !.first = Older(@), !.last = Older(@),
                        !.run = Older(@),
                        !.recent = [i \in DOMAIN @ |-> Older(@[i])],
                        !.arrivals = [i \in DOMAIN @ |-> Older(@[i])]]]
  BY ZenonT(60) DEF Second
<1>3. DOMAIN inc' = Slot
  BY ZenonT(60), <1>2
<1>4. ASSUME NEW s \in Slot
      PROVE  IncidentInv(inc[s])'
  <2> DEFINE in == inc[s]
  <2>1. IncidentInv(in)
    BY <1>0 DEF TableInv
  <2>2. CASE ~in.used
    <3>1. inc'[s] = Unused
      BY ZenonT(60), <1>2, <2>2
    <3> QED
      BY <3>1 DEF IncidentInv
  <2>3. CASE in.used
    <3>1. /\ in \in Incident /\ in.rule \in DOMAIN pol
          /\ Buffered(in) /\ EscalatedOnce(in) /\ Attributed(in) /\ Timely(in)
      BY <2>1, <2>3 DEF IncidentInv, Unused
    <3>2. pol[in.rule].unacked \in Nat
      BY <1>0, <3>1, PolicyRules DEF FeedInv
    <3> DEFINE rec == [i \in DOMAIN in.recent |-> Older(in.recent[i])]
    <3> DEFINE arr == [i \in DOMAIN in.arrivals |-> Older(in.arrivals[i])]
    <3> DEFINE f == Older(in.first)
    <3> DEFINE l == Older(in.last)
    <3> DEFINE n == Older(in.run)
    <3> DEFINE out == [in EXCEPT !.first = f, !.last = l, !.run = n,
                                 !.recent = rec, !.arrivals = arr]
    <3>3. inc'[s] = out
      BY ZenonT(60), <1>2, <2>3
    <3>4. /\ rec \in [0..MAX_REPEAT - 1 -> Nat]
          /\ arr \in Seq(Nat) /\ Len(arr) = Len(in.arrivals)
          /\ \A k \in 1..Len(arr) :
                arr[Len(arr) - k + 1] = rec[(in.count - k) % MAX_REPEAT]
      <4> HIDE DEF in
      <4> QED
        BY <3>1, OlderBuffer, Zenon
    <3>5. in.first \in Nat /\ in.last \in Nat /\ in.run \in Nat
      BY ZenonT(60), <3>1 DEF Incident
    <3>6. f \in Nat /\ l \in Nat /\ n \in Nat /\ f <= in.first + 1
      <4> HIDE DEF in
      <4> QED
        BY <3>5, OlderAge
    <3>7. l <= f
      <4>1. in.last <= in.first
        BY <3>1 DEF Timely
      <4> QED
        BY <3>5, <4>1, KpConstants DEF Older
    <3> HIDE DEF rec, arr, f, l, n
    <3>8. out \in Incident
      <4> HIDE DEF in
      <4> QED
        BY ZenonT(60), <3>1, <3>4, <3>6, OlderIncident
    <3>9. DOMAIN in = {"used", "rule", "code", "p1", "first", "last", "run", "seq", "count",
                 "recent", "escalated", "acked", "thens", "arrivals", "due", "start"}
      BY ZenonT(60), <3>1 DEF Incident
    <3>10. /\ out.first = f /\ out.last = l /\ out.recent = rec /\ out.arrivals = arr
           /\ out.seq = in.seq /\ out.escalated = in.escalated /\ out.thens = in.thens
           /\ out.rule = in.rule /\ out.code = in.code /\ out.p1 = in.p1
           /\ out.acked = in.acked /\ out.due = in.due /\ out.count = in.count
      BY ZenonT(60), <3>9
    <3>11. pol[in.rule].unacked > 0 /\ in.first >= pol[in.rule].unacked =>
                in.escalated \/ in.acked
      BY ZenonT(60), <1>0, <3>1 DEF Timely
    <3>12. IF in.count > MAX_REPEAT THEN Len(in.arrivals) = MAX_REPEAT
           ELSE Len(in.arrivals) = in.count
      BY <3>1 DEF Buffered
    <3> HIDE DEF out, in
    <3>13. Buffered(out)
      BY <3>4, <3>10, <3>12, Zenon DEF Buffered
    <3>14. pol[in.rule].unacked > 0 /\ f > pol[in.rule].unacked => in.escalated \/ in.acked
      BY <3>2, <3>5, <3>6, <3>11
    <3>15. (EscalatedOnce(inc[s]) /\ Attributed(inc[s]))'
      BY ZenonT(60), <1>1, <3>1, <3>3, <3>10 DEF EscalatedOnce, Attributed
    <3>16. Timely(inc[s])'
      BY <1>1, <3>3, <3>7, <3>10, <3>14 DEF Timely
    <3> QED
      BY <1>1, <3>1, <3>3, <3>8, <3>10, <3>13, <3>15, <3>16 DEF IncidentInv, Buffered
  <2> QED
    BY <2>2, <2>3
<1> QED
  BY <1>3, <1>4 DEF TableInv

(* The other steps leave the table alone. *)
LEMMA TableQuiet ==
    ASSUME KpInv, inc' = inc, pol' = pol, covered' = covered,
           NEW c \in Nat, cursor' = c, cursor <= c, forged' \subseteq forged \cup {raised},
           looped' = "done" => looped = "done"
    PROVE  TableInv'
<1>1. TableInv /\ cursor \in Nat /\ raised \in Nat /\ cursor <= raised
  BY DEF KpInv, RingInv
<1>2. ASSUME NEW s \in Slot
      PROVE  IncidentInv(inc[s])'
  <2>1. IncidentInv(inc[s])
    BY <1>1 DEF TableInv
  <2> DEFINE in == inc[s]
  <2>2. CASE in = Unused
    BY <2>2 DEF IncidentInv
  <2>3. CASE in # Unused
    <3>1. /\ in \in Incident /\ in.rule \in DOMAIN pol
          /\ Buffered(in) /\ EscalatedOnce(in) /\ Attributed(in) /\ Timely(in)
      BY ZenonT(60), <2>1, <2>3 DEF IncidentInv
    <3> DEFINE N == Number(in.seq)
    <3>2. N \in 0..cursor - 1
      BY <3>1 DEF Attributed
    <3> HIDE DEF N
    <3>3. N \in 0..c - 1 /\ N # raised
      BY <1>1, <3>2
    <3>4. Attributed(inc[s])'
      BY <3>1, <3>3 DEF Attributed, N
    <3>5. Timely(inc[s])'
      BY ZenonT(60), <3>1 DEF Timely
    <3> QED
      BY ZenonT(60), <3>1, <3>4, <3>5 DEF IncidentInv, EscalatedOnce, Buffered
  <2> QED
    BY <2>2, <2>3
<1> QED
  BY <1>1, <1>2 DEF TableInv

(* Every step keeps the incident table. *)
LEMMA TableStep ==
    ASSUME KpInv, [KpNext]_kpVars
    PROVE  TableInv'
<1>2. cursor \in Nat /\ raised \in Nat /\ SLOTS \in Nat
  BY KpConstants DEF KpInv, RingInv
<1>3. ASSUME inc' = inc, pol' = pol, covered' = covered, forged' = forged,
             NEW c \in Nat, cursor' = c, cursor <= c,
             looped' = "done" => looped = "done"
      PROVE  TableInv'
  <2>1. forged' \subseteq forged \cup {raised}
    BY <1>3
  <2> QED
    BY <1>3, <2>1, TableQuiet
<1>4. ASSUME NEW a \in Alerts, Raise(a)
      PROVE  TableInv'
  <2>1. /\ inc' = inc /\ pol' = pol /\ covered' = covered /\ cursor' = cursor
        /\ forged' \subseteq forged \cup {raised} /\ looped' = looped
    BY <1>4 DEF Raise
  <2> QED
    BY <1>2, <2>1, TableQuiet
<1>5. CASE DrainBegin
  <2> DEFINE c == IF raised - cursor > SLOTS THEN raised - SLOTS ELSE cursor
  <2>1. c \in Nat /\ cursor <= c
    BY <1>2
  <2>2. cursor' = c /\ (looped' = "done" => looped = "done")
    BY <1>5 DEF DrainBegin
  <2> HIDE DEF c
  <2> QED
    BY <1>3, <1>5, <2>1, <2>2 DEF DrainBegin
<1>6. CASE emit \/ Unreadable
  <2>1. cursor + 1 \in Nat /\ cursor <= cursor + 1
    BY <1>2
  <2>2. /\ inc' = inc /\ pol' = pol /\ covered' = covered /\ forged' = forged
        /\ cursor' = cursor + 1 /\ looped' = looped
    BY <1>6 DEF emit, Unreadable
  <2> QED
    BY <1>3, <2>1, <2>2
<1>7. ASSUME inc' = inc, pol' = pol, covered' = covered, forged' = forged,
             cursor' = cursor, looped' = looped
      PROVE  TableInv'
  BY <1>2, <1>3, <1>7
<1>8. CASE ReapAndStat \/ AckLook \/ AckWrite
  BY <1>7, <1>8 DEF ReapAndStat, AckLook, AckWrite
<1>9. ASSUME NEW c, ChildEnds(c)
      PROVE  TableInv'
  BY <1>7, <1>9 DEF ChildEnds
<1>10. CASE UNCHANGED kpVars
  <2>1. /\ inc' = inc /\ pol' = pol /\ covered' = covered /\ forged' = forged
        /\ cursor' = cursor /\ looped' = looped
    BY <1>10 DEF kpVars
  <2> QED
    BY <1>7, <2>1
<1> QED
  BY <1>4, <1>5, <1>6, <1>8, <1>9, <1>10, TableAlert, TableAck, TableTick,
     TableSecond DEF KpNext, Monitor

(* The invariant of kgmon's policy engine, for any policies that            *)
(* parse_rule() accepts, any alerts and any sizes of table, ring and        *)
(* buffer: ring and reader, the alert in hand, the acknowledgement file and *)
(* the incident table.                                                      *)
THEOREM KpInvariant == KpSpec => []KpInv
<1>1. KpInit => KpInv
  BY KpInitInv
<1>2. KpInv /\ [KpNext]_kpVars => KpInv'
  BY RingStep, FeedStep, AckStep, TableStep DEF KpInv
<1> QED
  BY <1>1, <1>2, PTL DEF KpSpec

(* kgp_alert() and kgp_tick(): the `then' actions of an incident run once *)
(* at most, whichever of repetition and age comes first, and repetition   *)
(* escalates exactly when N arrivals lie within the window.               *)
THEOREM Escalation == KpSpec => []EscalatesOnceWhenDue
<1>1. ASSUME KpInv
      PROVE  EscalatesOnceWhenDue
  <2> SUFFICES ASSUME NEW s \in Slot, inc[s].used
               PROVE  EscalatedOnce(inc[s])
    BY ZenonT(60) DEF EscalatedOnce, EscalatesOnceWhenDue
  <2>1. IncidentInv(inc[s])
    BY ZenonT(60), <1>1 DEF KpInv, TableInv
  <2> QED
    BY <2>1 DEF IncidentInv, Unused
<1> QED
  BY <1>1, KpInvariant, PTL

(* policy_feed(): no notification whose HMAC fails shows in an incident *)
(* with its own code or offender.                                       *)
THEOREM Forgery == KpSpec => []ForgedSteersNothing
<1>1. KpInv => ForgedSteersNothing
  BY DEF KpInv, TableInv, IncidentInv, Attributed, Unused, ForgedSteersNothing
<1> QED
  BY <1>1, KpInvariant, PTL

(* kgp_ack(): kgp_tick() never escalates an incident whose last alert an *)
(* acknowledgement has covered, wherever the sequence numbers wrap.      *)
THEOREM Acknowledgement == KpSpec => AckedStaysQuiet
<1> DEFINE Quiet ==
        \A s \in Slot :
           kgp_tick /\ inc[s].used /\ inc'[s].used /\ inc'[s].thens > inc[s].thens
               => Number(inc[s].seq) \notin covered
<1>1. ASSUME KpInv
      PROVE  Quiet
  <2> SUFFICES ASSUME NEW s \in Slot, kgp_tick, inc[s].used, inc'[s].used,
                      inc'[s].thens > inc[s].thens, Number(inc[s].seq) \in covered
               PROVE  FALSE
    BY ZenonT(60)
  <2> DEFINE in == inc[s]
  <2>1. in \in Incident /\ Attributed(in)
    BY <1>1 DEF KpInv, TableInv, IncidentInv, Unused
  <2>2. in.acked
    BY <2>1 DEF Attributed
  <2>3. inc'[s] = Unused \/ inc'[s] = in
    BY ZenonT(60), <2>2 DEF kgp_tick, AgeHit
  <2>4. inc'[s] = in
    BY <2>3 DEF Unused
  <2>5. in.thens \in Nat
    BY ZenonT(60), <2>1 DEF Incident
  <2> QED
    BY <2>4, <2>5
<1> HIDE DEF Quiet
<1>2. KpInv /\ [KpNext]_kpVars => [Quiet]_kpVars
  BY <1>1
<1>3. KpSpec => [][Quiet]_kpVars
  BY <1>2, KpInvariant, PTL DEF KpSpec
<1> QED
  BY <1>3 DEF Quiet, AckedStaysQuiet

(* An alert takes no incident away: the slot it reuses holds a new one. *)
LEMMA AlertKeepsUsed ==
    ASSUME KpInv, kgp_alert, NEW u \in Slot, inc[u].used
    PROVE  inc'[u].used
<1> DEFINE al == feed.al
<1> DEFINE ri == feed.ri
<1> DEFINE r  == pol[ri]
<1>1. PICK s \in {incident_slot(inc, ri, al)} :
      \E fresh \in {Fresh(inc, s, ri, al)} :
      \E in \in {Arrived(r, IF fresh THEN NewIncident(ri, al) ELSE inc[s])} :
         LET run == fresh \/ in.run >= r.throttle
             hit == RepeatHit(r, in)
         IN  /\ inc' = [inc EXCEPT ![s] =
                          [in EXCEPT !.seq = al.seq,
                                     !.run = IF run THEN 0 ELSE @,
                                     !.escalated = @ \/ hit,
                                     !.thens = IF hit THEN @ + 1 ELSE @]]
             /\ child' \in Started((IF run THEN r.do ELSE 0) + (IF hit THEN r.then ELSE 0))
  BY DEF kgp_alert
<1> DEFINE fresh == Fresh(inc, s, ri, al)
<1> DEFINE base == IF fresh THEN NewIncident(ri, al) ELSE inc[s]
<1> DEFINE in == Arrived(r, base)
<1> DEFINE run == fresh \/ in.run >= r.throttle
<1> DEFINE hit == RepeatHit(r, in)
<1> DEFINE out == [in EXCEPT !.seq = al.seq, !.run = IF run THEN 0 ELSE @,
                             !.escalated = @ \/ hit, !.thens = IF hit THEN @ + 1 ELSE @]
<1>2. inc' = [inc EXCEPT ![s] = out]
  BY <1>1
<1>3. CASE s = u
  <2>1. base.used
    BY <1>3 DEF NewIncident
  <2>2. in.used
    <3> HIDE DEF base, r
    <3> QED
      BY <2>1 DEF Arrived
  <2>3. out.used
    <3> HIDE DEF in, run, hit
    <3> QED
      BY <2>2
  <2> QED
    BY ZenonT(60), <1>2, <1>3, <2>3 DEF KpInv, TableInv
<1>4. CASE s # u
  <2> HIDE DEF out
  <2> QED
    BY <1>2, <1>4 DEF KpInv, TableInv
<1> QED
  BY <1>3, <1>4

(* kgp_tick(): an unacknowledged incident does not wait beyond the second *)
(* in which it is due, and with reset= above unacked= is not forgotten    *)
(* before.                                                                *)
THEOREM Overdue == KpSpec => UnackedEscalates
<1>1. KpInv => NeverOverdue
  BY DEF KpInv, TableInv, IncidentInv, Timely, Unused, NeverOverdue
<1>2. ASSUME KpInv, KpNext
      PROVE  NotJustForgotten
  <2> SUFFICES ASSUME NEW s \in Slot, inc[s].used, ~ inc'[s].used,
                      ~ (pol[inc[s].rule].unacked = 0),
                      ~ (pol[inc[s].rule].reset <= pol[inc[s].rule].unacked),
                      ~ inc[s].escalated, ~ inc[s].acked
               PROVE  FALSE
    BY DEF NotJustForgotten
  <2> DEFINE in == inc[s]
  <2>1. in \in Incident /\ Timely(in) /\ in.rule \in DOMAIN pol /\ DOMAIN inc = Slot
    <3>1. IncidentInv(in) /\ DOMAIN inc = Slot
      BY ZenonT(60), <1>2 DEF KpInv, TableInv
    <3> QED
      BY <3>1 DEF IncidentInv, Unused
  <2>2. pol[in.rule].unacked \in Nat /\ pol[in.rule].reset \in Nat
    BY <1>2, <2>1, PolicyRules DEF KpInv, FeedInv
  <2>3. kgp_tick /\ Forgets(in)
    <3>1. inc' # inc
      OBVIOUS
    <3>2. ~ kgp_alert
      BY <1>2, AlertKeepsUsed
    <3>3. ~ CheckAckRead
      <4>1. CheckAckRead => inc'[s].used
        <5>1. [in EXCEPT !.acked = TRUE].used
          BY <2>1 DEF Incident
        <5> QED
          BY <5>1 DEF CheckAckRead, kgp_ack
      <4> QED
        BY <4>1
    <3>4. ~ Second
      <4> DEFINE rec == [i \in DOMAIN in.recent |-> Older(in.recent[i])]
      <4> DEFINE arr == [i \in DOMAIN in.arrivals |-> Older(in.arrivals[i])]
      <4> DEFINE f == Older(in.first)
      <4> DEFINE l == Older(in.last)
      <4> DEFINE n == Older(in.run)
      <4> DEFINE out == [in EXCEPT !.first = f, !.last = l, !.run = n,
                                   !.recent = rec, !.arrivals = arr]
      <4>1. Second => inc'[s] = out
        BY ZenonT(60) DEF Second
      <4>2. out.used
        <5> HIDE DEF rec, arr, f, l, n
        <5> QED
          BY <2>1 DEF Incident
      <4> HIDE DEF out
      <4> QED
        BY <4>1, <4>2
    <3>5. kgp_tick
      BY ZenonT(60), <1>2, <3>1, <3>2, <3>3, <3>4
         DEF KpNext, Monitor, Raise, DrainBegin, emit, Unreadable, ReapAndStat,
             AckLook, AckWrite, ChildEnds
    <3>6. Forgets(in)
      <4>1. [in EXCEPT !.escalated = TRUE, !.thens = in.thens + 1].used
        BY ZenonT(60), <2>1 DEF Incident
      <4> QED
        BY ZenonT(60), <3>5, <4>1 DEF kgp_tick
    <3> QED
      BY <3>5, <3>6
  <2>4. in.last >= pol[in.rule].reset /\ in.first \in Nat /\ in.last \in Nat
    BY ZenonT(60), <2>1, <2>3 DEF Forgets, Incident
  <2>5. in.last <= in.first
    BY ZenonT(60), <2>1 DEF Timely
  <2>6. pol[in.rule].unacked > 0 /\ in.first > pol[in.rule].unacked
    BY <2>2, <2>4, <2>5
  <2> QED
    BY ZenonT(60), <2>1, <2>6 DEF Timely
<1> DEFINE Kept == NeverOverdue' /\ NotJustForgotten
<1>3. KpInv /\ KpInv' /\ [KpNext]_kpVars => [Kept]_kpVars
  <2>1. KpInv' => NeverOverdue'
    BY <1>1, PTL
  <2> QED
    BY <1>2, <2>1
<1> HIDE DEF Kept
<1>4. KpSpec => [][Kept]_kpVars
  BY <1>3, KpInvariant, PTL DEF KpSpec
<1> QED
  BY ZenonT(60), <1>4 DEF Kept, UnackedEscalates
===============================================================================

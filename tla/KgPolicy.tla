------------------------------- MODULE KgPolicy -------------------------------
(***************************************************************************)
(* kgmon's escalation policy: the incident table of kg_policy.c, the loop  *)
(* of cmd_monitor() that feeds it, the helper processes its actions run    *)
(* in, and `kgmon ack`, a second process that talks to the loop through a  *)
(* file.  Times are kept as ages in seconds, which stop counting at MAXAGE *)
(* (every comparison in the code is between an age and a parameter).  A    *)
(* slot of the ring is written and read in one step here; module KgRing is *)
(* about the ring itself.                                                  *)
(***************************************************************************)
EXTENDS Integers, FiniteSets, Sequences, FiniteSetsExt, Functions

CONSTANTS
    Policies,       \* policies (sequences of rules) an operator may write
    Alerts,         \* what the ring may carry: [code, p1, level, ok]; ok: its
                    \* HMAC verifies
    MAX_INCIDENTS,  \* KGP_MAX_INCIDENTS
    MAX_REPEAT,     \* KGP_MAX_REPEAT
    MAX_CHILDREN,   \* helper processes at once
    TIMEOUT, GRACE, \* timeout_s of an action; the 5 s after a kill
    SLOTS,          \* notifications the ring holds
    SEQ, FirstSeq,  \* sequence numbers are modulo SEQ (2^32) from FirstSeq
    USE_NOTIFY,     \* --notify: desktop notifications are helpers too
    MaxAlerts,      \* bound on the notifications
    MaxAcks         \* bound on the runs of `kgmon ack`

ASSUME PolicyAssumption ==
    /\ {MAX_REPEAT, MAX_INCIDENTS, MAX_CHILDREN, TIMEOUT, GRACE, SLOTS} \subseteq Nat \ {0}
    /\ MAX_REPEAT >= 2
    /\ {SEQ, FirstSeq, MaxAlerts, MaxAcks} \subseteq Nat
    /\ SEQ > 2 * MaxAlerts          \* no incident is half the space old
    /\ SEQ > 0

(* What the operator writes, and what the driver sends. *)
ASSUME RulesAssumption ==
    Policies \subseteq Seq([min_level : Nat, codes : SUBSET STRING, throttle : Nat, reset : Nat,
                           repeat_n : Nat, window : Nat, unacked : Nat, do : Nat, then : Nat])

ASSUME AlertsAssumption ==
    \A a \in Alerts : a.p1 \in Nat /\ a.level \in 0..3 /\ a.ok \in BOOLEAN

FORGED == "FORGED"
OVERRUN == "OVERRUN"
TAMPER == "TAMPER"
Pseudo == {FORGED, OVERRUN, TAMPER} \* what kgmon itself concludes
NoOffender == 0                     \* param1 of a pseudo alert
Level == 0..3                       \* info, warning, critical, forged

(* The constraints parse_rule() puts on one rule line; 0 is "not given". *)
parse_rule(r) ==
    /\ r.min_level \in Level /\ r.throttle >= 0 /\ r.reset >= 1
    /\ r.repeat_n \in {0} \cup 2..MAX_REPEAT
    /\ r.repeat_n > 0 => r.window >= 1
    /\ r.do > 0
    /\ r.then > 0 <=> r.repeat_n > 0 \/ r.unacked > 0

kgp_parse(p) == \A i \in DOMAIN p : parse_rule(p[i])

MAXAGE ==
    LET ages == UNION {UNION {{r.throttle, r.reset, r.window, r.unacked} :
                                r \in Range(p)} : p \in Policies}
    IN  1 + Max(ages)

(* The times in the policies have a largest one. *)
ASSUME AgesAssumption == MAXAGE \in Nat

VARIABLES
    pol,            \* the loaded policy
    ring,           \* the notifications in the ring that were not read yet
    raised,         \* notifications raised so far: write_index
    cursor, w,      \* drain(): the number of the next notification, and where it ends
    pc, feed,       \* where cmd_monitor() is, and the alert kgp_alert() is working on
    inc,            \* the incident table
    child,          \* g_children
    ackFile, seen,  \* the ack file [id, up_to], and ack_seen
    stat,           \* the identity policy_check_ack() got from stat()
    acker,          \* `kgmon ack`: the write_index it read, or Idle
    looped,         \* how much of a pass of the loop this second has seen
    forged,         \* history: numbers of notifications with a bad HMAC
    covered         \* history: numbers drained and then acknowledged

kpVars == <<pol, ring, raised, cursor, w, pc, feed, inc, child, ackFile, seen,
            stat, acker, looped, forged, covered>>

Unused == [used |-> FALSE]
Free == [state |-> "free", left |-> 0]
LATE == -2                          \* a deadline is kept down to this
Idle == -1
NoFeed == [ri |-> 0]

Slot == 1..MAX_INCIDENTS
Seq32(n) == (FirstSeq + n) % SEQ
Number(s) == (s - FirstSeq) % SEQ   \* the notification a sequence number stands for

KpInit ==
    /\ pol \in {p \in Policies : kgp_parse(p)}
    /\ ring = <<>> /\ raised = 0 /\ cursor = 0 /\ w = 0
    /\ pc = "poll" /\ feed = NoFeed
    /\ inc = [s \in Slot |-> Unused]
    /\ child = [c \in 1..MAX_CHILDREN |-> Free]
    /\ ackFile = [id |-> 0, up_to |-> 0] /\ seen = 0 /\ stat = 0
    /\ acker = Idle /\ looped = "no"
    /\ forged = {} /\ covered = {}

-----------------------------------------------------------------------------
(* The driver publishes; a full ring loses its oldest notification. *)

Raise(a) ==
    /\ raised < MaxAlerts
    /\ LET n == [code |-> a.code, p1 |-> a.p1, level |-> a.level,
                 seq |-> Seq32(raised), ok |-> a.ok]
       IN  ring' = Append(IF Len(ring) = SLOTS THEN Tail(ring) ELSE ring, n)
    /\ raised' = raised + 1
    /\ forged' = IF a.ok THEN forged ELSE forged \cup {raised}
    /\ UNCHANGED <<pol, cursor, w, feed, pc, inc, child, ackFile, seen, stat, acker,
                   looped, covered>>

-----------------------------------------------------------------------------
(* The engine. *)

rule_matches(r, al) ==
    al.level >= r.min_level /\ (r.codes = {} \/ al.code \in r.codes)

(* incident_slot(): the incident's own slot, else a free one, else the one  *)
(* that has been silent longest.                                            *)
incident_slot(t, ri, al) ==
    LET own == {s \in Slot : /\ t[s].used /\ t[s].rule = ri
                             /\ t[s].code = al.code /\ t[s].p1 = al.p1}
        free == {s \in Slot : ~t[s].used}
    IN  IF own # {} THEN Min(own)
        ELSE IF free # {} THEN Min(free)
        ELSE Min({s \in Slot : \A u \in Slot : t[u].last <= t[s].last})

Fresh(t, s, ri, al) ==
    \/ ~t[s].used
    \/ t[s].rule # ri \/ t[s].code # al.code \/ t[s].p1 # al.p1
    \/ t[s].acked

NewIncident(ri, al) ==
    [used |-> TRUE, rule |-> ri, code |-> al.code, p1 |-> al.p1,
     first |-> 0, last |-> 0, run |-> 0, seq |-> al.seq, count |-> 0,
     recent |-> [i \in 0..MAX_REPEAT - 1 |-> MAXAGE],
     escalated |-> FALSE, acked |-> FALSE,
     thens |-> 0,                   \* history: escalations run
     arrivals |-> <<>>,             \* history: ages of the last arrivals
     due |-> FALSE,                 \* history: N of them fell in the window
     start |-> Number(al.seq)]      \* history: the first notification

(* History: do the last repeat_n arrivals lie within the window? *)
Repeats(r, arrivals) ==
    r.repeat_n > 0 /\ Len(arrivals) >= r.repeat_n
        /\ arrivals[Len(arrivals) - r.repeat_n + 1] <= r.window

LastFew(s) == IF Len(s) > MAX_REPEAT THEN Tail(s) ELSE s

(* Mutant: the arrival the window is measured from is one too recent. *)
RepeatHit_OffByOne(r, in) ==
    /\ r.repeat_n > 0 /\ ~in.escalated /\ in.count >= r.repeat_n
    /\ in.recent[(in.count - r.repeat_n + 1) % MAX_REPEAT] <= r.window

RepeatHit(r, in) ==
    /\ r.repeat_n > 0 /\ ~in.escalated /\ in.count >= r.repeat_n
    /\ in.recent[(in.count - r.repeat_n) % MAX_REPEAT] <= r.window

(* run_action() and notify_desktop(): each takes a free slot of g_children, *)
(* and is dropped when there is none or fork() fails.                       *)
Started(n) ==
    {[c \in DOMAIN child |->
        IF c \in S THEN [state |-> "running", left |-> TIMEOUT] ELSE child[c]] :
     S \in {T \in SUBSET {c \in DOMAIN child : child[c] = Free} :
               Cardinality(T) <= n}}

(* The incident after one more arrival, before any escalation. *)
Arrived(r, in) ==
    LET arr == LastFew(Append(in.arrivals, 0))
    IN  [in EXCEPT !.last = 0, !.count = @ + 1,
                   !.recent[in.count % MAX_REPEAT] = 0,
                   !.arrivals = arr, !.due = @ \/ Repeats(r, arr)]

(* kgp_alert() goes through the rules in order; feed is the alert and the   *)
(* rule it is at.                                                           *)
Feed(al, ri) ==
    LET more == {i \in DOMAIN pol : i >= ri /\ rule_matches(pol[i], al)}
    IN  \/ more = {} /\ pc' = "drain" /\ feed' = NoFeed
        \/ \E i \in more :
             /\ \A j \in more : i <= j
             /\ pc' = "rules" /\ feed' = [al |-> al, ri |-> i]

(* One rule of it: the incident, its do actions, its escalation. *)
kgp_alert ==
    /\ pc = "rules"
    /\ LET al == feed.al
           ri == feed.ri
           r  == pol[ri]
       IN  \E s \in {incident_slot(inc, ri, al)} :
           \E fresh \in {Fresh(inc, s, ri, al)} :
           \E in \in {Arrived(r, IF fresh THEN NewIncident(ri, al) ELSE inc[s])} :
             LET run == fresh \/ in.run >= r.throttle
                 hit == RepeatHit(r, in)
             IN  /\ inc' = [inc EXCEPT ![s] =
                              [in EXCEPT !.seq = al.seq,
                                         !.run = IF run THEN 0 ELSE @,
                                         !.escalated = @ \/ hit,
                                         !.thens = IF hit THEN @ + 1 ELSE @]]
                 /\ child' \in Started((IF run THEN r.do ELSE 0)
                                       + (IF hit THEN r.then ELSE 0))
    /\ Feed(feed.al, feed.ri + 1)
    /\ UNCHANGED <<pol, ring, raised, cursor, w, ackFile, seen, stat, acker,
                   looped, forged, covered>>

-----------------------------------------------------------------------------
(* cmd_monitor(): poll, drain, reap, look for an acknowledgement, tick. *)

policy_pseudo(code, level, n) ==
    [code |-> code, p1 |-> NoOffender, level |-> level, seq |-> Seq32(n)]

(* drain(): read write_index; a monitor that was lapped goes on with what is left. *)
DrainBegin ==
    /\ pc = "poll"
    /\ w' = raised
    /\ looped' = IF looped = "no" THEN "begun" ELSE looped
    /\ IF raised - cursor > SLOTS
       THEN Feed(policy_pseudo(OVERRUN, 2, cursor), 1) /\ cursor' = raised - SLOTS
       ELSE pc' = "drain" /\ UNCHANGED <<feed, cursor>>
    /\ UNCHANGED <<pol, ring, raised, inc, child, ackFile, seen, stat, acker,
                   forged, covered>>

(* Mutant: a notification that fails its HMAC keeps its content. *)
policy_feed_ByContent(n) ==
    [code |-> n.code, p1 |-> n.p1, level |-> IF n.ok THEN n.level ELSE 3,
     seq |-> n.seq]

(* policy_feed(): a notification whose HMAC fails becomes a FORGED alert. *)
policy_feed(n) ==
    IF n.ok THEN [code |-> n.code, p1 |-> n.p1, level |-> n.level, seq |-> n.seq]
    ELSE [code |-> FORGED, p1 |-> NoOffender, level |-> 3, seq |-> n.seq]

Desktop(n) ==
    IF USE_NOTIFY THEN (IF n.level >= 1 THEN 1 ELSE 0) + (IF n.ok THEN 0 ELSE 1)
    ELSE 0

(* The slot holds the notification: it is shown and given to the rules. *)
emit ==
    /\ pc = "drain" /\ cursor < w /\ raised - cursor <= SLOTS
    /\ child' \in Started(Desktop(Head(ring)))
    /\ Feed(policy_feed(Head(ring)), 1)
    /\ ring' = Tail(ring) /\ cursor' = cursor + 1
    /\ UNCHANGED <<pol, raised, w, inc, ackFile, seen, stat, acker, looped,
                   forged, covered>>

(* It does not, or not for long enough: it was overwritten, or is being     *)
(* overwritten; otherwise somebody has tampered with it.                    *)
Unreadable ==
    /\ pc = "drain" /\ cursor < w
    /\ Feed(IF raised - cursor > SLOTS - 1 THEN policy_pseudo(OVERRUN, 2, cursor)
            ELSE policy_pseudo(TAMPER, 3, cursor), 1)
    /\ ring' = IF raised - cursor > SLOTS THEN ring ELSE Tail(ring)
    /\ cursor' = cursor + 1
    /\ UNCHANGED <<pol, raised, w, inc, child, ackFile, seen, stat, acker, looped,
                   forged, covered>>

(* A helper that overran is killed; it is reaped on a later pass. *)
Reaped(c) ==
    CASE c.state = "dead" -> Free
      [] c.state \in {"running", "killed"} /\ c.left <= 0 ->
            [state |-> "killed", left |-> GRACE]
      [] OTHER -> c

children_reap ==
    child' = [c \in DOMAIN child |-> Reaped(child[c])]

(* policy_check_ack(): stat() the file, then open and read it. *)
ReapAndStat ==
    /\ pc = "drain" /\ cursor = w
    /\ children_reap
    /\ IF ackFile.id = seen THEN pc' = "tick" /\ UNCHANGED stat
       ELSE pc' = "read" /\ stat' = ackFile.id
    /\ UNCHANGED <<pol, feed, ring, raised, cursor, w, inc, ackFile, seen,
                   acker, looped, forged, covered>>

(* Mutant: sequence numbers are compared as they are. *)
Covers_Unsigned(up_to, seq) == up_to >= seq

(* kgp_ack(): the comparison is on the signed 32-bit difference. *)
Covers(up_to, seq) == (up_to - seq) % SEQ < SEQ \div 2

kgp_ack(up_to) ==
    [s \in Slot |-> IF inc[s].used /\ Covers(up_to, inc[s].seq)
                    THEN [inc[s] EXCEPT !.acked = TRUE] ELSE inc[s]]

CheckAckRead ==
    /\ pc = "read"
    /\ seen' = stat /\ stat' = 0
    /\ inc' = kgp_ack(ackFile.up_to)
    /\ pc' = "tick"
    /\ covered' = covered \cup {n \in 0..Number(ackFile.up_to) :
                                    n < cursor}
    /\ UNCHANGED <<pol, feed, ring, raised, cursor, w, child, ackFile, acker,
                   looped, forged>>

Forgets(in) == in.last >= pol[in.rule].reset

AgeHit_Late(in) ==
    LET r == pol[in.rule]
    IN  r.unacked > 0 /\ ~in.acked /\ ~in.escalated /\ in.first > r.unacked

AgeHit(in) ==
    LET r == pol[in.rule]
    IN  r.unacked > 0 /\ ~in.acked /\ ~in.escalated /\ in.first >= r.unacked

kgp_tick ==
    /\ pc = "tick"
    /\ LET hits == {s \in Slot : inc[s].used /\ ~Forgets(inc[s]) /\ AgeHit(inc[s])}
           runs == MapThenSumSet(LAMBDA s : pol[inc[s].rule].then, hits)
       IN  /\ inc' = [s \in Slot |->
                        IF ~inc[s].used \/ Forgets(inc[s]) THEN Unused
                        ELSE IF s \in hits
                        THEN [inc[s] EXCEPT !.escalated = TRUE, !.thens = @ + 1]
                        ELSE inc[s]]
           /\ child' \in Started(runs)
    /\ pc' = "poll"
    /\ looped' = IF looped = "begun" THEN "done" ELSE looped
    /\ UNCHANGED <<pol, feed, ring, raised, cursor, w, ackFile, seen, stat, acker,
                   forged, covered>>

-----------------------------------------------------------------------------
(* cmd_ack(): read write_index, then replace the file by rename(). *)

AckLook ==
    /\ acker = Idle /\ raised > 0 /\ ackFile.id < MaxAcks
    /\ acker' = raised
    /\ UNCHANGED <<pol, feed, ring, raised, cursor, w, pc, inc, child, ackFile, seen,
                   stat, looped, forged, covered>>

AckWrite ==
    /\ acker # Idle
    /\ ackFile' = [id |-> ackFile.id + 1, up_to |-> Seq32(acker - 1)]
    /\ acker' = Idle
    /\ UNCHANGED <<pol, feed, ring, raised, cursor, w, pc, inc, child, seen, stat,
                   looped, forged, covered>>

(* A helper ends, by itself or because it was killed. *)
ChildEnds(c) ==
    /\ child[c].state \in {"running", "killed"}
    /\ child' = [child EXCEPT ![c].state = "dead", ![c].left = 0]
    /\ UNCHANGED <<pol, feed, ring, raised, cursor, w, pc, inc, ackFile, seen, stat,
                   acker, looped, forged, covered>>

(* A second passes.  The loop goes round every POLL_MS (150 ms), so a whole  *)
(* pass lies in between.                                                     *)
Older(a) == IF a < MAXAGE THEN a + 1 ELSE a

Second ==
    /\ looped = "done"
    /\ looped' = "no"
    /\ inc' = [s \in Slot |->
                IF ~inc[s].used THEN Unused
                ELSE [inc[s] EXCEPT !.first = Older(@), !.last = Older(@),
                        !.run = Older(@),
                        !.recent = [i \in DOMAIN @ |-> Older(@[i])],
                        !.arrivals = [i \in DOMAIN @ |-> Older(@[i])]]]
    /\ child' = [c \in DOMAIN child |->
                   IF child[c] = Free THEN Free
                   ELSE [child[c] EXCEPT !.left = Max({@ - 1, LATE})]]
    /\ UNCHANGED <<pol, feed, ring, raised, cursor, w, pc, ackFile, seen, stat,
                   acker, forged, covered>>

Monitor ==
    DrainBegin \/ emit \/ Unreadable \/ kgp_alert \/ ReapAndStat \/ CheckAckRead
        \/ kgp_tick

KpNext ==
    \/ \E a \in Alerts : Raise(a)
    \/ Monitor
    \/ AckLook \/ AckWrite
    \/ \E c \in DOMAIN child : ChildEnds(c)
    \/ Second

KpSpec == KpInit /\ [][KpNext]_kpVars

-----------------------------------------------------------------------------
(* Properties. *)

(* kg_policy.h: the `then' actions run "once per incident", by repetition    *)
(* (kgp_alert()) or by age (kgp_tick()), never by both, and repeat=N/SEC     *)
(* escalates "when it arrives N times within SEC seconds": the circular      *)
(* buffer of kgp_alert() finds that exactly when the list of the arrivals    *)
(* has N of them in the window.                                              *)
EscalatesOnceWhenDue ==
    \A s \in Slot : inc[s].used =>
        /\ inc[s].thens = IF inc[s].escalated THEN 1 ELSE 0
        /\ inc[s].due => inc[s].escalated
        /\ inc[s].escalated /\ pol[inc[s].rule].unacked = 0 => inc[s].due

(* kg_policy.h: "Alerts whose HMAC failed are never matched by content".     *)
(* Whatever the rules, such a notification only shows in an incident of      *)
(* kgmon's own, which has no offender.                                       *)
ForgedSteersNothing ==
    \A s \in Slot : inc[s].used /\ Number(inc[s].seq) \in forged =>
        inc[s].code \in Pseudo /\ inc[s].p1 = NoOffender

(* `kgmon ack' "stops unacked escalation" for what was drained before it     *)
(* took effect: kgp_tick() never escalates an incident whose last alert was  *)
(* acknowledged, across the wrap of the sequence numbers.                    *)
AckedStaysQuiet ==
    [][\A s \in Slot :
         kgp_tick /\ inc[s].used /\ inc'[s].used /\ inc'[s].thens > inc[s].thens
            => Number(inc[s].seq) \notin covered]_kpVars

NeverOverdue ==
    \A s \in Slot : inc[s].used =>
        LET r == pol[inc[s].rule]
        IN  r.unacked > 0 /\ inc[s].first > r.unacked =>
                inc[s].escalated \/ inc[s].acked

NotJustForgotten ==
    \A s \in Slot : inc[s].used /\ ~inc'[s].used =>
        LET r == pol[inc[s].rule]
        IN  r.unacked = 0 \/ r.reset <= r.unacked \/ inc[s].escalated \/ inc[s].acked

(* kg_policy.h: unacked=SEC escalates an incident that "is still             *)
(* unacknowledged after SEC seconds": no pass of kgp_tick() leaves it        *)
(* waiting into the next second, and, with reset= above unacked=, it does    *)
(* not drop out of the table before that, unless a full table gives its slot *)
(* to another incident.                                                      *)
UnackedEscalates == [][NeverOverdue' /\ NotJustForgotten]_kpVars
=============================================================================

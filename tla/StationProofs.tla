----------------------------- MODULE StationProofs -----------------------------
(*****************************************************************************)
(* How a station of the SDK gets on the network: its address and its link.   *)
(*                                                                           *)
(* About LinkLocal, for any number of hosts, addresses, losses and starts:   *)
(* the types, the probes before a claim, the address the stack has, and what *)
(* it takes for two to use one address.  About HostSme, for any number of    *)
(* lines typed: the types, the answer the console waits for, and the way     *)
(* into CONNECTED.                                                           *)
(*****************************************************************************)
EXTENDS LinkLocal, HostSme, FiniteSetTheorems, TLAPS

\* Never more probes for a candidate than the count of the thread says: what
\* bounds them by PROBE_NUM.
ProbesCounted == \A h \in Hosts : st[h] = "probe" => sent[h] <= probe[h]

LLInv == TypeOK /\ ProbesCounted /\ StackIsStable /\ Probed

\* A packet changes the events of the hosts, and keeps to the bound on losses.
LEMMA SendType ==
    ASSUME TypeOK, NEW h \in Hosts, NEW kind, Send(h, kind)
    PROVE  /\ flag' \in [Hosts -> BOOLEAN]
           /\ spent' \in [lost : 0 .. MaxLoss, starts : 0 .. MaxStarts]
<1> DEFINE heard == {o \in Hosts \ {h} : Running(o) /\ ArpConflict(kind, ip[h], ip[o])}
           back == IF kind = "probe" /\ Answered(h, ip[h]) THEN {h} ELSE {}
<1>1. PICK lost \in SUBSET (heard \cup back) :
         /\ spent.lost + Cardinality(lost) <= MaxLoss
         /\ spent' = [spent EXCEPT !.lost = @ + Cardinality(lost)]
         /\ flag' = [o \in Hosts |-> flag[o] \/ o \in (heard \cup back) \ lost]
  BY DEF Send
<1>2. Cardinality(lost) \in Nat
  <2>1. lost \subseteq Hosts
    OBVIOUS
  <2> QED
    BY <2>1, LinkLocalAssumption, FS_Subset, FS_CardinalityType
<1>3. flag' \in [Hosts -> BOOLEAN]
  <2> HIDE DEF heard, back
  <2>1. \A o \in Hosts : flag[o] \in BOOLEAN
    BY Zenon DEF TypeOK
  <2>2. \A o \in Hosts : (flag[o] \/ o \in (heard \cup back) \ lost) \in BOOLEAN
    BY Zenon, <2>1
  <2> QED
    BY Zenon, <1>1, <2>2
<1>4. spent' \in [lost : 0 .. MaxLoss, starts : 0 .. MaxStarts]
  <2> HIDE DEF heard, back
  <2> QED
    BY <1>1, <1>2, LinkLocalAssumption DEF TypeOK
<1> QED
  BY <1>3, <1>4

\* The invariant holds at the start.
LEMMA InitInv == Init => LLInv
BY LinkLocalAssumption DEF Init, LLInv, TypeOK, ProbesCounted, StackIsStable, Probed, None, Forever

\* Every step keeps it.
LEMMA StepInv == LLInv /\ [Next]_vars => LLInv'
<1> SUFFICES ASSUME LLInv, [Next]_vars PROVE LLInv'
  OBVIOUS
<1> USE DEF LLInv, None, Forever
<1>1. ASSUME NEW h \in Hosts, Wake(h) PROVE LLInv'
  <2>1. TypeOK'
    BY <1>1, LinkLocalAssumption DEF Wake, TypeOK
  <2>2. ProbesCounted' /\ StackIsStable' /\ Probed'
    BY <1>1 DEF Wake, ProbesCounted, StackIsStable, Probed
  <2> QED BY <2>1, <2>2
<1>2. ASSUME NEW h \in Hosts, ChooseAddress(h) PROVE LLInv'
  <2>1. TypeOK'
    BY <1>2, LinkLocalAssumption DEF ChooseAddress, NewCandidate, Goto, TypeOK
  <2>2. ProbesCounted' /\ StackIsStable' /\ Probed'
    BY <1>2 DEF ChooseAddress, NewCandidate, Goto, TypeOK, ProbesCounted, StackIsStable, Probed
  <2> QED BY <2>1, <2>2
<1>3. ASSUME NEW h \in Hosts, GiveUp(h) PROVE LLInv'
  <2>1. TypeOK'
    BY <1>3, LinkLocalAssumption DEF GiveUp, Goto, TypeOK
  <2>2. ProbesCounted' /\ StackIsStable' /\ Probed'
    BY <1>3 DEF GiveUp, Goto, TypeOK, ProbesCounted, StackIsStable, Probed
  <2> QED BY <2>1, <2>2
<1>4. ASSUME NEW h \in Hosts, SendProbe(h) PROVE LLInv'
  <2>1. /\ flag' \in [Hosts -> BOOLEAN]
        /\ spent' \in [lost : 0 .. MaxLoss, starts : 0 .. MaxStarts]
    BY <1>4, SendType DEF SendProbe
  <2>2. sent[h] + 1 <= probe[h] + 1 /\ probe[h] + 1 <= ProbeNum
    BY <1>4, LinkLocalAssumption DEF SendProbe, ProbesCounted, TypeOK
  <2>3. TypeOK'
    <3>1. /\ probe' \in [Hosts -> 0 .. ProbeNum - 1]
          /\ announce' \in [Hosts -> 0 .. AnnounceNum - 1]
      BY <1>4, LinkLocalAssumption DEF SendProbe, TypeOK
    <3>2. sent' \in [Hosts -> 0 .. ProbeNum]
      BY <1>4, <2>2, LinkLocalAssumption DEF SendProbe, TypeOK
    <3>3. /\ st' \in [Hosts -> {"off", "dead", "no_address", "probe", "announce", "limited", "stable"}]
          /\ event' \in [Hosts -> {"none", "timeout", "conflict"}]
          /\ wait' \in [Hosts -> {Forever} \cup 0 .. RateLimit]
      BY <1>4, LinkLocalAssumption DEF SendProbe, Goto, TypeOK
    <3> QED
      BY <1>4, <2>1, <3>1, <3>2, <3>3 DEF SendProbe, TypeOK
  <2>4. ProbesCounted' /\ StackIsStable' /\ Probed'
    BY <1>4, <2>2, LinkLocalAssumption DEF SendProbe, Goto, TypeOK, ProbesCounted, StackIsStable, Probed
  <2> QED BY <2>3, <2>4
<1>5. ASSUME NEW h \in Hosts, SendAnnouncement(h) PROVE LLInv'
  <2>1. /\ flag' \in [Hosts -> BOOLEAN]
        /\ spent' \in [lost : 0 .. MaxLoss, starts : 0 .. MaxStarts]
    BY <1>5, SendType DEF SendAnnouncement
  <2>2. TypeOK'
    BY <1>5, <2>1, LinkLocalAssumption DEF SendAnnouncement, Goto, TypeOK
  <2>3. ProbesCounted' /\ StackIsStable' /\ Probed'
    BY <1>5 DEF SendAnnouncement, Goto, TypeOK, ProbesCounted, StackIsStable, Probed
  <2> QED BY <2>2, <2>3
<1>6. ASSUME NEW h \in Hosts, Limited(h) PROVE LLInv'
  <2>1. TypeOK'
    BY <1>6, LinkLocalAssumption DEF Limited, NewCandidate, Goto, TypeOK
  <2>2. ProbesCounted' /\ StackIsStable' /\ Probed'
    BY <1>6 DEF Limited, NewCandidate, Goto, TypeOK, ProbesCounted, StackIsStable, Probed
  <2> QED BY <2>1, <2>2
<1>7. ASSUME NEW h \in Hosts, UseAddress(h) PROVE LLInv'
  <2>1. TypeOK'
    BY <1>7, LinkLocalAssumption DEF UseAddress, Goto, TypeOK
  <2>2. ProbesCounted' /\ StackIsStable' /\ Probed'
    BY <1>7 DEF UseAddress, Goto, TypeOK, ProbesCounted, StackIsStable, Probed
  <2> QED BY <2>1, <2>2
<1>8. ASSUME NEW h \in Hosts, LoseAddress(h) PROVE LLInv'
  <2>1. TypeOK'
    BY <1>8, LinkLocalAssumption DEF LoseAddress, Goto, TypeOK
  <2>2. ProbesCounted' /\ StackIsStable' /\ Probed'
    BY <1>8 DEF LoseAddress, Goto, TypeOK, ProbesCounted, StackIsStable, Probed
  <2> QED BY <2>1, <2>2
<1>9. ASSUME NEW h \in Hosts, Start(h) PROVE LLInv'
  <2>1. TypeOK'
    BY <1>9, LinkLocalAssumption DEF Start, TypeOK
  <2>2. ProbesCounted' /\ StackIsStable' /\ Probed'
    BY <1>9 DEF Start, TypeOK, ProbesCounted, StackIsStable, Probed
  <2> QED BY <2>1, <2>2
<1>10. ASSUME NEW h \in Hosts, Shutdown(h) PROVE LLInv'
  <2>1. TypeOK'
    BY <1>10, LinkLocalAssumption DEF Shutdown, TypeOK
  <2>2. ProbesCounted' /\ StackIsStable' /\ Probed'
    BY <1>10 DEF Shutdown, TypeOK, ProbesCounted, StackIsStable, Probed
  <2> QED BY <2>1, <2>2
<1>11. ASSUME Tick PROVE LLInv'
  <2>1. wait' \in [Hosts -> {Forever} \cup 0 .. RateLimit]
    BY <1>11, LinkLocalAssumption DEF Tick, TypeOK
  <2> QED
    BY <1>11, <2>1 DEF Tick, TypeOK, ProbesCounted, StackIsStable, Probed
<1>12. ASSUME UNCHANGED vars PROVE LLInv'
  BY <1>12 DEF vars, TypeOK, ProbesCounted, StackIsStable, Probed
<1> QED
  BY <1>1, <1>2, <1>3, <1>4, <1>5, <1>6, <1>7, <1>8, <1>9, <1>10, <1>11, <1>12
  DEF Next, Act

\* Hence it always holds.
LEMMA Inductive == Spec => []LLInv
BY InitInv, StepInv, PTL DEF Spec

\* Types, counts and waits stay in their ranges; among them, that no more than
\* PROBE_NUM probes go out for one candidate (the counters of ll_main).
THEOREM TypeCorrect == Spec => []TypeOK
BY Inductive, PTL DEF LLInv

\* The TCP/IP stack runs only in LL_STABLE and only with the address that was
\* announced last, whatever the conflicts, losses and restarts.
THEOREM StackIsStableHolds == Spec => []StackIsStable
BY Inductive, PTL DEF LLInv

\* An address that is announced or used was probed for, also after rate limiting.
THEOREM ProbedHolds == Spec => []Probed
BY Inductive, PTL DEF LLInv

-----------------------------------------------------------------------------
(* Two users of one address.                                                 *)
(*                                                                           *)
(* A candidate is held from its last probe on.  Of two hosts that hold one   *)
(* address, the later has sent its last probe and its announcements to the   *)
(* earlier one, which has lost each of them or is about to give way.         *)

Holding(h) == st[h] \in {"announce", "stable"}

\* LL_CONFLICT_EVENT is set, or taken and not yet reacted to.
Pending(h) == flag[h] \/ event[h] = "conflict"

\* No time has passed since h sent its last packet.
JustSent(h) == wait[h] = 2 /\ event[h] # "timeout"

\* The packets that h has sent for the address it holds: a probe and announcements.
Shown(h) == 1 + IF st[h] = "announce" THEN announce[h] ELSE AnnounceNum

Outspoken(o, h) == spent.lost >= Shown(o) \/ (Pending(h) /\ JustSent(o))

Rivals == \A o, h \in Hosts : o # h /\ Holding(o) /\ Holding(h) /\ ip[o] = ip[h]
                              => Outspoken(o, h) \/ Outspoken(h, o)

\* The same for equipment that answers probes.
Refused == \A h \in Hosts : Holding(h) /\ ip[h] \in Taken
                            => spent.lost >= 1 \/ (Pending(h) /\ JustSent(h))

\* A host with an address waits for conflicts only.
StackWaits == \A h \in Hosts : addr[h] # None => wait[h] = Forever /\ event[h] # "timeout"

OwnInv == LLInv /\ Rivals /\ Refused /\ StackWaits

\* What a packet of h does: it clears no event, and every other host with the
\* candidate of h has its event set or the packet counts as lost; so has h
\* itself the answer of other equipment to a probe.
Delivered(h, kind) ==
    /\ spent'.lost \in Nat /\ spent'.lost >= spent.lost
    /\ \A o \in Hosts : flag[o] => flag'[o]
    /\ \A o \in Hosts : o # h /\ Running(o) /\ ip[o] = ip[h]
                        => flag'[o] \/ spent'.lost >= spent.lost + 1
    /\ kind = "probe" /\ ip[h] \in Taken => flag'[h] \/ spent'.lost >= spent.lost + 1

\* Send does that.
LEMMA SendDelivers ==
    ASSUME TypeOK, NEW h \in Hosts, NEW kind, Send(h, kind)
    PROVE  Delivered(h, kind)
<1> DEFINE heard == {o \in Hosts \ {h} : Running(o) /\ ArpConflict(kind, ip[h], ip[o])}
           back == IF kind = "probe" /\ Answered(h, ip[h]) THEN {h} ELSE {}
<1>1. PICK lost \in SUBSET (heard \cup back) :
         /\ spent.lost + Cardinality(lost) <= MaxLoss
         /\ spent' = [spent EXCEPT !.lost = @ + Cardinality(lost)]
         /\ flag' = [o \in Hosts |-> flag[o] \/ o \in (heard \cup back) \ lost]
  BY DEF Send
<1>2. /\ Cardinality(lost) \in Nat
      /\ \A o \in lost : Cardinality(lost) >= 1
  <2>1. lost \subseteq Hosts
    OBVIOUS
  <2>2. IsFiniteSet(lost)
    BY <2>1, LinkLocalAssumption, FS_Subset
  <2>3. Cardinality(lost) \in Nat /\ (Cardinality(lost) = 0 <=> lost = {})
    BY <2>2, FS_CardinalityType, FS_EmptySet
  <2> QED
    BY <2>3
<1>3. spent.lost \in Nat
  BY LinkLocalAssumption DEF TypeOK
<1>4. spent'.lost = spent.lost + Cardinality(lost)
  BY <1>1 DEF TypeOK
<1>5. ASSUME NEW o \in heard \cup back PROVE flag'[o] \/ spent'.lost >= spent.lost + 1
  <2>1. o \in Hosts
    OBVIOUS
  <2>2. CASE o \in lost
    BY <1>2, <1>3, <1>4, <2>2
  <2>3. CASE o \notin lost
    BY <1>1, <2>1, <2>3, Zenon
  <2> QED
    BY <2>2, <2>3
<1>6. \A o \in Hosts : flag[o] => flag'[o]
  BY <1>1, Zenon
<1>7. ASSUME NEW o \in Hosts, o # h, Running(o), ip[o] = ip[h] PROVE o \in heard
  BY <1>7, Zenon DEF ArpConflict
<1>8. ASSUME kind = "probe", ip[h] \in Taken PROVE h \in back
  BY <1>8, Zenon DEF Answered
<1> HIDE DEF heard, back
<1>9. /\ \A o \in Hosts : o # h /\ Running(o) /\ ip[o] = ip[h]
                        => flag'[o] \/ spent'.lost >= spent.lost + 1
      /\ kind = "probe" /\ ip[h] \in Taken => flag'[h] \/ spent'.lost >= spent.lost + 1
  BY <1>5, <1>7, <1>8, Zenon
<1>10. spent'.lost \in Nat /\ spent'.lost >= spent.lost
  BY <1>2, <1>3, <1>4
<1> QED
  BY <1>6, <1>9, <1>10, Zenon DEF Delivered

\* What a step that is not of o leaves to o, and what only grows.
Undisturbed(o) ==
    /\ st'[o] = st[o] /\ ip'[o] = ip[o] /\ announce'[o] = announce[o]
    /\ wait'[o] = wait[o] /\ event'[o] = event[o] /\ addr'[o] = addr[o]
    /\ flag[o] => flag'[o]

\* Of a step of x the others notice at most an event.
Alone(x) ==
    /\ \A o \in Hosts \ {x} : Undisturbed(o)
    /\ spent'.lost \in Nat /\ spent'.lost >= spent.lost

\* A step of x keeps the invariant if it keeps or ends what x holds, and what is
\* pending for x.
LEMMA StepAlone ==
    ASSUME OwnInv, NEW x \in Hosts, Alone(x),
           Holding(x)' => /\ Holding(x) /\ ip'[x] = ip[x] /\ Shown(x)' = Shown(x)
                          /\ Pending(x) => Pending(x)'
                          /\ JustSent(x) => JustSent(x)'
    PROVE  Rivals' /\ Refused'
<1>1. /\ spent.lost \in Nat /\ spent'.lost \in Nat /\ spent'.lost >= spent.lost
  BY LinkLocalAssumption DEF OwnInv, LLInv, TypeOK, Alone
<1>2. ASSUME NEW o \in Hosts, Holding(o)'
      PROVE  /\ Holding(o) /\ ip'[o] = ip[o] /\ Shown(o)' = Shown(o)
             /\ Pending(o) => Pending(o)'
             /\ JustSent(o) => JustSent(o)'
  <2>1. CASE o = x
    BY <1>2, <2>1, Zenon
  <2>2. CASE o # x
    BY <1>2, <2>2, Zenon DEF Alone, Undisturbed, Holding, Shown, Pending, JustSent
  <2> QED
    BY <2>1, <2>2
<1>3. ASSUME NEW o \in Hosts PROVE Shown(o) \in Nat
  BY LinkLocalAssumption DEF OwnInv, LLInv, TypeOK, Shown
<1>4. ASSUME NEW o \in Hosts, NEW h \in Hosts, Holding(o)', Holding(h)', Outspoken(o, h)
      PROVE  Outspoken(o, h)'
  <2>1. CASE spent.lost >= Shown(o)
    <3>1. Shown(o)' = Shown(o)
      BY <1>2, <1>4, Zenon
    <3>2. spent'.lost >= Shown(o)'
      BY <1>1, <1>3, <2>1, <3>1
    <3> QED
      BY <3>2, Zenon DEF Outspoken
  <2>2. CASE Pending(h) /\ JustSent(o)
    BY <1>2, <1>4, <2>2, Zenon DEF Outspoken
  <2> QED
    BY <1>4, <2>1, <2>2, Zenon DEF Outspoken
<1>5. Rivals'
  <2> SUFFICES ASSUME NEW o \in Hosts, NEW h \in Hosts, o # h,
                      Holding(o)', Holding(h)', ip'[o] = ip'[h]
               PROVE  Outspoken(o, h)' \/ Outspoken(h, o)'
    BY Zenon DEF Rivals
  <2>1. Holding(o) /\ Holding(h) /\ ip[o] = ip[h]
    BY <1>2, Zenon
  <2>2. Outspoken(o, h) \/ Outspoken(h, o)
    BY <2>1, Zenon DEF OwnInv, Rivals
  <2> QED
    BY <1>4, <2>2, Zenon
<1>6. Refused'
  <2> SUFFICES ASSUME NEW h \in Hosts, Holding(h)', ip'[h] \in Taken
               PROVE  spent'.lost >= 1 \/ (Pending(h)' /\ JustSent(h)')
    BY Zenon DEF Refused
  <2>1. Holding(h) /\ ip[h] \in Taken
    BY <1>2, Zenon
  <2>2. spent.lost >= 1 \/ (Pending(h) /\ JustSent(h))
    BY <2>1, Zenon DEF OwnInv, Refused
  <2>3. CASE spent.lost >= 1
    BY <1>1, <2>3
  <2>4. CASE Pending(h) /\ JustSent(h)
    BY <1>2, <2>4, Zenon
  <2> QED
    BY <2>2, <2>3, <2>4
<1> QED
  BY <1>5, <1>6

\* So does a packet of x after which x holds its address, whether it began to
\* hold it with this packet or has shown it one time more.
LEMMA StepSending ==
    ASSUME OwnInv, NEW x \in Hosts, NEW kind, Alone(x), Delivered(x, kind),
           Holding(x)', ip'[x] = ip[x], JustSent(x)',
           \/ kind = "probe" /\ Shown(x)' = 1
           \/ Holding(x) /\ event[x] = "timeout" /\ Shown(x)' = Shown(x) + 1
    PROVE  Rivals' /\ Refused'
<1>1. /\ spent.lost \in Nat /\ spent'.lost \in Nat /\ spent'.lost >= spent.lost
  BY LinkLocalAssumption DEF OwnInv, LLInv, TypeOK, Alone
<1>2. ASSUME NEW o \in Hosts, o # x, Holding(o)'
      PROVE  /\ Holding(o) /\ ip'[o] = ip[o] /\ Shown(o)' = Shown(o)
             /\ Pending(o) => Pending(o)'
             /\ JustSent(o) => JustSent(o)'
             /\ Running(o)
  BY <1>2, Zenon DEF Alone, Undisturbed, Holding, Shown, Pending, JustSent, Running
<1>3. ASSUME NEW o \in Hosts PROVE Shown(o) \in Nat
  BY LinkLocalAssumption DEF OwnInv, LLInv, TypeOK, Shown
<1>4. ASSUME NEW o \in Hosts, o # x, Holding(o)', ip'[o] = ip[x]
      PROVE  Pending(o)' \/ spent'.lost >= spent.lost + 1
  <2>1. Running(o) /\ ip[o] = ip[x]
    BY <1>2, <1>4, Zenon
  <2> QED
    BY <1>4, <2>1, Zenon DEF Delivered, Pending
<1>5. Rivals'
  <2> SUFFICES ASSUME NEW o \in Hosts, NEW h \in Hosts, o # h,
                      Holding(o)', Holding(h)', ip'[o] = ip'[h]
               PROVE  Outspoken(o, h)' \/ Outspoken(h, o)'
    BY Zenon DEF Rivals
  <2>1. ASSUME NEW y \in Hosts, y # x, Holding(y)', ip'[y] = ip'[x]
        PROVE  Outspoken(x, y)' \/ Outspoken(y, x)'
    <3>1. Pending(y)' \/ spent'.lost >= spent.lost + 1
      BY <1>4, <2>1, Zenon
    <3>2. CASE Pending(y)'
      BY <3>2, Zenon DEF Outspoken
    <3>3. CASE spent'.lost >= spent.lost + 1 /\ kind = "probe" /\ Shown(x)' = 1
      <4>1. spent'.lost >= Shown(x)'
        BY <1>1, <3>3
      <4> QED
        BY <4>1, Zenon DEF Outspoken
    <3>4. CASE /\ spent'.lost >= spent.lost + 1
               /\ Holding(x) /\ event[x] = "timeout" /\ Shown(x)' = Shown(x) + 1
      <4>1. Holding(y) /\ ip[y] = ip[x]
        BY <1>2, <2>1, Zenon
      <4>2. Outspoken(x, y) \/ Outspoken(y, x)
        BY <2>1, <3>4, <4>1, Zenon DEF OwnInv, Rivals
      <4>3. CASE spent.lost >= Shown(x)
        <5>1. spent'.lost >= Shown(x)'
          BY <1>1, <1>3, <3>4, <4>3
        <5> QED
          BY <5>1, Zenon DEF Outspoken
      <4>4. CASE spent.lost >= Shown(y)
        <5>1. Shown(y)' = Shown(y)
          BY <1>2, <2>1, Zenon
        <5>2. spent'.lost >= Shown(y)'
          BY <1>1, <1>3, <4>4, <5>1
        <5> QED
          BY <5>2, Zenon DEF Outspoken
      <4>5. ~JustSent(x)
        BY <3>4, Zenon DEF JustSent
      <4>6. CASE Pending(x) /\ JustSent(y)
        <5>1. flag[x]
          BY <3>4, <4>6, Zenon DEF Pending
        <5>2. Pending(x)'
          BY <5>1, Zenon DEF Pending, Delivered
        <5>3. JustSent(y)'
          BY <1>2, <2>1, <4>6, Zenon
        <5> QED
          BY <5>2, <5>3, Zenon DEF Outspoken
      <4> QED
        BY <4>2, <4>3, <4>4, <4>5, <4>6, Zenon DEF Outspoken
    <3> QED
      BY <3>1, <3>2, <3>3, <3>4, Zenon
  <2>2. CASE o = x
    BY <2>1, <2>2, Zenon
  <2>3. CASE h = x
    BY <2>1, <2>3, Zenon
  <2>4. CASE o # x /\ h # x
    <3>1. /\ Holding(o) /\ Holding(h) /\ ip[o] = ip[h]
          /\ Shown(o)' = Shown(o) /\ Shown(h)' = Shown(h)
      BY <1>2, <2>4, Zenon
    <3>2. Outspoken(o, h) \/ Outspoken(h, o)
      BY <3>1, Zenon DEF OwnInv, Rivals
    <3>3. CASE spent.lost >= Shown(o)
      <4>1. spent'.lost >= Shown(o)'
        BY <1>1, <1>3, <3>1, <3>3
      <4> QED
        BY <4>1, Zenon DEF Outspoken
    <3>4. CASE spent.lost >= Shown(h)
      <4>1. spent'.lost >= Shown(h)'
        BY <1>1, <1>3, <3>1, <3>4
      <4> QED
        BY <4>1, Zenon DEF Outspoken
    <3>5. CASE Pending(h) /\ JustSent(o)
      BY <1>2, <2>4, <3>5, Zenon DEF Outspoken
    <3>6. CASE Pending(o) /\ JustSent(h)
      BY <1>2, <2>4, <3>6, Zenon DEF Outspoken
    <3>7. \/ spent.lost >= Shown(o) \/ (Pending(h) /\ JustSent(o))
          \/ spent.lost >= Shown(h) \/ (Pending(o) /\ JustSent(h))
      BY <3>2, Zenon DEF Outspoken
    <3> QED
      BY <3>3, <3>4, <3>5, <3>6, <3>7, Zenon
  <2> QED
    BY <2>2, <2>3, <2>4
<1>6. Refused'
  <2> SUFFICES ASSUME NEW h \in Hosts, Holding(h)', ip'[h] \in Taken
               PROVE  spent'.lost >= 1 \/ (Pending(h)' /\ JustSent(h)')
    BY Zenon DEF Refused
  <2>1. CASE h # x
    <3>1. Holding(h) /\ ip[h] \in Taken
      BY <1>2, <2>1, Zenon
    <3>2. spent.lost >= 1 \/ (Pending(h) /\ JustSent(h))
      BY <3>1, Zenon DEF OwnInv, Refused
    <3>3. CASE spent.lost >= 1
      BY <1>1, <3>3
    <3>4. CASE Pending(h) /\ JustSent(h)
      BY <1>2, <2>1, <3>4, Zenon
    <3> QED
      BY <3>2, <3>3, <3>4
  <2>2. CASE h = x /\ kind = "probe"
    <3>1. flag'[x] \/ spent'.lost >= spent.lost + 1
      BY <2>2, Zenon DEF Delivered
    <3>2. CASE flag'[x]
      BY <2>2, <3>2, Zenon DEF Pending
    <3>3. CASE spent'.lost >= spent.lost + 1
      BY <1>1, <3>3
    <3> QED
      BY <3>1, <3>2, <3>3
  <2>3. CASE h = x /\ Holding(x) /\ event[x] = "timeout"
    <3>1. spent.lost >= 1
      BY <2>3, Zenon DEF OwnInv, Refused, JustSent
    <3> QED
      BY <1>1, <3>1
  <2> QED
    BY <2>1, <2>2, <2>3, Zenon
<1> QED
  BY <1>5, <1>6

\* Every step keeps the invariant.
LEMMA StepOwn == OwnInv /\ [Next]_vars => OwnInv'
<1> SUFFICES ASSUME OwnInv, [Next]_vars PROVE Rivals' /\ Refused' /\ StackWaits'
  BY StepInv, Zenon DEF OwnInv
<1>0. LLInv /\ TypeOK /\ StackIsStable /\ StackWaits /\ spent.lost \in Nat
  BY LinkLocalAssumption DEF OwnInv, LLInv, TypeOK
<1> USE DEF None, Forever
<1>1. ASSUME NEW h \in Hosts, Wake(h) PROVE Rivals' /\ Refused' /\ StackWaits'
  <2>1. Alone(h)
    BY <1>0, <1>1 DEF Wake, Alone, Undisturbed, TypeOK
  <2>2. Holding(h)' => /\ Holding(h) /\ ip'[h] = ip[h] /\ Shown(h)' = Shown(h)
                       /\ Pending(h) => Pending(h)'
                       /\ JustSent(h) => JustSent(h)'
    BY <1>0, <1>1 DEF Wake, Holding, Shown, Pending, JustSent, TypeOK
  <2>3. StackWaits'
    BY <1>0, <1>1 DEF Wake, StackWaits, TypeOK
  <2> QED
    BY <2>1, <2>2, <2>3, StepAlone
<1>2. ASSUME NEW h \in Hosts, ChooseAddress(h) PROVE Rivals' /\ Refused' /\ StackWaits'
  <2>1. Alone(h) /\ ~Holding(h)'
    BY <1>0, <1>2 DEF ChooseAddress, NewCandidate, Goto, Alone, Undisturbed, Holding, TypeOK
  <2>2. StackWaits'
    BY <1>0, <1>2 DEF ChooseAddress, NewCandidate, Goto, StackWaits, StackIsStable, TypeOK
  <2> QED
    BY <2>1, <2>2, StepAlone
<1>3. ASSUME NEW h \in Hosts, GiveUp(h) PROVE Rivals' /\ Refused' /\ StackWaits'
  <2>1. Alone(h) /\ ~Holding(h)'
    BY <1>0, <1>3 DEF GiveUp, Goto, Alone, Undisturbed, Holding, TypeOK
  <2>2. StackWaits'
    BY <1>0, <1>3 DEF GiveUp, Goto, StackWaits, StackIsStable, TypeOK
  <2> QED
    BY <2>1, <2>2, StepAlone
<1>4. ASSUME NEW h \in Hosts, SendProbe(h) PROVE Rivals' /\ Refused' /\ StackWaits'
  <2>1. Delivered(h, "probe")
    BY <1>0, <1>4, SendDelivers DEF SendProbe
  <2>2. Alone(h) /\ ip' = ip
    BY <1>0, <1>4, <2>1 DEF SendProbe, Goto, Alone, Undisturbed, Delivered, TypeOK
  <2>3. StackWaits'
    BY <1>0, <1>4, ZenonT(60) DEF SendProbe, Goto, StackWaits, StackIsStable, TypeOK
  <2>4. CASE Holding(h)'
    <3>1. JustSent(h)' /\ Shown(h)' = 1
      BY <1>0, <1>4, <2>4 DEF SendProbe, Goto, Holding, JustSent, Shown, TypeOK
    <3> QED
      BY <2>1, <2>2, <2>3, <2>4, <3>1, StepSending
  <2>5. CASE ~Holding(h)'
    BY <2>2, <2>3, <2>5, StepAlone
  <2> QED
    BY <2>4, <2>5
<1>5. ASSUME NEW h \in Hosts, SendAnnouncement(h) PROVE Rivals' /\ Refused' /\ StackWaits'
  <2>1. Delivered(h, "announcement")
    BY <1>0, <1>5, SendDelivers DEF SendAnnouncement
  <2>2. Alone(h) /\ ip' = ip
    BY <1>0, <1>5, <2>1 DEF SendAnnouncement, Goto, Alone, Undisturbed, Delivered, TypeOK
  <2>3. StackWaits'
    BY <1>0, <1>5 DEF SendAnnouncement, Goto, StackWaits, StackIsStable, TypeOK
  <2>4. Holding(h) /\ event[h] = "timeout"
    BY <1>5 DEF SendAnnouncement, Holding
  <2>5. Holding(h)' /\ JustSent(h)' /\ Shown(h)' = Shown(h) + 1
    BY <1>0, <1>5, LinkLocalAssumption
    DEF SendAnnouncement, Goto, Holding, JustSent, Shown, TypeOK
  <2> QED
    BY <2>1, <2>2, <2>3, <2>4, <2>5, StepSending
<1>6. ASSUME NEW h \in Hosts, Limited(h) PROVE Rivals' /\ Refused' /\ StackWaits'
  <2>1. Alone(h) /\ ~Holding(h)'
    BY <1>0, <1>6 DEF Limited, NewCandidate, Goto, Alone, Undisturbed, Holding, TypeOK
  <2>2. StackWaits'
    BY <1>0, <1>6, ZenonT(60) DEF Limited, NewCandidate, Goto, StackWaits, StackIsStable, TypeOK
  <2> QED
    BY <2>1, <2>2, StepAlone
<1>7. ASSUME NEW h \in Hosts, UseAddress(h) PROVE Rivals' /\ Refused' /\ StackWaits'
  <2>1. Alone(h)
    BY <1>0, <1>7 DEF UseAddress, Goto, Alone, Undisturbed, TypeOK
  <2>2. /\ Holding(h) /\ ip'[h] = ip[h] /\ Shown(h)' = Shown(h)
        /\ Pending(h) => Pending(h)'
        /\ ~JustSent(h)
    BY <1>0, <1>7 DEF UseAddress, Goto, Holding, Shown, Pending, JustSent, TypeOK
  <2>3. StackWaits'
    BY <1>0, <1>7 DEF UseAddress, Goto, StackWaits, TypeOK
  <2> QED
    BY <2>1, <2>2, <2>3, StepAlone
<1>8. ASSUME NEW h \in Hosts, LoseAddress(h) PROVE Rivals' /\ Refused' /\ StackWaits'
  <2>1. Alone(h) /\ ~Holding(h)'
    BY <1>0, <1>8 DEF LoseAddress, Goto, Alone, Undisturbed, Holding, TypeOK
  <2>2. StackWaits'
    BY <1>0, <1>8 DEF LoseAddress, Goto, StackWaits, TypeOK
  <2> QED
    BY <2>1, <2>2, StepAlone
<1>9. ASSUME NEW h \in Hosts, Start(h) PROVE Rivals' /\ Refused' /\ StackWaits'
  <2>1. Alone(h) /\ ~Holding(h)'
    BY <1>0, <1>9 DEF Start, Alone, Undisturbed, Holding, TypeOK
  <2>2. StackWaits'
    BY <1>0, <1>9 DEF Start, StackWaits, StackIsStable, TypeOK
  <2> QED
    BY <2>1, <2>2, StepAlone
<1>10. ASSUME NEW h \in Hosts, Shutdown(h) PROVE Rivals' /\ Refused' /\ StackWaits'
  <2>1. Alone(h) /\ ~Holding(h)'
    BY <1>0, <1>10 DEF Shutdown, Alone, Undisturbed, Holding, TypeOK
  <2>2. StackWaits'
    BY <1>0, <1>10 DEF Shutdown, StackWaits, TypeOK
  <2> QED
    BY <2>1, <2>2, StepAlone
<1>11. ASSUME Tick PROVE Rivals' /\ Refused' /\ StackWaits'
  <2>1. \A h \in Hosts : Holding(h) => ~Pending(h)
    BY <1>11 DEF Tick, Holding, Pending, Running
  <2>2. \A h \in Hosts : (Holding(h)' <=> Holding(h)) /\ Shown(h)' = Shown(h)
    BY <1>11 DEF Tick, Holding, Shown
  <2>3. ip' = ip /\ spent' = spent
    BY <1>11 DEF Tick
  <2>4. Rivals'
    BY <2>1, <2>2, <2>3, Zenon DEF OwnInv, Rivals, Outspoken
  <2>5. Refused'
    BY <2>1, <2>2, <2>3, Zenon DEF OwnInv, Refused
  <2>6. StackWaits'
    BY <1>0, <1>11 DEF Tick, StackWaits, TypeOK
  <2> QED
    BY <2>4, <2>5, <2>6
<1>12. ASSUME UNCHANGED vars PROVE Rivals' /\ Refused' /\ StackWaits'
  <2>1. \A h \in Hosts : /\ Holding(h)' <=> Holding(h)
                         /\ Pending(h)' <=> Pending(h)
                         /\ JustSent(h)' <=> JustSent(h)
                         /\ Shown(h)' = Shown(h)
    BY <1>12, Zenon DEF vars, Holding, Pending, JustSent, Shown
  <2>2. ip' = ip /\ spent' = spent /\ addr' = addr /\ wait' = wait /\ event' = event
    BY <1>12, Zenon DEF vars
  <2>3. Rivals'
    BY <2>1, <2>2, Zenon DEF OwnInv, Rivals, Outspoken
  <2>4. Refused'
    BY <2>1, <2>2, Zenon DEF OwnInv, Refused
  <2>5. StackWaits'
    BY <2>2, ZenonT(60) DEF OwnInv, StackWaits
  <2> QED
    BY <2>3, <2>4, <2>5
<1> QED
  BY <1>1, <1>2, <1>3, <1>4, <1>5, <1>6, <1>7, <1>8, <1>9, <1>10, <1>11, <1>12
  DEF Next, Act

\* Hence it always holds.
LEMMA OwnInductive == Spec => []OwnInv
<1>1. Init => OwnInv
  BY InitInv DEF Init, OwnInv, Rivals, Refused, StackWaits, Holding, None
<1> QED
  BY <1>1, StepOwn, PTL DEF Spec

\* What the double use of an address costs in lost packets: the last probe and
\* all announcements of the later of two hosts; an answer of other equipment.
SharedAfterLosses ==
    /\ \A o, h \in Hosts : o # h /\ addr[o] # None /\ addr[o] = addr[h]
                           => spent.lost > AnnounceNum
    /\ \A h \in Hosts : addr[h] \in Taken => spent.lost > 0

\* Two hosts use one address only after more than ANNOUNCE_NUM packets were
\* lost, and a host uses an address of other equipment only after a loss,
\* whatever the number of hosts, restarts, conflicts and rate limits (the
\* probing and announcing of ll_main and the conflict events of ll_handle_arp).
THEOREM SharedOnlyByLosses == Spec => []SharedAfterLosses
<1>1. OwnInv => SharedAfterLosses
  <2> SUFFICES ASSUME OwnInv PROVE SharedAfterLosses
    OBVIOUS
  <2>0. /\ TypeOK /\ StackIsStable /\ StackWaits /\ Rivals /\ Refused
        /\ spent.lost \in Nat
    BY LinkLocalAssumption DEF OwnInv, LLInv, TypeOK
  <2>1. ASSUME NEW h \in Hosts, addr[h] # None
        PROVE  Holding(h) /\ ip[h] = addr[h] /\ ~JustSent(h) /\ Shown(h) = AnnounceNum + 1
    BY <2>0, <2>1, LinkLocalAssumption
    DEF StackIsStable, StackWaits, Holding, JustSent, Shown, Forever
  <2>2. ASSUME NEW o \in Hosts, NEW h \in Hosts, o # h, addr[o] # None, addr[o] = addr[h]
        PROVE  spent.lost > AnnounceNum
    <3>1. Outspoken(o, h) \/ Outspoken(h, o)
      BY <2>0, <2>1, <2>2, Zenon DEF Rivals
    <3>2. spent.lost >= AnnounceNum + 1
      BY <2>1, <2>2, <3>1, Zenon DEF Outspoken
    <3> QED
      BY <2>0, <3>2, LinkLocalAssumption
  <2>3. ASSUME NEW h \in Hosts, addr[h] \in Taken PROVE spent.lost > 0
    <3>1. addr[h] # None
      BY <2>3, LinkLocalAssumption, Zenon
    <3>2. spent.lost >= 1
      BY <2>0, <2>1, <2>3, <3>1, Zenon DEF Refused
    <3> QED
      BY <2>0, <3>2
  <2> QED
    BY <2>2, <2>3, Zenon DEF SharedAfterLosses
<1> QED
  BY <1>1, OwnInductive, PTL

\* As long as no more than ANNOUNCE_NUM packets are lost, and none if there is
\* other equipment, every address has one user.
THEOREM OneOwnerHolds ==
    ASSUME MaxLoss <= AnnounceNum, Taken = {} \/ MaxLoss = 0
    PROVE  Spec => []OneOwner
<1>1. LLInv /\ SharedAfterLosses => OneOwner
  <2> SUFFICES ASSUME LLInv, SharedAfterLosses PROVE OneOwner
    OBVIOUS
  <2>1. spent.lost \in Nat /\ spent.lost <= MaxLoss
    BY LinkLocalAssumption DEF LLInv, TypeOK
  <2>2. ~(spent.lost > AnnounceNum)
    BY <2>1, LinkLocalAssumption
  <2>3. Taken = {} \/ ~(spent.lost > 0)
    BY <2>1
  <2> QED
    BY <2>2, <2>3, Zenon DEF SharedAfterLosses, OneOwner
<1> QED
  BY <1>1, Inductive, SharedOnlyByLosses, PTL

-----------------------------------------------------------------------------
(* Connection management (HostSme).  It shares no state with the above.      *)
(*                                                                           *)
(* WaitIsAnswered is not inductive: it needs to know that an event which     *)
(* takes the state machine out of CONNECTED is not replayed there, and that  *)
(* one that takes it into CONNECTED is not replayed in DISASSOC (Spent).     *)

\* The event left in HostSmeMsg_evt has had its effect on hostsme_state.
Spent(s) ==
    /\ s.hostsme_state = "DISASSOC" => s.HostSmeMsg_evt \notin {"ADHOC_JOIN_RESP", "ASSOC_RESP"}
    /\ s.hostsme_state = "CONNECTED" => s.HostSmeMsg_evt \notin {"LINK_LOST", "RESTART", "DEAUTH_RESP"}

\* A command in the buffer or a timer that will put one there.
Owed(s) == s.cmd_buffer # "none" \/ s.timer

\* The event s is about to be handled for makes the state machine send a command,
\* start the timer or wait for nothing.
Leads(s) ==
    \/ s.HostSmeMsg_evt \in {"AUTH_RESP", "REASSOC_TIMEOUT"}
    \/ s.HostSmeMsg_evt = "SCAN_RESP" /\ s.send_auth # 0

IInv == SmeTypeOK /\ Spent(g) /\ WaitIsAnswered

-----------------------------------------------------------------------------
\* Every prepare function sets the flag and writes a command (userif.c).
LEMMA PrepareSends ==
    ASSUME NEW s \in Globals, NEW c \in FwCommands
    PROVE  /\ Prepare(s, c) \in Globals
           /\ Prepare(s, c).cmd_buffer # "none"
           /\ Prepare(s, c).HostSmeMsg_evt = s.HostSmeMsg_evt
           /\ Prepare(s, c).hostsme_state = s.hostsme_state
           /\ Prepare(s, c).timer = s.timer
BY Zenon DEF Prepare, Globals, FwCommands

\* HostSmeState_Handler, DISASSOC: it keeps the types and the event, and leaves
\* for CONNECTED on the two events that report a link only.
LEMMA DisassociatedStep ==
    ASSUME NEW s \in Globals, s.hostsme_state = "DISASSOC"
    PROVE  LET t == Disassociated(s)
           IN /\ t \in Globals
              /\ t.HostSmeMsg_evt = s.HostSmeMsg_evt
              /\ Spent(t)
              /\ t.hostsme_state = "CONNECTED" =>
                    s.HostSmeMsg_evt \in {"ADHOC_JOIN_RESP", "ASSOC_RESP"}
              /\ t.cmd_in_progress => Leads(s) \/ s.cmd_in_progress
              /\ Owed(s) \/ (Leads(s) /\ t.cmd_in_progress) => Owed(t)
<1> DEFINE t == Disassociated(s)
           e == s.HostSmeMsg_evt
<1>1. CASE e = "SCAN_RESP" /\ s.send_auth # 0
  <2>1. t = ScanAnswered(s)
    BY <1>1 DEF Disassociated
  <2>2. CASE s.specificSSID \in s.BSS_List
    <3> DEFINE f == FindSSIDinList(s)
    <3>1. /\ f \in Globals
          /\ f.hostsme_state = "DISASSOC" /\ f.HostSmeMsg_evt = "SCAN_RESP"
      BY <1>1, Zenon DEF FindSSIDinList, Globals, Kinds
    <3> HIDE DEF f
    <3>2. CASE f.curr_bss = "adhoc"
      <4>1. t = Prepare(f, "join")
        BY <2>1, <2>2, <3>2 DEF ScanAnswered, JoinOr, prepare_adhoc_join_cmd, f
      <4> QED  BY <1>1, <3>1, <4>1, PrepareSends DEF FwCommands, Spent, Leads, Owed
    <3>3. CASE f.curr_bss # "adhoc"
      <4> DEFINE p == Prepare(f, "auth")
      <4>1. t = [p EXCEPT !.send_auth = 1]
        BY <2>1, <2>2, <3>3 DEF ScanAnswered, JoinOr, prepare_auth_cmd, f
      <4>2. /\ p \in Globals /\ p.cmd_buffer # "none"
            /\ p.hostsme_state = "DISASSOC" /\ p.HostSmeMsg_evt = "SCAN_RESP"
        BY <3>1, PrepareSends DEF FwCommands
      <4> HIDE DEF p
      <4> QED  BY <1>1, <4>1, <4>2 DEF Globals, Spent, Leads, Owed
    <3> QED  BY <3>2, <3>3
  <2>3. CASE s.specificSSID \notin s.BSS_List /\ s.bss_type = "adhoc"
    <3> DEFINE p == Prepare(s, "start")
    <3>1. t = [p EXCEPT !.currbss_type = "adhoc"]
      BY <2>1, <2>3 DEF ScanAnswered, prepare_adhoc_start_cmd
    <3>2. /\ p \in Globals /\ p.cmd_buffer # "none"
          /\ p.hostsme_state = "DISASSOC" /\ p.HostSmeMsg_evt = "SCAN_RESP"
      BY <1>1, PrepareSends DEF FwCommands
    <3> HIDE DEF p
    <3> QED  BY <1>1, <3>1, <3>2 DEF Globals, Kinds, Spent, Leads, Owed
  <2>4. CASE s.specificSSID \notin s.BSS_List /\ s.bss_type # "adhoc"
    BY <1>1, <2>1, <2>4, ZenonT(60) DEF ScanAnswered, Globals, Spent, Leads, Owed
  <2> QED  BY <2>2, <2>3, <2>4
<1>2. CASE e \in {"AUTH_RESP", "REASSOC_TIMEOUT"}
  BY <1>2, ZenonT(60) DEF Disassociated, JoinOr, prepare_adhoc_join_cmd, prepare_assoc_cmd, Prepare,
     Globals, FwCommands, Spent, Leads, Owed
<1>3. CASE e \in {"ADHOC_JOIN_RESP", "ASSOC_RESP"}
  BY <1>3 DEF Disassociated, Globals, Spent, Leads, Owed
<1>4. CASE e = "ASSOC_RESP_FAILED"
  BY <1>4, Zenon DEF Disassociated, Globals, Spent, Leads, Owed
<1>5. CASE ~(e = "SCAN_RESP" /\ s.send_auth # 0) /\ e \notin {"AUTH_RESP", "REASSOC_TIMEOUT",
           "ADHOC_JOIN_RESP", "ASSOC_RESP", "ASSOC_RESP_FAILED"}
  <2>1. t = s
    BY <1>5 DEF Disassociated
  <2> QED  BY <1>5, <2>1 DEF Spent, Leads, Owed
<1> QED  BY <1>1, <1>2, <1>3, <1>4, <1>5, ZenonT(60)

\* HostSmeState_Handler, CONNECTED: no command is sent; a lost link starts the timer.
LEMMA ConnectedStep ==
    ASSUME NEW s \in Globals, s.hostsme_state = "CONNECTED"
    PROVE  LET t == Connected(s)
           IN /\ t \in Globals
              /\ Spent(t)
              /\ t.cmd_in_progress = s.cmd_in_progress
              /\ Owed(s) => Owed(t)
              /\ t.hostsme_state = "DISASSOC" =>
                    s.HostSmeMsg_evt \in {"RESTART", "DEAUTH_RESP"} \/ Owed(t)
<1> DEFINE e == s.HostSmeMsg_evt
<1>1. CASE e = "LINK_LOST"
  BY <1>1, Zenon DEF Connected, Globals, Spent, Owed
<1>2. CASE e \in {"RESTART", "DEAUTH_RESP"}
  BY <1>2 DEF Connected, Globals, Spent, Owed
<1>3. CASE e \notin {"LINK_LOST", "RESTART", "DEAUTH_RESP"}
  <2>1. Connected(s) = s
    BY <1>3 DEF Connected
  <2> QED  BY <1>3, <2>1 DEF Spent, Globals
<1> QED  BY <1>1, <1>2, <1>3

\* UserIF_Main, before the response: the flags change the event and link_present only.
LEMMA FlagsSeen ==
    ASSUME g \in Globals
    PROVE  LET s == SeeTimeout(SeeMac(SeeReady(g)))
           IN /\ s \in Globals
              /\ s.cmd_in_progress = g.cmd_in_progress
              /\ s.hostsme_state = g.hostsme_state
              /\ s.cmd_buffer = g.cmd_buffer
              /\ s.timer = g.timer
              /\ s.HostSmeMsg_evt \in {g.HostSmeMsg_evt, "FW_READY", "LINK_LOST", "REASSOC_TIMEOUT"}
              /\ "REASSOC_TIMEOUT_EVENT" \in ev => s.HostSmeMsg_evt = "REASSOC_TIMEOUT"
<1> DEFINE Kept(s) == /\ s \in Globals
                      /\ s.cmd_in_progress = g.cmd_in_progress
                      /\ s.hostsme_state = g.hostsme_state
                      /\ s.cmd_buffer = g.cmd_buffer
                      /\ s.timer = g.timer
           Seen == {g.HostSmeMsg_evt, "FW_READY", "LINK_LOST", "REASSOC_TIMEOUT"}
           r == SeeReady(g)
           m == SeeMac(r)
           s == SeeTimeout(m)
<1>1. Kept(r) /\ r.HostSmeMsg_evt \in Seen
  BY DEF SeeReady, Globals, SmeEvents
<1> HIDE DEF r
<1>2. Kept(m) /\ m.HostSmeMsg_evt \in Seen
  <2>1. CASE "MAC_EVENT" \in ev
    BY <1>1, <2>1, ZenonT(60) DEF SeeMac, Globals, SmeEvents
  <2>2. CASE "MAC_EVENT" \notin ev
    BY <1>1, <2>2 DEF SeeMac
  <2> QED  BY <2>1, <2>2
<1> HIDE DEF m
<1>3. Kept(s) /\ s.HostSmeMsg_evt \in Seen
      /\ ("REASSOC_TIMEOUT_EVENT" \in ev => s.HostSmeMsg_evt = "REASSOC_TIMEOUT")
  <2>1. CASE "REASSOC_TIMEOUT_EVENT" \in ev
    BY <1>2, <2>1 DEF SeeTimeout, Globals, SmeEvents
  <2>2. CASE "REASSOC_TIMEOUT_EVENT" \notin ev
    BY <1>2, <2>2 DEF SeeTimeout
  <2> QED  BY <2>1, <2>2
<1> QED  BY <1>3 DEF r, m

\* What a response does to the globals s0, the handler not yet run: either it ends
\* the command, or it leads to another one; and it reports a link when it says so.
GotAnswer(s, s0) ==
    /\ s \in Globals
    /\ s.hostsme_state = s0.hostsme_state
    /\ s.cmd_in_progress => Owed(s) \/ Leads(s) \/ (res = NoResponse /\ s = s0)
    /\ s.HostSmeMsg_evt \in {"RESTART", "DEAUTH_RESP"} =>
          ~s.cmd_in_progress \/ Owed(s) \/ s.HostSmeMsg_evt = s0.HostSmeMsg_evt
    /\ s.HostSmeMsg_evt \in {"ADHOC_JOIN_RESP", "ASSOC_RESP"} =>
          Fresh \/ s.HostSmeMsg_evt = s0.HostSmeMsg_evt

\* SeeResponse (the NO_HOST_EVENT part of UserIF_Main) answers.
LEMMA ResponseSeen ==
    ASSUME NEW s0 \in Globals, res \in Responses \cup {NoResponse}, NEW s \in SeeResponse(s0)
    PROVE  GotAnswer(s, s0)
<1>1. CASE res = NoResponse
  BY <1>1 DEF SeeResponse, GotAnswer
<1>2. CASE res # NoResponse /\ ~res.ok
  <2>1. s = [s0 EXCEPT !.cmd_in_progress = FALSE, !.HostSmeMsg_evt = "RESTART"]
    BY <1>2 DEF SeeResponse
  <2> QED  BY <2>1, Zenon DEF GotAnswer, Globals, SmeEvents
<1>3. CASE res # NoResponse /\ res.ok
  <2>1. res \in Responses /\ s \in process_cbproc_response(s0, res)
    BY <1>3 DEF SeeResponse
  <2>2. CASE res.msg = "scan"
    <3>1. s \in ScanResponse(s0, res)
      BY <2>1, <2>2, SMTT(30) DEF process_cbproc_response
    <3>2. PICK t \in (IF res.found # {} THEN parse_scan_result(s0, res.found)
                      ELSE {[s0 EXCEPT !.curr_bss = "null"]}) :
             s = [t EXCEPT !.HostSmeMsg_evt = "SCAN_RESP",
                           !.cmd_in_progress = @ /\ s0.send_auth # 0]
      BY <3>1, Zenon DEF ScanResponse
    <3>3. t \in Globals /\ t.hostsme_state = s0.hostsme_state /\ t.send_auth = s0.send_auth
      <4>1. CASE res.found # {}
        <5>1. PICK k \in (IF s0.curr_bss = "null" THEN {"null"} ELSE res.found \cup {s0.curr_bss}) :
                 t = [s0 EXCEPT !.BSS_List = res.found, !.curr_bss = k]
          BY <3>2, <4>1, Zenon DEF parse_scan_result
        <5>2. res.found \in SUBSET Kinds /\ k \in Kinds \cup {"null"}
          BY <2>1, <5>1 DEF Responses, Globals
        <5> QED  BY <5>1, <5>2, Zenon DEF Globals
      <4>2. CASE res.found = {}
        BY <3>2, <4>2 DEF Globals
      <4> QED  BY <4>1, <4>2
    <3>4. CASE s0.send_auth # 0
      <4>1. (t.cmd_in_progress /\ s0.send_auth # 0) \in BOOLEAN
        OBVIOUS
      <4> QED  BY <3>2, <3>3, <3>4, <4>1, ZenonT(60) DEF GotAnswer, Leads, Globals, SmeEvents
    <3>5. CASE s0.send_auth = 0
      <4>1. (t.cmd_in_progress /\ s0.send_auth # 0) = FALSE
        BY <3>5
      <4>2. s = [t EXCEPT !.HostSmeMsg_evt = "SCAN_RESP", !.cmd_in_progress = FALSE]
        BY <3>2, <4>1, Zenon
      <4> QED  BY <3>3, <4>2, ZenonT(60) DEF GotAnswer, Globals, SmeEvents
    <3> QED  BY <3>4, <3>5
  <2>3. CASE res.msg = "assoc" /\ res.refused
    <3>1. s = [s0 EXCEPT !.HostSmeMsg_evt = "ASSOC_RESP_FAILED", !.cmd_in_progress = FALSE]
      BY <2>1, <2>3, Zenon DEF process_cbproc_response
    <3> QED  BY <3>1, ZenonT(60) DEF GotAnswer, Globals, SmeEvents
  <2>4. CASE res.msg = "assoc" /\ ~res.refused
    <3>1. Fresh
      BY <1>3, <2>4 DEF Fresh
    <3>2. s = LinkUp(s0, "ASSOC_RESP")
      BY <2>1, <2>4, Zenon DEF process_cbproc_response
    <3> QED  BY <3>1, <3>2, ZenonT(60) DEF LinkUp, GotAnswer, Globals, SmeEvents
  <2>5. CASE res.msg \in {"start", "join"}
    <3>1. Fresh
      BY <1>3, <2>1, <2>5 DEF Fresh, Responses
    <3>2. s = LinkUp(s0, "ADHOC_JOIN_RESP")
      BY <2>1, <2>5 DEF process_cbproc_response
    <3> QED  BY <3>1, <3>2, Zenon DEF LinkUp, GotAnswer, Globals, SmeEvents
  <2>6. CASE res.msg \in {"deauth", "stop"}
    <3> DEFINE p == prepare_scan_cmd(s0, 1)
    <3>1. /\ p \in Globals /\ p.cmd_buffer # "none"
          /\ p.hostsme_state = s0.hostsme_state
      <4> DEFINE q == Prepare(s0, "scan")
      <4>1. /\ q \in Globals /\ q.cmd_buffer # "none"
            /\ q.hostsme_state = s0.hostsme_state
        BY PrepareSends DEF FwCommands
      <4>2. p = [q EXCEPT !.send_auth = 1]
        BY DEF prepare_scan_cmd
      <4> HIDE DEF p, q
      <4> QED  BY <4>1, <4>2 DEF Globals
    <3>2. s = [p EXCEPT !.HostSmeMsg_evt = "DEAUTH_RESP"]
      BY <2>1, <2>6 DEF process_cbproc_response
    <3> HIDE DEF p
    <3> QED  BY <3>1, <3>2 DEF GotAnswer, Owed, Globals, SmeEvents
  <2>7. CASE res.msg = "auth"
    BY <2>1, <2>7 DEF process_cbproc_response, GotAnswer, Leads, Globals, SmeEvents
  <2>8. CASE res.msg \in {"mcast", "mac"}
    <3>1. s = [s0 EXCEPT !.cmd_in_progress = FALSE]
      BY <2>1, <2>8 DEF process_cbproc_response
    <3> QED  BY <3>1, Zenon DEF GotAnswer, Globals, SmeEvents
  <2> QED  BY <2>1, <2>2, <2>3, <2>4, <2>5, <2>6, <2>7, <2>8 DEF Responses, FwCommands
<1> QED  BY <1>1, <1>2, <1>3

\* One wakeup of UserIF_Main keeps the invariant, and reaches CONNECTED only by a
\* response that reports a link.
LEMMA UserIFStep ==
    ASSUME IInv, UserIF_Main
    PROVE  /\ IInv'
           /\ g.hostsme_state = "DISASSOC" /\ g'.hostsme_state = "CONNECTED" => Fresh
<1> DEFINE s0 == SeeTimeout(SeeMac(SeeReady(g)))
<1>1. PICK s \in SeeResponse(s0) : g' = HostSmeState_Handler(s)
  BY DEF UserIF_Main
<1>2. g \in Globals /\ res \in Responses \cup {NoResponse}
  BY DEF IInv, SmeTypeOK
<1>3. /\ s0 \in Globals
      /\ s0.cmd_in_progress = g.cmd_in_progress
      /\ s0.hostsme_state = g.hostsme_state
      /\ s0.cmd_buffer = g.cmd_buffer
      /\ s0.timer = g.timer
      /\ s0.HostSmeMsg_evt \in {g.HostSmeMsg_evt, "FW_READY", "LINK_LOST", "REASSOC_TIMEOUT"}
      /\ "REASSOC_TIMEOUT_EVENT" \in ev => s0.HostSmeMsg_evt = "REASSOC_TIMEOUT"
  BY <1>2, FlagsSeen
<1> HIDE DEF s0
<1>4. GotAnswer(s, s0)
  BY <1>1, <1>2, <1>3, ResponseSeen, ZenonT(60)
<1>5. s \in Globals /\ s.hostsme_state = g.hostsme_state
  BY <1>3, <1>4 DEF GotAnswer
<1>6. g.hostsme_state \in {"DISASSOC", "CONNECTED"}
  BY <1>2 DEF Globals
<1>7. CASE g.hostsme_state = "DISASSOC"
  <2>1. g' = Disassociated(s)
    BY <1>1, <1>5, <1>7 DEF HostSmeState_Handler
  <2>2. /\ g' \in Globals
        /\ Spent(g')
        /\ g'.hostsme_state = "CONNECTED" => s.HostSmeMsg_evt \in {"ADHOC_JOIN_RESP", "ASSOC_RESP"}
        /\ g'.cmd_in_progress => Leads(s) \/ s.cmd_in_progress
        /\ Owed(s) \/ (Leads(s) /\ g'.cmd_in_progress) => Owed(g')
    BY <1>5, <1>7, <2>1, DisassociatedStep
  <2>3. s0.HostSmeMsg_evt \notin {"ADHOC_JOIN_RESP", "ASSOC_RESP"}
    BY <1>3, <1>7 DEF IInv, Spent
  <2>4. g'.hostsme_state = "CONNECTED" => Fresh
    BY <1>4, <2>2, <2>3 DEF GotAnswer
  <2>5. g'.cmd_in_progress => Owed(g') \/ fw # "idle"
    <3> SUFFICES ASSUME g'.cmd_in_progress, fw = "idle" PROVE Owed(g')
      OBVIOUS
    <3>1. CASE Leads(s) \/ Owed(s)
      BY <2>2, <3>1
    <3>2. CASE ~Leads(s) /\ ~Owed(s)
      <4>1. s.cmd_in_progress /\ res = NoResponse /\ s = s0
        BY <1>4, <2>2, <3>2 DEF GotAnswer
      <4>2. \/ g.cmd_buffer # "none" \/ g.timer
            \/ "REASSOC_TIMEOUT_EVENT" \in ev
        BY <1>3, <1>7, <4>1, ZenonT(60) DEF IInv, WaitIsAnswered
      <4> QED  BY <1>3, <3>2, <4>1, <4>2 DEF Leads, Owed
    <3> QED  BY <3>1, <3>2
  <2> QED  BY <2>2, <2>4, <2>5 DEF IInv, SmeTypeOK, UserIF_Main, WaitIsAnswered, Owed
<1>8. CASE g.hostsme_state = "CONNECTED"
  <2>1. g' = Connected(s)
    BY <1>1, <1>5, <1>8 DEF HostSmeState_Handler
  <2>2. /\ g' \in Globals
        /\ Spent(g')
        /\ g'.cmd_in_progress = s.cmd_in_progress
        /\ Owed(s) => Owed(g')
        /\ g'.hostsme_state = "DISASSOC" =>
              s.HostSmeMsg_evt \in {"RESTART", "DEAUTH_RESP"} \/ Owed(g')
    BY <1>5, <1>8, <2>1, ConnectedStep
  <2>3. s0.HostSmeMsg_evt \notin {"RESTART", "DEAUTH_RESP"}
    BY <1>3, <1>8 DEF IInv, Spent
  <2>4. g'.cmd_in_progress /\ g'.hostsme_state = "DISASSOC" => Owed(g')
    BY <1>4, <2>2, <2>3 DEF GotAnswer
  <2> QED  BY <1>8, <2>2, <2>4 DEF IInv, SmeTypeOK, UserIF_Main, WaitIsAnswered, Owed
<1> QED  BY <1>6, <1>7, <1>8

\* A console command that prepares a firmware command c, possibly with other fields
\* than the flag, the buffer, the event and the state changed.
LEMMA CommandStep ==
    ASSUME IInv, NEW s, s \in Globals,
           g' = s, UNCHANGED <<fw, res, ev, radio>>,
           con' \in {"wait", "line", "essid"}, lines' \in 0 .. MaxLines,
           s.hostsme_state = g.hostsme_state,
           s.HostSmeMsg_evt \in {g.HostSmeMsg_evt, "GET_MACADDR_RESP"},
           \/ s.cmd_buffer # "none"
           \/ /\ s.cmd_buffer = g.cmd_buffer
              /\ s.timer = g.timer
              /\ s.cmd_in_progress = g.cmd_in_progress
    PROVE  IInv' /\ g'.hostsme_state = g.hostsme_state
<1>1. SmeTypeOK'
  BY DEF IInv, SmeTypeOK
<1>2. Spent(g')
  BY DEF IInv, Spent
<1>3. WaitIsAnswered'
  BY Zenon DEF IInv, WaitIsAnswered
<1> QED  BY <1>1, <1>2, <1>3 DEF IInv

\* Nothing waits when UserIF_Main starts.
LEMMA InitIInv == SmeInit => IInv
<1> SUFFICES ASSUME SmeInit PROVE IInv
  OBVIOUS
<1>1. g \in Globals
  BY DEF SmeInit, Globals, Kinds, FwCommands, SmeEvents
<1>2. ~g.cmd_in_progress /\ g.hostsme_state = "DISASSOC" /\ g.HostSmeMsg_evt = "FW_READY"
  BY DEF SmeInit
<1>3. lines \in 0 .. MaxLines
  BY LinesAssumption DEF SmeInit
<1>4. SmeTypeOK
  BY <1>1, <1>3, Zenon DEF SmeInit, SmeTypeOK
<1> QED  BY <1>2, <1>4, ZenonT(60) DEF IInv, Spent, WaitIsAnswered

\* The console's steps keep the invariant and the state of the state machine.
LEMMA ConsoleStep ==
    ASSUME IInv, Console
    PROVE  IInv' /\ g'.hostsme_state = g.hostsme_state
<1>0. g \in Globals /\ lines \in 0 .. MaxLines
  BY DEF IInv, SmeTypeOK
<1>1. CASE Prompt
  <2>0. g' = g /\ lines > 0 /\ lines' = lines - 1
    BY <1>1, Zenon DEF Prompt
  <2>1. g' = g /\ lines' \in 0 .. MaxLines
    BY <1>0, <2>0, LinesAssumption
  <2> QED  BY <1>0, <1>1, <2>1, CommandStep DEF Prompt
<1>2. CASE Iwlist
  <2> DEFINE p == Prepare(g, "scan")
  <2>1. /\ p \in Globals /\ p.cmd_buffer # "none" /\ p.hostsme_state = g.hostsme_state
        /\ p.HostSmeMsg_evt = g.HostSmeMsg_evt
    BY <1>0, PrepareSends DEF FwCommands
  <2>2. g' = [p EXCEPT !.send_auth = 0]
    BY <1>2 DEF Iwlist, Command, prepare_scan_cmd
  <2> HIDE DEF p
  <2>3. /\ g' \in Globals /\ g'.cmd_buffer # "none" /\ g'.hostsme_state = g.hostsme_state
        /\ g'.HostSmeMsg_evt = g.HostSmeMsg_evt
    BY <2>1, <2>2 DEF Globals
  <2> QED  BY <1>0, <1>2, <2>3, CommandStep DEF Iwlist, Command
<1>3. CASE IwconfigEssid
  <2>1. PICK n \in Kinds :
           LET s == [g EXCEPT !.specificSSID = n]
           IN g' = IF ~s.link_present THEN prepare_scan_cmd(s, 1)
                   ELSE IF s.currbss_type # "adhoc" THEN prepare_deauth_cmd(s)
                   ELSE prepare_adhoc_stop_cmd(s)
    BY <1>3 DEF IwconfigEssid
  <2> DEFINE s == [g EXCEPT !.specificSSID = n]
  <2>2. /\ s \in Globals /\ s.hostsme_state = g.hostsme_state
        /\ s.HostSmeMsg_evt = g.HostSmeMsg_evt
    BY <1>0 DEF Globals
  <2>3. g' \in {prepare_scan_cmd(s, 1), Prepare(s, "deauth"), Prepare(s, "stop")}
    BY <2>1 DEF prepare_deauth_cmd, prepare_adhoc_stop_cmd
  <2> HIDE DEF s
  <2>4. /\ g' \in Globals /\ g'.cmd_buffer # "none" /\ g'.hostsme_state = g.hostsme_state
        /\ g'.HostSmeMsg_evt = g.HostSmeMsg_evt
    <3>1. CASE g' = prepare_scan_cmd(s, 1)
      <4> DEFINE p == Prepare(s, "scan")
      <4>1. /\ p \in Globals /\ p.cmd_buffer # "none" /\ p.hostsme_state = g.hostsme_state
            /\ p.HostSmeMsg_evt = g.HostSmeMsg_evt
        BY <2>2, PrepareSends DEF FwCommands
      <4>2. g' = [p EXCEPT !.send_auth = 1]
        BY <3>1 DEF prepare_scan_cmd
      <4> HIDE DEF p
      <4> QED  BY <4>1, <4>2 DEF Globals
    <3>2. CASE g' \in {Prepare(s, "deauth"), Prepare(s, "stop")}
      BY <2>2, <3>2, PrepareSends DEF FwCommands
    <3> QED  BY <2>3, <3>1, <3>2
  <2> QED  BY <1>0, <1>3, <2>4, CommandStep DEF IwconfigEssid
<1>4. CASE IwconfigEssidDone
  <2>1. /\ g' \in Globals /\ g'.hostsme_state = g.hostsme_state
        /\ g'.HostSmeMsg_evt = g.HostSmeMsg_evt /\ g'.cmd_buffer = g.cmd_buffer
        /\ g'.timer = g.timer /\ g'.cmd_in_progress = g.cmd_in_progress
    BY <1>0, <1>4, Zenon DEF IwconfigEssidDone, Globals
  <2> QED  BY <1>0, <1>4, <2>1, CommandStep, Zenon DEF IwconfigEssidDone
<1>5. CASE IwconfigMode
  <2>1. /\ g' \in Globals /\ g'.hostsme_state = g.hostsme_state
        /\ g'.HostSmeMsg_evt = g.HostSmeMsg_evt /\ g'.cmd_buffer = g.cmd_buffer
        /\ g'.timer = g.timer /\ g'.cmd_in_progress = g.cmd_in_progress
    BY <1>0, <1>5 DEF IwconfigMode, Command, Globals
  <2> QED  BY <1>0, <1>5, <2>1, CommandStep, Zenon DEF IwconfigMode, Command
<1>6. CASE IwconfigAp
  <2>1. PICK k \in Kinds :
           g' = IF k \in g.BSS_List THEN prepare_auth_cmd(FindBSSIDinList(g, k))
                ELSE IF g.link_present THEN prepare_deauth_cmd([g EXCEPT !.link_present = FALSE])
                ELSE prepare_scan_cmd(g, 2)
    BY <1>6 DEF IwconfigAp, Command
  <2> DEFINE f == FindBSSIDinList(g, k)
             l == [g EXCEPT !.link_present = FALSE]
             Like(s) == /\ s \in Globals /\ s.hostsme_state = g.hostsme_state
                        /\ s.HostSmeMsg_evt = g.HostSmeMsg_evt
  <2>2. Like(f) /\ Like(l) /\ Like(g)
    BY <1>0, Zenon DEF FindBSSIDinList, Globals
  <2>3. g' \in {[Prepare(f, "auth") EXCEPT !.send_auth = 1], Prepare(l, "deauth"),
               [Prepare(g, "scan") EXCEPT !.send_auth = 2]}
    BY <2>1 DEF prepare_auth_cmd, prepare_deauth_cmd, prepare_scan_cmd
  <2> HIDE DEF f, l
  <2>4. \A s \in {Prepare(f, "auth"), Prepare(l, "deauth"), Prepare(g, "scan")} :
           Like(s) /\ s.cmd_buffer # "none"
    BY <2>2, PrepareSends DEF FwCommands
  <2>5. PICK s \in {Prepare(f, "auth"), Prepare(l, "deauth"), Prepare(g, "scan")} :
           g' \in {s, [s EXCEPT !.send_auth = 1], [s EXCEPT !.send_auth = 2]}
    BY <2>3
  <2>6. Like(g') /\ g'.cmd_buffer # "none"
    BY <2>4, <2>5 DEF Globals
  <2> QED  BY <1>0, <1>6, <2>6, CommandStep, Zenon DEF IwconfigAp, Command
<1>7. CASE Ping
  <2> DEFINE p == Prepare(g, "mac")
  <2>1. p \in Globals /\ p.cmd_buffer # "none" /\ p.hostsme_state = g.hostsme_state
    BY <1>0, PrepareSends DEF FwCommands
  <2>2. g' = [p EXCEPT !.HostSmeMsg_evt = "GET_MACADDR_RESP"]
    BY <1>7 DEF Ping, Command, prepare_macaddr_get_cmd
  <2> HIDE DEF p
  <2>3. /\ g' \in Globals /\ g'.cmd_buffer # "none" /\ g'.hostsme_state = g.hostsme_state
        /\ g'.HostSmeMsg_evt = "GET_MACADDR_RESP"
    BY <2>1, <2>2 DEF Globals, SmeEvents
  <2> QED  BY <1>0, <1>7, <2>3, CommandStep DEF Ping, Command
<1>8. CASE Mcast
  <2>1. /\ g' \in Globals /\ g'.cmd_buffer # "none" /\ g'.hostsme_state = g.hostsme_state
        /\ g'.HostSmeMsg_evt = g.HostSmeMsg_evt
    BY <1>0, <1>8, PrepareSends DEF Mcast, Command, prepare_mcast_cmd, FwCommands
  <2> QED  BY <1>0, <1>8, <2>1, CommandStep, ZenonT(60) DEF Mcast, Command
<1> QED  BY <1>1, <1>2, <1>3, <1>4, <1>5, <1>6, <1>7, <1>8 DEF Console

\* The timer and the firmware keep the invariant and the state of the state machine.
LEMMA OutsideStep ==
    ASSUME IInv, ReAssocActTimeOut \/ FwTake \/ FwRespond \/ FwLinkLost
    PROVE  IInv' /\ g'.hostsme_state = g.hostsme_state
<1>0. g \in Globals
  BY DEF IInv, SmeTypeOK
<1>1. CASE ReAssocActTimeOut
  BY <1>0, <1>1, Zenon DEF ReAssocActTimeOut, IInv, SmeTypeOK, Globals, Spent, WaitIsAnswered
<1>2. CASE FwTake
  <2>1. /\ g' \in Globals /\ fw' \in FwCommands /\ fw' # "idle"
        /\ g'.hostsme_state = g.hostsme_state /\ g'.HostSmeMsg_evt = g.HostSmeMsg_evt
    BY <1>0, <1>2 DEF FwTake, Globals, FwCommands
  <2> QED  BY <1>2, <2>1 DEF FwTake, IInv, SmeTypeOK, Spent, WaitIsAnswered
<1>3. CASE FwRespond
  <2>1. /\ g' = g /\ fw' = "idle" /\ res' \in Responses
    BY <1>3 DEF FwRespond
  <2>2. res' # NoResponse
    BY <2>1 DEF Responses, NoResponse, FwCommands
  <2>3. radio' \in BOOLEAN
    BY <1>3, Zenon DEF FwRespond, IInv, SmeTypeOK
  <2> QED  BY <1>3, <2>1, <2>2, <2>3, Zenon DEF FwRespond, IInv, SmeTypeOK, Spent, WaitIsAnswered
<1>4. CASE FwLinkLost
  BY <1>4, Zenon DEF FwLinkLost, IInv, SmeTypeOK, Spent, WaitIsAnswered
<1> QED  BY <1>1, <1>2, <1>3, <1>4

\* Every step keeps the invariant, and reaches CONNECTED only by such a response.
LEMMA StepIInv ==
    ASSUME IInv, [SmeNext]_smeVars
    PROVE  /\ IInv'
           /\ g.hostsme_state = "DISASSOC" /\ g'.hostsme_state = "CONNECTED" => Fresh
<1>1. CASE Console
  BY <1>1, ConsoleStep
<1>2. CASE UserIF_Main
  BY <1>2, UserIFStep
<1>3. CASE ReAssocActTimeOut \/ FwTake \/ FwRespond \/ FwLinkLost
  BY <1>3, OutsideStep
<1>4. CASE UNCHANGED smeVars
  BY <1>4 DEF smeVars, IInv, SmeTypeOK, Spent, WaitIsAnswered
<1> QED  BY <1>1, <1>2, <1>3, <1>4 DEF SmeNext

\* The globals of userif.c and hostsme_sm.c keep their types, and outside CONNECTED
\* the console waits (cmd_parser) only for an answer that is owed to it, however
\* many lines are typed.
THEOREM WaitAnsweredAlways == SmeSpec => []SmeTypeOK /\ []WaitIsAnswered
<1>1. IInv /\ [SmeNext]_smeVars => IInv'
  BY StepIInv
<1>2. IInv => SmeTypeOK /\ WaitIsAnswered
  BY DEF IInv
<1> QED  BY InitIInv, <1>1, <1>2, PTL DEF SmeSpec

\* A stale HostSmeMsg_evt never takes the state machine to CONNECTED: only a
\* response that reports a link does (UserIF_Main, HostSmeState_Handler).
THEOREM ConnectedByResponseAlways == SmeSpec => ConnectedByResponse
<1>1. IInv /\ [SmeNext]_smeVars => IInv'
  BY StepIInv
<1>2. IInv /\ [SmeNext]_smeVars =>
         [g'.hostsme_state # g.hostsme_state /\ g'.hostsme_state = "CONNECTED" => Fresh]_smeVars
  <2> SUFFICES ASSUME IInv, [SmeNext]_smeVars,
                      g'.hostsme_state # g.hostsme_state, g'.hostsme_state = "CONNECTED"
               PROVE  Fresh
    OBVIOUS
  <2>1. g.hostsme_state \in {"DISASSOC", "CONNECTED"}
    BY DEF IInv, SmeTypeOK, Globals
  <2> QED  BY <2>1, StepIInv
<1> QED  BY InitIInv, <1>1, <1>2, PTL DEF SmeSpec, ConnectedByResponse
=============================================================================

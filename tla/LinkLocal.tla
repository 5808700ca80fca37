------------------------------- MODULE LinkLocal -------------------------------
(*****************************************************************************)
(* Link-local addressing (8388V-SDK/Applications/customApp/src/linklocal.c): *)
(* the hosts of one link, each with the thread ll_main, which probes for,    *)
(* announces and then uses an address, and the ARP handler ll_handle_arp,    *)
(* which runs when a packet arrives and raises a conflict event.             *)
(*                                                                           *)
(* Time passes in ticks of a second.  A packet arrives at once or not at     *)
(* all, also between the thread's taking of an event and its reaction; a     *)
(* thread that is due runs before the next tick.                             *)
(*****************************************************************************)
EXTENDS Integers, FiniteSets

CONSTANTS
    Hosts,
    Ips,            \* the addresses that ll_random_ip chooses from
    Taken,          \* those in use by other equipment, which answers ARP
    ProbeNum,       \* PROBE_NUM
    AnnounceNum,    \* ANNOUNCE_NUM
    MaxConflicts,   \* MAX_CONFLICTS
    RateLimit,      \* RATE_LIMIT_INTERVAL
    MaxLoss, MaxStarts   \* bounds on lost packets and on calls of ll_init

None == 0           \* no address: all zero

Forever == -1       \* SYS_FOREVER

ASSUME LinkLocalAssumption ==
    /\ IsFiniteSet(Hosts)
    /\ Ips \subseteq Nat \ {None} /\ Ips # {} /\ Taken \subseteq Ips
    /\ {ProbeNum, AnnounceNum, MaxConflicts} \subseteq Nat \ {0}
    /\ RateLimit \in Nat /\ RateLimit > 2
    /\ {MaxLoss, MaxStarts} \subseteq Nat

VARIABLES
    st,         \* ll_state; "off": not running; "dead": ll_running without a thread
    ip,         \* ll_candidate_ip
    probe, announce, conflicts,   \* locals of ll_main; MaxConflicts: so many or more
    flag,       \* LL_CONFLICT_EVENT is set
    event,      \* what the thread has woken up for, "none" while it waits
    wait,       \* what is left of its timeout
    addr,       \* the address of the TCP/IP stack, None when it is halted
    sent,       \* probes sent for the candidate (not kept by the code)
    spent       \* lost packets and starts so far

vars == <<st, ip, probe, announce, conflicts, flag, event, wait, addr, sent, spent>>

Running(h) == st[h] \notin {"off", "dead"}

-----------------------------------------------------------------------------
(* ARP. *)

\* ll_arp_conflict: does a probe or announcement of address a conflict with the
\* candidate b?  The sender address of a probe is all zero.
ArpConflict(kind, a, b) == a = b \/ (kind = "probe" /\ b = None)

\* A user of address a other than h answers a probe for it (external: the
\* TCP/IP stacks of the link).
Answered(h, a) == a \in Taken \/ \E g \in Hosts \ {h} : addr[g] = a

\* h broadcasts a packet; the handlers of the others that lose nothing look at
\* it, and an answer gets back to the handler of h.
Send(h, kind) ==
    LET heard == {g \in Hosts \ {h} : Running(g) /\ ArpConflict(kind, ip[h], ip[g])}
        back == IF kind = "probe" /\ Answered(h, ip[h]) THEN {h} ELSE {}
    IN \E lost \in SUBSET (heard \cup back) :
         /\ spent.lost + Cardinality(lost) <= MaxLoss
         /\ spent' = [spent EXCEPT !.lost = @ + Cardinality(lost)]
         /\ flag' = [g \in Hosts |-> flag[g] \/ g \in (heard \cup back) \ lost]

-----------------------------------------------------------------------------
(* ll_main. *)

\* Mutant: the event is looked at only if it cut the wait short.
WakeLate(h) ==
    /\ Running(h) /\ event[h] = "none"
    /\ flag[h] \/ wait[h] = 0
    /\ event' = [event EXCEPT ![h] = IF wait[h] # 0 THEN "conflict" ELSE "timeout"]
    /\ flag' = [flag EXCEPT ![h] = FALSE]
    /\ UNCHANGED <<st, ip, probe, announce, conflicts, wait, addr, sent, spent>>

\* sys_eflags_wait returns: an event, which is cleared, or the end of the time.
Wake(h) ==
    /\ Running(h) /\ event[h] = "none"
    /\ flag[h] \/ wait[h] = 0
    /\ event' = [event EXCEPT ![h] = IF flag[h] THEN "conflict" ELSE "timeout"]
    /\ conflicts' = [conflicts EXCEPT ![h] = IF flag[h] /\ @ < MaxConflicts THEN @ + 1 ELSE @]
    /\ flag' = [flag EXCEPT ![h] = FALSE]
    /\ UNCHANGED <<st, ip, probe, announce, wait, addr, sent, spent>>

\* The thread goes on to state s and waits for t.
Goto(h, s, t) ==
    /\ st' = [st EXCEPT ![h] = s]
    /\ wait' = [wait EXCEPT ![h] = t]
    /\ event' = [event EXCEPT ![h] = "none"]

\* ll_random_ip
NewCandidate(h) ==
    /\ \E a \in Ips : ip' = [ip EXCEPT ![h] = a]
    /\ sent' = [sent EXCEPT ![h] = 0]

\* LL_NO_ADDRESS: PROBE_WAIT is one second.
ChooseAddress(h) ==
    /\ st[h] = "no_address" /\ event[h] # "none"
    /\ \E t \in 0 .. 1 : Goto(h, "probe", t)
    /\ NewCandidate(h)
    /\ probe' = [probe EXCEPT ![h] = 0]
    /\ UNCHANGED <<announce, conflicts, flag, addr, spent>>

\* A conflict while probing or announcing.
GiveUp(h) ==
    /\ st[h] \in {"probe", "announce"} /\ event[h] = "conflict"
    /\ \/ /\ conflicts[h] >= MaxConflicts
          /\ Goto(h, "limited", RateLimit)
          /\ ip' = [ip EXCEPT ![h] = None]
       \/ /\ conflicts[h] < MaxConflicts
          /\ Goto(h, "no_address", 0)
          /\ ip' = ip
    /\ UNCHANGED <<probe, announce, conflicts, flag, addr, sent, spent>>

\* PROBE_MIN to PROBE_MAX until the next probe, ANNOUNCE_WAIT after the last.
SendProbe(h) ==
    /\ st[h] = "probe" /\ event[h] = "timeout"
    /\ Send(h, "probe")
    /\ \/ /\ probe[h] = ProbeNum - 1
          /\ Goto(h, "announce", 2)
          /\ announce' = [announce EXCEPT ![h] = 0]
          /\ probe' = probe
       \/ /\ probe[h] < ProbeNum - 1
          /\ \E t \in 1 .. 2 : Goto(h, "probe", t)
          /\ probe' = [probe EXCEPT ![h] = @ + 1]
          /\ announce' = announce
    /\ sent' = [sent EXCEPT ![h] = @ + 1]
    /\ UNCHANGED <<ip, conflicts, addr>>

\* Mutant: the count starts over and LL_STABLE is never reached.
SendAnnouncementOnce(h) ==
    /\ st[h] = "announce" /\ event[h] = "timeout"
    /\ Send(h, "announcement")
    /\ Goto(h, "announce", 2)
    /\ announce' = [announce EXCEPT ![h] = (@ + 1) % AnnounceNum]
    /\ UNCHANGED <<ip, probe, conflicts, addr, sent>>

\* ANNOUNCE_INTERVAL after each announcement.
SendAnnouncement(h) ==
    /\ st[h] = "announce" /\ event[h] = "timeout"
    /\ Send(h, "announcement")
    /\ \/ announce[h] = AnnounceNum - 1 /\ Goto(h, "stable", 2) /\ announce' = announce
       \/ /\ announce[h] < AnnounceNum - 1
          /\ Goto(h, "announce", 2)
          /\ announce' = [announce EXCEPT ![h] = @ + 1]
    /\ UNCHANGED <<ip, probe, conflicts, addr, sent>>

\* Mutant: the new candidate is not probed.
LimitedAnnounces(h) ==
    /\ st[h] = "limited" /\ event[h] # "none"
    /\ Goto(h, "announce", 0) /\ NewCandidate(h)
    /\ UNCHANGED <<probe, announce, conflicts, flag, addr, spent>>

\* LL_RATE_LIMITED_PROBE, at a conflict or after RATE_LIMIT_INTERVAL.  probe is
\* what it was when the last candidate was given up.
Limited(h) ==
    /\ st[h] = "limited"
    /\ \/ /\ event[h] = "conflict"
          /\ Goto(h, "limited", RateLimit)
          /\ ip' = [ip EXCEPT ![h] = None]
          /\ sent' = sent
       \/ event[h] = "timeout" /\ Goto(h, "probe", 0) /\ NewCandidate(h)
    /\ UNCHANGED <<probe, announce, conflicts, flag, addr, spent>>

\* LL_STABLE without a conflict: sys_tcpip_init, or another try in a second.
UseAddress(h) ==
    /\ st[h] = "stable" /\ event[h] = "timeout"
    /\ \/ Goto(h, "stable", Forever) /\ addr' = [addr EXCEPT ![h] = ip[h]]
       \/ Goto(h, "stable", 1) /\ addr' = addr
    /\ conflicts' = [conflicts EXCEPT ![h] = 0]
    /\ UNCHANGED <<ip, probe, announce, flag, sent, spent>>

\* Mutant: the TCP/IP stack is not halted.
LoseAddressKeeps(h) ==
    /\ st[h] = "stable" /\ event[h] = "conflict"
    /\ Goto(h, "no_address", 0)
    /\ UNCHANGED <<ip, probe, announce, conflicts, flag, addr, sent, spent>>

\* LL_STABLE: "Somebody jacked our address.  Try again."
LoseAddress(h) ==
    /\ st[h] = "stable" /\ event[h] = "conflict"
    /\ Goto(h, "no_address", 0)
    /\ addr' = [addr EXCEPT ![h] = None]
    /\ UNCHANGED <<ip, probe, announce, conflicts, flag, sent, spent>>

Act(h) == ChooseAddress(h) \/ GiveUp(h) \/ SendProbe(h) \/ SendAnnouncement(h)
          \/ Limited(h) \/ UseAddress(h) \/ LoseAddress(h)

-----------------------------------------------------------------------------
(* ll_init and ll_shutdown. *)

\* num_conflicts is not initialised: it may be anything, also the -1 of the stack
\* that sys_thread_create fills with 0xFF.  If the event flags or the thread
\* cannot be created, ll_running is set all the same.
Start(h) ==
    /\ st[h] = "off" /\ spent.starts < MaxStarts
    /\ spent' = [spent EXCEPT !.starts = @ + 1]
    /\ \E s \in {"no_address", "dead"} : st' = [st EXCEPT ![h] = s]
    /\ \E n \in -1 .. MaxConflicts : conflicts' = [conflicts EXCEPT ![h] = n]
    /\ probe' = [probe EXCEPT ![h] = 0]
    /\ announce' = [announce EXCEPT ![h] = 0]
    /\ flag' = [flag EXCEPT ![h] = FALSE]
    /\ event' = [event EXCEPT ![h] = "none"]
    /\ wait' = [wait EXCEPT ![h] = 0]
    /\ UNCHANGED <<ip, addr, sent>>

Shutdown(h) ==
    /\ st[h] # "off"
    /\ st' = [st EXCEPT ![h] = "off"]
    /\ addr' = [addr EXCEPT ![h] = None]
    /\ UNCHANGED <<ip, probe, announce, conflicts, flag, event, wait, sent, spent>>

Tick ==
    /\ \A h \in Hosts : Running(h) => event[h] = "none" /\ ~flag[h] /\ wait[h] # 0
    /\ wait' = [h \in Hosts |-> IF Running(h) /\ wait[h] > 0 THEN wait[h] - 1 ELSE wait[h]]
    /\ UNCHANGED <<st, ip, probe, announce, conflicts, flag, event, addr, sent, spent>>

-----------------------------------------------------------------------------
Init ==
    /\ st = [h \in Hosts |-> "off"]
    /\ ip = [h \in Hosts |-> None]
    /\ probe = [h \in Hosts |-> 0] /\ announce = [h \in Hosts |-> 0]
    /\ conflicts = [h \in Hosts |-> 0]
    /\ flag = [h \in Hosts |-> FALSE]
    /\ event = [h \in Hosts |-> "none"]
    /\ wait = [h \in Hosts |-> 0]
    /\ addr = [h \in Hosts |-> None]
    /\ sent = [h \in Hosts |-> 0]
    /\ spent = [lost |-> 0, starts |-> 0]

Next == (\E h \in Hosts : Wake(h) \/ Act(h) \/ Start(h) \/ Shutdown(h)) \/ Tick

Spec == Init /\ [][Next]_vars

\* The threads run and waits end; sys_tcpip_init succeeds and the random choice
\* of an address falls on a free one, each if tried often enough.
Fairness ==
    /\ WF_vars(Tick)
    /\ \A h \in Hosts : /\ WF_vars(Wake(h)) /\ WF_vars(Act(h))
                        /\ SF_vars(UseAddress(h) /\ addr'[h] # None)
                        /\ SF_vars((ChooseAddress(h) \/ Limited(h)) /\ ip'[h] \in Ips \ Taken)

FairSpec == Spec /\ Fairness

-----------------------------------------------------------------------------
(* Properties. *)

\* Type invariant.
TypeOK ==
    /\ st \in [Hosts -> {"off", "dead", "no_address", "probe", "announce", "limited", "stable"}]
    /\ ip \in [Hosts -> Ips \cup {None}] /\ addr \in [Hosts -> Ips \cup {None}]
    /\ probe \in [Hosts -> 0 .. ProbeNum - 1] /\ announce \in [Hosts -> 0 .. AnnounceNum - 1]
    /\ conflicts \in [Hosts -> -1 .. MaxConflicts]
    /\ flag \in [Hosts -> BOOLEAN]
    /\ event \in [Hosts -> {"none", "timeout", "conflict"}]
    /\ wait \in [Hosts -> {Forever} \cup 0 .. RateLimit]
    /\ sent \in [Hosts -> 0 .. ProbeNum]
    /\ spent \in [lost : 0 .. MaxLoss, starts : 0 .. MaxStarts]

\* No two TCP/IP stacks of the link use one address, and none uses the address
\* of other equipment, as long as threads react within a second and packets get
\* through (probing, announcing and the reaction to conflicts of ll_main).
OneOwner ==
    \A h \in Hosts : addr[h] # None =>
      addr[h] \notin Taken /\ \A g \in Hosts \ {h} : addr[g] # addr[h]

\* The stack runs only with the address that was probed and announced last, and
\* only in LL_STABLE: every way out of that state halts it (sys_tcpip_halt).
StackIsStable == \A h \in Hosts : addr[h] # None => st[h] = "stable" /\ addr[h] = ip[h]

\* A host that is alone on the link in the end gets an address, whatever
\* conflicts it met and wherever it was in its rate limiting.
AloneConfigured ==
    \A h \in Hosts : <>[](\A g \in Hosts : Running(g) <=> g = h) => <>[](addr[h] # None)

\* No address is announced or used that was not probed for first, also the one
\* chosen after rate limiting, where ll_main does not start the count anew.
Probed == \A h \in Hosts : st[h] \in {"announce", "stable"} => sent[h] > 0
=============================================================================

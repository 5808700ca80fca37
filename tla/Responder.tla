------------------------------- MODULE Responder -------------------------------
(*****************************************************************************)
(* The responder threads of libmdns (mdns/mdns_respond.c, do_responder) on   *)
(* one link: probing for the host name and the service name, the tie-break   *)
(* between simultaneous probes, renaming on a conflict, the announcement,    *)
(* the defence of claimed names by answering probes, delayed responses, and  *)
(* the goodbye.                                                              *)
(*                                                                           *)
(* All hosts want the same name, the case the protocol is for: a name is a   *)
(* kind ("host" or "svc") and a suffix, 1 for foo.local and k for            *)
(* foo-k.local.                                                              *)
(*                                                                           *)
(* Time passes in ticks of 125 ms.  A packet is handled in the tick in which *)
(* it was sent, or lost; a timer that has run out is served before the next  *)
(* tick, before or after the packets that arrive in that tick.               *)
(*****************************************************************************)
EXTENDS TieBreak

CONSTANTS
    Hosts,         \* numbers, in the order of the hosts' IP addresses
    Offers,        \* the hosts that advertise a service
    Port,          \* the port of each host's service
    Txt,           \* its key/value pairs as bytes, <<>> for none
    Originals,     \* what may be passed to mdns_launch: the suffixes of each host's names
    MaxSuffix,     \* 9: foo-9.local is the last name tried
    ProbeTicks,    \* 250 ms
    DelayTicks,    \* at most 120 ms
    BackoffTicks,  \* 5 s
    ClientPorts,   \* source ports of client queries: "mdns" is 5353
    MaxDisturbances, MaxHalts  \* bounds on client queries and lost packets, on halts

Name == [host : 1 .. MaxSuffix, svc : 0 .. MaxSuffix]

ASSUME ResponderAssumption ==
    /\ Hosts \subseteq Nat /\ IsFiniteSet(Hosts) /\ Offers \subseteq Hosts
    /\ Port \in [Hosts -> Nat] /\ Txt \in [Hosts -> Seq(Nat)]
    /\ Originals \subseteq [Hosts -> Name]
    /\ \A n \in Originals, h \in Hosts : n[h].svc = 0 <=> h \notin Offers
    /\ {MaxSuffix, ProbeTicks, DelayTicks, BackoffTicks} \subseteq Nat
    /\ {MaxDisturbances, MaxHalts} \subseteq Nat
    /\ DelayTicks < ProbeTicks /\ ProbeTicks < BackoffTicks

VARIABLES
    original, \* hname, domname and the services' names as passed to mdns_launch
    st,       \* state of do_responder, "off" when the thread does not run
    name,     \* fqdn and fqsn
    wait,     \* probe_wait_time, what is left of it
    since,    \* time since the current select began
    inbox,    \* packets on their way to the multicast socket
    pend,     \* tx_msg while a response waits to be sent, and the asker's port
    spent     \* client queries and lost packets, and halts, so far

vars == <<original, st, name, wait, since, inbox, pend, spent>>

Probing == {"p1", "p2", "p3"}

Claimed == {"ready", "send"}

NoPend == [rrs |-> {}, port |-> "mdns"]

-----------------------------------------------------------------------------
(* Names and packets. *)

Kinds(h) == IF h \in Offers THEN {"host", "svc"} ELSE {"host"}

OwnNames(h) == {<<k, name[h][k]>> : k \in Kinds(h)}

\* Packets.  The questions of a probe and its authorities name the same
\* records; a response or announcement is known by its A and SRV answers.
Probe(h) == [t |-> "probe", from |-> h, name |-> name[h], rrs |-> OwnNames(h), port |-> "mdns"]

Response(N) == [t |-> "response", rrs |-> N, port |-> "mdns"]

Query(q, p) == [t |-> "query", q |-> q, port |-> p]

\* Multicast on port 5353, received by every other running responder.
Post(box, h, m) == [g \in Hosts |-> IF g # h /\ st[g] # "off" THEN Append(box[g], m)
                                    ELSE box[g]]

\* mdns_send_msg to a port: only 5353 reaches the other responders.
SendTo(box, h, m, port) == IF port = "mdns" THEN Post(box, h, m) ELSE box

Taken(h) == [inbox EXCEPT ![h] = Tail(@)]

\* recalc_timeout with the target of 250 ms.
Recalc(h) == IF since[h] >= ProbeTicks THEN 0 ELSE ProbeTicks - since[h]

-----------------------------------------------------------------------------
(* Conflicts. *)

\* The authorities of a probe of h named n for the name of kind k: the A record
\* of the host name, the SRV and TXT records of the service.
Authorities(h, n, k) ==
    IF k = "host" THEN <<Rr(T_A, h)>>
    ELSE <<Rr(T_SRV, [fixed |-> Port[h], target |-> n])>>
         \o IF Txt[h] # <<>> THEN <<Rr(T_TXT, Txt[h])>> ELSE <<>>

\* Who beats whom: <<g, m>> beats <<h, n>> if the authorities of host g, called
\* m, are greater than those of host h, called n.
Beats == [k \in {"host", "svc"} |->
            {x \in (Hosts \X (1 .. MaxSuffix)) \X (Hosts \X (1 .. MaxSuffix)) :
               AuthoritySetCmp(Authorities(x[1][1], x[1][2], k),
                               Authorities(x[2][1], x[2][2], k)) = 1}]

\* The authority set of the probe m is greater than that of h's own probe.
Greater(m, h, k) == << <<m.from, m.name.host>>, <<h, name[h].host>> >> \in Beats[k]

\* Mutant: a response to a probe is not checked for conflicts.
ConflictsProbesOnly(h, m) ==
    {k \in Kinds(h) : m.t = "probe" /\ <<k, name[h][k]>> \in m.rrs /\ Greater(m, h, k)}

\* The names of h that fix_response_conflicts gives up.
Conflicts(h, m) ==
    {k \in Kinds(h) : m.t # "query" /\ <<k, name[h][k]>> \in m.rrs
                      /\ (m.t = "probe" => Greater(m, h, k))}

\* Mutant: the name is not incremented.
RenameKeeps(h, C) == name[h]

\* dname_increment, or the reset to the original name.
Rename(h, C) ==
    [k \in {"host", "svc"} |-> IF k \notin C THEN name[h][k]
                               ELSE IF name[h][k] < MaxSuffix THEN name[h][k] + 1
                               ELSE original[h][k]]

Exhausted(h, C) == \E k \in C : name[h][k] >= MaxSuffix

-----------------------------------------------------------------------------
(* Responses. *)

\* Mutant: only service queries are answered, probes are not.
AnswersQueries(h, m) ==
    IF m.t = "query" /\ m.q = "ptr" THEN {n \in OwnNames(h) : n[1] = "svc"} ELSE {}

\* The names in the answers that prepare_response gives to m.
Answers(h, m) ==
    CASE m.t = "probe" -> m.rrs \cap OwnNames(h)
      [] m.t = "query" /\ m.q = "ptr" -> {n \in OwnNames(h) : n[1] = "svc"}
      [] OTHER -> {}

\* RS_SEND_DELAY: the response is about a service.
Delayed(N) == \E n \in N : n[1] = "svc"

\* READY_TO_RESPOND's treatment of m, with box the packets on their way.
Respond(h, m, box) ==
    LET N == Answers(h, m)
    IN IF Delayed(N)
       THEN /\ st' = [st EXCEPT ![h] = "send"]
            /\ \E d \in 0 .. DelayTicks : wait' = [wait EXCEPT ![h] = d]
            /\ pend' = [pend EXCEPT ![h] = [rrs |-> N, port |-> m.port]]
            /\ inbox' = box
       ELSE /\ st' = [st EXCEPT ![h] = "ready"]
            /\ wait' = [wait EXCEPT ![h] = 0]
            /\ pend' = [pend EXCEPT ![h] = NoPend]
            /\ inbox' = IF N # {} THEN SendTo(box, h, Response(N), m.port) ELSE box

-----------------------------------------------------------------------------
(* Timeouts of the state machine. *)

Expired(h) == wait[h] = 0

\* Send a probe and wait 250 ms.
SendProbe(h, next) ==
    /\ Expired(h)
    /\ st' = [st EXCEPT ![h] = next]
    /\ wait' = [wait EXCEPT ![h] = ProbeTicks]
    /\ since' = [since EXCEPT ![h] = 0]
    /\ inbox' = Post(inbox, h, Probe(h))
    /\ UNCHANGED <<name, pend, spent>>

FirstProbe(h) == st[h] = "init" /\ SendProbe(h, "p1")

SecondProbe(h) == st[h] = "p1" /\ SendProbe(h, "p2")

\* Mutant: the third probe starts the sequence again.
ThirdProbeFirst(h) == st[h] = "p2" /\ SendProbe(h, "p1")

ThirdProbe(h) == st[h] = "p2" /\ SendProbe(h, "p3")

\* "We now own our name.  Announce it."
Claim(h) ==
    /\ st[h] = "p3" /\ Expired(h)
    /\ st' = [st EXCEPT ![h] = "ready"]
    /\ since' = [since EXCEPT ![h] = 0]
    /\ inbox' = Post(inbox, h, Response(OwnNames(h)))
    /\ UNCHANGED <<name, wait, pend, spent>>

SendDelayed(h) ==
    /\ st[h] = "send" /\ Expired(h)
    /\ st' = [st EXCEPT ![h] = "ready"]
    /\ since' = [since EXCEPT ![h] = 0]
    /\ inbox' = SendTo(inbox, h, Response(pend[h].rrs), pend[h].port)
    /\ pend' = [pend EXCEPT ![h] = NoPend]
    /\ UNCHANGED <<name, wait, spent>>

-----------------------------------------------------------------------------
(* Received packets. *)

\* INIT: the packet is not looked at, only the timeout is recalculated.
RxInit(h) ==
    /\ st[h] = "init" /\ inbox[h] # <<>>
    /\ wait' = [wait EXCEPT ![h] = Recalc(h)]
    /\ since' = [since EXCEPT ![h] = 0]
    /\ inbox' = Taken(h)
    /\ UNCHANGED <<st, name, pend, spent>>

\* process_probe_resp
RxProbing(h) ==
    /\ st[h] \in Probing /\ inbox[h] # <<>>
    /\ LET C == Conflicts(h, Head(inbox[h]))
       IN /\ st' = [st EXCEPT ![h] = IF C # {} THEN "init" ELSE @]
          /\ wait' = [wait EXCEPT ![h] = IF Exhausted(h, C) THEN BackoffTicks
                                         ELSE IF C # {} THEN 0 ELSE Recalc(h)]
          /\ name' = [name EXCEPT ![h] = Rename(h, C)]
    /\ since' = [since EXCEPT ![h] = 0]
    /\ inbox' = Taken(h)
    /\ UNCHANGED <<pend, spent>>

RxReady(h) ==
    /\ st[h] = "ready" /\ inbox[h] # <<>>
    /\ Respond(h, Head(inbox[h]), Taken(h))
    /\ since' = [since EXCEPT ![h] = 0]
    /\ UNCHANGED <<name, spent>>

\* Mutant: the packet makes the responder forget the waiting response.
RxSendDrops(h) ==
    /\ st[h] = "send" /\ inbox[h] # <<>>
    /\ Respond(h, Head(inbox[h]), Taken(h))
    /\ since' = [since EXCEPT ![h] = 0]
    /\ UNCHANGED <<name, spent>>

\* READY_TO_SEND: the packet first flushes the waiting response, to the port
\* the packet came from.
RxSend(h) ==
    /\ st[h] = "send" /\ inbox[h] # <<>>
    /\ LET m == Head(inbox[h])
       IN Respond(h, m, SendTo(Taken(h), h, Response(pend[h].rrs), m.port))
    /\ since' = [since EXCEPT ![h] = 0]
    /\ UNCHANGED <<name, spent>>

-----------------------------------------------------------------------------
(* The application, the clients of the link, the network and the clock. *)

Spend(what, limit) == spent[what] < limit /\ spent' = [spent EXCEPT ![what] = @ + 1]

\* responder_launch and the beginning of do_responder.
Launch(h) ==
    /\ st[h] = "off"
    /\ st' = [st EXCEPT ![h] = "init"]
    /\ name' = [name EXCEPT ![h] = original[h]]
    /\ \E d \in 0 .. ProbeTicks : wait' = [wait EXCEPT ![h] = d]
    /\ since' = [since EXCEPT ![h] = 0]
    /\ UNCHANGED <<inbox, pend, spent>>

\* responder_halt.  The thread says goodbye, in whichever state it is, unless
\* it is deleted before it gets to the message.
Halt(h, bye) ==
    /\ st[h] # "off" /\ Spend("halts", MaxHalts)
    /\ st' = [st EXCEPT ![h] = "off"]
    /\ wait' = [wait EXCEPT ![h] = 0]
    /\ since' = [since EXCEPT ![h] = 0]
    /\ pend' = [pend EXCEPT ![h] = NoPend]
    /\ LET box == [inbox EXCEPT ![h] = <<>>]
       IN inbox' = IF bye THEN Post(box, h, Response(OwnNames(h))) ELSE box
    /\ UNCHANGED name

\* A client asks for the services, or sends something that is none of the
\* responders' business.
Ask(q, port) ==
    /\ Spend("disturbances", MaxDisturbances)
    /\ inbox' = [g \in Hosts |-> IF st[g] # "off" THEN Append(inbox[g], Query(q, port))
                                 ELSE inbox[g]]
    /\ UNCHANGED <<st, name, wait, since, pend>>

Lose(h) ==
    /\ inbox[h] # <<>> /\ Spend("disturbances", MaxDisturbances)
    /\ inbox' = Taken(h)
    /\ UNCHANGED <<st, name, wait, since, pend>>

Timed(h) == st[h] \notin {"off", "ready"}

Tick ==
    /\ \A h \in Hosts : inbox[h] = <<>> /\ (Timed(h) => wait[h] > 0)
    /\ wait' = [h \in Hosts |-> IF Timed(h) THEN wait[h] - 1 ELSE wait[h]]
    /\ since' = [h \in Hosts |-> IF Timed(h) /\ since[h] < ProbeTicks THEN since[h] + 1
                                 ELSE since[h]]
    /\ UNCHANGED <<st, name, inbox, pend, spent>>

-----------------------------------------------------------------------------
Init ==
    /\ st = [h \in Hosts |-> "off"]
    /\ original \in Originals
    /\ name = original
    /\ wait = [h \in Hosts |-> 0]
    /\ since = [h \in Hosts |-> 0]
    /\ inbox = [h \in Hosts |-> <<>>]
    /\ pend = [h \in Hosts |-> NoPend]
    /\ spent = [disturbances |-> 0, halts |-> 0]

Timeout(h) == FirstProbe(h) \/ SecondProbe(h) \/ ThirdProbe(h) \/ Claim(h) \/ SendDelayed(h)

Receive(h) == RxInit(h) \/ RxProbing(h) \/ RxReady(h) \/ RxSend(h)

Step ==
    \/ \E h \in Hosts : \/ Timeout(h) \/ Receive(h) \/ Launch(h) \/ Lose(h)
                        \/ \E bye \in BOOLEAN : Halt(h, bye)
    \/ \E q \in {"ptr", "other"}, port \in ClientPorts : Ask(q, port)
    \/ Tick

\* What was passed to mdns_launch stays.
Keeping(A) == A /\ UNCHANGED original

Next == Keeping(Step)

Spec == Init /\ [][Next]_vars

\* The threads run, timers expire and time passes.
Fairness ==
    /\ WF_vars(Keeping(Tick))
    /\ \A h \in Hosts : WF_vars(Keeping(Timeout(h))) /\ WF_vars(Keeping(Receive(h)))

FairSpec == Spec /\ Fairness

-----------------------------------------------------------------------------
(* Properties. *)

AllNames == {"host", "svc"} \X (1 .. MaxSuffix)

\* No two responders that have announced themselves ("We now own our name",
\* THIRD_PROBE_SENT) have the same host name or the same service name, although
\* a packet is lost or a client's query restarts the 250 ms of a prober.
UniqueNames ==
    \A g, h \in Hosts : g # h /\ st[g] \in Claimed /\ st[h] \in Claimed
                        => OwnNames(g) \cap OwnNames(h) = {}

\* The probing, renaming and defending of do_responder implements the claims
\* of NameClaims: names are taken all at once, are free when they are taken,
\* and do not change until the goodbye.
Claims == INSTANCE NameClaims
          WITH Names <- AllNames,
               claims <- [h \in Hosts |-> IF st[h] \in Claimed THEN OwnNames(h) ELSE {}]

ImplementsNameClaims == Claims!Spec

\* No host starts with a name so high that the others use up those that follow.
RoomToRename ==
    \A h \in Hosts : /\ original[h].host + Cardinality(Hosts) - 1 <= MaxSuffix
                      /\ original[h].svc + Cardinality(Offers) - 1 <= MaxSuffix

\* Renaming ends: when the application stops halting and launching, every
\* responder that runs gets to own its names, "until the conflicts cease"
\* (include/mdns.h, mdns_launch), if there are names for all of them.
EventuallyClaims ==
    \A h \in Hosts : RoomToRename /\ <>[](\A g \in Hosts : st[g] # "off")
                      => <>[](st[h] \in Claimed)

\* A name can be taken over: a responder that is alone on the link in the end
\* owns its names, although the search for a name ran out and it backed off.
AloneClaims ==
    \A h \in Hosts : <>[](\A g \in Hosts : st[g] # "off" <=> g = h) => <>[](st[h] \in Claimed)

\* A response that waits for a client or a prober on port 5353 gets there: when
\* it leaves READY_TO_SEND, by the timer or by a packet, it is on its way to
\* the other responders (it is, if all packets come from that port).
AnswersDelivered ==
    [][\A h, g \in Hosts :
          st[h] = "send" /\ pend[h].port = "mdns" /\ st'[h] # "off" /\ pend'[h] # pend[h]
          /\ g # h /\ st[g] # "off"
          => \E i \in DOMAIN inbox'[g] : inbox'[g][i] = Response(pend[h].rrs)]_vars
=============================================================================

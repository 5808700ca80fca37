------------------------------ MODULE ServiceCache ------------------------------
(*****************************************************************************)
(* The querier thread of libmdns (mdns/mdns_query.c): its cache of service   *)
(* instances (sinst) and of the A records of their hosts (arec), the cross   *)
(* references between the two pools, the two state machines, and the         *)
(* callbacks that tell the application what was found.                       *)
(*                                                                           *)
(* One iteration of do_querier is a control message (at most one), then the  *)
(* records of a packet in the order of update_service_cache (all PTRs, TXTs, *)
(* SRVs and As), then prepare_query.  `stage' is where the iteration is.  A  *)
(* packet is revealed one record at a time: every step below is the body of  *)
(* one of the code's loops, and prepare_query always ends the iteration.     *)
(*                                                                           *)
(* Time is abstracted to what is due: prepare_query picks any set of records *)
(* whose next_refresh has run out.  ttl_percent, which counts the refresh    *)
(* attempts, is kept.  The milliseconds are the subject of RefreshTimer.     *)
(*****************************************************************************)
EXTENDS Naturals, FiniteSets

CONSTANTS
    Types,        \* fully qualified service types, e.g. _http._tcp.local
    Names,        \* fully qualified service names
    TypeOf,       \* the type that follows the first label of each name
    Hosts,        \* host names that SRV records target
    Ips, Ports, Txts,
    Sinsts,       \* sinsts[MDNS_SERVICE_CACHE_SIZE]
    Arecs,        \* arecs[MDNS_SERVICE_CACHE_SIZE]
    MaxMonitors,  \* MDNS_MAX_SERVICE_MONITORS
    None          \* NULL, and the all-zero ip, port and TXT of a fresh slot

Infos == [ip : Ips \cup {None}, port : Ports \cup {None}, txt : Txts \cup {None}]

ASSUME CacheAssumption ==
    /\ TypeOf \in [Names -> Types]
    /\ None \notin Types \cup Names \cup Hosts \cup Ips \cup Ports \cup Txts
                   \cup Sinsts \cup Arecs \cup Infos
    /\ IsFiniteSet(Sinsts) /\ IsFiniteSet(Arecs) /\ IsFiniteSet(Hosts)
    /\ MaxMonitors \in Nat

VARIABLES
    enabled,    \* query_enabled
    stage,      \* progress of the current iteration of do_querier
    monitored,  \* fqst of the service monitors on smons_active
    sinst, arec,
    eaten,      \* names whose SRV the overflow path took off the packet
    view,       \* what the callbacks have told the application of each service
    fault       \* "assert": an ASSERT failed and spins; "corrupt": an alist is broken

vars == <<enabled, stage, monitored, sinst, arec, eaten, view, fault>>

-----------------------------------------------------------------------------
(* States of the slots.  A slot on a free list is "free": whatever it still  *)
(* holds is wiped when it is taken again.                                    *)

FreeSinst == [st |-> "free", type |-> None, name |-> None, arec |-> None,
              flags |-> {}, ip |-> None, port |-> None, txt |-> None, pct |-> 0]

FreeArec == [st |-> "free", host |-> None, ip |-> None, sinsts |-> {}, pct |-> 0]

\* Mutant: the countdown starts at the percentage of the first refresh.
ResetSinstAtRefresh(t, n) ==
    [FreeSinst EXCEPT !.st = "init", !.type = t, !.name = n, !.pct = 80]

ResetSinst(t, n) == [FreeSinst EXCEPT !.st = "init", !.type = t, !.name = n, !.pct = 20]

NewArec(h) == [FreeArec EXCEPT !.st = "init", !.host = h]

\* Mutant: a service without an address counts as ready.
ReadyWithSrv(r) == "SRV" \in r.flags

Ready(r) == {"A", "SRV"} \subseteq r.flags

\* The part of struct mdns_service that a callback hands to the application.
Info(r) == [ip |-> r.ip, port |-> r.port, txt |-> r.txt]

Services == Types \X Names

\* Mutant: only reported instances are looked up.
InstancesReported(t, n) == {s \in Sinsts : sinst[s].st \in {"clean", "updating"}
                                           /\ sinst[s].type = t /\ sinst[s].name = n}

Instances(t, n) == {s \in Sinsts : sinst[s].st # "free"
                                   /\ sinst[s].type = t /\ sinst[s].name = n}

\* find_service_monitor on the tail of the name, then find_service_instance.
Found(n) == IF TypeOf[n] \in monitored THEN Instances(TypeOf[n], n) ELSE {}

ArecsOf(h) == {a \in Arecs : arec[a].st # "free" /\ arec[a].host = h}

FreeSinsts == {s \in Sinsts : sinst[s].st = "free"}

FreeArecs == {a \in Arecs : arec[a].st = "free"}

-----------------------------------------------------------------------------
(* The tail of update_sinst for the GOT_ events: does the slot change state, *)
(* and is the application called back?                                       *)

March(r, changed) ==
    IF ~changed THEN r
    ELSE IF Ready(r) THEN [r EXCEPT !.st = "clean"]
    ELSE IF r.st = "clean" THEN [r EXCEPT !.st = "updating"]
    ELSE r

\* Mutant: no MDNS_UPDATED.
ReportDiscovered(S, new) ==
    [v \in Services |->
       LET told == {s \in S : Ready(new[s]) /\ v = <<new[s].type, new[s].name>>}
       IN IF told # {} /\ view[v] = None THEN Info(new[CHOOSE s \in told : TRUE])
          ELSE view[v]]

\* MDNS_DISCOVERED or MDNS_UPDATED for those slots of S, now holding new[s],
\* whose update changed something and left the service ready.
Report(S, new) ==
    LET told(v) == {s \in S : Ready(new[s]) /\ v = <<new[s].type, new[s].name>>}
    IN [v \in Services |-> IF told(v) # {} THEN Info(new[CHOOSE s \in told(v) : TRUE])
                           ELSE view[v]]

\* Mutant: only the arec's last instance is taken off its list.
UnlinkLast(r, a, S) ==
    LET gone == {s \in r.sinsts : s \in S /\ sinst[s].arec = a}
    IN IF gone # {} /\ gone = r.sinsts THEN FreeArec ELSE r

\* Mutant: the arec is never given back.
UnlinkLeaks(r, a, S) == r

\* cleanup_sinst: the arec that loses its last sinst goes to the free list.
Unlink(r, a, S) ==
    LET gone == {s \in r.sinsts : s \in S /\ sinst[s].arec = a}
    IN IF gone # {} /\ gone = r.sinsts THEN FreeArec
       ELSE [r EXCEPT !.sinsts = @ \ gone]

\* Mutant: no MDNS_DISAPPEARED for a service in the UPDATING state.
ForgetClean(S) ==
    [v \in Services |-> IF \E s \in S : sinst[s].st = "clean"
                                        /\ v = <<sinst[s].type, sinst[s].name>>
                        THEN None ELSE view[v]]

\* The services in slots S are gone: MDNS_DISAPPEARED if they had been
\* reported, and no callback when they are unmonitored.
Forget(S) ==
    [v \in Services |-> IF \E s \in S : v = <<sinst[s].type, sinst[s].name>>
                        THEN None ELSE view[v]]

Cleanup(S) ==
    /\ sinst' = [s \in Sinsts |-> IF s \in S THEN FreeSinst ELSE sinst[s]]
    /\ arec' = [a \in Arecs |-> Unlink(arec[a], a, S)]
    /\ view' = Forget(S)

\* A slot that an alist still holds although it does not refer to that arec.
\* alist_item links it into one list only: wiping the slot, linking it again or
\* walking over it breaks the list, and the model stops there.
Dangling(s) == \E a \in Arecs : s \in arec[a].sinsts /\ sinst[s].arec # a

Broken(f) == fault' = f /\ UNCHANGED <<sinst, arec, view>>

-----------------------------------------------------------------------------
(* The control socket, read first in each iteration. *)

InLoop == fault = "none" /\ (enabled \/ stage > 0)

AtCtrl == InLoop /\ stage = 0 /\ stage' = 1

\* add_service; MDNS_INUSE and MDNS_NOMEM leave the cache alone.
Monitor(t) ==
    /\ AtCtrl
    /\ monitored' = IF Cardinality(monitored) < MaxMonitors THEN monitored \cup {t}
                    ELSE monitored
    /\ UNCHANGED <<enabled, sinst, arec, eaten, view, fault>>

\* Mutant: the instances of the service are not cleaned up.
UnmonitorOnly(T) ==
    /\ AtCtrl
    /\ monitored' = monitored \ T
    /\ UNCHANGED <<enabled, sinst, arec, eaten, view, fault>>

\* remove_service for one type, or for all of them.
Unmonitor(T) ==
    /\ AtCtrl
    /\ monitored' = monitored \ T
    /\ Cleanup({s \in Sinsts : sinst[s].st # "free" /\ sinst[s].type \in T \cap monitored})
    /\ UNCHANGED <<enabled, eaten, fault>>

\* MDNS_CTRL_HALT: the rest of the iteration still runs.
Halt ==
    /\ AtCtrl
    /\ enabled' = FALSE
    /\ UNCHANGED <<monitored, sinst, arec, eaten, view, fault>>

\* query_halt got no answer, or the thread has left its loop: it is deleted.
DeleteThread ==
    /\ enabled \/ stage > 0 \/ fault # "none"
    /\ enabled' = FALSE /\ stage' = 0 /\ fault' = "none"
    /\ UNCHANGED <<monitored, sinst, arec, eaten, view>>

\* query_launch, after a halt.
Launch ==
    /\ ~enabled /\ stage = 0
    /\ enabled' = TRUE
    /\ monitored' = {}
    /\ sinst' = [s \in Sinsts |-> FreeSinst]
    /\ arec' = [a \in Arecs |-> FreeArec]
    /\ eaten' = {}
    /\ view' = [v \in Services |-> None]
    /\ UNCHANGED <<stage, fault>>

\* recvfrom fails after the control message: "continue", without prepare_query.
RecvFails ==
    /\ InLoop /\ stage = 1
    /\ stage' = 0
    /\ UNCHANGED <<enabled, monitored, sinst, arec, eaten, view, fault>>

-----------------------------------------------------------------------------
(* update_service_cache: the PTR loop. *)

Receiving(k) == InLoop /\ stage <= k /\ stage' = k

\* A goodbye for a cached instance.
RxPtrGoodbye(t, n) ==
    /\ Receiving(2)
    /\ t \in monitored /\ Instances(t, n) # {}
    /\ Cleanup(Instances(t, n))
    /\ UNCHANGED <<enabled, monitored, eaten, fault>>

\* A new instance, whatever its ttl.
RxPtrNew(t, n) ==
    /\ Receiving(2)
    /\ t \in monitored /\ Instances(t, n) = {}
    /\ \E s \in FreeSinsts :
         \/ /\ ~Dangling(s)
            /\ sinst' = [sinst EXCEPT ![s] = ResetSinst(t, n)]
            /\ UNCHANGED <<arec, view, fault>>
         \/ Dangling(s) /\ Broken("corrupt")
    /\ UNCHANGED <<enabled, monitored, eaten>>

\* No slot is left: MDNS_CACHE_FULL, and the instance's TXT and SRV records
\* are taken off the packet.
RxPtrOverflow(t, n) ==
    /\ Receiving(2)
    /\ t \in monitored /\ Instances(t, n) = {} /\ FreeSinsts = {}
    /\ eaten' = eaten \cup {n}
    /\ UNCHANGED <<enabled, monitored, sinst, arec, view, fault>>

-----------------------------------------------------------------------------
(* update_service_cache: the TXT loop. *)

\* update_txt does not look at the ttl, and a TXT of ttl 0 is never eaten.
RxTxt(n, x) ==
    /\ Receiving(3)
    /\ \E s \in Found(n) :
         LET changed == sinst[s].txt # x
             new == [sinst EXCEPT ![s] = March([@ EXCEPT !.txt = x], changed)]
         IN /\ sinst' = new
            /\ view' = Report({z \in {s} : changed}, new)
    /\ UNCHANGED <<enabled, monitored, arec, eaten, fault>>

-----------------------------------------------------------------------------
(* update_service_cache: the SRV loop. *)

RxSrvGoodbye(n) ==
    /\ Receiving(4)
    /\ Found(n) # {}
    /\ Cleanup(Found(n))
    /\ UNCHANGED <<enabled, monitored, eaten, fault>>

\* update_srv's last lines: a fresh SRV restarts the refresh schedule.
GotSrv(r, p) == [r EXCEPT !.port = p, !.pct = 20, !.flags = @ \cup {"SRV"}]

\* Mutant: the address of the former arec still counts.
AttachKeepsA(r, a, ar) ==
    IF ar.st = "resolved"
    THEN [r EXCEPT !.arec = a, !.ip = ar.ip, !.flags = @ \cup {"A"}]
    ELSE [r EXCEPT !.arec = a]

\* set_arec on the slot's content r.
Attach(r, a, ar) ==
    IF ar.st = "resolved"
    THEN [r EXCEPT !.arec = a, !.ip = ar.ip, !.flags = @ \cup {"A"}]
    ELSE [r EXCEPT !.arec = a, !.flags = @ \ {"A"}]

\* Mutant: a new address of the same arec is no change.
AttachedMoved(r, a, ar) == r.arec \notin {None, a}

Attached(r, a, ar) ==
    \/ r.arec \notin {None, a}
    \/ ar.st = "resolved" /\ r.ip # ar.ip

\* The SRV's target has an arec, or takes a free one.
RxSrv(n, p, h) ==
    /\ Receiving(4)
    /\ n \notin eaten
    /\ \E s \in Found(n), a \in IF ArecsOf(h) # {} THEN ArecsOf(h) ELSE FreeArecs :
         LET old == sinst[s]
             ar == IF arec[a].st = "free" THEN NewArec(h) ELSE arec[a]
             changed == old.port # p \/ Attached(old, a, ar)
             new == [sinst EXCEPT ![s] = March(Attach(GotSrv(@, p), a, ar), changed)]
         IN \/ /\ ~Dangling(s)
               /\ sinst' = new
               /\ arec' = [b \in Arecs |->
                             IF b = a THEN [ar EXCEPT !.sinsts = @ \cup {s}]
                             ELSE IF b = old.arec THEN [arec[b] EXCEPT !.sinsts = @ \ {s}]
                             ELSE arec[b]]
               /\ view' = Report({z \in {s} : changed}, new)
               /\ fault' = fault
            \/ Dangling(s) /\ Broken("corrupt")
    /\ UNCHANGED <<enabled, monitored, eaten>>

\* "the arec cache is full": the slot forgets its arec, whose list keeps it.
RxSrvNoArec(n, p, h) ==
    /\ Receiving(4)
    /\ n \notin eaten
    /\ ArecsOf(h) = {} /\ FreeArecs = {}
    /\ \E s \in Found(n) :
         LET changed == sinst[s].port # p
             new == [sinst EXCEPT ![s] = March([GotSrv(@, p) EXCEPT !.arec = None], changed)]
         IN /\ sinst' = new
            /\ view' = Report({z \in {s} : changed}, new)
    /\ UNCHANGED <<enabled, monitored, arec, eaten, fault>>

-----------------------------------------------------------------------------
(* update_service_cache: the A loop. *)

\* evict_arec's ASSERT: LOST_AREC has taken every sinst off the arec's list.
Evictable(a) == \A s \in arec[a].sinsts : sinst[s].arec = a

\* A slot that refers elsewhere stays on the list and fails the ASSERT; one that
\* is free already is cleaned up twice.
EvictFault(a) == IF \E s \in arec[a].sinsts : sinst[s].st = "free" THEN "corrupt"
                 ELSE "assert"

\* update_arec on a record with ttl 0: evict_arec.
RxAGoodbye(h) ==
    /\ Receiving(5)
    /\ \E a \in ArecsOf(h) :
         \/ Evictable(a) /\ Cleanup(arec[a].sinsts) /\ fault' = fault
         \/ ~Evictable(a) /\ Broken(EvictFault(a))
    /\ UNCHANGED <<enabled, monitored, eaten>>

\* set_ip alerts the sinsts of the arec only when the address is a new one.
RxA(h, i) ==
    /\ Receiving(5)
    /\ \E a \in ArecsOf(h) :
         LET ar == [arec[a] EXCEPT !.st = "resolved", !.ip = i, !.pct = 10]
             S == IF arec[a].ip # i THEN arec[a].sinsts ELSE {}
             changed(s) == Attached(sinst[s], a, ar)
             new == [s \in Sinsts |->
                       IF s \in S THEN March(Attach(sinst[s], a, ar), changed(s))
                       ELSE sinst[s]]
         IN \/ /\ \A s \in S : ~Dangling(s)
               /\ arec' = [arec EXCEPT ![a] = ar]
               /\ sinst' = new
               /\ view' = Report({s \in S : changed(s)}, new)
               /\ fault' = fault
            \/ (\E s \in S : Dangling(s)) /\ Broken("corrupt")
    /\ UNCHANGED <<enabled, monitored, eaten>>

-----------------------------------------------------------------------------
(* prepare_query.  dueA and dueS are the records whose next_refresh has run  *)
(* out; asked are those of dueS whose question still fits in the packet.     *)

Half(p) == p \div 2

\* update_arec, AREC_EVENT_ADD_QUESTIONS, for an arec that is not evicted.
AskA(r, due) ==
    CASE r.st = "init" -> [r EXCEPT !.st = "querying", !.pct = 10]
      [] r.st = "querying" /\ due /\ r.pct >= 5 -> [r EXCEPT !.pct = Half(@)]
      [] r.st = "resolved" /\ due -> [r EXCEPT !.st = "querying", !.pct = 10]
      [] OTHER -> r

GivenUp(dueA) == {a \in dueA : arec[a].st = "querying" /\ arec[a].pct < 5}

\* Mutant: the refresh attempts are not counted.
AskSrvForever(r, asked) ==
    IF r.st = "clean" /\ asked
    THEN [r EXCEPT !.st = "updating", !.flags = @ \ {"SRV"}]
    ELSE r

\* apply_elapsed, and what update_sinst makes of its result.
AskSrv(r, asked) ==
    IF r.st = "clean" /\ asked
    THEN [r EXCEPT !.pct = Half(@), !.st = "updating", !.flags = @ \ {"SRV"}]
    ELSE [r EXCEPT !.pct = Half(@)]

Expired(dueS) == {s \in dueS : sinst[s].pct < 5}

PrepareQuery(dueA, dueS, asked) ==
    LET lost == UNION {arec[a].sinsts : a \in GivenUp(dueA)}
        S == lost \cup Expired(dueS)
    IN /\ InLoop
       /\ stage' = 0 /\ eaten' = {}
       /\ \/ /\ \A a \in GivenUp(dueA) : Evictable(a)
             /\ sinst' = [s \in Sinsts |->
                            IF s \in S THEN FreeSinst
                            ELSE IF s \in dueS THEN AskSrv(sinst[s], s \in asked)
                            ELSE sinst[s]]
             /\ arec' = [a \in Arecs |-> Unlink(AskA(arec[a], a \in dueA), a, S)]
             /\ view' = Forget(S)
             /\ fault' = fault
          \/ \E a \in GivenUp(dueA) : ~Evictable(a) /\ Broken(EvictFault(a))
       /\ UNCHANGED <<enabled, monitored>>

-----------------------------------------------------------------------------
Init ==
    /\ enabled = TRUE
    /\ stage = 0
    /\ monitored = {}
    /\ sinst = [s \in Sinsts |-> FreeSinst]
    /\ arec = [a \in Arecs |-> FreeArec]
    /\ eaten = {}
    /\ view = [v \in Services |-> None]
    /\ fault = "none"

Control ==
    \/ \E t \in Types : Monitor(t) \/ Unmonitor({t})
    \/ Unmonitor(Types)
    \/ Halt \/ DeleteThread \/ Launch \/ RecvFails

Receive ==
    \/ \E t \in Types, n \in Names :
         RxPtrGoodbye(t, n) \/ RxPtrNew(t, n) \/ RxPtrOverflow(t, n)
    \/ \E n \in Names, x \in Txts : RxTxt(n, x)
    \/ \E n \in Names : RxSrvGoodbye(n)
    \/ \E n \in Names, p \in Ports, h \in Hosts : RxSrv(n, p, h) \/ RxSrvNoArec(n, p, h)
    \/ \E h \in Hosts : RxAGoodbye(h)
    \/ \E h \in Hosts, i \in Ips : RxA(h, i)

Refresh ==
    \E dueA \in SUBSET (Arecs \ FreeArecs), dueS \in SUBSET (Sinsts \ FreeSinsts) :
      \E asked \in SUBSET dueS : PrepareQuery(dueA, dueS, asked)

Next == Control \/ Receive \/ Refresh

Spec == Init /\ [][Next]_vars

-----------------------------------------------------------------------------
(* Properties. *)

SinstType == [st : {"free", "init", "clean", "updating"},
              type : Types \cup {None}, name : Names \cup {None},
              arec : Arecs \cup {None}, flags : SUBSET {"A", "SRV"},
              ip : Ips \cup {None}, port : Ports \cup {None},
              txt : Txts \cup {None}, pct : {0, 2, 5, 10, 20}]

ArecType == [st : {"free", "init", "querying", "resolved"},
             host : Hosts \cup {None}, ip : Ips \cup {None},
             sinsts : SUBSET Sinsts, pct : {0, 2, 5, 10}]

\* The fields of the two pools, of the iteration and of the view hold values
\* that the code can store in them.
TypeOK ==
    /\ enabled \in BOOLEAN /\ fault \in {"none", "assert", "corrupt"}
    /\ stage \in 0 .. 5
    /\ monitored \subseteq Types
    /\ sinst \in [Sinsts -> SinstType] /\ arec \in [Arecs -> ArecType]
    /\ eaten \subseteq Names
    /\ view \in [Services -> Infos \cup {None}]

\* The two pools agree on who refers to whom: a service instance is on the list
\* of its own arec and of no other, no free slot is on a list, and no instance
\* refers to a free arec (set_arec, update_srv, cleanup_sinst, evict_arec).
XrefConsistent ==
    /\ \A s \in Sinsts : sinst[s].arec # None =>
         /\ sinst[s].st # "free"
         /\ arec[sinst[s].arec].st # "free"
         /\ s \in arec[sinst[s].arec].sinsts
    /\ \A a \in Arecs : \A s \in arec[a].sinsts : sinst[s].arec = a

OneSlotPerService ==
    \A s, z \in Sinsts : sinst[s].st # "free" /\ sinst[z].st # "free"
      /\ sinst[s].type = sinst[z].type /\ sinst[s].name = sinst[z].name => s = z

OneArecPerHost ==
    \A a, b \in Arecs : arec[a].st # "free" /\ arec[b].st # "free"
      /\ arec[a].host = arec[b].host => a = b

\* A service occupies at most one slot and a host name at most one arec, so the
\* first match of find_service_instance and find_arec is the only one.
NoDuplicates == OneSlotPerService /\ OneArecPerHost

\* The application knows of exactly the services that the cache holds in the
\* CLEAN or UPDATING state: every DISCOVERED is followed by one DISAPPEARED
\* (or by the end of the monitoring) before the next, whatever path evicts it.
ReportedAreCached ==
    \A v \in Services : view[v] # None <=>
      \E s \in Sinsts : sinst[s].st \in {"clean", "updating"}
                        /\ <<sinst[s].type, sinst[s].name>> = v

\* What the application was last told of a service in the CLEAN state is what
\* the cache holds: no change of address, port or TXT was swallowed.
CleanIsReported ==
    \A s \in Sinsts : sinst[s].st = "clean" =>
      view[<<sinst[s].type, sinst[s].name>>] = Info(sinst[s])

\* The address of a service that counts as resolved is the cached address of
\* the host that its SRV record names, however the two records arrived.
AddressIsHosts ==
    \A s \in Sinsts : "A" \in sinst[s].flags =>
      /\ sinst[s].arec # None
      /\ sinst[s].ip # None
      /\ sinst[s].ip = arec[sinst[s].arec].ip

\* A service whose SRV and A are both in hand has been reported: none waits in
\* the INIT state with its flags complete.
CompleteIsDiscovered ==
    \A s \in Sinsts : Ready(sinst[s]) => sinst[s].st # "init"

\* While there are as many A slots as hosts, evict_arec finds what it asserts
\* (the list of a record that goes away is empty by then) and no list is walked
\* through a slot that has been freed.
NoFault == fault = "none"

\* Services are cached for the monitored types only: unmonitoring a type
\* (remove_service) leaves nothing of it behind.
OnlyMonitored ==
    \A s \in Sinsts : sinst[s].st # "free" => sinst[s].type \in monitored

\* A network that falls silent is forgotten: when no record ever arrives again
\* and the querier runs on (it is not halted and spins in no failed ASSERT),
\* every reported service eventually disappears (prepare_query).
SilentDisappear ==
    <>[](enabled /\ stage < 2 /\ fault = "none") => <>[](\A v \in Services : view[v] = None)

\* The refresh timers run: do_querier sleeps until the earliest next_refresh,
\* so the schedule of every cached instance keeps advancing.
Fairness ==
    \A s \in Sinsts :
      WF_vars(\E dueA \in SUBSET (Arecs \ FreeArecs), dueS \in SUBSET (Sinsts \ FreeSinsts) :
                 /\ s \in dueS
                 /\ \E asked \in SUBSET dueS : PrepareQuery(dueA, dueS, asked))

FairSpec == Spec /\ Fairness

\* The callbacks are those that mdns.h describes.
Browse == INSTANCE BrowseApi WITH CacheSize <- Cardinality(Sinsts)

\* The cache implements the browsing interface: each step of the thread is one
\* batch of DISCOVERED and UPDATED callbacks about complete services of the
\* monitored types, one of DISAPPEARED callbacks, or silent; and no more than
\* MDNS_SERVICE_CACHE_SIZE services are known to the application at a time.
ImplementsBrowseApi == Browse!Spec

-----------------------------------------------------------------------------
(* What the description of the API promises, and the code does not do. *)

\* mdns.h, MDNS_UPDATED: a monitored service that changed is reported, at the
\* latest when its refreshed records are complete again.
UpdatesDelivered ==
    stage = 0 /\ enabled => \A s \in Sinsts : sinst[s].st # "init" /\ Ready(sinst[s]) =>
      view[<<sinst[s].type, sinst[s].name>>] = Info(sinst[s])
=============================================================================

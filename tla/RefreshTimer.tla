----------------------------- MODULE RefreshTimer -----------------------------
(*****************************************************************************)
(* The schedule of the querier (mdns/mdns_query.c): when a monitor, an SRV   *)
(* record and an A record are asked for again, when they are given up, and   *)
(* how long do_querier sleeps.  ServiceCache has the contents of the cache;  *)
(* here there is one monitored service, one instance and its host, and time. *)
(*                                                                           *)
(* Times are in units of which Second make one second, and wrap at Width     *)
(* bits.  age is the time since a record was last received (or first         *)
(* wanted), asked the questions since then; the code does not keep them.     *)
(*****************************************************************************)
EXTENDS Integers, FiniteSets, FiniteSetsExt

CONSTANTS
    Second,      \* 1000 ms
    TopPeriod,   \* 60 s, the longest time between two queries for a monitor
    Width,       \* 32 bits
    Ttls,        \* TTLs of received records, in seconds
    Naps,        \* lengths of a sleep that a packet interrupts
    None

UINT_MAX == 2 ^ Width - 1

Never == UINT_MAX

ASSUME TimerAssumption ==
    /\ {Second, TopPeriod, Width} \subseteq Nat \ {0}
    /\ Ttls \subseteq Nat \ {0} /\ Naps \subseteq Nat \ {0}
    /\ UINT_MAX \in Nat
    /\ 2 * TopPeriod <= UINT_MAX
    /\ 10 <= Second /\ Second <= UINT_MAX  \* time is fine enough for 10%

VARIABLES smon, sinst, arec, timeout

vars == <<smon, sinst, arec, timeout>>

SUBTRACT(a, b) == IF a > b THEN a - b ELSE 0

ADD(a, b) == IF a > UINT_MAX - b THEN UINT_MAX ELSE a + b

CONVERT_TTL(ttl) == IF ttl > UINT_MAX \div Second THEN UINT_MAX ELSE ttl * Second

\* ttl * p / 100 in unsigned arithmetic.
Percent(ttl, p) == ((ttl * p) % (UINT_MAX + 1)) \div 100

-----------------------------------------------------------------------------
(* Received records; e is the time slept, which prepare_query will add. *)

\* reset_service_instance
NewSinst(e) == [ttl0 |-> Second, percent |-> 20, next |-> 0, srv |-> FALSE, asked |-> 0, age |-> -e]

NewArec(e) == [state |-> "init", ttl |-> 0, percent |-> 0, next |-> 0, age |-> -e]

\* Mutant: the elapsed time is not added.
GotSrvNow(t, e) ==
    [ttl0 |-> CONVERT_TTL(t), percent |-> 20, srv |-> TRUE, asked |-> 0, age |-> -e,
     next |-> Percent(CONVERT_TTL(t), 80)]

\* update_srv: "We augment the ttl by the elapsed time".
GotSrv(t, e) ==
    [ttl0 |-> CONVERT_TTL(t), percent |-> 20, srv |-> TRUE, asked |-> 0, age |-> -e,
     next |-> ADD(Percent(CONVERT_TTL(t), 80), e)]

\* Mutant: the first refresh is due at the end of the TTL.
GotALate(t, e) ==
    [state |-> "resolved", ttl |-> CONVERT_TTL(t), percent |-> 10, age |-> -e,
     next |-> CONVERT_TTL(t)]

\* set_ip does not augment by the elapsed time.
GotA(t, e) ==
    [state |-> "resolved", ttl |-> CONVERT_TTL(t), percent |-> 10, age |-> -e,
     next |-> Percent(CONVERT_TTL(t), 80)]

-----------------------------------------------------------------------------
(* The effect of a sleep of e on the records: prepare_query. *)

\* update_arec, AREC_EVENT_ADD_QUESTIONS.  None: evicted.
ArecElapsed(a, e) ==
    LET left == SUBTRACT(a.next, e)
        aged == [a EXCEPT !.age = @ + e, !.next = left]
        again == [aged EXCEPT !.percent = @ \div 2, !.next = Percent(a.ttl, a.percent \div 2)]
    IN CASE a.state = "init" ->
                [aged EXCEPT !.state = "querying", !.ttl = Second, !.percent = 10,
                          !.next = Percent(Second, 80)]
         [] a.state = "querying" -> IF left > 0 THEN aged
                                    ELSE IF a.percent < 5 THEN None ELSE again
         [] a.state = "resolved" ->
                IF left > 0 THEN aged
                ELSE [aged EXCEPT !.state = "querying", !.percent = 10, !.next = Percent(a.ttl, 10)]

\* Mutant: the percentage is not halved, the record is asked for forever.
SinstElapsedForever(s, e) ==
    LET left == SUBTRACT(s.next, e)
        aged == [s EXCEPT !.age = @ + e, !.next = left]
    IN IF left > 0 THEN aged
       ELSE [aged EXCEPT !.asked = Min({@ + 1, 4}), !.next = Percent(s.ttl0, 80)]

\* apply_elapsed.  None: given up.
SinstElapsed(s, e) ==
    LET left == SUBTRACT(s.next, e)
        aged == [s EXCEPT !.age = @ + e, !.next = left]
    IN IF left > 0 THEN aged
       ELSE IF s.percent < 5 THEN None
       ELSE [aged EXCEPT !.asked = @ + 1, !.percent = @ \div 2,
                         !.next = Percent(s.ttl0, IF s.percent = 20 THEN 80 ELSE s.percent)]

\* The period is doubled, then the question is asked and the new period is the
\* time to the next one.
SmonElapsed(m, e) ==
    IF m.next > e THEN [m EXCEPT !.next = @ - e]
    ELSE LET period == IF m.period > TopPeriod \div 2 THEN TopPeriod ELSE m.period * 2
         IN [period |-> period, next |-> period]

NextOf(r) == IF r = None THEN Never ELSE r.next

\* Mutant: the instances do not take part in the next event.
NextEventNoSinst(m, s, a) == Min({m.next, NextOf(a)})

NextEvent(m, s, a) == Min({m.next, NextOf(s), NextOf(a)})

\* The rest of an iteration of do_querier: the cache is s and a after the
\* received records.  An instance and the A record of its host go together:
\* evict_arec cleans up the instance, cleanup_sinst frees an unused A record.
PrepareQuery(s, a, e) ==
    LET a1 == IF a = None THEN None ELSE ArecElapsed(a, e)
        s1 == IF s = None \/ (a # None /\ a1 = None) THEN None ELSE SinstElapsed(s, e)
        m1 == SmonElapsed(smon, e)
    IN /\ smon' = m1
       /\ sinst' = s1
       /\ arec' = IF s1 = None THEN None ELSE a1
       /\ timeout' = NextEvent(m1, s1, a1)

-----------------------------------------------------------------------------
(* Iterations of do_querier.  select returns when the timeout has passed, or *)
(* earlier, with a packet.  sleep_time is rounded up, so never 0.            *)

Interrupted == {e \in Naps : e <= timeout}

Expire == PrepareQuery(sinst, arec, timeout)

\* A packet with nothing new, e.g. somebody else's query.
RxOther(e) == PrepareQuery(sinst, arec, e)

RxPtr(e) == sinst = None /\ PrepareQuery(NewSinst(e), None, e)

RxSrv(e, t) ==
    /\ sinst # None
    /\ PrepareQuery(GotSrv(t, e), IF arec = None THEN NewArec(e) ELSE arec, e)

RxA(e, t) == arec # None /\ PrepareQuery(sinst, GotA(t, e), e)

\* PTR, SRV and A in one packet, with the same TTL.
RxAnnouncement(e, t) == PrepareQuery(GotSrv(t, e), GotA(t, e), e)

\* A PTR, SRV or A record of TTL 0: the instance and its A record go together.
RxGoodbye(e) == sinst # None /\ PrepareQuery(None, None, e)

\* add_service: prepare_query runs in the same iteration.
Init ==
    /\ smon = [period |-> Second, next |-> 0]
    /\ sinst = None /\ arec = None
    /\ timeout = 0

Next ==
    \/ Expire
    \/ \E e \in Interrupted : RxOther(e) \/ RxPtr(e) \/ RxGoodbye(e)
    \/ \E e \in Interrupted, t \in Ttls : RxSrv(e, t) \/ RxA(e, t) \/ RxAnnouncement(e, t)

Spec == Init /\ [][Next]_vars

-----------------------------------------------------------------------------
(* Properties. *)

\* do_querier never sleeps past the time at which a monitor or a record is to
\* be asked for or given up (next_event of prepare_query).
NoOversleep ==
    /\ timeout <= smon.next
    /\ sinst # None => timeout <= sinst.next
    /\ arec # None => timeout <= arec.next

\* The questions for an SRV record are due when 80%, 160% and 170% of its TTL
\* have passed (update_srv, apply_elapsed).  Whatever packets wake the querier
\* up, each is sent then and not later; and not earlier, unless ttl * 80
\* overflows.
SrvSchedule ==
    sinst # None /\ sinst.srv =>
      LET Part(p) == (sinst.ttl0 * p) \div 100
          due == {d \in {Part(80), 2 * Part(80), 2 * Part(80) + Part(10)} : d <= sinst.age}
      IN /\ sinst.asked >= Cardinality(due)
         /\ sinst.ttl0 * 80 <= UINT_MAX => sinst.asked = Cardinality(due)

\* A service that falls silent is given up: nothing stays in the cache for more
\* than three quarters over its TTL without an answer (apply_elapsed).
SilentGivenUp == sinst # None => 4 * sinst.age <= 7 * sinst.ttl0

\* An address is given up by the end of its TTL if nobody renews it, and by the
\* end of a second if nobody has ever answered ("refresh when 20%, 10%, and 5%
\* of the ttl remains", update_arec).
AddressExpires == arec # None => arec.age <= arec.ttl
=============================================================================

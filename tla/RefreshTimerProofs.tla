-------------------------- MODULE RefreshTimerProofs --------------------------
(*****************************************************************************)
(* The timers of the cached records, for records of any lifetime and         *)
(* interruptions after any time.  TimerInv ties the age of each record, the  *)
(* refresh queries asked for it and the time to its next event together, and *)
(* the four theorems at the end are read off it.                             *)
(*****************************************************************************)
EXTENDS RefreshTimer, FiniteSetTheorems, TLAPS

\* p percent of a lifetime, without overflow.
Part(ttl, p) == (ttl * p) \div 100

\* ttl * p / 100 is right, or too small when the product overflows.
LEMMA PercentFacts ==
    ASSUME NEW ttl \in Nat, NEW p \in Nat
    PROVE  /\ Percent(ttl, p) \in Nat
           /\ Percent(ttl, p) <= Part(ttl, p)
           /\ ttl * p <= UINT_MAX => Percent(ttl, p) = Part(ttl, p)
<1> DEFINE x == ttl * p
           m == UINT_MAX + 1
<1>1. x \in Nat /\ m \in Nat /\ m > 0
  BY TimerAssumption
<1> HIDE DEF x, m
<1>2. x % m \in Nat /\ x % m <= x /\ (x < m => x % m = x)
  BY <1>1
<1>3. \A a, b \in Nat : a <= b => a \div 100 <= b \div 100 /\ a \div 100 \in Nat
  OBVIOUS
<1>4. x <= UINT_MAX => x < m
  BY <1>1, TimerAssumption DEF m
<1> QED
  BY <1>1, <1>2, <1>3, <1>4 DEF Percent, Part, x, m

\* The least of three numbers.
LEMMA MinFacts ==
    ASSUME NEW a \in Nat, NEW b \in Nat, NEW c \in Nat
    PROVE  /\ Min({a, b, c}) \in Nat
           /\ Min({a, b, c}) <= a /\ Min({a, b, c}) <= b /\ Min({a, b, c}) <= c
<1>1. \E x \in {a, b, c} : \A y \in {a, b, c} : x <= y
  <2>1. CASE a <= b /\ a <= c
    BY <2>1
  <2>2. CASE b <= a /\ b <= c
    BY <2>2
  <2>3. CASE c <= a /\ c <= b
    BY <2>3
  <2> QED  BY <2>1, <2>2, <2>3
<1>2. Min({a, b, c}) \in {a, b, c} /\ \A y \in {a, b, c} : Min({a, b, c}) <= y
  BY <1>1 DEF Min
<1> QED  BY <1>2

-----------------------------------------------------------------------------
(* The inductive invariant. *)

SinstRecord == [ttl0 : Nat, percent : Nat, next : Nat, srv : BOOLEAN, asked : Nat, age : Int]

ArecRecord == [state : {"init", "querying", "resolved"}, ttl : Nat, percent : Nat, next : Nat, age : Int]

\* What an instance has waited for before the first question but one: an SRV
\* record is asked for first at 80% of its TTL, an SRV never received at once.
First(s) == IF s.srv THEN Percent(s.ttl0, 80) ELSE 0

\* In every period the age and the time left add up to the periods so far, and
\* there is time left unless the arithmetic has made the period 0.
InPeriod(s, asked, percent, length, total) ==
    /\ s.asked = asked /\ s.percent = percent
    /\ s.next <= length /\ (s.next = 0 => length = 0)
    /\ s.age + s.next = total

SinstInv(s) ==
    LET P(p) == Percent(s.ttl0, p)
    IN /\ s \in SinstRecord
       /\ s.srv => s.ttl0 >= 10
       /\ \/ InPeriod(s, 0, 20, P(80), P(80)) /\ s.srv /\ s.next > 0
          \/ InPeriod(s, 1, 10, P(80), First(s) + P(80))
          \/ InPeriod(s, 2, 5, P(10), First(s) + P(80) + P(10))
          \/ InPeriod(s, 3, 2, P(5), First(s) + P(80) + P(10) + P(5))

\* How long an A record may still be kept, by the questions it has left.
ArecInv(a) ==
    /\ a \in ArecRecord
    /\ \/ a.state = "resolved" /\ a.age + a.next <= Part(a.ttl, 80)
       \/ /\ a.state = "querying" /\ a.percent = 10
          /\ a.age + a.next <= Part(a.ttl, 80) + Part(a.ttl, 10)
       \/ /\ a.state = "querying" /\ a.percent = 5
          /\ a.age + a.next <= Part(a.ttl, 80) + Part(a.ttl, 10) + Part(a.ttl, 5)
       \/ /\ a.state = "querying" /\ a.percent = 2
          /\ a.age + a.next <= Part(a.ttl, 80) + Part(a.ttl, 10) + Part(a.ttl, 5) + Part(a.ttl, 2)

SmonInv(m) == m \in [period : Nat, next : 0 .. TopPeriod]

TimerInv ==
    /\ SmonInv(smon)
    /\ sinst # None => SinstInv(sinst)
    /\ arec # None => ArecInv(arec)
    /\ timeout \in Nat
    /\ NoOversleep

-----------------------------------------------------------------------------
(* One record and a sleep. *)

\* The TTL of a received record is at least a second.
LEMMA TtlFacts ==
    ASSUME NEW t \in Ttls
    PROVE  CONVERT_TTL(t) \in Nat /\ CONVERT_TTL(t) >= 10
<1>1. t \in Nat /\ t >= 1 /\ Second \in Nat /\ Second >= 10 /\ UINT_MAX \in Nat /\ UINT_MAX >= Second
  BY TimerAssumption
<1>2. t * Second \in Nat /\ t * Second >= Second
  BY <1>1
<1> QED  BY <1>1, <1>2 DEF CONVERT_TTL

\* What apply_elapsed does to an instance: it waits on, or asks.
LEMMA SinstElapsedFacts ==
    ASSUME NEW s \in SinstRecord, NEW e \in Nat, SinstElapsed(s, e) # None
    PROVE  LET z == SinstElapsed(s, e)
           IN /\ z \in SinstRecord
              /\ z.ttl0 = s.ttl0 /\ z.srv = s.srv /\ z.age = s.age + e
              /\ s.next > e => z.next = s.next - e /\ z.asked = s.asked /\ z.percent = s.percent
              /\ s.next <= e => /\ s.percent >= 5
                                /\ z.asked = s.asked + 1
                                /\ z.percent = s.percent \div 2
                                /\ z.next = Percent(s.ttl0, IF s.percent = 20 THEN 80 ELSE s.percent)
<1>1. /\ s.ttl0 \in Nat /\ s.percent \in Nat /\ s.next \in Nat /\ s.asked \in Nat /\ s.age \in Int
      /\ s.srv \in BOOLEAN
  BY DEF SinstRecord
<1>2. CASE s.next > e
  <2>1. SUBTRACT(s.next, e) = s.next - e /\ s.next - e > 0 /\ s.next - e \in Nat
    BY <1>1, <1>2 DEF SUBTRACT
  <2>2. SinstElapsed(s, e) = [s EXCEPT !.age = s.age + e, !.next = s.next - e]
    BY <2>1 DEF SinstElapsed
  <2>3. SinstElapsed(s, e) = [ttl0 |-> s.ttl0, percent |-> s.percent, next |-> s.next - e,
                              srv |-> s.srv, asked |-> s.asked, age |-> s.age + e]
    BY <2>2, ZenonT(30) DEF SinstRecord
  <2>4. s.age + e \in Int
    BY <1>1
  <2> QED  BY <1>1, <1>2, <2>1, <2>3, <2>4 DEF SinstRecord
<1>3. CASE s.next <= e
  <2> DEFINE n == Percent(s.ttl0, IF s.percent = 20 THEN 80 ELSE s.percent)
  <2>1. SUBTRACT(s.next, e) = 0
    BY <1>1, <1>3 DEF SUBTRACT
  <2>2. n \in Nat
    BY <1>1, PercentFacts, ZenonT(30)
  <2>3. ~(s.percent < 5)
    BY <2>1 DEF SinstElapsed
  <2>4. SinstElapsed(s, e) = [ttl0 |-> s.ttl0, percent |-> s.percent \div 2, next |-> n,
                              srv |-> s.srv, asked |-> s.asked + 1, age |-> s.age + e]
    <3> DEFINE aged == [s EXCEPT !.age = s.age + e, !.next = 0]
    <3>1. SinstElapsed(s, e) = [aged EXCEPT !.asked = aged.asked + 1, !.percent = aged.percent \div 2,
                                            !.next = n]
      <4>1. ~(0 > 0)
        OBVIOUS
      <4> QED  BY <2>1, <2>3, <4>1, Zenon DEF SinstElapsed
    <3>2. aged = [ttl0 |-> s.ttl0, percent |-> s.percent, next |-> 0,
                  srv |-> s.srv, asked |-> s.asked, age |-> s.age + e]
      <4>1. ASSUME NEW q, q = [s EXCEPT !.age = s.age + e, !.next = 0]
            PROVE  q = [ttl0 |-> s.ttl0, percent |-> s.percent, next |-> 0,
                        srv |-> s.srv, asked |-> s.asked, age |-> s.age + e]
        BY <4>1, ZenonT(30) DEF SinstRecord
      <4> QED  BY <4>1
    <3> QED  BY <3>1, <3>2, ZenonT(30)
  <2> HIDE DEF n
  <2>5. s.percent \div 2 \in Nat /\ s.asked + 1 \in Nat /\ s.age + e \in Int
    BY <1>1
  <2> QED  BY <1>1, <1>3, <2>2, <2>3, <2>4, <2>5 DEF SinstRecord, n
<1> QED  BY <1>1, <1>2, <1>3

\* The invariant of a record, from the arithmetic of its fields.
LEMMA SinstPercents ==
    ASSUME NEW s \in SinstRecord
    PROVE  /\ Percent(s.ttl0, 80) \in Nat /\ Percent(s.ttl0, 10) \in Nat /\ Percent(s.ttl0, 5) \in Nat
           /\ First(s) = IF s.srv THEN Percent(s.ttl0, 80) ELSE 0
           /\ First(s) \in Nat
<1>1. s.ttl0 \in Nat
  BY DEF SinstRecord
<1>2. Percent(s.ttl0, 80) \in Nat /\ Percent(s.ttl0, 10) \in Nat /\ Percent(s.ttl0, 5) \in Nat
  BY <1>1, PercentFacts, ZenonT(30)
<1> QED  BY <1>2 DEF First

\* An instance that was not overslept stays on its schedule.
LEMMA OldSinst ==
    ASSUME NEW s, SinstInv(s), NEW e \in Nat, e <= s.next, SinstElapsed(s, e) # None
    PROVE  SinstInv(SinstElapsed(s, e))
<1>1. s \in SinstRecord
  BY DEF SinstInv
<1> DEFINE z == SinstElapsed(s, e)
<1>2. /\ z \in SinstRecord
      /\ z.ttl0 = s.ttl0 /\ z.srv = s.srv /\ z.age = s.age + e
      /\ s.next > e => z.next = s.next - e /\ z.asked = s.asked /\ z.percent = s.percent
      /\ s.next <= e => /\ s.percent >= 5
                        /\ z.asked = s.asked + 1
                        /\ z.percent = s.percent \div 2
                        /\ z.next = Percent(s.ttl0, IF s.percent = 20 THEN 80 ELSE s.percent)
  BY <1>1, SinstElapsedFacts
<1> HIDE DEF z
<1>3. /\ s.ttl0 \in Nat /\ s.percent \in Nat /\ s.next \in Nat /\ s.asked \in Nat /\ s.age \in Int
      /\ s.srv \in BOOLEAN
  BY <1>1 DEF SinstRecord
<1> DEFINE p80 == Percent(s.ttl0, 80)
           p10 == Percent(s.ttl0, 10)
           p5 == Percent(s.ttl0, 5)
           f == First(s)
<1>4. p80 \in Nat /\ p10 \in Nat /\ p5 \in Nat /\ f \in Nat /\ (s.srv => f = p80)
  BY <1>1, SinstPercents
<1>5. /\ s.srv => s.ttl0 >= 10
      /\ \/ InPeriod(s, 0, 20, p80, p80) /\ s.srv /\ s.next > 0
         \/ InPeriod(s, 1, 10, p80, f + p80)
         \/ InPeriod(s, 2, 5, p10, f + p80 + p10)
         \/ InPeriod(s, 3, 2, p5, f + p80 + p10 + p5)
  BY DEF SinstInv
<1>6. First(z) = f
  BY <1>2 DEF First
<1>7. SUFFICES \/ InPeriod(z, 0, 20, p80, p80) /\ z.srv /\ z.next > 0
               \/ InPeriod(z, 1, 10, p80, f + p80)
               \/ InPeriod(z, 2, 5, p10, f + p80 + p10)
               \/ InPeriod(z, 3, 2, p5, f + p80 + p10 + p5)
  BY <1>2, <1>5, <1>6 DEF SinstInv, z
<1>8. CASE s.next > e
  <2>1. z.next = s.next - e /\ z.next > 0 /\ z.age + z.next = s.age + s.next
        /\ z.asked = s.asked /\ z.percent = s.percent /\ z.next <= s.next
    BY <1>2, <1>3, <1>8
  <2> HIDE DEF p80, p10, p5, f
  <2> QED  BY <1>2, <1>3, <1>4, <1>5, <2>1 DEF InPeriod
<1>9. CASE s.next = e
  <2>1. /\ z.asked = s.asked + 1 /\ z.percent = s.percent \div 2 /\ z.age = s.age + s.next
        /\ s.percent >= 5
        /\ z.next = IF s.percent = 20 THEN p80 ELSE Percent(s.ttl0, s.percent)
    BY <1>2, <1>3, <1>9
  <2>2. /\ s.percent = 20 => z.next = p80 /\ z.percent = 10
        /\ s.percent = 10 => z.next = p10 /\ z.percent = 5
        /\ s.percent = 5 => z.next = p5 /\ z.percent = 2
    BY <2>1
  <2> HIDE DEF p80, p10, p5, f
  <2>3. CASE InPeriod(s, 0, 20, p80, p80) /\ s.srv
    BY <1>3, <1>4, <2>1, <2>2, <2>3 DEF InPeriod
  <2>4. CASE InPeriod(s, 1, 10, p80, f + p80)
    BY <1>3, <1>4, <2>1, <2>2, <2>4 DEF InPeriod
  <2>5. CASE InPeriod(s, 2, 5, p10, f + p80 + p10)
    BY <1>3, <1>4, <2>1, <2>2, <2>5 DEF InPeriod
  <2>6. CASE InPeriod(s, 3, 2, p5, f + p80 + p10 + p5)
    BY <2>1, <2>6 DEF InPeriod
  <2> QED  BY <1>5, <2>3, <2>4, <2>5, <2>6
<1> QED  BY <1>3, <1>8, <1>9

\* An instance of which only the PTR record is known is asked for at once.
LEMMA PtrSinst ==
    ASSUME NEW e \in Nat, SinstElapsed(NewSinst(e), e) # None
    PROVE  SinstInv(SinstElapsed(NewSinst(e), e))
<1> DEFINE s == NewSinst(e)
           z == SinstElapsed(s, e)
<1>1. /\ s \in SinstRecord /\ s.ttl0 = Second /\ s.percent = 20 /\ s.next = 0 /\ ~s.srv
      /\ s.asked = 0 /\ s.age = -e
  BY TimerAssumption DEF NewSinst, SinstRecord
<1> HIDE DEF s
<1>2. /\ z \in SinstRecord
      /\ z.ttl0 = Second /\ ~z.srv /\ z.age = 0
      /\ z.asked = 1 /\ z.percent = 10 /\ z.next = Percent(Second, 80)
  BY <1>1, SinstElapsedFacts DEF s
<1> HIDE DEF z
<1>3. First(z) = 0 /\ Percent(z.ttl0, 80) \in Nat
  BY <1>2, SinstPercents DEF First
<1>4. InPeriod(z, 1, 10, Percent(z.ttl0, 80), First(z) + Percent(z.ttl0, 80))
  BY <1>2, <1>3 DEF InPeriod
<1> QED  BY <1>2, <1>4 DEF SinstInv, z, s

\* A received SRV record starts its schedule: update_srv adds the time slept,
\* apply_elapsed takes it off again.
LEMMA SrvSinst ==
    ASSUME NEW t \in Ttls, NEW e \in Nat, e <= TopPeriod, SinstElapsed(GotSrv(t, e), e) # None
    PROVE  SinstInv(SinstElapsed(GotSrv(t, e), e))
<1> DEFINE s == GotSrv(t, e)
           z == SinstElapsed(s, e)
           ttl == CONVERT_TTL(t)
           p80 == Percent(ttl, 80)
<1>1. ttl \in Nat /\ ttl >= 10 /\ p80 \in Nat
  BY TtlFacts, PercentFacts, ZenonT(30)
<1>2. p80 <= UINT_MAX - e
  <2>1. ((ttl * 80) % (UINT_MAX + 1)) <= UINT_MAX /\ ((ttl * 80) % (UINT_MAX + 1)) \in Nat
    BY <1>1, TimerAssumption
  <2>2. 100 * p80 <= UINT_MAX
    BY <2>1, TimerAssumption DEF Percent
  <2>3. UINT_MAX \in Nat /\ TopPeriod \in Nat /\ 2 * TopPeriod <= UINT_MAX
    BY TimerAssumption
  <2> HIDE DEF p80
  <2> QED  BY <1>1, <2>2, <2>3
<1>3. /\ s \in SinstRecord /\ s.ttl0 = ttl /\ s.percent = 20 /\ s.next = p80 + e /\ s.srv
      /\ s.asked = 0 /\ s.age = -e
  <2>1. ADD(p80, e) = p80 + e /\ p80 + e \in Nat
    <3>1. UINT_MAX \in Nat
      BY TimerAssumption
    <3> HIDE DEF p80
    <3> QED  BY <1>1, <1>2, <3>1 DEF ADD
  <2> QED  BY <1>1, <2>1 DEF GotSrv, SinstRecord
<1> HIDE DEF s, ttl
<1>4. s.next > e <=> p80 > 0
  <2> HIDE DEF p80
  <2> QED  BY <1>1, <1>3
<1>5. /\ z \in SinstRecord /\ z.ttl0 = ttl /\ z.srv /\ z.age = 0
      /\ p80 > 0 => z.next = p80 /\ z.asked = 0 /\ z.percent = 20
      /\ ~(p80 > 0) => z.next = p80 /\ z.asked = 1 /\ z.percent = 10
  <2>0. s \in SinstRecord /\ SinstElapsed(s, e) # None
    BY <1>3 DEF s
  <2>1. /\ z \in SinstRecord
        /\ z.ttl0 = s.ttl0 /\ z.srv = s.srv /\ z.age = s.age + e
        /\ s.next > e => z.next = s.next - e /\ z.asked = s.asked /\ z.percent = s.percent
        /\ s.next <= e => /\ z.asked = s.asked + 1
                          /\ z.percent = s.percent \div 2
                          /\ z.next = Percent(s.ttl0, IF s.percent = 20 THEN 80 ELSE s.percent)
    BY <2>0, SinstElapsedFacts
  <2> HIDE DEF z
  <2>2. s.next <= e <=> ~(p80 > 0)
    <3> HIDE DEF p80
    <3> QED  BY <1>1, <1>3
  <2>3. s.next <= e => z.next = p80
    BY <1>3, <2>1
  <2> HIDE DEF p80
  <2> QED  BY <1>1, <1>3, <1>4, <2>1, <2>2, <2>3
<1> HIDE DEF z
<1>6. First(z) = p80 /\ Percent(z.ttl0, 80) = p80
  BY <1>5 DEF First
<1>7. \/ InPeriod(z, 0, 20, p80, p80) /\ z.srv /\ z.next > 0
      \/ InPeriod(z, 1, 10, p80, p80 + p80)
  <2> HIDE DEF p80
  <2> QED  BY <1>1, <1>5 DEF InPeriod
<1> QED  BY <1>1, <1>5, <1>6, <1>7 DEF SinstInv, z, s

\* What update_arec does to an A record: it waits on, or asks.
LEMMA ArecElapsedFacts ==
    ASSUME NEW a \in ArecRecord, NEW e \in Nat, ArecElapsed(a, e) # None
    PROVE  LET z == ArecElapsed(a, e)
           IN /\ z \in ArecRecord
              /\ z.age = a.age + e
              /\ a.state = "init" =>
                   /\ z.state = "querying" /\ z.ttl = Second /\ z.percent = 10
                   /\ z.next = Percent(Second, 80)
              /\ a.state # "init" =>
                   /\ z.ttl = a.ttl
                   /\ a.next > e => z.next = a.next - e /\ z.state = a.state /\ z.percent = a.percent
                   /\ a.next <= e =>
                        /\ z.state = "querying"
                        /\ a.state = "resolved" => z.percent = 10 /\ z.next = Percent(a.ttl, 10)
                        /\ a.state = "querying" => /\ a.percent >= 5
                                                   /\ z.percent = a.percent \div 2
                                                   /\ z.next = Percent(a.ttl, a.percent \div 2)
<1>1. /\ a.ttl \in Nat /\ a.percent \in Nat /\ a.next \in Nat /\ a.age \in Int
      /\ a.state \in {"init", "querying", "resolved"}
      /\ a.age + e \in Int /\ a.percent \div 2 \in Nat
  BY DEF ArecRecord
<1> DEFINE left == SUBTRACT(a.next, e)
           z == ArecElapsed(a, e)
<1>2. left \in Nat /\ (a.next > e => left = a.next - e /\ left > 0) /\ (a.next <= e => left = 0 /\ ~(left > 0))
  BY <1>1 DEF SUBTRACT
<1>3. ASSUME NEW q, q = [a EXCEPT !.age = a.age + e, !.next = left]
      PROVE  q = [state |-> a.state, ttl |-> a.ttl, percent |-> a.percent, next |-> left,
                  age |-> a.age + e]
  BY <1>3, ZenonT(30) DEF ArecRecord
<1>4. PICK aged : aged = [a EXCEPT !.age = a.age + e, !.next = left]
  OBVIOUS
<1>5. aged = [state |-> a.state, ttl |-> a.ttl, percent |-> a.percent, next |-> left,
              age |-> a.age + e]
  BY <1>3, <1>4
<1>6. Percent(Second, 80) \in Nat /\ Percent(a.ttl, 10) \in Nat /\ Percent(a.ttl, a.percent \div 2) \in Nat
  <2>1. Second \in Nat
    BY TimerAssumption
  <2> QED  BY <1>1, <2>1, PercentFacts, ZenonT(30)
<1>7. CASE a.state = "init"
  <2>1. z = [aged EXCEPT !.state = "querying", !.ttl = Second, !.percent = 10, !.next = Percent(Second, 80)]
    BY <1>4, <1>7 DEF ArecElapsed
  <2>2. z = [state |-> "querying", ttl |-> Second, percent |-> 10, next |-> Percent(Second, 80),
             age |-> a.age + e]
    BY <1>5, <2>1, ZenonT(30)
  <2> HIDE DEF z
  <2> QED  BY <1>1, <1>6, <1>7, <2>2, TimerAssumption DEF ArecRecord, z
<1>8. CASE a.state = "querying"
  <2>1. left > 0 => z = aged
    BY <1>4, <1>8 DEF ArecElapsed
  <2>2. ~(left > 0) => /\ ~(a.percent < 5)
                       /\ z = [aged EXCEPT !.percent = aged.percent \div 2,
                                           !.next = Percent(a.ttl, a.percent \div 2)]
    BY <1>4, <1>8 DEF ArecElapsed
  <2>3. ~(left > 0) => z = [state |-> a.state, ttl |-> a.ttl, percent |-> a.percent \div 2,
                            next |-> Percent(a.ttl, a.percent \div 2), age |-> a.age + e]
    BY <1>5, <2>2, ZenonT(30)
  <2> HIDE DEF z, left
  <2> QED  BY <1>1, <1>2, <1>5, <1>6, <1>8, <2>1, <2>2, <2>3 DEF ArecRecord, z
<1>9. CASE a.state = "resolved"
  <2>1. left > 0 => z = aged
    BY <1>4, <1>9 DEF ArecElapsed
  <2>2. ~(left > 0) => z = [aged EXCEPT !.state = "querying", !.percent = 10,
                                        !.next = Percent(a.ttl, 10)]
    BY <1>4, <1>9 DEF ArecElapsed
  <2>3. ~(left > 0) => z = [state |-> "querying", ttl |-> a.ttl, percent |-> 10,
                            next |-> Percent(a.ttl, 10), age |-> a.age + e]
    BY <1>5, <2>2, ZenonT(30)
  <2> HIDE DEF z, left
  <2> QED  BY <1>1, <1>2, <1>5, <1>6, <1>9, <2>1, <2>3 DEF ArecRecord, z
<1> QED  BY <1>1, <1>7, <1>8, <1>9

\* The parts of a TTL are natural numbers and add up to less than the TTL.
LEMMA PartFacts ==
    ASSUME NEW ttl \in Nat
    PROVE  /\ Part(ttl, 80) \in Nat /\ Part(ttl, 10) \in Nat /\ Part(ttl, 5) \in Nat /\ Part(ttl, 2) \in Nat
           /\ Part(ttl, 80) + Part(ttl, 10) + Part(ttl, 5) + Part(ttl, 2) <= ttl
           /\ 100 * Part(ttl, 80) <= 80 * ttl
           /\ 100 * Part(ttl, 10) <= 10 * ttl
           /\ 100 * Part(ttl, 5) <= 5 * ttl
BY DEF Part

\* An A record that was not overslept.
LEMMA OldArec ==
    ASSUME NEW a, ArecInv(a), NEW e \in Nat, e <= a.next, ArecElapsed(a, e) # None
    PROVE  ArecInv(ArecElapsed(a, e))
<1>1. a \in ArecRecord /\ a.state # "init"
  BY DEF ArecInv
<1> DEFINE z == ArecElapsed(a, e)
<1>2. /\ z \in ArecRecord
      /\ z.age = a.age + e
      /\ z.ttl = a.ttl
      /\ a.next > e => z.next = a.next - e /\ z.state = a.state /\ z.percent = a.percent
      /\ a.next <= e => /\ z.state = "querying"
                        /\ a.state = "resolved" => z.percent = 10 /\ z.next = Percent(a.ttl, 10)
                        /\ a.state = "querying" => /\ a.percent >= 5
                                                   /\ z.percent = a.percent \div 2
                                                   /\ z.next = Percent(a.ttl, a.percent \div 2)
  BY <1>1, ArecElapsedFacts
<1> HIDE DEF z
<1>3. a.ttl \in Nat /\ a.percent \in Nat /\ a.next \in Nat /\ a.age \in Int
  BY <1>1 DEF ArecRecord
<1> DEFINE p80 == Part(a.ttl, 80)
           p10 == Part(a.ttl, 10)
           p5 == Part(a.ttl, 5)
           p2 == Part(a.ttl, 2)
<1>4. /\ p80 \in Nat /\ p10 \in Nat /\ p5 \in Nat /\ p2 \in Nat
      /\ Percent(a.ttl, 10) \in Nat /\ Percent(a.ttl, 5) \in Nat /\ Percent(a.ttl, 2) \in Nat
      /\ Percent(a.ttl, 10) <= p10 /\ Percent(a.ttl, 5) <= p5 /\ Percent(a.ttl, 2) <= p2
  BY <1>3, PartFacts, PercentFacts, ZenonT(30)
<1>5. \/ a.state = "resolved" /\ a.age + a.next <= p80
      \/ a.state = "querying" /\ a.percent = 10 /\ a.age + a.next <= p80 + p10
      \/ a.state = "querying" /\ a.percent = 5 /\ a.age + a.next <= p80 + p10 + p5
      \/ a.state = "querying" /\ a.percent = 2 /\ a.age + a.next <= p80 + p10 + p5 + p2
  BY DEF ArecInv
<1>6. SUFFICES \/ z.state = "resolved" /\ z.age + z.next <= p80
               \/ z.state = "querying" /\ z.percent = 10 /\ z.age + z.next <= p80 + p10
               \/ z.state = "querying" /\ z.percent = 5 /\ z.age + z.next <= p80 + p10 + p5
               \/ z.state = "querying" /\ z.percent = 2 /\ z.age + z.next <= p80 + p10 + p5 + p2
  BY <1>2 DEF ArecInv, z
<1> HIDE DEF p80, p10, p5, p2
<1>7. CASE a.next > e
  <2>1. z.age + z.next = a.age + a.next
    BY <1>2, <1>3, <1>7
  <2> QED  BY <1>2, <1>5, <1>7, <2>1
<1>8. CASE a.next = e
  <2>1. z.age = a.age + a.next
    BY <1>2, <1>8
  <2>2. CASE a.state = "resolved"
    BY <1>2, <1>3, <1>4, <1>5, <1>8, <2>1, <2>2
  <2>3. CASE a.state = "querying" /\ a.percent = 10
    BY <1>2, <1>3, <1>4, <1>5, <1>8, <2>1, <2>3
  <2>4. CASE a.state = "querying" /\ a.percent = 5
    BY <1>2, <1>3, <1>4, <1>5, <1>8, <2>1, <2>4
  <2> QED  BY <1>2, <1>3, <1>5, <1>8, <2>2, <2>3, <2>4
<1> QED  BY <1>3, <1>7, <1>8

\* The address of a host just named by an SRV record is asked for at once.
LEMMA FreshArec ==
    ASSUME NEW e \in Nat, ArecElapsed(NewArec(e), e) # None
    PROVE  ArecInv(ArecElapsed(NewArec(e), e))
<1> DEFINE a == NewArec(e)
           z == ArecElapsed(a, e)
<1>1. a \in ArecRecord /\ a.state = "init" /\ a.age = -e
  BY DEF NewArec, ArecRecord
<1> HIDE DEF a
<1>2. ArecElapsed(a, e) # None
  BY DEF a
<1>3. /\ z \in ArecRecord /\ z.age = 0 /\ z.ttl = Second /\ z.state = "querying" /\ z.percent = 10
      /\ z.next = Percent(Second, 80)
  BY <1>1, <1>2, ArecElapsedFacts
<1> HIDE DEF z
<1>4. Second \in Nat
  BY TimerAssumption
<1>5. /\ Part(Second, 80) \in Nat /\ Part(Second, 10) \in Nat
      /\ Percent(Second, 80) \in Nat /\ Percent(Second, 80) <= Part(Second, 80)
  BY <1>4, PartFacts, PercentFacts, ZenonT(30)
<1>6. z.age + z.next <= Part(z.ttl, 80) + Part(z.ttl, 10)
  BY <1>3, <1>5
<1> QED  BY <1>3, <1>6 DEF ArecInv, z, a

\* A received A record starts its schedule, up to the time slept too early.
LEMMA GotArec ==
    ASSUME NEW t \in Ttls, NEW e \in Nat, ArecElapsed(GotA(t, e), e) # None
    PROVE  ArecInv(ArecElapsed(GotA(t, e), e))
<1> DEFINE a == GotA(t, e)
           z == ArecElapsed(a, e)
           ttl == CONVERT_TTL(t)
<1>1. /\ ttl \in Nat
      /\ Percent(ttl, 80) \in Nat /\ Percent(ttl, 80) <= Part(ttl, 80)
      /\ Percent(ttl, 10) \in Nat /\ Percent(ttl, 10) <= Part(ttl, 10)
      /\ Part(ttl, 80) \in Nat /\ Part(ttl, 10) \in Nat
  BY TtlFacts, PercentFacts, PartFacts, ZenonT(30)
<1>2. /\ a \in ArecRecord /\ a.state = "resolved" /\ a.age = -e /\ a.ttl = ttl
      /\ a.next = Percent(ttl, 80)
  BY <1>1 DEF GotA, ArecRecord
<1> HIDE DEF a, ttl
<1>3. ArecElapsed(a, e) # None
  BY DEF a
<1>4. /\ z \in ArecRecord /\ z.age = 0 /\ z.ttl = ttl
      /\ a.next > e => z.next = a.next - e /\ z.state = "resolved"
      /\ a.next <= e => z.state = "querying" /\ z.percent = 10 /\ z.next = Percent(ttl, 10)
  BY <1>2, <1>3, ArecElapsedFacts
<1> HIDE DEF z
<1>5. \/ z.state = "resolved" /\ z.age + z.next <= Part(z.ttl, 80)
      \/ z.state = "querying" /\ z.percent = 10 /\ z.age + z.next <= Part(z.ttl, 80) + Part(z.ttl, 10)
  BY <1>1, <1>2, <1>4
<1> QED  BY <1>4, <1>5 DEF ArecInv, z, a

\* A monitor is asked for at least once in TopPeriod.
LEMMA SmonStep ==
    ASSUME NEW m, SmonInv(m), NEW e \in Nat
    PROVE  SmonInv(SmonElapsed(m, e))
<1>1. m.period \in Nat /\ m.next \in Nat /\ m.next <= TopPeriod /\ TopPeriod \in Nat
  BY TimerAssumption DEF SmonInv
<1>2. CASE m.next > e
  <2>1. m.next - e \in 0 .. TopPeriod
    BY <1>1, <1>2
  <2> QED  BY <1>2, <2>1 DEF SmonElapsed, SmonInv
<1>3. CASE ~(m.next > e)
  <2> DEFINE period == IF m.period > TopPeriod \div 2 THEN TopPeriod ELSE m.period * 2
  <2>1. period \in Nat /\ period \in 0 .. TopPeriod
    BY <1>1
  <2>2. SmonElapsed(m, e) = [period |-> period, next |-> period]
    BY <1>3 DEF SmonElapsed
  <2> QED  BY <2>1, <2>2 DEF SmonInv
<1> QED  BY <1>2, <1>3

-----------------------------------------------------------------------------
(* An iteration of do_querier. *)

\* prepare_query leaves every record that survives it with its next event in the
\* future, and a timeout no later than any of them.
LEMMA PrepareQueryInv ==
    ASSUME SmonInv(smon), NEW s, NEW a, NEW e \in Nat, PrepareQuery(s, a, e),
           s # None /\ SinstElapsed(s, e) # None => SinstInv(SinstElapsed(s, e)),
           a # None /\ ArecElapsed(a, e) # None => ArecInv(ArecElapsed(a, e))
    PROVE  TimerInv'
<1> DEFINE a1 == IF a = None THEN None ELSE ArecElapsed(a, e)
           s1 == IF s = None \/ (a # None /\ a1 = None) THEN None ELSE SinstElapsed(s, e)
           m1 == SmonElapsed(smon, e)
<1>1. /\ smon' = m1
      /\ sinst' = s1
      /\ arec' = IF s1 = None THEN None ELSE a1
      /\ timeout' = Min({m1.next, NextOf(s1), NextOf(a1)})
  BY DEF PrepareQuery, NextEvent
<1>2. SmonInv(m1) /\ (s1 # None => SinstInv(s1)) /\ (a1 # None => ArecInv(a1))
  BY SmonStep
<1> HIDE DEF a1, s1, m1
<1>3. m1.next \in Nat /\ NextOf(s1) \in Nat /\ NextOf(a1) \in Nat
  <2>1. UINT_MAX \in Nat /\ TopPeriod \in Nat
    BY TimerAssumption
  <2> QED  BY <1>2, <2>1 DEF NextOf, Never, SmonInv, SinstInv, ArecInv, SinstRecord, ArecRecord
<1>4. /\ timeout' \in Nat
      /\ timeout' <= m1.next /\ timeout' <= NextOf(s1) /\ timeout' <= NextOf(a1)
  BY <1>1, <1>3, MinFacts
<1>5. NoOversleep'
  BY <1>1, <1>4 DEF NoOversleep, NextOf
<1>6. SmonInv(smon)' /\ (sinst # None => SinstInv(sinst))' /\ (arec # None => ArecInv(arec))'
  BY <1>1, <1>2
<1> QED  BY <1>4, <1>5, <1>6 DEF TimerInv

\* The invariant holds at the start.
LEMMA InitTimer == Init => TimerInv
<1> SUFFICES ASSUME Init PROVE TimerInv
  OBVIOUS
<1>1. Second \in Nat /\ TopPeriod \in Nat
  BY TimerAssumption
<1> QED  BY <1>1 DEF Init, TimerInv, SmonInv, NoOversleep

\* Every step keeps it.
LEMMA StepTimer == TimerInv /\ [Next]_vars => TimerInv'
<1> SUFFICES ASSUME TimerInv, [Next]_vars PROVE TimerInv'
  OBVIOUS
<1>1. /\ SmonInv(smon) /\ timeout \in Nat /\ NoOversleep
      /\ sinst # None => SinstInv(sinst) /\ timeout <= sinst.next
      /\ arec # None => ArecInv(arec) /\ timeout <= arec.next
  BY DEF TimerInv, NoOversleep
<1>2. timeout <= TopPeriod
  <2>1. smon.next \in Nat /\ smon.next <= TopPeriod /\ timeout <= smon.next /\ TopPeriod \in Nat
    BY <1>1, TimerAssumption DEF SmonInv, NoOversleep
  <2> QED  BY <1>1, <2>1
<1>3. ASSUME NEW e \in Nat, e <= timeout, sinst # None, SinstElapsed(sinst, e) # None
      PROVE  SinstInv(SinstElapsed(sinst, e))
  <2>1. e <= sinst.next
    BY <1>1, <1>3 DEF SinstInv, SinstRecord
  <2> QED  BY <1>1, <1>3, <2>1, OldSinst
<1>4. ASSUME NEW e \in Nat, e <= timeout, arec # None, ArecElapsed(arec, e) # None
      PROVE  ArecInv(ArecElapsed(arec, e))
  <2>1. e <= arec.next
    BY <1>1, <1>4 DEF ArecInv, ArecRecord
  <2> QED  BY <1>1, <1>4, <2>1, OldArec
<1>5. \A e \in Interrupted : e \in Nat /\ e <= timeout /\ e <= TopPeriod
  BY <1>1, <1>2, TimerAssumption DEF Interrupted
<1>6. CASE Expire
  <2>1. timeout <= timeout
    BY <1>1
  <2> QED  BY <1>1, <1>3, <1>4, <1>6, <2>1, PrepareQueryInv DEF Expire
<1>7. ASSUME NEW e \in Interrupted, RxOther(e) PROVE TimerInv'
  BY <1>1, <1>3, <1>4, <1>5, <1>7, PrepareQueryInv DEF RxOther
<1>8. ASSUME NEW e \in Interrupted, RxPtr(e) PROVE TimerInv'
  BY <1>1, <1>5, <1>8, PtrSinst, PrepareQueryInv DEF RxPtr
<1>9. ASSUME NEW e \in Interrupted, RxGoodbye(e) PROVE TimerInv'
  BY <1>1, <1>5, <1>9, PrepareQueryInv DEF RxGoodbye
<1>10. ASSUME NEW e \in Interrupted, NEW t \in Ttls, RxSrv(e, t) PROVE TimerInv'
  <2>1. CASE arec = None
    BY <1>1, <1>5, <1>10, <2>1, SrvSinst, FreshArec, PrepareQueryInv DEF RxSrv
  <2>2. CASE arec # None
    BY <1>1, <1>4, <1>5, <1>10, <2>2, SrvSinst, PrepareQueryInv DEF RxSrv
  <2> QED  BY <2>1, <2>2
<1>11. ASSUME NEW e \in Interrupted, NEW t \in Ttls, RxA(e, t) PROVE TimerInv'
  BY <1>1, <1>3, <1>5, <1>11, GotArec, PrepareQueryInv DEF RxA
<1>12. ASSUME NEW e \in Interrupted, NEW t \in Ttls, RxAnnouncement(e, t) PROVE TimerInv'
  BY <1>1, <1>5, <1>12, SrvSinst, GotArec, PrepareQueryInv DEF RxAnnouncement
<1>13. CASE UNCHANGED vars
  BY <1>1, <1>13 DEF vars, TimerInv, NoOversleep
<1> QED
  BY <1>6, <1>7, <1>8, <1>9, <1>10, <1>11, <1>12, <1>13 DEF Next

-----------------------------------------------------------------------------
(* The properties. *)

\* It holds of every behaviour.
LEMMA TimerInvariant == Spec => []TimerInv
BY InitTimer, StepTimer, PTL DEF Spec

\* What the invariant says of the age of an instance with an SRV record.
LEMMA AgeFacts ==
    ASSUME NEW s, SinstInv(s)
    PROVE  /\ s.ttl0 \in Nat /\ s.age \in Nat /\ s.asked \in 0 .. 3
           /\ 4 * s.age <= 7 * s.ttl0
<1>1. s \in SinstRecord
  BY DEF SinstInv
<1>2. s.ttl0 \in Nat /\ s.next \in Nat /\ s.age \in Int
  BY <1>1 DEF SinstRecord
<1> DEFINE p80 == Percent(s.ttl0, 80)
           p10 == Percent(s.ttl0, 10)
           p5 == Percent(s.ttl0, 5)
           f == First(s)
<1>3. /\ p80 \in Nat /\ p10 \in Nat /\ p5 \in Nat /\ f \in Nat /\ f <= p80
      /\ 100 * p80 <= 80 * s.ttl0 /\ 100 * p10 <= 10 * s.ttl0 /\ 100 * p5 <= 5 * s.ttl0
  <2>1. p80 \in Nat /\ p10 \in Nat /\ p5 \in Nat /\ f \in Nat /\ f <= p80
    BY <1>1, SinstPercents
  <2>2. p80 <= Part(s.ttl0, 80) /\ p10 <= Part(s.ttl0, 10) /\ p5 <= Part(s.ttl0, 5)
    BY <1>2, PercentFacts, ZenonT(30)
  <2> DEFINE q80 == Part(s.ttl0, 80)
             q10 == Part(s.ttl0, 10)
             q5 == Part(s.ttl0, 5)
  <2>3. /\ q80 \in Nat /\ q10 \in Nat /\ q5 \in Nat
        /\ 100 * q80 <= 80 * s.ttl0 /\ 100 * q10 <= 10 * s.ttl0 /\ 100 * q5 <= 5 * s.ttl0
    BY <1>2, PartFacts, ZenonT(30)
  <2>4. p80 <= q80 /\ p10 <= q10 /\ p5 <= q5
    BY <2>2
  <2> HIDE DEF p80, p10, p5, f, q80, q10, q5
  <2> QED  BY <1>2, <2>1, <2>3, <2>4
<1>4. \/ InPeriod(s, 0, 20, p80, p80)
      \/ InPeriod(s, 1, 10, p80, f + p80)
      \/ InPeriod(s, 2, 5, p10, f + p80 + p10)
      \/ InPeriod(s, 3, 2, p5, f + p80 + p10 + p5)
  BY DEF SinstInv
<1> HIDE DEF p80, p10, p5, f
<1>5. s.age \in Nat /\ s.age <= f + p80 + p10 + p5 /\ s.asked \in 0 .. 3
  BY <1>2, <1>3, <1>4 DEF InPeriod
<1> QED  BY <1>2, <1>3, <1>5

\* The sizes of the sets of due questions.
LEMMA DueSizes ==
    ASSUME NEW a \in Nat, NEW b \in Nat, NEW c \in Nat, a < b, b < c
    PROVE  /\ IsFiniteSet({}) /\ Cardinality({}) = 0
           /\ IsFiniteSet({a}) /\ Cardinality({a}) = 1
           /\ IsFiniteSet({a, b}) /\ Cardinality({a, b}) = 2
           /\ IsFiniteSet({a, b, c}) /\ Cardinality({a, b, c}) = 3
<1>1. IsFiniteSet({}) /\ Cardinality({}) = 0
  BY FS_EmptySet
<1>2. IsFiniteSet({a}) /\ Cardinality({a}) = 1
  BY FS_Singleton, ZenonT(30)
<1>3. {a, b} = {a} \cup {b} /\ b \notin {a} /\ {a, b, c} = {a, b} \cup {c} /\ c \notin {a, b}
  OBVIOUS
<1>4. IsFiniteSet({a, b}) /\ Cardinality({a, b}) = 2
  BY <1>2, <1>3, FS_AddElement
<1>5. IsFiniteSet({a, b, c}) /\ Cardinality({a, b, c}) = 3
  BY <1>3, <1>4, FS_AddElement
<1> QED  BY <1>1, <1>2, <1>4, <1>5

\* The number of refresh queries asked is the number of refresh points that have passed,
\* unless the percentage overflowed and the queries came early.
LEMMA Schedule ==
    ASSUME NEW s, SinstInv(s), s.srv
    PROVE  LET due == {d \in {Part(s.ttl0, 80), 2 * Part(s.ttl0, 80),
                              2 * Part(s.ttl0, 80) + Part(s.ttl0, 10)} : d <= s.age}
           IN /\ s.asked >= Cardinality(due)
              /\ s.ttl0 * 80 <= UINT_MAX => s.asked = Cardinality(due)
<1> DEFINE a == Part(s.ttl0, 80)
           b == 2 * a
           c == b + Part(s.ttl0, 10)
           due == {d \in {a, b, c} : d <= s.age}
           p80 == Percent(s.ttl0, 80)
           p10 == Percent(s.ttl0, 10)
           p5 == Percent(s.ttl0, 5)
<1>1. s \in SinstRecord /\ s.ttl0 >= 10
  BY DEF SinstInv
<1>2. s.ttl0 \in Nat /\ s.next \in Nat /\ s.age \in Nat /\ s.asked \in 0 .. 3
  BY <1>1, AgeFacts DEF SinstRecord
<1>3. a \in Nat /\ b \in Nat /\ c \in Nat /\ 0 < a /\ a < b /\ b < c
  BY <1>1, <1>2 DEF Part
<1>4. /\ p80 \in Nat /\ p10 \in Nat /\ p5 \in Nat
      /\ p80 <= a /\ b + p10 <= c
      /\ s.ttl0 * 80 <= UINT_MAX => p80 = a /\ b + p10 = c
  <2>1. s.ttl0 * 80 <= UINT_MAX => s.ttl0 * 10 <= UINT_MAX
    BY <1>2, TimerAssumption
  <2> DEFINE q10 == Part(s.ttl0, 10)
  <2>2. /\ p80 \in Nat /\ p10 \in Nat /\ p5 \in Nat /\ p80 <= a /\ p10 <= q10
        /\ s.ttl0 * 80 <= UINT_MAX => p80 = a /\ p10 = q10
    BY <1>2, <2>1, PercentFacts, ZenonT(30)
  <2>3. q10 \in Nat
    BY <1>2, PartFacts, ZenonT(30)
  <2>4. c = b + q10
    OBVIOUS
  <2> HIDE DEF p80, p10, p5, q10, a, b, c
  <2> QED  BY <1>3, <2>2, <2>3, <2>4
<1>5. \/ InPeriod(s, 0, 20, p80, p80) /\ s.next > 0
      \/ InPeriod(s, 1, 10, p80, p80 + p80)
      \/ InPeriod(s, 2, 5, p10, p80 + p80 + p10)
      \/ InPeriod(s, 3, 2, p5, p80 + p80 + p10 + p5)
  BY DEF SinstInv, First
<1>6. b = a + a
  BY <1>3
<1> HIDE DEF p80, p10, p5, a, b, c
<1>7. /\ s.asked = 0 => s.age < a
      /\ s.asked <= 1 => s.age < b
      /\ s.asked <= 2 => s.age < c
  BY <1>2, <1>3, <1>4, <1>5, <1>6 DEF InPeriod
<1>8. s.ttl0 * 80 <= UINT_MAX => /\ s.asked >= 1 => s.age >= a
                                 /\ s.asked >= 2 => s.age >= b
                                 /\ s.asked = 3 => s.age >= c
  BY <1>2, <1>3, <1>4, <1>5, <1>6 DEF InPeriod
<1>9. /\ s.asked = 0 => due \subseteq {}
      /\ s.asked = 1 => due \subseteq {a}
      /\ s.asked = 2 => due \subseteq {a, b}
      /\ s.asked = 3 => due \subseteq {a, b, c}
  BY <1>2, <1>3, <1>7
<1>10. s.ttl0 * 80 <= UINT_MAX => /\ s.asked = 1 => {a} \subseteq due
                                  /\ s.asked = 2 => {a, b} \subseteq due
                                  /\ s.asked = 3 => {a, b, c} \subseteq due
  BY <1>2, <1>3, <1>8
<1> HIDE DEF due
<1>11. /\ IsFiniteSet({}) /\ Cardinality({}) = 0
       /\ IsFiniteSet({a}) /\ Cardinality({a}) = 1
       /\ IsFiniteSet({a, b}) /\ Cardinality({a, b}) = 2
       /\ IsFiniteSet({a, b, c}) /\ Cardinality({a, b, c}) = 3
  BY <1>3, DueSizes, ZenonT(30)
<1>12. s.asked >= Cardinality(due)
  <2>1. ASSUME NEW S, IsFiniteSet(S), due \subseteq S PROVE Cardinality(due) <= Cardinality(S)
    BY <2>1, FS_Subset
  <2> QED  BY <1>2, <1>9, <1>11, <2>1
<1>13. s.ttl0 * 80 <= UINT_MAX => s.asked = Cardinality(due)
  <2> SUFFICES ASSUME s.ttl0 * 80 <= UINT_MAX PROVE s.asked = Cardinality(due)
    OBVIOUS
  <2>1. /\ s.asked = 0 => due = {}
        /\ s.asked = 1 => due = {a}
        /\ s.asked = 2 => due = {a, b}
        /\ s.asked = 3 => due = {a, b, c}
    BY <1>9, <1>10
  <2>2. /\ s.asked = 0 => Cardinality(due) = 0
        /\ s.asked = 1 => Cardinality(due) = 1
        /\ s.asked = 2 => Cardinality(due) = 2
        /\ s.asked = 3 => Cardinality(due) = 3
    BY <1>11, <2>1, Zenon
  <2> QED  BY <1>2, <2>2
<1> QED  BY <1>12, <1>13 DEF due, a, b, c

\* do_querier never sleeps past the time at which a monitor or a record is to be
\* asked for or given up, whatever arrives meanwhile (next_event of prepare_query).
THEOREM NeverOversleeps == Spec => []NoOversleep
BY TimerInvariant, PTL DEF TimerInv

\* Every question for an SRV record is sent when 80%, 160% and 170% of its TTL
\* have passed, never later, and never earlier unless ttl * 80 overflows.
THEOREM SrvOnSchedule == Spec => []SrvSchedule
<1>1. TimerInv => SrvSchedule
  <2> SUFFICES ASSUME TimerInv, sinst # None, sinst.srv PROVE SrvSchedule
    BY DEF SrvSchedule
  <2>1. SinstInv(sinst)
    BY DEF TimerInv
  <2> QED  BY <2>1, Schedule DEF SrvSchedule, Part
<1> QED  BY <1>1, TimerInvariant, PTL

\* A service that falls silent is given up when three quarters over its TTL have
\* passed without an answer (apply_elapsed).
THEOREM SilentOnesGivenUp == Spec => []SilentGivenUp
<1>1. TimerInv => SilentGivenUp
  BY AgeFacts DEF TimerInv, SilentGivenUp
<1> QED  BY <1>1, TimerInvariant, PTL

\* An address that nobody renews is given up by the end of its TTL (update_arec).
THEOREM AddressesExpire == Spec => []AddressExpires
<1>1. ASSUME NEW a, ArecInv(a) PROVE a.age <= a.ttl
  <2>1. a.ttl \in Nat /\ a.next \in Nat /\ a.age \in Int
    BY <1>1 DEF ArecInv, ArecRecord
  <2> DEFINE p80 == Part(a.ttl, 80)
             p10 == Part(a.ttl, 10)
             p5 == Part(a.ttl, 5)
             p2 == Part(a.ttl, 2)
  <2>2. p80 \in Nat /\ p10 \in Nat /\ p5 \in Nat /\ p2 \in Nat /\ p80 + p10 + p5 + p2 <= a.ttl
    BY <2>1, PartFacts, ZenonT(30)
  <2>3. \/ a.age + a.next <= p80
        \/ a.age + a.next <= p80 + p10
        \/ a.age + a.next <= p80 + p10 + p5
        \/ a.age + a.next <= p80 + p10 + p5 + p2
    BY <1>1, Zenon DEF ArecInv
  <2> HIDE DEF p80, p10, p5, p2
  <2> QED  BY <2>1, <2>2, <2>3
<1>2. TimerInv => AddressExpires
  BY <1>1 DEF TimerInv, AddressExpires
<1> QED  BY <1>2, TimerInvariant, PTL
=============================================================================

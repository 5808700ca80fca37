------------------------- MODULE ServiceCacheSteps --------------------------
(* The inductive invariant of the querier's cache, and that every step keeps  *)
(* it: what the operators do to one slot, what a change of several slots does *)
(* to the callbacks, and one lemma per family of steps of the thread.         *)
EXTENDS ServiceCache, FiniteSetTheorems, TLAPS

-----------------------------------------------------------------------------
(* What the operators of the two state machines do to one slot. *)

\* update_sinst's state machine only moves the state: CLEAN if something changed
\* and the service is ready, UPDATING if it changed and is not.
LEMMA MarchFacts ==
    ASSUME NEW r \in SinstType, NEW c \in BOOLEAN
    PROVE  /\ March(r, c) \in SinstType
           /\ Info(March(r, c)) = Info(r) /\ March(r, c).flags = r.flags
           /\ March(r, c).type = r.type /\ March(r, c).name = r.name
           /\ March(r, c).arec = r.arec
           /\ ~c => March(r, c) = r
           /\ c /\ Ready(r) => March(r, c).st = "clean"
           /\ c /\ ~Ready(r) => March(r, c).st = IF r.st = "clean" THEN "updating" ELSE r.st
  BY DEF March, SinstType, Info

\* set_arec changes the arec, the address and the A flag of a slot, nothing else.
LEMMA AttachFacts ==
    ASSUME NEW r \in SinstType, NEW a \in Arecs, NEW ar \in ArecType
    PROVE  /\ Attach(r, a, ar) \in SinstType
           /\ Attach(r, a, ar).st = r.st
           /\ Attach(r, a, ar).type = r.type /\ Attach(r, a, ar).name = r.name
           /\ Attach(r, a, ar).port = r.port /\ Attach(r, a, ar).txt = r.txt
           /\ Attach(r, a, ar).arec = a
           /\ ~Attached(r, a, ar) => Attach(r, a, ar).ip = r.ip
           /\ "SRV" \in Attach(r, a, ar).flags <=> "SRV" \in r.flags
           /\ "A" \in Attach(r, a, ar).flags <=> ar.st = "resolved"
           /\ Attach(r, a, ar).ip = IF ar.st = "resolved" THEN ar.ip ELSE r.ip
  BY ZenonT(60) DEF Attach, Attached, SinstType, ArecType

\* The last lines of update_srv change the port, the countdown and the SRV flag.
LEMMA GotSrvFacts ==
    ASSUME NEW r \in SinstType, NEW p \in Ports
    PROVE  /\ GotSrv(r, p) \in SinstType
           /\ GotSrv(r, p).st = r.st
           /\ GotSrv(r, p).type = r.type /\ GotSrv(r, p).name = r.name
           /\ GotSrv(r, p).arec = r.arec /\ GotSrv(r, p).ip = r.ip
           /\ GotSrv(r, p).txt = r.txt /\ GotSrv(r, p).port = p
           /\ "SRV" \in GotSrv(r, p).flags
           /\ "A" \in GotSrv(r, p).flags <=> "A" \in r.flags
  BY ZenonT(60) DEF GotSrv, SinstType

-----------------------------------------------------------------------------
(* The inductive invariant.  SlotOK and ArecOK say what the fields of one    *)
(* slot have to do with each other; the rest is what the runs check.         *)

SlotOK(r) ==
    /\ r.st = "free" => r = FreeSinst
    /\ r.st # "free" => r.type \in Types /\ r.name \in Names
    /\ "SRV" \in r.flags => r.port \in Ports
    /\ "A" \in r.flags => r.ip \in Ips
    /\ r.st = "init" => /\ "A" \notin r.flags /\ r.ip = None
                        /\ r.arec # None => "SRV" \in r.flags

ArecOK(r) ==
    /\ r.st = "free" => r = FreeArec
    /\ r.st # "free" => r.host \in Hosts
    /\ r.st = "resolved" => r.ip \in Ips

SlotsOK == \A s \in Sinsts : SlotOK(sinst[s])

ArecsOK == \A a \in Arecs : ArecOK(arec[a])

\* The part of the invariant that speaks of the slots and of the callbacks.
CallbackInv == SlotsOK /\ OneSlotPerService /\ OnlyMonitored
               /\ ReportedAreCached /\ CleanIsReported

CacheInv == TypeOK /\ CallbackInv /\ ArecsOK /\ OneArecPerHost

\* The effect of update_sinst on slots C of the cache, for any of the GOT_
\* events: new is the cache afterwards.
Marched(C, new) ==
    /\ new \in [Sinsts -> SinstType]
    /\ \A s \in Sinsts : /\ SlotOK(new[s])
                         /\ new[s].type = sinst[s].type /\ new[s].name = sinst[s].name
    /\ \A s \in Sinsts \ C : new[s].st = sinst[s].st /\ Info(new[s]) = Info(sinst[s])
    /\ \A s \in C : /\ sinst[s].st # "free"
                    /\ Ready(new[s]) => new[s].st = "clean"
                    /\ ~Ready(new[s]) => new[s].st = IF sinst[s].st = "clean"
                                                     THEN "updating" ELSE sinst[s].st

\* Reporting exactly the slots that changed and are ready keeps the application
\* and the cache in agreement (update_sinst, DO_CALLBACK).
LEMMA MarchedKeepsCallbacks ==
    ASSUME TypeOK, CallbackInv, NEW C \in SUBSET Sinsts, NEW new, Marched(C, new),
           sinst' = new, view' = Report(C, new), monitored' = monitored
    PROVE  CallbackInv' /\ view' \in [Services -> Infos \cup {None}]
  <1> DEFINE told(v) == {s \in C : Ready(new[s]) /\ v = <<new[s].type, new[s].name>>}
  <1>1. \A s \in Sinsts : Info(new[s]) \in Infos /\ Info(new[s]) # None
    BY CacheAssumption DEF Marched, Info, Infos, SinstType
  <1>2. view' = [v \in Services |-> IF told(v) # {} THEN Info(new[CHOOSE s \in told(v) : TRUE])
                                    ELSE view[v]]
    BY DEF Report
  <1>3. \A v \in Services : told(v) # {} => (CHOOSE s \in told(v) : TRUE) \in told(v)
    OBVIOUS
  <1>4. view' \in [Services -> Infos \cup {None}]
    BY <1>1, <1>2, <1>3 DEF TypeOK
  <1>5. SlotsOK' /\ OneSlotPerService' /\ OnlyMonitored'
    BY DEF Marched, SlotsOK, SlotOK, OneSlotPerService, OnlyMonitored, CallbackInv
  <1>6. \A s \in Sinsts : new[s].st # "free" => <<new[s].type, new[s].name>> \in Services
    BY DEF Marched, SlotOK, Services
  <1>7. \A s \in C : Ready(new[s]) => view'[<<new[s].type, new[s].name>>] = Info(new[s])
    <2> SUFFICES ASSUME NEW s \in C, Ready(new[s])
                 PROVE  view'[<<new[s].type, new[s].name>>] = Info(new[s])
      OBVIOUS
    <2> DEFINE v == <<new[s].type, new[s].name>>
    <2>1. s \in told(v)
      OBVIOUS
    <2>2. new[s].st # "free"
      BY DEF Marched
    <2>3. \A z \in told(v) : z = s
      <3> TAKE z \in told(v)
      <3>1. z \in Sinsts /\ s \in Sinsts
        OBVIOUS
      <3>2. sinst[z].st # "free" /\ sinst[s].st # "free"
        BY DEF Marched
      <3>3. sinst[z].type = sinst[s].type /\ sinst[z].name = sinst[s].name
        BY <3>1 DEF Marched
      <3> QED BY <3>1, <3>2, <3>3 DEF CallbackInv, OneSlotPerService
    <2>4. (CHOOSE z \in told(v) : TRUE) = s
      BY <2>1, <2>3
    <2>5. v \in Services
      BY <2>2, <1>6
    <2> QED BY <1>2, <2>1, <2>4, <2>5
  <1>8. \A s \in Sinsts : new[s].st # "free" /\ ~(s \in C /\ Ready(new[s])) =>
           view'[<<new[s].type, new[s].name>>] = view[<<new[s].type, new[s].name>>]
    <2> SUFFICES ASSUME NEW s \in Sinsts, new[s].st # "free", ~(s \in C /\ Ready(new[s]))
                 PROVE  view'[<<new[s].type, new[s].name>>] = view[<<new[s].type, new[s].name>>]
      OBVIOUS
    <2> DEFINE v == <<new[s].type, new[s].name>>
    <2>1. told(v) = {}
      <3> SUFFICES ASSUME NEW z \in told(v) PROVE FALSE
        OBVIOUS
      <3>1. sinst[z].st # "free" /\ sinst[s].st # "free"
        BY DEF Marched
      <3>2. sinst[z].type = sinst[s].type /\ sinst[z].name = sinst[s].name
        BY DEF Marched
      <3>3. z = s
        BY <3>1, <3>2 DEF CallbackInv, OneSlotPerService
      <3> QED BY <3>3
    <2> QED BY <1>2, <1>6, <2>1
  <1>9. CleanIsReported'
    <2> SUFFICES ASSUME NEW s \in Sinsts, new[s].st = "clean"
                 PROVE  view'[<<new[s].type, new[s].name>>] = Info(new[s])
      BY DEF CleanIsReported
    <2>1. CASE s \in C /\ Ready(new[s])
      BY <2>1, <1>7
    <2>2. CASE ~(s \in C /\ Ready(new[s]))
      <3>1. s \notin C /\ sinst[s].st = "clean" /\ Info(new[s]) = Info(sinst[s])
        BY <2>2 DEF Marched
      <3>2. view[<<sinst[s].type, sinst[s].name>>] = Info(sinst[s])
        BY <3>1 DEF CallbackInv, CleanIsReported
      <3> QED BY <2>2, <3>1, <3>2, <1>8 DEF Marched
    <2> QED BY <2>1, <2>2
  <1>10. ReportedAreCached'
    <2> SUFFICES ASSUME NEW v \in Services
                 PROVE  view'[v] # None <=>
                          \E s \in Sinsts : new[s].st \in {"clean", "updating"}
                                            /\ <<new[s].type, new[s].name>> = v
      BY DEF ReportedAreCached
    <2>1. ASSUME NEW s \in Sinsts, new[s].st \in {"clean", "updating"},
                 <<new[s].type, new[s].name>> = v
          PROVE  view'[v] # None
      <3>1. CASE s \in C /\ Ready(new[s])
        BY <2>1, <3>1, <1>1, <1>7
      <3>2. CASE ~(s \in C /\ Ready(new[s]))
        <4>1. sinst[s].st \in {"clean", "updating"}
          BY <2>1, <3>2 DEF Marched, TypeOK, SinstType
        <4>2. view[<<sinst[s].type, sinst[s].name>>] # None
          BY <4>1, <2>1 DEF CallbackInv, ReportedAreCached, Marched
        <4> QED BY <2>1, <3>2, <4>2, <1>8 DEF Marched
      <3> QED BY <3>1, <3>2
    <2>2. ASSUME view'[v] # None
          PROVE  \E s \in Sinsts : new[s].st \in {"clean", "updating"}
                                   /\ <<new[s].type, new[s].name>> = v
      <3>1. CASE told(v) # {}
        <4>1. PICK s \in told(v) : TRUE
          BY <3>1
        <4> QED BY <4>1 DEF Marched
      <3>2. CASE told(v) = {}
        <4>1. view[v] # None
          BY <2>2, <3>2, <1>2
        <4>2. PICK s \in Sinsts : sinst[s].st \in {"clean", "updating"}
                                  /\ <<sinst[s].type, sinst[s].name>> = v
          BY <4>1 DEF CallbackInv, ReportedAreCached
        <4>3. new[s].st \in {"clean", "updating"}
          BY <4>2 DEF Marched
        <4> QED BY <4>2, <4>3 DEF Marched
      <3> QED BY <3>1, <3>2
    <2> QED BY <2>1, <2>2
  <1> QED BY <1>4, <1>5, <1>9, <1>10 DEF CallbackInv

\* The effect of cleanup_sinst on the slots S, of a refresh on the others, and
\* of giving up the monitors T.
Dropped(S, T, new) ==
    /\ new \in [Sinsts -> SinstType]
    /\ \A s \in S : new[s] = FreeSinst
    /\ \A s \in Sinsts \ S :
         /\ SlotOK(new[s])
         /\ new[s].type = sinst[s].type /\ new[s].name = sinst[s].name
         /\ Info(new[s]) = Info(sinst[s])
         /\ \/ new[s].st = sinst[s].st
            \/ sinst[s].st = "clean" /\ new[s].st = "updating"
         /\ sinst[s].st # "free" => sinst[s].type \notin T

\* Forgetting exactly the cleaned-up slots keeps the application and the cache
\* in agreement (every caller of cleanup_sinst).
LEMMA DroppedKeepsCallbacks ==
    ASSUME TypeOK, CallbackInv, NEW S \in SUBSET Sinsts, NEW T, NEW new, Dropped(S, T, new),
           sinst' = new, view' = Forget(S), monitored' = monitored \ T
    PROVE  CallbackInv' /\ view' \in [Services -> Infos \cup {None}]
  <1>1. view' \in [Services -> Infos \cup {None}]
    BY DEF Forget, TypeOK
  <1>2. \A s \in Sinsts : new[s].st # "free" => s \notin S /\ sinst[s].st # "free"
    BY DEF Dropped, FreeSinst
  <1>3. SlotsOK'
    <2>1. SlotOK(FreeSinst)
      BY DEF SlotOK, FreeSinst
    <2> QED BY <2>1 DEF SlotsOK, Dropped
  <1>4. OneSlotPerService' /\ OnlyMonitored'
    BY <1>2 DEF Dropped, OneSlotPerService, OnlyMonitored, CallbackInv
  <1>5. \A s \in Sinsts : new[s].st # "free" =>
           /\ <<new[s].type, new[s].name>> \in Services
           /\ view'[<<new[s].type, new[s].name>>] = view[<<sinst[s].type, sinst[s].name>>]
    <2> SUFFICES ASSUME NEW s \in Sinsts, new[s].st # "free"
                 PROVE  /\ <<new[s].type, new[s].name>> \in Services
                        /\ view'[<<new[s].type, new[s].name>>]
                             = view[<<sinst[s].type, sinst[s].name>>]
      OBVIOUS
    <2> DEFINE v == <<sinst[s].type, sinst[s].name>>
    <2>1. s \notin S /\ sinst[s].st # "free"
      BY <1>2
    <2>2. v = <<new[s].type, new[s].name>>
      BY <2>1 DEF Dropped
    <2>3. v \in Services
      BY <2>1 DEF CallbackInv, SlotsOK, SlotOK, Services
    <2>4. ASSUME NEW z \in S, v = <<sinst[z].type, sinst[z].name>>
          PROVE  FALSE
      <3>1. sinst[z].type = sinst[s].type /\ sinst[z].name = sinst[s].name
        BY <2>4
      <3>2. CASE sinst[z].st # "free"
        BY <3>1, <3>2, <2>1 DEF CallbackInv, OneSlotPerService
      <3>3. CASE sinst[z].st = "free"
        <4>1. sinst[z].type = None
          BY <3>3 DEF CallbackInv, SlotsOK, SlotOK, FreeSinst
        <4>2. sinst[s].type \in Types
          BY <2>1 DEF CallbackInv, SlotsOK, SlotOK
        <4> QED BY <3>1, <4>1, <4>2, CacheAssumption
      <3> QED BY <3>2, <3>3
    <2> QED BY <2>2, <2>3, <2>4 DEF Forget
  <1>6. CleanIsReported'
    <2> SUFFICES ASSUME NEW s \in Sinsts, new[s].st = "clean"
                 PROVE  view'[<<new[s].type, new[s].name>>] = Info(new[s])
      BY DEF CleanIsReported
    <2>1. s \notin S /\ sinst[s].st = "clean" /\ Info(new[s]) = Info(sinst[s])
      BY <1>2 DEF Dropped
    <2> QED BY <2>1, <1>5, Zenon DEF CallbackInv, CleanIsReported
  <1>7. ReportedAreCached'
    <2> SUFFICES ASSUME NEW v \in Services
                 PROVE  view'[v] # None <=>
                          \E s \in Sinsts : new[s].st \in {"clean", "updating"}
                                            /\ <<new[s].type, new[s].name>> = v
      BY DEF ReportedAreCached
    <2>1. ASSUME NEW s \in Sinsts, new[s].st \in {"clean", "updating"},
                 <<new[s].type, new[s].name>> = v
          PROVE  view'[v] # None
      <3>1. s \notin S /\ sinst[s].st \in {"clean", "updating"}
        BY <2>1, <1>2 DEF Dropped
      <3>2. <<sinst[s].type, sinst[s].name>> = v
        BY <2>1, <3>1 DEF Dropped
      <3>3. view[v] # None
        BY <3>1, <3>2 DEF CallbackInv, ReportedAreCached
      <3> QED BY <2>1, <3>2, <3>3, <1>5
    <2>2. ASSUME view'[v] # None
          PROVE  \E s \in Sinsts : new[s].st \in {"clean", "updating"}
                                   /\ <<new[s].type, new[s].name>> = v
      <3>1. view[v] # None /\ ~\E s \in S : v = <<sinst[s].type, sinst[s].name>>
        BY <2>2 DEF Forget
      <3>2. PICK s \in Sinsts : sinst[s].st \in {"clean", "updating"}
                                /\ <<sinst[s].type, sinst[s].name>> = v
        BY <3>1 DEF CallbackInv, ReportedAreCached
      <3>3. s \notin S
        BY <3>1, <3>2
      <3> QED BY <3>2, <3>3 DEF Dropped
    <2> QED BY <2>1, <2>2
  <1> QED BY <1>1, <1>3, <1>4, <1>6, <1>7 DEF CallbackInv

-----------------------------------------------------------------------------
(* Each operator keeps the fields of its slot coherent. *)

\* An arec that cleanup_sinst unlinks stays of its type and of its host, or is freed.
LEMMA UnlinkFacts ==
    ASSUME NEW r \in ArecType, ArecOK(r), NEW a, NEW S
    PROVE  /\ Unlink(r, a, S) \in ArecType /\ ArecOK(Unlink(r, a, S))
           /\ Unlink(r, a, S).sinsts = r.sinsts \ {s \in r.sinsts : s \in S /\ sinst[s].arec = a}
           /\ Unlink(r, a, S).st # "free" => /\ Unlink(r, a, S).st = r.st
                                             /\ Unlink(r, a, S).host = r.host
                                             /\ Unlink(r, a, S).ip = r.ip
           /\ Unlink(r, a, S).st = "free" => Unlink(r, a, S).sinsts = {}
  <1> DEFINE gone == {s \in r.sinsts : s \in S /\ sinst[s].arec = a}
  <1>1. CASE gone # {} /\ gone = r.sinsts
    <2>1. Unlink(r, a, S) = FreeArec
      BY <1>1 DEF Unlink
    <2>2. FreeArec \in ArecType /\ ArecOK(FreeArec)
      BY DEF FreeArec, ArecType, ArecOK
    <2>3. r.sinsts \ gone = {}
      BY <1>1
    <2> QED BY <2>1, <2>2, <2>3 DEF FreeArec
  <1>2. CASE ~(gone # {} /\ gone = r.sinsts)
    <2>1. Unlink(r, a, S) = [r EXCEPT !.sinsts = r.sinsts \ gone]
      BY <1>2 DEF Unlink
    <2>2. r.st = "free" => Unlink(r, a, S) = r
      <3> SUFFICES ASSUME r.st = "free" PROVE Unlink(r, a, S) = r
        OBVIOUS
      <3>1. r = FreeArec
        BY DEF ArecOK
      <3>2. r.sinsts \ gone = {}
        BY <3>1 DEF FreeArec
      <3> QED BY <2>1, <3>1, <3>2 DEF FreeArec
    <2>3. Unlink(r, a, S) \in ArecType
      BY <2>1 DEF ArecType
    <2>4. /\ Unlink(r, a, S).st = r.st /\ Unlink(r, a, S).host = r.host
          /\ Unlink(r, a, S).ip = r.ip /\ Unlink(r, a, S).sinsts = r.sinsts \ gone
      BY <2>1 DEF ArecType
    <2>5. ArecOK(Unlink(r, a, S))
      BY <2>2, <2>4 DEF ArecOK
    <2>6. r.st = "free" => r.sinsts = {}
      BY DEF ArecOK, FreeArec
    <2> QED BY <2>2, <2>3, <2>4, <2>5, <2>6
  <1> QED BY <1>1, <1>2

\* The questions of update_arec move an arec between its states, never to another host.
LEMMA AskAFacts ==
    ASSUME NEW r \in ArecType, ArecOK(r), NEW due
    PROVE  /\ AskA(r, due) \in ArecType /\ ArecOK(AskA(r, due))
           /\ AskA(r, due).st = "free" <=> r.st = "free"
           /\ AskA(r, due).host = r.host /\ AskA(r, due).ip = r.ip
           /\ AskA(r, due).sinsts = r.sinsts
  <1>1. CASE r.st = "init"
    BY <1>1, Zenon DEF AskA, ArecType, ArecOK
  <1>2. CASE r.st = "querying" /\ due /\ r.pct >= 5
    <2>1. AskA(r, due) = [r EXCEPT !.pct = Half(r.pct)]
      BY <1>2 DEF AskA
    <2>2. Half(r.pct) \in {2, 5}
      BY <1>2 DEF Half, ArecType
    <2> QED BY <1>2, <2>1, <2>2, Zenon DEF ArecType, ArecOK
  <1>3. CASE r.st = "resolved" /\ due
    BY <1>3, Zenon DEF AskA, ArecType, ArecOK
  <1>4. CASE r.st # "init" /\ ~(r.st = "querying" /\ due /\ r.pct >= 5)
             /\ ~(r.st = "resolved" /\ due)
    BY <1>4 DEF AskA
  <1> QED BY <1>1, <1>2, <1>3, <1>4

\* The questions of update_sinst keep a reported slot reported (CLEAN or UPDATING).
LEMMA AskSrvFacts ==
    ASSUME NEW r \in SinstType, SlotOK(r), r.st # "free", ~(r.pct < 5), NEW asked
    PROVE  /\ AskSrv(r, asked) \in SinstType /\ SlotOK(AskSrv(r, asked))
           /\ AskSrv(r, asked).type = r.type /\ AskSrv(r, asked).name = r.name
           /\ AskSrv(r, asked).arec = r.arec /\ Info(AskSrv(r, asked)) = Info(r)
           /\ AskSrv(r, asked).flags \subseteq r.flags
           /\ "A" \in AskSrv(r, asked).flags <=> "A" \in r.flags
           /\ \/ AskSrv(r, asked).st = r.st
              \/ r.st = "clean" /\ AskSrv(r, asked).st = "updating"
  <1>1. Half(r.pct) \in {2, 5, 10}
    BY DEF Half, SinstType
  <1> QED BY <1>1, ZenonT(60) DEF AskSrv, SinstType, SlotOK, Info

\* The tail of update_sinst on a slot: old becomes new, and c tells if it changed.
SlotMarched(old, new, c) ==
    /\ new \in SinstType /\ SlotOK(new)
    /\ new.type = old.type /\ new.name = old.name
    /\ ~c => new.st = old.st /\ Info(new) = Info(old)
    /\ c /\ Ready(new) => new.st = "clean"
    /\ c /\ ~Ready(new) => new.st = IF old.st = "clean" THEN "updating" ELSE old.st

\* update_srv, when the SRV's target has an arec.
LEMMA SrvSlotFacts ==
    ASSUME NEW r \in SinstType, SlotOK(r), r.st # "free", NEW p \in Ports,
           NEW a \in Arecs, NEW ar \in ArecType, ArecOK(ar), ar.st # "free",
           NEW changed \in BOOLEAN, changed <=> r.port # p \/ Attached(r, a, ar)
    PROVE  SlotMarched(r, March(Attach(GotSrv(r, p), a, ar), changed), changed)
  <1> DEFINE g == GotSrv(r, p)
             t == Attach(g, a, ar)
             new == March(t, changed)
  <1> HIDE DEF g, t, new
  <1>1. /\ g \in SinstType /\ g.st = r.st /\ g.type = r.type /\ g.name = r.name
        /\ g.arec = r.arec /\ g.ip = r.ip /\ g.txt = r.txt /\ g.port = p
        /\ "SRV" \in g.flags
    BY GotSrvFacts DEF g
  <1>2. Attached(g, a, ar) <=> Attached(r, a, ar)
    BY <1>1 DEF Attached
  <1>3. /\ t \in SinstType /\ t.st = r.st /\ t.type = r.type /\ t.name = r.name
        /\ t.port = p /\ t.txt = r.txt /\ t.arec = a
        /\ ~Attached(r, a, ar) => t.ip = r.ip
        /\ "SRV" \in t.flags
        /\ "A" \in t.flags <=> ar.st = "resolved"
        /\ t.ip = IF ar.st = "resolved" THEN ar.ip ELSE r.ip
    BY <1>1, <1>2, AttachFacts DEF t
  <1>4. /\ new \in SinstType
        /\ Info(new) = Info(t) /\ new.flags = t.flags
        /\ new.type = r.type /\ new.name = r.name /\ new.arec = a
        /\ ~changed => new = t
        /\ changed /\ Ready(t) => new.st = "clean"
        /\ changed /\ ~Ready(t) => new.st = IF r.st = "clean" THEN "updating" ELSE r.st
    BY <1>3, MarchFacts DEF new
  <1>5. Ready(new) <=> Ready(t)
    BY <1>4 DEF Ready
  <1>6. ~changed => Info(t) = Info(r)
    BY <1>3 DEF Info
  <1>7. new.ip = t.ip /\ new.port = t.port
    BY <1>4 DEF Info
  <1>8. SlotOK(new)
    <2>1. new.st # "free"
      BY <1>3, <1>4 DEF SinstType
    <2>2. new.type \in Types /\ new.name \in Names
      BY <1>4 DEF SlotOK
    <2>3. "SRV" \in new.flags => new.port \in Ports
      BY <1>3, <1>7
    <2>4. "A" \in new.flags => new.ip \in Ips
      BY <1>3, <1>4, <1>7 DEF ArecOK
    <2>5. new.st = "init" => /\ "A" \notin new.flags /\ new.ip = None
                             /\ new.arec # None => "SRV" \in new.flags
      <3> SUFFICES ASSUME new.st = "init"
                   PROVE  /\ "A" \notin new.flags /\ new.ip = None
                          /\ "SRV" \in new.flags
        OBVIOUS
      <3>1. r.st = "init" /\ r.ip = None
        BY <1>3, <1>4 DEF SlotOK
      <3>2. "SRV" \in new.flags
        BY <1>3, <1>4
      <3>3. ar.st # "resolved"
        <4> SUFFICES ASSUME ar.st = "resolved" PROVE FALSE
          OBVIOUS
        <4>1. Attached(r, a, ar)
          BY <3>1, CacheAssumption DEF Attached, ArecOK
        <4>2. changed
          BY <4>1
        <4>3. Ready(t)
          BY <1>3 DEF Ready
        <4> QED BY <4>2, <4>3, <1>4
      <3> QED BY <3>1, <3>2, <3>3, <1>3, <1>4, <1>7
    <2> QED BY <2>1, <2>2, <2>3, <2>4, <2>5 DEF SlotOK
  <1>9. SlotMarched(r, new, changed)
    BY <1>3, <1>4, <1>5, <1>6, <1>8 DEF SlotMarched
  <1> QED BY <1>9 DEF new, t, g

\* set_arec, called for GOT_AREC by set_ip, on a slot of the arec that got an address.
LEMMA AddressSlotFacts ==
    ASSUME NEW r \in SinstType, SlotOK(r), NEW a \in Arecs, r.arec = a,
           NEW ar \in ArecType, ar.st = "resolved", ar.ip \in Ips,
           NEW changed \in BOOLEAN, changed <=> Attached(r, a, ar)
    PROVE  r.st # "free" /\ SlotMarched(r, March(Attach(r, a, ar), changed), changed)
  <1> DEFINE t == Attach(r, a, ar)
             new == March(t, changed)
  <1>1. r.st # "free"
    BY CacheAssumption DEF SlotOK, FreeSinst
  <1>2. /\ t \in SinstType /\ t.st = r.st /\ t.type = r.type /\ t.name = r.name
        /\ t.port = r.port /\ t.txt = r.txt /\ t.arec = a /\ t.ip = ar.ip
        /\ ~changed => t.ip = r.ip
        /\ "SRV" \in t.flags <=> "SRV" \in r.flags
        /\ "A" \in t.flags
    BY AttachFacts
  <1>3. changed <=> r.ip # ar.ip
    BY CacheAssumption DEF Attached
  <1> HIDE DEF t
  <1>4. /\ new \in SinstType
        /\ Info(new) = Info(t) /\ new.flags = t.flags
        /\ new.type = r.type /\ new.name = r.name /\ new.arec = a
        /\ ~changed => new = t
        /\ changed /\ Ready(t) => new.st = "clean"
        /\ changed /\ ~Ready(t) => new.st = IF r.st = "clean" THEN "updating" ELSE r.st
    BY <1>2, <1>3, MarchFacts
  <1> HIDE DEF new
  <1>5. (Ready(new) <=> Ready(t)) /\ new.ip = ar.ip /\ new.port = r.port
    BY <1>2, <1>4 DEF Ready, Info
  <1>6. ~changed => Info(t) = Info(r)
    BY <1>2 DEF Info
  <1>7. SlotOK(new)
    <2>1. new.st # "free"
      BY <1>1, <1>2, <1>4 DEF SinstType
    <2>2. new.st # "init"
      <3> SUFFICES ASSUME new.st = "init" PROVE FALSE
        OBVIOUS
      <3>1. r.st = "init"
        BY <1>2, <1>4
      <3>2. r.ip = None /\ "SRV" \in r.flags
        BY <3>1, CacheAssumption DEF SlotOK
      <3>3. changed /\ Ready(t)
        BY <3>2, <1>2, <1>3, CacheAssumption DEF Ready
      <3> QED BY <3>3, <1>4
    <2>3. "SRV" \in new.flags => new.port \in Ports
      BY <1>2, <1>4, <1>5 DEF SlotOK
    <2> QED BY <1>1, <1>4, <1>5, <2>1, <2>2, <2>3 DEF SlotOK
  <1>8. SlotMarched(r, new, changed)
    BY <1>2, <1>4, <1>5, <1>6, <1>7 DEF SlotMarched
  <1> QED BY <1>1, <1>8, ZenonT(30) DEF new, t

-----------------------------------------------------------------------------
(* The steps of the thread, one lemma per family. *)

\* The primed parts of the invariant that a step on the pools has to restore.
PoolsOK == /\ sinst \in [Sinsts -> SinstType] /\ arec \in [Arecs -> ArecType]
           /\ view \in [Services -> Infos \cup {None}]
           /\ CallbackInv /\ ArecsOK /\ OneArecPerHost

\* A step that gives no arec to a new host keeps one arec per host.
LEMMA ArecsKept ==
    ASSUME CacheInv, arec' \in [Arecs -> ArecType],
           \A a \in Arecs : /\ ArecOK(arec'[a])
                            /\ arec'[a].st # "free" => /\ arec[a].st # "free"
                                                       /\ arec'[a].host = arec[a].host
    PROVE  ArecsOK' /\ OneArecPerHost'
  BY DEF CacheInv, ArecsOK, OneArecPerHost

\* cleanup_sinst on the slots S, and the end of the monitors T.
LEMMA CleanupKeeps ==
    ASSUME CacheInv, NEW S \in SUBSET Sinsts, NEW T, Cleanup(S), monitored' = monitored \ T,
           \A s \in Sinsts \ S : sinst[s].st # "free" => sinst[s].type \notin T
    PROVE  PoolsOK'
  <1> DEFINE new == [s \in Sinsts |-> IF s \in S THEN FreeSinst ELSE sinst[s]]
  <1>1. TypeOK /\ CallbackInv
    BY DEF CacheInv
  <1>2. FreeSinst \in SinstType
    BY DEF FreeSinst, SinstType
  <1>3. new \in [Sinsts -> SinstType]
    BY <1>1, <1>2 DEF TypeOK
  <1>4. Dropped(S, T, new)
    <2>1. \A s \in S : new[s] = FreeSinst
      OBVIOUS
    <2>2. \A s \in Sinsts \ S : new[s] = sinst[s]
      OBVIOUS
    <2>3. \A s \in Sinsts : SlotOK(sinst[s])
      BY <1>1 DEF CallbackInv, SlotsOK
    <2> HIDE DEF new
    <2> QED BY <1>3, <2>1, <2>2, <2>3 DEF Dropped
  <1>5. sinst' = new /\ view' = Forget(S)
    BY DEF Cleanup
  <1>6. CallbackInv' /\ view' \in [Services -> Infos \cup {None}]
    <2> HIDE DEF new
    <2> QED BY <1>1, <1>4, <1>5, DroppedKeepsCallbacks
  <1>7. \A a \in Arecs : arec[a] \in ArecType /\ ArecOK(arec[a])
    BY DEF CacheInv, TypeOK, ArecsOK
  <1>8. \A a \in Arecs : arec'[a] = Unlink(arec[a], a, S)
    BY DEF Cleanup
  <1>9. \A a \in Arecs : /\ Unlink(arec[a], a, S) \in ArecType
                         /\ ArecOK(Unlink(arec[a], a, S))
                         /\ Unlink(arec[a], a, S).st # "free" =>
                              /\ Unlink(arec[a], a, S).st = arec[a].st
                              /\ Unlink(arec[a], a, S).host = arec[a].host
    BY <1>7, UnlinkFacts
  <1>10. arec' \in [Arecs -> ArecType]
    BY <1>9 DEF Cleanup
  <1>11. ArecsOK' /\ OneArecPerHost'
    <2>1. \A a \in Arecs : /\ ArecOK(arec'[a])
                           /\ arec'[a].st # "free" => /\ arec[a].st # "free"
                                                      /\ arec'[a].host = arec[a].host
      BY <1>8, <1>9
    <2> QED BY <1>10, <2>1, ArecsKept
  <1> QED BY <1>3, <1>5, <1>6, <1>10, <1>11 DEF PoolsOK

\* A step that leaves the pools and the application alone, and unmonitors nothing.
LEMMA PoolsUnchanged ==
    ASSUME CacheInv, UNCHANGED <<sinst, arec, view>>, monitored \subseteq monitored'
    PROVE  PoolsOK'
  <1>1. CallbackInv'
    BY DEF CacheInv, CallbackInv, SlotsOK, OneSlotPerService, OnlyMonitored,
           ReportedAreCached, CleanIsReported
  <1> QED BY <1>1 DEF CacheInv, TypeOK, PoolsOK, ArecsOK, OneArecPerHost

\* query_launch, and the initial state.
Emptied == /\ sinst = [s \in Sinsts |-> FreeSinst] /\ arec = [a \in Arecs |-> FreeArec]
           /\ view = [v \in Services |-> None]

\* The pools that query_launch sets up satisfy the invariant.
LEMMA EmptyPools == Emptied => PoolsOK
  <1> SUFFICES ASSUME Emptied PROVE PoolsOK
    BY ZenonT(30)
  <1>1. FreeSinst \in SinstType /\ SlotOK(FreeSinst) /\ FreeSinst.st = "free"
    BY ZenonT(30) DEF FreeSinst, SinstType, SlotOK
  <1>2. FreeArec \in ArecType /\ ArecOK(FreeArec) /\ FreeArec.st = "free"
    BY DEF FreeArec, ArecType, ArecOK
  <1>3. CallbackInv
    BY <1>1 DEF Emptied, CallbackInv, SlotsOK, OneSlotPerService, OnlyMonitored,
                ReportedAreCached, CleanIsReported
  <1> QED BY <1>1, <1>2, <1>3 DEF Emptied, PoolsOK, ArecsOK, OneArecPerHost

\* reset_service_instance on a free slot.
LEMMA NewSlotKeeps ==
    ASSUME CacheInv, NEW t \in monitored, NEW n \in Names, Instances(t, n) = {},
           NEW s \in FreeSinsts, sinst' = [sinst EXCEPT ![s] = ResetSinst(t, n)],
           UNCHANGED <<arec, view, monitored>>
    PROVE  PoolsOK'
  <1>1. TypeOK /\ CallbackInv /\ t \in Types /\ s \in Sinsts /\ sinst[s].st = "free"
    BY DEF CacheInv, TypeOK, FreeSinsts
  <1>2. /\ ResetSinst(t, n) \in SinstType /\ SlotOK(ResetSinst(t, n))
        /\ ResetSinst(t, n).st = "init"
        /\ ResetSinst(t, n).type = t /\ ResetSinst(t, n).name = n
    BY <1>1, Zenon DEF ResetSinst, FreeSinst, SinstType, SlotOK
  <1>3. sinst' \in [Sinsts -> SinstType] /\ sinst'[s] = ResetSinst(t, n)
        /\ \A z \in Sinsts \ {s} : sinst'[z] = sinst[z]
    BY <1>1, <1>2, ZenonT(30) DEF TypeOK
  <1>4. SlotsOK' /\ OnlyMonitored' /\ CleanIsReported'
    BY <1>1, <1>2, <1>3 DEF CallbackInv, SlotsOK, OnlyMonitored, CleanIsReported
  <1>5. OneSlotPerService'
    BY <1>1, <1>2, <1>3, SMTT(60) DEF CallbackInv, OneSlotPerService, Instances
  <1>6. ReportedAreCached'
    BY <1>1, <1>2, <1>3, ZenonT(30) DEF CallbackInv, ReportedAreCached
  <1> QED BY <1>1, <1>3, <1>4, <1>5, <1>6
          DEF CacheInv, TypeOK, PoolsOK, CallbackInv, ArecsOK, OneArecPerHost

\* What a slot of the cache is, for the steps that look one up.
LEMMA FoundFacts ==
    ASSUME CacheInv, NEW n \in Names, NEW s \in Found(n)
    PROVE  /\ s \in Sinsts /\ sinst[s] \in SinstType /\ SlotOK(sinst[s])
           /\ sinst[s].st # "free"
  BY DEF Found, Instances, CacheInv, TypeOK, CallbackInv, SlotsOK

\* One slot s of the cache is updated to r.
LEMMA OneMarched ==
    ASSUME CacheInv, NEW s \in Sinsts, NEW c \in BOOLEAN, NEW r,
           sinst[s].st # "free", SlotMarched(sinst[s], r, c)
    PROVE  /\ [sinst EXCEPT ![s] = r] \in [Sinsts -> SinstType]
           /\ Marched({z \in {s} : c}, [sinst EXCEPT ![s] = r])
  <1> DEFINE new == [sinst EXCEPT ![s] = r]
  <1>1. new \in [Sinsts -> SinstType]
    BY DEF CacheInv, TypeOK, SlotMarched
  <1>2. new[s] = r /\ \A z \in Sinsts \ {s} : new[z] = sinst[z]
    BY DEF CacheInv, TypeOK
  <1>3. \A z \in Sinsts : SlotOK(sinst[z])
    BY DEF CacheInv, CallbackInv, SlotsOK
  <1> HIDE DEF new
  <1>4. \A z \in Sinsts : /\ SlotOK(new[z])
                          /\ new[z].type = sinst[z].type /\ new[z].name = sinst[z].name
    BY <1>2, <1>3 DEF SlotMarched
  <1>5. \A z \in Sinsts \ {y \in {s} : c} : new[z].st = sinst[z].st /\ Info(new[z]) = Info(sinst[z])
    BY <1>2 DEF SlotMarched
  <1>6. \A z \in {y \in {s} : c} : /\ sinst[z].st # "free"
                                   /\ Ready(new[z]) => new[z].st = "clean"
                                   /\ ~Ready(new[z]) => new[z].st = IF sinst[z].st = "clean"
                                                     THEN "updating" ELSE sinst[z].st
    BY <1>2, SMTT(60) DEF SlotMarched
  <1> QED BY <1>1, <1>4, <1>5, <1>6 DEF Marched, new

\* update_sinst on the slots C, with the arecs left as they are.
LEMMA MarchedKeeps ==
    ASSUME CacheInv, NEW C \in SUBSET Sinsts, NEW new, Marched(C, new),
           sinst' = new, view' = Report(C, new), UNCHANGED monitored,
           arec' \in [Arecs -> ArecType], ArecsOK', OneArecPerHost'
    PROVE  PoolsOK'
  <1>1. CallbackInv' /\ view' \in [Services -> Infos \cup {None}]
    BY MarchedKeepsCallbacks DEF CacheInv
  <1> QED BY <1>1 DEF PoolsOK, Marched

\* A received TXT record keeps the invariant on the pools (update_txt).
LEMMA RxTxtKeeps ==
    ASSUME CacheInv, NEW n \in Names, NEW x \in Txts, RxTxt(n, x)
    PROVE  PoolsOK'
  <1>1. PICK s \in Found(n) :
          LET changed == sinst[s].txt # x
              new == [sinst EXCEPT ![s] = March([@ EXCEPT !.txt = x], changed)]
          IN sinst' = new /\ view' = Report({z \in {s} : changed}, new)
    BY Zenon DEF RxTxt
  <1> DEFINE c == sinst[s].txt # x
             t == [sinst[s] EXCEPT !.txt = x]
             r == March(t, c)
  <1>2. s \in Sinsts /\ sinst[s] \in SinstType /\ SlotOK(sinst[s]) /\ sinst[s].st # "free"
    BY FoundFacts
  <1>3. sinst' = [sinst EXCEPT ![s] = r] /\ view' = Report({z \in {s} : c}, [sinst EXCEPT ![s] = r])
    BY <1>1, <1>2 DEF CacheInv, TypeOK
  <1>4. /\ t \in SinstType /\ t.st = sinst[s].st /\ t.flags = sinst[s].flags
        /\ t.type = sinst[s].type /\ t.name = sinst[s].name /\ t.arec = sinst[s].arec
        /\ t.ip = sinst[s].ip /\ t.port = sinst[s].port
        /\ ~c => t = sinst[s]
    BY <1>2 DEF SinstType
  <1> HIDE DEF t, c
  <1>5. c \in BOOLEAN
    BY ZenonT(30) DEF c
  <1>6. /\ r \in SinstType /\ Info(r) = Info(t) /\ r.flags = t.flags
        /\ r.type = t.type /\ r.name = t.name /\ r.arec = t.arec
        /\ ~c => r = t
        /\ c /\ Ready(t) => r.st = "clean"
        /\ c /\ ~Ready(t) => r.st = IF t.st = "clean" THEN "updating" ELSE t.st
    BY <1>4, <1>5, MarchFacts, ZenonT(30)
  <1> HIDE DEF r
  <1>7. SlotOK(r)
    BY <1>2, <1>4, <1>6 DEF SlotOK, Ready, Info
  <1>8. Marched({z \in {s} : c}, [sinst EXCEPT ![s] = r])
    <2>1. Ready(r) <=> Ready(t)
      BY <1>6, ZenonT(30) DEF Ready
    <2>2. SlotMarched(sinst[s], r, c)
      BY <1>4, <1>6, <1>7, <2>1 DEF SlotMarched
    <2> QED BY <1>2, <1>5, <2>2, OneMarched, Zenon
  <1>9. arec' \in [Arecs -> ArecType] /\ ArecsOK' /\ OneArecPerHost'
    BY DEF RxTxt, CacheInv, TypeOK, ArecsOK, OneArecPerHost
  <1>10. UNCHANGED monitored /\ {z \in {s} : c} \in SUBSET Sinsts
    BY <1>2 DEF RxTxt
  <1> QED BY <1>3, <1>8, <1>9, <1>10, MarchedKeeps, Zenon

\* So does an SRV record for whose target there is no arec (update_srv).
LEMMA RxSrvNoArecKeeps ==
    ASSUME CacheInv, NEW n \in Names, NEW p \in Ports, NEW h \in Hosts, RxSrvNoArec(n, p, h)
    PROVE  PoolsOK'
  <1>1. PICK s \in Found(n) :
          LET changed == sinst[s].port # p
              new == [sinst EXCEPT ![s] = March([GotSrv(@, p) EXCEPT !.arec = None], changed)]
          IN sinst' = new /\ view' = Report({z \in {s} : changed}, new)
    BY Zenon DEF RxSrvNoArec
  <1> DEFINE c == sinst[s].port # p
             g == GotSrv(sinst[s], p)
             t == [g EXCEPT !.arec = None]
             r == March(t, c)
  <1>2. s \in Sinsts /\ sinst[s] \in SinstType /\ SlotOK(sinst[s]) /\ sinst[s].st # "free"
    BY FoundFacts
  <1>3. sinst' = [sinst EXCEPT ![s] = r] /\ view' = Report({z \in {s} : c}, [sinst EXCEPT ![s] = r])
    BY <1>1, <1>2, ZenonT(30) DEF CacheInv, TypeOK
  <1> HIDE DEF g
  <1>4. /\ g \in SinstType /\ g.st = sinst[s].st /\ g.type = sinst[s].type
        /\ g.name = sinst[s].name /\ g.ip = sinst[s].ip /\ g.txt = sinst[s].txt
        /\ g.port = p /\ ("A" \in g.flags <=> "A" \in sinst[s].flags)
    BY <1>2, GotSrvFacts DEF g
  <1>5. /\ t \in SinstType /\ t.st = sinst[s].st /\ t.type = sinst[s].type
        /\ t.name = sinst[s].name /\ t.ip = sinst[s].ip /\ t.txt = sinst[s].txt
        /\ t.port = p /\ t.flags = g.flags /\ t.arec = None
    BY <1>4 DEF SinstType
  <1> HIDE DEF t, c
  <1>6. c \in BOOLEAN /\ (~c => Info(t) = Info(sinst[s]))
    BY <1>5, ZenonT(30) DEF c, Info
  <1>7. /\ r \in SinstType /\ Info(r) = Info(t) /\ r.flags = t.flags
        /\ r.type = t.type /\ r.name = t.name /\ r.arec = t.arec
        /\ ~c => r = t
        /\ c /\ Ready(t) => r.st = "clean"
        /\ c /\ ~Ready(t) => r.st = IF t.st = "clean" THEN "updating" ELSE t.st
    BY <1>5, <1>6, MarchFacts, ZenonT(30)
  <1> HIDE DEF r
  <1>8. SlotOK(r)
    BY <1>2, <1>4, <1>5, <1>7 DEF SlotOK, Ready, Info
  <1>9. Marched({z \in {s} : c}, [sinst EXCEPT ![s] = r])
    <2>1. Ready(r) <=> Ready(t)
      BY <1>7, ZenonT(30) DEF Ready
    <2>2. SlotMarched(sinst[s], r, c)
      BY <1>5, <1>6, <1>7, <1>8, <2>1, ZenonT(30) DEF SlotMarched
    <2> QED BY <1>2, <1>6, <2>2, OneMarched, Zenon
  <1>10. arec' \in [Arecs -> ArecType] /\ ArecsOK' /\ OneArecPerHost'
    BY DEF RxSrvNoArec, CacheInv, TypeOK, ArecsOK, OneArecPerHost
  <1>11. UNCHANGED monitored /\ {z \in {s} : c} \in SUBSET Sinsts
    BY <1>2, ZenonT(30) DEF RxSrvNoArec
  <1> QED BY <1>3, <1>9, <1>10, <1>11, MarchedKeeps, Zenon

\* The arec that update_srv gives to the host h: its own, or a free one.
LEMMA TargetFacts ==
    ASSUME CacheInv, NEW h \in Hosts, NEW a \in IF ArecsOf(h) # {} THEN ArecsOf(h) ELSE FreeArecs
    PROVE  LET ar == IF arec[a].st = "free" THEN NewArec(h) ELSE arec[a]
           IN /\ a \in Arecs /\ ar \in ArecType /\ ArecOK(ar)
              /\ ar.st # "free" /\ ar.host = h
              /\ arec[a].st = "free" => ArecsOf(h) = {}
              /\ arec[a].st # "free" => arec[a].host = h
              /\ ar.sinsts = arec[a].sinsts
  <1>1. a \in Arecs /\ arec[a] \in ArecType /\ ArecOK(arec[a])
    BY DEF ArecsOf, FreeArecs, CacheInv, TypeOK, ArecsOK
  <1>2. CASE ArecsOf(h) # {}
    BY <1>1, <1>2, ZenonT(30) DEF ArecsOf
  <1>3. CASE ArecsOf(h) = {}
    <2>1. arec[a].st = "free" /\ arec[a] = FreeArec
      BY <1>1, <1>3 DEF FreeArecs, ArecOK
    <2>2. NewArec(h) \in ArecType /\ ArecOK(NewArec(h)) /\ NewArec(h).st = "init"
          /\ NewArec(h).host = h /\ NewArec(h).sinsts = {}
      BY Zenon DEF NewArec, FreeArec, ArecType, ArecOK
    <2> QED BY <1>1, <1>3, <2>1, <2>2 DEF FreeArec
  <1> QED BY <1>2, <1>3

\* So does an SRV record whose target has an arec or gets one (update_srv, set_arec).
LEMMA RxSrvKeeps ==
    ASSUME CacheInv, NEW n \in Names, NEW p \in Ports, NEW h \in Hosts, RxSrv(n, p, h)
    PROVE  PoolsOK' \/ UNCHANGED <<sinst, arec, view>>
  <1> SUFFICES ASSUME ~UNCHANGED <<sinst, arec, view>> PROVE PoolsOK'
    OBVIOUS
  <1>1. PICK s \in Found(n), a \in IF ArecsOf(h) # {} THEN ArecsOf(h) ELSE FreeArecs :
         LET old == sinst[s]
             ar == IF arec[a].st = "free" THEN NewArec(h) ELSE arec[a]
             changed == old.port # p \/ Attached(old, a, ar)
             new == [sinst EXCEPT ![s] = March(Attach(GotSrv(@, p), a, ar), changed)]
         IN /\ sinst' = new
            /\ arec' = [b \in Arecs |->
                             IF b = a THEN [ar EXCEPT !.sinsts = @ \cup {s}]
                             ELSE IF b = old.arec THEN [arec[b] EXCEPT !.sinsts = @ \ {s}]
                             ELSE arec[b]]
            /\ view' = Report({z \in {s} : changed}, new)
    BY ZenonT(60) DEF RxSrv, Broken
  <1> DEFINE ar == IF arec[a].st = "free" THEN NewArec(h) ELSE arec[a]
             c == sinst[s].port # p \/ Attached(sinst[s], a, ar)
             r == March(Attach(GotSrv(sinst[s], p), a, ar), c)
  <1>2. s \in Sinsts /\ sinst[s] \in SinstType /\ SlotOK(sinst[s]) /\ sinst[s].st # "free"
    BY FoundFacts
  <1>3. sinst' = [sinst EXCEPT ![s] = r] /\ view' = Report({z \in {s} : c}, [sinst EXCEPT ![s] = r])
    BY <1>1, <1>2 DEF CacheInv, TypeOK
  <1>4. arec' = [b \in Arecs |-> IF b = a THEN [ar EXCEPT !.sinsts = @ \cup {s}]
                                 ELSE IF b = sinst[s].arec
                                      THEN [arec[b] EXCEPT !.sinsts = @ \ {s}]
                                      ELSE arec[b]]
    BY <1>1, ZenonT(30)
  <1>5. /\ a \in Arecs /\ ar \in ArecType /\ ArecOK(ar)
        /\ ar.st # "free" /\ ar.host = h
        /\ arec[a].st = "free" => ArecsOf(h) = {}
        /\ arec[a].st # "free" => arec[a].host = h
    BY TargetFacts, ZenonT(30)
  <1> HIDE DEF ar
  <1>6. c \in BOOLEAN /\ (c <=> sinst[s].port # p \/ Attached(sinst[s], a, ar))
    BY ZenonT(30) DEF Attached
  <1> HIDE DEF c
  <1>7. SlotMarched(sinst[s], r, c)
    BY <1>2, <1>5, <1>6, SrvSlotFacts
  <1> HIDE DEF r
  <1>8. Marched({z \in {s} : c}, [sinst EXCEPT ![s] = r])
    BY <1>2, <1>6, <1>7, OneMarched, ZenonT(60)
  <1>9. \A b \in Arecs : arec[b] \in ArecType /\ ArecOK(arec[b])
    BY ZenonT(30) DEF CacheInv, TypeOK, ArecsOK
  <1>10. \A b \in Arecs : /\ arec'[b] \in ArecType /\ ArecOK(arec'[b])
                          /\ b # a => arec'[b].st = arec[b].st /\ arec'[b].host = arec[b].host
    <2> TAKE b \in Arecs
    <2>1. CASE b = a
      BY <1>2, <1>4, <1>5, <2>1, ZenonT(30) DEF ArecType, ArecOK
    <2>2. CASE b # a /\ b = sinst[s].arec
      <3>1. arec'[b] = [arec[b] EXCEPT !.sinsts = @ \ {s}]
        BY <1>4, <2>2, Zenon
      <3>2. arec[b].st = "free" => arec'[b] = arec[b]
        <4> SUFFICES ASSUME arec[b].st = "free" PROVE arec'[b] = arec[b]
          OBVIOUS
        <4>1. arec[b] = FreeArec
          BY <1>9 DEF ArecOK
        <4>2. {} \ {s} = {}
          OBVIOUS
        <4> QED BY <3>1, <4>1, <4>2 DEF FreeArec
      <3> QED BY <1>9, <2>2, <3>1, <3>2 DEF ArecType, ArecOK
    <2>3. CASE b # a /\ b # sinst[s].arec
      BY <1>4, <1>9, <2>3
    <2> QED BY <2>1, <2>2, <2>3, ZenonT(30)
  <1>11. arec' \in [Arecs -> ArecType] /\ ArecsOK'
    BY <1>4, <1>10, Zenon DEF ArecsOK
  <1>12. OneArecPerHost'
    <2>1. arec'[a].host = h
      BY <1>4, <1>5, ZenonT(30) DEF ArecType
    <2>2. \A b \in Arecs : b # a /\ arec[b].st # "free" => arec[b].host # h
      BY <1>5 DEF ArecsOf, CacheInv, OneArecPerHost
    <2> QED BY <1>5, <1>10, <2>1, <2>2 DEF CacheInv, OneArecPerHost
  <1>13. UNCHANGED monitored /\ {z \in {s} : c} \in SUBSET Sinsts
    BY <1>2 DEF RxSrv
  <1> QED BY <1>3, <1>8, <1>11, <1>12, <1>13, MarchedKeeps, Zenon

\* So does an A record, which updates all instances on its host (set_ip).
LEMMA RxAKeeps ==
    ASSUME CacheInv, NEW h \in Hosts, NEW i \in Ips, RxA(h, i)
    PROVE  PoolsOK' \/ UNCHANGED <<sinst, arec, view>>
  <1> SUFFICES ASSUME ~UNCHANGED <<sinst, arec, view>> PROVE PoolsOK'
    BY Zenon
  <1>1. PICK a \in ArecsOf(h) :
         LET ar == [arec[a] EXCEPT !.st = "resolved", !.ip = i, !.pct = 10]
             S == IF arec[a].ip # i THEN arec[a].sinsts ELSE {}
             changed(s) == Attached(sinst[s], a, ar)
             new == [s \in Sinsts |->
                       IF s \in S THEN March(Attach(sinst[s], a, ar), changed(s))
                       ELSE sinst[s]]
         IN /\ \A s \in S : ~Dangling(s)
            /\ arec' = [arec EXCEPT ![a] = ar]
            /\ sinst' = new
            /\ view' = Report({s \in S : changed(s)}, new)
    BY Zenon DEF RxA, Broken
  <1> DEFINE ar == [arec[a] EXCEPT !.st = "resolved", !.ip = i, !.pct = 10]
             S == IF arec[a].ip # i THEN arec[a].sinsts ELSE {}
             changed(s) == Attached(sinst[s], a, ar)
             r(s) == March(Attach(sinst[s], a, ar), changed(s))
             new == [s \in Sinsts |-> IF s \in S THEN r(s) ELSE sinst[s]]
             C == {s \in S : changed(s)}
  <1>2. /\ \A s \in S : ~Dangling(s)
        /\ arec' = [arec EXCEPT ![a] = ar]
        /\ sinst' = new
        /\ view' = Report(C, new)
    BY <1>1
  <1>3. a \in Arecs /\ arec[a] \in ArecType /\ ArecOK(arec[a]) /\ arec[a].st # "free"
    BY DEF ArecsOf, CacheInv, TypeOK, ArecsOK
  <1>4. /\ ar \in ArecType /\ ar.st = "resolved" /\ ar.ip = i /\ ArecOK(ar)
        /\ ar.host = arec[a].host
    BY <1>3, Zenon DEF ArecType, ArecOK
  <1>5. S \in SUBSET Sinsts /\ C \in SUBSET Sinsts
    BY <1>3 DEF ArecType
  <1>6. \A s \in S : sinst[s].arec = a
    BY <1>2, <1>3 DEF Dangling
  <1>7. \A s \in Sinsts : sinst[s] \in SinstType /\ SlotOK(sinst[s])
    BY ZenonT(30) DEF CacheInv, TypeOK, CallbackInv, SlotsOK
  <1> HIDE DEF ar, S
  <1>8. ASSUME NEW s \in S
        PROVE  sinst[s].st # "free" /\ SlotMarched(sinst[s], r(s), changed(s))
    <2>1. changed(s) \in BOOLEAN /\ (changed(s) <=> Attached(sinst[s], a, ar))
      BY DEF Attached
    <2>2. s \in Sinsts /\ sinst[s] \in SinstType /\ SlotOK(sinst[s]) /\ sinst[s].arec = a
      BY <1>5, <1>6, <1>7
    <2>3. a \in Arecs /\ ar \in ArecType /\ ar.st = "resolved" /\ ar.ip \in Ips
      BY <1>3, <1>4, ZenonT(30)
    <2> HIDE DEF changed
    <2> QED BY <2>1, <2>2, <2>3, AddressSlotFacts, ZenonT(30)
  <1> HIDE DEF r, changed
  <1>9. /\ \A s \in S : new[s] = r(s)
        /\ \A s \in Sinsts \ S : new[s] = sinst[s]
        /\ new \in [Sinsts -> SinstType]
    BY <1>5, <1>7, <1>8, ZenonT(30) DEF SlotMarched
  <1> HIDE DEF new
  <1>10. \A s \in Sinsts : /\ SlotOK(new[s])
                           /\ new[s].type = sinst[s].type /\ new[s].name = sinst[s].name
    BY <1>7, <1>8, <1>9, ZenonT(30) DEF SlotMarched
  <1>11. \A s \in Sinsts \ C : new[s].st = sinst[s].st /\ Info(new[s]) = Info(sinst[s])
    BY <1>8, <1>9, ZenonT(30) DEF SlotMarched
  <1>12. \A s \in C : /\ sinst[s].st # "free"
                      /\ Ready(new[s]) => new[s].st = "clean"
                      /\ ~Ready(new[s]) => new[s].st = IF sinst[s].st = "clean"
                                                       THEN "updating" ELSE sinst[s].st
    BY <1>8, <1>9, ZenonT(30) DEF SlotMarched
  <1>13. Marched(C, new)
    BY <1>9, <1>10, <1>11, <1>12 DEF Marched
  <1>14. /\ arec' \in [Arecs -> ArecType] /\ arec'[a] = ar
         /\ \A b \in Arecs \ {a} : arec'[b] = arec[b]
    BY <1>2, <1>3, <1>4 DEF CacheInv, TypeOK
  <1>15. ArecsOK' /\ OneArecPerHost'
    <2>1. \A b \in Arecs : /\ ArecOK(arec'[b])
                           /\ arec'[b].st # "free" => /\ arec[b].st # "free"
                                                      /\ arec'[b].host = arec[b].host
      BY <1>3, <1>4, <1>14 DEF CacheInv, ArecsOK
    <2> QED BY <1>14, <2>1, ArecsKept
  <1>16. UNCHANGED monitored
    BY ZenonT(30) DEF RxA
  <1> HIDE DEF C
  <1> QED BY <1>2, <1>5, <1>13, <1>14, <1>15, <1>16, MarchedKeeps, ZenonT(30)

\* So does prepare_query, which evicts what was not answered and asks again.
LEMMA PrepareQueryKeeps ==
    ASSUME CacheInv, NEW dueA \in SUBSET (Arecs \ FreeArecs),
           NEW dueS \in SUBSET (Sinsts \ FreeSinsts), NEW asked \in SUBSET dueS,
           PrepareQuery(dueA, dueS, asked)
    PROVE  PoolsOK' \/ UNCHANGED <<sinst, arec, view>>
  <1> SUFFICES ASSUME ~UNCHANGED <<sinst, arec, view>> PROVE PoolsOK'
    OBVIOUS
  <1> DEFINE lost == UNION {arec[a].sinsts : a \in GivenUp(dueA)}
             S == lost \cup Expired(dueS)
             new == [s \in Sinsts |-> IF s \in S THEN FreeSinst
                                      ELSE IF s \in dueS THEN AskSrv(sinst[s], s \in asked)
                                      ELSE sinst[s]]
  <1>1. /\ sinst' = new
        /\ arec' = [a \in Arecs |-> Unlink(AskA(arec[a], a \in dueA), a, S)]
        /\ view' = Forget(S)
        /\ UNCHANGED monitored
    BY Zenon DEF PrepareQuery, Broken
  <1>2. \A s \in Sinsts : sinst[s] \in SinstType /\ SlotOK(sinst[s])
    BY DEF CacheInv, TypeOK, CallbackInv, SlotsOK
  <1>3. \A a \in Arecs : arec[a] \in ArecType /\ ArecOK(arec[a])
    BY DEF CacheInv, TypeOK, ArecsOK
  <1>4. S \in SUBSET Sinsts
    <2>1. \A a \in GivenUp(dueA) : arec[a].sinsts \subseteq Sinsts
      BY <1>3 DEF GivenUp, ArecType
    <2> QED BY <2>1 DEF Expired
  <1>5. \A s \in dueS : s \notin S => sinst[s].st # "free" /\ ~(sinst[s].pct < 5)
    BY ZenonT(30) DEF Expired, FreeSinsts
  <1> HIDE DEF S
  <1>6. ASSUME NEW s \in dueS, s \notin S
        PROVE  /\ AskSrv(sinst[s], s \in asked) \in SinstType
               /\ SlotOK(AskSrv(sinst[s], s \in asked))
               /\ AskSrv(sinst[s], s \in asked).type = sinst[s].type
               /\ AskSrv(sinst[s], s \in asked).name = sinst[s].name
               /\ Info(AskSrv(sinst[s], s \in asked)) = Info(sinst[s])
               /\ \/ AskSrv(sinst[s], s \in asked).st = sinst[s].st
                  \/ sinst[s].st = "clean" /\ AskSrv(sinst[s], s \in asked).st = "updating"
    BY <1>2, <1>5, <1>6, AskSrvFacts, ZenonT(30)
  <1>7. Dropped(S, {}, new)
    <2>1. FreeSinst \in SinstType
      BY ZenonT(30) DEF FreeSinst, SinstType
    <2>2. new \in [Sinsts -> SinstType]
      BY <1>2, <1>6, <2>1
    <2>3. \A s \in S : new[s] = FreeSinst
      BY <1>4
    <2>4. \A s \in Sinsts \ S : s \in dueS => new[s] = AskSrv(sinst[s], s \in asked)
      OBVIOUS
    <2>5. \A s \in Sinsts \ S : s \notin dueS => new[s] = sinst[s]
      BY ZenonT(30)
    <2> HIDE DEF new
    <2>6. ASSUME NEW s \in Sinsts \ S
          PROVE  /\ SlotOK(new[s])
                 /\ new[s].type = sinst[s].type /\ new[s].name = sinst[s].name
                 /\ Info(new[s]) = Info(sinst[s])
                 /\ \/ new[s].st = sinst[s].st
                    \/ sinst[s].st = "clean" /\ new[s].st = "updating"
      <3>1. CASE s \in dueS
        BY <3>1, <1>6, <2>4, ZenonT(30)
      <3>2. CASE s \notin dueS
        BY <3>2, <1>2, <2>5
      <3> QED BY <3>1, <3>2, ZenonT(30)
    <2> QED BY <2>2, <2>3, <2>6, ZenonT(30) DEF Dropped
  <1>8. CallbackInv' /\ view' \in [Services -> Infos \cup {None}]
    <2>1. monitored' = monitored \ {}
      BY <1>1, ZenonT(30)
    <2> HIDE DEF new
    <2> QED BY <1>1, <1>4, <1>7, <2>1, DroppedKeepsCallbacks DEF CacheInv
  <1>9. ASSUME NEW a \in Arecs
        PROVE  /\ Unlink(AskA(arec[a], a \in dueA), a, S) \in ArecType
               /\ ArecOK(Unlink(AskA(arec[a], a \in dueA), a, S))
               /\ Unlink(AskA(arec[a], a \in dueA), a, S).st # "free" =>
                    /\ arec[a].st # "free"
                    /\ Unlink(AskA(arec[a], a \in dueA), a, S).host = arec[a].host
    <2> DEFINE r == AskA(arec[a], a \in dueA)
    <2>1. r \in ArecType /\ ArecOK(r) /\ (r.st = "free" <=> arec[a].st = "free")
          /\ r.host = arec[a].host
      BY <1>3, AskAFacts, ZenonT(30)
    <2> HIDE DEF r
    <2>2. /\ Unlink(r, a, S) \in ArecType /\ ArecOK(Unlink(r, a, S))
          /\ Unlink(r, a, S).st # "free" => /\ Unlink(r, a, S).st = r.st
                                            /\ Unlink(r, a, S).host = r.host
      BY <2>1, UnlinkFacts
    <2> QED BY <2>1, <2>2, ZenonT(30) DEF r
  <1>10. arec' \in [Arecs -> ArecType]
    BY <1>1, <1>9
  <1>11. ArecsOK' /\ OneArecPerHost'
    <2>1. \A a \in Arecs : /\ ArecOK(arec'[a])
                           /\ arec'[a].st # "free" => /\ arec[a].st # "free"
                                                      /\ arec'[a].host = arec[a].host
      BY <1>1, <1>9
    <2> QED BY <1>10, <2>1, ArecsKept, ZenonT(30)
  <1> QED BY <1>1, <1>7, <1>8, <1>10, <1>11 DEF PoolsOK, Dropped
=============================================================================

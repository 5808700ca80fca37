------------------------- MODULE ServiceCacheProofs -------------------------
(* Proofs about the querier's cache, for any number of slots, names and hosts. *)
EXTENDS ServiceCacheSteps

-----------------------------------------------------------------------------
(* CacheInv is inductive. *)

\* The querier starts in a state of the invariant.
LEMMA InitCacheInv == Init => CacheInv
  <1> SUFFICES ASSUME Init PROVE CacheInv
    OBVIOUS
  <1>1. PoolsOK
    BY EmptyPools DEF Init, Emptied
  <1> QED BY <1>1 DEF Init, PoolsOK, CacheInv, TypeOK

\* A relaunch sets up the pools again (query_launch).
LEMMA LaunchKeeps == Launch => PoolsOK'
  <1>1. Launch => Emptied'
    BY DEF Launch, Emptied
  <1> QED BY <1>1, EmptyPools, PTL

\* No step of the querier changes the cache, its arecs and what the application
\* knows other than together.
LEMMA NextPools ==
    ASSUME CacheInv, Next
    PROVE  \/ PoolsOK'
           \/ UNCHANGED <<sinst, arec, view>> /\ monitored \subseteq monitored'
  <1>1. ASSUME NEW t \in Types, Monitor(t)
        PROVE  UNCHANGED <<sinst, arec, view>> /\ monitored \subseteq monitored'
    BY <1>1 DEF Monitor
  <1>2. ASSUME NEW T \in SUBSET Types, Unmonitor(T)
        PROVE  PoolsOK'
    <2> DEFINE S == {s \in Sinsts : sinst[s].st # "free" /\ sinst[s].type \in T \cap monitored}
    <2>1. Cleanup(S) /\ monitored' = monitored \ T
      BY <1>2 DEF Unmonitor
    <2>2. \A s \in Sinsts \ S : sinst[s].st # "free" => sinst[s].type \notin T
      BY DEF CacheInv, CallbackInv, OnlyMonitored
    <2> QED BY <2>1, <2>2, CleanupKeeps
  <1>3. ASSUME NEW S \in SUBSET Sinsts, Cleanup(S), UNCHANGED monitored
        PROVE  PoolsOK'
    <2>1. PICK T : T = {}
      BY Zenon
    <2>2. monitored' = monitored \ T /\ \A s \in Sinsts : sinst[s].type \notin T
      BY <1>3, <2>1
    <2> QED BY <1>3, <2>2, CleanupKeeps
  <1>4. Launch => PoolsOK'
    BY LaunchKeeps
  <1>5. ASSUME NEW t \in Types, NEW n \in Names, RxPtrGoodbye(t, n)
        PROVE  PoolsOK'
    <2>1. Instances(t, n) \in SUBSET Sinsts
      BY DEF Instances
    <2> QED BY <1>3, <1>5, <2>1 DEF RxPtrGoodbye
  <1>6. ASSUME NEW t \in Types, NEW n \in Names, RxPtrNew(t, n)
        PROVE  PoolsOK' \/ (UNCHANGED <<sinst, arec, view>> /\ monitored \subseteq monitored')
    BY <1>6, NewSlotKeeps DEF RxPtrNew, Broken
  <1>7. ASSUME NEW n \in Names, RxSrvGoodbye(n)
        PROVE  PoolsOK'
    <2>1. Found(n) \in SUBSET Sinsts
      BY DEF Found, Instances
    <2> QED BY <1>3, <1>7, <2>1 DEF RxSrvGoodbye
  <1>8. ASSUME NEW h \in Hosts, RxAGoodbye(h)
        PROVE  PoolsOK' \/ (UNCHANGED <<sinst, arec, view>> /\ monitored \subseteq monitored')
    <2>1. \A a \in ArecsOf(h) : arec[a].sinsts \in SUBSET Sinsts
      BY DEF ArecsOf, CacheInv, TypeOK, ArecType
    <2> QED BY <1>3, <1>8, <2>1 DEF RxAGoodbye, Broken
  <1>9. ASSUME Control
        PROVE  PoolsOK' \/ (UNCHANGED <<sinst, arec, view>> /\ monitored \subseteq monitored')
    <2>1. CASE \E t \in Types : Monitor(t) \/ Unmonitor({t})
      BY <2>1, <1>1, <1>2
    <2>2. CASE Unmonitor(Types)
      BY <2>2, <1>2
    <2>3. CASE Halt \/ DeleteThread \/ RecvFails
      BY <2>3 DEF Halt, DeleteThread, RecvFails
    <2> QED BY <1>9, <1>4, <2>1, <2>2, <2>3 DEF Control
  <1>10. ASSUME Receive
         PROVE  PoolsOK' \/ (UNCHANGED <<sinst, arec, view>> /\ monitored \subseteq monitored')
    <2>1. ASSUME NEW t \in Types, NEW n \in Names, RxPtrOverflow(t, n)
          PROVE  UNCHANGED <<sinst, arec, view>> /\ monitored \subseteq monitored'
      BY <2>1 DEF RxPtrOverflow
    <2>2. ASSUME NEW n \in Names, NEW p \in Ports, NEW h \in Hosts, RxSrv(n, p, h)
          PROVE  PoolsOK' \/ (UNCHANGED <<sinst, arec, view>> /\ monitored \subseteq monitored')
      BY <2>2, RxSrvKeeps, Zenon DEF RxSrv
    <2>3. ASSUME NEW h \in Hosts, NEW i \in Ips, RxA(h, i)
          PROVE  PoolsOK' \/ (UNCHANGED <<sinst, arec, view>> /\ monitored \subseteq monitored')
      BY <2>3, RxAKeeps, Zenon DEF RxA
    <2>4. ASSUME NEW n \in Names, NEW x \in Txts, RxTxt(n, x) PROVE PoolsOK'
      BY <2>4, RxTxtKeeps
    <2>5. ASSUME NEW n \in Names, NEW p \in Ports, NEW h \in Hosts, RxSrvNoArec(n, p, h)
          PROVE  PoolsOK'
      BY <2>5, RxSrvNoArecKeeps
    <2> QED BY <1>5, <1>6, <1>7, <1>8, <1>10, <2>1, <2>2, <2>3, <2>4, <2>5, ZenonT(30) DEF Receive
  <1>11. ASSUME Refresh
         PROVE  PoolsOK' \/ (UNCHANGED <<sinst, arec, view>> /\ monitored \subseteq monitored')
    BY <1>11, PrepareQueryKeeps, Zenon DEF Refresh, PrepareQuery
  <1> QED BY <1>9, <1>10, <1>11 DEF Next

\* The rest of the thread's state keeps its type.
LEMMA NextScalars ==
    ASSUME TypeOK, Next
    PROVE  /\ enabled' \in BOOLEAN /\ fault' \in {"none", "assert", "corrupt"}
           /\ stage' \in 0 .. 5 /\ monitored' \subseteq Types /\ eaten' \subseteq Names
  <1> DEFINE Goal == /\ enabled' \in BOOLEAN /\ fault' \in {"none", "assert", "corrupt"}
                     /\ stage' \in 0 .. 5 /\ monitored' \subseteq Types
                     /\ eaten' \subseteq Names
  <1>1. ASSUME Control PROVE Goal
    <2>1. ASSUME NEW t \in Types, Monitor(t) PROVE Goal
      BY <2>1 DEF TypeOK, Monitor, AtCtrl
    <2>2. ASSUME NEW T \in SUBSET Types, Unmonitor(T) PROVE Goal
      BY <2>2 DEF TypeOK, Unmonitor, AtCtrl
    <2>3. CASE Halt \/ RecvFails
      <3>1. enabled' \in BOOLEAN
        BY <2>3, Zenon DEF Halt, RecvFails, TypeOK
      <3>2. stage' \in {0, 1} /\ UNCHANGED <<monitored, eaten, fault>>
        BY <2>3 DEF Halt, RecvFails, AtCtrl
      <3> QED BY <3>1, <3>2 DEF TypeOK
    <2>4. CASE DeleteThread
      <3>1. enabled' \in BOOLEAN
        BY <2>4, Zenon DEF DeleteThread
      <3>2. stage' = 0 /\ fault' = "none" /\ UNCHANGED <<monitored, eaten>>
        BY <2>4 DEF DeleteThread
      <3> QED BY <3>1, <3>2 DEF TypeOK
    <2>5. CASE Launch
      <3>1. enabled' \in BOOLEAN
        BY <2>5, Zenon DEF Launch
      <3>2. monitored' = {} /\ eaten' = {} /\ UNCHANGED <<stage, fault>>
        BY <2>5 DEF Launch
      <3> QED BY <3>1, <3>2 DEF TypeOK
    <2> QED BY <1>1, <2>1, <2>2, <2>3, <2>4, <2>5, Zenon DEF Control
  <1>2. ASSUME Receive PROVE Goal
    <2>1. ASSUME NEW t \in Types, NEW n \in Names,
                 RxPtrGoodbye(t, n) \/ RxPtrNew(t, n) \/ RxPtrOverflow(t, n)
          PROVE  Goal
      BY <2>1 DEF TypeOK, Receiving, RxPtrGoodbye, RxPtrNew, RxPtrOverflow, Broken
    <2>2. ASSUME NEW n \in Names, NEW x \in Txts, RxTxt(n, x) PROVE Goal
      BY <2>2 DEF TypeOK, Receiving, RxTxt
    <2>3. ASSUME NEW n \in Names, RxSrvGoodbye(n) PROVE Goal
      BY <2>3 DEF TypeOK, Receiving, RxSrvGoodbye
    <2>4. ASSUME NEW n \in Names, NEW p \in Ports, NEW h \in Hosts,
                 RxSrv(n, p, h) \/ RxSrvNoArec(n, p, h)
          PROVE  Goal
      <3>1. fault' \in {fault, "corrupt"} /\ UNCHANGED <<enabled, monitored, eaten>> /\ stage' = 4
        BY <2>4, Zenon DEF Receiving, RxSrv, RxSrvNoArec, Broken
      <3> QED BY <3>1 DEF TypeOK
    <2>5. ASSUME NEW h \in Hosts, RxAGoodbye(h) PROVE Goal
      BY <2>5, SMTT(30) DEF TypeOK, Receiving, RxAGoodbye, Broken, EvictFault
    <2>6. ASSUME NEW h \in Hosts, NEW i \in Ips, RxA(h, i) PROVE Goal
      <3>1. fault' \in {fault, "corrupt"} /\ UNCHANGED <<enabled, monitored, eaten>> /\ stage' = 5
        BY <2>6 DEF Receiving, RxA, Broken
      <3> QED BY <3>1 DEF TypeOK
    <2> QED BY <1>2, <2>1, <2>2, <2>3, <2>4, <2>5, <2>6 DEF Receive
  <1>3. ASSUME Refresh PROVE Goal
    BY <1>3, SMTT(30) DEF TypeOK, Refresh, PrepareQuery, Broken, EvictFault
  <1> QED BY <1>1, <1>2, <1>3 DEF Next

\* The invariant is inductive: every step of do_querier and of its callers keeps it.
LEMMA NextCacheInv == CacheInv /\ [Next]_vars => CacheInv'
  <1>1. ASSUME CacheInv, Next PROVE CacheInv'
    <2>1. PoolsOK'
      BY <1>1, NextPools, PoolsUnchanged
    <2>2. /\ enabled' \in BOOLEAN /\ fault' \in {"none", "assert", "corrupt"}
          /\ stage' \in 0 .. 5 /\ monitored' \subseteq Types /\ eaten' \subseteq Names
      BY <1>1, NextScalars DEF CacheInv
    <2> QED BY <2>1, <2>2 DEF PoolsOK, CacheInv, TypeOK
  <1>2. ASSUME CacheInv, UNCHANGED vars PROVE CacheInv'
    <2>1. PoolsOK'
      BY <1>2, PoolsUnchanged DEF vars
    <2> QED BY <1>2, <2>1 DEF vars, PoolsOK, CacheInv, TypeOK
  <1> QED BY <1>1, <1>2

-----------------------------------------------------------------------------
(* The theorems. *)

\* The querier's state never leaves its type.
THEOREM TypeCorrect == Spec => []TypeOK
  <1>1. CacheInv => TypeOK
    BY DEF CacheInv
  <1> QED BY <1>1, InitCacheInv, NextCacheInv, PTL DEF Spec

\* find_service_instance and find_arec never have a choice: no sequence of
\* packets, timeouts and control messages caches a service or a host twice.
THEOREM NoDuplicatesHolds == Spec => []NoDuplicates
  <1>1. CacheInv => NoDuplicates
    BY DEF CacheInv, CallbackInv, NoDuplicates
  <1> QED BY <1>1, InitCacheInv, NextCacheInv, PTL DEF Spec

\* DISCOVERED and DISAPPEARED alternate for every service: the application
\* knows of a service exactly while the cache holds it as CLEAN or UPDATING.
THEOREM CallbacksPaired == Spec => []ReportedAreCached
  <1>1. CacheInv => ReportedAreCached
    BY DEF CacheInv, CallbackInv
  <1> QED BY <1>1, InitCacheInv, NextCacheInv, PTL DEF Spec

\* The application's knowledge of a CLEAN service is the cache's.
THEOREM CleanReported == Spec => []CleanIsReported
  <1>1. CacheInv => CleanIsReported
    BY DEF CacheInv, CallbackInv
  <1> QED BY <1>1, InitCacheInv, NextCacheInv, PTL DEF Spec

\* A service with its SRV and A in hand is never left unreported in INIT.
THEOREM CompleteDiscovered == Spec => []CompleteIsDiscovered
  <1>1. CacheInv => CompleteIsDiscovered
    BY DEF CacheInv, CallbackInv, SlotsOK, SlotOK, CompleteIsDiscovered, Ready
  <1> QED BY <1>1, InitCacheInv, NextCacheInv, PTL DEF Spec

\* Nothing of an unmonitored type stays in the cache.
THEOREM OnlyMonitoredHolds == Spec => []OnlyMonitored
  <1>1. CacheInv => OnlyMonitored
    BY DEF CacheInv, CallbackInv
  <1> QED BY <1>1, InitCacheInv, NextCacheInv, PTL DEF Spec

-----------------------------------------------------------------------------
(* The cache implements the browsing interface of mdns.h. *)

\* The interface counts as the cache does.
LEMMA SameCardinality == ASSUME NEW S PROVE Browse!Cardinality(S) = Cardinality(S)
  BY DEF Browse!Cardinality, Cardinality

\* No more services are known to the application than there are slots.
LEMMA KnownBound ==
    ASSUME CacheInv
    PROVE  Cardinality(Browse!Known(view)) <= Cardinality(Sinsts)
  <1> DEFINE K == Browse!Known(view)
             S == {s \in Sinsts : sinst[s].st \in {"clean", "updating"}}
             f == [s \in S |-> <<sinst[s].type, sinst[s].name>>]
  <1>1. K = {v \in Services : view[v] # None}
    BY DEF Browse!Known, Browse!Services, Services
  <1>2. \A s \in S : f[s] \in K
    <2>1. \A s \in S : f[s] \in Services
      BY DEF CacheInv, CallbackInv, SlotsOK, SlotOK, Services
    <2> QED BY <1>1, <2>1 DEF CacheInv, CallbackInv, ReportedAreCached
  <1>3. \A v \in K : \E s \in S : f[s] = v
    BY <1>1 DEF CacheInv, CallbackInv, ReportedAreCached
  <1>4. f \in Surjection(S, K)
    BY <1>2, <1>3, ZenonT(60) DEF Surjection
  <1>5. IsFiniteSet(S) /\ Cardinality(S) <= Cardinality(Sinsts)
    BY CacheAssumption, FS_Subset
  <1>6. IsFiniteSet(K) /\ Cardinality(K) <= Cardinality(S)
    BY <1>4, <1>5, FS_Surjection
  <1>7. Cardinality(K) \in Nat /\ Cardinality(S) \in Nat /\ Cardinality(Sinsts) \in Nat
    BY <1>5, <1>6, CacheAssumption, FS_CardinalityType
  <1> QED BY <1>5, <1>6, <1>7

\* The service of a known view is one of a monitored type.
LEMMA KnownMonitored ==
    ASSUME CacheInv, NEW v \in Services, view[v] # None
    PROVE  v[1] \in monitored
  <1>1. PICK s \in Sinsts : /\ sinst[s].st \in {"clean", "updating"}
                            /\ <<sinst[s].type, sinst[s].name>> = v
    BY DEF CacheInv, CallbackInv, ReportedAreCached
  <1>2. v[1] = sinst[s].type
    BY <1>1
  <1> QED BY <1>1, <1>2 DEF CacheInv, CallbackInv, OnlyMonitored

\* cleanup_sinst on any slots: MDNS_DISAPPEARED for those that were known.
LEMMA ForgetIsDisappeared ==
    ASSUME CacheInv, NEW S, view' = Forget(S), monitored' = monitored
    PROVE  Browse!Next
  <1> DEFINE V == {v \in Services : view[v] # None /\ view'[v] = None}
  <1>1. \A v \in V : v[1] \in monitored /\ view[v] # None
    BY KnownMonitored
  <1>2. \A v \in Services : view'[v] = IF v \in V THEN None ELSE view[v]
    BY DEF Forget
  <1>3. view' = [v \in Services |-> IF v \in V THEN None ELSE view[v]]
    BY <1>2 DEF Forget
  <1>4. Browse!Disappeared(V)
    BY <1>1, <1>3 DEF Browse!Disappeared, Browse!Services, Services
  <1> QED BY <1>4 DEF Browse!Next, Browse!Services, Services

\* update_sinst on the slots C: MDNS_DISCOVERED or MDNS_UPDATED for those that
\* are ready, with an address and a port.
LEMMA ReportIsReported ==
    ASSUME CacheInv, CacheInv', NEW C \in SUBSET Sinsts, view' = Report(C, sinst'),
           monitored' = monitored
    PROVE  Browse!Next
  <1> DEFINE told(v) == {s \in C : Ready(sinst'[s]) /\ v = <<sinst'[s].type, sinst'[s].name>>}
             V == {v \in Services : told(v) # {}}
  <1>1. view' = [v \in Services |-> IF told(v) # {}
                                    THEN Info(sinst'[CHOOSE s \in told(v) : TRUE])
                                    ELSE view[v]]
    BY DEF Report
  <1>2. ASSUME NEW v \in V
        PROVE  v[1] \in monitored /\ view'[v] \in Browse!Complete
    <2>1. PICK s \in told(v) : view'[v] = Info(sinst'[s])
      BY <1>1
    <2>2. s \in Sinsts /\ sinst'[s] \in SinstType /\ SlotOK(sinst'[s])
      BY DEF CacheInv, TypeOK, CallbackInv, SlotsOK
    <2>3. "SRV" \in sinst'[s].flags /\ "A" \in sinst'[s].flags
      BY <2>1 DEF Ready
    <2>4. sinst'[s].st # "free"
      BY <2>2, <2>3 DEF SlotOK, FreeSinst
    <2>5. v[1] = sinst'[s].type
      BY <2>1
    <2>6. v[1] \in monitored
      BY <2>2, <2>4, <2>5 DEF CacheInv, CallbackInv, OnlyMonitored
    <2>7. Info(sinst'[s]) \in Browse!Complete
      BY <2>2, <2>3 DEF SlotOK, SinstType, Info, Browse!Complete
    <2> QED BY <2>1, <2>6, <2>7
  <1>3. view' = [v \in Services |-> IF v \in V THEN view'[v] ELSE view[v]]
    BY <1>1
  <1>4. Cardinality(Browse!Known(view')) <= Cardinality(Sinsts)
    <2>1. (Cardinality(Browse!Known(view)) <= Cardinality(Sinsts))'
      BY KnownBound, PTL
    <2> QED BY <2>1 DEF Browse!Known, Browse!Services
  <1> HIDE DEF V
  <1>5. Browse!Reported(V)
    BY <1>2, <1>3, <1>4, SameCardinality DEF Browse!Reported, Browse!Services, Services
  <1>6. V \in SUBSET Browse!Services
    BY DEF V, Browse!Services, Services
  <1> QED BY <1>5, <1>6 DEF Browse!Next

\* mdns_query_unmonitor: the services of the types T are forgotten, silently.
LEMMA UnmonitorIsUnmonitor ==
    ASSUME CacheInv, NEW T \in SUBSET Types, Unmonitor(T)
    PROVE  Browse!Unmonitor(T)
  <1> DEFINE S == {s \in Sinsts : sinst[s].st # "free" /\ sinst[s].type \in T \cap monitored}
  <1>1. monitored' = monitored \ T /\ view' = Forget(S)
    BY DEF Unmonitor, Cleanup
  <1>2. ASSUME NEW v \in Services
        PROVE  view'[v] = IF v[1] \in T THEN None ELSE view[v]
    <2>1. CASE v[1] \in T /\ view[v] # None
      <3>1. PICK s \in Sinsts : /\ sinst[s].st \in {"clean", "updating"}
                                /\ <<sinst[s].type, sinst[s].name>> = v
        BY <2>1 DEF CacheInv, CallbackInv, ReportedAreCached
      <3>2. sinst[s].type = v[1]
        BY <3>1
      <3>3. s \in S
        BY <2>1, <3>1, <3>2 DEF CacheInv, CallbackInv, OnlyMonitored
      <3> QED BY <1>1, <2>1, <3>1, <3>3 DEF Forget
    <2>2. CASE v[1] \in T /\ view[v] = None
      BY <1>1, <2>2 DEF Forget
    <2>3. CASE v[1] \notin T
      <3>1. \A s \in S : v # <<sinst[s].type, sinst[s].name>>
        BY <2>3
      <3> QED BY <1>1, <2>3, <3>1 DEF Forget
    <2> QED BY <2>1, <2>2, <2>3
  <1>3. view' = [v \in Services |-> IF v[1] \in T THEN None ELSE view[v]]
    BY <1>1, <1>2 DEF Forget
  <1> QED BY <1>1, <1>3 DEF Browse!Unmonitor, Browse!Services, Services

\* Every step of the querier is a step of the interface, or silent.
LEMMA StepBrowse ==
    ASSUME CacheInv, CacheInv', [Next]_vars
    PROVE  [Browse!Next]_<<monitored, view>>
  <1> DEFINE Goal == Browse!Next \/ UNCHANGED <<monitored, view>>
  <1>1. ASSUME NEW t \in Types, Monitor(t) PROVE Goal
    BY <1>1, SameCardinality DEF Monitor, Browse!Next, Browse!Monitor
  <1>2. ASSUME NEW t \in Types, Unmonitor({t}) PROVE Goal
    <2>1. Browse!Unmonitor({t})
      BY <1>2, UnmonitorIsUnmonitor
    <2> QED BY <2>1, ZenonT(30) DEF Browse!Next
  <1>3. ASSUME Unmonitor(Types) PROVE Goal
    <2>1. Browse!Unmonitor(Types)
      BY <1>3, UnmonitorIsUnmonitor
    <2> QED BY <2>1 DEF Browse!Next
  <1>4. ASSUME Launch PROVE Goal
    BY <1>4 DEF Launch, Browse!Next, Browse!Relaunch, Browse!Services, Services
  <1>5. ASSUME Halt \/ DeleteThread \/ RecvFails PROVE Goal
    BY <1>5 DEF Halt, DeleteThread, RecvFails
  <1>6. ASSUME NEW S, Cleanup(S), monitored' = monitored PROVE Goal
    BY <1>6, ForgetIsDisappeared DEF Cleanup
  <1>7. ASSUME NEW C \in SUBSET Sinsts, view' = Report(C, sinst'), monitored' = monitored
        PROVE  Goal
    BY <1>7, ReportIsReported
  <1> HIDE DEF Goal
  <1>8. ASSUME UNCHANGED <<monitored, view>> PROVE Goal
    BY <1>8 DEF Goal
  <1>9. ASSUME Receive PROVE Goal
    <2>1. ASSUME NEW t \in Types, NEW n \in Names,
                 RxPtrGoodbye(t, n) \/ RxPtrNew(t, n) \/ RxPtrOverflow(t, n)
          PROVE  Goal
      BY <1>6, <1>8, <2>1 DEF RxPtrGoodbye, RxPtrNew, RxPtrOverflow, Broken
    <2>2. ASSUME NEW n \in Names, NEW x \in Txts, RxTxt(n, x) PROVE Goal
      <3>1. PICK s \in Found(n) : view' = Report({z \in {s} : sinst[s].txt # x}, sinst')
        BY <2>2, Zenon DEF RxTxt
      <3>2. {z \in {s} : sinst[s].txt # x} \in SUBSET Sinsts
        BY FoundFacts
      <3> QED BY <1>7, <2>2, <3>1, <3>2 DEF RxTxt
    <2>3. ASSUME NEW n \in Names, RxSrvGoodbye(n) PROVE Goal
      BY <1>6, <2>3 DEF RxSrvGoodbye
    <2>4. ASSUME NEW n \in Names, NEW p \in Ports, NEW h \in Hosts, RxSrv(n, p, h) PROVE Goal
      <3> DEFINE ar(a) == IF arec[a].st = "free" THEN NewArec(h) ELSE arec[a]
                 C(s, a) == {z \in {s} : sinst[s].port # p \/ Attached(sinst[s], a, ar(a))}
      <3>1. PICK s \in Found(n), a \in IF ArecsOf(h) # {} THEN ArecsOf(h) ELSE FreeArecs :
              LET old == sinst[s]
                  ar0 == IF arec[a].st = "free" THEN NewArec(h) ELSE arec[a]
                  changed == old.port # p \/ Attached(old, a, ar0)
                  new == [sinst EXCEPT ![s] = March(Attach(GotSrv(@, p), a, ar0), changed)]
              IN \/ sinst' = new /\ view' = Report({z \in {s} : changed}, new)
                 \/ view' = view
        BY <2>4, ZenonT(60) DEF RxSrv, Broken
      <3>2. C(s, a) \in SUBSET Sinsts
        BY FoundFacts
      <3>3. view' = Report(C(s, a), sinst') \/ view' = view
        BY <3>1
      <3> HIDE DEF C
      <3> QED BY <1>7, <1>8, <2>4, <3>2, <3>3 DEF RxSrv
    <2>5. ASSUME NEW n \in Names, NEW p \in Ports, NEW h \in Hosts, RxSrvNoArec(n, p, h)
          PROVE  Goal
      <3>1. PICK s \in Found(n) : view' = Report({z \in {s} : sinst[s].port # p}, sinst')
        BY <2>5, Zenon DEF RxSrvNoArec
      <3>2. {z \in {s} : sinst[s].port # p} \in SUBSET Sinsts
        BY FoundFacts
      <3> QED BY <1>7, <2>5, <3>1, <3>2 DEF RxSrvNoArec
    <2>6. ASSUME NEW h \in Hosts, RxAGoodbye(h) PROVE Goal
      BY <1>6, <1>8, <2>6 DEF RxAGoodbye, Broken
    <2>7. ASSUME NEW h \in Hosts, NEW i \in Ips, RxA(h, i) PROVE Goal
      <3>1. PICK a \in ArecsOf(h) :
              \/ \E C \in SUBSET arec[a].sinsts : view' = Report(C, sinst')
              \/ view' = view
        <4> DEFINE ar(a) == [arec[a] EXCEPT !.st = "resolved", !.ip = i, !.pct = 10]
                   S(a) == IF arec[a].ip # i THEN arec[a].sinsts ELSE {}
                   C(a) == {s \in S(a) : Attached(sinst[s], a, ar(a))}
        <4>1. PICK a \in ArecsOf(h) : view' = Report(C(a), sinst') \/ view' = view
          BY <2>7, Zenon DEF RxA, Broken
        <4>2. C(a) \in SUBSET arec[a].sinsts
          OBVIOUS
        <4> HIDE DEF C
        <4> QED BY <4>1, <4>2
      <3>2. arec[a].sinsts \subseteq Sinsts
        BY DEF ArecsOf, CacheInv, TypeOK, ArecType
      <3> QED BY <1>7, <1>8, <2>7, <3>1, <3>2 DEF RxA
    <2> QED BY <1>9, <2>1, <2>2, <2>3, <2>4, <2>5, <2>6, <2>7, ZenonT(30) DEF Receive
  <1>10. ASSUME Refresh PROVE Goal
    <2>1. monitored' = monitored /\ (view' = view \/ \E S : view' = Forget(S))
      BY <1>10, Zenon DEF Refresh, PrepareQuery, Broken
    <2> QED BY <1>8, <2>1, ForgetIsDisappeared DEF Goal
  <1>11. ASSUME UNCHANGED vars PROVE Goal
    BY <1>8, <1>11 DEF vars
  <1>12. Goal
    BY <1>1, <1>2, <1>3, <1>4, <1>5, <1>9, <1>10, <1>11, ZenonT(60) DEF Next, Control
  <1> QED BY <1>12 DEF Goal

\* Whatever packets arrive and timers expire, the callbacks are those that mdns.h
\* describes: the cache implements the browsing interface.
THEOREM CacheImplementsBrowseApi == Spec => ImplementsBrowseApi
  <1>1. Init => Browse!Init
    BY DEF Init, Browse!Init, Browse!Services, Services
  <1>2. CacheInv /\ CacheInv' /\ [Next]_vars => [Browse!Next]_<<monitored, view>>
    BY StepBrowse
  <1> QED BY <1>1, <1>2, InitCacheInv, NextCacheInv, PTL DEF Spec, ImplementsBrowseApi, Browse!Spec

-----------------------------------------------------------------------------
(* The cross references.  With fewer A slots than hosts they break, as the   *)
(* comment at RxSrvNoArec says; with as many, the following is inductive.    *)

LinkInv == CacheInv /\ XrefConsistent /\ AddressIsHosts /\ NoFault

\* A free slot names no arec.
LEMMA FreeNamesNoArec ==
    ASSUME CacheInv, NEW s \in Sinsts
    PROVE  sinst[s].st = "free" => sinst[s].arec = None
<1>1. SlotOK(sinst[s])
  BY DEF CacheInv, CallbackInv, SlotsOK
<1>2. FreeSinst.arec = None
  BY DEF FreeSinst
<1>3. sinst[s].st = "free" => sinst[s] = FreeSinst
  BY <1>1, Zenon DEF SlotOK
<1> QED  BY <1>2, <1>3

\* After a step, too, a free instance slot names no address record.
LEMMA FreeNamesNoArecAfter ==
    ASSUME CacheInv', NEW s \in Sinsts
    PROVE  sinst'[s].st = "free" => sinst'[s].arec = None
<1>1. SlotOK(sinst'[s])
  BY DEF CacheInv, CallbackInv, SlotsOK
<1>2. FreeSinst.arec = None
  BY DEF FreeSinst
<1>3. sinst'[s].st = "free" => sinst'[s] = FreeSinst
  BY <1>1, Zenon DEF SlotOK
<1> QED  BY <1>2, <1>3

\* With as many A slots as hosts, a host without an arec finds a free one.
LEMMA ArecLeft ==
    ASSUME CacheInv, Cardinality(Hosts) <= Cardinality(Arecs), NEW h \in Hosts
    PROVE  ArecsOf(h) # {} \/ FreeArecs # {}
  <1> SUFFICES ASSUME ArecsOf(h) = {}, FreeArecs = {} PROVE FALSE
    OBVIOUS
  <1> DEFINE f == [a \in Arecs |-> arec[a].host]
             T == Hosts \ {h}
  <1>1. \A a \in Arecs : arec[a].st # "free" /\ arec[a].host \in T
    BY DEF FreeArecs, ArecsOf, CacheInv, ArecsOK, ArecOK
  <1>2. \A a, b \in Arecs : arec[a].host = arec[b].host => a = b
    BY <1>1 DEF CacheInv, OneArecPerHost
  <1>3. f \in Injection(Arecs, T)
    BY <1>1, <1>2 DEF Injection, IsInjective
  <1>4. IsFiniteSet(T) /\ Cardinality(T) = Cardinality(Hosts) - 1
    BY CacheAssumption, FS_RemoveElement, ZenonT(60)
  <1>5. Cardinality(Arecs) <= Cardinality(T)
    BY <1>3, <1>4, FS_Injection
  <1>6. Cardinality(Arecs) \in Nat /\ Cardinality(Hosts) \in Nat
    BY CacheAssumption, FS_CardinalityType
  <1> QED BY <1>4, <1>5, <1>6

\* A step that lets the slots S go, if any, and keeps the other references
\* (cleanup_sinst, evict_arec; with S empty, a step that is about none).
LEMMA LinksKept ==
    ASSUME CacheInv, CacheInv', XrefConsistent, AddressIsHosts, NEW S \in SUBSET Sinsts,
           \A s \in S : sinst'[s].arec = None /\ "A" \notin sinst'[s].flags,
           \A s \in Sinsts \ S : /\ sinst'[s].arec = sinst[s].arec
                                 /\ sinst'[s].ip = sinst[s].ip
                                 /\ "A" \in sinst'[s].flags => "A" \in sinst[s].flags,
           \A a \in Arecs : /\ arec'[a].sinsts = arec[a].sinsts \ S
                            /\ arec'[a].st = "free" =>
                                 arec[a].st = "free" \/ arec[a].sinsts \subseteq S
                            /\ arec'[a].st # "free" => arec'[a].ip = arec[a].ip
    PROVE  XrefConsistent' /\ AddressIsHosts'
  <1>1. ASSUME NEW s \in Sinsts, sinst'[s].arec # None
        PROVE  /\ s \notin S /\ sinst[s].arec = sinst'[s].arec
               /\ sinst'[s].st # "free"
               /\ sinst'[s].arec \in Arecs
               /\ arec'[sinst'[s].arec].st # "free"
               /\ s \in arec'[sinst'[s].arec].sinsts
    <2>1. s \notin S /\ sinst[s].arec = sinst'[s].arec
      BY <1>1
    <2>2. sinst[s].arec \in Arecs
      BY <1>1, <2>1 DEF CacheInv, TypeOK, SinstType
    <2>3. arec[sinst[s].arec].st # "free" /\ s \in arec[sinst[s].arec].sinsts
      BY <1>1, <2>1, ZenonT(30) DEF XrefConsistent
    <2>4. sinst'[s].st # "free"
      BY <1>1 DEF CacheInv, CallbackInv, SlotsOK, SlotOK, FreeSinst
    <2> QED BY <2>1, <2>2, <2>3, <2>4
  <1>2. ASSUME NEW a \in Arecs, NEW s \in arec'[a].sinsts
        PROVE  sinst'[s].arec = a
    <2>1. s \in Sinsts /\ s \notin S /\ s \in arec[a].sinsts
      BY DEF CacheInv, TypeOK, ArecType
    <2> QED BY <2>1 DEF XrefConsistent
  <1>3. XrefConsistent'
    BY <1>1, <1>2 DEF XrefConsistent
  <1>4. ASSUME NEW s \in Sinsts, "A" \in sinst'[s].flags
        PROVE  /\ sinst'[s].arec # None /\ sinst'[s].ip # None
               /\ sinst'[s].ip = arec'[sinst'[s].arec].ip
    <2>1. s \notin S /\ sinst'[s].arec = sinst[s].arec /\ sinst'[s].ip = sinst[s].ip
          /\ "A" \in sinst[s].flags
      BY <1>4
    <2>2. sinst[s].arec # None /\ sinst[s].ip # None /\ sinst[s].ip = arec[sinst[s].arec].ip
      BY <2>1 DEF AddressIsHosts
    <2> QED BY <1>1, <2>1, <2>2
  <1> QED BY <1>3, <1>4 DEF AddressIsHosts

\* So for a step that changes neither pool.
LEMMA LinksUntouched ==
    ASSUME CacheInv, CacheInv', XrefConsistent, AddressIsHosts, UNCHANGED <<sinst, arec>>
    PROVE  XrefConsistent' /\ AddressIsHosts'
  BY DEF XrefConsistent, AddressIsHosts

\* While the references are consistent, no list holds a slot that is elsewhere.
LEMMA NothingDangles ==
    ASSUME CacheInv, XrefConsistent
    PROVE  /\ \A s \in Sinsts : ~Dangling(s)
           /\ \A a \in Arecs : Evictable(a)
  BY DEF XrefConsistent, Dangling, Evictable

\* The arec of a slot that is cleaned up loses this slot only.
LEMMA UnlinkedArec ==
    ASSUME CacheInv, XrefConsistent, NEW S \in SUBSET Sinsts, NEW a \in Arecs,
           NEW r \in ArecType, ArecOK(r), r.st = "free" <=> arec[a].st = "free",
           r.ip = arec[a].ip, r.sinsts = arec[a].sinsts
    PROVE  LET u == Unlink(r, a, S)
           IN /\ u.sinsts = arec[a].sinsts \ S
              /\ u.st = "free" => arec[a].st = "free" \/ arec[a].sinsts \subseteq S
              /\ u.st # "free" => u.ip = arec[a].ip
  <1> DEFINE u == Unlink(r, a, S)
  <1>1. /\ u.sinsts = r.sinsts \ {s \in r.sinsts : s \in S /\ sinst[s].arec = a}
        /\ u.st # "free" => u.ip = r.ip
        /\ u.st = "free" => u.sinsts = {}
    BY UnlinkFacts
  <1>2. \A s \in arec[a].sinsts : sinst[s].arec = a
    BY DEF XrefConsistent
  <1> HIDE DEF u
  <1>3. u.sinsts = arec[a].sinsts \ S
    BY <1>1, <1>2
  <1> QED BY <1>1, <1>3 DEF u

\* cleanup_sinst on the slots S.
LEMMA CleanupLinks ==
    ASSUME CacheInv, CacheInv', XrefConsistent, AddressIsHosts,
           NEW S \in SUBSET Sinsts, Cleanup(S)
    PROVE  XrefConsistent' /\ AddressIsHosts'
  <1>1. \A s \in S : sinst'[s].arec = None /\ "A" \notin sinst'[s].flags
    BY DEF Cleanup, FreeSinst
  <1>2. \A s \in Sinsts \ S : sinst'[s] = sinst[s]
    BY DEF Cleanup
  <1>3. ASSUME NEW a \in Arecs
        PROVE  /\ arec'[a].sinsts = arec[a].sinsts \ S
               /\ arec'[a].st = "free" => arec[a].st = "free" \/ arec[a].sinsts \subseteq S
               /\ arec'[a].st # "free" => arec'[a].ip = arec[a].ip
    <2>1. arec[a] \in ArecType /\ ArecOK(arec[a]) /\ arec'[a] = Unlink(arec[a], a, S)
      BY DEF CacheInv, TypeOK, ArecsOK, Cleanup
    <2>2. /\ Unlink(arec[a], a, S).sinsts = arec[a].sinsts \ S
          /\ Unlink(arec[a], a, S).st = "free" =>
               arec[a].st = "free" \/ arec[a].sinsts \subseteq S
          /\ Unlink(arec[a], a, S).st # "free" => Unlink(arec[a], a, S).ip = arec[a].ip
      BY <2>1, UnlinkedArec, Zenon
    <2> QED BY <2>1, <2>2
  <1> QED BY <1>1, <1>2, <1>3, LinksKept, ZenonT(30)

\* prepare_query lets the given-up arecs and the expired slots go.
LEMMA PrepareQueryLinks ==
    ASSUME LinkInv, CacheInv', NEW dueA \in SUBSET (Arecs \ FreeArecs),
           NEW dueS \in SUBSET (Sinsts \ FreeSinsts), NEW asked \in SUBSET dueS,
           PrepareQuery(dueA, dueS, asked)
    PROVE  XrefConsistent' /\ AddressIsHosts' /\ NoFault'
  <1> DEFINE lost == UNION {arec[a].sinsts : a \in GivenUp(dueA)}
             S == lost \cup Expired(dueS)
  <1>0. CacheInv /\ XrefConsistent /\ AddressIsHosts /\ fault = "none"
    BY DEF LinkInv, NoFault
  <1>1. \A a \in GivenUp(dueA) : Evictable(a)
    BY <1>0, NothingDangles DEF GivenUp
  <1>2. /\ sinst' = [s \in Sinsts |-> IF s \in S THEN FreeSinst
                                      ELSE IF s \in dueS THEN AskSrv(sinst[s], s \in asked)
                                      ELSE sinst[s]]
        /\ arec' = [a \in Arecs |-> Unlink(AskA(arec[a], a \in dueA), a, S)]
        /\ fault' = fault
    BY <1>1, Zenon DEF PrepareQuery
  <1>3. S \in SUBSET Sinsts
    <2>1. \A a \in GivenUp(dueA) : arec[a].sinsts \subseteq Sinsts
      BY <1>0 DEF GivenUp, CacheInv, TypeOK, ArecType
    <2> QED BY <2>1 DEF Expired
  <1>4. \A s \in dueS : s \notin S => sinst[s].st # "free" /\ ~(sinst[s].pct < 5)
    BY DEF Expired, FreeSinsts
  <1> HIDE DEF S
  <1>5. \A s \in S : sinst'[s].arec = None /\ "A" \notin sinst'[s].flags
    BY <1>2, <1>3 DEF FreeSinst
  <1>6. ASSUME NEW s \in Sinsts \ S
        PROVE  /\ sinst'[s].arec = sinst[s].arec
               /\ sinst'[s].ip = sinst[s].ip
               /\ "A" \in sinst'[s].flags => "A" \in sinst[s].flags
    <2>1. sinst[s] \in SinstType /\ SlotOK(sinst[s])
      BY <1>0, ZenonT(30) DEF CacheInv, TypeOK, CallbackInv, SlotsOK
    <2>2. CASE s \in dueS
      <3>1. sinst'[s] = AskSrv(sinst[s], s \in asked)
        BY <1>2, <2>2
      <3>2. /\ AskSrv(sinst[s], s \in asked).arec = sinst[s].arec
            /\ Info(AskSrv(sinst[s], s \in asked)) = Info(sinst[s])
            /\ "A" \in AskSrv(sinst[s], s \in asked).flags <=> "A" \in sinst[s].flags
        BY <1>4, <2>1, <2>2, AskSrvFacts, ZenonT(60)
      <3> QED BY <3>1, <3>2 DEF Info
    <2>3. CASE s \notin dueS
      BY <1>2, <2>3
    <2> QED BY <2>2, <2>3
  <1>7. ASSUME NEW a \in Arecs
        PROVE  /\ arec'[a].sinsts = arec[a].sinsts \ S
               /\ arec'[a].st = "free" => arec[a].st = "free" \/ arec[a].sinsts \subseteq S
               /\ arec'[a].st # "free" => arec'[a].ip = arec[a].ip
    <2> DEFINE r == AskA(arec[a], a \in dueA)
               u == Unlink(r, a, S)
    <2>1. arec[a] \in ArecType /\ ArecOK(arec[a])
      BY <1>0, ZenonT(30) DEF CacheInv, TypeOK, ArecsOK
    <2>2. /\ r \in ArecType /\ ArecOK(r) /\ (r.st = "free" <=> arec[a].st = "free")
          /\ r.ip = arec[a].ip /\ r.sinsts = arec[a].sinsts
      BY <2>1, AskAFacts
    <2>3. arec'[a] = u
      BY <1>2
    <2> HIDE DEF r
    <2>4. /\ u.sinsts = arec[a].sinsts \ S
          /\ u.st = "free" => arec[a].st = "free" \/ arec[a].sinsts \subseteq S
          /\ u.st # "free" => u.ip = arec[a].ip
      BY <1>0, <1>3, <2>2, UnlinkedArec, ZenonT(60)
    <2> HIDE DEF u
    <2> QED BY <2>3, <2>4
  <1>8. XrefConsistent' /\ AddressIsHosts'
    BY <1>0, <1>3, <1>5, <1>6, <1>7, LinksKept, ZenonT(60)
  <1> QED BY <1>0, <1>2, <1>8 DEF NoFault

\* set_arec moves a slot from the list of its former arec to that of its new one.
LEMMA RxSrvLinks ==
    ASSUME LinkInv, CacheInv', NEW n \in Names, NEW p \in Ports, NEW h \in Hosts,
           RxSrv(n, p, h)
    PROVE  XrefConsistent' /\ AddressIsHosts' /\ NoFault'
  <1>0. CacheInv /\ XrefConsistent /\ AddressIsHosts /\ fault = "none"
    BY DEF LinkInv, NoFault
  <1>1. PICK s \in Found(n), a \in IF ArecsOf(h) # {} THEN ArecsOf(h) ELSE FreeArecs :
         LET old == sinst[s]
             ar == IF arec[a].st = "free" THEN NewArec(h) ELSE arec[a]
             changed == old.port # p \/ Attached(old, a, ar)
             new == [sinst EXCEPT ![s] = March(Attach(GotSrv(@, p), a, ar), changed)]
         IN \/ /\ ~Dangling(s)
               /\ sinst' = new
               /\ arec' = [b \in Arecs |->
                             IF b = a THEN [ar EXCEPT !.sinsts = @ \cup {s}]
                             ELSE IF b = old.arec THEN [arec[b] EXCEPT !.sinsts = @ \ {s}]
                             ELSE arec[b]]
               /\ view' = Report({z \in {s} : changed}, new)
               /\ fault' = fault
            \/ Dangling(s) /\ Broken("corrupt")
    BY ZenonT(60) DEF RxSrv
  <1> DEFINE ar == IF arec[a].st = "free" THEN NewArec(h) ELSE arec[a]
             c == sinst[s].port # p \/ Attached(sinst[s], a, ar)
             g == GotSrv(sinst[s], p)
             t == Attach(g, a, ar)
             r == March(t, c)
  <1>2. s \in Sinsts /\ sinst[s] \in SinstType
    BY <1>0, FoundFacts
  <1>3. ~Dangling(s)
    BY <1>0, <1>2, NothingDangles
  <1>4. /\ sinst' = [sinst EXCEPT ![s] = r]
        /\ arec' = [b \in Arecs |-> IF b = a THEN [ar EXCEPT !.sinsts = @ \cup {s}]
                                    ELSE IF b = sinst[s].arec
                                         THEN [arec[b] EXCEPT !.sinsts = @ \ {s}]
                                         ELSE arec[b]]
        /\ fault' = fault
    BY <1>0, <1>1, <1>2, <1>3 DEF CacheInv, TypeOK
  <1>5. /\ a \in Arecs /\ ar \in ArecType /\ ArecOK(ar) /\ ar.st # "free"
        /\ ar.sinsts = arec[a].sinsts
        /\ arec[a].st # "free" => ar = arec[a]
    BY <1>0, TargetFacts, ZenonT(60)
  <1> HIDE DEF ar
  <1>6. c \in BOOLEAN
    BY DEF Attached
  <1> HIDE DEF c
  <1>7. g \in SinstType
    BY <1>2, GotSrvFacts
  <1> HIDE DEF g
  <1>8. /\ t \in SinstType /\ t.arec = a
        /\ "A" \in t.flags <=> ar.st = "resolved"
        /\ ar.st = "resolved" => t.ip = ar.ip
    <2> HIDE DEF t
    <2> QED  BY <1>5, <1>7, AttachFacts, ZenonT(60) DEF t
  <1> HIDE DEF t
  <1>9. r.arec = a /\ r.flags = t.flags /\ r.ip = t.ip
    BY <1>6, <1>8, MarchFacts, ZenonT(60) DEF Info
  <1> HIDE DEF r
  <1>10. sinst'[s] = r /\ \A z \in Sinsts \ {s} : sinst'[z] = sinst[z]
    BY <1>0, <1>2, <1>4 DEF CacheInv, TypeOK
  <1>11. /\ arec'[a].sinsts = arec[a].sinsts \cup {s}
         /\ arec'[a].st = ar.st /\ arec'[a].ip = ar.ip
    BY <1>4, <1>5 DEF ArecType
  <1>12. \A b \in Arecs \ {a} :
            /\ arec'[b].st = arec[b].st /\ arec'[b].ip = arec[b].ip
            /\ arec'[b].sinsts = IF b = sinst[s].arec THEN arec[b].sinsts \ {s}
                                 ELSE arec[b].sinsts
    <2>1. \A b \in Arecs : arec[b] \in ArecType
      BY <1>0 DEF CacheInv, TypeOK
    <2> QED BY <1>4, <2>1 DEF ArecType
  <1>13. ASSUME NEW z \in Sinsts, z # s, sinst[z].arec # None
         PROVE  /\ sinst[z].arec \in Arecs
                /\ arec'[sinst[z].arec].st # "free"
                /\ z \in arec'[sinst[z].arec].sinsts
                /\ arec'[sinst[z].arec].ip = arec[sinst[z].arec].ip
    <2> DEFINE b == sinst[z].arec
    <2>1. b \in Arecs /\ arec[b].st # "free" /\ z \in arec[b].sinsts
      BY <1>0, <1>13, ZenonT(60) DEF CacheInv, TypeOK, SinstType, XrefConsistent
    <2> HIDE DEF b
    <2>2. CASE b = a
      BY <1>5, <1>11, <2>1, <2>2, ZenonT(60) DEF b
    <2>3. CASE b # a
      BY <1>12, <1>13, <2>1, <2>3, ZenonT(60) DEF b
    <2> QED BY <2>2, <2>3, ZenonT(60)
  <1>14. \A b \in Arecs : s \in arec[b].sinsts => b = sinst[s].arec
    BY <1>0, ZenonT(30) DEF XrefConsistent
  <1>15. ASSUME NEW b \in Arecs, NEW z \in arec'[b].sinsts
         PROVE  sinst'[z].arec = b
    <2>1. CASE z = s
      <3>1. b = a
        BY <1>12, <1>14, <2>1, ZenonT(60)
      <3> QED BY <1>9, <1>10, <2>1, <3>1
    <2>2. CASE z # s
      <3>1. z \in arec[b].sinsts
        <4>1. CASE b = a
          BY <1>11, <1>15, <2>2, <4>1, ZenonT(30)
        <4>2. CASE b # a
          <5>1. arec'[b].sinsts \in {arec[b].sinsts \ {s}, arec[b].sinsts}
            BY <1>12, <4>2, ZenonT(60)
          <5> QED BY <1>15, <5>1
        <4> QED BY <4>1, <4>2
      <3>2. z \in Sinsts /\ sinst[z].arec = b
        BY <1>0, <3>1 DEF XrefConsistent, CacheInv, TypeOK, ArecType
      <3> QED BY <1>10, <2>2, <3>2, ZenonT(30)
    <2> QED BY <2>1, <2>2
  <1>16. \A z \in Sinsts : sinst'[z].arec # None => sinst'[z].st # "free"
    BY FreeNamesNoArecAfter
  <1>17. s \in arec'[a].sinsts /\ arec'[a].st # "free" /\ sinst'[s].arec = a
    BY <1>5, <1>9, <1>10, <1>11, ZenonT(60)
  <1>18. XrefConsistent'
    BY <1>10, <1>13, <1>15, <1>16, <1>17, ZenonT(30) DEF XrefConsistent
  <1>19. ASSUME NEW z \in Sinsts, "A" \in sinst'[z].flags
         PROVE  /\ sinst'[z].arec # None /\ sinst'[z].ip # None
                /\ sinst'[z].ip = arec'[sinst'[z].arec].ip
    <2>1. CASE z = s
      <3>1. ar.st = "resolved" /\ sinst'[z].ip = ar.ip /\ sinst'[z].arec = a
        BY <1>8, <1>9, <1>10, <1>19, <2>1, ZenonT(60)
      <3> QED BY <1>5, <1>11, <3>1, CacheAssumption DEF ArecOK
    <2>2. CASE z # s
      <3>1. /\ sinst'[z] = sinst[z]
            /\ sinst[z].arec # None /\ sinst[z].ip # None
            /\ sinst[z].ip = arec[sinst[z].arec].ip
        BY <1>0, <1>10, <1>19, <2>2, ZenonT(60) DEF AddressIsHosts
      <3> QED BY <1>13, <2>2, <3>1, ZenonT(60)
    <2> QED BY <2>1, <2>2, ZenonT(30)
  <1> QED BY <1>0, <1>4, <1>18, <1>19, ZenonT(60) DEF AddressIsHosts, NoFault

\* set_ip hands the new address to every slot on the list of the arec.
LEMMA RxALinks ==
    ASSUME LinkInv, CacheInv', NEW h \in Hosts, NEW i \in Ips, RxA(h, i)
    PROVE  XrefConsistent' /\ AddressIsHosts' /\ NoFault'
  <1>0. CacheInv /\ XrefConsistent /\ AddressIsHosts /\ fault = "none"
    BY DEF LinkInv, NoFault
  <1>1. PICK a \in ArecsOf(h) :
         LET ar == [arec[a] EXCEPT !.st = "resolved", !.ip = i, !.pct = 10]
             S == IF arec[a].ip # i THEN arec[a].sinsts ELSE {}
             changed(s) == Attached(sinst[s], a, ar)
             new == [s \in Sinsts |->
                       IF s \in S THEN March(Attach(sinst[s], a, ar), changed(s))
                       ELSE sinst[s]]
         IN \/ /\ \A s \in S : ~Dangling(s)
               /\ arec' = [arec EXCEPT ![a] = ar]
               /\ sinst' = new
               /\ view' = Report({s \in S : changed(s)}, new)
               /\ fault' = fault
            \/ (\E s \in S : Dangling(s)) /\ Broken("corrupt")
    BY Zenon DEF RxA
  <1> DEFINE ar == [arec[a] EXCEPT !.st = "resolved", !.ip = i, !.pct = 10]
             S == IF arec[a].ip # i THEN arec[a].sinsts ELSE {}
             changed(s) == Attached(sinst[s], a, ar)
             r(s) == March(Attach(sinst[s], a, ar), changed(s))
  <1>2. a \in Arecs /\ arec[a] \in ArecType /\ arec[a].st # "free"
    BY <1>0, ZenonT(30) DEF ArecsOf, CacheInv, TypeOK
  <1>3. S \subseteq Sinsts /\ \A s \in S : sinst[s].arec = a
    BY <1>0, <1>2 DEF ArecType, XrefConsistent
  <1>4. \A s \in S : ~Dangling(s)
    BY <1>0, <1>3, NothingDangles
  <1>5. /\ arec' = [arec EXCEPT ![a] = ar]
        /\ sinst' = [s \in Sinsts |-> IF s \in S THEN r(s) ELSE sinst[s]]
        /\ fault' = fault
    BY <1>1, <1>4
  <1>6. /\ ar \in ArecType /\ ar.st = "resolved" /\ ar.ip = i
        /\ ar.sinsts = arec[a].sinsts
    BY <1>2, Zenon DEF ArecType
  <1>7. arec[a].ip # i => S = arec[a].sinsts
    OBVIOUS
  <1> HIDE DEF ar, S
  <1>8. ASSUME NEW s \in S
        PROVE  sinst'[s].arec = a /\ sinst'[s].ip = i
    <2>1. s \in Sinsts /\ sinst[s] \in SinstType
      BY <1>0, <1>3, ZenonT(30) DEF CacheInv, TypeOK
    <2>2. /\ Attach(sinst[s], a, ar) \in SinstType /\ Attach(sinst[s], a, ar).arec = a
          /\ Attach(sinst[s], a, ar).ip = i
      BY <1>2, <1>6, <2>1, AttachFacts
    <2>3. changed(s) \in BOOLEAN
      BY DEF Attached
    <2> HIDE DEF changed
    <2>4. r(s).arec = a /\ r(s).ip = i
      BY <2>2, <2>3, MarchFacts, ZenonT(60) DEF Info
    <2> HIDE DEF r
    <2> QED BY <1>5, <2>1, <2>4
  <1> HIDE DEF r
  <1>9. \A s \in Sinsts \ S : sinst'[s] = sinst[s]
    BY <1>5
  <1>10. \A s \in Sinsts : sinst'[s].arec = sinst[s].arec
    BY <1>3, <1>8, <1>9
  <1>11. arec'[a] = ar /\ \A b \in Arecs \ {a} : arec'[b] = arec[b]
    BY <1>0, <1>2, <1>5 DEF CacheInv, TypeOK
  <1>12. \A b \in Arecs : /\ arec'[b].sinsts = arec[b].sinsts
                          /\ arec[b].st # "free" => arec'[b].st # "free"
    BY <1>6, <1>11, ZenonT(30)
  <1>13. \A s \in Sinsts : sinst'[s].arec # None => sinst'[s].st # "free"
    BY FreeNamesNoArecAfter
  <1>14. \A s \in Sinsts : sinst[s].arec # None => sinst[s].arec \in Arecs
    BY <1>0 DEF CacheInv, TypeOK, SinstType
  <1>15. \A b \in Arecs : arec[b].sinsts \subseteq Sinsts
    BY <1>0, ZenonT(30) DEF CacheInv, TypeOK, ArecType
  <1>16. XrefConsistent'
    BY <1>0, <1>10, <1>12, <1>13, <1>14, <1>15, ZenonT(30) DEF XrefConsistent
  <1>17. ASSUME NEW s \in Sinsts, "A" \in sinst'[s].flags
         PROVE  /\ sinst'[s].arec # None /\ sinst'[s].ip # None
                /\ sinst'[s].ip = arec'[sinst'[s].arec].ip
    <2>1. CASE s \in S
      BY <1>2, <1>6, <1>8, <1>11, <2>1, CacheAssumption, ZenonT(30)
    <2>2. CASE s \notin S
      <3>1. /\ sinst'[s] = sinst[s] /\ sinst[s].arec # None /\ sinst[s].ip # None
            /\ sinst[s].ip = arec[sinst[s].arec].ip
            /\ sinst[s].arec \in Arecs /\ s \in arec[sinst[s].arec].sinsts
        BY <1>0, <1>9, <1>14, <1>17, <2>2, ZenonT(30) DEF AddressIsHosts, XrefConsistent
      <3>2. CASE sinst[s].arec = a
        <4>1. arec[a].ip = i
          BY <1>7, <2>2, <3>1, <3>2, ZenonT(30)
        <4> QED BY <1>6, <1>11, <3>1, <3>2, <4>1, ZenonT(30)
      <3>3. CASE sinst[s].arec # a
        BY <1>11, <3>1, <3>3
      <3> QED BY <3>2, <3>3, ZenonT(30)
    <2> QED BY <2>1, <2>2, ZenonT(30)
  <1> QED BY <1>0, <1>5, <1>16, <1>17 DEF AddressIsHosts, NoFault

\* update_txt changes no reference and no address.
LEMMA RxTxtLinks ==
    ASSUME LinkInv, CacheInv', NEW n \in Names, NEW x \in Txts, RxTxt(n, x)
    PROVE  XrefConsistent' /\ AddressIsHosts' /\ NoFault'
  <1>0. CacheInv /\ XrefConsistent /\ AddressIsHosts /\ fault = "none"
    BY DEF LinkInv, NoFault
  <1>1. PICK s \in Found(n) :
          sinst' = [sinst EXCEPT ![s] = March([@ EXCEPT !.txt = x], sinst[s].txt # x)]
    BY Zenon DEF RxTxt
  <1> DEFINE t == [sinst[s] EXCEPT !.txt = x]
             c == sinst[s].txt # x
             r == March(t, c)
  <1>2. s \in Sinsts /\ sinst[s] \in SinstType
    BY <1>0, FoundFacts
  <1>3. sinst'[s] = r /\ \A z \in Sinsts \ {s} : sinst'[z] = sinst[z]
    BY <1>0, <1>1, <1>2 DEF CacheInv, TypeOK
  <1>4. /\ t \in SinstType /\ t.arec = sinst[s].arec
        /\ t.ip = sinst[s].ip /\ t.flags = sinst[s].flags
    BY <1>2 DEF SinstType
  <1>5. c \in BOOLEAN
    OBVIOUS
  <1> HIDE DEF t, c
  <1>6. r.arec = sinst[s].arec /\ r.ip = sinst[s].ip /\ r.flags = sinst[s].flags
    BY <1>4, <1>5, MarchFacts, ZenonT(60) DEF Info
  <1> HIDE DEF r
  <1>7. arec' = arec /\ fault' = fault
    BY DEF RxTxt
  <1>8. \A z \in Sinsts : sinst'[z].arec = sinst[z].arec /\ sinst'[z].ip = sinst[z].ip
                          /\ sinst'[z].flags = sinst[z].flags
    BY <1>3, <1>6, ZenonT(60)
  <1>9. XrefConsistent' /\ AddressIsHosts'
    <2>1. PICK S \in SUBSET Sinsts : S = {}
      BY Zenon
    <2>2. \A a \in Arecs : arec'[a] = arec[a] /\ arec[a].sinsts \ S = arec[a].sinsts
      BY <1>7, <2>1
    <2> QED BY <1>0, <1>8, <2>1, <2>2, LinksKept, ZenonT(60)
  <1> QED BY <1>0, <1>7, <1>9 DEF NoFault

\* A free slot is on no list when it is taken.
LEMMA NewSlotLinks ==
    ASSUME LinkInv, CacheInv', NEW t \in Types, NEW n \in Names, RxPtrNew(t, n)
    PROVE  XrefConsistent' /\ AddressIsHosts' /\ NoFault'
  <1>0. CacheInv /\ XrefConsistent /\ AddressIsHosts /\ fault = "none"
    BY DEF LinkInv, NoFault
  <1>1. PICK s \in FreeSinsts : \/ /\ sinst' = [sinst EXCEPT ![s] = ResetSinst(t, n)]
                                   /\ UNCHANGED <<arec, fault>>
                                \/ Dangling(s)
    BY Zenon DEF RxPtrNew
  <1>2. s \in Sinsts /\ sinst[s].st = "free" /\ ~Dangling(s)
    BY <1>0, NothingDangles DEF FreeSinsts
  <1>3. /\ sinst'[s] = ResetSinst(t, n) /\ \A z \in Sinsts \ {s} : sinst'[z] = sinst[z]
        /\ arec' = arec /\ fault' = fault
    BY <1>0, <1>1, <1>2 DEF CacheInv, TypeOK
  <1>4. ResetSinst(t, n).arec = None /\ "A" \notin ResetSinst(t, n).flags
    BY DEF ResetSinst, FreeSinst
  <1>5. sinst[s].arec = None
    BY <1>0, <1>2, FreeNamesNoArec, ZenonT(30)
  <1>6. \A a \in Arecs : arec[a].sinsts \ {s} = arec[a].sinsts
    BY <1>0, <1>5, CacheAssumption DEF XrefConsistent
  <1>7. XrefConsistent' /\ AddressIsHosts'
    <2>1. {s} \in SUBSET Sinsts
      BY <1>2
    <2> QED BY <1>0, <1>3, <1>4, <1>6, <2>1, LinksKept, ZenonT(60)
  <1> QED BY <1>0, <1>3, <1>7 DEF NoFault

\* A goodbye, or the end of a monitor: whatever the slots, nothing is left of
\* them on a list.
LEMMA DropLinks ==
    ASSUME LinkInv, CacheInv', NEW S \in SUBSET Sinsts, Cleanup(S), fault' = fault
    PROVE  XrefConsistent' /\ AddressIsHosts' /\ NoFault'
  BY CleanupLinks DEF LinkInv, NoFault

\* update_srv in a full arec cache, on any SRV record.
ArecFull == \E n \in Names, p \in Ports, h \in Hosts : RxSrvNoArec(n, p, h)

\* The other steps of do_querier and of its callers keep the references.
LEMMA NextLinks ==
    ASSUME LinkInv, CacheInv', Next, ~ArecFull
    PROVE  XrefConsistent' /\ AddressIsHosts' /\ NoFault'
  <1> DEFINE Goal == XrefConsistent' /\ AddressIsHosts' /\ NoFault'
  <1>0. CacheInv /\ XrefConsistent /\ AddressIsHosts /\ fault = "none"
    BY DEF LinkInv, NoFault
  <1>1. ASSUME UNCHANGED <<sinst, arec>>, fault' \in {fault, "none"} PROVE Goal
    BY <1>0, <1>1, LinksUntouched DEF NoFault
  <1>2. ASSUME NEW T \in SUBSET Types, Unmonitor(T) PROVE Goal
    <2> DEFINE S == {s \in Sinsts : sinst[s].st # "free" /\ sinst[s].type \in T \cap monitored}
    <2>1. Cleanup(S) /\ fault' = fault /\ S \in SUBSET Sinsts
      BY <1>2 DEF Unmonitor
    <2> HIDE DEF S
    <2> QED BY <2>1, DropLinks
  <1>3. ASSUME Launch PROVE Goal
    <2>1. /\ \A s \in Sinsts : sinst'[s] = FreeSinst
          /\ \A a \in Arecs : arec'[a] = FreeArec
          /\ fault' = fault
      BY <1>3 DEF Launch
    <2>2. /\ FreeSinst.arec = None /\ FreeSinst.flags = {}
          /\ FreeArec.sinsts = {} /\ FreeArec.st = "free"
      BY DEF FreeSinst, FreeArec
    <2> QED BY <1>0, <2>1, <2>2, ZenonT(60) DEF XrefConsistent, AddressIsHosts, NoFault
  <1>4. ASSUME Control PROVE Goal
    <2>1. ASSUME NEW t \in Types, Monitor(t) PROVE Goal
      BY <1>1, <2>1 DEF Monitor
    <2>2. CASE Halt \/ DeleteThread \/ RecvFails
      BY <1>1, <2>2 DEF Halt, DeleteThread, RecvFails
    <2>3. ASSUME NEW t \in Types, Unmonitor({t}) PROVE Goal
      BY <1>2, <2>3
    <2>4. ASSUME Unmonitor(Types) PROVE Goal
      BY <1>2, <2>4
    <2> HIDE DEF Goal
    <2> QED BY <1>3, <1>4, <2>1, <2>2, <2>3, <2>4, ZenonT(60) DEF Control
  <1>5. ASSUME Receive PROVE Goal
    <2>1. ASSUME NEW t \in Types, NEW n \in Names, RxPtrGoodbye(t, n) PROVE Goal
      <3>1. Instances(t, n) \in SUBSET Sinsts
        BY DEF Instances
      <3> QED BY <2>1, <3>1, DropLinks DEF RxPtrGoodbye
    <2>2. ASSUME NEW t \in Types, NEW n \in Names, RxPtrNew(t, n) PROVE Goal
      BY <2>2, NewSlotLinks
    <2>3. ASSUME NEW t \in Types, NEW n \in Names, RxPtrOverflow(t, n) PROVE Goal
      BY <1>1, <2>3 DEF RxPtrOverflow
    <2>4. ASSUME NEW n \in Names, NEW x \in Txts, RxTxt(n, x) PROVE Goal
      BY <2>4, RxTxtLinks
    <2>5. ASSUME NEW n \in Names, RxSrvGoodbye(n) PROVE Goal
      <3>1. Found(n) \in SUBSET Sinsts
        BY DEF Found, Instances
      <3> QED BY <2>5, <3>1, DropLinks, ZenonT(30) DEF RxSrvGoodbye
    <2>6. ASSUME NEW n \in Names, NEW p \in Ports, NEW h \in Hosts, RxSrv(n, p, h) PROVE Goal
      BY <2>6, RxSrvLinks
    <2>7. ASSUME NEW h \in Hosts, RxAGoodbye(h) PROVE Goal
      <3>1. PICK a \in ArecsOf(h) : \/ Cleanup(arec[a].sinsts) /\ fault' = fault
                                    \/ ~Evictable(a)
        BY <2>7 DEF RxAGoodbye
      <3>2. a \in Arecs /\ arec[a].sinsts \in SUBSET Sinsts
        BY <1>0, ZenonT(30) DEF ArecsOf, CacheInv, TypeOK, ArecType
      <3>3. Cleanup(arec[a].sinsts) /\ fault' = fault
        BY <1>0, <3>1, <3>2, NothingDangles, ZenonT(30)
      <3> QED BY <3>2, <3>3, DropLinks
    <2>8. ASSUME NEW h \in Hosts, NEW i \in Ips, RxA(h, i) PROVE Goal
      BY <2>8, RxALinks
    <2> HIDE DEF Goal
    <2> QED BY <1>5, <2>1, <2>2, <2>3, <2>4, <2>5, <2>6, <2>7, <2>8, ZenonT(30) DEF Receive, ArecFull
  <1>6. ASSUME Refresh PROVE Goal
    BY <1>6, PrepareQueryLinks, ZenonT(30) DEF Refresh
  <1> QED BY <1>4, <1>5, <1>6 DEF Next

\* The references hold at the start.
LEMMA InitLinks == Init => LinkInv
  <1> SUFFICES ASSUME Init PROVE LinkInv
    OBVIOUS
  <1>1. CacheInv
    BY InitCacheInv
  <1>2. /\ \A s \in Sinsts : sinst[s] = FreeSinst
        /\ \A a \in Arecs : arec[a] = FreeArec
        /\ fault = "none"
    BY DEF Init
  <1>3. /\ FreeSinst.arec = None /\ FreeSinst.flags = {}
        /\ FreeArec.sinsts = {} /\ FreeArec.st = "free"
    BY DEF FreeSinst, FreeArec
  <1> QED BY <1>1, <1>2, <1>3 DEF LinkInv, XrefConsistent, AddressIsHosts, NoFault

\* LinkInv is inductive as long as the arec cache is not found full.
LEMMA StepLinks == LinkInv /\ [Next]_vars /\ [~ArecFull]_vars => LinkInv'
  <1> SUFFICES ASSUME LinkInv, [Next]_vars, [~ArecFull]_vars PROVE LinkInv'
    OBVIOUS
  <1>1. CacheInv'
    BY NextCacheInv DEF LinkInv
  <1>2. CASE UNCHANGED vars
    BY <1>1, <1>2, LinksUntouched DEF vars, LinkInv, NoFault
  <1>3. CASE Next /\ ~ArecFull
    BY <1>1, <1>3, NextLinks DEF LinkInv
  <1> QED BY <1>2, <1>3

\* The two pools, the addresses and the lists go wrong in one place only: where
\* update_srv finds the arec cache full.
THEOREM LinksBreakWhenFull ==
    Spec /\ [][~ArecFull]_vars => [](XrefConsistent /\ AddressIsHosts /\ NoFault)
  <1>1. LinkInv => XrefConsistent /\ AddressIsHosts /\ NoFault
    BY DEF LinkInv
  <1> QED BY <1>1, InitLinks, StepLinks, PTL DEF Spec

\* With as many A slots as there are hosts, the cache is never found full.
LEMMA NeverFull ==
    ASSUME Cardinality(Hosts) <= Cardinality(Arecs)
    PROVE  LinkInv /\ [Next]_vars => LinkInv'
  <1> SUFFICES ASSUME LinkInv, [Next]_vars PROVE LinkInv'
    OBVIOUS
  <1>1. ~ArecFull
    BY ArecLeft DEF ArecFull, RxSrvNoArec, LinkInv
  <1> QED BY <1>1, StepLinks

\* With as many A slots as there are hosts, every service instance is on the list
\* of its own arec and of no other, and refers to no free one.
THEOREM XrefHolds ==
    ASSUME Cardinality(Hosts) <= Cardinality(Arecs)
    PROVE  Spec => []XrefConsistent
  <1>1. LinkInv => XrefConsistent
    BY DEF LinkInv
  <1> QED BY <1>1, InitLinks, NeverFull, PTL DEF Spec

\* With as many A slots as there are hosts, a service that counts as resolved has
\* the address of the host that its SRV record names.
THEOREM AddressHolds ==
    ASSUME Cardinality(Hosts) <= Cardinality(Arecs)
    PROVE  Spec => []AddressIsHosts
  <1>1. LinkInv => AddressIsHosts
    BY DEF LinkInv
  <1> QED BY <1>1, InitLinks, NeverFull, PTL DEF Spec

\* With as many A slots as there are hosts, the ASSERT of evict_arec holds and no
\* list is walked through a freed slot.
THEOREM NoFaultHolds ==
    ASSUME Cardinality(Hosts) <= Cardinality(Arecs)
    PROVE  Spec => []NoFault
  <1>1. LinkInv => NoFault
    BY DEF LinkInv
  <1> QED BY <1>1, InitLinks, NeverFull, PTL DEF Spec
=============================================================================

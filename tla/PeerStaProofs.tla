---------------------------- MODULE PeerStaProofs ----------------------------
(* Proofs about the peer station API and the transmit path below it, for any   *)
(* number of stations, threads, buffers and slots.                             *)
(*                                                                             *)
(* The accounts of the transmit path: every packet on its way has one slot of  *)
(* mbufs, and whoever takes an element of the free queue finds one.  mli.c     *)
(* tests neither.  The argument gives each buffer one place (its owner, a      *)
(* queue, the hands of one task or the air).  The packets on their way         *)
(* correspond one to one to the slots below the last, and the elements that    *)
(* are not free to the packets in the places that hold one.  The last slot is  *)
(* never used, so there are at most MaxQ - 1 such packets, one of which, the   *)
(* one that needs an element, has none.                                        *)
(*                                                                             *)
(* The beacon: it lists every station with queued data once both threads have  *)
(* left update_peersta_IE.  They share the array peerstaIE without a lock, and *)
(* the argument rests on priorities: the application runs on the idle task, so *)
(* it stands still from the start to the end of a run of the receive task,     *)
(* which leaves the array complete whatever the application had put in it.     *)
EXTENDS PeerSta, FiniteSetTheorems, TLAPS

-----------------------------------------------------------------------------
(* Where the packets are.  The proof gives each buffer one place and, in       *)
(* mli_TxDataEnqueue, one thread: at and by.                                   *)

\* The places where a packet has a queue element, where it is on its way, and all.
Holding == {"putq", "global", "handlers", "forward", "wlan", "driver"}
Moving == Holding \cup {"getq", "renew", "air"}
Places == Moving \cup {"owner", "return"}

DispPlace(pc) == IF pc = "getq" THEN "renew" ELSE IF pc = "putq" THEN "forward" ELSE "handlers"

\* A queue has the packets of one place, each once.
QueueAt(q, at, place) ==
    /\ \A i \in DOMAIN q : at[q[i]] = place
    /\ \A i, j \in DOMAIN q : q[i] = q[j] => i = j

Located(at, by) ==
    /\ \A p \in owned : at[p] = "owner"
    /\ \A p \in air : at[p] = "air"
    /\ QueueAt(global, at, "global")
    /\ QueueAt(wlan, at, "wlan")
    /\ \A t \in Threads : enq[t].pc # "idle" => at[enq[t].pkt] = enq[t].pc /\ by[enq[t].pkt] = t
    /\ disp.pkt # None => at[disp.pkt] = DispPlace(disp.pc)
    /\ drv.pc = "putq" => at[drv.pkt] = "driver"

\* The slots below the last, and those of packets not yet given back.
Low == Slots \ {LastSlot}
Held(i) == mbufs[i] # None /\ ~(drv.pc = "clear" /\ drv.slot = i)

\* The packets on their way and the slots below the last correspond.
Slotted(at) ==
    /\ \A i \in Low : Held(i) => at[mbufs[i]] \in Moving
    /\ \A i, j \in Low : Held(i) /\ Held(j) /\ mbufs[i] = mbufs[j] => i = j
    /\ \A p \in Buffers : at[p] \in Moving => \E i \in Low : mbufs[i] = p /\ Held(i)
    /\ drv.pc = "clear" => drv.slot \in Low /\ mbufs[drv.slot] # None

Holders(at) == {p \in Buffers : at[p] \in Holding}

\* The free elements are those no packet has.
Counted(at) == IsFiniteSet(Holders(at)) /\ free = MaxQ - Cardinality(Holders(at))

TxTypes ==
    /\ mbufs \in [Slots -> Buffers \cup {None}]
    /\ free \in Nat
    /\ global \in Seq(Buffers) /\ wlan \in Seq(Buffers)
    /\ enq \in [Threads -> [pc : {"idle", "return", "getq", "putq"}, pkt : Buffers \cup {None}]]
    /\ \A t \in Threads : IF enq[t].pc = "idle" THEN enq[t] = Idle ELSE enq[t].pkt \in Buffers
    /\ disp \in [pc : {"idle", "get", "handlers", "getq", "putq"}, pkt : Buffers \cup {None}]
    /\ disp.pkt = None <=> disp.pc \in {"idle", "get"}
    /\ drv \in [pc : {"idle", "putq", "clear"}, pkt : Buffers \cup {None}, slot : Slots]
    /\ drv.pc # "idle" => drv.pkt \in Buffers
    /\ air \subseteq Buffers /\ owned \subseteq Buffers

Ghosts(at, by) == at \in [Buffers -> Places] /\ by \in [Buffers -> Threads \cup {None}]

TxInv ==
    /\ TxTypes
    /\ \E at, by : Ghosts(at, by) /\ Located(at, by) /\ Slotted(at) /\ Counted(at)

-----------------------------------------------------------------------------
(* Queues. *)

\* A queue is not concerned by a packet that is elsewhere.
LEMMA QueueKept ==
    ASSUME NEW at \in [Buffers -> Places], NEW q \in Seq(Buffers), NEW place, QueueAt(q, at, place),
           NEW p \in Buffers, at[p] # place, NEW x
    PROVE  QueueAt(q, [at EXCEPT ![p] = x], place)
<1>1. \A i \in DOMAIN q : q[i] \in Buffers /\ q[i] # p
  BY DEF QueueAt
<1> QED  BY <1>1 DEF QueueAt

\* A packet put on a queue is there once.
LEMMA QueueAppend ==
    ASSUME NEW at \in [Buffers -> Places], NEW q \in Seq(Buffers), NEW place, QueueAt(q, at, place),
           NEW p \in Buffers, at[p] # place
    PROVE  Append(q, p) \in Seq(Buffers) /\ QueueAt(Append(q, p), [at EXCEPT ![p] = place], place)
<1> DEFINE n == Len(q) + 1
           z == Append(q, p)
<1>1. \A i \in DOMAIN q : q[i] \in Buffers /\ q[i] # p
  BY DEF QueueAt
<1>2. /\ z \in Seq(Buffers) /\ DOMAIN z = DOMAIN q \cup {n} /\ n \notin DOMAIN q
      /\ z[n] = p /\ \A i \in DOMAIN q : z[i] = q[i]
  OBVIOUS
<1> HIDE DEF z, n
<1> QED  BY <1>1, <1>2 DEF QueueAt, z

\* The packet taken from a queue is no longer on it.
LEMMA QueueTail ==
    ASSUME NEW at \in [Buffers -> Places], NEW q \in Seq(Buffers), NEW place, QueueAt(q, at, place),
           q # <<>>, NEW x
    PROVE  /\ Head(q) \in Buffers /\ at[Head(q)] = place /\ Tail(q) \in Seq(Buffers)
           /\ QueueAt(Tail(q), [at EXCEPT ![Head(q)] = x], place)
<1> DEFINE z == Tail(q)
<1>1. /\ z \in Seq(Buffers) /\ Head(q) = q[1] /\ 1 \in DOMAIN q
      /\ \A i \in DOMAIN z : i + 1 \in DOMAIN q /\ z[i] = q[i + 1] /\ i + 1 # 1 /\ i \in Nat
  OBVIOUS
<1> HIDE DEF z
<1>2. \A i \in DOMAIN q : q[i] \in Buffers
  OBVIOUS
<1>3. \A i \in DOMAIN z : z[i] \in Buffers /\ z[i] # Head(q) /\ at[z[i]] = place
  BY <1>1, <1>2 DEF QueueAt
<1>4. \A i, j \in DOMAIN z : z[i] = z[j] => i = j
  BY <1>1, SMTT(60) DEF QueueAt
<1> QED  BY <1>1, <1>2, <1>3, <1>4 DEF QueueAt, z

-----------------------------------------------------------------------------
(* Slots and elements. *)

\* Nothing changes for the slots while a packet stays on its way, or off it.
LEMMA SlotsKept ==
    ASSUME TxTypes, NEW at, NEW at2, Slotted(at), UNCHANGED mbufs,
           \A p \in Buffers : at2[p] \in Moving <=> at[p] \in Moving,
           drv' = drv \/ (drv.pc # "clear" /\ drv'.pc # "clear")
    PROVE  Slotted(at2)'
<1>1. \A i : Held(i)' <=> Held(i)
  BY DEF Held
<1>2. \A i \in Low : Held(i) => mbufs[i] \in Buffers
  BY DEF Held, Low, TxTypes
<1>3. drv'.pc = "clear" => drv.pc = "clear" /\ drv'.slot = drv.slot
  OBVIOUS
<1> QED  BY <1>1, <1>2, <1>3 DEF Slotted

\* Moves between places that hold an element, or that hold none, keep the count.
LEMMA CountKept ==
    ASSUME NEW at, NEW at2, Counted(at), UNCHANGED free,
           \A p \in Buffers : at2[p] \in Holding <=> at[p] \in Holding
    PROVE  Counted(at2)'
<1>1. Holders(at2) = Holders(at)
  BY DEF Holders
<1> QED  BY <1>1 DEF Counted

\* A packet takes an element.
LEMMA CountUp ==
    ASSUME TxTypes, NEW at, NEW at2, NEW p \in Buffers, Counted(at), free > 0, free' = free - 1,
           at[p] \notin Holding, at2[p] \in Holding,
           \A q \in Buffers \ {p} : at2[q] \in Holding <=> at[q] \in Holding
    PROVE  Counted(at2)' /\ free' \in Nat
<1>1. Holders(at2) = Holders(at) \cup {p} /\ p \notin Holders(at)
  BY DEF Holders
<1>2. IsFiniteSet(Holders(at2)) /\ Cardinality(Holders(at2)) = Cardinality(Holders(at)) + 1
  BY <1>1, FS_AddElement DEF Counted
<1>3. Cardinality(Holders(at)) \in Nat /\ MaxQ \in Nat /\ free \in Nat
  BY FS_CardinalityType, TxAssumption DEF Counted, TxTypes
<1> QED  BY <1>2, <1>3 DEF Counted

\* A packet gives its element back.
LEMMA CountDown ==
    ASSUME TxTypes, NEW at, NEW at2, NEW p \in Buffers, Counted(at), free' = free + 1,
           at[p] \in Holding, at2[p] \notin Holding,
           \A q \in Buffers \ {p} : at2[q] \in Holding <=> at[q] \in Holding
    PROVE  Counted(at2)' /\ free' \in Nat
<1>1. Holders(at2) = Holders(at) \ {p} /\ p \in Holders(at)
  BY DEF Holders
<1>2. IsFiniteSet(Holders(at2)) /\ Cardinality(Holders(at2)) = Cardinality(Holders(at)) - 1
  BY <1>1, FS_RemoveElement DEF Counted
<1>3. Cardinality(Holders(at)) \in Nat /\ MaxQ \in Nat /\ free \in Nat
  BY FS_CardinalityType, TxAssumption DEF Counted, TxTypes
<1> QED  BY <1>2, <1>3 DEF Counted

-----------------------------------------------------------------------------
(* One lemma per action of the transmit path: a packet goes from one place to  *)
(* the next.                                                                   *)

\* Moving p to x leaves the other packets where they are.
LEMMA Moved ==
    ASSUME TxTypes, NEW at, NEW by, Ghosts(at, by), Located(at, by), NEW p \in Buffers, NEW x \in Places
    PROVE  LET at2 == [at EXCEPT ![p] = x]
           IN /\ Ghosts(at2, by)
              /\ at2[p] = x
              /\ \A q \in Buffers \ {p} : at2[q] = at[q]
              /\ \A q \in owned : at[p] # "owner" \/ q # p => at2[q] = "owner"
              /\ \A q \in air : at[p] # "air" \/ q # p => at2[q] = "air"
              /\ at[p] # "global" => QueueAt(global, at2, "global")
              /\ at[p] # "wlan" => QueueAt(wlan, at2, "wlan")
              /\ at[p] # "driver" /\ drv.pc = "putq" => at2[drv.pkt] = "driver"
              /\ disp.pkt # None /\ at[p] # DispPlace(disp.pc) => at2[disp.pkt] = DispPlace(disp.pc)
              /\ \A t \in Threads :
                   enq[t].pc # "idle" /\ (at[p] # enq[t].pc \/ by[p] # t) =>
                     at2[enq[t].pkt] = enq[t].pc /\ by[enq[t].pkt] = t /\ enq[t].pkt # p
<1> DEFINE at2 == [at EXCEPT ![p] = x]
<1>1. at \in [Buffers -> Places] /\ by \in [Buffers -> Threads \cup {None}]
  BY DEF Ghosts
<1>2. at2 \in [Buffers -> Places] /\ at2[p] = x /\ \A q \in Buffers \ {p} : at2[q] = at[q]
  BY <1>1
<1>3. /\ at[p] # "global" => QueueAt(global, at2, "global")
      /\ at[p] # "wlan" => QueueAt(wlan, at2, "wlan")
  BY <1>1, QueueKept, ZenonT(60) DEF Located, TxTypes
<1> HIDE DEF at2
<1>4. /\ \A q \in owned : at[p] # "owner" \/ q # p => at2[q] = "owner"
      /\ \A q \in air : at[p] # "air" \/ q # p => at2[q] = "air"
  <2>1. owned \subseteq Buffers /\ air \subseteq Buffers
    BY DEF TxTypes
  <2>2. (\A q \in owned : at[q] = "owner") /\ (\A q \in air : at[q] = "air")
    BY DEF Located
  <2> QED  BY <1>2, <2>1, <2>2
<1>5. at[p] # "driver" /\ drv.pc = "putq" => at2[drv.pkt] = "driver"
  BY <1>2 DEF Located, TxTypes
<1>6. disp.pkt # None /\ at[p] # DispPlace(disp.pc) => at2[disp.pkt] = DispPlace(disp.pc)
  <2>1. disp.pkt # None => disp.pkt \in Buffers
    BY DEF TxTypes
  <2> QED  BY <1>2, <2>1 DEF Located
<1>7. \A t \in Threads :
        enq[t].pc # "idle" /\ (at[p] # enq[t].pc \/ by[p] # t) =>
          at2[enq[t].pkt] = enq[t].pc /\ by[enq[t].pkt] = t /\ enq[t].pkt # p
  <2>1. \A t \in Threads : enq[t].pc # "idle" => enq[t].pkt \in Buffers
    BY DEF TxTypes
  <2> QED  BY <1>2, <2>1 DEF Located
<1> QED  BY <1>1, <1>2, <1>3, <1>4, <1>5, <1>6, <1>7 DEF Ghosts, at2

\* A thread's step leaves the other threads alone.
LEMMA ThreadStep ==
    ASSUME TxTypes, NEW t \in Threads, NEW pc \in {"idle", "return", "getq", "putq"}, NEW p \in Buffers \cup {None},
           p = None <=> pc = "idle",
           enq' = [enq EXCEPT ![t] = [pc |-> pc, pkt |-> p]]
    PROVE  /\ enq' \in [Threads -> [pc : {"idle", "return", "getq", "putq"}, pkt : Buffers \cup {None}]]
           /\ \A u \in Threads : IF enq'[u].pc = "idle" THEN enq'[u] = Idle ELSE enq'[u].pkt \in Buffers
           /\ enq'[t].pc = pc /\ enq'[t].pkt = p
           /\ \A u \in Threads \ {t} : enq'[u] = enq[u]
<1> DEFINE r == [pc |-> pc, pkt |-> p]
<1>1. r \in [pc : {"idle", "return", "getq", "putq"}, pkt : Buffers \cup {None}] /\ r.pc = pc /\ r.pkt = p
  OBVIOUS
<1>2. pc = "idle" => r = Idle
  BY DEF Idle
<1> HIDE DEF r
<1>3. enq' = [enq EXCEPT ![t] = r]
  BY DEF r
<1>4. enq'[t] = r /\ \A u \in Threads \ {t} : enq'[u] = enq[u]
  BY <1>3 DEF TxTypes
<1> QED  BY <1>1, <1>2, <1>3, <1>4 DEF TxTypes

\* The packet that found no room goes back to its owner.
LEMMA RefuseInv ==
    ASSUME TxInv, NEW t \in Threads, Refuse(t)
    PROVE  TxInv'
<1>0. TxTypes
  BY DEF TxInv
<1>1. PICK at, by : Ghosts(at, by) /\ Located(at, by) /\ Slotted(at) /\ Counted(at)
  BY DEF TxInv
<1>2. PICK p \in Buffers : p = enq[t].pkt
  BY <1>0 DEF TxTypes, Refuse
<1> DEFINE at2 == [at EXCEPT ![p] = "owner"]
<1>3. /\ owned' = owned \cup {p} /\ enq' = [enq EXCEPT ![t] = [pc |-> "idle", pkt |-> None]]
      /\ UNCHANGED <<mbufs, free, global, wlan, disp, drv, air>>
  BY <1>2 DEF Refuse, Idle
<1>4. at[p] = "return" /\ by[p] = t
  BY <1>1, <1>2 DEF Located, Refuse
<1>5. /\ Ghosts(at2, by) /\ at2[p] = "owner" /\ \A q \in Buffers \ {p} : at2[q] = at[q]
      /\ \A q \in owned : at2[q] = "owner"
      /\ \A q \in air : at2[q] = "air"
      /\ QueueAt(global, at2, "global") /\ QueueAt(wlan, at2, "wlan")
      /\ drv.pc = "putq" => at2[drv.pkt] = "driver"
      /\ disp.pkt # None => at2[disp.pkt] = DispPlace(disp.pc)
      /\ \A u \in Threads \ {t} : enq[u].pc # "idle" => at2[enq[u].pkt] = enq[u].pc /\ by[enq[u].pkt] = u
  BY <1>0, <1>1, <1>4, Moved, SMTT(60) DEF Places, DispPlace
<1> HIDE DEF at2
<1>6. /\ enq' \in [Threads -> [pc : {"idle", "return", "getq", "putq"}, pkt : Buffers \cup {None}]]
      /\ \A u \in Threads : IF enq'[u].pc = "idle" THEN enq'[u] = Idle ELSE enq'[u].pkt \in Buffers
      /\ enq'[t].pc = "idle" /\ enq'[t].pkt = None
      /\ \A u \in Threads \ {t} : enq'[u] = enq[u]
  BY <1>0, <1>3, ThreadStep, TxAssumption, ZenonT(60)
<1>7. TxTypes'
  BY <1>0, <1>3, <1>6, ZenonT(60) DEF TxTypes
<1>8. Located(at2, by)'
  BY <1>3, <1>5, <1>6 DEF Located
<1>9. \A q \in Buffers : (at2[q] \in Moving <=> at[q] \in Moving) /\ (at2[q] \in Holding <=> at[q] \in Holding)
  BY <1>4, <1>5 DEF Moving, Holding
<1>10. Slotted(at2)' /\ Counted(at2)'
  BY <1>0, <1>1, <1>3, <1>9, SlotsKept, CountKept, ZenonT(60)
<1> QED  BY <1>5, <1>7, <1>8, <1>10 DEF TxInv

\* The thread takes an element from the free queue.
LEMMA GetElementInv ==
    ASSUME TxInv, NEW t \in Threads, GetElement(t)
    PROVE  TxInv'
<1>0. TxTypes
  BY DEF TxInv
<1>1. PICK at, by : Ghosts(at, by) /\ Located(at, by) /\ Slotted(at) /\ Counted(at)
  BY DEF TxInv
<1>2. PICK p \in Buffers : p = enq[t].pkt
  BY <1>0 DEF TxTypes, GetElement
<1> DEFINE at2 == [at EXCEPT ![p] = "putq"]
<1>3. /\ enq' = [enq EXCEPT ![t] = [pc |-> "putq", pkt |-> p]] /\ free > 0 /\ free' = free - 1
      /\ UNCHANGED <<mbufs, global, wlan, disp, drv, air, owned>>
  <2>1. ASSUME NEW r \in [pc : {"idle", "return", "getq", "putq"}, pkt : Buffers \cup {None}],
               NEW q, q = [r EXCEPT !.pc = "putq"]
        PROVE  q = [pc |-> "putq", pkt |-> r.pkt]
    BY <2>1
  <2>2. enq[t] \in [pc : {"idle", "return", "getq", "putq"}, pkt : Buffers \cup {None}]
    BY <1>0 DEF TxTypes
  <2>3. [enq[t] EXCEPT !.pc = "putq"] = [pc |-> "putq", pkt |-> p]
    BY <1>2, <2>1, <2>2, Zenon
  <2> QED  BY <2>3, ZenonT(60) DEF GetElement
<1>4. at[p] = "getq" /\ by[p] = t
  BY <1>1, <1>2 DEF Located, GetElement
<1>5. /\ Ghosts(at2, by) /\ at2[p] = "putq" /\ \A q \in Buffers \ {p} : at2[q] = at[q]
      /\ \A q \in owned : at2[q] = "owner"
      /\ \A q \in air : at2[q] = "air"
      /\ QueueAt(global, at2, "global") /\ QueueAt(wlan, at2, "wlan")
      /\ drv.pc = "putq" => at2[drv.pkt] = "driver"
      /\ disp.pkt # None => at2[disp.pkt] = DispPlace(disp.pc)
      /\ \A u \in Threads \ {t} : enq[u].pc # "idle" => at2[enq[u].pkt] = enq[u].pc /\ by[enq[u].pkt] = u
  <2>1. "putq" \in Places
    BY DEF Places, Moving, Holding
  <2> QED  BY <1>0, <1>1, <1>4, <2>1, Moved DEF DispPlace
<1> HIDE DEF at2
<1>6. /\ enq' \in [Threads -> [pc : {"idle", "return", "getq", "putq"}, pkt : Buffers \cup {None}]]
      /\ \A u \in Threads : IF enq'[u].pc = "idle" THEN enq'[u] = Idle ELSE enq'[u].pkt \in Buffers
      /\ enq'[t].pc = "putq" /\ enq'[t].pkt = p
      /\ \A u \in Threads \ {t} : enq'[u] = enq[u]
  BY <1>0, <1>3, ThreadStep, TxAssumption, ZenonT(60)
<1>7. Located(at2, by)'
  BY <1>3, <1>4, <1>5, <1>6, ZenonT(60) DEF Located
<1>8. /\ \A q \in Buffers : at2[q] \in Moving <=> at[q] \in Moving
      /\ \A q \in Buffers \ {p} : at2[q] \in Holding <=> at[q] \in Holding
      /\ at[p] \notin Holding /\ at2[p] \in Holding
  BY <1>4, <1>5, ZenonT(60) DEF Moving, Holding
<1>9. Slotted(at2)' /\ Counted(at2)' /\ free' \in Nat
  BY <1>0, <1>1, <1>3, <1>8, SlotsKept, CountUp, ZenonT(60)
<1>10. TxTypes'
  BY <1>0, <1>3, <1>6, <1>9, ZenonT(60) DEF TxTypes
<1> QED  BY <1>5, <1>7, <1>9, <1>10 DEF TxInv

\* The packet goes on the global queue, or on the driver's.
LEMMA PutElementInv ==
    ASSUME TxInv, NEW t \in Threads, PutElement(t)
    PROVE  TxInv'
<1>0. TxTypes
  BY DEF TxInv
<1>1. PICK at, by : Ghosts(at, by) /\ Located(at, by) /\ Slotted(at) /\ Counted(at)
  BY DEF TxInv
<1>2. PICK p \in Buffers : p = enq[t].pkt
  BY <1>0 DEF TxTypes, PutElement
<1>3. /\ enq' = [enq EXCEPT ![t] = [pc |-> "idle", pkt |-> None]]
      /\ UNCHANGED <<mbufs, free, disp, drv, air, owned>>
  BY <1>2 DEF PutElement, Idle
<1>4. at[p] = "putq" /\ by[p] = t
  BY <1>1, <1>2 DEF Located, PutElement
<1>5. PICK x \in {"wlan", "global"} :
        /\ x = "wlan" => wlan' = Append(wlan, p) /\ global' = global
        /\ x = "global" => global' = Append(global, p) /\ wlan' = wlan
  BY <1>2 DEF PutElement
<1> DEFINE at2 == [at EXCEPT ![p] = x]
<1>6. /\ Ghosts(at2, by) /\ at2[p] = x /\ \A q \in Buffers \ {p} : at2[q] = at[q]
      /\ \A q \in owned : at2[q] = "owner"
      /\ \A q \in air : at2[q] = "air"
      /\ QueueAt(global, at2, "global") /\ QueueAt(wlan, at2, "wlan")
      /\ drv.pc = "putq" => at2[drv.pkt] = "driver"
      /\ disp.pkt # None => at2[disp.pkt] = DispPlace(disp.pc)
      /\ \A u \in Threads \ {t} : enq[u].pc # "idle" => at2[enq[u].pkt] = enq[u].pc /\ by[enq[u].pkt] = u
  <2>1. x \in Places
    BY DEF Places, Moving, Holding
  <2> QED  BY <1>0, <1>1, <1>4, <2>1, Moved DEF DispPlace
<1>7. /\ global' \in Seq(Buffers) /\ wlan' \in Seq(Buffers)
      /\ QueueAt(global', at2, "global") /\ QueueAt(wlan', at2, "wlan")
  <2>1. /\ at \in [Buffers -> Places] /\ global \in Seq(Buffers) /\ wlan \in Seq(Buffers)
        /\ QueueAt(global, at, "global") /\ QueueAt(wlan, at, "wlan")
    BY <1>0, <1>1 DEF Ghosts, Located, TxTypes
  <2>2. /\ Append(global, p) \in Seq(Buffers)
        /\ QueueAt(Append(global, p), [at EXCEPT ![p] = "global"], "global")
    BY <1>4, <2>1, QueueAppend, ZenonT(60)
  <2>3. /\ Append(wlan, p) \in Seq(Buffers)
        /\ QueueAt(Append(wlan, p), [at EXCEPT ![p] = "wlan"], "wlan")
    BY <1>4, <2>1, QueueAppend, ZenonT(60)
  <2> QED  BY <1>5, <1>6, <2>1, <2>2, <2>3, ZenonT(60)
<1> HIDE DEF at2
<1>8. /\ enq' \in [Threads -> [pc : {"idle", "return", "getq", "putq"}, pkt : Buffers \cup {None}]]
      /\ \A u \in Threads : IF enq'[u].pc = "idle" THEN enq'[u] = Idle ELSE enq'[u].pkt \in Buffers
      /\ enq'[t].pc = "idle" /\ enq'[t].pkt = None
      /\ \A u \in Threads \ {t} : enq'[u] = enq[u]
  BY <1>0, <1>3, ThreadStep, TxAssumption, ZenonT(60)
<1>9. TxTypes'
  BY <1>0, <1>3, <1>7, <1>8, ZenonT(60) DEF TxTypes
<1>10. Located(at2, by)'
  BY <1>3, <1>6, <1>7, <1>8, ZenonT(60) DEF Located
<1>11. \A q \in Buffers : (at2[q] \in Moving <=> at[q] \in Moving) /\ (at2[q] \in Holding <=> at[q] \in Holding)
  BY <1>4, <1>6, ZenonT(60) DEF Moving, Holding
<1>12. Slotted(at2)' /\ Counted(at2)'
  BY <1>0, <1>1, <1>3, <1>11, SlotsKept, CountKept, ZenonT(60)
<1> QED  BY <1>6, <1>9, <1>10, <1>12 DEF TxInv

\* The critical section: a packet gets a slot below the last and is on its way, or
\* it is to be returned at once.
LEMMA RegisterInv ==
    ASSUME TxInv, NEW t \in Threads, NEW p \in Buffers, Register(t, p)
    PROVE  TxInv'
<1>0. TxTypes
  BY DEF TxInv
<1>1. PICK at, by : Ghosts(at, by) /\ Located(at, by) /\ Slotted(at) /\ Counted(at)
  BY DEF TxInv
<1>2. /\ enq[t] = Idle /\ p \in owned /\ owned' = owned \ {p}
      /\ UNCHANGED <<free, global, wlan, disp, drv, air>>
  BY DEF Register
<1>3. at[p] = "owner"
  BY <1>1, <1>2 DEF Located
<1>a. MaxQ \in Nat /\ MaxQ >= 1 /\ LastSlot = MaxQ - 1 /\ p # None
  BY TxAssumption DEF LastSlot
<1>4. PICK x \in {"getq", "return"} :
        /\ enq' = [enq EXCEPT ![t] = [pc |-> x, pkt |-> p]]
        /\ x = "getq" => \E i \in Low : mbufs[i] = None /\ mbufs' = [mbufs EXCEPT ![i] = p]
        /\ x = "return" => \/ mbufs' = [mbufs EXCEPT ![LastSlot] = p] /\ mbufs[LastSlot] = None
                           \/ mbufs' = mbufs
  <2>1. CASE \A i \in Slots : mbufs[i] # None
    <3>1. enq' = [enq EXCEPT ![t] = [pc |-> "return", pkt |-> p]] /\ mbufs' = mbufs
      BY <2>1 DEF Register, IsFirstSlot
    <3> QED  BY <3>1
  <2>2. CASE ~ \A i \in Slots : mbufs[i] # None
    <3>1. PICK i \in Slots : /\ mbufs[i] = None
                             /\ mbufs' = [mbufs EXCEPT ![i] = p]
                             /\ enq' = [enq EXCEPT ![t] = [pc |-> IF i + 1 >= MaxQ THEN "return" ELSE "getq",
                                                           pkt |-> p]]
      BY <2>2 DEF Register, IsFirstSlot
    <3>2. CASE i = LastSlot
      <4>1. enq' = [enq EXCEPT ![t] = [pc |-> "return", pkt |-> p]]
        <5>1. i + 1 >= MaxQ
          BY <1>a, <3>2
        <5> QED  BY <3>1, <5>1
      <4> QED  BY <3>1, <3>2, <4>1, ZenonT(60)
    <3>3. CASE i # LastSlot
      <4>1. enq' = [enq EXCEPT ![t] = [pc |-> "getq", pkt |-> p]]
        <5>1. ~(i + 1 >= MaxQ)
          BY <1>a, <3>3, SMTT(60) DEF Slots
        <5> QED  BY <3>1, <5>1
      <4> QED  BY <3>1, <3>3, <4>1, ZenonT(60) DEF Low
    <3> QED  BY <3>2, <3>3
  <2> QED  BY <2>1, <2>2
<1> DEFINE at2 == [at EXCEPT ![p] = x]
           by2 == [by EXCEPT ![p] = t]
<1>5. /\ Ghosts(at2, by) /\ at2[p] = x /\ \A q \in Buffers \ {p} : at2[q] = at[q]
      /\ \A q \in owned \ {p} : at2[q] = "owner"
      /\ \A q \in air : at2[q] = "air"
      /\ QueueAt(global, at2, "global") /\ QueueAt(wlan, at2, "wlan")
      /\ drv.pc = "putq" => at2[drv.pkt] = "driver"
      /\ disp.pkt # None => at2[disp.pkt] = DispPlace(disp.pc)
      /\ \A u \in Threads : enq[u].pc # "idle" =>
           at2[enq[u].pkt] = enq[u].pc /\ by[enq[u].pkt] = u /\ enq[u].pkt # p
  <2>1. x \in Places
    BY DEF Places, Moving, Holding
  <2>2. \A u \in Threads : enq[u].pc # "owner"
    BY <1>0, ZenonT(60) DEF TxTypes
  <2> QED  BY <1>0, <1>1, <1>3, <2>1, <2>2, Moved DEF DispPlace
<1> HIDE DEF at2
<1>6. /\ Ghosts(at2, by2) /\ by2[p] = t
      /\ \A u \in Threads : enq[u].pc # "idle" => by2[enq[u].pkt] = u
  <2>1. \A u \in Threads : enq[u].pc # "idle" => enq[u].pkt \in Buffers
    BY <1>0 DEF TxTypes
  <2> QED  BY <1>5, <2>1 DEF Ghosts
<1> HIDE DEF by2
<1>7. /\ enq' \in [Threads -> [pc : {"idle", "return", "getq", "putq"}, pkt : Buffers \cup {None}]]
      /\ \A u \in Threads : IF enq'[u].pc = "idle" THEN enq'[u] = Idle ELSE enq'[u].pkt \in Buffers
      /\ enq'[t].pc = x /\ enq'[t].pkt = p
      /\ \A u \in Threads \ {t} : enq'[u] = enq[u]
  <2>1. p # None /\ x \in {"idle", "return", "getq", "putq"} /\ p \in Buffers \cup {None} /\ x # "idle"
    BY <1>a
  <2> QED  BY <1>0, <1>4, <2>1, ThreadStep, ZenonT(60)
<1>8. mbufs' \in [Slots -> Buffers \cup {None}]
  BY <1>0, <1>4, ZenonT(60) DEF TxTypes, Low
<1>9. TxTypes'
  BY <1>0, <1>2, <1>7, <1>8, ZenonT(60) DEF TxTypes
<1>10. Located(at2, by2)'
  <2>1. \A q \in owned' : at2[q] = "owner"
    BY <1>2, <1>5, SMTT(60)
  <2> QED  BY <1>2, <1>5, <1>6, <1>7, <2>1, SMTT(60) DEF Located
<1>11. \A i \in Low : Held(i) => mbufs[i] \in Buffers /\ mbufs[i] # p
  <2>1. \A i \in Low : Held(i) => mbufs[i] \in Buffers
    BY <1>0 DEF TxTypes, Low, Held
  <2> QED  BY <1>1, <1>3, <2>1 DEF Slotted, Moving, Holding
<1>12. Slotted(at2)'
  <2>1. CASE x = "return"
    <3>1. \A i \in Low : mbufs'[i] = mbufs[i]
      BY <1>0, <1>4, <2>1 DEF TxTypes, Low
    <3>2. \A i \in Low : Held(i)' <=> Held(i)
      BY <1>2, <3>1 DEF Held
    <3>3. at2[p] \notin Moving
      BY <1>5, <2>1 DEF Moving, Holding
    <3> QED  BY <1>1, <1>2, <1>5, <1>11, <3>1, <3>2, <3>3, SMTT(60) DEF Slotted
  <2>2. CASE x = "getq"
    <3>1. PICK i \in Low : mbufs[i] = None /\ mbufs' = [mbufs EXCEPT ![i] = p]
      BY <1>4, <2>2
    <3>2. mbufs'[i] = p /\ \A j \in Low \ {i} : mbufs'[j] = mbufs[j]
      BY <1>0, <3>1 DEF TxTypes, Low
    <3>3. ~(drv.pc = "clear" /\ drv.slot = i)
      BY <1>1, <3>1 DEF Slotted
    <3>4. Held(i)' /\ \A j \in Low \ {i} : Held(j)' <=> Held(j)
      BY <1>2, <1>a, <3>2, <3>3, ZenonT(60) DEF Held
    <3>5. at2[p] \in Moving
      BY <1>5, <2>2 DEF Moving
    <3>6. ~Held(i)
      BY <3>1, ZenonT(60) DEF Held
    <3>a. \A j \in Low \ {i} : Held(j)' => at2[mbufs[j]] \in Moving /\ mbufs[j] # p
      BY <1>1, <1>5, <1>11, <3>4, ZenonT(60) DEF Slotted
    <3>7. \A j \in Low : Held(j)' => at2[mbufs'[j]] \in Moving
      BY <3>2, <3>5, <3>a, ZenonT(60)
    <3>b. \A j, k \in Low : Held(j) /\ Held(k) /\ mbufs[j] = mbufs[k] => j = k
      BY <1>1 DEF Slotted
    <3>8. \A j, k \in Low : Held(j)' /\ Held(k)' /\ mbufs'[j] = mbufs'[k] => j = k
      <4> SUFFICES ASSUME NEW j \in Low, NEW k \in Low, Held(j)', Held(k)', mbufs'[j] = mbufs'[k]
                   PROVE  j = k
        OBVIOUS
      <4>1. CASE j # i /\ k # i
        BY <3>2, <3>4, <3>b, <4>1, ZenonT(60)
      <4>2. CASE j = i \/ k = i
        BY <3>2, <3>a, <4>2, ZenonT(60)
      <4> QED  BY <4>1, <4>2
    <3>9. \A q \in Buffers : at2[q] \in Moving => \E j \in Low : mbufs'[j] = q /\ Held(j)'
      BY <1>1, <1>5, <3>2, <3>4, <3>6, SMTT(60) DEF Slotted
    <3>10. drv'.pc = "clear" => drv'.slot \in Low /\ mbufs'[drv'.slot] # None
      BY <1>1, <1>2, <1>a, <3>1, <3>2, SMTT(60) DEF Slotted
    <3> QED  BY <3>7, <3>8, <3>9, <3>10 DEF Slotted
  <2> QED  BY <2>1, <2>2, ZenonT(60)
<1>13. Counted(at2)'
  <2>1. \A q \in Buffers : at2[q] \in Holding <=> at[q] \in Holding
    BY <1>3, <1>5, ZenonT(60) DEF Holding
  <2> QED  BY <1>1, <1>2, <2>1, CountKept, ZenonT(60)
<1> QED  BY <1>6, <1>9, <1>10, <1>12, <1>13 DEF TxInv

\* mli_HandleTxDone finds the slot of the packet.
LEMMA TxDoneInv ==
    ASSUME TxInv, NEW p \in Buffers, TxDone(p)
    PROVE  TxInv'
<1>0. TxTypes
  BY DEF TxInv
<1>1. PICK at, by : Ghosts(at, by) /\ Located(at, by) /\ Slotted(at) /\ Counted(at)
  BY DEF TxInv
<1>2. /\ drv.pc = "idle" /\ p \in air /\ air' = air \ {p}
      /\ UNCHANGED <<mbufs, free, global, wlan, enq, disp>>
  BY ZenonT(60) DEF TxDone
<1>3. at[p] = "air"
  BY <1>1, <1>2, ZenonT(60) DEF Located
<1>4. PICK k \in Low : mbufs[k] = p
  BY <1>1, <1>3 DEF Slotted, Moving
<1>5. PICK i \in Slots : /\ IsFirstSlot(i, p) /\ drv' = [pc |-> "clear", pkt |-> p, slot |-> i]
                         /\ owned' = owned \cup {p}
  BY <1>4 DEF TxDone, Low
<1>6. i \in Low /\ mbufs[i] = p
  <2>1. mbufs[i] = p /\ i <= k
    BY <1>4, <1>5 DEF IsFirstSlot, Low
  <2>2. MaxQ \in Nat /\ k \in Slots /\ k # LastSlot
    BY <1>4, TxAssumption, ZenonT(60) DEF Low
  <2> QED  BY <2>1, <2>2 DEF Low, Slots, LastSlot
<1> DEFINE at2 == [at EXCEPT ![p] = "owner"]
<1>7. /\ Ghosts(at2, by) /\ at2[p] = "owner" /\ \A q \in Buffers \ {p} : at2[q] = at[q]
      /\ \A q \in owned : at2[q] = "owner"
      /\ \A q \in air \ {p} : at2[q] = "air"
      /\ QueueAt(global, at2, "global") /\ QueueAt(wlan, at2, "wlan")
      /\ disp.pkt # None => at2[disp.pkt] = DispPlace(disp.pc)
      /\ \A u \in Threads : enq[u].pc # "idle" => at2[enq[u].pkt] = enq[u].pc /\ by[enq[u].pkt] = u
  <2>1. \A u \in Threads : enq[u].pc # "air"
    BY <1>0 DEF TxTypes
  <2> QED  BY <1>0, <1>1, <1>3, <2>1, Moved, SMTT(60) DEF DispPlace, Places
<1> HIDE DEF at2
<1>8. drv' \in [pc : {"idle", "putq", "clear"}, pkt : Buffers \cup {None}, slot : Slots]
      /\ drv'.pc = "clear" /\ drv'.slot = i /\ drv'.pkt = p
  BY <1>5
<1>9. TxTypes'
  BY <1>0, <1>2, <1>5, <1>8, ZenonT(60) DEF TxTypes
<1>10. Located(at2, by)'
  <2>1. \A q \in air' : at2[q] = "air"
    BY <1>2, <1>7, ZenonT(60)
  <2> QED  BY <1>2, <1>5, <1>7, <1>8, <2>1, ZenonT(60) DEF Located
<1>11. Slotted(at2)'
  <2>1. /\ \A j \in Low : Held(j)' <=> Held(j) /\ j # i
        /\ Held(i)
    BY <1>2, <1>6, <1>8, TxAssumption, ZenonT(60) DEF Held
  <2>2. \A j \in Low : Held(j)' => mbufs[j] \in Buffers /\ mbufs[j] # p
    <3>1. \A j \in Low : Held(j) => mbufs[j] \in Buffers
      BY <1>0, ZenonT(60) DEF Held, Low, TxTypes
    <3> QED  BY <1>1, <1>6, <2>1, <3>1, ZenonT(60) DEF Slotted
  <2>3. \A q \in Buffers : at2[q] \in Moving => q # p /\ at[q] \in Moving
    BY <1>7, ZenonT(60) DEF Moving, Holding
  <2>4. \A q \in Buffers : at2[q] \in Moving => \E j \in Low : mbufs'[j] = q /\ Held(j)'
    BY <1>1, <1>2, <1>6, <2>1, <2>3, ZenonT(60) DEF Slotted
  <2>5. drv'.pc = "clear" => drv'.slot \in Low /\ mbufs'[drv'.slot] # None
    BY <1>2, <1>6, <1>8, TxAssumption
  <2>6. \A j \in Low : Held(j)' => at2[mbufs'[j]] \in Moving
    BY <1>1, <1>2, <1>7, <2>1, <2>2, ZenonT(60) DEF Slotted
  <2>7. \A j, l \in Low : Held(j)' /\ Held(l)' /\ mbufs'[j] = mbufs'[l] => j = l
    BY <1>1, <1>2, <2>1, ZenonT(60) DEF Slotted
  <2> QED  BY <2>4, <2>5, <2>6, <2>7, ZenonT(60) DEF Slotted
<1>12. Counted(at2)'
  <2>1. \A q \in Buffers : at2[q] \in Holding <=> at[q] \in Holding
    BY <1>3, <1>7 DEF Holding
  <2> QED  BY <1>1, <1>2, <2>1, CountKept, ZenonT(60)
<1> QED  BY <1>7, <1>9, <1>10, <1>11, <1>12, ZenonT(60) DEF TxInv

\* Nothing moves: mli_TX_Main wakes up or finds its queue empty, mli_Tick.
LEMMA NothingMoves ==
    ASSUME TxInv, UNCHANGED <<mbufs, free, global, wlan, enq, drv, air, owned>>,
           disp' = disp \/ (disp.pkt = None /\ disp'.pkt = None /\ disp'.pc \in {"idle", "get"}
                            /\ disp' \in [pc : {"idle", "get", "handlers", "getq", "putq"}, pkt : Buffers \cup {None}])
    PROVE  TxInv'
<1>0. TxTypes
  BY DEF TxInv
<1>1. PICK at, by : Ghosts(at, by) /\ Located(at, by) /\ Slotted(at) /\ Counted(at)
  BY DEF TxInv
<1>2. TxTypes'
  BY <1>0 DEF TxTypes
<1>3. Located(at, by)'
  BY <1>1 DEF Located
<1>4. Slotted(at)' /\ Counted(at)'
  BY <1>0, <1>1, SlotsKept, CountKept
<1> QED  BY <1>1, <1>2, <1>3, <1>4 DEF TxInv

\* Waking the dispatcher moves no packet.
LEMMA WakeInv ==
    ASSUME TxInv, Wake
    PROVE  TxInv'
<1>1. disp.pkt = None /\ disp \in [pc : {"idle", "get", "handlers", "getq", "putq"}, pkt : Buffers \cup {None}]
  BY DEF TxInv, TxTypes, Wake
<1>2. ASSUME NEW q, q = [disp EXCEPT !.pc = "get"]
      PROVE  q = [pc |-> "get", pkt |-> None]
  BY <1>1, <1>2
<1>3. disp' = [pc |-> "get", pkt |-> None]
  BY <1>2, Zenon DEF Wake
<1> QED  BY <1>1, <1>3, NothingMoves DEF Wake

\* mli_TX_Main takes a packet of the global queue.
LEMMA GetGlobalMoves ==
    ASSUME TxInv, GetGlobal, global # <<>>
    PROVE  TxInv'
<1>0. TxTypes
  BY DEF TxInv
<1>1. PICK at, by : Ghosts(at, by) /\ Located(at, by) /\ Slotted(at) /\ Counted(at)
  BY DEF TxInv
<1>2. global \in Seq(Buffers) /\ QueueAt(global, at, "global") /\ at \in [Buffers -> Places]
  BY <1>0, <1>1 DEF TxTypes, Located, Ghosts
<1>3. PICK p \in Buffers : p = Head(global)
  BY <1>2, QueueTail, Zenon
<1> DEFINE at2 == [at EXCEPT ![p] = "handlers"]
<1>4. /\ at[p] = "global" /\ Tail(global) \in Seq(Buffers) /\ QueueAt(Tail(global), at2, "global")
  BY <1>2, <1>3, QueueTail, Zenon
<1>5. /\ disp' = [pc |-> "handlers", pkt |-> p] /\ global' = Tail(global)
      /\ UNCHANGED <<mbufs, free, wlan, enq, drv, air, owned>>
  BY <1>3, ZenonT(60) DEF GetGlobal
<1>6. /\ Ghosts(at2, by) /\ at2[p] = "handlers" /\ \A q \in Buffers \ {p} : at2[q] = at[q]
      /\ \A q \in owned : at2[q] = "owner"
      /\ \A q \in air : at2[q] = "air"
      /\ QueueAt(wlan, at2, "wlan")
      /\ drv.pc = "putq" => at2[drv.pkt] = "driver"
      /\ \A u \in Threads : enq[u].pc # "idle" => at2[enq[u].pkt] = enq[u].pc /\ by[enq[u].pkt] = u
  <2>1. "handlers" \in Places
    BY DEF Places, Moving, Holding
  <2>2. \A u \in Threads : enq[u].pc \in {"idle", "return", "getq", "putq"}
    BY <1>0 DEF TxTypes
  <2> QED  BY <1>0, <1>1, <1>4, <2>1, <2>2, Moved DEF DispPlace
<1> HIDE DEF at2
<1>7. /\ disp'.pc = "handlers" /\ disp'.pkt = p /\ p # None
      /\ disp' \in [pc : {"idle", "get", "handlers", "getq", "putq"}, pkt : Buffers \cup {None}]
  BY <1>5, TxAssumption, ZenonT(60)
<1>8. TxTypes'
  BY <1>0, <1>4, <1>5, <1>7, ZenonT(60) DEF TxTypes
<1>9. Located(at2, by)'
  BY <1>4, <1>5, <1>6, <1>7, ZenonT(60) DEF Located, DispPlace
<1>10. \A q \in Buffers : (at2[q] \in Moving <=> at[q] \in Moving) /\ (at2[q] \in Holding <=> at[q] \in Holding)
  BY <1>4, <1>6, ZenonT(60) DEF Moving, Holding
<1>11. Slotted(at2)' /\ Counted(at2)'
  BY <1>0, <1>1, <1>5, <1>10, SlotsKept, CountKept, ZenonT(60)
<1> QED  BY <1>6, <1>8, <1>9, <1>11 DEF TxInv

\* The dispatcher takes the head of the global queue.
LEMMA GetGlobalInv ==
    ASSUME TxInv, GetGlobal
    PROVE  TxInv'
<1>0. TxTypes
  BY DEF TxInv
<1>1. PICK at, by : Ghosts(at, by) /\ Located(at, by) /\ Slotted(at) /\ Counted(at)
  BY DEF TxInv
<1>2. CASE global = <<>>
  <2>1. disp.pkt = None /\ disp' = Idle /\ UNCHANGED <<mbufs, free, global, wlan, enq, drv, air, owned>>
    BY <1>0, <1>2 DEF GetGlobal, TxTypes
  <2> QED  BY <2>1, NothingMoves, ZenonT(60) DEF Idle
<1>3. CASE global # <<>>
  <2> SUFFICES ASSUME global # <<>> PROVE TxInv'
    BY <1>3
  <2> HIDE <1>3
  <2> QED  BY GetGlobalMoves
<1> QED  BY <1>2, <1>3

\* The Tx handlers see a packet, whose element goes back to the free queue.
LEMMA HandlersInv ==
    ASSUME TxInv, Handlers
    PROVE  TxInv'
<1>0. TxTypes
  BY DEF TxInv
<1>1. PICK at, by : Ghosts(at, by) /\ Located(at, by) /\ Slotted(at) /\ Counted(at)
  BY DEF TxInv
<1>2. PICK p \in Buffers : p = disp.pkt
  BY <1>0 DEF TxTypes, Handlers
<1>3. at[p] = "handlers"
  BY <1>1, <1>2, TxAssumption DEF Located, DispPlace, Handlers
<1>4. free' = free + 1 /\ UNCHANGED <<mbufs, global, wlan, enq, drv, owned>>
  BY ZenonT(60) DEF Handlers
<1>5. CASE disp' = [pc |-> "get", pkt |-> None] /\ air' = air \cup {disp.pkt}
  <2> DEFINE at2 == [at EXCEPT ![p] = "air"]
  <2>6. /\ Ghosts(at2, by) /\ at2[p] = "air" /\ \A q \in Buffers \ {p} : at2[q] = at[q]
        /\ \A q \in owned : at2[q] = "owner"
        /\ \A q \in air : at2[q] = "air"
        /\ QueueAt(global, at2, "global")
        /\ QueueAt(wlan, at2, "wlan")
        /\ drv.pc = "putq" => at2[drv.pkt] = "driver"
        /\ \A u \in Threads : enq[u].pc # "idle" => at2[enq[u].pkt] = enq[u].pc /\ by[enq[u].pkt] = u
    <3>1. "air" \in Places
    BY DEF Places, Moving, Holding
    <3>2. \A u \in Threads : enq[u].pc \in {"idle", "return", "getq", "putq"}
    BY <1>0 DEF TxTypes
    <3> QED  BY <1>0, <1>1, <1>3, <3>1, <3>2, Moved DEF DispPlace
  <2> HIDE DEF at2
  <2>7. /\ disp'.pc = "get" /\ disp'.pkt = None
        /\ disp' \in [pc : {"idle", "get", "handlers", "getq", "putq"}, pkt : Buffers \cup {None}]
    BY <1>5
  <2>8. air' = air \cup {p}
    BY <1>2, <1>5, ZenonT(60)
  <2>9. /\ \A q \in Buffers : at2[q] \in Moving <=> at[q] \in Moving
        /\ \A q \in Buffers \ {p} : at2[q] \in Holding <=> at[q] \in Holding
        /\ at[p] \in Holding /\ at2[p] \notin Holding
    BY <1>3, <2>6, ZenonT(60) DEF Moving, Holding
  <2>10. Slotted(at2)' /\ Counted(at2)' /\ free' \in Nat
    BY <1>0, <1>1, <1>4, <2>9, SlotsKept, CountDown, ZenonT(60)
  <2>11. TxTypes'
    BY <1>0, <1>4, <2>7, <2>8, <2>10, ZenonT(60) DEF TxTypes
  <2>12. Located(at2, by)'
    BY <1>4, <2>6, <2>7, <2>8, ZenonT(60) DEF Located
  <2> QED  BY <2>6, <2>10, <2>11, <2>12, ZenonT(60) DEF TxInv
<1>6. CASE disp' = [disp EXCEPT !.pc = "getq"] /\ UNCHANGED air
  <2> DEFINE at2 == [at EXCEPT ![p] = "renew"]
  <2>6. /\ Ghosts(at2, by) /\ at2[p] = "renew" /\ \A q \in Buffers \ {p} : at2[q] = at[q]
        /\ \A q \in owned : at2[q] = "owner"
        /\ \A q \in air : at2[q] = "air"
        /\ QueueAt(global, at2, "global")
        /\ QueueAt(wlan, at2, "wlan")
        /\ drv.pc = "putq" => at2[drv.pkt] = "driver"
        /\ \A u \in Threads : enq[u].pc # "idle" => at2[enq[u].pkt] = enq[u].pc /\ by[enq[u].pkt] = u
    <3>1. "renew" \in Places
      BY DEF Places, Moving, Holding
    <3>2. \A u \in Threads : enq[u].pc \in {"idle", "return", "getq", "putq"}
      BY <1>0 DEF TxTypes
    <3> QED  BY <1>0, <1>1, <1>3, <3>1, <3>2, Moved DEF DispPlace
  <2> HIDE DEF at2
  <2>7. /\ disp'.pc = "getq" /\ disp'.pkt = p /\ p # None
        /\ disp' \in [pc : {"idle", "get", "handlers", "getq", "putq"}, pkt : Buffers \cup {None}]
    <3>1. disp \in [pc : {"idle", "get", "handlers", "getq", "putq"}, pkt : Buffers \cup {None}]
      BY <1>0, ZenonT(60) DEF TxTypes
    <3> QED  BY <1>2, <1>6, <3>1, TxAssumption, ZenonT(60)
  <2>9. /\ \A q \in Buffers : at2[q] \in Moving <=> at[q] \in Moving
        /\ \A q \in Buffers \ {p} : at2[q] \in Holding <=> at[q] \in Holding
        /\ at[p] \in Holding /\ at2[p] \notin Holding
    BY <1>3, <2>6, ZenonT(60) DEF Moving, Holding
  <2>10. Slotted(at2)' /\ Counted(at2)' /\ free' \in Nat
    BY <1>0, <1>1, <1>4, <2>9, SlotsKept, CountDown, ZenonT(60)
  <2>11. TxTypes'
    BY <1>0, <1>4, <1>6, <2>7, <2>10 DEF TxTypes
  <2>12. Located(at2, by)'
    BY <1>4, <1>6, <2>6, <2>7, ZenonT(60) DEF Located, DispPlace
  <2> QED  BY <2>6, <2>10, <2>11, <2>12, ZenonT(60) DEF TxInv
<1> QED  BY <1>5, <1>6 DEF Handlers

\* mli_TX_Main takes an element again, for the driver's queue.
LEMMA GetDispatchInv ==
    ASSUME TxInv, GetDispatch
    PROVE  TxInv'
<1>0. TxTypes
  BY DEF TxInv
<1>1. PICK at, by : Ghosts(at, by) /\ Located(at, by) /\ Slotted(at) /\ Counted(at)
  BY DEF TxInv
<1>2. PICK p \in Buffers : p = disp.pkt
  BY <1>0 DEF TxTypes, GetDispatch
<1> DEFINE at2 == [at EXCEPT ![p] = "forward"]
<1>3. at[p] = "renew"
  BY <1>1, <1>2, TxAssumption DEF Located, DispPlace, GetDispatch
<1>4. /\ free > 0 /\ free' = free - 1 /\ UNCHANGED <<mbufs, global, wlan, enq, drv, air, owned>>
  BY ZenonT(60) DEF GetDispatch
<1>5. /\ Ghosts(at2, by) /\ at2[p] = "forward" /\ \A q \in Buffers \ {p} : at2[q] = at[q]
      /\ \A q \in owned : at2[q] = "owner"
      /\ \A q \in air : at2[q] = "air"
      /\ QueueAt(global, at2, "global")
      /\ QueueAt(wlan, at2, "wlan")
      /\ drv.pc = "putq" => at2[drv.pkt] = "driver"
      /\ \A u \in Threads : enq[u].pc # "idle" => at2[enq[u].pkt] = enq[u].pc /\ by[enq[u].pkt] = u
  <2>1. "forward" \in Places
    BY DEF Places, Moving, Holding
  <2>2. \A u \in Threads : enq[u].pc \in {"idle", "return", "getq", "putq"}
    BY <1>0 DEF TxTypes
  <2> QED  BY <1>0, <1>1, <1>3, <2>1, <2>2, Moved DEF DispPlace
<1> HIDE DEF at2
<1>6. /\ disp'.pc = "putq" /\ disp'.pkt = p /\ p # None
      /\ disp' \in [pc : {"idle", "get", "handlers", "getq", "putq"}, pkt : Buffers \cup {None}]
  <2>1. disp \in [pc : {"idle", "get", "handlers", "getq", "putq"}, pkt : Buffers \cup {None}]
    BY <1>0 DEF TxTypes
  <2> QED  BY <1>2, <2>1, TxAssumption, ZenonT(60) DEF GetDispatch
<1>7. /\ \A q \in Buffers : at2[q] \in Moving <=> at[q] \in Moving
      /\ \A q \in Buffers \ {p} : at2[q] \in Holding <=> at[q] \in Holding
      /\ at[p] \notin Holding /\ at2[p] \in Holding
  BY <1>3, <1>5, ZenonT(60) DEF Moving, Holding
<1>8. Slotted(at2)' /\ Counted(at2)' /\ free' \in Nat
  BY <1>0, <1>1, <1>4, <1>7, SlotsKept, CountUp, ZenonT(60)
<1>9. TxTypes'
  BY <1>0, <1>4, <1>6, <1>8, ZenonT(60) DEF TxTypes
<1>10. Located(at2, by)'
  BY <1>4, <1>5, <1>6, ZenonT(60) DEF Located, DispPlace
<1> QED  BY <1>5, <1>8, <1>9, <1>10, ZenonT(60) DEF TxInv

\* It queues the packet for the driver.
LEMMA PutDispatchInv ==
    ASSUME TxInv, PutDispatch
    PROVE  TxInv'
<1>0. TxTypes
  BY DEF TxInv
<1>1. PICK at, by : Ghosts(at, by) /\ Located(at, by) /\ Slotted(at) /\ Counted(at)
  BY DEF TxInv
<1>2. PICK p \in Buffers : p = disp.pkt
  BY <1>0, ZenonT(60) DEF TxTypes, PutDispatch
<1> DEFINE at2 == [at EXCEPT ![p] = "wlan"]
<1>3. at[p] = "forward"
  BY <1>1, <1>2, TxAssumption DEF Located, DispPlace, PutDispatch
<1>4. /\ disp' = Idle /\ wlan' = Append(wlan, p) /\ UNCHANGED <<mbufs, free, global, enq, drv, air, owned>>
  BY <1>2 DEF PutDispatch
<1>5. Append(wlan, p) \in Seq(Buffers) /\ QueueAt(Append(wlan, p), at2, "wlan")
  <2>1. at \in [Buffers -> Places] /\ wlan \in Seq(Buffers) /\ QueueAt(wlan, at, "wlan") /\ at[p] # "wlan"
    BY <1>0, <1>1, <1>3, ZenonT(60) DEF Ghosts, TxTypes, Located
  <2> QED  BY <2>1, QueueAppend, ZenonT(60)
<1>6. /\ Ghosts(at2, by) /\ at2[p] = "wlan" /\ \A q \in Buffers \ {p} : at2[q] = at[q]
      /\ \A q \in owned : at2[q] = "owner"
      /\ \A q \in air : at2[q] = "air"
      /\ QueueAt(global, at2, "global")
      /\ drv.pc = "putq" => at2[drv.pkt] = "driver"
      /\ \A u \in Threads : enq[u].pc # "idle" => at2[enq[u].pkt] = enq[u].pc /\ by[enq[u].pkt] = u
  <2>1. "wlan" \in Places
    BY DEF Places, Moving, Holding
  <2>2. \A u \in Threads : enq[u].pc \in {"idle", "return", "getq", "putq"}
    BY <1>0 DEF TxTypes
  <2> QED  BY <1>0, <1>1, <1>3, <2>1, <2>2, Moved DEF DispPlace
<1> HIDE DEF at2
<1>7. /\ disp'.pc = "idle" /\ disp'.pkt = None
      /\ disp' \in [pc : {"idle", "get", "handlers", "getq", "putq"}, pkt : Buffers \cup {None}]
  BY <1>4, ZenonT(60) DEF Idle
<1>8. \A q \in Buffers : (at2[q] \in Moving <=> at[q] \in Moving) /\ (at2[q] \in Holding <=> at[q] \in Holding)
  BY <1>3, <1>6, ZenonT(60) DEF Moving, Holding
<1>9. Slotted(at2)' /\ Counted(at2)'
  BY <1>0, <1>1, <1>4, <1>8, SlotsKept, CountKept, ZenonT(60)
<1>10. TxTypes'
  BY <1>0, <1>4, <1>5, <1>7, ZenonT(60) DEF TxTypes
<1>11. Located(at2, by)'
  BY <1>4, <1>5, <1>6, <1>7, ZenonT(60) DEF Located
<1> QED  BY <1>6, <1>9, <1>10, <1>11, ZenonT(60) DEF TxInv

\* mli_getTxPktforWlan takes a packet of the driver's queue.
LEMMA GetWlanInv ==
    ASSUME TxInv, GetWlan
    PROVE  TxInv'
<1>0. TxTypes
  BY DEF TxInv
<1>1. PICK at, by : Ghosts(at, by) /\ Located(at, by) /\ Slotted(at) /\ Counted(at)
  BY DEF TxInv
<1>2. wlan \in Seq(Buffers) /\ QueueAt(wlan, at, "wlan") /\ at \in [Buffers -> Places] /\ wlan # <<>>
  BY <1>0, <1>1 DEF TxTypes, Located, Ghosts, GetWlan
<1>3. PICK p \in Buffers : p = Head(wlan)
  BY <1>2, QueueTail, Zenon
<1> DEFINE at2 == [at EXCEPT ![p] = "driver"]
<1>4. /\ at[p] = "wlan" /\ Tail(wlan) \in Seq(Buffers) /\ QueueAt(Tail(wlan), at2, "wlan")
  BY <1>2, <1>3, QueueTail, Zenon
<1>5. /\ wlan' = Tail(wlan) /\ UNCHANGED <<mbufs, free, global, enq, disp, air, owned>>
  BY ZenonT(60) DEF GetWlan
<1>6. /\ Ghosts(at2, by) /\ at2[p] = "driver" /\ \A q \in Buffers \ {p} : at2[q] = at[q]
      /\ \A q \in owned : at2[q] = "owner"
      /\ \A q \in air : at2[q] = "air"
      /\ QueueAt(global, at2, "global")
      /\ disp.pkt # None => at2[disp.pkt] = DispPlace(disp.pc)
      /\ \A u \in Threads : enq[u].pc # "idle" => at2[enq[u].pkt] = enq[u].pc /\ by[enq[u].pkt] = u
  <2>1. "driver" \in Places
    BY DEF Places, Moving, Holding
  <2>2. \A u \in Threads : enq[u].pc \in {"idle", "return", "getq", "putq"}
    BY <1>0 DEF TxTypes
  <2> QED  BY <1>0, <1>1, <1>4, <2>1, <2>2, Moved, SMTT(60) DEF DispPlace
<1> HIDE DEF at2
<1>7. /\ drv.pc = "idle" /\ drv'.pc = "putq" /\ drv'.pkt = p
      /\ drv' \in [pc : {"idle", "putq", "clear"}, pkt : Buffers \cup {None}, slot : Slots]
  <2>1. drv \in [pc : {"idle", "putq", "clear"}, pkt : Buffers \cup {None}, slot : Slots]
    BY <1>0 DEF TxTypes
  <2> QED  BY <1>3, <2>1, ZenonT(60) DEF GetWlan
<1>8. \A q \in Buffers : (at2[q] \in Moving <=> at[q] \in Moving) /\ (at2[q] \in Holding <=> at[q] \in Holding)
  BY <1>4, <1>6 DEF Moving, Holding
<1>9. Slotted(at2)' /\ Counted(at2)'
  BY <1>0, <1>1, <1>5, <1>7, <1>8, SlotsKept, CountKept, ZenonT(60)
<1>10. TxTypes'
  BY <1>0, <1>4, <1>5, <1>7, ZenonT(60) DEF TxTypes
<1>11. Located(at2, by)'
  BY <1>4, <1>5, <1>6, <1>7, ZenonT(60) DEF Located
<1> QED  BY <1>6, <1>9, <1>10, <1>11, ZenonT(60) DEF TxInv

\* It gives the element back.
LEMMA PutWlanInv ==
    ASSUME TxInv, PutWlan
    PROVE  TxInv'
<1>0. TxTypes
  BY DEF TxInv
<1>1. PICK at, by : Ghosts(at, by) /\ Located(at, by) /\ Slotted(at) /\ Counted(at)
  BY DEF TxInv
<1>2. PICK p \in Buffers : p = drv.pkt
  BY <1>0 DEF TxTypes, PutWlan
<1> DEFINE at2 == [at EXCEPT ![p] = "air"]
<1>3. at[p] = "driver"
  BY <1>1, <1>2 DEF Located, PutWlan
<1>4. /\ free' = free + 1 /\ air' = air \cup {p} /\ UNCHANGED <<mbufs, global, wlan, enq, disp, owned>>
  BY <1>2, ZenonT(60) DEF PutWlan
<1>5. /\ Ghosts(at2, by) /\ at2[p] = "air" /\ \A q \in Buffers \ {p} : at2[q] = at[q]
      /\ \A q \in owned : at2[q] = "owner"
      /\ \A q \in air : at2[q] = "air"
      /\ QueueAt(global, at2, "global")
      /\ QueueAt(wlan, at2, "wlan")
      /\ disp.pkt # None => at2[disp.pkt] = DispPlace(disp.pc)
      /\ \A u \in Threads : enq[u].pc # "idle" => at2[enq[u].pkt] = enq[u].pc /\ by[enq[u].pkt] = u
  <2>1. "air" \in Places
    BY DEF Places, Moving, Holding
  <2>2. \A u \in Threads : enq[u].pc \in {"idle", "return", "getq", "putq"}
    BY <1>0 DEF TxTypes
  <2> QED  BY <1>0, <1>1, <1>3, <2>1, <2>2, Moved DEF DispPlace
<1> HIDE DEF at2
<1>6. /\ drv.pc = "putq" /\ drv'.pc = "idle"
      /\ drv' \in [pc : {"idle", "putq", "clear"}, pkt : Buffers \cup {None}, slot : Slots]
  <2>1. drv \in [pc : {"idle", "putq", "clear"}, pkt : Buffers \cup {None}, slot : Slots]
    BY <1>0 DEF TxTypes
  <2> QED  BY <2>1, ZenonT(60) DEF PutWlan
<1>7. /\ \A q \in Buffers : at2[q] \in Moving <=> at[q] \in Moving
      /\ \A q \in Buffers \ {p} : at2[q] \in Holding <=> at[q] \in Holding
      /\ at[p] \in Holding /\ at2[p] \notin Holding
  BY <1>3, <1>5, ZenonT(60) DEF Moving, Holding
<1>8. Slotted(at2)' /\ Counted(at2)' /\ free' \in Nat
  BY <1>0, <1>1, <1>4, <1>6, <1>7, SlotsKept, CountDown, ZenonT(60)
<1>9. TxTypes'
  BY <1>0, <1>4, <1>6, <1>8, ZenonT(60) DEF TxTypes
<1>10. Located(at2, by)'
  BY <1>4, <1>5, <1>6, ZenonT(60) DEF Located
<1> QED  BY <1>5, <1>8, <1>9, <1>10, ZenonT(60) DEF TxInv

\* mli_HandleTxDone clears the slot of a packet it gave back.
LEMMA TxDoneClearInv ==
    ASSUME TxInv, TxDoneClear
    PROVE  TxInv'
<1>0. TxTypes
  BY DEF TxInv
<1>1. PICK at, by : Ghosts(at, by) /\ Located(at, by) /\ Slotted(at) /\ Counted(at)
  BY DEF TxInv
<1>2. PICK k \in Slots : k = drv.slot
  BY <1>0, ZenonT(60) DEF TxTypes
<1>3. /\ drv.pc = "clear" /\ mbufs' = [mbufs EXCEPT ![k] = None] /\ mbufs'[k] = None
      /\ \A i \in Slots \ {k} : mbufs'[i] = mbufs[i]
      /\ UNCHANGED <<free, global, wlan, enq, disp, air, owned>>
  BY <1>0, <1>2 DEF TxDoneClear, TxTypes
<1>4. 0 \in Slots
  BY TxAssumption DEF Slots
<1>5. /\ drv'.pc = "idle" /\ drv' \in [pc : {"idle", "putq", "clear"}, pkt : Buffers \cup {None}, slot : Slots]
  BY <1>4, ZenonT(60) DEF TxDoneClear
<1>6. TxTypes'
  BY <1>0, <1>3, <1>5, ZenonT(60) DEF TxTypes
<1>7. Located(at, by)'
  BY <1>1, <1>3, <1>5, ZenonT(60) DEF Located
<1>8. \A i \in Slots : (Held(i)' <=> Held(i)) /\ (Held(i) => mbufs'[i] = mbufs[i])
  BY <1>2, <1>3, <1>5, ZenonT(60) DEF Held
<1>9. Slotted(at)'
  BY <1>1, <1>5, <1>8 DEF Slotted, Low
<1>10. Counted(at)'
  BY <1>1, <1>3, CountKept
<1> QED  BY <1>1, <1>6, <1>7, <1>9, <1>10, ZenonT(60) DEF TxInv

-----------------------------------------------------------------------------
(* The invariant, and the two properties. *)

\* At the start every packet is with its owner and every element is free.
LEMMA InitTxInv == Init => TxInv
<1> SUFFICES ASSUME Init PROVE TxInv
  OBVIOUS
<1> DEFINE at == [p \in Buffers |-> "owner"]
           by == [p \in Buffers |-> None]
<1>1. 0 \in Slots
  BY TxAssumption, SMTT(60) DEF Slots
<1>2. TxTypes
  BY <1>1, TxAssumption DEF Init, TxInit, TxTypes, Idle
<1>3. Ghosts(at, by)
  BY ZenonT(60) DEF Ghosts, Places
<1>4. Located(at, by)
  BY SMTT(60) DEF Located, QueueAt, Init, TxInit, Idle
<1>5. Slotted(at)
  BY DEF Slotted, Held, Low, Moving, Holding, Init, TxInit
<1>6. Counted(at)
  <2>1. Holders(at) = {}
    BY DEF Holders, Holding
  <2>2. IsFiniteSet(Holders(at)) /\ Cardinality(Holders(at)) = 0
    BY <2>1, FS_EmptySet, Zenon
  <2>3. free = MaxQ /\ MaxQ = MaxQ - 0
    BY TxAssumption DEF Init, TxInit
  <2> QED  BY <2>2, <2>3, Zenon DEF Counted
<1> HIDE DEF at, by
<1> QED  BY <1>2, <1>3, <1>4, <1>5, <1>6 DEF TxInv

\* Every step keeps the invariant of the transmit path.
LEMMA StepTxInv == TxInv /\ [Next]_vars => TxInv'
<1> SUFFICES ASSUME TxInv, [Next]_vars PROVE TxInv'
  OBVIOUS
<1> USE DEF txvars
<1>1. ASSUME UNCHANGED txvars PROVE TxInv'
  BY <1>1, NothingMoves
<1>2. ASSUME NEW s \in Peers, AddSTAEntry(s) \/ RxHandler(s) PROVE TxInv'
  BY <1>1, <1>2 DEF AddSTAEntry, RxHandler
<1>3. ASSUME NEW s \in Peers, NEW p \in PeerBuffers, GetTxFreeBuffer(s, p) PROVE TxInv'
  BY <1>1, <1>3 DEF GetTxFreeBuffer
<1>4. ASSUME SendTxBuffer \/ AppIe \/ Drain \/ RxIe PROVE TxInv'
  BY <1>1, <1>4 DEF SendTxBuffer, AppIe, Drain, RxIe
<1>5. CASE Enqueue
  <2>1. Register("rx", rx.pkt) /\ rx.pkt \in owned /\ owned \subseteq Buffers
    BY <1>5 DEF Enqueue, Register, TxInv, TxTypes
  <2>2. PICK p \in Buffers : p = rx.pkt
    BY <2>1
  <2>3. Register("rx", p)
    BY <2>1, <2>2, Zenon
  <2>4. "rx" \in Threads
    BY PeerAssumption
  <2> QED  BY <2>3, <2>4, RegisterInv, ZenonT(60)
<1>6. ASSUME NEW p \in Buffers, HostEnqueue(p) PROVE TxInv'
  BY <1>6, RegisterInv, PeerAssumption DEF HostEnqueue
<1>7. ASSUME NEW p \in Buffers, Done(p) PROVE TxInv'
  BY <1>7, TxDoneInv DEF Done
<1>8. ASSUME NEW t \in Threads, Put(t) \/ Return(t) PROVE TxInv'
  BY <1>8, GetElementInv, PutElementInv, RefuseInv DEF Put, Return
<1>9. CASE Dispatch
  BY <1>9, WakeInv, GetGlobalInv, HandlersInv, GetDispatchInv, PutDispatchInv DEF Dispatch
<1>10. CASE Driver
  BY <1>10, GetWlanInv, PutWlanInv, TxDoneClearInv, ZenonT(60) DEF Driver
<1>11. CASE Ticks
  BY <1>11, NothingMoves DEF Ticks, Tick
<1>12. CASE UNCHANGED vars
  BY <1>1, <1>12, ZenonT(60) DEF vars
<1> QED  BY <1>2, <1>3, <1>4, <1>5, <1>6, <1>7, <1>8, <1>9, <1>10, <1>11, <1>12, ZenonT(60) DEF Next

\* The packets of InFlight are those on their way.
LEMMA InFlightMoving ==
    ASSUME TxTypes, NEW at, NEW by, Located(at, by), NEW p \in InFlight \ {None}
    PROVE  p \in Buffers /\ at[p] \in Moving
<1>1. CASE p \in Range(global) \/ p \in Range(wlan)
  <2>1. \A i \in DOMAIN global : global[i] \in Buffers /\ at[global[i]] = "global"
    BY SMTT(60) DEF TxTypes, Located, QueueAt
  <2>2. \A i \in DOMAIN wlan : wlan[i] \in Buffers /\ at[wlan[i]] = "wlan"
    BY SMTT(60) DEF TxTypes, Located, QueueAt
  <2> QED  BY <1>1, <2>1, <2>2, ZenonT(60) DEF Range, Moving, Holding
<1>2. CASE p \in air
  BY <1>2, ZenonT(60) DEF TxTypes, Located, Moving
<1>3. CASE p = disp.pkt
  BY <1>3, ZenonT(60) DEF TxTypes, Located, DispPlace, Moving, Holding
<1>4. CASE drv.pc = "putq" /\ p = drv.pkt
  BY <1>4, ZenonT(60) DEF TxTypes, Located, Moving, Holding
<1>5. ASSUME NEW t \in Threads, enq[t].pc \in {"getq", "putq"}, p = enq[t].pkt
      PROVE  p \in Buffers /\ at[p] \in Moving
  BY <1>5, ZenonT(60) DEF TxTypes, Located, Moving, Holding
<1> QED  BY <1>1, <1>2, <1>3, <1>4, <1>5, ZenonT(60) DEF InFlight

\* The invariant accounts for every packet in flight.
LEMMA InvAccounted == TxInv => Accounted
<1> SUFFICES ASSUME TxInv, NEW p \in InFlight \ {None}
             PROVE  /\ p \notin owned
                    /\ Cardinality({i \in Slots \ {LastSlot} : mbufs[i] = p /\ ~(drv.pc = "clear" /\ drv.slot = i)}) = 1
  BY DEF Accounted
<1>0. TxTypes
  BY DEF TxInv
<1>1. PICK at, by : Ghosts(at, by) /\ Located(at, by) /\ Slotted(at) /\ Counted(at)
  BY DEF TxInv
<1>2. p \in Buffers /\ at[p] \in Moving
  BY <1>0, <1>1, InFlightMoving, ZenonT(60)
<1>3. p \notin owned
  BY <1>1, <1>2, ZenonT(60) DEF Located, Moving, Holding
<1>4. PICK i \in Low : mbufs[i] = p /\ Held(i)
  BY <1>1, <1>2 DEF Slotted
<1> DEFINE S == {j \in Slots \ {LastSlot} : mbufs[j] = p /\ ~(drv.pc = "clear" /\ drv.slot = j)}
<1>5. p # None
  BY ZenonT(60)
<1>6. S = {i}
  <2>1. \A j \in S : j \in Low /\ Held(j) /\ mbufs[j] = mbufs[i]
    BY <1>4, <1>5, ZenonT(60) DEF Low, Held
  <2>2. i \in S
    BY <1>4, ZenonT(60) DEF Low, Held
  <2> QED  BY <1>1, <1>4, <2>1, <2>2, SMTT(60) DEF Slotted
<1>7. Cardinality(S) = 1
  BY <1>6, FS_Singleton, ZenonT(60)
<1> QED  BY <1>3, <1>7

\* The last slot is never used and a waiting packet has no element, so at least one
\* element is free.
LEMMA InvElementLeft == TxInv => ElementLeft
<1> SUFFICES ASSUME TxInv, disp.pc = "getq" \/ \E t \in Threads : enq[t].pc = "getq" PROVE free > 0
  BY DEF ElementLeft
<1>0. TxTypes
  BY DEF TxInv
<1>1. PICK at, by : Ghosts(at, by) /\ Located(at, by) /\ Slotted(at) /\ Counted(at)
  BY DEF TxInv
<1>2. PICK p \in Buffers : at[p] \in {"renew", "getq"}
  <2>1. CASE disp.pc = "getq"
    <3>1. disp.pkt \in Buffers /\ disp.pkt # None
      BY <1>0, <2>1, ZenonT(60) DEF TxTypes
    <3> QED  BY <1>1, <2>1, <3>1, ZenonT(60) DEF Located, DispPlace
  <2>2. ASSUME NEW t \in Threads, enq[t].pc = "getq" PROVE \E q \in Buffers : at[q] \in {"renew", "getq"}
    <3>1. enq[t].pkt \in Buffers
      BY <1>0, <2>2, ZenonT(60) DEF TxTypes
    <3> QED  BY <1>1, <2>2, <3>1, ZenonT(60) DEF Located
  <2> QED  BY <2>1, <2>2, ZenonT(60)
<1> DEFINE H == Holders(at) \cup {p}
           f == [i \in Low |-> mbufs[i]]
           S == {mbufs[i] : i \in Low}
<1>3. IsFiniteSet(H) /\ Cardinality(H) = Cardinality(Holders(at)) + 1
  <2>1. p \notin Holders(at)
    BY <1>2 DEF Holders, Holding
  <2> QED  BY <1>1, <2>1, FS_AddElement DEF Counted
<1>4. IsFiniteSet(Low) /\ Cardinality(Low) = MaxQ - 1
  <2>1. IsFiniteSet(Slots) /\ Cardinality(Slots) = MaxQ
    <3>1. 0 \in Int /\ MaxQ - 1 \in Int /\ ~(0 > MaxQ - 1) /\ MaxQ - 1 - 0 + 1 = MaxQ
      BY TxAssumption
    <3>2. /\ IsFiniteSet(Slots)
          /\ Cardinality(Slots) = IF 0 > MaxQ - 1 THEN 0 ELSE MaxQ - 1 - 0 + 1
      BY <3>1, FS_Interval, ZenonT(60) DEF Slots
    <3> QED  BY <3>1, <3>2, ZenonT(60)
  <2>2. LastSlot \in Slots
    BY TxAssumption, SMTT(60) DEF Slots, LastSlot
  <2> QED  BY <2>1, <2>2, FS_RemoveElement, SMTT(60) DEF Low
<1>5. IsFiniteSet(S) /\ Cardinality(S) <= MaxQ - 1
  <2>1. f \in Surjection(Low, S)
    BY ZenonT(60) DEF Surjection
  <2> HIDE DEF f, S
  <2> QED  BY <1>4, <2>1, FS_Surjection, ZenonT(120)
<1>6. H \subseteq S
  <2>1. \A q \in H : q \in Buffers /\ at[q] \in Moving
    BY <1>2 DEF Holders, Moving
  <2> QED  BY <1>1, <2>1 DEF Slotted
<1>7. Cardinality(H) <= MaxQ - 1
  <2>1. Cardinality(H) <= Cardinality(S)
    BY <1>5, <1>6, FS_Subset, ZenonT(60)
  <2>2. Cardinality(H) \in Nat /\ Cardinality(S) \in Nat /\ MaxQ \in Nat
    BY <1>3, <1>5, FS_CardinalityType, TxAssumption, ZenonT(60)
  <2> QED  BY <1>5, <2>1, <2>2, SMTT(60)
<1>8. Cardinality(Holders(at)) \in Nat /\ MaxQ \in Nat
  BY <1>1, FS_CardinalityType, TxAssumption DEF Counted
<1>9. free = MaxQ - Cardinality(Holders(at))
  BY <1>1 DEF Counted
<1> HIDE DEF H
<1> QED  BY <1>3, <1>7, <1>8, <1>9, SMTT(60)

\* Whoever takes an element of mli_TxFreeQueue finds one, whatever the number of
\* threads, packets and elements: mli_TxDataEnqueue and mli_TX_Main use the result of
\* getq without a test.
THEOREM ElementAlwaysLeft == Spec => []ElementLeft
<1>1. TxInv => ElementLeft
  BY InvElementLeft
<1> QED  BY <1>1, InitTxInv, StepTxInv, PTL DEF Spec

\* A packet on its way always has exactly one slot below the last and is not with its
\* owner: mli_HandleTxDone gives each packet back once.
THEOREM PacketsAccounted == Spec => []Accounted
<1>1. TxInv => Accounted
  BY InvAccounted
<1> QED  BY <1>1, InitTxInv, StepTxInv, PTL DEF Spec

-----------------------------------------------------------------------------
(* The beacon. *)

Pending(s) == txq[s] # <<>>

\* Whoever looks at the stations from i on still finds those the array e lacks.
ListedBefore(i, e) ==
    \A s \in Peers : Pending(s) => s \in Range(e) \/ \E j \in DOMAIN stas : j >= i /\ stas[j] = s

AllListed(e) == \A s \in Peers : Pending(s) => s \in Range(e)

Pcs == {"idle", "send", "drain", "enqueue", "ie_start", "ie_test", "ie_add", "ie_publish"}

Thread == [pc : Pcs, sta : Peers \cup {None}, pkt : Buffers \cup {None}, i : Nat]

\* The index of a thread, and what the thread may rely on while it runs.
IndexOK(th) ==
    /\ th.pc \in {"ie_test", "ie_add"} => th.i >= 1
    /\ th.pc = "ie_add" => th.i \in DOMAIN stas

Relies(th, e) ==
    /\ th.pc \in {"ie_test", "ie_add"} => ListedBefore(th.i, e)
    /\ th.pc = "ie_publish" => AllListed(e)

PTypes ==
    /\ stas \in Seq(Peers)
    /\ ie \in Seq(Peers)
    /\ txq \in [Peers -> Seq(Buffers)]
    /\ app \in Thread
    /\ rx \in Thread

\* Queued data belongs to stations of the table; the thread that runs may rely on
\* the array; and when none does, the beacon is complete.
PInv ==
    /\ PTypes
    /\ app.pc = "send" => app.sta \in Range(stas) /\ app.pkt \in Buffers
    /\ rx.pc \in {"drain", "enqueue"} => rx.sta \in Peers
    /\ \A s \in Peers : Pending(s) => s \in Range(stas)
    /\ IndexOK(app) /\ IndexOK(rx)
    /\ rx.pc # "idle" => Relies(rx, ie)
    /\ rx.pc = "idle" => Relies(app, ie)
    /\ PendingAdvertised

-----------------------------------------------------------------------------
\* update_peersta_IE renews the array: one step of the thread th keeps what the
\* thread relies on, and publishes a complete array.
LEMMA IeStep ==
    ASSUME PTypes, \A s \in Peers : Pending(s) => s \in Range(stas),
           NEW th \in Thread,
           NEW th2, IndexOK(th), Relies(th, ie), IeNext(th, th2), UNCHANGED <<stas, txq>>
    PROVE  /\ ie' \in Seq(Peers)
           /\ th2 \in Thread
           /\ IndexOK(th2) /\ Relies(th2, ie')
           /\ th2.pc \in {"idle", "ie_test", "ie_add", "ie_publish"}
           /\ th2.pc = "idle" => AllListed(ie') /\ \A s \in Peers : Pending(s) => s \in beacon'
<1>1. CASE th.pc = "ie_start"
  <2>1. ie' = <<>> /\ th2 = IeStart(th)
    BY <1>1 DEF IeNext
  <2>2. th2.pc = "ie_test" /\ th2.i = 1 /\ th2.sta = th.sta /\ th2.pkt = th.pkt
        /\ th2 \in Thread
    BY <2>1, Zenon DEF IeStart, Thread, Pcs
  <2>3. ListedBefore(1, ie')
    BY <2>1 DEF ListedBefore, Pending, Range, PTypes
  <2> QED  BY <2>1, <2>2, <2>3 DEF IndexOK, Relies, PTypes
<1>2. CASE th.pc = "ie_test"
  <2>0. ie' = ie /\ th2 = IeTest(th) /\ ListedBefore(th.i, ie)
    BY <1>2 DEF IeNext, Relies
  <2>a. th.i \in Nat /\ th.i >= 1
    BY <1>2 DEF Thread, IndexOK
  <2>1. CASE th.i > Len(stas)
    <3>1. th2 = [th EXCEPT !.pc = "ie_publish"]
      BY <2>0, <2>1 DEF IeTest
    <3>2. AllListed(ie)
      <4>1. \A j \in DOMAIN stas : j \in Nat /\ j <= Len(stas)
        BY DEF PTypes
      <4>2. \A j \in DOMAIN stas : ~(j >= th.i)
        BY <2>1, <2>a, <4>1 DEF PTypes
      <4> QED  BY <2>0, <4>2 DEF ListedBefore, AllListed
    <3>3. AllListed(ie')
      BY <2>0, <3>2 DEF AllListed, Pending
    <3>4. th2 \in Thread /\ th2.pc = "ie_publish"
      BY <3>1 DEF Thread, Pcs
    <3> QED  BY <2>0, <3>3, <3>4 DEF PTypes, IndexOK, Relies
  <2>2. CASE ~(th.i > Len(stas)) /\ txq[stas[th.i]] # <<>>
    <3>1. th2 = [th EXCEPT !.pc = "ie_add"]
      BY <2>0, <2>2, SMTT(60) DEF IeTest
    <3>2. ListedBefore(th.i, ie')
      BY <2>0 DEF ListedBefore, Pending
    <3>3. th2 \in Thread /\ th2.pc = "ie_add" /\ th2.i = th.i
      BY <3>1 DEF Thread, Pcs
    <3>4. th.i \in DOMAIN stas
      BY <2>2, <2>a DEF PTypes
    <3> QED  BY <2>0, <2>a, <3>2, <3>3, <3>4 DEF PTypes, IndexOK, Relies
  <2>3. CASE ~(th.i > Len(stas)) /\ txq[stas[th.i]] = <<>>
    <3>1. th2 = [th EXCEPT !.i = th.i + 1]
      BY <2>0, <2>3 DEF IeTest
    <3>2. ListedBefore(th.i + 1, ie')
      <4>1. \A j \in DOMAIN stas : j >= th.i /\ Pending(stas[j]) => j >= th.i + 1
        BY <2>3, <2>a DEF Pending, PTypes
      <4> QED  BY <2>0, <4>1, Zenon DEF ListedBefore, Pending
    <3>3. th2 \in Thread /\ th2.pc = "ie_test" /\ th2.i = th.i + 1
      BY <1>2, <2>a, <3>1 DEF Thread, Pcs
    <3> QED  BY <2>0, <2>a, <3>2, <3>3 DEF PTypes, IndexOK, Relies
  <2> QED  BY <2>1, <2>2, <2>3
<1>3. CASE th.pc = "ie_add"
  <2>1. /\ ie' = Append(ie, stas[th.i]) /\ th2 = [th EXCEPT !.pc = "ie_test", !.i = th.i + 1]
        /\ ListedBefore(th.i, ie) /\ th.i \in DOMAIN stas /\ th.i \in Nat /\ th.i >= 1
    BY <1>3 DEF IeNext, IndexOK, Relies, Thread
  <2>2. stas[th.i] \in Peers
    BY <2>1 DEF PTypes
  <2>3. ie' \in Seq(Peers)
    BY <2>1, <2>2 DEF PTypes
  <2>4. \A s \in Range(ie) \cup {stas[th.i]} : s \in Range(ie')
    <3>1. /\ Len(ie') = Len(ie) + 1 /\ Len(ie) \in Nat /\ DOMAIN ie = 1 .. Len(ie)
          /\ DOMAIN ie' = 1 .. Len(ie')
          /\ ie'[Len(ie) + 1] = stas[th.i]
          /\ \A j \in 1 .. Len(ie) : ie'[j] = ie[j]
      BY <2>1, <2>2 DEF PTypes
    <3> QED  BY <3>1 DEF Range
  <2>5. ListedBefore(th.i + 1, ie')
    <3>1. \A j \in DOMAIN stas : j >= th.i => j >= th.i + 1 \/ j = th.i
      BY <2>1, SMTT(30) DEF PTypes
    <3> QED  BY <2>1, <2>4, <3>1, ZenonT(60) DEF ListedBefore, Pending
  <2>6. th2 \in Thread /\ th2.pc = "ie_test" /\ th2.i = th.i + 1
    <3>1. th.i + 1 \in Nat
      BY <2>1
    <3> QED  BY <2>1, <3>1, Zenon DEF Thread, Pcs
  <2> QED  BY <2>1, <2>3, <2>5, <2>6 DEF IndexOK, Relies
<1>4. CASE th.pc = "ie_publish"
  <2>1. ie' = ie /\ beacon' = Range(ie) /\ th2 = Out /\ AllListed(ie)
    BY <1>4 DEF IeNext, Relies
  <2>2. th2 \in Thread /\ th2.pc = "idle"
    BY <2>1, SMTT(60) DEF Out, Thread, Pcs
  <2> QED  BY <2>1, <2>2 DEF AllListed, PTypes, IndexOK, Relies
<1> QED  BY <1>1, <1>2, <1>3, <1>4 DEF IeNext

\* The transmit path below leaves what the peer station API keeps alone.
LEMMA Untouched ==
    ASSUME PInv, UNCHANGED <<stas, txq, app, rx, ie, beacon>>
    PROVE  PInv'
BY SMTT(60) DEF PInv, PTypes, IndexOK, Relies, ListedBefore, AllListed, Pending, PendingAdvertised

\* The receive task drains a queue: queues only get shorter, and the array is not
\* relied on before update_peersta_IE starts (peersta_rx_handler, empty_tx_q).
LEMMA RxRuns ==
    ASSUME PInv, txq' \in [Peers -> Seq(Buffers)],
           \A s \in Peers : Pending(s)' => Pending(s),
           rx' \in Thread, rx'.pc \in {"drain", "enqueue", "ie_start"},
           rx'.pc \in {"drain", "enqueue"} => rx'.sta \in Peers,
           UNCHANGED <<stas, app, ie, beacon>>
    PROVE  PInv'
<1>1. PTypes'
  BY DEF PInv, PTypes
<1> QED  BY <1>1, ZenonT(60) DEF PInv, IndexOK, Relies, Pending, PendingAdvertised

\* Every step of the composition keeps the invariant.
LEMMA StepPInv == PInv /\ [Next]_vars => PInv'
<1> SUFFICES ASSUME PInv, [Next]_vars PROVE PInv'
  OBVIOUS
<1>0. /\ PTypes /\ app \in Thread /\ rx \in Thread
      /\ \A s \in Peers : Pending(s) => s \in Range(stas)
  BY SMTT(60) DEF PInv, PTypes
<1>1. ASSUME NEW s \in Peers, AddSTAEntry(s)
      PROVE  PInv'
  <2>1. /\ stas' = Append(stas, s) /\ UNCHANGED <<txq, app, rx, ie, beacon>>
    BY <1>1, SMTT(60) DEF AddSTAEntry
  <2>2. /\ stas' \in Seq(Peers) /\ DOMAIN stas \subseteq DOMAIN stas'
        /\ \A j \in DOMAIN stas : stas'[j] = stas[j]
    BY <1>0, <2>1, SMTT(60) DEF PTypes
  <2>3. Range(stas) \subseteq Range(stas')
    BY <2>2, ZenonT(60) DEF Range
  <2>4. /\ ListedBefore(app.i, ie) => ListedBefore(app.i, ie)'
        /\ ListedBefore(rx.i, ie) => ListedBefore(rx.i, ie)'
    BY <2>1, <2>2, Zenon DEF ListedBefore, Pending
  <2>5. /\ Relies(app, ie) => Relies(app, ie)'
        /\ Relies(rx, ie) => Relies(rx, ie)'
    BY <2>1, <2>4, ZenonT(60) DEF Relies, AllListed, Pending
  <2>6. PTypes' /\ IndexOK(app)' /\ IndexOK(rx)'
    BY <1>0, <2>1, <2>2 DEF PInv, PTypes, IndexOK
  <2> QED  BY <2>1, <2>3, <2>5, <2>6, SMTT(30) DEF PInv, Pending, PendingAdvertised
<1>2. ASSUME NEW s \in Peers, RxHandler(s)
      PROVE  PInv'
  <2>1. rx' \in Thread /\ rx'.pc = "drain" /\ rx'.sta = s
    BY <1>2, Zenon DEF RxHandler, Out, Thread, Pcs
  <2> QED  BY <1>0, <1>2, <2>1, RxRuns, SMTT(30) DEF RxHandler, PTypes, Pending
<1>3. ASSUME NEW s \in Peers, NEW p \in PeerBuffers, GetTxFreeBuffer(s, p)
      PROVE  PInv'
  <2>1. p \in Buffers
    BY PeerAssumption DEF PeerBuffers
  <2>2. app' \in Thread /\ app'.pc = "send" /\ app'.sta = s /\ app'.pkt = p
    BY <1>3, <2>1, Zenon DEF GetTxFreeBuffer, Out, Thread, Pcs
  <2>3. s \in Range(stas) /\ rx.pc = "idle" /\ UNCHANGED <<stas, txq, rx, ie, beacon>>
    BY <1>3, SMTT(60) DEF GetTxFreeBuffer, IdleTask
  <2> QED  BY <1>0, <2>1, <2>2, <2>3 DEF PInv, PTypes, IndexOK, Relies, Pending, PendingAdvertised
<1>4. CASE SendTxBuffer
  <2>1. app' \in Thread /\ app'.pc = "ie_start"
    BY <1>4 DEF SendTxBuffer, Out, Thread, Pcs
  <2>2. /\ rx.pc = "idle" /\ app.sta \in Range(stas) /\ app.pkt \in Buffers
        /\ txq' = [txq EXCEPT ![app.sta] = Append(@, app.pkt)]
        /\ UNCHANGED <<stas, rx, ie, beacon>>
    BY <1>4 DEF SendTxBuffer, IdleTask, PInv
  <2>3. PTypes' /\ \A s \in Peers : Pending(s)' => s \in Range(stas)
    <3>1. app.sta \in Peers
      BY <1>0, <2>2 DEF PTypes, Range
    <3> QED  BY <1>0, <2>1, <2>2, <3>1, SMTT(30) DEF PTypes, Pending
  <2> QED  BY <2>1, <2>2, <2>3, ZenonT(60) DEF PInv, IndexOK, Relies, PendingAdvertised
<1>5. CASE AppIe
  <2>1. rx.pc = "idle" /\ IeNext(app, app') /\ UNCHANGED <<stas, txq, rx>>
    BY <1>5 DEF AppIe, IdleTask
  <2>2. /\ ie' \in Seq(Peers) /\ app' \in Thread
        /\ IndexOK(app') /\ Relies(app', ie')
        /\ app'.pc \in {"idle", "ie_test", "ie_add", "ie_publish"}
        /\ app'.pc = "idle" => AllListed(ie') /\ \A s \in Peers : Pending(s) => s \in beacon'
    BY <1>0, <2>1, IeStep, SMTT(60) DEF PInv
  <2>3. IndexOK(app)' /\ Relies(app, ie)'
    BY <2>1, <2>2 DEF IndexOK, Relies, ListedBefore, AllListed, Pending
  <2> QED  BY <1>0, <2>1, <2>2, <2>3, SMTT(30) DEF PInv, PTypes, IndexOK, Pending, PendingAdvertised
<1>6. CASE Drain
  <2>0. rx.sta \in Peers /\ UNCHANGED <<stas, app, ie, beacon>>
    BY <1>6 DEF Drain, PInv
  <2>1. CASE /\ txq[rx.sta] # <<>>
             /\ rx' = [rx EXCEPT !.pc = "enqueue", !.pkt = Head(txq[rx.sta])]
             /\ txq' = [txq EXCEPT ![rx.sta] = Tail(@)]
    <3>1. Head(txq[rx.sta]) \in Buffers /\ Tail(txq[rx.sta]) \in Seq(Buffers)
      BY <1>0, <2>0, <2>1 DEF PTypes
    <3>2. rx' \in Thread /\ rx'.pc = "enqueue" /\ rx'.sta = rx.sta
      BY <1>0, <2>1, <3>1, ZenonT(60) DEF Thread, Pcs
    <3>3. txq' \in [Peers -> Seq(Buffers)] /\ \A s \in Peers : Pending(s)' => Pending(s)
      BY <1>0, <2>0, <2>1, <3>1 DEF PTypes, Pending
    <3> QED  BY <2>0, <3>2, <3>3, RxRuns, SMTT(30)
  <2>2. CASE rx' = [Out EXCEPT !.pc = "ie_start"] /\ UNCHANGED txq
    <3>1. rx' \in Thread /\ rx'.pc = "ie_start"
      BY <2>2 DEF Out, Thread, Pcs
    <3> QED  BY <1>0, <2>0, <2>2, <3>1, RxRuns, SMTT(30) DEF PTypes, Pending
  <2> QED  BY <1>6, <2>1, <2>2 DEF Drain
<1>7. CASE Enqueue
  <2>1. /\ rx.pc = "enqueue" /\ rx' = [rx EXCEPT !.pc = "drain", !.pkt = None]
        /\ UNCHANGED <<stas, txq, app, ie, beacon>>
    BY <1>7 DEF Enqueue
  <2>2. rx' \in Thread /\ rx'.pc = "drain" /\ rx'.sta = rx.sta /\ rx.sta \in Peers
    BY <1>0, <2>1, Zenon DEF Thread, Pcs, PInv
  <2> QED  BY <1>0, <2>1, <2>2, RxRuns DEF PTypes, Pending
<1>8. CASE RxIe
  <2>1. IeNext(rx, rx') /\ UNCHANGED <<stas, txq, app>>
    BY <1>8 DEF RxIe
  <2>2. rx.pc # "idle"
    BY <2>1 DEF IeNext
  <2>3. /\ ie' \in Seq(Peers) /\ rx' \in Thread
        /\ IndexOK(rx') /\ Relies(rx', ie')
        /\ rx'.pc \in {"idle", "ie_test", "ie_add", "ie_publish"}
        /\ rx'.pc = "idle" => AllListed(ie') /\ \A s \in Peers : Pending(s) => s \in beacon'
    BY <1>0, <2>1, <2>2, IeStep, SMTT(30) DEF PInv
  <2>4. IndexOK(rx)' /\ Relies(rx, ie)' /\ IndexOK(app)'
    <3>1. IndexOK(rx)' /\ IndexOK(app)'
      BY <2>1, <2>3, ZenonT(60) DEF PInv, IndexOK
    <3>2. Relies(rx, ie)'
      BY <2>1, <2>3, ZenonT(60) DEF Relies, ListedBefore, AllListed, Pending
    <3> QED  BY <3>1, <3>2
  <2>5. rx'.pc = "idle" => Relies(app, ie)'
    BY <2>1, <2>3, ZenonT(60) DEF Relies, ListedBefore, AllListed, Pending
  <2> QED  BY <1>0, <2>1, <2>3, <2>4, <2>5, SMTT(30) DEF PInv, PTypes, Pending, PendingAdvertised
<1>9. ASSUME NEW p \in Buffers, HostEnqueue(p) \/ Done(p)
      PROVE  PInv'
  BY <1>9, Untouched DEF HostEnqueue, Done, peervars
<1>10. ASSUME NEW t \in Threads, Put(t) \/ Return(t)
       PROVE  PInv'
  BY <1>10, Untouched DEF Put, Return, peervars
<1>11. CASE Dispatch \/ Driver \/ Ticks
  BY <1>11, Untouched DEF Dispatch, Driver, Ticks, peervars
<1>12. CASE UNCHANGED vars
  BY <1>12, Untouched DEF vars
<1> QED
  BY <1>1, <1>2, <1>3, <1>4, <1>5, <1>6, <1>7, <1>8, <1>9, <1>10, <1>11, <1>12, SMTT(30) DEF Next

\* A station with queued data is listed in the beacon whenever neither the
\* application nor the receive task is inside the API (peersta_SendTxBuffer,
\* peersta_rx_handler, update_peersta_IE).
THEOREM BeaconComplete == Spec => []PendingAdvertised
<1>1. Init => PInv
  <2> SUFFICES ASSUME Init PROVE PInv
    OBVIOUS
  <2>1. Out \in Thread /\ Out.pc = "idle"
    BY DEF Out, Thread, Pcs
  <2>2. /\ stas = <<>> /\ ie = <<>> /\ app = Out /\ rx = Out
        /\ txq = [s \in Peers |-> <<>>]
    BY DEF Init
  <2>3. PTypes /\ \A s \in Peers : ~Pending(s)
    BY <2>1, <2>2 DEF PTypes, Pending
  <2> QED  BY <2>1, <2>2, <2>3 DEF PInv, IndexOK, Relies, Pending, PendingAdvertised
<1>2. PInv => PendingAdvertised
  BY DEF PInv
<1> QED  BY <1>1, <1>2, StepPInv, PTL DEF Spec
=============================================================================

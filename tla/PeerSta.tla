------------------------------- MODULE PeerSta -------------------------------
(* The peer station API (peersta_api.c) on top of the transmit path.          *)
(*                                                                            *)
(* Data for a sleeping peer waits in its tx_q, and the beacon's information   *)
(* element lists the peers with data.  The application (send_raw_pkt, a tick  *)
(* function) fills a free buffer and queues it; when a packet of the peer     *)
(* arrives, the receive task sends what is queued and renews the element.     *)
(* Both run update_peersta_IE, on the one static array peerstaIE.             *)
EXTENDS TxPath

CONSTANTS Peers,    \* stations that may be added
          Pool,     \* the buffers allocated for each of them
          NumPeers  \* NUM_PEERS

ASSUME PeerAssumption ==
    /\ Pool \in [Peers -> SUBSET Buffers]
    /\ \A s, r \in Peers : s # r => Pool[s] \cap Pool[r] = {}
    /\ NumPeers \in Nat
    /\ {"rx", "host"} \subseteq Threads

VARIABLES stas,     \* STADb[0 .. num_stas - 1]: the stations in order
          freeq,    \* STADb[].tx_free_q
          txq,      \* STADb[].tx_q
          app, rx,  \* where the application and the receive task are
          ie,       \* peerstaIE: the stations listed in the array
          beacon    \* the stations listed in the beacon

vars == <<mbufs, free, global, wlan, event, enq, disp, drv, air, owned,
          stas, freeq, txq, app, rx, ie, beacon>>
peervars == <<stas, freeq, txq, app, rx, ie, beacon>>

PeerBuffers == UNION {Pool[s] : s \in Peers}
StaOf(p) == CHOOSE s \in Peers : p \in Pool[s]

Out == [pc |-> "idle", sta |-> None, pkt |-> None, i |-> 0]

Init ==
    /\ TxInit
    /\ stas = <<>>
    /\ freeq = [s \in Peers |-> {}]
    /\ txq = [s \in Peers |-> <<>>]
    /\ app = Out
    /\ rx = Out
    /\ ie = <<>>
    /\ beacon = {}

\* peersta_AddSTAEntry, when a link is up; num_stas is incremented last.
AddSTAEntry(s) ==
    /\ s \notin Range(stas)
    /\ Len(stas) < NumPeers
    /\ stas' = Append(stas, s)
    /\ freeq' = [freeq EXCEPT ![s] = Pool[s]]
    /\ UNCHANGED <<txvars, txq, app, rx, ie, beacon>>

\* peersta_TxFreeBuffer, and the return function of any other module.
TxFreeBuffer(p) ==
    IF p \in PeerBuffers
    THEN freeq' = [freeq EXCEPT ![StaOf(p)] = @ \cup {p}]
    ELSE UNCHANGED freeq

-----------------------------------------------------------------------------
(* update_peersta_IE; th is the state of the thread that runs it and its next *)
(* state is the result of the step. *)

\* Empty the array.
IeStart(th) == [th EXCEPT !.pc = "ie_test", !.i = 1]

\* Mutant: the last station is left out.
IeTest_OffByOne(th) ==
    IF th.i >= Len(stas) THEN [th EXCEPT !.pc = "ie_publish"]
    ELSE IF txq[stas[th.i]] # <<>> THEN [th EXCEPT !.pc = "ie_add"]
    ELSE [th EXCEPT !.i = @ + 1]

\* Look at one station's queue.
IeTest(th) ==
    IF th.i > Len(stas) THEN [th EXCEPT !.pc = "ie_publish"]
    ELSE IF txq[stas[th.i]] # <<>> THEN [th EXCEPT !.pc = "ie_add"]
    ELSE [th EXCEPT !.i = @ + 1]

IeNext(th, th2) ==
    \/ /\ th.pc = "ie_start"
       /\ ie' = <<>>
       /\ th2 = IeStart(th)
       /\ UNCHANGED beacon
    \/ /\ th.pc = "ie_test"
       /\ th2 = IeTest(th)
       /\ UNCHANGED <<ie, beacon>>
    \/ /\ th.pc = "ie_add"
       /\ ie' = Append(ie, stas[th.i])
       /\ th2 = [th EXCEPT !.pc = "ie_test", !.i = @ + 1]
       /\ UNCHANGED beacon
    \/ /\ th.pc = "ie_publish"
       /\ beacon' = Range(ie)
       /\ th2 = Out
       /\ UNCHANGED ie

-----------------------------------------------------------------------------
(* The application: send_raw_pkt with peersta_GetTxFreeBuffer and             *)
(* peersta_SendTxBuffer *)

\* Tick functions run on the idle task: only while no other task has work.
IdleTask ==
    /\ rx.pc = "idle" /\ enq = [t \in Threads |-> Idle]
    /\ disp = Idle /\ ~event
    /\ drv.pc = "idle"

GetTxFreeBuffer(s, p) ==
    /\ IdleTask
    /\ app.pc = "idle"
    /\ s \in Range(stas)
    /\ p \in freeq[s]
    /\ freeq' = [freeq EXCEPT ![s] = @ \ {p}]
    /\ app' = [Out EXCEPT !.pc = "send", !.sta = s, !.pkt = p]
    /\ UNCHANGED <<txvars, stas, txq, rx, ie, beacon>>

SendTxBuffer ==
    /\ IdleTask
    /\ app.pc = "send"
    /\ txq' = [txq EXCEPT ![app.sta] = Append(@, app.pkt)]
    /\ app' = [Out EXCEPT !.pc = "ie_start"]
    /\ UNCHANGED <<txvars, stas, freeq, rx, ie, beacon>>

AppIe ==
    /\ IdleTask
    /\ IeNext(app, app')
    /\ UNCHANGED <<txvars, stas, freeq, txq, rx>>

-----------------------------------------------------------------------------
(* The receive task: peersta_rx_handler and empty_tx_q *)

\* A packet of a known station.
RxHandler(s) ==
    /\ rx.pc = "idle"
    /\ s \in Range(stas)
    /\ rx' = [Out EXCEPT !.pc = "drain", !.sta = s]
    /\ UNCHANGED <<txvars, stas, freeq, txq, app, ie, beacon>>

\* getq on the station's tx_q, once the last packet is through mli_TxDataEnqueue.
Drain ==
    /\ rx.pc = "drain"
    /\ enq["rx"] = Idle
    /\ \/ /\ txq[rx.sta] # <<>>
          /\ rx' = [rx EXCEPT !.pc = "enqueue", !.pkt = Head(txq[rx.sta])]
          /\ txq' = [txq EXCEPT ![rx.sta] = Tail(@)]
       \/ /\ txq[rx.sta] = <<>>
          /\ rx' = [Out EXCEPT !.pc = "ie_start"]
          /\ UNCHANGED txq
    /\ UNCHANGED <<txvars, stas, freeq, app, ie, beacon>>

Enqueue ==
    /\ rx.pc = "enqueue"
    /\ Register("rx", rx.pkt)
    /\ rx' = [rx EXCEPT !.pc = "drain", !.pkt = None]
    /\ UNCHANGED <<stas, freeq, txq, app, ie, beacon>>

RxIe ==
    /\ IeNext(rx, rx')
    /\ UNCHANGED <<txvars, stas, freeq, txq, app>>

-----------------------------------------------------------------------------
(* The transmit path, and a host interface driver that sends its own packets *)

HostEnqueue(p) ==
    /\ p \notin PeerBuffers
    /\ Register("host", p)
    /\ UNCHANGED peervars

Return(t) ==
    /\ Refuse(t)
    /\ TxFreeBuffer(enq[t].pkt)
    /\ UNCHANGED <<stas, txq, app, rx, ie, beacon>>

Done(p) ==
    /\ TxDone(p)
    /\ IF p \in owned' THEN TxFreeBuffer(p) ELSE UNCHANGED freeq
    /\ UNCHANGED <<stas, txq, app, rx, ie, beacon>>

Put(t) == (GetElement(t) \/ PutElement(t)) /\ UNCHANGED peervars
Dispatch == (Wake \/ GetGlobal \/ Handlers \/ GetDispatch \/ PutDispatch) /\ UNCHANGED peervars
Driver == (GetWlan \/ PutWlan \/ TxDoneClear) /\ UNCHANGED peervars
Ticks == IdleTask /\ app.pc = "idle" /\ Tick /\ UNCHANGED peervars

Next ==
    \/ \E s \in Peers : AddSTAEntry(s) \/ RxHandler(s)
    \/ \E s \in Peers, p \in PeerBuffers : GetTxFreeBuffer(s, p)
    \/ SendTxBuffer \/ AppIe
    \/ Drain \/ Enqueue \/ RxIe
    \/ \E p \in Buffers : HostEnqueue(p) \/ Done(p)
    \/ \E t \in Threads : Put(t) \/ Return(t)
    \/ Dispatch \/ Driver \/ Ticks

Spec == Init /\ [][Next]_vars

\* Every task goes on; the driver takes the packets of its queue between those it
\* reports.  Nothing is assumed of the application, of peers' packets or of ticks.
FairSpec ==
    /\ Spec
    /\ \A t \in Threads : WF_vars(Put(t)) /\ WF_vars(Return(t))
    /\ WF_vars(Dispatch)
    /\ SF_vars(GetWlan /\ UNCHANGED peervars) /\ WF_vars(Driver)

-----------------------------------------------------------------------------
(* Properties. *)

InFlight == Range(global) \cup Range(wlan) \cup air
            \cup {disp.pkt, IF drv.pc = "putq" THEN drv.pkt ELSE None}
            \cup {enq[t].pkt : t \in {u \in Threads : enq[u].pc \in {"getq", "putq"}}}

\* Whoever takes an element of the free queue finds one: the result of getq is used
\* without a test in mli_TxDataEnqueue and mli_TX_Main.
ElementLeft ==
    (disp.pc = "getq" \/ \E t \in Threads : enq[t].pc = "getq") => free > 0

\* A packet on its way has exactly one slot below the last, which is how
\* mli_HandleTxDone finds its owner; and no packet on its way is with its owner.
Accounted ==
    \A p \in InFlight \ {None} :
      /\ p \notin owned
      /\ Cardinality({i \in Slots \ {LastSlot} : mbufs[i] = p /\ ~(drv.pc = "clear" /\ drv.slot = i)}) = 1

\* A station with queued data is listed in the beacon once both threads are done
\* with the shared array (peersta_SendTxBuffer, peersta_rx_handler).
PendingAdvertised ==
    app.pc = "idle" /\ rx.pc = "idle" =>
      \A s \in Peers : txq[s] # <<>> => s \in beacon

\* The dispatcher does not sleep on a packet: mli_TX_Main handles one packet for each
\* time it wakes and wake-ups coalesce, so the rest of the queue depends on the driver
\* waking it again in mli_getTxPktforWlan, not on ticks.
Dispatched == global # <<>> ~> disp.pc = "handlers"
=============================================================================

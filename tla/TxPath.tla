------------------------------- MODULE TxPath -------------------------------
(* The transmit path of the SDK's module layer interface (mli.c).             *)
(*                                                                            *)
(* Threads hand packets to mli_TxDataEnqueue.  It remembers each one in mbufs *)
(* with the function that gives it back, and queues it on the global queue,   *)
(* or, for raw data, on the queue of the wlan driver.  The dispatcher task    *)
(* mli_TX_Main moves packets from the first queue to the second, one for each *)
(* time it is woken.  The driver takes them with mli_getTxPktforWlan and      *)
(* reports mli_HandleTxDone, which gives the buffer back.                     *)
(*                                                                            *)
(* The queue elements tx_e are interchangeable, so the free queue is its      *)
(* length and a queued element is the packet it points to.                    *)
EXTENDS Naturals, Sequences, FiniteSets, Functions

CONSTANTS Buffers,   \* every packet buffer
          Raw,       \* the ones with TxPacketType = RAW_DATA
          Threads,   \* the threads that call mli_TxDataEnqueue
          MaxQ,      \* SDK_MAX_TX_Q
          None

ASSUME TxAssumption ==
    /\ MaxQ \in Nat \ {0}
    /\ Raw \subseteq Buffers
    /\ None \notin Buffers

VARIABLES mbufs,    \* the registered packets, by slot
          free,     \* length of mli_TxFreeQueue
          global,   \* mli_TxGlobalQueue
          wlan,     \* mli_TxWlanQueue
          event,    \* the event SDK_TX_PKT is set
          enq,      \* per thread: where it is in mli_TxDataEnqueue, with which packet
          disp,     \* where mli_TX_Main is, and its packet
          drv,      \* where the driver is, its packet and its slot
          air,      \* packets the driver (or a custom Tx handler) works on
          owned     \* packets that are with the module they belong to

txvars == <<mbufs, free, global, wlan, event, enq, disp, drv, air, owned>>

Slots == 0 .. MaxQ - 1
LastSlot == MaxQ - 1
Idle == [pc |-> "idle", pkt |-> None]

TxInit ==
    /\ mbufs = [i \in Slots |-> None]
    /\ free = MaxQ
    /\ global = <<>>
    /\ wlan = <<>>
    /\ event = FALSE
    /\ enq = [t \in Threads |-> Idle]
    /\ disp = Idle
    /\ drv = [pc |-> "idle", pkt |-> None, slot |-> 0]
    /\ air = {}
    /\ owned = Buffers

-----------------------------------------------------------------------------
(* mli_TxDataEnqueue *)

IsFirstSlot(i, p) == mbufs[i] = p /\ \A j \in Slots : mbufs[j] = p => i <= j

\* The critical section.  bindex is incremented after a slot was found, so the test
\* that follows takes a packet in the last slot for one that found none.
Register(t, p) ==
    /\ enq[t] = Idle
    /\ p \in owned
    /\ owned' = owned \ {p}
    /\ \/ \E i \in Slots :
             /\ IsFirstSlot(i, None)
             /\ mbufs' = [mbufs EXCEPT ![i] = p]
             /\ enq' = [enq EXCEPT ![t] = [pc |-> IF i + 1 >= MaxQ THEN "return" ELSE "getq",
                                           pkt |-> p]]
       \/ /\ \A i \in Slots : mbufs[i] # None
          /\ enq' = [enq EXCEPT ![t] = [pc |-> "return", pkt |-> p]]
          /\ UNCHANGED mbufs
    /\ UNCHANGED <<free, global, wlan, event, disp, drv, air>>

\* No room: retTxBuff is called at once.
Refuse(t) ==
    /\ enq[t].pc = "return"
    /\ owned' = owned \cup {enq[t].pkt}
    /\ enq' = [enq EXCEPT ![t] = Idle]
    /\ UNCHANGED <<mbufs, free, global, wlan, event, disp, drv, air>>

\* getq on the free queue; its result is used without a test.
GetElement(t) ==
    /\ enq[t].pc = "getq"
    /\ free > 0
    /\ free' = free - 1
    /\ enq' = [enq EXCEPT ![t].pc = "putq"]
    /\ UNCHANGED <<mbufs, global, wlan, event, disp, drv, air, owned>>

PutElement(t) ==
    /\ enq[t].pc = "putq"
    /\ \/ /\ enq[t].pkt \in Raw
          /\ wlan' = Append(wlan, enq[t].pkt)
          /\ UNCHANGED <<global, event>>
       \/ /\ enq[t].pkt \notin Raw
          /\ global' = Append(global, enq[t].pkt)
          /\ event' = TRUE
          /\ UNCHANGED wlan
    /\ enq' = [enq EXCEPT ![t] = Idle]
    /\ UNCHANGED <<mbufs, free, disp, drv, air, owned>>

-----------------------------------------------------------------------------
(* mli_TX_Main *)

\* os_EventWait returns and clears the event.
Wake ==
    /\ disp.pc = "idle"
    /\ event
    /\ event' = FALSE
    /\ disp' = [disp EXCEPT !.pc = "get"]
    /\ UNCHANGED <<mbufs, free, global, wlan, enq, drv, air, owned>>

GetGlobal ==
    /\ disp.pc = "get"
    /\ \/ /\ global = <<>>
          /\ disp' = Idle
          /\ UNCHANGED global
       \/ /\ global # <<>>
          /\ disp' = [pc |-> "handlers", pkt |-> Head(global)]
          /\ global' = Tail(global)
    /\ UNCHANGED <<mbufs, free, wlan, event, enq, drv, air, owned>>

\* Mutant: the element is not given back.
Handlers_Kept ==
    /\ disp.pc = "handlers"
    /\ \/ disp' = [pc |-> "get", pkt |-> None] /\ air' = air \cup {disp.pkt}
       \/ disp' = [disp EXCEPT !.pc = "getq"] /\ UNCHANGED air
    /\ UNCHANGED <<mbufs, free, global, wlan, event, enq, drv, owned>>

\* The element goes back to the free queue and the Tx handlers see the packet: one of
\* them keeps it and the next packet is taken, or it is for the driver.
Handlers ==
    /\ disp.pc = "handlers"
    /\ free' = free + 1
    /\ \/ disp' = [pc |-> "get", pkt |-> None] /\ air' = air \cup {disp.pkt}
       \/ disp' = [disp EXCEPT !.pc = "getq"] /\ UNCHANGED air
    /\ UNCHANGED <<mbufs, global, wlan, event, enq, drv, owned>>

\* A new element is taken from the free queue, again without a test.
GetDispatch ==
    /\ disp.pc = "getq"
    /\ free > 0
    /\ free' = free - 1
    /\ disp' = [disp EXCEPT !.pc = "putq"]
    /\ UNCHANGED <<mbufs, global, wlan, event, enq, drv, air, owned>>

PutDispatch ==
    /\ disp.pc = "putq"
    /\ wlan' = Append(wlan, disp.pkt)
    /\ disp' = Idle
    /\ UNCHANGED <<mbufs, free, global, event, enq, drv, air, owned>>

-----------------------------------------------------------------------------
(* The driver's side: mli_getTxPktforWlan and mli_HandleTxDone *)

\* mli_getTxPktforWlan: take the head of the driver's queue.
GetWlan ==
    /\ drv.pc = "idle"
    /\ wlan # <<>>
    /\ drv' = [drv EXCEPT !.pc = "putq", !.pkt = Head(wlan)]
    /\ wlan' = Tail(wlan)
    /\ UNCHANGED <<mbufs, free, global, event, enq, disp, air, owned>>

\* Mutant: the dispatcher is not woken.
PutWlan_Silent ==
    /\ drv.pc = "putq"
    /\ free' = free + 1
    /\ air' = air \cup {drv.pkt}
    /\ drv' = [drv EXCEPT !.pc = "idle", !.pkt = None]
    /\ UNCHANGED <<mbufs, global, wlan, event, enq, disp, owned>>

\* It gives the element back and wakes the dispatcher.
PutWlan ==
    /\ drv.pc = "putq"
    /\ free' = free + 1
    /\ air' = air \cup {drv.pkt}
    /\ event' = TRUE
    /\ drv' = [drv EXCEPT !.pc = "idle", !.pkt = None]
    /\ UNCHANGED <<mbufs, global, wlan, enq, disp, owned>>

\* mli_HandleTxDone: the first slot with the packet; the buffer is given back while
\* the slot still holds it.
TxDone(p) ==
    /\ drv.pc = "idle"
    /\ p \in air
    /\ air' = air \ {p}
    /\ \/ \E i \in Slots :
             /\ IsFirstSlot(i, p)
             /\ drv' = [pc |-> "clear", pkt |-> p, slot |-> i]
             /\ owned' = owned \cup {p}
       \/ /\ \A i \in Slots : mbufs[i] # p
          /\ UNCHANGED <<drv, owned>>
    /\ UNCHANGED <<mbufs, free, global, wlan, event, enq, disp>>

\* Mutant: the slot keeps the packet.
TxDoneClear_Kept ==
    /\ drv.pc = "clear"
    /\ drv' = [pc |-> "idle", pkt |-> None, slot |-> 0]
    /\ UNCHANGED <<mbufs, free, global, wlan, event, enq, disp, air, owned>>

TxDoneClear ==
    /\ drv.pc = "clear"
    /\ mbufs' = [mbufs EXCEPT ![drv.slot] = None]
    /\ drv' = [pc |-> "idle", pkt |-> None, slot |-> 0]
    /\ UNCHANGED <<free, global, wlan, event, enq, disp, air, owned>>

\* mli_Tick, on the idle task, wakes the dispatcher too.
Tick ==
    /\ event' = TRUE
    /\ UNCHANGED <<mbufs, free, global, wlan, enq, disp, drv, air, owned>>
=============================================================================

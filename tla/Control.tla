-------------------------------- MODULE Control --------------------------------
(*****************************************************************************)
(* The life and the control of the mdns daemons on one Linux machine         *)
(* (examples/linux/main.c, mdns_launch and mdns_halt of mdns/mdns.c, and the *)
(* control sockets of mdns/mdns_query.c and mdns/mdns_respond.c).            *)
(*                                                                           *)
(* The command "launch" opens a control socket, tests the lock of a pid file *)
(* and forks, once for the responder and once for the querier; the children  *)
(* inherit the sockets and take the locks.  The commands "monitor",          *)
(* "unmonitor" and "halt" send a datagram to a control port and wait at most *)
(* two seconds for the status.  SIGTERM makes a daemon halt both.            *)
(*                                                                           *)
(* What the daemons do besides is in Responder and ServiceCache.             *)
(*****************************************************************************)
EXTENDS Naturals, Sequences

CONSTANTS
    Launchers,      \* runs of the command launch
    Hostname,       \* is it run with -n?
    Clients,        \* runs of the other commands
    Commands,       \* with their arguments
    Types,          \* service types
    MaxMonitors,    \* MDNS_MAX_SERVICE_MONITORS
    MaxFaults,      \* bound on signals and crashes
    None

Roles == {"responder", "querier"}

Daemons == Launchers \X Roles

Main(l) == <<l, "main">>

\* Commands and their arguments; without one, unmonitor is about all types.
AllCommands == {"monitor", "unmonitor"} \X Types \cup {<<"unmonitor", None>>, <<"halt", None>>}

ASSUME ControlAssumption ==
    /\ Hostname \in [Launchers -> BOOLEAN]
    /\ Commands \subseteq AllCommands
    /\ MaxMonitors \in Nat /\ MaxFaults \in Nat
    /\ None \notin Launchers \cup Clients \cup Types \cup Daemons \cup Commands

VARIABLES
    main,       \* where mdns_launch is, for each launcher
    daemon,     \* the forked processes
    lock,       \* who holds the lock of /var/run/mdns.pid-1 and -2
    holders,    \* who has a control socket open; a socket is named after its daemon
    bound,      \* the control sockets of each port in the order of their bind
    queue,      \* datagrams waiting at a control socket: the client, or None
    mons,       \* smons_active of each querier
    client,     \* state, command and result of each client
    faults,     \* signals and crashes so far
    unruly,     \* was there a launch before the one before it had settled?
    quiet       \* clients that halted a settled system, no launch since

vars == <<main, daemon, lock, holders, bound, queue, mons, client, faults, unruly, quiet>>

-----------------------------------------------------------------------------
(* The kernel: sockets and locks (external). *)

\* A port bound more than once (SO_REUSEADDR) belongs to the latest socket that is
\* still open; a datagram to a port without one is dropped.
IsLatest(s, r) ==
    \E i \in DOMAIN bound[r] : /\ bound[r][i] = s /\ holders[s] # {}
                              /\ \A j \in DOMAIN bound[r] : j > i => holders[bound[r][j]] = {}

Post(q, r, m) == [s \in Daemons |-> IF IsLatest(s, r) THEN Append(q[s], m) ELSE q[s]]

\* The sockets are closed as far as only p holds them; what waits there is lost.
CloseAll(p) ==
    /\ holders' = [s \in Daemons |-> holders[s] \ {p}]
    /\ queue' = [s \in Daemons |-> IF holders[s] = {p} THEN <<>> ELSE queue[s]]

-----------------------------------------------------------------------------
(* mdns_launch. *)

Settled == /\ \A l \in Launchers : main[l] \in {"idle", "end"}
           /\ \A d \in Daemons : daemon[d] # "starting"

\* The n-th call of mdns_thread_create in a process uses mdns.pid-n.
File(d) == IF d[2] = "responder" \/ ~Hostname[d[1]] THEN 1 ELSE 2

\* mdns_socket_loopback for daemon d, which is to be created next.
OpenSocket(d, held) ==
    /\ holders' = [held EXCEPT ![d] = {Main(d[1])}]
    /\ bound' = [bound EXCEPT ![d[2]] = Append(@, d)]
    /\ main' = [main EXCEPT ![d[1]] = d[2]]

Launch(l) ==
    /\ main[l] = "idle"
    /\ OpenSocket(<<l, IF Hostname[l] THEN "responder" ELSE "querier">>, holders)
    /\ unruly' = (unruly \/ ~Settled)
    /\ quiet' = {}
    /\ UNCHANGED <<daemon, lock, queue, mons, client, faults>>

\* "pid file is locked.  mdns already running?"  (lockf F_TEST).  The launch
\* fails, and exits; at the querier it leaves its responder running.
ThreadRefused(l, r) ==
    /\ main[l] = r /\ lock[File(<<l, r>>)] # None
    /\ main' = [main EXCEPT ![l] = "end"]
    /\ CloseAll(Main(l))
    /\ UNCHANGED <<daemon, lock, bound, mons, client, faults, unruly, quiet>>

\* The child has every socket that is open in the parent.  For the parent this
\* is success: it goes on to query_launch, or exits.
Fork(l, r) ==
    /\ main[l] = r /\ lock[File(<<l, r>>)] = None
    /\ daemon' = [daemon EXCEPT ![<<l, r>>] = "starting"]
    /\ LET held == [s \in Daemons |-> IF Main(l) \in holders[s]
                                      THEN holders[s] \cup {<<l, r>>} ELSE holders[s]]
       IN \/ r = "responder" /\ OpenSocket(<<l, "querier">>, held)
          \/ /\ r = "querier"
             /\ holders' = [s \in Daemons |-> held[s] \ {Main(l)}]
             /\ main' = [main EXCEPT ![l] = "end"]
             /\ bound' = bound
    /\ UNCHANGED <<lock, queue, mons, client, faults, unruly, quiet>>

-----------------------------------------------------------------------------
(* The daemons. *)

\* Process d ends: its sockets are closed, its lock is released, its memory is gone.
End(d) ==
    /\ daemon' = [daemon EXCEPT ![d] = "none"]
    /\ lock' = [f \in 1 .. 2 |-> IF lock[f] = d THEN None ELSE lock[f]]
    /\ mons' = IF d[2] = "querier" THEN [mons EXCEPT ![d[1]] = <<>>] ELSE mons
    /\ CloseAll(d)
    /\ UNCHANGED bound

\* Mutant: the lock is only tested for, by the parent.
LockFileTested(d) ==
    /\ daemon[d] = "starting"
    /\ lock' = [lock EXCEPT ![File(d)] = d]
    /\ daemon' = [daemon EXCEPT ![d] = "running"]
    /\ UNCHANGED <<main, holders, bound, queue, mons, client, faults, unruly, quiet>>

\* lockf(F_TLOCK) in the child, which enters do_responder or do_querier or exits.
LockFile(d) ==
    /\ daemon[d] = "starting"
    /\ \/ /\ lock[File(d)] = None
          /\ lock' = [lock EXCEPT ![File(d)] = d]
          /\ daemon' = [daemon EXCEPT ![d] = "running"]
          /\ UNCHANGED <<holders, bound, queue, mons>>
       \/ lock[File(d)] # None /\ End(d)
    /\ UNCHANGED <<main, client, faults, unruly, quiet>>

\* The loop has ended; the process exits through mdns_launch and main.
Exit(d) ==
    /\ daemon[d] = "halting" /\ End(d)
    /\ UNCHANGED <<main, client, faults, unruly, quiet>>

\* MDNS_CTRL_HALT, the only message that a responder is sent.
ResponderRx(l) ==
    LET d == <<l, "responder">>
    IN /\ daemon[d] = "running" /\ queue[d] # <<>>
       /\ queue' = [queue EXCEPT ![d] = Tail(@)]
       /\ daemon' = [daemon EXCEPT ![d] = "halting"]
       /\ UNCHANGED <<main, lock, holders, bound, mons, client, faults, unruly, quiet>>

\* Mutant: one slot more than there is.
AddServiceMore(l, t) ==
    IF \E i \in DOMAIN mons[l] : mons[l][i] = t THEN <<"inuse", mons[l]>>
    ELSE IF Len(mons[l]) > MaxMonitors THEN <<"nomem", mons[l]>>
    ELSE <<"success", <<t>> \o mons[l]>>

\* add_service
AddService(l, t) ==
    IF \E i \in DOMAIN mons[l] : mons[l][i] = t THEN <<"inuse", mons[l]>>
    ELSE IF Len(mons[l]) = MaxMonitors THEN <<"nomem", mons[l]>>
    ELSE <<"success", <<t>> \o mons[l]>>

\* remove_service
RemoveService(l, t) == SelectSeq(mons[l], LAMBDA u : t # None /\ u # t)

\* The status and the monitors after a command.
Execute(l, cmd) ==
    CASE cmd[1] = "monitor" -> AddService(l, cmd[2])
      [] cmd[1] = "unmonitor" -> <<"success", RemoveService(l, cmd[2])>>
      [] OTHER -> <<"success", mons[l]>>

\* A control message of do_querier.  The status goes to the socket of the
\* client, which may have closed it.
QuerierRx(l) ==
    LET d == <<l, "querier">>
        c == Head(queue[d])
        cmd == IF c = None THEN <<"halt", None>> ELSE client[c].cmd
        result == Execute(l, cmd)
    IN /\ daemon[d] = "running" /\ queue[d] # <<>>
       /\ queue' = [queue EXCEPT ![d] = Tail(@)]
       /\ mons' = [mons EXCEPT ![l] = result[2]]
       /\ daemon' = [daemon EXCEPT ![d] = IF cmd[1] = "halt" THEN "halting" ELSE @]
       /\ client' = IF c = None THEN client
                    ELSE [client EXCEPT ![c].done = result[1],
                            ![c].told = IF client[c].pc = "wait" THEN result[1] ELSE @,
                            ![c].pc = "end"]
       /\ UNCHANGED <<main, lock, holders, bound, faults, unruly, quiet>>

\* SIGHUP or SIGTERM: mdns_halt in the daemon, which tells both daemons, waits
\* for a status that it may have to send itself, and leaves its loop.
Signal(d) ==
    /\ daemon[d] = "running" /\ faults < MaxFaults
    /\ faults' = faults + 1
    /\ daemon' = [daemon EXCEPT ![d] = "halting"]
    /\ queue' = Post(Post(queue, "responder", None), "querier", None)
    /\ UNCHANGED <<main, lock, holders, bound, mons, client, unruly, quiet>>

\* The process is killed.
Crash(d) ==
    /\ daemon[d] \in {"starting", "running"} /\ faults < MaxFaults
    /\ faults' = faults + 1
    /\ End(d)
    /\ UNCHANGED <<main, client, unruly, quiet>>

-----------------------------------------------------------------------------
(* The clients. *)

\* mdns_query_monitor, mdns_query_unmonitor, and responder_halt of mdns_halt.
Request(c, cmd) ==
    LET port == IF cmd[1] = "halt" THEN "responder" ELSE "querier"
    IN /\ client[c].pc = "idle"
       /\ client' = [client EXCEPT ![c].cmd = cmd,
                                   ![c].pc = IF cmd[1] = "halt" THEN "halt" ELSE "wait"]
       /\ queue' = Post(queue, port, IF cmd[1] = "halt" THEN None ELSE c)
       /\ quiet' = IF cmd[1] = "halt" /\ Settled /\ ~unruly THEN quiet \cup {c} ELSE quiet
       /\ UNCHANGED <<main, daemon, lock, holders, bound, mons, faults, unruly>>

\* Mutant: without an answer from the responder its port is tried again.
HaltQuerierSame(c) ==
    /\ client[c].pc = "halt"
    /\ client' = [client EXCEPT ![c].pc = "wait"]
    /\ queue' = Post(queue, "responder", c)
    /\ UNCHANGED <<main, daemon, lock, holders, bound, mons, faults, unruly, quiet>>

\* query_halt
HaltQuerier(c) ==
    /\ client[c].pc = "halt"
    /\ client' = [client EXCEPT ![c].pc = "wait"]
    /\ queue' = Post(queue, "querier", c)
    /\ UNCHANGED <<main, daemon, lock, holders, bound, mons, faults, unruly, quiet>>

\* Two seconds without a status: MDNS_NORESP.
NoResponse(c) ==
    /\ client[c].pc = "wait"
    /\ client' = [client EXCEPT ![c].pc = "end", ![c].told = "noresp"]
    /\ UNCHANGED <<main, daemon, lock, holders, bound, queue, mons, faults, unruly, quiet>>

-----------------------------------------------------------------------------
Init ==
    /\ main = [l \in Launchers |-> "idle"]
    /\ daemon = [d \in Daemons |-> "none"]
    /\ lock = [f \in 1 .. 2 |-> None]
    /\ holders = [s \in Daemons |-> {}]
    /\ bound = [r \in Roles |-> <<>>]
    /\ queue = [s \in Daemons |-> <<>>]
    /\ mons = [l \in Launchers |-> <<>>]
    /\ client = [c \in Clients |-> [pc |-> "idle", cmd |-> None, done |-> "none", told |-> "none"]]
    /\ faults = 0 /\ unruly = FALSE /\ quiet = {}

Next ==
    \/ \E l \in Launchers : \/ Launch(l) \/ ResponderRx(l) \/ QuerierRx(l)
                           \/ \E r \in Roles : ThreadRefused(l, r) \/ Fork(l, r)
    \/ \E d \in Daemons : LockFile(d) \/ Exit(d) \/ Signal(d) \/ Crash(d)
    \/ \E c \in Clients : \/ \E cmd \in Commands : Request(c, cmd)
                          \/ HaltQuerier(c) \/ NoResponse(c)

Spec == Init /\ [][Next]_vars

-----------------------------------------------------------------------------
(* Properties. *)

Alive(d) == daemon[d] \in {"running", "halting"}

\* "We'll fail if the thread is already running" (mdns_thread_create): however
\* the tests and the locks of several launches interleave, no two responders
\* and no two queriers run, if all launches use the pid files alike.
OneOfEach == \A l, m \in Launchers, r \in Roles : Alive(<<l, r>>) /\ Alive(<<m, r>>) => l = m

Undoes(cmd) == cmd # None /\ cmd[1] \in {"unmonitor", "halt"}

\* As long as nobody unmonitors or halts and no daemon ends, the clients that
\* were told MDNS_SUCCESS asked for different types, no more than there are
\* monitors, and all are monitored; MDNS_INUSE is told only of a type that
\* somebody asked for, be it somebody who was told MDNS_NORESP.
Admission ==
    LET told(status) == {c \in Clients : client[c].told = status}
    IN (\A c \in Clients : ~Undoes(client[c].cmd)) /\ faults = 0 =>
         /\ \A c, d \in told("success") : c # d => client[c].cmd # client[d].cmd
         /\ \A c \in told("success") :
              \E l \in Launchers : /\ daemon[<<l, "querier">>] = "running"
                                   /\ Len(mons[l]) <= MaxMonitors
                                   /\ \E i \in DOMAIN mons[l] : mons[l][i] = client[c].cmd[2]
         /\ \A c \in told("inuse") :
              \E d \in Clients : client[d].done = "success" /\ client[d].cmd = client[c].cmd

\* No process has anything to do: launches and requests are over, no daemon is
\* on its way in or out, and none that runs has a message.
AtRest ==
    /\ Settled
    /\ \A c \in Clients : client[c].pc \in {"idle", "end"}
    /\ \A d \in Daemons : daemon[d] # "halting" /\ (daemon[d] = "running" => queue[d] = <<>>)

\* A halt works: once it is called in a system where every launch so far had
\* come to its end before the next one, no daemon is left when all have done
\* what they had to do, whatever signals, crashes, refused launches and timeouts
\* there were, unless there is another launch.
HaltStops == quiet # {} /\ AtRest => \A d \in Daemons : daemon[d] = "none"
=============================================================================

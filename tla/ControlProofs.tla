----------------------------- MODULE ControlProofs -----------------------------
(*****************************************************************************)
(* Three results about the daemons and their control sockets, for any number *)
(* of launches, clients and commands.                                        *)
(*                                                                           *)
(* However the tests, forks and locks of launches interleave with crashes    *)
(* and halts, the locks of the pid files keep the daemons apart (LInv).      *)
(*                                                                           *)
(* A halt sent while no launch is under way stops both daemons               *)
(* (HaltAlwaysStops).  That needs to know which sockets are open and in      *)
(* whose hands (SInv), that the socket that receives on a port is the        *)
(* running daemon's (RInv), what the queues can hold (QInv), and how far     *)
(* the halt has come (HInv).                                                 *)
(*                                                                           *)
(* A client that was told of success finds its type monitored, as long as    *)
(* nothing was undone since (AdmissionAlways).  AInv follows a request from  *)
(* its queue to the list of monitors.                                        *)
(*****************************************************************************)
EXTENDS Control, TLAPS

\* Inductive: a daemon in its loop holds the lock of its pid file.
LInv ==
    /\ daemon \in [Daemons -> {"none", "starting", "running", "halting"}]
    /\ lock \in [1 .. 2 -> Daemons \cup {None}]
    /\ \A d \in Daemons : Alive(d) => lock[File(d)] = d

\* The pid files are numbered 1 and 2.
LEMMA FileType == \A d \in Daemons : File(d) \in 1 .. 2
BY DEF File

\* The end of a process releases its own lock only.
LEMMA EndInv ==
    ASSUME LInv, NEW d \in Daemons, End(d)
    PROVE  LInv'
<1>1. daemon' \in [Daemons -> {"none", "starting", "running", "halting"}]
  BY DEF LInv, End
<1>2. lock' \in [1 .. 2 -> Daemons \cup {None}]
  BY DEF LInv, End
<1>3. ASSUME NEW c \in Daemons, Alive(c)'
      PROVE  lock'[File(c)] = c
  <2>1. c # d /\ Alive(c)
    BY <1>3 DEF Alive, End, LInv
  <2>2. lock[File(c)] = c /\ File(c) \in 1 .. 2
    BY <2>1, FileType DEF LInv
  <2> QED
    BY <2>1, <2>2 DEF End
<1> QED
  BY <1>1, <1>2, <1>3 DEF LInv, File

\* A step that starts no loop and touches no lock keeps the invariant.
LEMMA SameLocks ==
    ASSUME LInv, lock' = lock, NEW d \in Daemons,
           NEW s \in {"none", "starting", "running", "halting"},
           daemon' = [daemon EXCEPT ![d] = s],
           s \in {"running", "halting"} => Alive(d)
    PROVE  LInv'
<1>1. \A c \in Daemons : Alive(c)' => Alive(c)
  BY DEF LInv, Alive
<1> QED
  BY <1>1 DEF LInv, File

\* The invariant holds at the start.
LEMMA InitLInv == Init => LInv
BY DEF Init, LInv, Alive

\* Every step keeps it.
LEMMA StepLInv == LInv /\ [Next]_vars => LInv'
<1> SUFFICES ASSUME LInv, [Next]_vars PROVE LInv'
  OBVIOUS
<1> DEFINE Same == daemon' = daemon /\ lock' = lock
<1>0. ASSUME Same PROVE LInv'
  BY <1>0 DEF LInv, Alive, File
<1>1. ASSUME NEW l \in Launchers, Launch(l) PROVE LInv'
  BY <1>0, <1>1 DEF Launch
<1>2. ASSUME NEW l \in Launchers, NEW r \in Roles, ThreadRefused(l, r) PROVE LInv'
  BY <1>0, <1>2 DEF ThreadRefused
<1>3. ASSUME NEW l \in Launchers, NEW r \in Roles, Fork(l, r) PROVE LInv'
  <2>1. <<l, r>> \in Daemons /\ lock' = lock
        /\ daemon' = [daemon EXCEPT ![<<l, r>>] = "starting"]
    BY <1>3 DEF Fork, Daemons
  <2> QED
    BY <2>1, SameLocks, ZenonT(30)
<1>4. ASSUME NEW l \in Launchers, ResponderRx(l) PROVE LInv'
  <2> DEFINE d == <<l, "responder">>
  <2>1. d \in Daemons /\ lock' = lock /\ Alive(d)
        /\ daemon' = [daemon EXCEPT ![d] = "halting"]
    BY <1>4 DEF ResponderRx, Daemons, Roles, Alive
  <2> QED
    BY <2>1, SameLocks, ZenonT(30)
<1>5. ASSUME NEW l \in Launchers, QuerierRx(l) PROVE LInv'
  <2> DEFINE d == <<l, "querier">>
  <2>1. d \in Daemons /\ lock' = lock /\ daemon[d] = "running"
    BY <1>5, ZenonT(30) DEF QuerierRx, Daemons, Roles
  <2>2. PICK s \in {"running", "halting"} : daemon' = [daemon EXCEPT ![d] = s]
    BY <1>5, <2>1, ZenonT(30) DEF QuerierRx
  <2> QED
    BY <2>1, <2>2, SameLocks, ZenonT(30) DEF Alive
<1>6. ASSUME NEW d \in Daemons, LockFile(d) PROVE LInv'
  <2>1. CASE lock[File(d)] # None
    BY <1>6, <2>1, EndInv DEF LockFile
  <2>2. CASE lock[File(d)] = None
    <3>1. lock' = [lock EXCEPT ![File(d)] = d] /\ daemon' = [daemon EXCEPT ![d] = "running"]
      BY <1>6, <2>2 DEF LockFile
    <3>2. ASSUME NEW c \in Daemons, Alive(c)' PROVE lock'[File(c)] = c
      <4>1. CASE c = d
        BY <3>1, <4>1, FileType DEF LInv
      <4>2. CASE c # d
        <5>1. Alive(c)
          BY <3>1, <3>2, <4>2 DEF Alive, LInv
        <5>2. lock[File(c)] = c /\ File(c) \in 1 .. 2 /\ c # None
          BY <5>1, FileType, ControlAssumption DEF LInv
        <5> QED
          BY <2>2, <3>1, <5>2 DEF LInv
      <4> QED
        BY <4>1, <4>2
    <3>3. lock' \in [1 .. 2 -> Daemons \cup {None}]
      BY <3>1, ZenonT(30) DEF LInv
    <3> QED
      BY <3>1, <3>2, <3>3 DEF LInv, File
  <2> QED
    BY <2>1, <2>2
<1>7. ASSUME NEW d \in Daemons, Exit(d) PROVE LInv'
  BY <1>7, EndInv DEF Exit
<1>8. ASSUME NEW d \in Daemons, Signal(d) PROVE LInv'
  <2>1. lock' = lock /\ Alive(d) /\ daemon' = [daemon EXCEPT ![d] = "halting"]
    BY <1>8 DEF Signal, Alive
  <2> QED
    BY <2>1, SameLocks, ZenonT(30)
<1>9. ASSUME NEW d \in Daemons, Crash(d) PROVE LInv'
  BY <1>9, EndInv DEF Crash
<1>10. ASSUME NEW c \in Clients, NEW cmd \in Commands, Request(c, cmd) PROVE LInv'
  BY <1>0, <1>10 DEF Request
<1>11. ASSUME NEW c \in Clients, HaltQuerier(c) \/ NoResponse(c) PROVE LInv'
  BY <1>0, <1>11 DEF HaltQuerier, NoResponse
<1>12. CASE UNCHANGED vars
  BY <1>0, <1>12 DEF vars
<1> QED
  BY <1>1, <1>2, <1>3, <1>4, <1>5, <1>6, <1>7, <1>8, <1>9, <1>10, <1>11, <1>12 DEF Next

\* No two daemons run that use the same pid file, however the launches were
\* called: the test of the lock in the parent may be out of date when the child
\* runs, the lock that the child takes is not (mdns_thread_create).
THEOREM OnePerPidFile ==
    Spec => [](\A c, d \in Daemons : Alive(c) /\ Alive(d) /\ File(c) = File(d) => c = d)
<1>1. LInv => \A c, d \in Daemons : Alive(c) /\ Alive(d) /\ File(c) = File(d) => c = d
  BY DEF LInv
<1> QED
  BY InitLInv, StepLInv, <1>1, PTL DEF Spec

\* If all launches have a host name, or none has one, no two responders and no
\* two queriers run.
THEOREM OneOfEachAlways ==
    ASSUME \A l, m \in Launchers : Hostname[l] = Hostname[m]
    PROVE  Spec => []OneOfEach
<1>1. ASSUME LInv PROVE OneOfEach
  <2> SUFFICES ASSUME NEW l \in Launchers, NEW m \in Launchers, NEW r \in Roles,
                      Alive(<<l, r>>), Alive(<<m, r>>)
               PROVE  l = m
    BY DEF OneOfEach
  <2>1. File(<<l, r>>) = File(<<m, r>>)
    BY DEF File
  <2> QED
    BY <1>1, <2>1 DEF LInv, Daemons
<1> QED
  BY InitLInv, StepLInv, <1>1, PTL DEF Spec

-----------------------------------------------------------------------------
(* Sockets, requests and monitors. *)

Pcs == {"idle", "halt", "wait", "end"}
Statuses == {"none", "success", "inuse", "nomem"}
ClientRecord == [pc : Pcs, cmd : Commands \cup {None}, done : Statuses, told : Statuses \cup {"noresp"}]

Busy(l) == main[l] \in Roles

\* A socket that is not open yet, and one that mdns_launch has opened for a daemon.
Unopened(d) == daemon[d] = "none" /\ holders[d] = {}
Opened(d) == daemon[d] = "none" /\ holders[d] = {Main(d[1])}

\* Sockets: each belongs to one run of launch, which opens it once, and a daemon has
\* its own socket open.
Launched(l) ==
    /\ main[l] = "idle" => Unopened(<<l, "responder">>) /\ Unopened(<<l, "querier">>)
    /\ main[l] = "responder" => Opened(<<l, "responder">>) /\ Unopened(<<l, "querier">>)
    /\ main[l] = "querier" => Opened(<<l, "querier">>)

SInv ==
    /\ main \in [Launchers -> Roles \cup {"idle", "end"}]
    /\ holders \in [Daemons -> SUBSET (Daemons \cup {Main(l) : l \in Launchers})]
    /\ bound \in [Roles -> Seq(Daemons)]
    /\ unruly \in BOOLEAN
    /\ \A r \in Roles : \A i \in DOMAIN bound[r] : bound[r][i][2] = r
    /\ \A l \in Launchers : Launched(l)
    /\ \A d \in Daemons : daemon[d] # "none" => d \in holders[d]

\* The sockets bound after that of d are closed, or their launch is about to test the lock.
Foremost(d) ==
    \E i \in DOMAIN bound[d[2]] :
      /\ bound[d[2]][i] = d
      /\ \A j \in DOMAIN bound[d[2]] :
           j > i => holders[bound[d[2]][j]] = {} \/ main[bound[d[2]][j][1]] = d[2]

\* Launches one after the other: the daemons have the ports.
RInv ==
    ~unruly =>
      /\ \A l, m \in Launchers : Busy(l) /\ Busy(m) => l = m
      /\ \A l \in Launchers, d \in Daemons : Busy(l) /\ daemon[d] = "starting" => d[1] = l
      /\ \A l \in Launchers :
           Busy(l) => LET b == bound[main[l]] IN b # <<>> /\ b[Len(b)] = <<l, main[l]>>
      /\ \A d \in Daemons : daemon[d] # "none" => Foremost(d)

\* Requests: a client has at most one datagram in the queues, and only until it has
\* been dealt with.
Queues == [Daemons -> Seq(Clients \cup {None})]
Waiting(q, c) == \E d \in Daemons : \E i \in DOMAIN q[d] : q[d][i] = c
Unique(q) ==
    \A d, e \in Daemons : \A i \in DOMAIN q[d], j \in DOMAIN q[e] :
      q[d][i] = q[e][j] /\ q[d][i] # None => d = e /\ i = j
Addressed(q) == \A d \in Daemons : \A i \in DOMAIN q[d] : q[d][i] # None => d[2] = "querier"

Consistent(c) ==
    /\ client[c].pc = "idle" <=> client[c].cmd = None
    /\ client[c].pc = "halt" => client[c].cmd[1] = "halt"
    /\ client[c].pc \in {"idle", "halt"} => client[c].done = "none"
    /\ client[c].told \in {"none", "noresp", client[c].done}
    /\ Waiting(queue, c) => client[c].done = "none" /\ client[c].pc \in {"wait", "end"}

QInv ==
    /\ client \in [Clients -> ClientRecord]
    /\ queue \in Queues /\ Unique(queue) /\ Addressed(queue)
    /\ \A c \in Clients : Consistent(c)

\* A message that makes a querier halt.
Halts(x) == x = None \/ client[x].cmd[1] = "halt"

\* A halt waits for the daemons of l, or they do not run.
ResponderTold(l) == daemon[<<l, "responder">>] = "running" => queue[<<l, "responder">>] # <<>>
QuerierTold(l) ==
    daemon[<<l, "querier">>] = "running" =>
      \E i \in DOMAIN queue[<<l, "querier">>] : Halts(queue[<<l, "querier">>][i])

\* A halt of a settled system reaches every daemon there is.
HInv ==
    /\ quiet \subseteq Clients
    /\ quiet # {} => ~unruly /\ Settled /\ \A l \in Launchers : ResponderTold(l)
    /\ \A c \in quiet : /\ client[c].cmd # None
                        /\ client[c].pc # "halt" => \A l \in Launchers : QuerierTold(l)

\* Nobody asked to unmonitor or halt, and no daemon was signalled or crashed.
Undisturbed == (\A c \in Clients : ~Undoes(client[c].cmd)) /\ faults = 0

\* The querier took the request of c and granted it, whatever c has heard of it.
Succeeded(c) == client[c].done = "success"

Monitored(l, t) == \E i \in DOMAIN mons[l] : mons[l][i] = t

\* The monitors are those of the requests that succeeded.
Admitted ==
    /\ \A d \in Daemons : daemon[d] # "halting"
    /\ ~Waiting(queue, None)
    /\ mons \in [Launchers -> Seq(Types)] /\ \A l \in Launchers : Len(mons[l]) <= MaxMonitors
    /\ \A c \in Clients : Succeeded(c) =>
         \E l \in Launchers : daemon[<<l, "querier">>] = "running" /\ Monitored(l, client[c].cmd[2])
    /\ \A c, d \in Clients : Succeeded(c) /\ Succeeded(d) /\ client[c].cmd = client[d].cmd => c = d
    /\ \A l \in Launchers : \A t \in Types :
         Monitored(l, t) => \E c \in Clients : Succeeded(c) /\ client[c].cmd = <<"monitor", t>>
    /\ \A c \in Clients : client[c].done = "inuse" =>
         \E d \in Clients : Succeeded(d) /\ client[d].cmd = client[c].cmd

AInv == faults \in Nat /\ (Undisturbed => Admitted)

-----------------------------------------------------------------------------
(* Sockets. *)

\* Daemons are pairs; mdns_launch itself is none.
LEMMA DaemonPairs ==
    /\ \A d \in Daemons : d[1] \in Launchers /\ d[2] \in Roles /\ d = <<d[1], d[2]>>
    /\ \A l \in Launchers, r \in Roles : <<l, r>> \in Daemons /\ <<l, r>>[1] = l /\ <<l, r>>[2] = r
    /\ \A l \in Launchers : <<l, "responder">> \in Daemons /\ <<l, "querier">> \in Daemons
    /\ \A l \in Launchers : Main(l) \notin Daemons
    /\ \A l, m : Main(l) = Main(m) => l = m
<1>1. "main" \notin Roles /\ "responder" \in Roles /\ "querier" \in Roles
  BY DEF Roles
<1> QED  BY <1>1 DEF Daemons, Main

\* Launched(m) is about main[m] and the two sockets of m, while nobody else has them.
LEMMA LaunchedKept ==
    ASSUME NEW m \in Launchers, Launched(m), main'[m] = main[m],
           \A r \in Roles : LET s == <<m, r>> IN
              daemon[s] = "none" /\ holders[s] \subseteq {Main(m)} =>
                daemon'[s] = "none" /\ holders'[s] = holders[s]
    PROVE  Launched(m)'
<1>1. <<m, "responder">>[1] = m /\ <<m, "querier">>[1] = m
  OBVIOUS
<1>2. ASSUME NEW r \in Roles
      PROVE  LET s == <<m, r>> IN (Unopened(s) => Unopened(s)') /\ (Opened(s) => Opened(s)')
  BY <1>1, <1>2 DEF Unopened, Opened
<1> QED  BY <1>2 DEF Launched, Roles

\* What a step may do to the daemons and keep SInv without touching a socket.
LEMMA SocketsKept ==
    ASSUME LInv, SInv, UNCHANGED <<main, holders, bound, unruly>>,
           \A d \in Daemons : daemon'[d] = "none" <=> daemon[d] = "none"
    PROVE  SInv'
<1>1. ASSUME NEW m \in Launchers PROVE Launched(m)'
  <2>1. Launched(m) /\ \A r \in Roles : <<m, r>> \in Daemons
    BY DaemonPairs, ZenonT(30) DEF SInv
  <2> QED  BY <2>1, LaunchedKept
<1> QED  BY <1>1 DEF SInv

\* A process that ends closes its own sockets and takes none from another.
LEMMA EndSockets ==
    ASSUME LInv, SInv, NEW d \in Daemons, End(d), UNCHANGED <<main, unruly>>
    PROVE  SInv'
<1>1. /\ bound' = bound
      /\ \A s \in Daemons : holders'[s] = holders[s] \ {d}
      /\ \A s \in Daemons : daemon'[s] = IF s = d THEN "none" ELSE daemon[s]
  BY DEF End, CloseAll, LInv
<1>2. holders' \in [Daemons -> SUBSET (Daemons \cup {Main(l) : l \in Launchers})]
  BY DEF End, CloseAll, SInv
<1>3. \A l \in Launchers : Main(l) # d
  BY DaemonPairs
<1>4. ASSUME NEW m \in Launchers PROVE Launched(m)'
  <2>1. Launched(m) /\ \A r \in Roles : <<m, r>> \in Daemons
    BY DaemonPairs DEF SInv
  <2> QED  BY <1>1, <1>3, <2>1, LaunchedKept, ZenonT(30)
<1>6. \A c \in Daemons : daemon'[c] # "none" => c \in holders'[c]
  BY <1>1 DEF SInv
<1> QED  BY <1>1, <1>2, <1>4, <1>6 DEF SInv

\* OpenSocket for d, with held the holders it starts from.
LEMMA OpenTypes ==
    ASSUME SInv, NEW d \in Daemons,
           NEW held \in [Daemons -> SUBSET (Daemons \cup {Main(l) : l \in Launchers})],
           OpenSocket(d, held)
    PROVE  /\ main' \in [Launchers -> Roles \cup {"idle", "end"}]
           /\ main'[d[1]] = d[2] /\ \A m \in Launchers \ {d[1]} : main'[m] = main[m]
           /\ holders' \in [Daemons -> SUBSET (Daemons \cup {Main(l) : l \in Launchers})]
           /\ holders'[d] = {Main(d[1])} /\ \A s \in Daemons \ {d} : holders'[s] = held[s]
           /\ bound' \in [Roles -> Seq(Daemons)]
           /\ \A r \in Roles : \A i \in DOMAIN bound'[r] : bound'[r][i][2] = r
           /\ bound'[d[2]] = Append(bound[d[2]], d) /\ \A r \in Roles \ {d[2]} : bound'[r] = bound[r]
<1>1. d[1] \in Launchers /\ d[2] \in Roles
  BY DaemonPairs
<1>2. /\ holders' = [held EXCEPT ![d] = {Main(d[1])}]
      /\ bound' = [bound EXCEPT ![d[2]] = Append(bound[d[2]], d)]
      /\ main' = [main EXCEPT ![d[1]] = d[2]]
  BY DEF OpenSocket
<1>3. {Main(d[1])} \in SUBSET (Daemons \cup {Main(l) : l \in Launchers})
  BY <1>1, Zenon
<1>4. /\ holders' \in [Daemons -> SUBSET (Daemons \cup {Main(l) : l \in Launchers})]
      /\ holders'[d] = {Main(d[1])} /\ \A s \in Daemons \ {d} : holders'[s] = held[s]
  BY <1>2, <1>3
<1>5. /\ main' \in [Launchers -> Roles \cup {"idle", "end"}]
      /\ main'[d[1]] = d[2] /\ \A m \in Launchers \ {d[1]} : main'[m] = main[m]
  BY <1>1, <1>2 DEF SInv
<1>6. /\ bound' \in [Roles -> Seq(Daemons)]
      /\ bound'[d[2]] = Append(bound[d[2]], d) /\ \A r \in Roles \ {d[2]} : bound'[r] = bound[r]
  BY <1>1, <1>2 DEF SInv
<1>7. ASSUME NEW r \in Roles, NEW i \in DOMAIN bound'[r] PROVE bound'[r][i][2] = r
  <2>1. bound[r] \in Seq(Daemons) /\ \A j \in DOMAIN bound[r] : bound[r][j][2] = r
    BY DEF SInv
  <2>2. CASE r # d[2]
    BY <1>6, <1>7, <2>1, <2>2
  <2>3. CASE r = d[2]
    <3>1. bound'[r] = Append(bound[r], d)
      BY <1>6, <2>3
    <3>2. i \in 1 .. Len(bound[r]) + 1
      BY <1>7, <2>1, <3>1
    <3>3. CASE i = Len(bound[r]) + 1
      BY <2>1, <2>3, <3>1, <3>3
    <3>4. CASE i \in 1 .. Len(bound[r])
      <4>1. bound'[r][i] = bound[r][i] /\ i \in DOMAIN bound[r]
        BY <2>1, <3>1, <3>4
      <4> QED  BY <2>1, <4>1
    <3> QED  BY <2>1, <3>2, <3>3, <3>4, SMTT(60)
  <2> QED  BY <2>2, <2>3
<1> QED  BY <1>4, <1>5, <1>6, <1>7

\* A launch opens sockets for a daemon that has none yet.
LEMMA LaunchSockets ==
    ASSUME LInv, SInv, NEW l \in Launchers, Launch(l)
    PROVE  SInv'
<1>1. PICK r \in Roles : r = IF Hostname[l] THEN "responder" ELSE "querier"
  BY DEF Roles
<1>2. PICK d \in Daemons : d = <<l, r>> /\ d[1] = l /\ d[2] = r
  BY DaemonPairs, ZenonT(30)
<1>3. main[l] = "idle" /\ OpenSocket(d, holders) /\ daemon' = daemon
  BY <1>1, <1>2 DEF Launch
<1>4. unruly' \in BOOLEAN
  BY Zenon DEF Launch, SInv
<1>5. /\ main' \in [Launchers -> Roles \cup {"idle", "end"}]
      /\ main'[l] = r /\ \A m \in Launchers \ {l} : main'[m] = main[m]
      /\ holders' \in [Daemons -> SUBSET (Daemons \cup {Main(m) : m \in Launchers})]
      /\ holders'[d] = {Main(l)} /\ \A s \in Daemons \ {d} : holders'[s] = holders[s]
      /\ bound' \in [Roles -> Seq(Daemons)]
      /\ \A q \in Roles : \A i \in DOMAIN bound'[q] : bound'[q][i][2] = q
  <2>1. holders \in [Daemons -> SUBSET (Daemons \cup {Main(m) : m \in Launchers})]
    BY DEF SInv
  <2> QED  BY <1>2, <1>3, <2>1, OpenTypes, Zenon
<1>6. Unopened(<<l, "responder">>) /\ Unopened(<<l, "querier">>)
  BY <1>3 DEF SInv, Launched
<1>7. Launched(l)'
  <2>1. CASE r = "responder"
    <3>1. Opened(d)' /\ Unopened(<<l, "querier">>)'
      <4>1. <<l, "querier">> \in Daemons \ {d}
        BY <1>2, <2>1, DaemonPairs
      <4> QED  BY <1>2, <1>3, <1>5, <1>6, <2>1, <4>1, ZenonT(30) DEF Opened, Unopened
    <3> QED  BY <1>2, <1>5, <2>1, <3>1 DEF Launched
  <2>2. CASE r = "querier"
    <3>1. Opened(d)'
      BY <1>2, <1>3, <1>5, <1>6, <2>2, ZenonT(30) DEF Opened, Unopened
    <3> QED  BY <1>2, <1>5, <2>2, <3>1 DEF Launched
  <2> QED  BY <2>1, <2>2 DEF Roles
<1>8. ASSUME NEW m \in Launchers, m # l PROVE Launched(m)'
  <2>1. Launched(m) /\ \A q \in Roles : <<m, q>> \in Daemons \ {d}
    BY <1>2, <1>8, DaemonPairs DEF SInv
  <2> QED  BY <1>3, <1>5, <1>8, <2>1, LaunchedKept, ZenonT(30)
<1>9. \A c \in Daemons : daemon[c] # "none" => c \in holders'[c]
  <2>1. daemon[d] = "none"
    BY <1>1, <1>2, <1>6 DEF Unopened
  <2> QED  BY <1>5, <2>1 DEF SInv
<1> QED  BY <1>3, <1>4, <1>5, <1>7, <1>8, <1>9 DEF SInv

\* A launch that gives up closes what it opened itself; the daemons keep theirs.
LEMMA ThreadRefusedSockets ==
    ASSUME LInv, SInv, NEW l \in Launchers, NEW r \in Roles, ThreadRefused(l, r)
    PROVE  SInv'
<1>1. /\ bound' = bound /\ unruly' = unruly /\ daemon' = daemon
      /\ main' = [main EXCEPT ![l] = "end"]
      /\ holders' = [s \in Daemons |-> holders[s] \ {Main(l)}]
  BY DEF ThreadRefused, CloseAll
<1>2. /\ main' \in [Launchers -> Roles \cup {"idle", "end"}]
      /\ main'[l] = "end" /\ \A m \in Launchers \ {l} : main'[m] = main[m]
  BY <1>1 DEF SInv
<1>3. holders' \in [Daemons -> SUBSET (Daemons \cup {Main(m) : m \in Launchers})]
  BY <1>1 DEF SInv
<1>4. Launched(l)'
  BY <1>2 DEF Launched, Roles
<1>5. ASSUME NEW m \in Launchers, m # l PROVE Launched(m)'
  <2>1. Launched(m) /\ Main(m) # Main(l) /\ \A q \in Roles : <<m, q>> \in Daemons
    BY <1>5, DaemonPairs DEF SInv
  <2>2. main'[m] = main[m]
    BY <1>2, <1>5
  <2>3. \A q \in Roles : holders[<<m, q>>] \subseteq {Main(m)} => holders'[<<m, q>>] = holders[<<m, q>>]
    BY <1>1, <2>1, ZenonT(30)
  <2> QED  BY <1>1, <2>1, <2>2, <2>3, LaunchedKept, ZenonT(30)
<1>6. \A c \in Daemons : daemon[c] # "none" => c \in holders'[c]
  BY <1>1, DaemonPairs DEF SInv
<1> QED  BY <1>1, <1>2, <1>3, <1>4, <1>5, <1>6, ZenonT(30) DEF SInv

\* The sockets of the parent that the child d of l inherits.
Inherited(l, d) == [s \in Daemons |-> IF Main(l) \in holders[s] THEN holders[s] \cup {d} ELSE holders[s]]

\* A forked daemon inherits the sockets its launch has open.
LEMMA ForkSockets ==
    ASSUME LInv, SInv, NEW l \in Launchers, NEW r \in Roles, Fork(l, r)
    PROVE  SInv'
<1>1. PICK d \in Daemons : d = <<l, r>> /\ d[1] = l /\ d[2] = r
  BY DaemonPairs, ZenonT(30)
<1>2. PICK held : held = Inherited(l, d)
  OBVIOUS
<1>3. /\ main[l] = r /\ unruly' = unruly
      /\ daemon' = [daemon EXCEPT ![d] = "starting"]
      /\ \/ r = "responder" /\ OpenSocket(<<l, "querier">>, held)
         \/ /\ r = "querier"
            /\ holders' = [s \in Daemons |-> held[s] \ {Main(l)}]
            /\ main' = [main EXCEPT ![l] = "end"]
            /\ bound' = bound
  BY <1>1, <1>2 DEF Fork, Inherited
<1>4. held \in [Daemons -> SUBSET (Daemons \cup {Main(m) : m \in Launchers})]
  BY <1>2 DEF Inherited, SInv
<1>5. /\ daemon'[d] = "starting" /\ \A s \in Daemons \ {d} : daemon'[s] = daemon[s]
  BY <1>3 DEF LInv
<1>6. Opened(d)
  <2>1. Launched(l)
    BY DEF SInv
  <2> QED  BY <1>1, <1>3, <2>1 DEF Launched, Roles
<1>7. ASSUME NEW m \in Launchers, m # l, NEW s \in Daemons, holders[s] \subseteq {Main(m)}
      PROVE  held[s] = holders[s] /\ held[s] \ {Main(l)} = holders[s]
  <2>1. Main(m) # Main(l)
    BY <1>7, DaemonPairs
  <2> QED  BY <1>2, <1>7, <2>1 DEF Inherited
<1>8. \A s \in Daemons : daemon'[s] # "none" => s \in held[s]
  BY <1>1, <1>2, <1>5, <1>6, ZenonT(30) DEF Inherited, SInv, Opened
<1>9. CASE r = "responder"
  <2>1. PICK e \in Daemons : e = <<l, "querier">> /\ e[1] = l /\ e[2] = "querier"
    BY DaemonPairs, ZenonT(30) DEF Roles
  <2>2. /\ main' \in [Launchers -> Roles \cup {"idle", "end"}]
        /\ main'[l] = "querier" /\ \A m \in Launchers \ {l} : main'[m] = main[m]
        /\ holders' \in [Daemons -> SUBSET (Daemons \cup {Main(m) : m \in Launchers})]
        /\ holders'[e] = {Main(l)} /\ \A s \in Daemons \ {e} : holders'[s] = held[s]
        /\ bound' \in [Roles -> Seq(Daemons)]
        /\ \A q \in Roles : \A i \in DOMAIN bound'[q] : bound'[q][i][2] = q
    <3>1. OpenSocket(e, held)
      BY <1>3, <1>9, <2>1
    <3> QED  BY <1>4, <2>1, <3>1, OpenTypes, ZenonT(60)
  <2>3. d # e /\ daemon[e] = "none"
    <3>1. Launched(l)
      BY DEF SInv
    <3> QED  BY <1>1, <1>3, <1>9, <2>1, <3>1 DEF Launched, Unopened
  <2>4. Launched(l)'
    <3>1. Opened(e)'
      BY <1>5, <2>1, <2>2, <2>3, ZenonT(30) DEF Opened
    <3> QED  BY <2>1, <2>2, <3>1 DEF Launched
  <2>5. ASSUME NEW m \in Launchers, m # l PROVE Launched(m)'
    <3>1. Launched(m) /\ \A q \in Roles : <<m, q>> \in Daemons \ {d, e}
      BY <1>1, <2>1, <2>5, DaemonPairs DEF SInv
    <3>2. main'[m] = main[m]
      BY <2>2, <2>5, ZenonT(30)
    <3>3. ASSUME NEW q \in Roles, daemon[<<m, q>>] = "none", holders[<<m, q>>] \subseteq {Main(m)}
          PROVE  daemon'[<<m, q>>] = "none" /\ holders'[<<m, q>>] = holders[<<m, q>>]
      BY <1>5, <1>7, <2>2, <2>5, <3>1, <3>3, ZenonT(30)
    <3> QED  BY <3>1, <3>2, <3>3, LaunchedKept, ZenonT(30)
  <2>6. \A s \in Daemons : daemon'[s] # "none" => s \in holders'[s]
    BY <1>5, <1>8, <2>2, <2>3, ZenonT(30)
  <2> QED  BY <1>3, <2>2, <2>4, <2>5, <2>6 DEF SInv
<1>10. CASE r = "querier"
  <2>1. /\ holders' = [s \in Daemons |-> held[s] \ {Main(l)}]
        /\ main' = [main EXCEPT ![l] = "end"]
        /\ bound' = bound
    BY <1>3, <1>10
  <2>2. /\ main' \in [Launchers -> Roles \cup {"idle", "end"}]
        /\ main'[l] = "end" /\ \A m \in Launchers \ {l} : main'[m] = main[m]
    BY <2>1 DEF SInv
  <2>3. holders' \in [Daemons -> SUBSET (Daemons \cup {Main(m) : m \in Launchers})]
    BY <1>4, <2>1
  <2>4. Launched(l)'
    BY <2>2, ZenonT(30) DEF Launched, Roles
  <2>5. ASSUME NEW m \in Launchers, m # l PROVE Launched(m)'
    <3>1. Launched(m) /\ \A q \in Roles : <<m, q>> \in Daemons \ {d}
      BY <1>1, <2>5, DaemonPairs DEF SInv
    <3>2. main'[m] = main[m]
      BY <2>2, <2>5, ZenonT(30)
    <3>3. ASSUME NEW q \in Roles, daemon[<<m, q>>] = "none", holders[<<m, q>>] \subseteq {Main(m)}
          PROVE  daemon'[<<m, q>>] = "none" /\ holders'[<<m, q>>] = holders[<<m, q>>]
      BY <1>5, <1>7, <2>1, <2>5, <3>1, <3>3, ZenonT(30)
    <3> QED  BY <3>1, <3>2, <3>3, LaunchedKept, ZenonT(30)
  <2>6. \A s \in Daemons : daemon'[s] # "none" => s \in holders'[s]
    BY <1>8, <2>1, DaemonPairs
  <2> QED  BY <1>3, <2>1, <2>2, <2>3, <2>4, <2>5, <2>6, ZenonT(30) DEF SInv
<1> QED  BY <1>9, <1>10 DEF Roles

\* A step that is no part of a launch and ends no process.
Keeping ==
    /\ UNCHANGED <<main, holders, bound, unruly>>
    /\ \A d \in Daemons : daemon'[d] = "none" <=> daemon[d] = "none"
    /\ \A d \in Daemons : daemon'[d] = "starting" => daemon[d] = "starting"

\* What the steps do to the processes and the sockets.
LEMMA Steps ==
    ASSUME LInv, [Next]_vars
    PROVE  \/ \E l \in Launchers : Launch(l)
           \/ \E l \in Launchers, r \in Roles : ThreadRefused(l, r) \/ Fork(l, r)
           \/ \E d \in Daemons : End(d) /\ UNCHANGED <<main, unruly>>
           \/ Keeping
<1>1. ASSUME NEW l \in Launchers, ResponderRx(l) PROVE Keeping
  <2>1. <<l, "responder">> \in Daemons
    BY DaemonPairs, ZenonT(30)
  <2> QED  BY <1>1, <2>1, ZenonT(30) DEF ResponderRx, Keeping, LInv
<1>2. ASSUME NEW l \in Launchers, QuerierRx(l) PROVE Keeping
  <2>1. <<l, "querier">> \in Daemons /\ daemon[<<l, "querier">>] = "running"
    BY <1>2, DaemonPairs, ZenonT(30) DEF QuerierRx
  <2>2. PICK s \in {"running", "halting"} : daemon' = [daemon EXCEPT ![<<l, "querier">>] = s]
    BY <1>2, <2>1, ZenonT(30) DEF QuerierRx
  <2>3. UNCHANGED <<main, holders, bound, unruly>>
    BY <1>2, ZenonT(30) DEF QuerierRx
  <2> QED  BY <2>1, <2>2, <2>3 DEF Keeping, LInv
<1>3. ASSUME NEW d \in Daemons, LockFile(d)
      PROVE  Keeping \/ (End(d) /\ UNCHANGED <<main, unruly>>)
  BY <1>3 DEF LockFile, Keeping, LInv
<1>4. ASSUME NEW d \in Daemons, Exit(d) \/ Crash(d) PROVE End(d) /\ UNCHANGED <<main, unruly>>
  BY <1>4 DEF Exit, Crash
<1>5. ASSUME NEW d \in Daemons, Signal(d) PROVE Keeping
  BY <1>5 DEF Signal, Keeping, LInv
<1>6. ASSUME NEW c \in Clients, (\E cmd \in Commands : Request(c, cmd)) \/ HaltQuerier(c) \/ NoResponse(c)
      PROVE  Keeping
  BY <1>6, ZenonT(30) DEF Request, HaltQuerier, NoResponse, Keeping
<1>7. CASE UNCHANGED vars
  BY <1>7 DEF vars, Keeping
<1> QED
  BY <1>1, <1>2, <1>3, <1>4, <1>5, <1>6, <1>7, Zenon DEF Next

\* Every step keeps the invariant of the sockets.
LEMMA StepSInv == LInv /\ SInv /\ [Next]_vars => SInv'
<1> SUFFICES ASSUME LInv, SInv, [Next]_vars PROVE SInv'
  OBVIOUS
<1>1. ASSUME Keeping PROVE SInv'
  <2>1. UNCHANGED <<main, holders, bound, unruly>>
    BY <1>1, Zenon DEF Keeping
  <2>2. \A d \in Daemons : daemon'[d] = "none" <=> daemon[d] = "none"
    BY <1>1, Zenon DEF Keeping
  <2> QED  BY <2>1, <2>2, SocketsKept, Zenon
<1> QED
  BY <1>1, Steps, LaunchSockets, ThreadRefusedSockets, ForkSockets, EndSockets, Zenon

\* It holds at the start, when nothing was bound.
LEMMA InitSInv == Init => SInv
<1> SUFFICES ASSUME Init PROVE SInv
  OBVIOUS
<1>1. \A l \in Launchers : Launched(l)
  <2> SUFFICES ASSUME NEW l \in Launchers PROVE Launched(l)
    BY ZenonT(30)
  <2>1. <<l, "responder">> \in Daemons /\ <<l, "querier">> \in Daemons /\ main[l] = "idle"
    BY DaemonPairs DEF Init
  <2> QED  BY <2>1 DEF Init, Launched, Unopened
<1>2. /\ main \in [Launchers -> Roles \cup {"idle", "end"}]
      /\ unruly \in BOOLEAN
  BY ZenonT(30) DEF Init
<1>5. bound \in [Roles -> Seq(Daemons)]
  <2>1. <<>> \in Seq(Daemons)
    OBVIOUS
  <2> QED  BY <2>1, Zenon DEF Init
<1>3. holders \in [Daemons -> SUBSET (Daemons \cup {Main(l) : l \in Launchers})]
  BY Zenon DEF Init
<1>4. /\ \A r \in Roles : \A i \in DOMAIN bound[r] : bound[r][i][2] = r
      /\ \A d \in Daemons : daemon[d] = "none"
  BY DEF Init
<1> QED  BY <1>1, <1>2, <1>3, <1>4, <1>5 DEF SInv

-----------------------------------------------------------------------------
(* The ports. *)

\* A socket stays the foremost of its port while only sockets of ended launches are
\* bound after it.
LEMMA ForemostKept ==
    ASSUME NEW r \in Roles, NEW c \in Daemons, c[2] = r, SInv, Foremost(c),
           DOMAIN bound[r] \subseteq DOMAIN bound'[r],
           DOMAIN bound'[r] \subseteq Nat,
           \A i \in DOMAIN bound[r] : bound'[r][i] = bound[r][i],
           \A i \in DOMAIN bound[r] : LET x == bound[r][i] IN
             holders[x] = {} \/ main[x[1]] = r => holders'[x] = {} \/ main'[x[1]] = r,
           \A j \in DOMAIN bound'[r] \ DOMAIN bound[r] : main'[bound'[r][j][1]] = r
    PROVE  Foremost(c)'
<1>1. PICK i \in DOMAIN bound[r] :
        /\ bound[r][i] = c
        /\ \A j \in DOMAIN bound[r] : j > i => holders[bound[r][j]] = {} \/ main[bound[r][j][1]] = r
  BY ZenonT(30) DEF Foremost
<1>2. i \in DOMAIN bound'[r] /\ bound'[r][i] = c
  BY <1>1, ZenonT(30)
<1>3. ASSUME NEW j \in DOMAIN bound'[r], j > i
      PROVE  holders'[bound'[r][j]] = {} \/ main'[bound'[r][j][1]] = r
  <2>1. CASE j \in DOMAIN bound[r]
    BY <1>1, <1>3, <2>1, ZenonT(60)
  <2>2. CASE j \notin DOMAIN bound[r]
    BY <2>2, Zenon
  <2> QED  BY <2>1, <2>2
<1> QED  BY <1>2, <1>3, Zenon DEF Foremost

\* Neither does the end of a process, nor a step outside the launches, disturb the ports.
LEMMA KeepingRInv ==
    ASSUME SInv, RInv, Keeping
    PROVE  RInv'
<1> SUFFICES ASSUME ~unruly' PROVE RInv'
  BY ZenonT(30) DEF RInv
<1>1. /\ main' = main /\ holders' = holders /\ bound' = bound /\ ~unruly
      /\ \A d \in Daemons : daemon'[d] = "none" <=> daemon[d] = "none"
      /\ \A d \in Daemons : daemon'[d] = "starting" => daemon[d] = "starting"
  BY DEF Keeping
<1>2. \A d \in Daemons : Foremost(d) => Foremost(d)'
  BY <1>1, Zenon DEF Foremost
<1>3. \A l : Busy(l)' <=> Busy(l)
  BY <1>1 DEF Busy
<1> QED  BY <1>1, <1>2, <1>3, ZenonT(30) DEF RInv

\* The end of a daemon leaves the other daemons' sockets in front.
LEMMA EndRInv ==
    ASSUME LInv, SInv, RInv, NEW d \in Daemons, End(d), UNCHANGED <<main, unruly>>
    PROVE  RInv'
<1> SUFFICES ASSUME ~unruly' PROVE RInv'
  BY DEF RInv
<1>1. /\ main' = main /\ bound' = bound /\ ~unruly
      /\ \A s \in Daemons : holders'[s] = holders[s] \ {d}
      /\ \A s \in Daemons : daemon'[s] = IF s = d THEN "none" ELSE daemon[s]
  BY ZenonT(30) DEF End, CloseAll, LInv
<1>2. ASSUME NEW c \in Daemons, Foremost(c) PROVE Foremost(c)'
  <2>1. PICK r \in Roles : r = c[2]
    BY DaemonPairs
  <2>2. bound[r] \in Seq(Daemons)
    BY DEF SInv
  <2>3. \A i \in DOMAIN bound[r] : bound[r][i] \in Daemons
    BY <2>2
  <2>4. DOMAIN bound[r] \subseteq Nat
    BY <2>2
  <2> QED  BY <1>1, <1>2, <2>1, <2>3, <2>4, ForemostKept, ZenonT(90)
<1>3. \A l : Busy(l)' <=> Busy(l)
  BY <1>1, ZenonT(30) DEF Busy
<1> QED  BY <1>1, <1>2, <1>3, ZenonT(30) DEF RInv

\* An orderly launch starts when nobody else is busy, so its sockets come to the front.
LEMMA LaunchRInv ==
    ASSUME LInv, SInv, RInv, NEW l \in Launchers, Launch(l)
    PROVE  RInv'
<1> SUFFICES ASSUME ~unruly' PROVE RInv'
  BY DEF RInv
<1>1. PICK r \in Roles : r = IF Hostname[l] THEN "responder" ELSE "querier"
  BY DEF Roles
<1>2. PICK d \in Daemons : d = <<l, r>> /\ d[1] = l /\ d[2] = r
  BY DaemonPairs, ZenonT(30)
<1>3. main[l] = "idle" /\ OpenSocket(d, holders) /\ daemon' = daemon /\ ~unruly /\ Settled
  BY <1>1, <1>2, ZenonT(30) DEF Launch, SInv
<1>4. /\ main'[l] = r /\ \A m \in Launchers \ {l} : main'[m] = main[m]
      /\ holders'[d] = {Main(l)} /\ \A s \in Daemons \ {d} : holders'[s] = holders[s]
      /\ bound'[r] = Append(bound[r], d) /\ \A q \in Roles \ {r} : bound'[q] = bound[q]
  <2>1. holders \in [Daemons -> SUBSET (Daemons \cup {Main(m) : m \in Launchers})]
    BY DEF SInv
  <2> QED  BY <1>2, <1>3, <2>1, OpenTypes, Zenon
<1>5. \A m \in Launchers : Busy(m)' => m = l
  BY <1>3, <1>4 DEF Settled, Busy, Roles
<1>6. \A c \in Daemons : daemon'[c] # "starting"
  BY <1>3 DEF Settled
<1>7. bound'[r] # <<>> /\ bound'[r][Len(bound'[r])] = <<l, r>>
  <2>1. bound[r] \in Seq(Daemons)
    BY DEF SInv
  <2>2. bound'[r] # <<>> /\ bound'[r][Len(bound'[r])] = d
    BY <1>4, <2>1
  <2> QED  BY <1>2, <2>2
<1>8. ASSUME NEW c \in Daemons, Foremost(c) PROVE Foremost(c)'
  <2>1. PICK q \in Roles : q = c[2]
    BY DaemonPairs
  <2>2. bound[q] \in Seq(Daemons) /\ \A i \in DOMAIN bound[q] : bound[q][i][2] = q
    BY DEF SInv
  <2>3. \A i \in DOMAIN bound[q] : bound[q][i] \in Daemons /\ bound[q][i][1] \in Launchers
    BY <2>2, DaemonPairs
  <2>4. DOMAIN bound[q] \subseteq Nat
    BY <2>2, SMTT(60)
  <2>5. ASSUME NEW i \in DOMAIN bound[q], NEW x, x = bound[q][i], holders[x] = {} \/ main[x[1]] = q
        PROVE  holders'[x] = {} \/ main'[x[1]] = q
    <3>1. x \in Daemons /\ x[2] = q /\ x[1] \in Launchers
      BY <2>2, <2>3, <2>5
    <3>2. main[x[1]] # q
      BY <1>3, <3>1 DEF Settled, Roles
    <3> QED  BY <1>2, <1>4, <2>5, <3>1, <3>2, ZenonT(30)
  <2>8. \A i \in DOMAIN bound[q] : LET x == bound[q][i] IN
          holders[x] = {} \/ main[x[1]] = q => holders'[x] = {} \/ main'[x[1]] = q
    BY <2>5, Zenon
  <2>6. CASE q # r
    <3>1. bound'[q] = bound[q]
      BY <1>4, <2>6
    <3> QED  BY <1>8, <2>1, <2>4, <2>8, <3>1, ForemostKept, Zenon
  <2>7. CASE q = r
    <3>1. /\ DOMAIN bound'[q] = 1 .. Len(bound[q]) + 1
          /\ DOMAIN bound[q] = 1 .. Len(bound[q])
          /\ \A i \in DOMAIN bound[q] : bound'[q][i] = bound[q][i]
          /\ bound'[q][Len(bound[q]) + 1] = d
          /\ Len(bound[q]) \in Nat
      BY <1>4, <2>2, <2>7, SMTT(60)
    <3>2. \A j \in DOMAIN bound'[q] \ DOMAIN bound[q] : bound'[q][j] = d
      BY <3>1
    <3>3. DOMAIN bound'[q] \subseteq Nat /\ DOMAIN bound[q] \subseteq DOMAIN bound'[q]
      BY <3>1
    <3>4. \A j \in DOMAIN bound'[q] \ DOMAIN bound[q] : main'[bound'[q][j][1]] = q
      BY <1>2, <1>4, <2>7, <3>2
    <3> QED  BY <1>8, <2>1, <2>8, <3>1, <3>3, <3>4, ForemostKept, Zenon
  <2> QED  BY <2>6, <2>7
<1>9. \A c \in Daemons : daemon'[c] # "none" => Foremost(c)'
  BY <1>3, <1>8, ZenonT(30) DEF RInv
<1> QED  BY <1>4, <1>5, <1>6, <1>7, <1>9, ZenonT(30) DEF RInv

\* A launch that gives up leaves no open socket in front of a living daemon.
LEMMA ThreadRefusedRInv ==
    ASSUME LInv, SInv, RInv, NEW l \in Launchers, NEW r \in Roles, ThreadRefused(l, r)
    PROVE  RInv'
<1> SUFFICES ASSUME ~unruly' PROVE RInv'
  BY ZenonT(30) DEF RInv
<1>1. /\ bound' = bound /\ ~unruly /\ daemon' = daemon
      /\ main[l] = r /\ main' = [main EXCEPT ![l] = "end"]
      /\ \A s \in Daemons : holders'[s] = holders[s] \ {Main(l)}
  BY DEF ThreadRefused, CloseAll
<1>2. main'[l] = "end" /\ \A m \in Launchers \ {l} : main'[m] = main[m]
  BY <1>1, ZenonT(30) DEF SInv
<1>3. \A m \in Launchers : Busy(m)' => m # l /\ Busy(m)
  BY <1>2, ZenonT(30) DEF Busy, Roles
<1>4. Busy(l)
  BY <1>1, ZenonT(30) DEF Busy
<1>5. \A m \in Launchers : ~Busy(m)'
  BY <1>1, <1>3, <1>4, ZenonT(30) DEF RInv
<1>6. holders[<<l, r>>] = {Main(l)}
  <2>1. Launched(l)
    BY DEF SInv
  <2> QED  BY <1>1, <2>1, DaemonPairs, ZenonT(30) DEF Launched, Opened, Roles
<1>7. ASSUME NEW c \in Daemons, Foremost(c) PROVE Foremost(c)'
  <2>1. PICK q \in Roles : q = c[2]
    BY DaemonPairs, ZenonT(30)
  <2>2. bound[q] \in Seq(Daemons) /\ \A i \in DOMAIN bound[q] : bound[q][i][2] = q
    BY DEF SInv
  <2>3. \A i \in DOMAIN bound[q] : bound[q][i] \in Daemons
    BY <2>2
  <2>4. DOMAIN bound[q] \subseteq Nat
    BY <2>2, SMTT(60)
  <2>5. ASSUME NEW i \in DOMAIN bound[q], NEW x, x = bound[q][i], holders[x] = {} \/ main[x[1]] = q
        PROVE  holders'[x] = {} \/ main'[x[1]] = q
    <3>1. x \in Daemons /\ x[2] = q /\ x[1] \in Launchers /\ x = <<x[1], x[2]>>
      BY <2>2, <2>3, <2>5, DaemonPairs
    <3>2. CASE x[1] = l /\ main[x[1]] = q
      BY <1>1, <1>6, <3>1, <3>2
    <3> QED  BY <1>1, <1>2, <2>5, <3>1, <3>2, ZenonT(30)
  <2>6. \A i \in DOMAIN bound[q] : LET x == bound[q][i] IN
          holders[x] = {} \/ main[x[1]] = q => holders'[x] = {} \/ main'[x[1]] = q
    BY <2>5, Zenon
  <2>7. bound'[q] = bound[q]
    BY <1>1
  <2> QED  BY <1>7, <2>1, <2>4, <2>6, <2>7, ForemostKept, Zenon
<1> QED  BY <1>1, <1>5, <1>7, ZenonT(30) DEF RInv

\* All launches have a host name, or none has.
Alike == \A l, m \in Launchers : Hostname[l] = Hostname[m]

\* Where the test of the lock succeeds, launches come one after the other and use the
\* same pid files, the daemon that is forked is the first of its role.
LEMMA ForkAlone ==
    ASSUME Alike, LInv, SInv, RInv, ~unruly, NEW l \in Launchers, NEW r \in Roles, Fork(l, r),
           NEW c \in Daemons, c[2] = r
    PROVE  daemon[c] = "none"
<1>1. main[l] = r /\ lock[File(<<l, r>>)] = None
  BY DEF Fork
<1>2. c[1] \in Launchers /\ c = <<c[1], r>> /\ <<l, r>>[1] = l /\ <<l, r>>[2] = r /\ <<l, r>> \in Daemons
  BY DaemonPairs
<1>3. File(c) = File(<<l, r>>)
  BY <1>2 DEF File, Alike
<1>4. ~Alive(c)
  BY <1>1, <1>3, ControlAssumption DEF LInv
<1>5. daemon[c] # "starting"
  <2>1. SUFFICES ASSUME daemon[c] = "starting" PROVE FALSE
    OBVIOUS
  <2>2. c = <<l, r>>
    BY <1>1, <1>2, <2>1, ZenonT(30) DEF RInv, Busy
  <2>3. Launched(l)
    BY DEF SInv
  <2> QED  BY <1>1, <2>1, <2>2, <2>3 DEF Launched, Opened, Roles
<1> QED  BY <1>4, <1>5, ZenonT(30) DEF LInv, Alive

\* The daemon that an orderly launch forks has the foremost socket of its port.
LEMMA ForkRInv ==
    ASSUME Alike, LInv, SInv, RInv, NEW l \in Launchers, NEW r \in Roles, Fork(l, r)
    PROVE  RInv'
<1> SUFFICES ASSUME ~unruly' PROVE RInv'
  BY DEF RInv
<1>1. PICK d \in Daemons : d = <<l, r>> /\ d[1] = l /\ d[2] = r
  BY DaemonPairs, ZenonT(30)
<1>2. PICK held : held = Inherited(l, d)
  OBVIOUS
<1>3. /\ main[l] = r /\ ~unruly
      /\ daemon' = [daemon EXCEPT ![d] = "starting"]
      /\ \/ r = "responder" /\ OpenSocket(<<l, "querier">>, held)
         \/ /\ r = "querier"
            /\ holders' = [s \in Daemons |-> held[s] \ {Main(l)}]
            /\ main' = [main EXCEPT ![l] = "end"]
            /\ bound' = bound
  BY <1>1, <1>2 DEF Fork, Inherited
<1>4. held \in [Daemons -> SUBSET (Daemons \cup {Main(m) : m \in Launchers})]
  BY <1>2 DEF Inherited, SInv
<1>5. /\ daemon'[d] = "starting" /\ \A s \in Daemons \ {d} : daemon'[s] = daemon[s]
  BY <1>3 DEF LInv
<1>6. \A c \in Daemons : c[2] = r => daemon[c] = "none"
  BY <1>3, ForkAlone, Zenon
<1>7. /\ bound[r] # <<>> /\ bound[r][Len(bound[r])] = d
      /\ \A m \in Launchers : Busy(m) => m = l
      /\ \A c \in Daemons : daemon[c] = "starting" => c[1] = l
  BY <1>1, <1>3, ZenonT(30) DEF RInv, Busy
<1>8. \A s \in Daemons : holders[s] = {} => held[s] = {}
  BY <1>2 DEF Inherited
<1>9. ASSUME bound'[r] = bound[r] PROVE Foremost(d)'
  <2>1. bound[r] \in Seq(Daemons)
    BY DEF SInv
  <2>2. Len(bound[r]) \in DOMAIN bound[r] /\ \A j \in DOMAIN bound[r] : ~(j > Len(bound[r]))
    BY <1>7, <2>1, SMTT(60)
  <2> QED  BY <1>1, <1>7, <1>9, <2>2, Zenon DEF Foremost
<1>10. ASSUME NEW x \in Daemons, x[2] # r, main[x[1]] = x[2] PROVE FALSE
  <2>1. Busy(x[1]) /\ x[1] \in Launchers
    BY <1>10, DaemonPairs DEF Busy
  <2> QED  BY <1>3, <1>7, <1>10, <2>1
<1>11. ASSUME NEW c \in Daemons, daemon[c] # "none"
       PROVE  c[2] # r /\ Foremost(c) /\ c[2] \in Roles
  BY <1>3, <1>6, <1>11, DaemonPairs, ZenonT(30) DEF RInv
<1>12. CASE r = "responder"
  <2>1. PICK e \in Daemons : e = <<l, "querier">> /\ e[1] = l /\ e[2] = "querier"
    BY DaemonPairs, ZenonT(30) DEF Roles
  <2>2. /\ main'[l] = "querier" /\ \A m \in Launchers \ {l} : main'[m] = main[m]
        /\ holders'[e] = {Main(l)} /\ \A s \in Daemons \ {e} : holders'[s] = held[s]
        /\ bound'["querier"] = Append(bound["querier"], e)
        /\ \A q \in Roles \ {"querier"} : bound'[q] = bound[q]
    <3>1. OpenSocket(e, held)
      BY <1>3, <1>12, <2>1
    <3> QED  BY <1>4, <2>1, <3>1, OpenTypes, Zenon
  <2>3. \A m \in Launchers : Busy(m)' => m = l
    BY <1>7, <2>2, ZenonT(30) DEF Busy
  <2>4. \A c \in Daemons : daemon'[c] = "starting" => c[1] = l
    BY <1>1, <1>5, <1>7
  <2>5. PICK b \in Seq(Daemons) : b = bound["querier"]
    BY ZenonT(30) DEF SInv, Roles
  <2>6. /\ bound'["querier"] # <<>> /\ bound'["querier"][Len(bound'["querier"])] = e
        /\ DOMAIN b = 1 .. Len(b) /\ DOMAIN bound'["querier"] = 1 .. Len(b) + 1
        /\ \A i \in DOMAIN b : bound'["querier"][i] = b[i]
        /\ bound'["querier"][Len(b) + 1] = e /\ Len(b) \in Nat
    BY <2>2, <2>5, SMTT(60)
  <2>7. /\ DOMAIN b \subseteq DOMAIN bound'["querier"] /\ DOMAIN bound'["querier"] \subseteq Nat
        /\ \A j \in DOMAIN bound'["querier"] \ DOMAIN b : bound'["querier"][j] = e
    BY <2>6, SMTT(60)
  <2>8. ASSUME NEW i \in DOMAIN b, NEW x, x = b[i], holders[x] = {} \/ main[x[1]] = "querier"
        PROVE  holders'[x] = {} \/ main'[x[1]] = "querier"
    <3>1. x \in Daemons /\ x[2] = "querier"
      BY <2>5, <2>8 DEF SInv, Roles
    <3>2. main[x[1]] # "querier"
      BY <1>10, <1>12, <3>1
    <3> QED  BY <1>8, <2>1, <2>2, <2>8, <3>1, <3>2, ZenonT(30)
  <2>9. ASSUME NEW c \in Daemons, daemon[c] # "none" PROVE Foremost(c)'
    <3>1. c[2] = "querier" /\ Foremost(c) /\ "querier" \in Roles
      BY <1>11, <1>12, <2>9 DEF Roles
    <3>2. \A i \in DOMAIN b : LET x == b[i] IN
            holders[x] = {} \/ main[x[1]] = "querier" => holders'[x] = {} \/ main'[x[1]] = "querier"
      BY <2>8, Zenon
    <3>3. \A j \in DOMAIN bound'["querier"] \ DOMAIN b : main'[bound'["querier"][j][1]] = "querier"
      BY <2>1, <2>2, <2>7, ZenonT(30)
    <3>4. \A i \in DOMAIN b : bound'["querier"][i] = b[i]
      BY <2>6, ZenonT(30)
    <3> QED  BY <2>5, <2>7, <3>1, <3>2, <3>3, <3>4, ForemostKept, ZenonT(60)
  <2>10. Foremost(d)'
    BY <1>9, <1>12, <2>2 DEF Roles
  <2>11. \A c \in Daemons : daemon'[c] # "none" => Foremost(c)'
    BY <1>5, <2>9, <2>10, ZenonT(30)
  <2> QED  BY <2>1, <2>2, <2>3, <2>4, <2>6, <2>11, ZenonT(30) DEF RInv
<1>13. CASE r = "querier"
  <2>1. /\ \A s \in Daemons : holders'[s] = held[s] \ {Main(l)}
        /\ main' = [main EXCEPT ![l] = "end"]
        /\ bound' = bound
    BY <1>3, <1>13, ZenonT(30)
  <2>2. main'[l] = "end" /\ \A m \in Launchers \ {l} : main'[m] = main[m]
    BY <2>1 DEF SInv
  <2>3. \A m \in Launchers : ~Busy(m)'
    BY <1>7, <2>2 DEF Busy, Roles
  <2>4. ASSUME NEW c \in Daemons, daemon[c] # "none" PROVE Foremost(c)'
    <3>1. PICK q \in Roles : q = c[2] /\ q # r /\ Foremost(c)
      BY <1>11, <2>4, ZenonT(30)
    <3>2. bound[q] \in Seq(Daemons) /\ \A i \in DOMAIN bound[q] : bound[q][i][2] = q
      BY DEF SInv
    <3>3. DOMAIN bound[q] \subseteq Nat /\ \A i \in DOMAIN bound[q] : bound[q][i] \in Daemons
      BY <3>2, SMTT(60)
    <3>4. ASSUME NEW i \in DOMAIN bound[q], NEW x, x = bound[q][i], holders[x] = {} \/ main[x[1]] = q
          PROVE  holders'[x] = {} \/ main'[x[1]] = q
      <4>1. x \in Daemons /\ x[2] = q
        BY <3>2, <3>3, <3>4, ZenonT(30)
      <4>2. holders[x] = {}
        BY <1>10, <3>1, <3>4, <4>1
      <4> QED  BY <1>8, <2>1, <4>1, <4>2, ZenonT(30)
    <3>5. \A i \in DOMAIN bound[q] : LET x == bound[q][i] IN
            holders[x] = {} \/ main[x[1]] = q => holders'[x] = {} \/ main'[x[1]] = q
      BY <3>4, Zenon
    <3>6. bound'[q] = bound[q]
      BY <2>1, ZenonT(30)
    <3> QED  BY <3>1, <3>3, <3>5, <3>6, ForemostKept, Zenon
  <2>5. \A c \in Daemons : daemon'[c] # "none" => Foremost(c)'
    BY <1>5, <1>9, <2>1, <2>4
  <2> QED  BY <2>3, <2>5, ZenonT(30) DEF RInv
<1> QED  BY <1>12, <1>13, ZenonT(30) DEF Roles

\* Every step keeps the invariant of who receives.
LEMMA StepRInv == Alike /\ LInv /\ SInv /\ RInv /\ [Next]_vars => RInv'
<1> SUFFICES ASSUME Alike, LInv, SInv, RInv, [Next]_vars PROVE RInv'
  BY ZenonT(30)
<1> QED
  BY Steps, LaunchRInv, ThreadRefusedRInv, ForkRInv, EndRInv, KeepingRInv, Zenon

\* It holds at the start.
LEMMA InitRInv == Init => RInv
BY DEF Init, RInv, Busy, Roles

-----------------------------------------------------------------------------
(* The queues. *)

\* A port has one socket that receives, of the right role.
LEMMA LatestSocket ==
    ASSUME SInv, NEW r \in Roles, NEW s \in Daemons, IsLatest(s, r)
    PROVE  s[2] = r /\ \A t \in Daemons : IsLatest(t, r) => t = s
<1>1. PICK i \in DOMAIN bound[r] : /\ bound[r][i] = s /\ holders[s] # {}
                                   /\ \A j \in DOMAIN bound[r] : j > i => holders[bound[r][j]] = {}
  BY ZenonT(30) DEF IsLatest
<1>2. s[2] = r
  BY <1>1, ZenonT(30) DEF SInv
<1>3. DOMAIN bound[r] \subseteq Nat
  <2>1. bound[r] \in Seq(Daemons)
    BY ZenonT(30) DEF SInv
  <2> QED  BY <2>1, SMTT(60)
<1>4. ASSUME NEW t \in Daemons, IsLatest(t, r) PROVE t = s
  <2>1. PICK k \in DOMAIN bound[r] : /\ bound[r][k] = t /\ holders[t] # {}
                                     /\ \A j \in DOMAIN bound[r] : j > k => holders[bound[r][j]] = {}
    BY <1>4, ZenonT(30) DEF IsLatest
  <2>2. ~(k > i) /\ ~(i > k)
    BY <1>1, <2>1, ZenonT(30)
  <2>3. i = k
    BY <1>3, <2>2
  <2> QED  BY <1>1, <2>1, <2>3, ZenonT(30)
<1> QED  BY <1>2, <1>4

\* What is posted is appended to one queue at most.
LEMMA PostAt ==
    ASSUME NEW q \in Queues, NEW r \in Roles, NEW m \in Clients \cup {None}, NEW p, p = Post(q, r, m)
    PROVE  /\ p \in Queues
           /\ \A s \in Daemons : p[s] = IF IsLatest(s, r) THEN Append(q[s], m) ELSE q[s]
<1>1. \A s \in Daemons : q[s] \in Seq(Clients \cup {None}) /\ Append(q[s], m) \in Seq(Clients \cup {None})
  BY SMTT(60) DEF Queues
<1> QED  BY <1>1 DEF Post, Queues

\* The entries of a queue after a post.
LEMMA PostEntries ==
    ASSUME NEW q \in Queues, NEW r \in Roles, NEW m \in Clients \cup {None}, NEW p, p = Post(q, r, m),
           NEW s \in Daemons
    PROVE  /\ DOMAIN q[s] \subseteq DOMAIN p[s] /\ \A i \in DOMAIN q[s] : p[s][i] = q[s][i]
           /\ \A i \in DOMAIN p[s] : i \in DOMAIN q[s] \/ (IsLatest(s, r) /\ i = Len(q[s]) + 1 /\ p[s][i] = m)
           /\ IsLatest(s, r) => Len(q[s]) + 1 \in DOMAIN p[s] /\ p[s][Len(q[s]) + 1] = m
<1>1. q[s] \in Seq(Clients \cup {None})
  BY DEF Queues
<1>2. p[s] = IF IsLatest(s, r) THEN Append(q[s], m) ELSE q[s]
  BY PostAt, ZenonT(90)
<1>3. CASE IsLatest(s, r)
  <2>1. p[s] = Append(q[s], m)
    BY <1>2, <1>3, ZenonT(30)
  <2> QED  BY <1>1, <1>3, <2>1, SMTT(60)
<1>4. CASE ~IsLatest(s, r)
  BY <1>2, <1>4
<1> QED  BY <1>3, <1>4

\* A post of None, or of a client that has none waiting.
LEMMA PostQueues ==
    ASSUME SInv, NEW q \in Queues, Unique(q), Addressed(q), NEW r \in Roles,
           NEW m \in Clients \cup {None}, NEW p, p = Post(q, r, m),
           m # None => r = "querier" /\ ~Waiting(q, m)
    PROVE  /\ p \in Queues /\ Unique(p) /\ Addressed(p)
           /\ \A c : Waiting(p, c) => c = m \/ Waiting(q, c)
<1>1. ASSUME NEW d \in Daemons, NEW i \in DOMAIN p[d]
      PROVE  \/ i \in DOMAIN q[d] /\ p[d][i] = q[d][i]
             \/ IsLatest(d, r) /\ i = Len(q[d]) + 1 /\ p[d][i] = m
  BY PostEntries
<1>2. Unique(p)
  <2> SUFFICES ASSUME NEW d \in Daemons, NEW e \in Daemons, NEW i \in DOMAIN p[d], NEW j \in DOMAIN p[e],
                      p[d][i] = p[e][j], p[d][i] # None
               PROVE  d = e /\ i = j
    BY SMTT(60) DEF Unique
  <2>1. CASE i \in DOMAIN q[d] /\ p[d][i] = q[d][i] /\ j \in DOMAIN q[e] /\ p[e][j] = q[e][j]
    <3>1. q[d][i] = q[e][j] /\ q[d][i] # None /\ i \in DOMAIN q[d] /\ j \in DOMAIN q[e]
      BY <2>1, Zenon
    <3>2. \A x \in DOMAIN q[d], y \in DOMAIN q[e] : q[d][x] = q[e][y] /\ q[d][x] # None => d = e /\ x = y
      BY DEF Unique
    <3> QED  BY <3>1, <3>2
  <2>2. CASE p[d][i] = m /\ j \in DOMAIN q[e] /\ p[e][j] = q[e][j]
    BY <2>2, Zenon DEF Waiting
  <2>3. CASE p[e][j] = m /\ i \in DOMAIN q[d] /\ p[d][i] = q[d][i]
    BY <2>3, Zenon DEF Waiting
  <2>4. CASE IsLatest(d, r) /\ i = Len(q[d]) + 1 /\ IsLatest(e, r) /\ j = Len(q[e]) + 1
    BY <2>4, LatestSocket
  <2> QED  BY <1>1, <2>1, <2>2, <2>3, <2>4, Zenon
<1>3. Addressed(p)
  <2> SUFFICES ASSUME NEW d \in Daemons, NEW i \in DOMAIN p[d], p[d][i] # None PROVE d[2] = "querier"
    BY Zenon DEF Addressed
  <2>1. CASE i \in DOMAIN q[d] /\ p[d][i] = q[d][i]
    BY <2>1, Zenon DEF Addressed
  <2>2. CASE IsLatest(d, r) /\ p[d][i] = m
    BY <2>2, LatestSocket
  <2> QED  BY <1>1, <2>1, <2>2, Zenon
<1>4. ASSUME NEW c, Waiting(p, c) PROVE c = m \/ Waiting(q, c)
  BY <1>1, <1>4, ZenonT(60) DEF Waiting
<1> QED  BY <1>2, <1>3, <1>4, PostAt, ZenonT(30)

\* Datagrams are lost with a socket, or taken from the front.
LEMMA TakeQueues ==
    ASSUME NEW q \in Queues, Unique(q), Addressed(q), NEW p \in [Daemons -> Seq(Clients \cup {None})],
           \A d \in Daemons : p[d] \in {<<>>, q[d]} \/ (q[d] # <<>> /\ p[d] = Tail(q[d]))
    PROVE  /\ p \in Queues /\ Unique(p) /\ Addressed(p)
           /\ \A c : Waiting(p, c) => Waiting(q, c)
<1>1. ASSUME NEW d \in Daemons
      PROVE  \E k \in {0, 1} : \A i \in DOMAIN p[d] : /\ i \in Nat /\ i + k \in DOMAIN q[d]
                                                     /\ p[d][i] = q[d][i + k]
  <2>1. q[d] \in Seq(Clients \cup {None})
    BY DEF Queues
  <2>2. CASE p[d] = <<>>
    BY <2>2
  <2>3. CASE p[d] = q[d]
    <3>1. \A i \in DOMAIN p[d] : i \in Nat /\ i + 0 = i
      BY <2>1, <2>3, SMTT(60)
    <3> QED  BY <2>3, <3>1, ZenonT(30)
  <2>4. CASE q[d] # <<>> /\ p[d] = Tail(q[d])
    <3>1. \A i \in DOMAIN p[d] : i \in Nat /\ i + 1 \in DOMAIN q[d] /\ p[d][i] = q[d][i + 1]
      BY <2>1, <2>4, SMTT(60)
    <3> QED  BY <3>1, ZenonT(30)
  <2> QED  BY <2>2, <2>3, <2>4, ZenonT(30)
<1>2. Unique(p)
  <2> SUFFICES ASSUME NEW d \in Daemons, NEW e \in Daemons, NEW i \in DOMAIN p[d], NEW j \in DOMAIN p[e],
                      p[d][i] = p[e][j], p[d][i] # None
               PROVE  d = e /\ i = j
    BY SMTT(60) DEF Unique
  <2>1. PICK k \in {0, 1} : \A n \in DOMAIN p[d] : n \in Nat /\ n + k \in DOMAIN q[d] /\ p[d][n] = q[d][n + k]
    BY <1>1, ZenonT(30)
  <2>2. PICK h \in {0, 1} : \A n \in DOMAIN p[e] : n \in Nat /\ n + h \in DOMAIN q[e] /\ p[e][n] = q[e][n + h]
    BY <1>1, ZenonT(30)
  <2>3. d = e /\ i + k = j + h
    BY <2>1, <2>2, SMTT(60) DEF Unique
  <2>4. i + h \in DOMAIN q[d] /\ p[d][i] = q[d][i + h] /\ i \in Nat /\ j \in Nat
    BY <2>1, <2>2, <2>3, ZenonT(30)
  <2>5. d = e /\ i + h = j + h
    BY <2>2, <2>3, <2>4, SMTT(60) DEF Unique
  <2> QED  BY <2>4, <2>5, SMTT(60)
<1>3. ASSUME NEW d \in Daemons, NEW i \in DOMAIN p[d] PROVE \E j \in DOMAIN q[d] : p[d][i] = q[d][j]
  BY <1>1, ZenonT(30)
<1>4. Addressed(p)
  BY <1>3, ZenonT(30) DEF Addressed
<1>5. \A c : Waiting(p, c) => Waiting(q, c)
  BY <1>3, ZenonT(90) DEF Waiting
<1> QED  BY <1>2, <1>4, <1>5 DEF Queues

\* A client that a step leaves alone stays consistent.
LEMMA ConsistentKept ==
    ASSUME NEW c \in Clients, Consistent(c), client'[c] = client[c],
           Waiting(queue', c) => Waiting(queue, c)
    PROVE  Consistent(c)'
BY ZenonT(30) DEF Consistent

\* Steps in which no client takes part.
LEMMA TakeQInv ==
    ASSUME QInv, client' = client, queue' \in Queues,
           \A d \in Daemons : queue'[d] \in {<<>>, queue[d]} \/ (queue[d] # <<>> /\ queue'[d] = Tail(queue[d]))
    PROVE  QInv'
<1>1. /\ Unique(queue') /\ Addressed(queue')
      /\ \A c \in Clients : Waiting(queue', c) => Waiting(queue, c)
  <2>1. queue \in Queues /\ Unique(queue) /\ Addressed(queue)
    BY DEF QInv
  <2> QED  BY <2>1, TakeQueues, Zenon DEF Queues
<1>2. \A c \in Clients : Consistent(c)'
  BY <1>1, ConsistentKept, Zenon DEF QInv
<1> QED  BY <1>1, <1>2 DEF QInv, Addressed, Unique

\* A closed socket loses its queue, and what remains is still consistent.
LEMMA EndQInv ==
    ASSUME QInv, NEW p, CloseAll(p), client' = client
    PROVE  QInv'
<1>1. <<>> \in Seq(Clients \cup {None})
  BY ZenonT(30), SMTT(60)
<1>2. queue' \in Queues /\ \A d \in Daemons : queue'[d] \in {<<>>, queue[d]}
  BY <1>1 DEF CloseAll, QInv, Queues
<1> QED  BY <1>2, TakeQInv, Zenon

\* Steps that touch neither queues nor clients keep the invariant.
LEMMA SameQInv ==
    ASSUME QInv, client' = client, queue' = queue
    PROVE  QInv'
BY Zenon DEF QInv, Consistent

\* The front of a queue is taken.
LEMMA FrontQueues ==
    ASSUME QInv, NEW d \in Daemons, queue[d] # <<>>, queue' = [queue EXCEPT ![d] = Tail(queue[d])]
    PROVE  /\ queue' \in Queues
           /\ \A e \in Daemons : queue'[e] \in {<<>>, queue[e]} \/ (queue[e] # <<>> /\ queue'[e] = Tail(queue[e]))
<1>1. queue[d] \in Seq(Clients \cup {None}) /\ queue \in [Daemons -> Seq(Clients \cup {None})]
  BY DEF QInv, Queues
<1>2. Tail(queue[d]) \in Seq(Clients \cup {None})
  BY <1>1, SMTT(60)
<1> QED  BY <1>1, <1>2 DEF Queues

\* Posts, and the client that posts.
LEMMA PostQInv ==
    ASSUME SInv, QInv, NEW r \in Roles, NEW c \in Clients, NEW m \in {c, None},
           queue' = Post(queue, r, m), m # None => r = "querier" /\ ~Waiting(queue, m),
           client' \in [Clients -> ClientRecord], \A b \in Clients \ {c} : client'[b] = client[b],
           (Waiting(queue', c) => Waiting(queue, c) \/ m = c) => Consistent(c)'
    PROVE  QInv'
<1>1. /\ queue' \in Queues /\ Unique(queue') /\ Addressed(queue')
      /\ \A b \in Clients : Waiting(queue', b) => b = m \/ Waiting(queue, b)
  <2>1. queue \in Queues /\ Unique(queue) /\ Addressed(queue)
    BY DEF QInv
  <2>2. PICK x \in Clients \cup {None} : x = m
    OBVIOUS
  <2> QED  BY <2>1, <2>2, PostQueues, Zenon
<1>2. ASSUME NEW b \in Clients, b # c PROVE Consistent(b)'
  <2>1. b # m
    BY <1>2, ControlAssumption, ZenonT(30)
  <2> QED  BY <1>1, <1>2, <2>1, ConsistentKept, Zenon DEF QInv
<1>3. Consistent(c)'
  BY <1>1
<1> QED  BY <1>1, <1>2, <1>3, ZenonT(30) DEF QInv, Unique, Addressed

\* Commands are pairs of a name and an argument, and not None.
LEMMA CommandNames ==
    \A cmd \in Commands : cmd # None /\ cmd[1] \in {"monitor", "unmonitor", "halt"}
<1>1. \A cmd \in AllCommands : cmd[1] \in {"monitor", "unmonitor", "halt"}
  BY DEF AllCommands
<1> QED  BY <1>1, ControlAssumption, ZenonT(30)

\* A new request is in one queue, once, and its client waits for it.
LEMMA RequestQInv ==
    ASSUME SInv, QInv, NEW c \in Clients, NEW cmd \in Commands, Request(c, cmd)
    PROVE  QInv'
<1>1. cmd # None /\ c # None
  BY ControlAssumption
<1>2. client[c] \in ClientRecord /\ client \in [Clients -> ClientRecord] /\ client[c].pc = "idle"
  BY DEF QInv, Request
<1>3. PICK pc \in Pcs : pc = IF cmd[1] = "halt" THEN "halt" ELSE "wait"
  BY DEF Pcs
<1>4. client' = [client EXCEPT ![c].cmd = cmd, ![c].pc = pc]
  BY <1>3 DEF Request
<1>5. /\ client'[c].pc = pc /\ client'[c].cmd = cmd
      /\ client'[c].done = client[c].done /\ client'[c].told = client[c].told
      /\ client' \in [Clients -> ClientRecord]
      /\ \A b \in Clients \ {c} : client'[b] = client[b]
  BY <1>2, <1>4, ZenonT(30) DEF ClientRecord
<1>6. Consistent(c) /\ ~Waiting(queue, c)
  BY <1>2 DEF QInv, Consistent
<1>7. CASE cmd[1] = "halt"
  <2>1. queue' = Post(queue, "responder", None) /\ pc = "halt"
    BY <1>3, <1>7, ZenonT(30) DEF Request
  <2>2. (Waiting(queue', c) => Waiting(queue, c) \/ None = c) => Consistent(c)'
    BY <1>1, <1>2, <1>5, <1>6, <1>7, <2>1, ZenonT(30) DEF Consistent
  <2>3. "responder" \in Roles /\ None \in {c, None}
    BY DEF Roles
  <2> QED  BY <1>5, <2>1, <2>2, <2>3, PostQInv, Zenon
<1>8. CASE cmd[1] # "halt"
  <2>1. queue' = Post(queue, "querier", c) /\ pc = "wait"
    BY <1>3, <1>8, ZenonT(30) DEF Request
  <2>2. Consistent(c)'
    BY <1>1, <1>2, <1>5, <1>6, <1>8, <2>1, ZenonT(30) DEF Consistent
  <2>3. "querier" \in Roles /\ c \in {c, None}
    BY DEF Roles
  <2> QED  BY <1>5, <1>6, <2>1, <2>2, <2>3, PostQInv, Zenon
<1> QED  BY <1>7, <1>8

\* So is the second half of a halt.
LEMMA HaltQuerierQInv ==
    ASSUME SInv, QInv, NEW c \in Clients, HaltQuerier(c)
    PROVE  QInv'
<1>1. /\ client[c] \in ClientRecord /\ client \in [Clients -> ClientRecord] /\ client[c].pc = "halt"
      /\ client' = [client EXCEPT ![c].pc = "wait"] /\ queue' = Post(queue, "querier", c)
  BY DEF QInv, HaltQuerier
<1>2. /\ client'[c].pc = "wait" /\ client'[c].cmd = client[c].cmd
      /\ client'[c].done = client[c].done /\ client'[c].told = client[c].told
      /\ client' \in [Clients -> ClientRecord]
      /\ \A b \in Clients \ {c} : client'[b] = client[b]
  BY <1>1 DEF ClientRecord, Pcs
<1>3. Consistent(c) /\ ~Waiting(queue, c)
  BY <1>1 DEF QInv, Consistent
<1>4. Consistent(c)'
  BY <1>1, <1>2, <1>3 DEF Consistent
<1>5. "querier" \in Roles /\ c \in {c, None}
  BY DEF Roles
<1> QED  BY <1>1, <1>2, <1>3, <1>4, <1>5, PostQInv, Zenon

\* A client that stops waiting leaves its request in the queue.
LEMMA NoResponseQInv ==
    ASSUME QInv, NEW c \in Clients, NoResponse(c)
    PROVE  QInv'
<1>1. /\ client[c] \in ClientRecord /\ client \in [Clients -> ClientRecord] /\ client[c].pc = "wait"
      /\ client' = [client EXCEPT ![c].pc = "end", ![c].told = "noresp"] /\ queue' = queue
  BY DEF QInv, NoResponse
<1>2. /\ client'[c].pc = "end" /\ client'[c].cmd = client[c].cmd
      /\ client'[c].done = client[c].done /\ client'[c].told = "noresp"
      /\ client' \in [Clients -> ClientRecord]
      /\ \A b \in Clients \ {c} : client'[b] = client[b]
  BY <1>1, ZenonT(30) DEF ClientRecord, Pcs
<1>3. Consistent(c)'
  BY <1>1, <1>2 DEF QInv, Consistent
<1>4. \A b \in Clients \ {c} : Consistent(b)'
  BY <1>1, <1>2, ConsistentKept, Zenon DEF QInv
<1> QED  BY <1>1, <1>2, <1>3, <1>4 DEF QInv, Unique, Addressed

\* The status of a command.
LEMMA ExecuteStatus ==
    ASSUME NEW l, NEW cmd
    PROVE  Execute(l, cmd)[1] \in {"success", "inuse", "nomem"}
BY DEF Execute, AddService

\* do_querier takes the request of c from its queue.
LEMMA QuerierTakes ==
    ASSUME QInv, NEW l \in Launchers, QuerierRx(l), NEW d \in Daemons, d = <<l, "querier">>,
           NEW c, c = Head(queue[d])
    PROVE  /\ queue[d] # <<>> /\ daemon[d] = "running" /\ c \in Clients \cup {None}
           /\ 1 \in DOMAIN queue[d] /\ queue[d][1] = c
           /\ queue' = [queue EXCEPT ![d] = Tail(queue[d])]
           /\ c # None => Waiting(queue, c) /\ ~Waiting(queue', c)
           /\ \A b : Waiting(queue', b) => Waiting(queue, b)
           /\ queue' \in Queues /\ Unique(queue') /\ Addressed(queue')
<1>1. queue[d] # <<>> /\ daemon[d] = "running" /\ queue' = [queue EXCEPT ![d] = Tail(queue[d])]
  BY ZenonT(30) DEF QuerierRx
<1>2. queue[d] \in Seq(Clients \cup {None}) /\ queue \in [Daemons -> Seq(Clients \cup {None})]
  BY ZenonT(30) DEF QInv, Queues
<1>3. c \in Clients \cup {None} /\ 1 \in DOMAIN queue[d] /\ queue[d][1] = c
  BY <1>1, <1>2
<1>4. /\ queue' \in Queues
      /\ \A e \in Daemons : queue'[e] \in {<<>>, queue[e]} \/ (queue[e] # <<>> /\ queue'[e] = Tail(queue[e]))
  BY <1>1, FrontQueues, Zenon
<1>5. /\ Unique(queue') /\ Addressed(queue')
      /\ \A b : Waiting(queue', b) => Waiting(queue, b)
  <2>1. queue \in Queues /\ Unique(queue) /\ Addressed(queue)
    BY DEF QInv
  <2> QED  BY <1>4, <2>1, TakeQueues, Zenon DEF Queues
<1>6. ASSUME c # None PROVE Waiting(queue, c) /\ ~Waiting(queue', c)
  <2>1. Waiting(queue, c)
    BY <1>3, Zenon DEF Waiting
  <2>2. ASSUME NEW e \in Daemons, NEW i \in DOMAIN queue'[e], queue'[e][i] = c PROVE FALSE
    <3>0. \A x \in DOMAIN queue[e] : queue[e][x] = queue[d][1] => e = d /\ x = 1
      BY <1>3, <1>6, SMTT(60) DEF QInv, Unique
    <3>1. CASE e # d
      BY <1>1, <1>2, <1>3, <2>2, <3>0, <3>1, ZenonT(30)
    <3>2. CASE e = d
      <4>1. queue'[d] = Tail(queue[d])
        BY <1>1, <1>2, ZenonT(30)
      <4>2. i \in Nat \ {0} /\ i + 1 \in DOMAIN queue[d] /\ queue'[d][i] = queue[d][i + 1]
        BY <1>1, <1>2, <2>2, <3>2, <4>1, SMTT(60)
      <4> QED  BY <1>3, <2>2, <3>0, <3>2, <4>2, SMTT(60)
    <3> QED  BY <3>1, <3>2, ZenonT(30)
  <2>3. ~Waiting(queue', c)
    BY <2>2, Zenon DEF Waiting
  <2> QED  BY <2>1, <2>3
<1> QED  BY <1>1, <1>3, <1>4, <1>5, <1>6, ZenonT(30)

\* What the answer does to the client.
LEMMA QuerierAnswers ==
    ASSUME QInv, NEW l \in Launchers, QuerierRx(l), NEW d \in Daemons, d = <<l, "querier">>,
           NEW c \in Clients, c = Head(queue[d]),
           NEW s, s = Execute(l, client[c].cmd)[1]
    PROVE  /\ client'[c].pc = "end" /\ client'[c].cmd = client[c].cmd
           /\ client'[c].done = s
           /\ client'[c].told \in {s, client[c].told}
           /\ client' \in [Clients -> ClientRecord]
           /\ \A b \in Clients \ {c} : client'[b] = client[b]
<1>1. c # None
  BY ControlAssumption, ZenonT(30)
<1>2. client[c] \in ClientRecord /\ client \in [Clients -> ClientRecord]
  BY DEF QInv
<1>3. s \in {"success", "inuse", "nomem"}
  BY ExecuteStatus, ZenonT(30)
<1>4. PICK t \in Statuses \cup {"noresp"} : t = IF client[c].pc = "wait" THEN s ELSE client[c].told
  BY <1>2, <1>3, ZenonT(30) DEF ClientRecord, Statuses
<1>5. client' = [client EXCEPT ![c].done = s,
                               ![c].told = IF client[c].pc = "wait" THEN s ELSE @,
                               ![c].pc = "end"]
  BY <1>1, ZenonT(30) DEF QuerierRx
<1>6. client' = [client EXCEPT ![c].done = s, ![c].told = t, ![c].pc = "end"]
  <2>1. CASE client[c].pc = "wait"
    BY <1>4, <1>5, <2>1, ZenonT(30)
  <2>2. CASE client[c].pc # "wait"
    <3>1. t = client[c].told
      BY <1>4, <2>2, ZenonT(30)
    <3>2. client' = [client EXCEPT ![c].done = s, ![c].told = @, ![c].pc = "end"]
      BY <1>5, <2>2, ZenonT(30)
    <3> QED  BY <1>2, <3>1, <3>2, ZenonT(30) DEF ClientRecord
  <2> QED  BY <2>1, <2>2, ZenonT(30)
<1>7. /\ client'[c].pc = "end" /\ client'[c].cmd = client[c].cmd
      /\ client'[c].done = s /\ client'[c].told = t
      /\ client' \in [Clients -> ClientRecord]
      /\ \A b \in Clients \ {c} : client'[b] = client[b]
  <2>1. PICK old \in ClientRecord : old = client[c]
    BY <1>2
  <2>2. PICK new : new = [pc |-> "end", cmd |-> old.cmd, done |-> s, told |-> t]
    BY ZenonT(30)
  <2>3. new \in ClientRecord /\ new.pc = "end" /\ new.cmd = old.cmd /\ new.done = s /\ new.told = t
    BY <1>3, <2>1, <2>2, ZenonT(30) DEF ClientRecord, Statuses, Pcs
  <2>4. ASSUME NEW q, q = [old EXCEPT !.done = s, !.told = t, !.pc = "end"] PROVE q = new
    <3>1. q = [pc |-> "end", cmd |-> old.cmd, done |-> s, told |-> t]
      <4> HIDE <2>2
      <4> QED  BY <2>4, ZenonT(30) DEF ClientRecord
    <3> QED  BY <2>2, <3>1, ZenonT(30)
  <2>5. client' = [client EXCEPT ![c] = [old EXCEPT !.done = s, !.told = t, !.pc = "end"]]
    BY <1>2, <1>6, <2>1, ZenonT(30)
  <2>6. client' = [client EXCEPT ![c] = new]
    BY <2>4, <2>5, ZenonT(30)
  <2> QED  BY <1>2, <2>1, <2>3, <2>6, ZenonT(30)
<1> QED  BY <1>4, <1>7, ZenonT(30)

\* The querier takes a request from its queue and answers the client that waits for it.
LEMMA QuerierRxQInv ==
    ASSUME QInv, NEW l \in Launchers, QuerierRx(l)
    PROVE  QInv'
<1>1. PICK d \in Daemons : d = <<l, "querier">>
  BY DaemonPairs, ZenonT(30)
<1>2. PICK c : c = Head(queue[d])
  OBVIOUS
<1>3. /\ c \in Clients \cup {None}
      /\ c # None => Waiting(queue, c) /\ ~Waiting(queue', c)
      /\ \A b \in Clients : Waiting(queue', b) => Waiting(queue, b)
      /\ queue' \in Queues /\ Unique(queue') /\ Addressed(queue')
  BY <1>1, <1>2, QuerierTakes, Zenon
<1>4. CASE c = None
  <2>1. client' = client
    BY <1>1, <1>2, <1>4, ZenonT(30) DEF QuerierRx
  <2>2. \A b \in Clients : Consistent(b)'
    BY <1>3, <2>1, ConsistentKept, Zenon DEF QInv
  <2> QED  BY <1>3, <2>1, <2>2, ZenonT(30) DEF QInv, Unique, Addressed
<1>5. CASE c # None
  <2>1. PICK s : s = Execute(l, client[c].cmd)[1]
    OBVIOUS
  <2>2. c \in Clients /\ s \in {"success", "inuse", "nomem"}
    <3>1. s \in {"success", "inuse", "nomem"}
      BY <2>1, ExecuteStatus, ZenonT(30)
    <3> QED  BY <1>3, <1>5, <3>1
  <2>3. /\ client'[c].pc = "end" /\ client'[c].cmd = client[c].cmd
        /\ client'[c].done = s
        /\ client'[c].told \in {s, client[c].told}
        /\ client' \in [Clients -> ClientRecord]
        /\ \A b \in Clients \ {c} : client'[b] = client[b]
    BY <1>1, <1>2, <2>1, <2>2, QuerierAnswers, SMTT(60)
  <2>4. Consistent(c)'
    <3>1. Consistent(c)
      BY <2>2 DEF QInv
    <3> QED  BY <1>3, <1>5, <2>2, <2>3, <3>1, ZenonT(30) DEF Consistent
  <2>5. \A b \in Clients \ {c} : Consistent(b)'
    BY <1>3, <2>3, ConsistentKept, Zenon DEF QInv
  <2> QED  BY <1>3, <2>3, <2>4, <2>5, ZenonT(30) DEF QInv, Unique, Addressed
<1> QED  BY <1>4, <1>5

\* A signal adds halts that belong to no client.
LEMMA SignalQInv ==
    ASSUME SInv, QInv, NEW d \in Daemons, Signal(d)
    PROVE  QInv'
<1>1. client' = client /\ queue' = Post(Post(queue, "responder", None), "querier", None)
  BY DEF Signal
<1>2. PICK q : q = Post(queue, "responder", None)
  OBVIOUS
<1>3. "responder" \in Roles /\ "querier" \in Roles /\ None \in Clients \cup {None} /\ None \notin Clients
  BY ControlAssumption DEF Roles
<1>4. /\ q \in Queues /\ Unique(q) /\ Addressed(q)
      /\ \A c \in Clients : Waiting(q, c) => c = None \/ Waiting(queue, c)
  BY <1>2, <1>3, PostQueues, Zenon DEF QInv
<1>5. queue' = Post(q, "querier", None)
  BY <1>1, <1>2
<1>6. /\ queue' \in Queues /\ Unique(queue') /\ Addressed(queue')
      /\ \A c \in Clients : Waiting(queue', c) => c = None \/ Waiting(q, c)
  BY <1>3, <1>4, <1>5, PostQueues, Zenon
<1>7. \A c \in Clients : Waiting(queue', c) => Waiting(queue, c)
  BY <1>3, <1>4, <1>6, Zenon
<1>8. \A c \in Clients : Consistent(c)'
  BY <1>1, <1>7, ConsistentKept, Zenon DEF QInv
<1> QED  BY <1>1, <1>6, <1>8, ZenonT(30) DEF QInv, Unique, Addressed

\* Every step keeps the invariant of the queues.
LEMMA StepQInv == SInv /\ QInv /\ [Next]_vars => QInv'
<1> SUFFICES ASSUME SInv, QInv, [Next]_vars PROVE QInv'
  OBVIOUS
<1>1. ASSUME NEW l \in Launchers, Launch(l) PROVE QInv'
  BY <1>1, SameQInv, Zenon DEF Launch
<1>2. ASSUME NEW l \in Launchers, NEW r \in Roles, ThreadRefused(l, r) PROVE QInv'
  BY <1>2, EndQInv, Zenon DEF ThreadRefused
<1>3. ASSUME NEW l \in Launchers, NEW r \in Roles, Fork(l, r) PROVE QInv'
  BY <1>3, SameQInv, Zenon DEF Fork
<1>4. ASSUME NEW l \in Launchers, ResponderRx(l) PROVE QInv'
  <2>1. PICK d \in Daemons : d = <<l, "responder">>
    BY DaemonPairs, ZenonT(30)
  <2>2. queue[d] # <<>> /\ queue' = [queue EXCEPT ![d] = Tail(queue[d])] /\ client' = client
    BY <1>4, <2>1 DEF ResponderRx
  <2>3. /\ queue' \in Queues
        /\ \A e \in Daemons : queue'[e] \in {<<>>, queue[e]} \/ (queue[e] # <<>> /\ queue'[e] = Tail(queue[e]))
    BY <2>2, FrontQueues, Zenon
  <2> QED  BY <2>2, <2>3, TakeQInv, Zenon
<1>5. ASSUME NEW d \in Daemons, LockFile(d) PROVE QInv'
  <2>1. CASE lock[File(d)] = None
    BY <1>5, <2>1, SameQInv, Zenon DEF LockFile
  <2>2. CASE lock[File(d)] # None
    BY <1>5, <2>2, EndQInv, Zenon DEF LockFile, End
  <2> QED  BY <2>1, <2>2
<1>6. ASSUME NEW d \in Daemons, Exit(d) \/ Crash(d) PROVE QInv'
  BY <1>6, EndQInv, Zenon DEF Exit, Crash, End
<1>7. CASE UNCHANGED vars
  BY <1>7, SameQInv DEF vars
<1> QED
  BY <1>1, <1>2, <1>3, <1>4, <1>5, <1>6, <1>7, QuerierRxQInv, SignalQInv, RequestQInv,
     HaltQuerierQInv, NoResponseQInv, Zenon DEF Next

\* It holds at the start, when the queues are empty.
LEMMA InitQInv == Init => QInv
<1> SUFFICES ASSUME Init PROVE QInv
  OBVIOUS
<1>1. client \in [Clients -> ClientRecord]
  BY DEF Init, ClientRecord, Pcs, Statuses
<1>2. <<>> \in Seq(Clients \cup {None})
  BY SMTT(60)
<1>3. queue \in Queues /\ \A d \in Daemons : DOMAIN queue[d] = {}
  BY <1>2 DEF Init, Queues
<1>4. Unique(queue) /\ Addressed(queue) /\ \A c \in Clients : ~Waiting(queue, c)
  BY <1>3, ZenonT(30) DEF Unique, Addressed, Waiting
<1>5. \A c \in Clients : Consistent(c)
  BY <1>4 DEF Init, Consistent
<1> QED  BY <1>1, <1>3, <1>4, <1>5, ZenonT(30) DEF QInv

-----------------------------------------------------------------------------
(* The halt. *)

\* In a settled system whose launches came one after the other, a daemon has its port.
LEMMA DaemonHasPort ==
    ASSUME SInv, RInv, ~unruly, Settled, NEW d \in Daemons, daemon[d] # "none"
    PROVE  IsLatest(d, d[2])
<1>1. PICK r \in Roles : r = d[2]
  BY DaemonPairs, ZenonT(30)
<1>2. PICK i \in DOMAIN bound[r] :
        /\ bound[r][i] = d
        /\ \A j \in DOMAIN bound[r] : j > i => holders[bound[r][j]] = {} \/ main[bound[r][j][1]] = r
  <2>1. Foremost(d)
    BY ZenonT(30) DEF RInv
  <2> QED  BY <1>1, <2>1, ZenonT(30) DEF Foremost
<1>3. \A j \in DOMAIN bound[r] : bound[r][j][1] \in Launchers
  <2>1. bound[r] \in Seq(Daemons)
    BY DEF SInv
  <2> QED  BY <2>1, DaemonPairs, SMTT(60)
<1>4. \A j \in DOMAIN bound[r] : main[bound[r][j][1]] # r
  BY <1>3, ZenonT(30) DEF Settled, Roles
<1>5. holders[d] # {}
  BY DEF SInv
<1> QED  BY <1>1, <1>2, <1>4, <1>5, Zenon DEF IsLatest

\* What a quiet halt has reached stays reached when no step undoes it.
LEMMA HKept ==
    ASSUME HInv, quiet' = quiet,
           quiet # {} => /\ ~unruly' /\ Settled'
                         /\ \A l \in Launchers : ResponderTold(l) => ResponderTold(l)'
                         /\ \A l \in Launchers : QuerierTold(l) => QuerierTold(l)',
           \A c \in quiet : /\ client[c].cmd # None => client'[c].cmd # None
                            /\ client'[c].pc # "halt" => client[c].pc # "halt"
    PROVE  HInv'
BY Zenon DEF HInv

\* Nothing is taken from the queues of the daemons that still run.
LEMMA ToldKept ==
    ASSUME QInv, NEW l \in Launchers, queue' \in Queues,
           \A r \in Roles : LET d == <<l, r>> IN
             daemon'[d] = "running" => /\ daemon[d] = "running"
                                       /\ DOMAIN queue[d] \subseteq DOMAIN queue'[d]
                                       /\ \A i \in DOMAIN queue[d] : queue'[d][i] = queue[d][i],
           \A c \in Clients : Waiting(queue, c) => client'[c].cmd = client[c].cmd
    PROVE  /\ ResponderTold(l) => ResponderTold(l)'
           /\ QuerierTold(l) => QuerierTold(l)'
<1>1. ASSUME ResponderTold(l), daemon'[<<l, "responder">>] = "running" PROVE queue'[<<l, "responder">>] # <<>>
  <2>1. PICK d \in Daemons : d = <<l, "responder">>
    BY DaemonPairs, ZenonT(30)
  <2>2. daemon[d] = "running" /\ DOMAIN queue[d] \subseteq DOMAIN queue'[d]
    BY <1>1, <2>1, ZenonT(30) DEF Roles
  <2>3. queue[d] # <<>> /\ queue[d] \in Seq(Clients \cup {None}) /\ queue'[d] \in Seq(Clients \cup {None})
    BY <1>1, <2>1, <2>2, ZenonT(30) DEF ResponderTold, QInv, Queues
  <2>4. 1 \in DOMAIN queue'[d]
    BY <2>2, <2>3
  <2> QED  BY <2>1, <2>3, <2>4, SMTT(60)
<1>2. ASSUME QuerierTold(l), daemon'[<<l, "querier">>] = "running"
      PROVE  \E i \in DOMAIN queue'[<<l, "querier">>] :
               LET x == queue'[<<l, "querier">>][i] IN x = None \/ client'[x].cmd[1] = "halt"
  <2>1. PICK d \in Daemons : d = <<l, "querier">>
    BY DaemonPairs, ZenonT(30)
  <2>2. /\ daemon[d] = "running" /\ DOMAIN queue[d] \subseteq DOMAIN queue'[d]
        /\ \A i \in DOMAIN queue[d] : queue'[d][i] = queue[d][i]
    BY <1>2, <2>1 DEF Roles
  <2>3. PICK i \in DOMAIN queue[d] : Halts(queue[d][i])
    BY <1>2, <2>1, <2>2, Zenon DEF QuerierTold
  <2>4. PICK x : x = queue[d][i]
    BY ZenonT(30)
  <2>5. x \in Clients \cup {None} /\ (x \in Clients => Waiting(queue, x))
    <3>1. queue[d] \in Seq(Clients \cup {None})
      BY ZenonT(30) DEF QInv, Queues
    <3> QED  BY <2>4, <3>1, SMTT(60) DEF Waiting
  <2>6. x = None \/ client'[x].cmd[1] = "halt"
    BY <2>3, <2>4, <2>5, ZenonT(30) DEF Halts
  <2>7. i \in DOMAIN queue'[d] /\ queue'[d][i] = x
    BY <2>2, <2>4
  <2> QED  BY <2>1, <2>6, <2>7, Zenon
<1>3. ResponderTold(l) => ResponderTold(l)'
  BY <1>1, Zenon DEF ResponderTold
<1>4. QuerierTold(l) => QuerierTold(l)'
  <2> SUFFICES ASSUME QuerierTold(l), daemon'[<<l, "querier">>] = "running"
               PROVE  \E i \in DOMAIN queue'[<<l, "querier">>] :
                        LET x == queue'[<<l, "querier">>][i] IN x = None \/ client'[x].cmd[1] = "halt"
    BY Zenon DEF QuerierTold, Halts
  <2> QED  BY <1>2
<1> QED  BY <1>3, <1>4, ZenonT(30)

\* Settled systems: the processes that launch and start up have nothing to do.
LEMMA SettledKept ==
    ASSUME Settled, main' = main, \A d \in Daemons : daemon'[d] = "starting" => daemon[d] = "starting"
    PROVE  Settled'
BY DEF Settled

\* A step that takes nothing from the queue of a daemon that still runs.
LEMMA HaltsKept ==
    ASSUME LInv, SInv, QInv, QInv', HInv, quiet' = quiet,
           quiet # {} => /\ main' = main /\ unruly' = unruly
                         /\ \A d \in Daemons : daemon'[d] \in {daemon[d], "none", "halting"}
                         /\ \A d \in Daemons : daemon'[d] = "running" =>
                              /\ DOMAIN queue[d] \subseteq DOMAIN queue'[d]
                              /\ \A i \in DOMAIN queue[d] : queue'[d][i] = queue[d][i],
           \A c \in Clients : client[c].cmd # None => client'[c].cmd = client[c].cmd,
           \A c \in quiet : client'[c].pc # "halt" => client[c].pc # "halt"
    PROVE  HInv'
<1>1. ASSUME quiet # {}
      PROVE  /\ ~unruly' /\ Settled'
             /\ \A l \in Launchers : ResponderTold(l) => ResponderTold(l)'
             /\ \A l \in Launchers : QuerierTold(l) => QuerierTold(l)'
  <2>1. ~unruly' /\ Settled'
    BY <1>1, SettledKept, SMTT(60) DEF HInv
  <2>2. ASSUME NEW l \in Launchers
        PROVE  (ResponderTold(l) => ResponderTold(l)') /\ (QuerierTold(l) => QuerierTold(l)')
    <3>1. queue' \in Queues
      BY ZenonT(30) DEF QInv
    <3>2. \A c \in Clients : Waiting(queue, c) => client'[c].cmd = client[c].cmd
      BY ZenonT(30) DEF QInv, Consistent
    <3>3. ASSUME NEW r \in Roles, daemon'[<<l, r>>] = "running"
          PROVE  LET d == <<l, r>> IN
                 /\ daemon[d] = "running"
                 /\ DOMAIN queue[d] \subseteq DOMAIN queue'[d]
                 /\ \A i \in DOMAIN queue[d] : queue'[d][i] = queue[d][i]
      <4>1. PICK d \in Daemons : d = <<l, r>>
        BY DaemonPairs, ZenonT(30)
      <4> QED  BY <1>1, <3>3, <4>1, ZenonT(30)
    <3> QED  BY <3>1, <3>2, <3>3, ToldKept, ZenonT(30)
  <2> QED  BY <2>1, <2>2, ZenonT(30)
<1>2. \A c \in quiet : /\ client[c].cmd # None => client'[c].cmd # None
                       /\ client'[c].pc # "halt" => client[c].pc # "halt"
  BY ZenonT(30) DEF HInv
<1> QED  BY <1>1, <1>2, HKept, Zenon

\* A post only adds.
LEMMA PostKeeps ==
    ASSUME NEW q \in Queues, NEW r \in Roles, NEW m \in Clients \cup {None}, NEW p, p = Post(q, r, m)
    PROVE  /\ p \in Queues
           /\ \A s \in Daemons : DOMAIN q[s] \subseteq DOMAIN p[s] /\ \A i \in DOMAIN q[s] : p[s][i] = q[s][i]
<1>1. p \in Queues
  BY PostAt, ZenonT(30)
<1>2. ASSUME NEW s \in Daemons
      PROVE  DOMAIN q[s] \subseteq DOMAIN p[s] /\ \A i \in DOMAIN q[s] : p[s][i] = q[s][i]
  BY PostEntries, SMTT(60)
<1> QED  BY <1>1, <1>2

\* The end of a process loses what waits at its own sockets only.
LEMMA EndHInv ==
    ASSUME LInv, SInv, QInv, QInv', HInv, NEW d \in Daemons, End(d), UNCHANGED <<main, client, unruly, quiet>>
    PROVE  HInv'
<1>1. /\ \A s \in Daemons : daemon'[s] = IF s = d THEN "none" ELSE daemon[s]
      /\ \A s \in Daemons : queue'[s] = IF holders[s] = {d} THEN <<>> ELSE queue[s]
  BY DEF End, CloseAll, LInv
<1>2. ASSUME NEW s \in Daemons, daemon'[s] = "running" PROVE queue'[s] = queue[s]
  <2>1. s # d /\ s \in holders[s]
    BY <1>1, <1>2, ZenonT(30) DEF SInv
  <2> QED  BY <1>1, <2>1, ZenonT(30)
<1>3. \A s \in Daemons : daemon'[s] \in {daemon[s], "none", "halting"}
  BY <1>1, ZenonT(30)
<1> QED  BY <1>2, <1>3, HaltsKept, ZenonT(30)

\* A signalled daemon halts its siblings too, and no halt already sent is lost.
LEMMA SignalHInv ==
    ASSUME LInv, SInv, QInv, QInv', HInv, NEW d \in Daemons, Signal(d)
    PROVE  HInv'
<1>1. /\ queue' = Post(Post(queue, "responder", None), "querier", None)
      /\ UNCHANGED <<main, client, unruly, quiet>>
      /\ daemon' = [daemon EXCEPT ![d] = "halting"]
  BY ZenonT(30) DEF Signal
<1>2. \A s \in Daemons : daemon'[s] \in {daemon[s], "none", "halting"}
  BY <1>1 DEF LInv
<1>3. PICK q : q = Post(queue, "responder", None)
  BY ZenonT(30)
<1>4. "responder" \in Roles /\ "querier" \in Roles /\ None \in Clients \cup {None} /\ queue \in Queues
  BY ZenonT(30) DEF Roles, QInv
<1>5. /\ q \in Queues
      /\ \A s \in Daemons : DOMAIN queue[s] \subseteq DOMAIN q[s] /\ \A i \in DOMAIN queue[s] : q[s][i] = queue[s][i]
  BY <1>3, <1>4, PostKeeps
<1>6. queue' = Post(q, "querier", None)
  BY <1>1, <1>3, ZenonT(30)
<1>7. \A s \in Daemons : DOMAIN q[s] \subseteq DOMAIN queue'[s] /\ \A i \in DOMAIN q[s] : queue'[s][i] = q[s][i]
  BY <1>4, <1>5, <1>6, PostKeeps, SMTT(60)
<1>8. ASSUME NEW s \in Daemons
      PROVE  DOMAIN queue[s] \subseteq DOMAIN queue'[s] /\ \A i \in DOMAIN queue[s] : queue'[s][i] = queue[s][i]
  BY <1>5, <1>7, ZenonT(30)
<1> QED  BY <1>1, <1>2, <1>8, HaltsKept, ZenonT(30)

\* A responder that takes a message was told to halt.
LEMMA ResponderRxHInv ==
    ASSUME LInv, SInv, QInv, QInv', HInv, NEW l \in Launchers, ResponderRx(l)
    PROVE  HInv'
<1>1. PICK d \in Daemons : d = <<l, "responder">>
  BY DaemonPairs, ZenonT(30)
<1>2. /\ UNCHANGED <<main, client, unruly, quiet>>
      /\ daemon' = [daemon EXCEPT ![d] = "halting"]
      /\ queue' = [queue EXCEPT ![d] = Tail(queue[d])]
  BY <1>1, ZenonT(30) DEF ResponderRx
<1>3. \A s \in Daemons : /\ daemon'[s] \in {daemon[s], "none", "halting"}
                         /\ daemon'[s] = "running" => s # d
  BY <1>2, ZenonT(30) DEF LInv
<1>4. \A s \in Daemons : daemon'[s] = "running" => queue'[s] = queue[s]
  BY <1>2, <1>3 DEF QInv, Queues
<1> QED  BY <1>2, <1>3, <1>4, HaltsKept

\* A halt that times out was sent all the same.
LEMMA NoResponseHInv ==
    ASSUME LInv, SInv, QInv, QInv', HInv, NEW c \in Clients, NoResponse(c)
    PROVE  HInv'
<1>1. /\ client[c] \in ClientRecord /\ client \in [Clients -> ClientRecord] /\ client[c].pc = "wait"
      /\ client' = [client EXCEPT ![c].pc = "end", ![c].told = "noresp"]
      /\ UNCHANGED <<main, daemon, queue, unruly, quiet>>
  BY DEF QInv, NoResponse
<1>2. /\ client'[c].cmd = client[c].cmd
      /\ \A b \in Clients \ {c} : client'[b] = client[b]
  BY <1>1, ZenonT(30) DEF ClientRecord
<1>3. \A b \in Clients : client[b].cmd # None => client'[b].cmd = client[b].cmd
  BY <1>2
<1>4. \A b \in quiet : client'[b].pc # "halt" => client[b].pc # "halt"
  BY <1>1, <1>2, ZenonT(30) DEF HInv
<1> QED  BY <1>1, <1>3, <1>4, HaltsKept, ZenonT(30)

\* The command of a client is set once.
LEMMA RequestHInv ==
    ASSUME LInv, SInv, RInv, QInv, QInv', HInv, NEW c \in Clients, NEW cmd \in Commands, Request(c, cmd)
    PROVE  HInv'
<1>1. cmd # None /\ client[c].cmd = None /\ c \notin quiet
  BY ControlAssumption, ZenonT(30) DEF Request, QInv, Consistent, HInv
<1>2. client[c] \in ClientRecord /\ client \in [Clients -> ClientRecord]
  BY DEF QInv
<1>3. PICK pc \in Pcs : pc = IF cmd[1] = "halt" THEN "halt" ELSE "wait"
  BY DEF Pcs
<1>4. client' = [client EXCEPT ![c].cmd = cmd, ![c].pc = pc] /\ UNCHANGED <<main, daemon, holders, bound, unruly>>
  BY <1>3 DEF Request
<1>5. /\ client'[c].pc = pc /\ client'[c].cmd = cmd
      /\ \A b \in Clients \ {c} : client'[b] = client[b]
  BY <1>2, <1>4, ZenonT(30) DEF ClientRecord
<1>6. /\ \A b \in Clients : client[b].cmd # None => client'[b].cmd = client[b].cmd
      /\ \A b \in quiet : client'[b] = client[b]
  BY <1>1, <1>5 DEF HInv
<1>7. PICK r \in Roles, m \in Clients \cup {None} :
        /\ queue' = Post(queue, r, m)
        /\ r = IF cmd[1] = "halt" THEN "responder" ELSE "querier"
        /\ m = IF cmd[1] = "halt" THEN None ELSE c
  <2>1. "responder" \in Roles /\ "querier" \in Roles
    BY DEF Roles
  <2> QED  BY <2>1 DEF Request
<1>8. queue \in Queues /\ queue' \in Queues
  BY ZenonT(30) DEF QInv
<1>9. \A s \in Daemons : DOMAIN queue[s] \subseteq DOMAIN queue'[s] /\ \A i \in DOMAIN queue[s] : queue'[s][i] = queue[s][i]
  BY <1>7, <1>8, PostKeeps
<1>10. CASE ~(cmd[1] = "halt" /\ Settled /\ ~unruly)
  <2>1. quiet' = quiet
    BY <1>10 DEF Request
  <2> QED  BY <1>4, <1>6, <1>9, <2>1, HaltsKept, ZenonT(30)
<1>11. CASE cmd[1] = "halt" /\ Settled /\ ~unruly
  <2>1. quiet' = quiet \cup {c} /\ quiet' \subseteq Clients
    BY <1>11 DEF Request, HInv
  <2>2. ~unruly' /\ Settled'
    BY <1>4, <1>11, SettledKept, ZenonT(30)
  <2>3. ASSUME NEW l \in Launchers, daemon'[<<l, "responder">>] = "running"
        PROVE  queue'[<<l, "responder">>] # <<>>
    <3>1. PICK d \in Daemons : d = <<l, "responder">> /\ d[2] = "responder"
      BY DaemonPairs, ZenonT(90) DEF Roles
    <3>2. daemon[d] # "none"
      BY <1>4, <2>3, <3>1
    <3>3. IsLatest(d, r)
      <4>1. IsLatest(d, d[2])
        BY <1>11, <3>2, DaemonHasPort, Zenon
      <4> QED  BY <1>7, <1>11, <3>1, <4>1
    <3>4. Len(queue[d]) + 1 \in DOMAIN queue'[d]
      BY <1>7, <1>8, <3>3, PostEntries
    <3> QED  BY <3>1, <3>4
  <2>4. \A l \in Launchers : ResponderTold(l)'
    BY <2>3, Zenon DEF ResponderTold
  <2>5. ASSUME NEW l \in Launchers PROVE QuerierTold(l) => QuerierTold(l)'
    <3>1. \A b \in Clients : Waiting(queue, b) => client'[b].cmd = client[b].cmd
      BY <1>6 DEF QInv, Consistent
    <3>2. ASSUME NEW q \in Roles, daemon'[<<l, q>>] = "running"
          PROVE  LET d == <<l, q>> IN
                 /\ daemon[d] = "running"
                 /\ DOMAIN queue[d] \subseteq DOMAIN queue'[d]
                 /\ \A i \in DOMAIN queue[d] : queue'[d][i] = queue[d][i]
      <4>1. PICK d \in Daemons : d = <<l, q>>
        BY DaemonPairs, ZenonT(30)
      <4> QED  BY <1>4, <1>9, <3>2, <4>1, ZenonT(30)
    <3> QED  BY <1>8, <3>1, <3>2, ToldKept, ZenonT(30)
  <2>6. ASSUME NEW b \in quiet'
        PROVE  client'[b].cmd # None /\ (client'[b].pc # "halt" => \A l \in Launchers : QuerierTold(l)')
    <3>1. CASE b = c
      BY <1>1, <1>3, <1>5, <1>11, <3>1, ZenonT(30)
    <3>2. CASE b # c
      <4>1. b \in quiet /\ client'[b] = client[b]
        BY <1>6, <2>1, <2>6, <3>2
      <4>2. client[b].cmd # None /\ (client[b].pc # "halt" => \A l \in Launchers : QuerierTold(l))
        BY <4>1, Zenon DEF HInv
      <4> QED  BY <2>5, <4>1, <4>2, ZenonT(30)
    <3> QED  BY <3>1, <3>2, ZenonT(30)
  <2> QED  BY <2>1, <2>2, <2>4, <2>6, Zenon DEF HInv
<1> QED  BY <1>10, <1>11, ZenonT(30)

\* The second message of a halt reaches the querier that is running.
LEMMA HaltQuerierHInv ==
    ASSUME LInv, SInv, RInv, QInv, QInv', HInv, NEW c \in Clients, HaltQuerier(c)
    PROVE  HInv'
<1>1. /\ client[c] \in ClientRecord /\ client \in [Clients -> ClientRecord] /\ client[c].pc = "halt"
      /\ client' = [client EXCEPT ![c].pc = "wait"] /\ queue' = Post(queue, "querier", c)
      /\ UNCHANGED <<main, daemon, holders, bound, unruly, quiet>>
      /\ queue \in Queues /\ queue' \in Queues
  BY ZenonT(30) DEF QInv, HaltQuerier
<1>2. /\ client'[c].cmd = client[c].cmd /\ client[c].cmd[1] = "halt"
      /\ \A b \in Clients : client'[b].cmd = client[b].cmd
  BY <1>1, ZenonT(30) DEF ClientRecord, QInv, Consistent
<1>3. "querier" \in Roles /\ c \in Clients \cup {None}
  BY DEF Roles
<1>4. ASSUME quiet # {} PROVE ~unruly' /\ Settled' /\ ~unruly /\ Settled
  BY <1>1, <1>4, SettledKept, ZenonT(30) DEF HInv
<1>5. ASSUME quiet # {}, NEW l \in Launchers, daemon'[<<l, "querier">>] = "running"
      PROVE  \E i \in DOMAIN queue'[<<l, "querier">>] :
               LET x == queue'[<<l, "querier">>][i] IN x = None \/ client'[x].cmd[1] = "halt"
  <2>1. PICK d \in Daemons : d = <<l, "querier">> /\ d[2] = "querier"
    BY <1>3, DaemonPairs, ZenonT(30)
  <2>2. daemon[d] # "none"
    BY <1>1, <1>5, <2>1
  <2>3. IsLatest(d, d[2])
    BY <1>4, <1>5, <2>2, DaemonHasPort, Zenon
  <2>4. Len(queue[d]) + 1 \in DOMAIN queue'[d] /\ queue'[d][Len(queue[d]) + 1] = c
    BY <1>1, <1>3, <2>1, <2>3, PostEntries
  <2> QED  BY <1>2, <2>1, <2>4
<1>6. ASSUME quiet # {}, NEW l \in Launchers PROVE QuerierTold(l)'
  BY <1>5, <1>6, Zenon DEF QuerierTold, Halts
<1>7. ASSUME NEW l \in Launchers, ResponderTold(l) PROVE ResponderTold(l)'
  <2>1. \A s \in Daemons : DOMAIN queue[s] \subseteq DOMAIN queue'[s] /\ \A i \in DOMAIN queue[s] : queue'[s][i] = queue[s][i]
    BY <1>1, <1>3, PostKeeps, SMTT(60)
  <2>2. ASSUME NEW r \in Roles, daemon'[<<l, r>>] = "running"
        PROVE  LET d == <<l, r>> IN
               /\ daemon[d] = "running"
               /\ DOMAIN queue[d] \subseteq DOMAIN queue'[d]
               /\ \A i \in DOMAIN queue[d] : queue'[d][i] = queue[d][i]
    <3>1. PICK d \in Daemons : d = <<l, r>>
      BY DaemonPairs, ZenonT(30)
    <3> QED  BY <1>1, <2>1, <2>2, <3>1, ZenonT(30)
  <2> QED  BY <1>1, <1>2, <1>7, <2>2, ToldKept, ZenonT(30)
<1>8. \A b \in quiet' : client'[b].cmd # None
  BY <1>1, <1>2, ZenonT(30) DEF HInv
<1>9. quiet' \subseteq Clients /\ (quiet' # {} => ~unruly' /\ Settled' /\ \A l \in Launchers : ResponderTold(l)')
  BY <1>1, <1>4, <1>7, ZenonT(30) DEF HInv
<1>10. \A b \in quiet' : \A l \in Launchers : QuerierTold(l)'
  BY <1>1, <1>6, ZenonT(30)
<1> QED  BY <1>8, <1>9, <1>10, Zenon DEF HInv

\* What do_querier, having taken c, leaves of the commands, and when it ends.
RxEffect(d, c) ==
    /\ \A b \in Clients : client'[b].cmd = client[b].cmd
    /\ \A b \in Clients : client'[b].pc = client[b].pc \/ (b = c /\ client[b].pc \in {"wait", "end"})
    /\ \A s \in Daemons \ {d} : daemon'[s] = daemon[s] /\ queue'[s] = queue[s]
    /\ daemon'[d] = IF Halts(c) THEN "halting" ELSE "running"

\* Every message it takes has that effect.
LEMMA QuerierRxEffect ==
    ASSUME LInv, QInv, NEW l \in Launchers, QuerierRx(l), NEW d \in Daemons, d = <<l, "querier">>,
           NEW c, c = Head(queue[d])
    PROVE  RxEffect(d, c)
<1>1. /\ daemon[d] = "running" /\ c \in Clients \cup {None}
      /\ queue' = [queue EXCEPT ![d] = Tail(queue[d])]
      /\ c # None => Waiting(queue, c)
  BY QuerierTakes, ZenonT(30)
<1>2. PICK cmd : cmd = IF c = None THEN <<"halt", None>> ELSE client[c].cmd
  BY ZenonT(30)
<1>3. daemon' = [daemon EXCEPT ![d] = IF cmd[1] = "halt" THEN "halting" ELSE @]
  BY <1>2, ZenonT(30) DEF QuerierRx
<1>4. cmd[1] = "halt" <=> Halts(c)
  BY <1>2, ZenonT(30) DEF Halts
<1>5. /\ \A s \in Daemons \ {d} : daemon'[s] = daemon[s] /\ queue'[s] = queue[s]
      /\ daemon'[d] = IF Halts(c) THEN "halting" ELSE "running"
  <2>1. queue \in [Daemons -> Seq(Clients \cup {None})] /\ daemon \in [Daemons -> {"none", "starting", "running", "halting"}]
    BY ZenonT(30) DEF QInv, Queues, LInv
  <2>2. \A s \in Daemons \ {d} : daemon'[s] = daemon[s] /\ queue'[s] = queue[s]
    BY <1>1, <1>3, <2>1
  <2>3. daemon'[d] = IF cmd[1] = "halt" THEN "halting" ELSE "running"
    BY <1>1, <1>3, <2>1, ZenonT(30)
  <2> QED  BY <1>4, <2>2, <2>3, ZenonT(30)
<1>6. CASE c = None
  <2>1. client' = client
    BY <1>6, ZenonT(30) DEF QuerierRx
  <2> QED  BY <1>5, <2>1, ZenonT(30) DEF RxEffect
<1>7. CASE c # None
  <2>1. PICK s : s = Execute(l, client[c].cmd)[1]
    OBVIOUS
  <2>2. c \in Clients
    BY <1>1, <1>7, ZenonT(30)
  <2>3. client'[c].cmd = client[c].cmd /\ \A b \in Clients \ {c} : client'[b] = client[b]
    BY <2>1, <2>2, QuerierAnswers, SMTT(60)
  <2>4. client[c].pc \in {"wait", "end"}
    BY <1>1, <1>7, <2>2, ZenonT(30) DEF QInv, Consistent
  <2> QED  BY <1>5, <2>3, <2>4, ZenonT(30) DEF RxEffect
<1> QED  BY <1>6, <1>7

\* The querier takes messages in order, so a halt behind others is not lost.
LEMMA QuerierRxHInv ==
    ASSUME LInv, SInv, QInv, QInv', HInv, NEW l \in Launchers, QuerierRx(l)
    PROVE  HInv'
<1>1. PICK d \in Daemons : d = <<l, "querier">>
  BY DaemonPairs, ZenonT(30)
<1>2. PICK c : c = Head(queue[d])
  BY ZenonT(30)
<1>3. /\ \A b \in Clients : client'[b].cmd = client[b].cmd
      /\ \A b \in Clients : client'[b].pc = client[b].pc \/ (b = c /\ client[b].pc \in {"wait", "end"})
      /\ \A s \in Daemons \ {d} : daemon'[s] = daemon[s] /\ queue'[s] = queue[s]
      /\ daemon'[d] = IF Halts(c) THEN "halting" ELSE "running"
  <2>1. RxEffect(d, c)
    BY <1>1, <1>2, QuerierRxEffect, ZenonT(30)
  <2> QED  BY <2>1, ZenonT(30) DEF RxEffect
<1>4. /\ queue[d] # <<>> /\ daemon[d] = "running" /\ queue[d][1] = c
      /\ queue' = [queue EXCEPT ![d] = Tail(queue[d])]
  BY <1>1, <1>2, QuerierTakes, ZenonT(30)
<1>5. UNCHANGED <<main, unruly, quiet>>
  BY ZenonT(30) DEF QuerierRx
<1>6. Settled => Settled'
  <2>1. \A s \in Daemons : daemon'[s] = "starting" => daemon[s] = "starting"
    BY <1>3, ZenonT(30)
  <2> QED  BY <1>5, <2>1, SettledKept, ZenonT(30)
<1>7. \A m \in Launchers : ResponderTold(m) => ResponderTold(m)'
  <2> SUFFICES ASSUME NEW m \in Launchers PROVE ResponderTold(m) => ResponderTold(m)'
    OBVIOUS
  <2>1. PICK e \in Daemons : e = <<m, "responder">> /\ e # d
    BY <1>1, DaemonPairs, ZenonT(30)
  <2> QED  BY <1>3, <2>1, ZenonT(30) DEF ResponderTold
<1>8. ASSUME NEW m \in Launchers, m # l, QuerierTold(m) PROVE QuerierTold(m)'
  <2>1. queue' \in Queues
    BY ZenonT(30) DEF QInv
  <2>2. ASSUME NEW r \in Roles, daemon'[<<m, r>>] = "running"
        PROVE  LET e == <<m, r>> IN
               /\ daemon[e] = "running"
               /\ DOMAIN queue[e] \subseteq DOMAIN queue'[e]
               /\ \A i \in DOMAIN queue[e] : queue'[e][i] = queue[e][i]
    <3>0. <<m, r>> \in Daemons /\ <<m, r>> # d
      BY <1>1, <1>8, DaemonPairs
    <3>1. PICK e \in Daemons : e = <<m, r>> /\ e # d
      BY <3>0, Zenon
    <3> QED  BY <1>3, <2>2, <3>1, ZenonT(30)
  <2> QED  BY <1>3, <1>8, <2>1, <2>2, ToldKept, ZenonT(30)
<1>9. ASSUME QuerierTold(l), daemon'[d] = "running"
      PROVE  \E i \in DOMAIN queue'[d] :
               LET x == queue'[d][i] IN x = None \/ client'[x].cmd[1] = "halt"
  <2>1. ~Halts(c)
    BY <1>3, <1>9, ZenonT(30)
  <2>2. PICK i \in DOMAIN queue[d] : Halts(queue[d][i])
    BY <1>1, <1>4, <1>9, Zenon DEF QuerierTold
  <2>3. queue[d] \in Seq(Clients \cup {None}) /\ queue \in [Daemons -> Seq(Clients \cup {None})]
    BY ZenonT(30) DEF QInv, Queues
  <2>4. i # 1
    BY <1>4, <2>1, <2>2, ZenonT(30)
  <2>5. queue'[d] = Tail(queue[d])
    BY <1>4, <2>3, ZenonT(30)
  <2>6. i - 1 \in DOMAIN queue'[d] /\ queue'[d][i - 1] = queue[d][i]
    BY <1>4, <2>3, <2>4, <2>5, SMTT(60)
  <2>7. PICK x \in Clients \cup {None} : x = queue[d][i]
    BY <2>3, SMTT(60)
  <2>8. x = None \/ client'[x].cmd[1] = "halt"
    BY <1>3, <2>2, <2>7, ZenonT(30) DEF Halts
  <2> QED  BY <2>6, <2>7, <2>8, Zenon
<1>10. ASSUME QuerierTold(l) PROVE QuerierTold(l)'
  BY <1>1, <1>9, <1>10, Zenon DEF QuerierTold, Halts
<1>11. \A b \in quiet : /\ client[b].cmd # None => client'[b].cmd # None
                        /\ client'[b].pc # "halt" => client[b].pc # "halt"
  BY <1>3, ZenonT(30) DEF HInv
<1>12. quiet # {} => ~unruly' /\ Settled'
  BY <1>5, <1>6, ZenonT(30) DEF HInv
<1> QED  BY <1>5, <1>7, <1>8, <1>10, <1>11, <1>12, HKept, Zenon

\* Every step keeps the invariant of the quiet halts.
LEMMA StepHInv == LInv /\ SInv /\ RInv /\ QInv /\ QInv' /\ HInv /\ [Next]_vars => HInv'
<1> SUFFICES ASSUME LInv, SInv, RInv, QInv, QInv', HInv, [Next]_vars PROVE HInv'
  BY ZenonT(30)
<1>1. ASSUME quiet' = {} PROVE HInv'
  BY <1>1, ZenonT(30) DEF HInv
<1>2. ASSUME quiet' = quiet, quiet # {} PROVE Settled
  BY <1>2, ZenonT(30) DEF HInv
<1>3. ASSUME NEW l \in Launchers, Launch(l) PROVE HInv'
  BY <1>1, <1>3 DEF Launch
<1>4. ASSUME NEW l \in Launchers, NEW r \in Roles, ThreadRefused(l, r) \/ Fork(l, r) PROVE HInv'
  <2>1. quiet' = quiet /\ main[l] = r
    BY <1>4, ZenonT(30) DEF ThreadRefused, Fork
  <2>2. ~Settled
    BY <2>1, ZenonT(30) DEF Settled, Roles
  <2> QED  BY <1>1, <1>2, <2>1, <2>2, ZenonT(30)
<1>5. ASSUME NEW d \in Daemons, LockFile(d) PROVE HInv'
  <2>1. quiet' = quiet /\ daemon[d] = "starting"
    BY <1>5 DEF LockFile
  <2> QED  BY <1>1, <1>2, <2>1, ZenonT(30) DEF Settled
<1>6. ASSUME NEW d \in Daemons, Exit(d) \/ Crash(d) PROVE HInv'
  BY <1>6, EndHInv, Zenon DEF Exit, Crash
<1>7. CASE UNCHANGED vars
  <2>1. UNCHANGED <<main, daemon, queue, client, unruly, quiet>>
    BY <1>7, ZenonT(30) DEF vars
  <2> QED  BY <2>1, HaltsKept
<1> QED
  BY <1>3, <1>4, <1>5, <1>6, <1>7, ResponderRxHInv, QuerierRxHInv, SignalHInv, RequestHInv,
     HaltQuerierHInv, NoResponseHInv, Zenon DEF Next

\* It holds at the start: nobody has asked for a halt.
LEMMA InitHInv == Init => HInv
BY DEF Init, HInv

\* The invariant for halts.
HaltInv == LInv /\ SInv /\ RInv /\ QInv /\ HInv

\* With one kind of launch, the invariant for halts holds of every behaviour.
LEMMA HaltInvariant == Alike => (Spec => []HaltInv)
<1> SUFFICES ASSUME Alike PROVE Spec => []HaltInv
  OBVIOUS
<1>1. Init => HaltInv
  BY InitLInv, InitSInv, InitRInv, InitQInv, InitHInv, ZenonT(30) DEF HaltInv
<1>2. HaltInv /\ [Next]_vars => HaltInv'
  BY StepLInv, StepSInv, StepRInv, StepQInv, StepHInv, ZenonT(30) DEF HaltInv
<1> QED  BY <1>1, <1>2, PTL DEF Spec

\* A halt works (mdns_halt, do_responder, do_querier): when it is called in a system
\* whose launches came one after the other, no daemon is left once all have done what
\* they had to do, if all launches have a host name, or none has one.
THEOREM HaltAlwaysStops ==
    ASSUME \A l, m \in Launchers : Hostname[l] = Hostname[m]
    PROVE  Spec => []HaltStops
<1>1. ASSUME HaltInv PROVE HaltStops
  <2> SUFFICES ASSUME quiet # {}, AtRest, NEW d \in Daemons PROVE daemon[d] = "none"
    BY DEF HaltStops
  <2>1. PICK c \in quiet : TRUE
    OBVIOUS
  <2>2. client[c].pc \in {"idle", "end"} /\ Settled
    BY <1>1, <2>1, ZenonT(30) DEF AtRest, HaltInv, HInv
  <2>3. daemon[d] \in {"none", "running"} /\ (daemon[d] = "running" => queue[d] = <<>>)
    BY <1>1, <2>2, ZenonT(30) DEF AtRest, Settled, HaltInv, LInv
  <2>4. PICK l \in Launchers : d \in {<<l, "responder">>, <<l, "querier">>}
    BY DaemonPairs DEF Roles
  <2>5. ResponderTold(l)
    BY <1>1, Zenon DEF HaltInv, HInv
  <2>6. QuerierTold(l)
    <3>1. client[c].pc # "halt"
      BY <2>2, ZenonT(30)
    <3> QED  BY <1>1, <2>1, <3>1, Zenon DEF HaltInv, HInv
  <2>7. CASE d = <<l, "responder">>
    BY <2>3, <2>5, <2>7, ZenonT(30) DEF ResponderTold
  <2>8. CASE d = <<l, "querier">>
    BY <2>3, <2>6, <2>8, SMTT(60) DEF QuerierTold
  <2> QED  BY <2>4, <2>7, <2>8, ZenonT(30)
<1>2. Alike
  BY DEF Alike
<1> QED  BY <1>1, <1>2, HaltInvariant, PTL

-----------------------------------------------------------------------------
(* The monitors. *)

\* A command, once given, is not changed.
LEMMA CommandKept ==
    ASSUME LInv, QInv, [Next]_vars, NEW c \in Clients, client[c].cmd # None
    PROVE  client'[c].cmd = client[c].cmd
<1>0. client[c] \in ClientRecord /\ client \in [Clients -> ClientRecord] /\ client[c].pc # "idle"
  BY DEF QInv, Consistent
<1>1. ASSUME client' = client PROVE client'[c].cmd = client[c].cmd
  BY <1>1
<1>2. ASSUME NEW b \in Clients, NEW cmd \in Commands, Request(b, cmd) PROVE client'[c].cmd = client[c].cmd
  <2>1. b # c /\ client' = [client EXCEPT ![b].cmd = cmd, ![b].pc = IF cmd[1] = "halt" THEN "halt" ELSE "wait"]
    BY <1>0, <1>2 DEF Request
  <2> QED  BY <1>0, <2>1, ZenonT(30)
<1>3. ASSUME NEW b \in Clients, HaltQuerier(b) PROVE client'[c].cmd = client[c].cmd
  BY <1>0, <1>3 DEF HaltQuerier, ClientRecord
<1>4. ASSUME NEW b \in Clients, NoResponse(b) PROVE client'[c].cmd = client[c].cmd
  BY <1>0, <1>4, ZenonT(30) DEF NoResponse, ClientRecord
<1>5. ASSUME NEW l \in Launchers, QuerierRx(l) PROVE client'[c].cmd = client[c].cmd
  <2>1. PICK d \in Daemons : d = <<l, "querier">>
    BY DaemonPairs, ZenonT(30)
  <2>2. PICK b : b = Head(queue[d])
    OBVIOUS
  <2>3. RxEffect(d, b)
    BY <1>5, <2>1, <2>2, QuerierRxEffect, ZenonT(30)
  <2> QED  BY <2>3, ZenonT(30) DEF RxEffect
<1>6. ASSUME NEW l \in Launchers,
             Launch(l) \/ ResponderRx(l) \/ \E r \in Roles : ThreadRefused(l, r) \/ Fork(l, r)
      PROVE  client' = client
  BY <1>6, Zenon DEF Launch, ResponderRx, ThreadRefused, Fork
<1>7. ASSUME NEW d \in Daemons, LockFile(d) \/ Exit(d) \/ Signal(d) \/ Crash(d) PROVE client' = client
  BY <1>7, Zenon DEF LockFile, Exit, Signal, Crash
<1>8. CASE UNCHANGED vars
  BY <1>1, <1>8, ZenonT(30) DEF vars
<1> QED  BY <1>1, <1>2, <1>3, <1>4, <1>5, <1>6, <1>7, <1>8, ZenonT(60) DEF Next

\* Signals and crashes are counted.
LEMMA FaultsCounted ==
    ASSUME faults \in Nat, [Next]_vars
    PROVE  /\ faults' \in Nat /\ (faults' = 0 => faults = 0)
           /\ \A d \in Daemons : Signal(d) \/ Crash(d) => faults' # 0
<1>1. \A d \in Daemons : Signal(d) \/ Crash(d) => faults' = faults + 1
  BY Zenon DEF Signal, Crash
<1>2. (\E d \in Daemons : Signal(d) \/ Crash(d)) \/ faults' = faults
  <2>1. ASSUME NEW l \in Launchers,
               Launch(l) \/ ResponderRx(l) \/ QuerierRx(l) \/ \E r \in Roles : ThreadRefused(l, r) \/ Fork(l, r)
        PROVE  faults' = faults
    BY <2>1, Zenon DEF Launch, ResponderRx, QuerierRx, ThreadRefused, Fork
  <2>2. ASSUME NEW d \in Daemons, LockFile(d) \/ Exit(d) PROVE faults' = faults
    BY <2>2, Zenon DEF LockFile, Exit
  <2>3. ASSUME NEW c \in Clients, (\E cmd \in Commands : Request(c, cmd)) \/ HaltQuerier(c) \/ NoResponse(c)
        PROVE  faults' = faults
    BY <2>3, Zenon DEF Request, HaltQuerier, NoResponse
  <2>4. CASE UNCHANGED vars
    BY <2>4 DEF vars
  <2> QED  BY <2>1, <2>2, <2>3, <2>4, Zenon DEF Next
<1>3. faults + 1 \in Nat /\ faults + 1 # 0
  OBVIOUS
<1>4. (\E d \in Daemons : Signal(d) \/ Crash(d)) => faults' = faults + 1
  BY <1>1, Zenon
<1> QED  BY <1>1, <1>2, <1>3, <1>4, ZenonT(30)

\* What is undisturbed after a step was so before it.
LEMMA UndisturbedBefore ==
    ASSUME LInv, QInv, AInv, [Next]_vars, Undisturbed'
    PROVE  Undisturbed /\ Admitted
<1>1. faults' = 0 /\ faults = 0
  BY FaultsCounted, ZenonT(30) DEF Undisturbed, AInv
<1>2. ASSUME NEW c \in Clients PROVE ~Undoes(client[c].cmd)
  <2>1. CASE client[c].cmd = None
    BY <2>1, ZenonT(30) DEF Undoes
  <2>2. CASE client[c].cmd # None
    <3>1. client'[c].cmd = client[c].cmd
      BY <2>2, CommandKept, ZenonT(30)
    <3>2. ~Undoes(client'[c].cmd)
      BY DEF Undisturbed
    <3> QED  BY <3>1, <3>2, ZenonT(30)
  <2> QED  BY <2>1, <2>2, ZenonT(30)
<1>3. Undisturbed
  BY <1>1, <1>2, ZenonT(30) DEF Undisturbed
<1> QED  BY <1>3, ZenonT(30) DEF AInv

\* A step that answers nobody and ends no querier in its loop.
LEMMA AdmittedKept ==
    ASSUME Admitted,
           \A d \in Daemons : daemon'[d] # "halting",
           Waiting(queue', None) => Waiting(queue, None),
           mons' \in [Launchers -> Seq(Types)],
           \A l \in Launchers : /\ daemon[<<l, "querier">>] = "running" =>
                                     daemon'[<<l, "querier">>] = "running" /\ mons'[l] = mons[l]
                                /\ mons'[l] \in {<<>>, mons[l]},
           \A c \in Clients : /\ client'[c].done = client[c].done
                              /\ client[c].done # "none" => client'[c].cmd = client[c].cmd
    PROVE  Admitted'
<1>1. \A l \in Launchers : Len(mons'[l]) <= MaxMonitors
  <2>1. Len(<<>>) = 0 /\ 0 <= MaxMonitors
    BY ControlAssumption, SMTT(60)
  <2> QED  BY <2>1, ZenonT(30) DEF Admitted
<1>2. \A c \in Clients : (Succeeded(c)' <=> Succeeded(c)) /\ (Succeeded(c) => client'[c].cmd = client[c].cmd)
  BY DEF Succeeded
<1>3. ASSUME NEW c \in Clients, Succeeded(c)'
      PROVE  \E l \in Launchers : daemon'[<<l, "querier">>] = "running" /\ Monitored(l, client[c].cmd[2])'
  <2>1. PICK l \in Launchers : daemon[<<l, "querier">>] = "running" /\ Monitored(l, client[c].cmd[2])
    BY <1>2, <1>3, Zenon DEF Admitted
  <2>2. daemon'[<<l, "querier">>] = "running" /\ mons'[l] = mons[l] /\ client'[c].cmd = client[c].cmd
    BY <1>2, <1>3, <2>1, ZenonT(30)
  <2>3. PICK i \in DOMAIN mons[l] : mons[l][i] = client[c].cmd[2]
    BY <2>1, ZenonT(30) DEF Monitored
  <2>4. i \in DOMAIN mons'[l] /\ mons'[l][i] = client'[c].cmd[2]
    BY <2>2, <2>3, ZenonT(30)
  <2>5. Monitored(l, client[c].cmd[2])'
    BY <2>4, ZenonT(30) DEF Monitored
  <2> QED  BY <2>2, <2>5, ZenonT(30)
<1>4. ASSUME NEW c \in Clients, NEW d \in Clients, Succeeded(c)', Succeeded(d)', client'[c].cmd = client'[d].cmd
      PROVE  c = d
  BY <1>2, <1>4, ZenonT(30) DEF Admitted
<1>5. ASSUME NEW l \in Launchers, NEW t \in Types, Monitored(l, t)'
      PROVE  \E c \in Clients : Succeeded(c)' /\ client'[c].cmd = <<"monitor", t>>
  <2>1. Monitored(l, t)
    <3>1. PICK i \in DOMAIN mons'[l] : mons'[l][i] = t
      BY <1>5 DEF Monitored
    <3>2. mons'[l] \in {<<>>, mons[l]}
      BY Zenon
    <3>3. mons'[l] = mons[l]
      BY <3>1, <3>2
    <3> QED  BY <3>1, <3>3, ZenonT(30) DEF Monitored
  <2>2. PICK c \in Clients : Succeeded(c) /\ client[c].cmd = <<"monitor", t>>
    BY <2>1, Zenon DEF Admitted
  <2> QED  BY <1>2, <2>2, ZenonT(30)
<1>6. ASSUME NEW c \in Clients, client'[c].done = "inuse"
      PROVE  \E d \in Clients : Succeeded(d)' /\ client'[d].cmd = client'[c].cmd
  <2>1. client[c].done = "inuse" /\ client'[c].cmd = client[c].cmd
    BY <1>6
  <2>2. PICK d \in Clients : Succeeded(d) /\ client[d].cmd = client[c].cmd
    BY <2>1, ZenonT(60) DEF Admitted
  <2> QED  BY <1>2, <2>1, <2>2, ZenonT(30)
<1>7. ~Waiting(queue', None)
  BY DEF Admitted
<1> QED  BY <1>1, <1>3, <1>4, <1>5, <1>6, <1>7, ZenonT(30) DEF Admitted

\* Taking messages from the queues makes no client wait that did not.
LEMMA TakeWaiting ==
    ASSUME QInv, QInv',
           \A d \in Daemons : queue'[d] \in {<<>>, queue[d]} \/ (queue[d] # <<>> /\ queue'[d] = Tail(queue[d]))
    PROVE  \A c : Waiting(queue', c) => Waiting(queue, c)
<1>1. queue \in Queues /\ Unique(queue) /\ Addressed(queue) /\ queue' \in Queues
  BY DEF QInv
<1> QED  BY <1>1, TakeQueues, Zenon DEF Queues

\* Launches and starting daemons.
LEMMA StartAdmitted ==
    ASSUME LInv, SInv, QInv, QInv', Admitted,
           \/ \E l \in Launchers : Launch(l) \/ \E r \in Roles : ThreadRefused(l, r) \/ Fork(l, r)
           \/ \E d \in Daemons : LockFile(d)
    PROVE  Admitted'
<1>0. mons \in [Launchers -> Seq(Types)] /\ \A d \in Daemons : daemon[d] # "halting"
  BY ZenonT(30) DEF Admitted
<1>1. ASSUME NEW l \in Launchers, Launch(l) PROVE Admitted'
  <2>1. UNCHANGED <<daemon, queue, mons, client>>
    BY <1>1, ZenonT(30) DEF Launch
  <2> QED  BY <1>0, <2>1, AdmittedKept, ZenonT(30)
<1>2. ASSUME NEW l \in Launchers, NEW r \in Roles, ThreadRefused(l, r) PROVE Admitted'
  <2>1. UNCHANGED <<daemon, mons, client>> /\ \A d \in Daemons : queue'[d] \in {<<>>, queue[d]}
    BY <1>2, ZenonT(30) DEF ThreadRefused, CloseAll
  <2>2. Waiting(queue', None) => Waiting(queue, None)
    BY <2>1, TakeWaiting, Zenon
  <2> QED  BY <1>0, <2>1, <2>2, AdmittedKept, ZenonT(30)
<1>3. ASSUME NEW l \in Launchers, NEW r \in Roles, Fork(l, r) PROVE Admitted'
  <2>1. PICK d \in Daemons : d = <<l, r>>
    BY DaemonPairs, ZenonT(30)
  <2>2. UNCHANGED <<queue, mons, client>> /\ daemon' = [daemon EXCEPT ![d] = "starting"] /\ main[l] = r
    BY <1>3, <2>1, ZenonT(30) DEF Fork
  <2>3. daemon[d] = "none"
    <3>1. Launched(l)
      BY ZenonT(30) DEF SInv
    <3> QED  BY <2>1, <2>2, <3>1, ZenonT(30) DEF Launched, Opened, Roles
  <2>4. \A e \in Daemons : daemon'[e] # "halting" /\ (daemon[e] = "running" => daemon'[e] = "running")
    BY <1>0, <2>2, <2>3, ZenonT(30) DEF LInv
  <2>5. \A m \in Launchers : daemon[<<m, "querier">>] = "running" => daemon'[<<m, "querier">>] = "running"
    BY <2>4, DaemonPairs, Zenon
  <2> QED  BY <1>0, <2>2, <2>4, <2>5, AdmittedKept, ZenonT(30)
<1>4. ASSUME NEW d \in Daemons, LockFile(d), lock[File(d)] = None PROVE Admitted'
  <2>1. /\ UNCHANGED <<queue, mons, client>> /\ daemon[d] = "starting"
        /\ daemon' = [daemon EXCEPT ![d] = "running"]
    BY <1>4, ZenonT(30) DEF LockFile
  <2>2. \A e \in Daemons : daemon'[e] # "halting" /\ (daemon[e] = "running" => daemon'[e] = "running")
    BY <1>0, <2>1 DEF LInv
  <2>3. \A m \in Launchers : daemon[<<m, "querier">>] = "running" => daemon'[<<m, "querier">>] = "running"
    BY <2>2, DaemonPairs, Zenon
  <2> QED  BY <1>0, <2>1, <2>2, <2>3, AdmittedKept, ZenonT(30)
<1>5. ASSUME NEW d \in Daemons, LockFile(d), lock[File(d)] # None PROVE Admitted'
  <2>1. daemon[d] = "starting" /\ End(d) /\ client' = client
    BY <1>5, ZenonT(30) DEF LockFile
  <2>2. /\ daemon' = [daemon EXCEPT ![d] = "none"]
        /\ mons' = IF d[2] = "querier" THEN [mons EXCEPT ![d[1]] = <<>>] ELSE mons
        /\ \A s \in Daemons : queue'[s] \in {<<>>, queue[s]}
    BY <2>1, ZenonT(30) DEF End, CloseAll
  <2>3. \A e \in Daemons : daemon'[e] # "halting" /\ (daemon[e] = "running" => daemon'[e] = "running")
    BY <1>0, <2>1, <2>2, ZenonT(30) DEF LInv
  <2>4. \A m \in Launchers : daemon[<<m, "querier">>] = "running" => daemon'[<<m, "querier">>] = "running"
    BY <2>3, DaemonPairs, Zenon
  <2>5. d[1] \in Launchers /\ d = <<d[1], d[2]>> /\ <<>> \in Seq(Types)
    BY DaemonPairs
  <2>6. mons' \in [Launchers -> Seq(Types)]
    BY <1>0, <2>2, <2>5, ZenonT(30)
  <2>7. ASSUME NEW m \in Launchers
        PROVE  /\ mons'[m] \in {<<>>, mons[m]}
               /\ daemon[<<m, "querier">>] = "running" => mons'[m] = mons[m]
    BY <1>0, <2>1, <2>2, <2>5, ZenonT(30)
  <2>8. Waiting(queue', None) => Waiting(queue, None)
    BY <2>2, TakeWaiting, Zenon
  <2>9. /\ \A e \in Daemons : daemon'[e] # "halting"
        /\ \A m \in Launchers : /\ daemon[<<m, "querier">>] = "running" =>
                                     daemon'[<<m, "querier">>] = "running" /\ mons'[m] = mons[m]
                                /\ mons'[m] \in {<<>>, mons[m]}
    BY <2>3, <2>4, <2>7, ZenonT(30)
  <2> QED  BY <2>1, <2>6, <2>8, <2>9, AdmittedKept, ZenonT(30)
<1> QED  BY <1>1, <1>2, <1>3, <1>4, <1>5, Zenon

\* A request that is only sent changes nobody's monitor.
LEMMA RequestAdmitted ==
    ASSUME SInv, QInv, QInv', Admitted, Undisturbed', NEW c \in Clients, NEW cmd \in Commands, Request(c, cmd)
    PROVE  Admitted'
<1>1. client[c] \in ClientRecord /\ client \in [Clients -> ClientRecord] /\ client[c].done = "none" /\ cmd # None /\ c # None
  BY ControlAssumption DEF QInv, Consistent, Request
<1>2. client' = [client EXCEPT ![c].cmd = cmd, ![c].pc = IF cmd[1] = "halt" THEN "halt" ELSE "wait"]
      /\ UNCHANGED <<daemon, mons>>
  BY DEF Request
<1>3. /\ client'[c].cmd = cmd /\ client'[c].done = client[c].done
      /\ \A b \in Clients \ {c} : client'[b] = client[b]
  BY <1>1, <1>2, ZenonT(30) DEF ClientRecord
<1>4. cmd[1] # "halt"
  BY <1>1, <1>3, ZenonT(30) DEF Undisturbed, Undoes
<1>5. queue' = Post(queue, "querier", c)
  BY <1>4 DEF Request
<1>6. Waiting(queue', None) => Waiting(queue, None)
  <2>1. queue \in Queues /\ Unique(queue) /\ Addressed(queue) /\ ~Waiting(queue, c) /\ "querier" \in Roles
    BY DEF QInv, Consistent, Request, Roles
  <2>2. c \in Clients \cup {None}
    OBVIOUS
  <2> QED  BY <1>1, <1>5, <2>1, <2>2, PostQueues, Zenon
<1>7. /\ \A d \in Daemons : daemon'[d] # "halting"
      /\ mons' \in [Launchers -> Seq(Types)]
  BY <1>2, ZenonT(30) DEF Admitted
<1>8. \A b \in Clients : /\ client'[b].done = client[b].done
                         /\ client[b].done # "none" => client'[b].cmd = client[b].cmd
  BY <1>1, <1>3, ZenonT(30)
<1> QED  BY <1>2, <1>6, <1>7, <1>8, AdmittedKept, ZenonT(30)

\* A client that gives up waiting is not one that was told of success.
LEMMA NoResponseAdmitted ==
    ASSUME QInv, Admitted, NEW c \in Clients, NoResponse(c)
    PROVE  Admitted'
<1>1. /\ client[c] \in ClientRecord /\ client \in [Clients -> ClientRecord]
      /\ client' = [client EXCEPT ![c].pc = "end", ![c].told = "noresp"]
      /\ UNCHANGED <<daemon, queue, mons>>
  BY DEF QInv, NoResponse
<1>2. \A b \in Clients : client'[b].done = client[b].done /\ client'[b].cmd = client[b].cmd
  BY <1>1 DEF ClientRecord
<1>3. /\ \A d \in Daemons : daemon'[d] # "halting"
      /\ mons' \in [Launchers -> Seq(Types)]
  BY <1>1, ZenonT(30) DEF Admitted
<1> QED  BY <1>1, <1>2, <1>3, AdmittedKept, ZenonT(30)

\* Without halts no responder is sent anything.
LEMMA ResponderQuiet ==
    ASSUME QInv, Admitted, NEW l \in Launchers, ResponderRx(l)
    PROVE  FALSE
<1>1. PICK d \in Daemons : d = <<l, "responder">> /\ d[2] = "responder"
  BY DaemonPairs, ZenonT(30) DEF Roles
<1>2. queue[d] # <<>> /\ queue[d] \in Seq(Clients \cup {None})
  BY <1>1 DEF ResponderRx, QInv, Queues
<1>3. 1 \in DOMAIN queue[d]
  BY <1>2
<1>4. queue[d][1] # None
  BY <1>3, ZenonT(30) DEF Admitted, Waiting
<1> QED  BY <1>1, <1>3, <1>4, ZenonT(30) DEF QInv, Addressed

\* What a client can ask for without undoing anything.
LEMMA OnlyMonitor ==
    ASSUME NEW cmd \in Commands, ~Undoes(cmd)
    PROVE  cmd[2] \in Types /\ cmd = <<"monitor", cmd[2]>>
<1>1. cmd \in AllCommands /\ cmd # None
  BY ControlAssumption
<1>2. cmd[1] \notin {"unmonitor", "halt"}
  BY <1>1, ZenonT(30) DEF Undoes
<1> QED  BY <1>1, <1>2, SMTT(60) DEF AllCommands

\* What add_service can make of the list of l and type t: the status s and the list n.
Added(l, t, s, n) ==
    /\ n \in Seq(Types) /\ Len(n) <= MaxMonitors
    /\ \/ s = "inuse" /\ Monitored(l, t) /\ n = mons[l]
       \/ s = "nomem" /\ n = mons[l]
       \/ /\ s = "success" /\ ~Monitored(l, t)
          /\ \A u : (\E i \in DOMAIN n : n[i] = u) <=> u = t \/ Monitored(l, u)

\* add_service on a full list, a list that has the type, or another one.
LEMMA AddServiceCases ==
    ASSUME NEW l \in Launchers, NEW t \in Types, mons[l] \in Seq(Types), Len(mons[l]) <= MaxMonitors,
           NEW s, s = AddService(l, t)[1], NEW n, n = AddService(l, t)[2]
    PROVE  Added(l, t, s, n)
<1>1. CASE Monitored(l, t)
  BY <1>1, ZenonT(30) DEF AddService, Monitored, Added
<1>2. CASE ~Monitored(l, t) /\ Len(mons[l]) = MaxMonitors
  BY <1>2, ZenonT(30) DEF AddService, Monitored, Added
<1>3. CASE ~Monitored(l, t) /\ Len(mons[l]) # MaxMonitors
  <2>1. s = "success" /\ n = <<t>> \o mons[l]
    BY <1>3, ZenonT(30) DEF AddService, Monitored
  <2>2. Len(mons[l]) \in Nat /\ MaxMonitors \in Nat
    BY ControlAssumption, SMTT(60)
  <2>3. /\ n \in Seq(Types) /\ Len(n) = Len(mons[l]) + 1 /\ n[1] = t
        /\ \A i \in 1 .. Len(mons[l]) : n[i + 1] = mons[l][i]
    BY <2>1, SMTT(60)
  <2>4. Len(n) <= MaxMonitors
    BY <1>3, <2>2, <2>3, SMTT(60)
  <2>5. ASSUME NEW u PROVE (\E i \in DOMAIN n : n[i] = u) <=> u = t \/ Monitored(l, u)
    <3>1. ASSUME NEW i \in DOMAIN n, n[i] = u PROVE u = t \/ Monitored(l, u)
      <4>1. i \in 1 .. Len(mons[l]) + 1
        BY <2>3, SMTT(60)
      <4>2. CASE i = 1
        BY <2>3, <3>1, <4>2, ZenonT(30)
      <4>3. CASE i # 1
        <5>1. i - 1 \in 1 .. Len(mons[l]) /\ (i - 1) + 1 = i
          BY <2>2, <4>1, <4>3, SMTT(60)
        <5>2. i - 1 \in DOMAIN mons[l] /\ mons[l][i - 1] = u
          BY <2>3, <3>1, <5>1, SMTT(60)
        <5> QED  BY <5>2, ZenonT(30) DEF Monitored
      <4> QED  BY <4>2, <4>3, ZenonT(30)
    <3>2. ASSUME u = t PROVE \E i \in DOMAIN n : n[i] = u
      <4>1. 1 \in DOMAIN n
        BY <2>2, <2>3, SMTT(60)
      <4> QED  BY <2>3, <3>2, <4>1, ZenonT(30)
    <3>3. ASSUME Monitored(l, u) PROVE \E i \in DOMAIN n : n[i] = u
      <4>1. PICK i \in DOMAIN mons[l] : mons[l][i] = u
        BY <3>3, ZenonT(30) DEF Monitored
      <4>2. i \in 1 .. Len(mons[l]) /\ i + 1 \in DOMAIN n
        BY <2>2, <2>3, SMTT(60)
      <4> QED  BY <2>3, <4>1, <4>2, ZenonT(30)
    <3> QED  BY <3>1, <3>2, <3>3, ZenonT(30)
  <2> QED  BY <1>3, <2>1, <2>3, <2>4, <2>5, ZenonT(30) DEF Added
<1> QED  BY <1>1, <1>2, <1>3, ZenonT(30)

\* The querier answers a monitor request.
LEMMA QuerierAdmitted ==
    ASSUME Alike, LInv, QInv, QInv', Admitted, Undisturbed, NEW l \in Launchers, QuerierRx(l)
    PROVE  Admitted'
<1>1. PICK d \in Daemons : d = <<l, "querier">>
  BY DaemonPairs, ZenonT(30)
<1>2. PICK c : c = Head(queue[d])
  OBVIOUS
<1>3. /\ daemon[d] = "running" /\ c \in Clients \cup {None} /\ 1 \in DOMAIN queue[d] /\ queue[d][1] = c
      /\ c # None => Waiting(queue, c)
      /\ \A b : Waiting(queue', b) => Waiting(queue, b)
  BY <1>1, <1>2, QuerierTakes, ZenonT(30)
<1>4. c # None /\ c \in Clients
  BY <1>3, ZenonT(30) DEF Admitted, Waiting
<1>5. client[c].cmd \in Commands /\ client[c].done = "none" /\ client[c].cmd # None
  <2>1. client[c].pc # "idle" /\ client[c].done = "none" /\ client[c].cmd # None
    BY <1>3, <1>4, ZenonT(30) DEF QInv, Consistent
  <2>2. client[c] \in ClientRecord
    BY <1>4, ZenonT(30) DEF QInv
  <2> QED  BY <2>1, <2>2, ZenonT(30) DEF ClientRecord
<1>6. PICK t \in Types : client[c].cmd = <<"monitor", t>> /\ client[c].cmd[1] = "monitor" /\ client[c].cmd[2] = t
  <2>1. ~Undoes(client[c].cmd)
    BY <1>4, ZenonT(30) DEF Undisturbed
  <2>2. PICK cmd \in Commands : cmd = client[c].cmd
    BY <1>5, ZenonT(30)
  <2>3. cmd[2] \in Types /\ cmd = <<"monitor", cmd[2]>>
    BY <2>1, <2>2, OnlyMonitor, ZenonT(30)
  <2> QED  BY <2>2, <2>3, SMTT(60)
<1>7. PICK s, n : s = AddService(l, t)[1] /\ n = AddService(l, t)[2]
  OBVIOUS
<1>8. Execute(l, client[c].cmd) = AddService(l, t)
  BY <1>6, ZenonT(30) DEF Execute
<1>9. mons \in [Launchers -> Seq(Types)] /\ mons[l] \in Seq(Types) /\ Len(mons[l]) <= MaxMonitors
  BY DEF Admitted
<1>10. /\ n \in Seq(Types) /\ Len(n) <= MaxMonitors
       /\ \/ s = "inuse" /\ Monitored(l, t) /\ n = mons[l]
          \/ s = "nomem" /\ n = mons[l]
          \/ /\ s = "success" /\ ~Monitored(l, t)
             /\ \A u : (\E i \in DOMAIN n : n[i] = u) <=> u = t \/ Monitored(l, u)
  <2>1. Added(l, t, s, n)
    BY <1>7, <1>9, AddServiceCases, ZenonT(30)
  <2> QED  BY <2>1, Zenon DEF Added
<1>11. mons' = [mons EXCEPT ![l] = n]
  BY <1>1, <1>2, <1>4, <1>7, <1>8, ZenonT(30) DEF QuerierRx
<1>12. /\ mons' \in [Launchers -> Seq(Types)] /\ \A m \in Launchers : Len(mons'[m]) <= MaxMonitors
       /\ mons'[l] = n /\ \A m \in Launchers \ {l} : mons'[m] = mons[m]
  BY <1>9, <1>10, <1>11, ZenonT(30) DEF Admitted
<1>13. /\ client'[c].cmd = client[c].cmd /\ client'[c].done = s
       /\ \A b \in Clients \ {c} : client'[b] = client[b]
  <2>1. s = Execute(l, client[c].cmd)[1]
    BY <1>7, <1>8, ZenonT(30)
  <2> QED  BY <1>1, <1>2, <1>4, <2>1, QuerierAnswers, SMTT(60)
<1>14. daemon' = daemon
  <2>1. ~Halts(c)
    BY <1>4, <1>6, ZenonT(30) DEF Halts
  <2>2. (\A e \in Daemons \ {d} : daemon'[e] = daemon[e]) /\ daemon'[d] = "running"
    <3>1. RxEffect(d, c)
      BY <1>1, <1>2, QuerierRxEffect, ZenonT(30)
    <3> QED  BY <2>1, <3>1, ZenonT(30) DEF RxEffect
  <2>3. daemon \in [Daemons -> {"none", "starting", "running", "halting"}]
    BY ZenonT(30) DEF LInv
  <2>4. daemon' = [daemon EXCEPT ![d] = IF client[c].cmd[1] = "halt" THEN "halting" ELSE @]
    BY <1>1, <1>2, <1>4, ZenonT(30) DEF QuerierRx
  <2> QED  BY <1>3, <1>6, <2>3, <2>4, ZenonT(30)
<1>15. ~Waiting(queue', None)
  BY <1>3, ZenonT(30) DEF Admitted
<1>16. \A b \in Clients : Succeeded(b)' <=> Succeeded(b) \/ (b = c /\ s = "success")
  <2> SUFFICES ASSUME NEW b \in Clients
               PROVE  client'[b].done = "success" <=> client[b].done = "success" \/ (b = c /\ s = "success")
    BY Zenon DEF Succeeded
  <2>1. CASE b = c
    BY <1>5, <1>13, <2>1, ZenonT(30)
  <2>2. CASE b # c
    BY <1>13, <2>2, ZenonT(30)
  <2> QED  BY <2>1, <2>2, ZenonT(30)
<1>17. \A b \in Clients : client'[b].cmd = client[b].cmd
  BY <1>13, ZenonT(30)
<1>18. ASSUME NEW m \in Launchers, NEW u, Monitored(m, u) PROVE Monitored(m, u)'
  <2>1. CASE m # l
    BY <1>12, <1>18, <2>1, ZenonT(30) DEF Monitored
  <2>2. CASE m = l /\ n = mons[l]
    BY <1>12, <1>18, <2>2, ZenonT(30) DEF Monitored
  <2>3. CASE m = l /\ \A x : (\E i \in DOMAIN n : n[i] = x) <=> x = t \/ Monitored(l, x)
    BY <1>12, <1>18, <2>3, ZenonT(30) DEF Monitored
  <2> QED  BY <1>10, <2>1, <2>2, <2>3, ZenonT(30)
<1>19. ASSUME NEW m \in Launchers, NEW u, Monitored(m, u)'
       PROVE  Monitored(m, u) \/ (s = "success" /\ u = t)
  <2>1. CASE m # l
    BY <1>12, <1>19, <2>1, ZenonT(30) DEF Monitored
  <2>2. CASE m = l /\ n = mons[l]
    BY <1>12, <1>19, <2>2, ZenonT(30) DEF Monitored
  <2>3. CASE m = l /\ s = "success" /\ \A x : (\E i \in DOMAIN n : n[i] = x) <=> x = t \/ Monitored(l, x)
    BY <1>12, <1>19, <2>3, ZenonT(30) DEF Monitored
  <2> QED  BY <1>10, <2>1, <2>2, <2>3, ZenonT(30)
<1>20. ASSUME NEW b \in Clients, Succeeded(b)'
       PROVE  \E m \in Launchers : daemon'[<<m, "querier">>] = "running" /\ Monitored(m, client[b].cmd[2])'
  <2>1. CASE Succeeded(b)
    <3>1. PICK m \in Launchers : daemon[<<m, "querier">>] = "running" /\ Monitored(m, client[b].cmd[2])
      BY <2>1, Zenon DEF Admitted
    <3>2. PICK u : u = client[b].cmd[2]
      BY ZenonT(30)
    <3>3. Monitored(m, u)'
      BY <1>18, <3>1, <3>2, ZenonT(30)
    <3>4. Monitored(m, client[b].cmd[2])'
      BY <1>17, <3>2, <3>3, ZenonT(30) DEF Monitored
    <3> QED  BY <1>14, <3>1, <3>4, ZenonT(30)
  <2>2. CASE b = c /\ s = "success"
    <3>1. \E i \in DOMAIN n : n[i] = t
      BY <1>10, <2>2, ZenonT(30)
    <3>2. Monitored(l, client[b].cmd[2])'
      BY <1>6, <1>12, <1>17, <2>2, <3>1, ZenonT(30) DEF Monitored
    <3> QED  BY <1>1, <1>3, <1>14, <3>2, ZenonT(30)
  <2> QED  BY <1>16, <1>20, <2>1, <2>2, ZenonT(30)
<1>21. ASSUME s = "success", NEW b \in Clients, Succeeded(b), client[b].cmd = client[c].cmd PROVE FALSE
  <2>1. PICK m \in Launchers : daemon[<<m, "querier">>] = "running" /\ Monitored(m, client[b].cmd[2])
    BY <1>21, Zenon DEF Admitted
  <2>2. PICK e \in Daemons : e = <<m, "querier">> /\ e[1] = m /\ e[2] = "querier"
    BY DaemonPairs, ZenonT(30) DEF Roles
  <2>3. Alive(e) /\ Alive(d) /\ d[1] = l /\ d[2] = "querier"
    BY <1>1, <1>3, <2>1, <2>2, ZenonT(30) DEF Alive
  <2>4. File(e) = File(d)
    BY <2>2, <2>3, ZenonT(30) DEF File, Alike
  <2>5. e = d
    BY <2>3, <2>4, ZenonT(30) DEF LInv
  <2>6. m = l
    BY <2>2, <2>3, <2>5, ZenonT(30)
  <2> QED  BY <1>6, <1>10, <1>21, <2>1, <2>6, ZenonT(30)
<1>22. ASSUME NEW a \in Clients, NEW b \in Clients, Succeeded(a)', Succeeded(b)', client'[a].cmd = client'[b].cmd
       PROVE  a = b
  <2>1. Succeeded(a) /\ Succeeded(b) /\ client[a].cmd = client[b].cmd => a = b
    BY ZenonT(30) DEF Admitted
  <2> QED  BY <1>4, <1>16, <1>17, <1>21, <1>22, <2>1, ZenonT(30)
<1>23. ASSUME NEW m \in Launchers, NEW u \in Types, Monitored(m, u)'
       PROVE  \E b \in Clients : Succeeded(b)' /\ client'[b].cmd = <<"monitor", u>>
  <2>1. CASE Monitored(m, u)
    <3>1. PICK b \in Clients : Succeeded(b) /\ client[b].cmd = <<"monitor", u>>
      BY <2>1, Zenon DEF Admitted
    <3> QED  BY <1>16, <1>17, <3>1, ZenonT(30)
  <2>2. CASE s = "success" /\ u = t
    BY <1>4, <1>6, <1>16, <1>17, <2>2, ZenonT(30)
  <2> QED  BY <1>19, <1>23, <2>1, <2>2, SMTT(60)
<1>24. ASSUME NEW b \in Clients, client'[b].done = "inuse"
       PROVE  \E e \in Clients : Succeeded(e)' /\ client'[e].cmd = client'[b].cmd
  <2>1. CASE b # c
    <3>1. PICK e \in Clients : Succeeded(e) /\ client[e].cmd = client[b].cmd
      BY <1>13, <1>24, <2>1, Zenon DEF Admitted
    <3> QED  BY <1>16, <1>17, <3>1, ZenonT(30)
  <2>2. CASE b = c
    <3>1. s = "inuse" /\ Monitored(l, t)
      BY <1>10, <1>13, <1>24, <2>2, ZenonT(30)
    <3>2. PICK e \in Clients : Succeeded(e) /\ client[e].cmd = <<"monitor", t>>
      BY <3>1, Zenon DEF Admitted
    <3> QED  BY <1>6, <1>16, <1>17, <2>2, <3>2, ZenonT(30)
  <2> QED  BY <2>1, <2>2, ZenonT(30)
<1>25. \A e \in Daemons : daemon'[e] # "halting"
  BY <1>14, ZenonT(30) DEF Admitted
<1> QED  BY <1>12, <1>15, <1>20, <1>22, <1>23, <1>24, <1>25, ZenonT(30) DEF Admitted

\* Every step keeps the invariant of the monitors.
LEMMA StepAInv == Alike /\ LInv /\ SInv /\ QInv /\ QInv' /\ AInv /\ [Next]_vars => AInv'
<1> SUFFICES ASSUME Alike, LInv, SInv, QInv, QInv', AInv, [Next]_vars PROVE AInv'
  BY ZenonT(30)
<1>1. faults' \in Nat /\ (faults' = 0 => faults = 0) /\ \A d \in Daemons : Signal(d) \/ Crash(d) => faults' # 0
  BY FaultsCounted, ZenonT(30) DEF AInv
<1> SUFFICES ASSUME Undisturbed' PROVE Admitted'
  BY <1>1 DEF AInv
<1>2. Undisturbed /\ Admitted
  BY UndisturbedBefore
<1>3. ASSUME NEW d \in Daemons, Signal(d) \/ Crash(d) \/ Exit(d) PROVE FALSE
  <2>1. daemon[d] # "halting" /\ faults' = 0
    BY <1>2, ZenonT(30) DEF Admitted, Undisturbed
  <2> QED  BY <1>1, <1>3, <2>1, ZenonT(30) DEF Exit
<1>4. ASSUME NEW c \in Clients, HaltQuerier(c) PROVE FALSE
  <2>1. client[c].pc = "halt"
    BY <1>4, ZenonT(30) DEF HaltQuerier
  <2>2. client[c].cmd[1] = "halt" /\ client[c].cmd # None
    BY <2>1, ZenonT(30) DEF QInv, Consistent
  <2> QED  BY <1>2, <2>2 DEF Undisturbed, Undoes
<1>5. CASE UNCHANGED vars
  <2>1. UNCHANGED <<daemon, queue, mons, client>>
    BY <1>5, ZenonT(30) DEF vars
  <2>2. mons \in [Launchers -> Seq(Types)] /\ \A d \in Daemons : daemon[d] # "halting"
    BY <1>2 DEF Admitted
  <2> QED  BY <1>2, <2>1, <2>2, AdmittedKept, ZenonT(30)
<1>6. ASSUME NEW l \in Launchers, QuerierRx(l) PROVE Admitted'
  BY <1>2, <1>6, QuerierAdmitted, Zenon
<1>7. ASSUME NEW l \in Launchers, ResponderRx(l) PROVE FALSE
  BY <1>2, <1>7, ResponderQuiet, Zenon
<1>8. ASSUME NEW c \in Clients, (\E cmd \in Commands : Request(c, cmd)) \/ NoResponse(c) PROVE Admitted'
  BY <1>2, <1>8, RequestAdmitted, NoResponseAdmitted, Zenon
<1>9. ASSUME \/ \E l \in Launchers : Launch(l) \/ \E r \in Roles : ThreadRefused(l, r) \/ Fork(l, r)
             \/ \E d \in Daemons : LockFile(d)
      PROVE  Admitted'
  BY <1>2, <1>9, StartAdmitted, Zenon
<1> QED  BY <1>3, <1>4, <1>5, <1>6, <1>7, <1>8, <1>9, Zenon DEF Next

\* It holds at the start: nothing is monitored and nobody was answered.
LEMMA InitAInv == Init => AInv
<1> SUFFICES ASSUME Init PROVE AInv
  OBVIOUS
<1>1. /\ faults = 0 /\ \A d \in Daemons : daemon[d] = "none" /\ queue[d] = <<>>
      /\ \A l \in Launchers : mons[l] = <<>>
      /\ \A c \in Clients : client[c].done = "none"
  BY ZenonT(30) DEF Init
<1>2. <<>> \in Seq(Types) /\ Len(<<>>) = 0 /\ 0 <= MaxMonitors
  BY ControlAssumption, SMTT(60)
<1>3. mons \in [Launchers -> Seq(Types)]
  BY <1>2, ZenonT(30) DEF Init
<1>4. ~Waiting(queue, None) /\ \A l \in Launchers : \A t \in Types : ~Monitored(l, t)
  BY <1>1 DEF Waiting, Monitored
<1>5. \A c \in Clients : ~Succeeded(c)
  BY <1>1, ZenonT(30) DEF Succeeded
<1>6. Admitted
  BY <1>1, <1>2, <1>3, <1>4, <1>5, ZenonT(30) DEF Admitted
<1> QED  BY <1>1, <1>6, ZenonT(30) DEF AInv

\* The invariant for monitors.
MonitorInv == HaltInv /\ AInv

\* Admission control (add_service and the status that mdns_query_monitor returns), for
\* any number of launches, clients, types and monitors: if all launches have a host
\* name, or none has one, and as long as nobody unmonitors or halts and no daemon ends,
\* the clients that were told MDNS_SUCCESS asked for different types that a running
\* querier monitors, and MDNS_INUSE is told only of a type that somebody got.
THEOREM AdmissionAlways ==
    ASSUME \A l, m \in Launchers : Hostname[l] = Hostname[m]
    PROVE  Spec => []Admission
<1>1. Alike
  BY DEF Alike
<1>2. Init => MonitorInv
  BY InitLInv, InitSInv, InitRInv, InitQInv, InitHInv, InitAInv, ZenonT(30) DEF HaltInv, MonitorInv
<1>3. MonitorInv /\ [Next]_vars => MonitorInv'
  BY <1>1, StepLInv, StepSInv, StepRInv, StepQInv, StepHInv, StepAInv, ZenonT(30) DEF HaltInv, MonitorInv
<1>4. ASSUME MonitorInv PROVE Admission
  <2> SUFFICES ASSUME Undisturbed
               PROVE  /\ \A c, d \in Clients : client[c].told = "success" /\ client[d].told = "success" /\ c # d
                                                => client[c].cmd # client[d].cmd
                      /\ \A c \in Clients : client[c].told = "success" =>
                           \E l \in Launchers : /\ daemon[<<l, "querier">>] = "running"
                                                /\ Len(mons[l]) <= MaxMonitors
                                                /\ \E i \in DOMAIN mons[l] : mons[l][i] = client[c].cmd[2]
                      /\ \A c \in Clients : client[c].told = "inuse" =>
                           \E d \in Clients : client[d].done = "success" /\ client[d].cmd = client[c].cmd
    BY ZenonT(30) DEF Admission, Undisturbed
  <2>1. Admitted
    BY <1>4 DEF MonitorInv, AInv
  <2>2. \A c \in Clients : client[c].told \in {"success", "inuse"} => client[c].done = client[c].told
    BY <1>4 DEF MonitorInv, HaltInv, QInv, Consistent
  <2>3. ASSUME NEW c \in Clients, NEW d \in Clients, client[c].told = "success", client[d].told = "success", c # d
        PROVE  client[c].cmd # client[d].cmd
    <3>1. Succeeded(c) /\ Succeeded(d)
      BY <2>2, <2>3, ZenonT(30) DEF Succeeded
    <3>2. Succeeded(c) /\ Succeeded(d) /\ client[c].cmd = client[d].cmd => c = d
      BY <2>1, ZenonT(30) DEF Admitted
    <3> QED  BY <2>3, <3>1, <3>2, ZenonT(30)
  <2>4. ASSUME NEW c \in Clients, client[c].told = "success"
        PROVE  \E l \in Launchers : /\ daemon[<<l, "querier">>] = "running"
                                    /\ Len(mons[l]) <= MaxMonitors
                                    /\ \E i \in DOMAIN mons[l] : mons[l][i] = client[c].cmd[2]
    <3>1. Succeeded(c)
      BY <2>2, <2>4, ZenonT(30) DEF Succeeded
    <3>2. PICK l \in Launchers : daemon[<<l, "querier">>] = "running" /\ Monitored(l, client[c].cmd[2])
      BY <2>1, <3>1, Zenon DEF Admitted
    <3>3. Len(mons[l]) <= MaxMonitors
      BY <2>1, ZenonT(30) DEF Admitted
    <3> QED  BY <3>2, <3>3, ZenonT(30) DEF Monitored
  <2>5. ASSUME NEW c \in Clients, client[c].told = "inuse"
        PROVE  \E d \in Clients : client[d].done = "success" /\ client[d].cmd = client[c].cmd
    BY <2>1, <2>2, <2>5 DEF Admitted, Succeeded
  <2> QED  BY <2>3, <2>4, <2>5, ZenonT(30)
<1> QED  BY <1>2, <1>3, <1>4, PTL DEF Spec
=============================================================================

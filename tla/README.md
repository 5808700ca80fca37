# TLA+ models of zeroconf

This directory holds a formal model of the mDNS library (`mdns/`, API in
`include/mdns.h`), of its daemons on Linux (`examples/linux/main.c`), and of the
parts of the 8388V SDK application (`8388V-SDK/Applications/customApp`) that have
a protocol or threads of their own: link-local addressing, the transmit path with
its peer stations, and the management of the wireless link. There are TLA+
modules, TLC configurations that check them on small instances, and proofs that
TLAPS checks for instances of any size. `PROJECT.json` maps every definition to
the lines it models and lists the runs, the mutants, the findings, the hazards
and the theorems.

## The system

| part | source | state | operations |
|---|---|---|---|
| querier | `mdns/mdns_query.c` | pools of service instances and A records with cross references, list of monitors, time to the next refresh of each | monitor, unmonitor, halt, launch; PTR, TXT, SRV, A records and goodbyes; refresh (`prepare_query`) |
| responder | `mdns/mdns_respond.c`, `mdns/mdns.c` | probing state, host and service name, remaining wait, pending response | launch, halt; three probes, claim, back-off; queries, probes and responses of others; delayed answers |
| tie-break | `mdns/mdns_respond.c` 323-489 | none | compare authority sections |
| names | `mdns/dname.c` | none | compare, copy, increment, compress |
| message layer | `mdns/mdns.c` | packet buffer | parse, build, send |
| control | `mdns/mdns.c`, `mdns/mdns_query.c`, `examples/linux/main.c` | pid files, a control socket per daemon, the list of monitors | launch, halt, monitor, unmonitor; SIGTERM |
| link-local | `linklocal.c` | candidate address, probe, announce and conflict counters, event flag, TCP/IP stack | init, shutdown; ARP handler; thread `ll_main` |
| transmit path | `mli.c` | registered packets, free, global and wlan queue, event flag | enqueue, dispatch, take, done, tick |
| peer stations | `peersta_api.c` | a queue and a pool per station, the information element of the beacon | add, take and send a buffer, receive |
| station management | `cmd_parser.c`, `userif.c`, `hostsme_sm.c` | command and response buffer, event flags, state of the link, reassociation timer | console commands, answers of the firmware, timeouts |
| SDK responder, log, web server | `customApp/src` | | see the components in `PROJECT.json` |

The application calls the API from its own thread. Commands go through a
loopback socket to the querier thread, which answers by callbacks. Querier and
responder share no state; responders of different hosts interact only through
multicast packets, link-local threads only through ARP. On Linux the threads are
processes, which share the sockets that were open when they were forked. In the
SDK the console, the receive task, the dispatcher, the driver and the idle task
preempt each other and share queues and buffers.

What is hard to get right, and hard to test: the two pools of the querier,
which refer to each other while records arrive in any order and either pool may
be full; callbacks that must come in pairs; a sleep that packets interrupt and
whose length must be charged to every record once; several hosts that probe for
the same name with waits that packets restart; lost packets; halts in the middle
of probing; a conflict event that is raised between its predecessor's being
taken and the reaction to it; launches that test a lock before they fork and take
it afterwards; a caller that gives up waiting for a command that is then
executed; one event flag for many packets; one response buffer and one event
variable for everything the firmware may report. The hazards in `PROJECT.json` list them at their
lines.

## Modules

| module | models | remarks |
|---|---|---|
| `ServiceCache` | `do_querier` | one action per record, command or refresh |
| `BrowseApi` | the promise of `mdns.h` about callbacks | abstract; implemented by `ServiceCache` |
| `ServiceCacheSteps`, `ServiceCacheProofs` | | the invariant with a lemma per step; theorems about `ServiceCache`, the refinement of `BrowseApi` included |
| `RefreshTimer` | the milliseconds of `do_querier` | words of `Width` bits |
| `RefreshTimerProofs` | | theorems about `RefreshTimer` |
| `TieBreak` | `find_authorities`, `rr_cmp`, `authority_set_cmp` | operators |
| `Responder` | `do_responder` on several hosts | uses `TieBreak` |
| `ResponderProofs`, `ResponderPairProofs` | | theorems about `TieBreak` and `Responder`; two hosts on a quiet link |
| `NameClaims` | what hosts promise each other about names | abstract; implemented by `Responder` |
| `LinkLocal` | `linklocal.c` on several hosts | |
| `Control` | launch, halt and commands between processes | the kernel's sockets and locks are external |
| `ControlProofs` | | theorems about `Control` |
| `TxPath` | the transmit path of `mli.c` | |
| `PeerSta` | `peersta_api.c`, composed with `TxPath` | |
| `PeerStaProofs` | | theorems about `TxPath` and `PeerSta` |
| `HostSme` | console, `UserIF_Main`, `HostSmeState_Handler` | the firmware is external |
| `StationProofs` | | theorems about `LinkLocal` and `HostSme` |
| `MC...` | | instances for TLC |

**ServiceCache.** `sinst` and `arec` are the two pools, with the state, flags
and data of each slot; `monitored` is the list of monitors; `view` is what the
callbacks have told the application of each service. An iteration of
`do_querier` handles at most one command, then the records of a packet in the
order of `update_service_cache` (PTR, TXT, SRV, A), then `prepare_query`;
`stage` tells where the iteration is. Packets are revealed record by record, so
every combination occurs. Time is abstracted to the choice of what is due;
`ttl_percent`, which counts the attempts, is kept. `fault` records a failed
`ASSERT` or a broken list. A command and its reply are one step here; the way of
the command through the socket is in `Control`.

**RefreshTimer.** One monitor, one service instance, one A record, with the
arithmetic of `ADD`, `SUBTRACT` and `CONVERT_TTL` in words of `Width` bits. A
sleep ends by itself (`Expire`) or by a packet after any of the times in `Naps`.
`Second` is 20 units, so percentages of a TTL are whole numbers.

**TieBreak** and **Responder.** A name is a suffix number, as `dname_increment`
changes it; hosts have an optional service. `wait` and `since` give the timeout
of `select` and the time since it began, as `recalc_timeout` uses them. A packet
is in the `inbox` of each running host until it is handled or lost, and a due
timeout is handled before time goes on. `pend` is the prepared response in
`tx_msg`. `original` is what the hosts were configured with; it never changes.

**LinkLocal.** The thread of a host takes an event (`Wake`) and then reacts
(`Act`); packets may arrive between the two. A packet is seen by all handlers at
once or lost. Ticks are seconds, and a thread that is due runs before the next
tick. `num_conflicts` starts with any value because the code does not set it.
The handler's own sends, and `ll_init` and `ll_shutdown` as a whole, are single
steps. The answers of TCP/IP stacks to ARP are external: whoever uses an address
answers a probe for it.

**Control.** A launch opens a socket, tests the lock and forks, for the responder
(if it has a host name) and then for the querier, each a step of its own; the
children lock their pid files later. `holders` says which processes have a socket
open, `bound` in which order the sockets of a port were bound. The kernel gives a
datagram to the socket bound last, which is what Linux does with the
`SO_REUSEADDR` of `mdns_socket_loopback`. A client is a run of one of the other
commands; its timeout may fire at any time, because the querier may be late by
any amount. A signal runs `mdns_halt` inside a daemon; a crash ends it at any
point. `unruly` and `quiet` only record history for `HaltStops`.

**TxPath** and **PeerSta.** Every access to a queue is a step, since each is a
critical section of its own, and so is every station that `update_peersta_IE`
visits. The tick functions run on the idle task, which runs only while no other
task has work (`IdleTask`) and may be preempted between any two of its steps. The
queue elements are interchangeable, so the free queue is its length.

**HostSme.** `UserIF_Main` handles all flags of a wake-up in one step, because it
preempts the console and is not preempted by it; the console may be preempted
between its test of `cmd_in_progress`, its reading of a line, and the two
assignments of `iwconfig essid`. The firmware takes a command when it is
triggered, answers well or badly, and may lose the link at any time; a second
response overwrites the first.

## Runs

Passing runs:

| run | checks | shows | instance |
|---|---|---|---|
| `cache_hosts` | `TypeOK`, `XrefConsistent`, `AddressIsHosts`, `CompleteIsDiscovered`, `CleanIsReported`, `NoFault` | references, addresses and callbacks stay consistent when a service moves | 1 service, 2 hosts, 2 addresses, 1+2 slots |
| `cache_shared` | `XrefConsistent`, `NoDuplicates`, `ImplementsBrowseApi` | the same for two services on one host; the callbacks are those `BrowseApi` allows | 2 types, 2 names, 1 host, 2 addresses |
| `cache_starved` | `ReportedAreCached`, `OnlyMonitored`, `SilentDisappear` | paired callbacks with every pool at its limit; a silent service is given up (liveness) | 2 types, 2 services, 2 hosts, 1 slot each |
| `resp_pair` | `UniqueNames`, `SomeoneYields`, `OneYields`, `ImplementsNameClaims`, `EventuallyClaims`, `AloneClaims`, `AnswersDelivered` | unique names, the refinement of `NameClaims`, claims in the end (liveness), answers sent; of two probers at least one yields, and exactly one unless TXT records are compared | 2 hosts with the first or the last suffix, crossed tie-break, a query or a loss, a halt; all sections of up to 2 records |
| `timer` | `NoOversleep`, `SrvSchedule`, `SilentGivenUp`, `AddressExpires` | sleeps, refreshes and expiry in time | TTLs of 2 and 3 s, 12-bit words |
| `ll_pair` | `OneOwner`, `StackIsStable`, `Probed` | one user per address, stack only when stable, no address unprobed | 2 hosts, 1 address, 2 losses, 3 starts |
| `ll_alone` | `OneOwner`, `AloneConfigured` | an address of other equipment is never used; a host that is alone gets the free one (liveness) | 2 hosts, 2 addresses, 2 starts |
| `sdk_tx` | `ElementLeft`, `Accounted`, `PendingAdvertised`, `Dispatched` | no element is missing, every packet has one owner on record, the beacon lists all peers with data, no packet is slept on (liveness) | 1 peer with 2 buffers, 1 raw packet, 3 slots, 2 threads |
| `station` | `WaitIsAnswered`, `ConnectedByResponse`, `HangsConnected` | the console waits only for an answer that is owed; connected only by an answer; the prompt comes back unless the station stays connected (liveness) | 3 lines typed, an access point and an ad hoc network |
| `control` | `OneOfEach`, `Admission`, `HaltStops` | one daemon of each kind; statuses agree with the monitors; a halt leaves no daemon | 2 launches, 2 clients, 2 types, 1 monitor, a signal or crash |

The bounds suffice for the interesting cases to occur: each conflict needs two
actors, each pool is exceeded by one in `cache_starved`, the suffixes are
exhausted in `resp_pair`, a TTL of 3 s times 80 exceeds 12 bits in `timer` while
one of 2 s does not, conflicts reach the rate limit in both `ll` runs, three
packets take all three slots in `sdk_tx`, three lines connect a station, leave it
and try again in `station`, and two clients exceed the one monitor in `control`.
`MaxDisturbances`, `MaxLoss`, `MaxHalts`, `MaxStarts`, `MaxFaults` and `MaxLines`
bound the environment, not the code. `SomeoneYields` and `OneYields` quantify
over all pairs of sections; they are evaluated where all hosts have begun to
probe (`Contest`).

`XrefConsistent`, `AddressIsHosts` and `NoFault` are checked with as many A
slots as hosts, because with fewer they fail; `SilentDisappear`, checked with
fewer, is about a querier that does not spin in the failed assertion.
`UniqueNames` holds for a pair with one disturbance; with two losses or with a
loss and a query it fails, for the reason that `resp_trio` shows.
`AnswersDelivered` holds for clients at port 5353. `OneOwner` of an address of
other equipment is checked without loss: one lost packet after rate limiting
breaks it, because such a candidate gets fewer probes. `OneOfEach` needs launches
that all have a host name or all have none, and `HaltStops` needs launches that
do not overlap; see below. In `station` and `control` the system may stop (a
console that waits for ever, or commands that are all over), so deadlock is not
checked there.

Every property of a passing run has a mutant: a definition with a plausible bug,
under which TLC finds the property violated. They are next to the definitions
they mutate.

Runs that refute what a comment, the API description or a test says:

| run | property | what the code does instead |
|---|---|---|
| `cache_updates` | `UpdatesDelivered` | a changed TXT that arrives during a refresh of the SRV is never reported |
| `resp_trio` | `UniqueNames` | three hosts: waits restarted by packets let two hosts claim one name |

Other places where the code differs from a comment, a document or a test. The
models follow the code; these have no run of their own.

- A service that finds no free A slot stays in the list of its old record
  (`mdns_query.c` 565), so `evict_arec` runs into its `ASSERT` (778-782).
- A service that moves leaves an A record without references (510), although
  `evict_arec` (778-780) is meant to leave none.
- An SRV and an unchanged A in one packet leave the service without an address
  while the A is refreshed (754, 1012-1014).
- `rr_cmp` on TXT records is not an order (`mdns_respond.c` 418-420, against 363-364): two
  hosts may both yield for ever.
- Any packet cuts the back-off of 5 s short (`mdns_respond.c` 736, against
  629-630 and `include/mdns.h` 256-258).
- A delayed answer goes to the port of whichever packet came last
  (`mdns_respond.c` 823), so a client at another port than 5353 may get none;
  `test/test_mdns.py` 62 counts that as a failure ("Timed out waiting for mdns
  response."). With `ClientPorts` extended by such a port TLC finds it.
- A query and a lost packet together let two hosts claim one name.
- SRV records are refreshed at 80%, 160% and 170% of the TTL (`mdns_query.c` 615),
  where `test_mdns.py` 1220 expects the third at 95%. `SrvSchedule` states what
  the code does.
- An unanswered A query is given up within a second (834, against 828-829).
- The first refresh period is 2 s (1142, against 157-159).
- `set_ip` does not add the elapsed time (764, against 763).
- `ttl * 80` overflows 32 bits for TTLs over 53687 s (583).
- A link-local candidate chosen after rate limiting gets fewer than three probes
  (`linklocal.c` 303, against 15).
- A host in `LL_STABLE` gives its address up to one that only probes for it
  (310, against `doc/zeroconf.txt` 28-30).
- A rate-limited host has candidate 0 and takes any probe for a conflict
  (107-109, 302), which restarts its wait.
- Pid files are numbered by the calls of `mdns_thread_create` in a process, so the
  querier of a launch without a host name locks another file than that of one
  with: two queriers run (`main.c` 69-70, against 57-58, "we'll fail if the thread
  is already running"). With `Hostname` mixed, TLC finds `OneOfEach` violated.
- Launches that overlap may leave the newest responder socket with a querier,
  which inherited it and never reads it. A halt then does not reach the
  responder. Without its condition on overlapping launches TLC finds `HaltStops`
  violated.
- A launch whose child loses the race for the lock reports success (98, 112-116),
  and one that is refused at the querier leaves its responder running
  (`mdns.c` 559-567).
- A client that was told success by halt may still find the lock held.
- A packet in the last slot of the transmit path is registered and given back at
  once (`mli.c` 532-541), so that slot is never free again and the queue is one
  shorter than `SDK_MAX_TX_Q`.
- "In case bad response redo everything" (`userif.c` 856): `RESTART` redoes nothing.
- A connected station ignores `AUTH_RESP` and `SCAN_RESP`, so a console command
  that leads to one of them waits for ever (`HangsConnected` says that this is
  the only case).
- The loss of a link is overwritten by a response in the same wake-up
  (`userif.c` 844-864), and `curr_bss` keeps its index when a scan replaces the
  list (1106-1125).
- `peersta_RemoveSTAEntry` clears a flag that nothing reads, and not for the first
  station (`peersta_api.c` 208-215).

## Fairness

`cache_starved` assumes weak fairness of the loop of `do_querier`, whose select
always has a timeout, and of nothing outside. `resp_pair` assumes
that the clock goes on and that each responder handles its timeouts and packets,
which its loop does in every iteration. `ll_alone` assumes the same of the
link-local threads; that `sys_tcpip_init` does not fail for ever (it returns
`SYS_SUCCESS` in every case, `sys_threadx_treck.c` 342-358); and that a random
choice that is repeated for ever falls on a free address at some time, which
holds with probability one. `sdk_tx` assumes that every task goes on and that the
driver empties its queue, strongly fair because it alternates between that and
the packets it reports; it assumes nothing of the application, of received
packets, or of the tick, which would hide a lost wake-up. `station` assumes that
the firmware answers what it takes, that timers fire and that `UserIF_Main` runs;
nothing of the user and of the link. `control` has no liveness property:
`HaltStops` is about the states in which nobody has anything left to do.

## Proofs

The proofs hold for every value of the constants that the named assumption of the
module allows. TLC evaluates the assumptions in the runs.

| module | theorems about properties of the runs |
|---|---|
| `ServiceCacheProofs` | `TypeOK`, `NoDuplicates`, `ReportedAreCached`, `CleanIsReported`, `CompleteIsDiscovered`, `OnlyMonitored`, `XrefConsistent`, `AddressIsHosts`, `NoFault`, `ImplementsBrowseApi` |
| `RefreshTimerProofs` | `NoOversleep`, `SrvSchedule`, `SilentGivenUp`, `AddressExpires` |
| `ResponderProofs` | `SomeoneYields`, `OneYields`, `AnswersDelivered`; `UniqueNames` and `ImplementsNameClaims` if hosts read before they claim |
| `ResponderPairProofs` | `UniqueNames`, `ImplementsNameClaims`, for two hosts that nobody disturbs |
| `PeerStaProofs` | `ElementLeft`, `Accounted`, `PendingAdvertised` |
| `StationProofs` | `StackIsStable`, `Probed`, `OneOwner` within the losses it can bear; `WaitIsAnswered`, `ConnectedByResponse` |
| `ControlProofs` | `OneOfEach`, `Admission`, `HaltStops` |

**The cache** (`CacheAssumption`: the pools and the set of hosts are finite, every
name has a type). What the callbacks have told depends on the state of each slot,
on there being one slot per service and on the type's being monitored, so these go
into one invariant, `CacheInv` (in `ServiceCacheSteps`): types, `CallbackInv`
(slots well formed, one per service, monitored, reported exactly when past `init`,
and as reported when `clean`) and the A pool (well formed, one record per host).
The A pool is not assumed to be large enough, so what follows from `CacheInv` holds
also in the states in which lists are broken. That includes the refinement:
`CacheImplementsBrowseApi` shows step by step that the callbacks are those that
`BrowseApi` allows, with `monitored` and `view` mapped to themselves.

The references between the pools are another matter. `LinkInv` adds
`XrefConsistent`, `AddressIsHosts` and `NoFault` to `CacheInv`, and is kept by
every step but one, the step of `update_srv` that finds the A pool full.
`LinksBreakWhenFull` says just that: in a behaviour in which that step is not
taken, all three hold. With as many A slots as hosts it is never enabled
(`XrefHolds`, `AddressHolds`, `NoFaultHolds`), because each record in use has a
host of its own and that of the SRV record has none.

**The timers** (`TimerAssumption`: TTLs, interruptions and word size are positive,
the longest period fits a word twice, and a second has at least 10 units, so that
10% of one is not zero). `TimerInv` says of each record how its age, the number of
queries, `ttl_percent` and the time to the next event belong together: the age is
the sum of the periods that have passed plus what has passed of the present one.
`Percent` may overflow; all that the invariant needs is that the result is then
too small, so the schedule is only ever early. The four properties are read off
the invariant, `SrvSchedule` by counting how many of its three times have come.

**The tie-break.** `SomeoneGivesWay` and `OneGivesWay` are about the operators
alone, for sections of any length with any records: one looks at the first pair of
records that differ, which the two hosts find at the same place, and at what
`rr_cmp` says of it on both sides. TXT data are compared byte by byte without
being ordered, but never so that both sides read "less". `ContestsSettled` and
`OneLoser` apply this to what the run checks (`RdataAssumption`: data are
numbers).

**The responder** (`ResponderAssumption`). `RInv` says that the names of a host are
names of its kinds with a suffix that exists, `Mailed` that all packets under way
come from port 5353, which they do if clients ask from there. With that,
`AnswersDelivered` holds of any number of hosts: the port that a packet brings
along when it flushes the waiting response is the right one. `ClaimsUnlessDouble`
shows that a behaviour in which no two hosts claim one name implements
`NameClaims`: nothing else can go wrong with claims.

A host claims its names at the end of its third wait without looking at what has
arrived. `DoubleClaimsIgnoreResponses` says that this is the only way to a double
claim on a link that loses nothing (`NothingLost`): whoever claims a name of
another has the other's response in its inbox, unread. The invariant is `Defended`:
of an owner and a host in its third wait that share a name, the owner's response has
arrived, or the prober has just sent the probe and it waits to be read, or the
answer is being delayed for less time than the prober still waits. It needs `Clocks`:
`recalc_timeout` never shortens a wait, because what is left of it and the time
since the select began make at most 250 ms. If hosts read first (`ReadsFirst`,
which `do_responder` does not ensure), names are unique (`UniqueIfRead`) and the
responders implement `NameClaims` (`ClaimsIfRead`), for any number of hosts, halts
and queries from port 5353.

**Two responders** (`ResponderPairProofs`: `Hosts` has two members, nothing is lost
and no client asks). `QuietPairUnique` needs no `ReadsFirst`. By the tie-break, of
two probers that share a name one overrules the other. `Contested` says that it will
be heard: its probe is on its way in this tick (`Unread`), or the other has sent one
probe and will not be ready for the second before it (`Leads`), or the other has just
sent the second and it is ready itself (`Due`). So two probers are never both past
their third wait. `Warned` says that a prober whose name has an owner is not at the
end of its third wait, and `Defended` that it reads the owner's response in time. The packets of a
third host restart the waits and take the two out of step; that is what `resp_trio`
shows.

**Link-local** (`LinkLocalAssumption`). The bound on the probes sent needs
`ProbesCounted`: no more have been sent for the candidate than the counter of the
thread says. `SharedOnlyByLosses` keeps an account of losses. A candidate is held
from its last probe on. `Rivals` says that of two hosts that hold one address, one
has sent its last probe and so many announcements to the other, which has lost each
of them or is about to give way; `Refused` says the same of the answer of other
equipment. So two hosts use one address only after more than `AnnounceNum` losses,
an address of other equipment only after one, and `OneOwnerHolds` follows for
`MaxLoss` at most `AnnounceNum`, and zero if there is other equipment. The runs are
within these bounds. The first bound is the best: with `AnnounceNum` = 2 TLC finds
two users of one address after three losses.

**The transmit path** (`TxAssumption`, `PeerAssumption`: buffers belong to one peer
at most, the application and the receive task are among the threads). `TxInv`
says that every packet is in one place: there are functions `at` (the place) and
`by` (the thread that has it) such that queues, program counters and sets agree
with them (`Located`), every packet that is moving has one slot below the last and
no slot is without its packet (`Slotted`), and the free queue lacks one element
for each packet in a place that holds one (`Counted`). The two functions are bound
by a quantifier, so the model needs no history variable; each step gives the new
ones. `ElementLeft` follows by counting: packets inject into slots, the last
slot is of no use, so somebody who still needs an element leaves one over.

**The beacon.** What is listed depends on where the threads are in
`update_peersta_IE`: `PInv` says that a station with data that the array still
lacks is one that the running thread (the receive task, or else the application)
has yet to visit, and that the array is complete when it is published.

**Station management** (`LinesAssumption`). `IInv` adds to the types that the old
event on which the state machine may be run again is `Spent`: none that would
connect a station that is not.

**Control** (`ControlAssumption`: `None` is none of the values, commands are those
of `main`). `LInv` says that a daemon that runs or is halting holds the lock of its
pid file, so no two daemons have the same one (`OnePerPidFile`, for any launches).
The other three theorems are for launches that all have a host name or all have
none; the models show why that is needed (see above). `HaltAlwaysStops` needs four
more invariants. `SInv` says who has which socket open at which point of a launch.
`RInv` says that, as long as launches do not overlap, the socket of a living
daemon is the foremost of its port: those bound later are closed, or belong to a
launch that is about to find the lock taken. `QInv` says that a client has at most
one datagram in the queues and only until it was dealt with. `HInv` says that
after a halt in a settled system every daemon that runs has a halt in its queue.
`AdmissionAlways` adds `AInv`: while nothing is undone, the monitors are exactly
the requests that were granted, whatever their clients have heard.

Only model-checked, and why:

- `SilentDisappear`, `EventuallyClaims`, `AloneClaims`, `AloneConfigured`,
  `Dispatched` and `HangsConnected` are liveness under fairness,
  which is out of the prover's reach.
- `UniqueNames` and `ImplementsNameClaims` with a disturbance: with three hosts, or
  with two disturbances, the code violates them (`resp_trio`). With one disturbance
  they hold on the instance of `resp_pair`; the theorems are for none, or for hosts
  that read first.

## Not modelled

- Packet bytes: the parser and builder of `mdns/mdns.c`, compression of names and
  comparison with pointers in `dname.c`, packet sizes, known answers, packets that
  do not parse (the responder drops them). These are sequential functions on
  buffers with tests of their own; in the models names and records are values.
- Records of different services in one `RefreshTimer`, and a failed receive there
  (it is in `ServiceCache`).
- `mli_ResetTxData`, the registration of handlers, commands and ticks, and the
  receive side of `mli.c`: they are called once, at start, or by the closed driver,
  whose order of calls the sources do not tell.
- The layout of the packets that `eping.c` and `userif.c` build, the reading and
  parsing of console lines, and the console commands that only call another
  component.
- The older responder of the SDK, the ring buffer of its log, the web server, and
  debug output.

Three quarters of the lines of the repository are headers, most of them of the
vendor's driver, TCP/IP stack and RTOS, whose code is not there; much of the rest
is packet layout, tests and text. The models cover the code that keeps state
between events.

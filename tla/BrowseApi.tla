------------------------------- MODULE BrowseApi -------------------------------
(*****************************************************************************)
(* What include/mdns.h promises an application that browses for services:    *)
(* which callbacks it may get, in which order and for which service types.   *)
(* view[v] is what the application knows of service v = <<type, name>> from  *)
(* its callbacks, None while v is unknown to it.                             *)
(*****************************************************************************)
EXTENDS Naturals, FiniteSets

CONSTANTS Types, Names,
          Ips, Ports, Txts,  \* what a callback can report of a service
          CacheSize,         \* MDNS_SERVICE_CACHE_SIZE
          MaxMonitors,       \* MDNS_MAX_SERVICE_MONITORS
          None

VARIABLES monitored, view

Services == Types \X Names

\* A callback reports a usable service: it has an address and a port, while
\* key/value pairs are optional.
Complete == [ip : Ips, port : Ports, txt : Txts \cup {None}]

Known(w) == {v \in Services : w[v] # None}

Init == monitored = {} /\ view = [v \in Services |-> None]

\* mdns_query_monitor returns MDNS_SUCCESS.
Monitor(t) ==
    /\ Cardinality(monitored) < MaxMonitors
    /\ monitored' = monitored \cup {t}
    /\ view' = view

\* mdns_query_unmonitor, for a type or for all types.
Unmonitor(T) ==
    /\ monitored' = monitored \ T
    /\ view' = [v \in Services |-> IF v[1] \in T THEN None ELSE view[v]]

\* MDNS_DISCOVERED for the services of V that were not known, MDNS_UPDATED for
\* the others.  Only CacheSize services are ever known at a time.
Reported(V) ==
    /\ \A v \in V : v[1] \in monitored /\ view'[v] \in Complete
    /\ view' = [v \in Services |-> IF v \in V THEN view'[v] ELSE view[v]]
    /\ Cardinality(Known(view')) <= CacheSize
    /\ monitored' = monitored

\* MDNS_DISAPPEARED for services that were known.
Disappeared(V) ==
    /\ \A v \in V : v[1] \in monitored /\ view[v] # None
    /\ view' = [v \in Services |-> IF v \in V THEN None ELSE view[v]]
    /\ monitored' = monitored

\* mdns_halt and mdns_launch: "any services being monitored will be
\* unmonitored".
Relaunch == monitored' = {} /\ view' = [v \in Services |-> None]

Next ==
    \/ \E t \in Types : Monitor(t) \/ Unmonitor({t})
    \/ Unmonitor(Types)
    \/ \E V \in SUBSET Services : Reported(V) \/ Disappeared(V)
    \/ Relaunch

Spec == Init /\ [][Next]_<<monitored, view>>
=============================================================================

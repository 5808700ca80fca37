------------------------------- MODULE HostSme -------------------------------
(* Wireless connection management of the SDK: the console's commands           *)
(* (cmd_parser.c), the task UserIF_Main that handles the firmware's answers    *)
(* (userif.c) and the state machine it drives (hostsme_sm.c).                  *)
(*                                                                             *)
(* There is one buffer for commands to the firmware, one for its responses, a  *)
(* set of event flags, and one variable for the event the state machine will   *)
(* see.  The console waits while cmd_in_progress is set; UserIF_Main, which    *)
(* preempts it, also sends commands.                                           *)
EXTENDS Naturals, FiniteSets

CONSTANT MaxLines   \* how many lines the user types
ASSUME LinesAssumption == MaxLines \in Nat

VARIABLES g,      \* the globals of userif.c and hostsme_sm.c
          con,    \* where the console thread is
          fw,     \* the command the firmware works on
          res,    \* the response in cmd_res_buffer, while NO_HOST_EVENT is set
          ev,     \* the flags of sysinfo_NO_HOST_EVENT
          radio,  \* the radio has a link (state of the firmware)
          lines   \* how many lines the user still types

smeVars == <<g, con, fw, res, ev, radio, lines>>

\* Two networks are enough to tell apart what the code tells apart: one with an
\* access point and one ad hoc; each kind is also the network's name and address.
\* "null" is the entry BSS_List[0], which no scan ever fills.
Kinds == {"infra", "adhoc"}
FwCommands == {"scan", "auth", "assoc", "join", "start", "deauth", "stop", "mcast", "mac"}
SmeEvents == {"FW_READY", "RESTART", "SCAN_RESP", "AUTH_RESP", "ASSOC_RESP",
              "ASSOC_RESP_FAILED", "DEAUTH_RESP", "LINK_LOST", "ADHOC_JOIN_RESP",
              "GET_MACADDR_RESP", "REASSOC_TIMEOUT"}

\* cmd_buffer holds a command from the trigger until the firmware takes it.
\* BSS_ANY is told apart from BSS_INFRASTRUCTURE by the firmware only.
Globals == [cmd_in_progress : BOOLEAN, link_present : BOOLEAN, send_auth : 0 .. 2,
            hostsme_state : {"DISASSOC", "CONNECTED"}, HostSmeMsg_evt : SmeEvents,
            bss_type : Kinds, currbss_type : Kinds,
            specificSSID : Kinds, BSS_List : SUBSET Kinds, curr_bss : Kinds \cup {"null"},
            cmd_buffer : FwCommands \cup {"none"}, timer : BOOLEAN]

\* What the firmware may answer: an association may be refused, a scan may find
\* networks, and any command may fail.
Responses ==
    {r \in [msg : FwCommands, ok : BOOLEAN, refused : BOOLEAN, found : SUBSET Kinds] :
        /\ r.refused => r.ok /\ r.msg = "assoc"
        /\ r.found # {} => r.ok /\ r.msg = "scan"}

NoResponse == [msg |-> "none", ok |-> FALSE, refused |-> FALSE, found |-> {}]

\* userif_init; the firmware is about to report that it is ready.
SmeInit ==
    /\ g = [cmd_in_progress |-> FALSE, link_present |-> FALSE, send_auth |-> 0,
            hostsme_state |-> "DISASSOC", HostSmeMsg_evt |-> "FW_READY",
            bss_type |-> "infra", currbss_type |-> "infra", specificSSID |-> "infra",
            BSS_List |-> {}, curr_bss |-> "null", cmd_buffer |-> "none", timer |-> FALSE]
    /\ con = "wait"
    /\ fw = "idle"
    /\ res = NoResponse
    /\ ev = {"FW_READY_EVENT"}
    /\ radio = FALSE
    /\ lines = MaxLines

-----------------------------------------------------------------------------
(* Preparing a command: the buffer is written and the firmware is triggered. *)

Prepare(s, c) == [s EXCEPT !.cmd_in_progress = TRUE, !.cmd_buffer = c]

prepare_scan_cmd(s, ssid_scan) == [Prepare(s, "scan") EXCEPT !.send_auth = ssid_scan]
prepare_auth_cmd(s) == [Prepare(s, "auth") EXCEPT !.send_auth = 1]
prepare_mcast_cmd(s) == Prepare(s, "mcast")
prepare_deauth_cmd(s) == Prepare(s, "deauth")
prepare_adhoc_stop_cmd(s) == Prepare(s, "stop")
prepare_assoc_cmd(s) == Prepare(s, "assoc")
prepare_adhoc_join_cmd(s) == Prepare(s, "join")
prepare_adhoc_start_cmd(s) == [Prepare(s, "start") EXCEPT !.currbss_type = "adhoc"]
prepare_macaddr_get_cmd(s) == [Prepare(s, "mac") EXCEPT !.HostSmeMsg_evt = "GET_MACADDR_RESP"]

\* FindSSIDinList, when the wanted name is listed; FindBSSIDinList, for the address k.
FindSSIDinList(s) == [s EXCEPT !.curr_bss = s.specificSSID, !.currbss_type = s.specificSSID]
FindBSSIDinList(s, k) == [s EXCEPT !.curr_bss = k]

\* parse_scan_result: the list is overwritten in place.  curr_bss is an index and
\* is not touched, so it now names a new entry, or an old one past the new end.
parse_scan_result(s, found) ==
    {[s EXCEPT !.BSS_List = found, !.curr_bss = k] :
     k \in IF s.curr_bss = "null" THEN {"null"} ELSE found \cup {s.curr_bss}}

-----------------------------------------------------------------------------
(* HostSmeState_Handler *)

JoinOr(s, t) == IF s.curr_bss = "adhoc" THEN prepare_adhoc_join_cmd(s) ELSE t

\* Mutant: giving up leaves the console waiting.
ScanAnswered_NoPrompt(s) ==
    LET f == FindSSIDinList(s)
    IN IF s.specificSSID \in s.BSS_List THEN JoinOr(f, prepare_auth_cmd(f))
       ELSE IF s.bss_type = "adhoc" THEN prepare_adhoc_start_cmd(s)
       ELSE s

\* The network was found: join it, or authenticate; else start it or give up.
ScanAnswered(s) ==
    LET f == FindSSIDinList(s)
    IN IF s.specificSSID \in s.BSS_List THEN JoinOr(f, prepare_auth_cmd(f))
       ELSE IF s.bss_type = "adhoc" THEN prepare_adhoc_start_cmd(s)
       ELSE [s EXCEPT !.cmd_in_progress = FALSE]

Disassociated(s) ==
    LET e == s.HostSmeMsg_evt
    IN CASE e = "SCAN_RESP" /\ s.send_auth # 0 -> ScanAnswered(s)
         [] e \in {"AUTH_RESP", "REASSOC_TIMEOUT"} -> JoinOr(s, prepare_assoc_cmd(s))
         [] e \in {"ADHOC_JOIN_RESP", "ASSOC_RESP"} -> [s EXCEPT !.hostsme_state = "CONNECTED"]
         [] e = "ASSOC_RESP_FAILED" -> [s EXCEPT !.timer = TRUE]
         [] OTHER -> s

Connected(s) ==
    LET e == s.HostSmeMsg_evt
    IN CASE e = "LINK_LOST" -> [s EXCEPT !.timer = TRUE, !.hostsme_state = "DISASSOC"]
         [] e \in {"RESTART", "DEAUTH_RESP"} -> [s EXCEPT !.hostsme_state = "DISASSOC"]
         [] OTHER -> s

HostSmeState_Handler(s) ==
    IF s.hostsme_state = "DISASSOC" THEN Disassociated(s) ELSE Connected(s)

-----------------------------------------------------------------------------
(* UserIF_Main *)

\* The globals that a good response may leave behind.
ScanResponse(s, r) ==
    {[t EXCEPT !.HostSmeMsg_evt = "SCAN_RESP", !.cmd_in_progress = @ /\ s.send_auth # 0] :
     t \in IF r.found # {} THEN parse_scan_result(s, r.found)
           ELSE {[s EXCEPT !.curr_bss = "null"]}}

LinkUp(s, e) ==
    [s EXCEPT !.HostSmeMsg_evt = e, !.link_present = TRUE, !.cmd_in_progress = FALSE]

\* Mutant: the status of the association is not looked at.
process_cbproc_response_AnyStatus(s, r) ==
    CASE r.msg = "scan" -> ScanResponse(s, r)
      [] r.msg = "assoc" -> {LinkUp(s, "ASSOC_RESP")}
      [] r.msg \in {"start", "join"} -> {LinkUp(s, "ADHOC_JOIN_RESP")}
      [] r.msg \in {"deauth", "stop"} ->
           {[prepare_scan_cmd(s, 1) EXCEPT !.HostSmeMsg_evt = "DEAUTH_RESP"]}
      [] r.msg = "auth" -> {[s EXCEPT !.HostSmeMsg_evt = "AUTH_RESP"]}
      [] OTHER -> {[s EXCEPT !.cmd_in_progress = FALSE]}

process_cbproc_response(s, r) ==
    CASE r.msg = "scan" -> ScanResponse(s, r)
      [] r.msg = "assoc" /\ r.refused ->
           {[s EXCEPT !.HostSmeMsg_evt = "ASSOC_RESP_FAILED", !.cmd_in_progress = FALSE]}
      [] r.msg = "assoc" /\ ~r.refused -> {LinkUp(s, "ASSOC_RESP")}
      [] r.msg \in {"start", "join"} -> {LinkUp(s, "ADHOC_JOIN_RESP")}
      [] r.msg \in {"deauth", "stop"} ->
           {[prepare_scan_cmd(s, 1) EXCEPT !.HostSmeMsg_evt = "DEAUTH_RESP"]}
      [] r.msg = "auth" -> {[s EXCEPT !.HostSmeMsg_evt = "AUTH_RESP"]}
      [] OTHER -> {[s EXCEPT !.cmd_in_progress = FALSE]}

\* The flags are looked at in this order, each overwriting the event of the last.
SeeReady(s) ==
    IF "FW_READY_EVENT" \in ev THEN [s EXCEPT !.HostSmeMsg_evt = "FW_READY"] ELSE s

SeeMac(s) ==
    IF "MAC_EVENT" \in ev
    THEN [s EXCEPT !.link_present = FALSE, !.HostSmeMsg_evt = "LINK_LOST"] ELSE s

SeeTimeout(s) ==
    IF "REASSOC_TIMEOUT_EVENT" \in ev
    THEN [s EXCEPT !.HostSmeMsg_evt = "REASSOC_TIMEOUT"] ELSE s

\* Mutant: after a bad response the command is still in progress.
SeeResponse_BadKept(s) ==
    IF res = NoResponse THEN {s}
    ELSE IF res.ok THEN process_cbproc_response(s, res)
    ELSE {[s EXCEPT !.HostSmeMsg_evt = "RESTART"]}

SeeResponse(s) ==
    IF res = NoResponse THEN {s}
    ELSE IF res.ok THEN process_cbproc_response(s, res)
    ELSE {[s EXCEPT !.cmd_in_progress = FALSE, !.HostSmeMsg_evt = "RESTART"]}

UserIF_Main ==
    /\ ev # {} \/ res # NoResponse
    /\ ev' = {}
    /\ res' = NoResponse
    /\ \E s \in SeeResponse(SeeTimeout(SeeMac(SeeReady(g)))) : g' = HostSmeState_Handler(s)
    /\ UNCHANGED <<con, fw, radio, lines>>

\* userif_ReAssocActTimeOut, when the reassociation timer fires.
ReAssocActTimeOut ==
    /\ g.timer
    /\ g' = [g EXCEPT !.timer = FALSE]
    /\ ev' = ev \cup {"REASSOC_TIMEOUT_EVENT"}
    /\ UNCHANGED <<con, fw, res, radio, lines>>

-----------------------------------------------------------------------------
(* The console, cmd_parser.  cmd_in_progress is tested before a line is read;  *)
(* UserIF_Main runs while the console waits for the user.                      *)

Prompt ==
    /\ con = "wait"
    /\ ~g.cmd_in_progress
    /\ lines > 0
    /\ lines' = lines - 1
    /\ con' = "line"
    /\ UNCHANGED <<g, fw, res, ev, radio>>

\* A command that ends with the assignment of s to the globals.
Command(s) ==
    /\ con = "line"
    /\ con' = "wait"
    /\ g' = s
    /\ UNCHANGED <<fw, res, ev, radio, lines>>

Iwlist == Command(prepare_scan_cmd(g, 0))

\* "iwconfig essid": the command is prepared first, link_present cleared after.
IwconfigEssid ==
    /\ con = "line"
    /\ con' = "essid"
    /\ \E n \in Kinds :
         LET s == [g EXCEPT !.specificSSID = n]
         IN g' = IF ~s.link_present THEN prepare_scan_cmd(s, 1)
                 ELSE IF s.currbss_type # "adhoc" THEN prepare_deauth_cmd(s)
                 ELSE prepare_adhoc_stop_cmd(s)
    /\ UNCHANGED <<fw, res, ev, radio, lines>>

IwconfigEssidDone ==
    /\ con = "essid"
    /\ con' = "wait"
    /\ g' = [g EXCEPT !.link_present = FALSE]
    /\ UNCHANGED <<fw, res, ev, radio, lines>>

IwconfigMode == \E t \in Kinds : Command([g EXCEPT !.bss_type = t])

\* "iwconfig ap": authenticate with a listed address, else leave or look for it.
IwconfigAp ==
    \E k \in Kinds :
      Command(IF k \in g.BSS_List THEN prepare_auth_cmd(FindBSSIDinList(g, k))
              ELSE IF g.link_present THEN prepare_deauth_cmd([g EXCEPT !.link_present = FALSE])
              ELSE prepare_scan_cmd(g, 2))

Ping == Command(prepare_macaddr_get_cmd(g))
Mcast == Command(prepare_mcast_cmd(g))

-----------------------------------------------------------------------------
(* The firmware, as userif.c uses it: it takes the command from the buffer     *)
(* when it is triggered, answers in the response buffer and raises             *)
(* NO_HOST_EVENT; MAC_EVENT reports the loss of a link.                        *)

FwTake ==
    /\ g.cmd_buffer # "none"
    /\ fw = "idle"
    /\ fw' = g.cmd_buffer
    /\ g' = [g EXCEPT !.cmd_buffer = "none"]
    /\ UNCHANGED <<con, res, ev, radio, lines>>

FwRespond ==
    /\ fw # "idle"
    /\ res' \in {r \in Responses : r.msg = fw}
    /\ radio' = (IF ~res'.ok \/ res'.refused THEN radio
                 ELSE IF fw \in {"assoc", "join", "start"} THEN TRUE
                 ELSE IF fw \in {"deauth", "stop"} THEN FALSE
                 ELSE radio)
    /\ fw' = "idle"
    /\ UNCHANGED <<g, con, ev, lines>>

FwLinkLost ==
    /\ radio
    /\ radio' = FALSE
    /\ ev' = ev \cup {"MAC_EVENT"}
    /\ UNCHANGED <<g, con, fw, res, lines>>

-----------------------------------------------------------------------------
Console ==
    Prompt \/ Iwlist \/ IwconfigEssid \/ IwconfigEssidDone \/ IwconfigMode
    \/ IwconfigAp \/ Ping \/ Mcast

SmeNext == Console \/ UserIF_Main \/ ReAssocActTimeOut \/ FwTake \/ FwRespond \/ FwLinkLost

SmeSpec == SmeInit /\ [][SmeNext]_smeVars

\* The firmware answers what it is sent, timers fire, and no ready thread is
\* starved; the user need not type and links need not be lost.
SmeFairSpec ==
    /\ SmeSpec
    /\ WF_smeVars(UserIF_Main) /\ WF_smeVars(ReAssocActTimeOut) /\ WF_smeVars(IwconfigEssidDone)
    /\ WF_smeVars(FwTake) /\ WF_smeVars(FwRespond)

-----------------------------------------------------------------------------
(* Properties. *)

\* The globals keep their types: no event, command or response is mistaken for
\* another kind, and cmd_buffer and curr_bss stay in range (userif.c, hostsme_sm.c).
SmeTypeOK ==
    /\ g \in Globals
    /\ con \in {"wait", "line", "essid"}
    /\ fw \in FwCommands \cup {"idle"}
    /\ res \in Responses \cup {NoResponse}
    /\ ev \subseteq {"FW_READY_EVENT", "MAC_EVENT", "REASSOC_TIMEOUT_EVENT"}
    /\ radio \in BOOLEAN
    /\ lines \in 0 .. MaxLines

\* While the station is not associated, the console (cmd_parser, "while
\* (cmd_in_progress)") never waits for an answer nobody owes it: a command is in
\* the buffer or with the firmware, a response is waiting, or the reassociation
\* timer will send a command whose answer clears the flag.
WaitIsAnswered ==
    g.cmd_in_progress /\ g.hostsme_state = "DISASSOC" =>
        \/ g.cmd_buffer # "none" \/ fw # "idle" \/ res # NoResponse
        \/ g.timer \/ "REASSOC_TIMEOUT_EVENT" \in ev

\* UserIF_Main holds a response that reports a new link.
Fresh == res.ok /\ ~res.refused /\ res.msg \in {"assoc", "join", "start"}

\* HostSmeMsg_evt keeps its last value, and the state machine is run on it again
\* after a response that sets no event.  Still, only a response that reports a
\* link, handled in this very wakeup of UserIF_Main, takes it to CONNECTED.
ConnectedByResponse ==
    [][g'.hostsme_state # g.hostsme_state /\ g'.hostsme_state = "CONNECTED" => Fresh]_smeVars

\* The console gets its prompt back after every command, whatever the user types,
\* however links fail and responses overwrite each other, with one exception: a
\* station that stays CONNECTED (which ignores AUTH_RESP and SCAN_RESP).
HangsConnected ==
    <>[]g.cmd_in_progress => <>[](g.hostsme_state = "CONNECTED")
=============================================================================

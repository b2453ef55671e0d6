------------------------------- MODULE MCChecks -------------------------------
(* One run for the programs that Zabbix and the check-in loop start, one of   *)
(* them at a time: small instances of the checks and of two jobs.             *)
EXTENDS HttpCheck, TcpCheck, SpeedTest, Xcpng, NetScan, Diag

CONSTANTS c1

(* Every setting but the looks for a text *)
TheLists == {l \in [Urls -> Entries] : \A u \in Urls : l[u].text = "text"}

(* A device that moved, another controller's devices at the old address, clients
   with and without a name *)
TheInventories ==
    {[devices |-> <<[ip |-> 1, mac |-> "m1"]>>, clients |-> <<[ip |-> None, mac |-> "m2", named |-> FALSE]>>],
     [devices |-> <<[ip |-> 1, mac |-> "m2"], [ip |-> 2, mac |-> None]>>,
      clients |-> <<[ip |-> 2, mac |-> "m1", named |-> TRUE]>>]}
BothTypes == <<"A", "AAAA">>

VARIABLE which      \* the program that runs

Programs == {"http", "tcp", "speed", "xcpng", "netscan", "diag"}

\* each program's first state while another one runs
HttpRests == HttpInit /\ hostmode = "verify" /\ server = [u \in Urls |-> None]
             /\ entry = [u \in Urls |-> [tls |-> FALSE, ip |-> FALSE, mode |-> "host", text |-> "text"]]
TcpRests == TcpInit /\ left = [p \in Ports |-> 0] /\ comes = [p \in Ports |-> "up"]
XcpStarts == XcpInit /\ presents = [n \in Names |-> c1]
DiagRests == DiagInit /\ tool = "ping"

Init ==
    /\ which \in Programs
    /\ IF which = "http" THEN HttpInit ELSE HttpRests
    /\ IF which = "tcp" THEN TcpInit ELSE TcpRests
    /\ IF which = "diag" THEN DiagInit ELSE DiagRests
    /\ SpeedInit /\ XcpStarts /\ NetInit

Next ==
    /\ UNCHANGED which
    /\ \/ which = "http" /\ HttpNext /\ UNCHANGED <<tcpVars, speedVars, xcpVars, netVars, diagVars>>
       \/ which = "tcp" /\ TcpNext /\ UNCHANGED <<httpVars, speedVars, xcpVars, netVars, diagVars>>
       \/ which = "speed" /\ SpeedNext /\ UNCHANGED <<httpVars, tcpVars, xcpVars, netVars, diagVars>>
       \/ which = "xcpng" /\ XcpNext /\ UNCHANGED <<httpVars, tcpVars, speedVars, netVars, diagVars>>
       \/ which = "netscan" /\ NetNext /\ UNCHANGED <<httpVars, tcpVars, speedVars, xcpVars, diagVars>>
       \/ which = "diag" /\ DiagNext /\ UNCHANGED <<httpVars, tcpVars, speedVars, xcpVars, netVars>>

Spec == Init /\ [][Next]_<<which, httpVars, tcpVars, speedVars, xcpVars, netVars, diagVars>>

-----------------------------------------------------------------------------
(* The types of all of them. *)
TypeOK ==
    /\ which \in Programs
    /\ HttpTypeOK /\ TcpTypeOK /\ SpeedTypeOK /\ XcpTypeOK /\ NetTypeOK /\ DiagTypeOK
===============================================================================

------------------------------- MODULE TcpCheck -------------------------------
(***************************************************************************)
(* The TCP port check (probe-image/externalscripts/argus_tcp.py): a thread *)
(* per port connects once, all at the same time; main joins them one after *)
(* the other, each for the timeout and two seconds, and prints a reading   *)
(* per port.                                                               *)
(***************************************************************************)
EXTENDS Naturals, Connect, Nothing

CONSTANTS
    PORTS,          \* how many the list has, without duplicates
    TCP_TIMEOUT,    \* ticks a connection to one address may take
    MAX_ADDRESSES   \* of a host, tried one after the other

ASSUME TcpAssumption ==
    PORTS \in Nat /\ TCP_TIMEOUT \in Nat /\ MAX_ADDRESSES \in Nat /\ None # "unfinished"

Ports == 1 .. PORTS
GRACE == 2

VARIABLES
    left,       \* per port: the ticks its thread still takes
    comes,      \* per port: what its connection comes to
    joining,    \* main: the thread it joins; 0 before that, PORTS + 2 at its end
    waited,     \* main: ticks it has waited for this one
    elapsed,    \* ticks since the threads were started
    readings    \* per port: what main prints

tcpVars == <<left, comes, joining, waited, elapsed, readings>>

TcpOutcomes == {"up"} \cup {why(e) : e \in Failures}

TcpTypeOK ==
    /\ left \in [Ports -> 0 .. TCP_TIMEOUT * MAX_ADDRESSES]
    /\ comes \in [Ports -> TcpOutcomes]
    /\ joining \in 0 .. PORTS + 2
    /\ waited \in 0 .. TCP_TIMEOUT + GRACE
    /\ elapsed \in Nat
    /\ readings \in [Ports -> TcpOutcomes \cup {"unfinished", None}]

TcpInit ==
    /\ left \in [Ports -> 0 .. TCP_TIMEOUT * MAX_ADDRESSES]
    /\ comes \in [Ports -> TcpOutcomes]
    /\ joining = 0 /\ waited = 0 /\ elapsed = 0
    /\ readings = [p \in Ports |-> None]

(* parse_ports: a list that isn't valid is the one error *)
StartThreads ==
    /\ joining = 0
    /\ joining' \in {1, PORTS + 2}
    /\ UNCHANGED <<left, comes, waited, elapsed, readings>>

JoinOver == left[joining] = 0 \/ waited = TCP_TIMEOUT + GRACE

Join ==
    /\ joining \in Ports /\ JoinOver
    /\ joining' = joining + 1 /\ waited' = 0
    /\ UNCHANGED <<left, comes, elapsed, readings>>

\* a thread is started when the one before it has been joined
ThreadsRun_InTurn ==
    [p \in Ports |-> IF left[p] > 0 /\ p <= joining THEN left[p] - 1 ELSE left[p]]

ThreadsRun ==
    [p \in Ports |-> IF left[p] > 0 THEN left[p] - 1 ELSE 0]

TcpTick ==
    /\ joining \in Ports /\ ~JoinOver
    /\ left' = ThreadsRun
    /\ waited' = waited + 1 /\ elapsed' = elapsed + 1
    /\ UNCHANGED <<comes, joining, readings>>

PrintReadings ==
    /\ joining = PORTS + 1
    /\ joining' = PORTS + 2
    /\ readings' = [p \in Ports |-> IF left[p] = 0 THEN comes[p] ELSE "unfinished"]
    /\ UNCHANGED <<left, comes, waited, elapsed>>

TcpNext == StartThreads \/ Join \/ TcpTick \/ PrintReadings

-----------------------------------------------------------------------------
(* Properties *)

(* The joins don't add up: the check takes no longer than its slowest port,
   and a port is called unfinished only when it took longer than the timeout
   and two seconds, never for the ports before it in the list (run).  How long
   its own lookup of a name takes nothing bounds. *)
TcpInTime ==
    /\ elapsed <= TCP_TIMEOUT * MAX_ADDRESSES
    /\ \A p \in Ports : readings[p] = "unfinished" => elapsed >= TCP_TIMEOUT + GRACE

-----------------------------------------------------------------------------
(* Why the joins don't add up *)

TcpSpec == TcpInit /\ [][TcpNext]_tcpVars

(* The threads run at the same time: a tick main waits is one less for each of
   them that goes on. *)
TcpInv ==
    /\ TcpTypeOK
    /\ waited <= elapsed
    /\ \A p \in Ports : left[p] > 0 => elapsed + left[p] <= TCP_TIMEOUT * MAX_ADDRESSES
    /\ elapsed <= TCP_TIMEOUT * MAX_ADDRESSES
    /\ \A p \in Ports : /\ joining <= PORTS + 1 /\ p < joining /\ left[p] > 0 => elapsed >= TCP_TIMEOUT + GRACE
                        /\ readings[p] = "unfinished" => elapsed >= TCP_TIMEOUT + GRACE
=============================================================================

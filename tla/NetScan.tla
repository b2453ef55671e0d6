------------------------------- MODULE NetScan --------------------------------
(***************************************************************************)
(* The network scan (probe-image/externalscripts/argus_netscan.py --job):  *)
(* workers take the subnet's addresses in their order until a deadline,    *)
(* the saved UniFi controllers are asked about the hosts found, and the    *)
(* rows are posted to Argus with up to three tries.                        *)
(*                                                                         *)
(* The looks at one host (ping, ports, SNMP, DNS, banners) are one step of *)
(* up to HOST ticks, whose findings are no more than "found"; a            *)
(* controller's requests are one of up to CONTROLLER ticks.                *)
(***************************************************************************)
EXTENDS Sequences, CorePost, Nothing

CONSTANTS
    TARGETS, WORKERS,   \* how many
    CONTROLLERS,        \* the job has, asked in their order
    Addresses, MACs,
    Inventories,        \* what a controller may list: devices, clients
    HOST, CONTROLLER, POST,     \* ticks each of them takes at most
    SCAN_DEADLINE, ENRICH_BUDGET, WAIT

TRIES == 3
Targets == 1 .. TARGETS
Workers == 1 .. WORKERS

(* clients: named says whether the controller has a name for it *)
Devices == [ip : Addresses, mac : MACs \cup {None}]
Clients == [ip : Addresses \cup {None}, mac : MACs \cup {None}, named : BOOLEAN]

ASSUME NetScanAssumption ==
    /\ {TARGETS, WORKERS, CONTROLLERS, HOST, CONTROLLER, POST} \subseteq Nat
    /\ {SCAN_DEADLINE, ENRICH_BUDGET, WAIT} \subseteq Nat
    /\ Targets \subseteq Addresses /\ None \notin MACs /\ None \notin Devices \cup Clients
    /\ Inventories \subseteq [devices : Seq(Devices), clients : Seq(Clients)]

VARIABLES
    scan,       \* where the job is, since when, and the number of the controller or the try
    time,       \* ticks since the sweep began
    next,       \* the target the next free worker takes
    worker,     \* per worker: the target it looks at, since when
    found,      \* per target: "todo" | "skipped" | "silent" | "found"
    macs,       \* the ARP cache after the sweep, per target
    listed,     \* what the controllers that answered list, in their order
    rows,       \* per found target: its device, its client, its MAC
    verdict,    \* the error of the body: "none" | "partial" | "why"
    heard       \* how often Argus has taken the results

netVars == <<scan, time, next, worker, found, macs, listed, rows, verdict, heard>>

NoLists == [devices |-> <<>>, clients |-> <<>>]
NoRow == [device |-> None, client |-> None, mac |-> None]
Resting == [target |-> 0, since |-> 0]

NetTypeOK ==
    /\ scan \in [at : {"sweep", "controllers", "asking", "posting", "waiting", "end"},
                 since : Nat, k : Nat, began : Nat]
    /\ time \in Nat
    /\ next \in 1 .. TARGETS + 1
    /\ worker \in [Workers -> [target : Targets \cup {0}, since : Nat]]
    /\ found \in [Targets -> {"todo", "skipped", "silent", "found"}]
    /\ macs \in [Targets -> MACs \cup {None}]
    /\ listed \in [devices : Seq(Devices), clients : Seq(Clients)]
    /\ rows \in [Targets -> [device : Devices \cup {None}, client : Clients \cup {None}, mac : MACs \cup {None}]]
    /\ verdict \in {"none", "partial", "why"}
    /\ heard \in Nat

NetInit ==
    /\ scan = [at |-> "sweep", since |-> 0, k |-> 0, began |-> 0]
    /\ time = 0 /\ next = 1
    /\ worker = [w \in Workers |-> Resting]
    /\ found = [t \in Targets |-> "todo"]
    /\ macs = [t \in Targets |-> None]
    /\ listed = NoLists
    /\ rows = [t \in Targets |-> NoRow]
    /\ verdict = "none" /\ heard = 0

-----------------------------------------------------------------------------
(* The sweep: scan, scan_host *)

past_deadline == time > SCAN_DEADLINE

Free(w) == scan.at = "sweep" /\ worker[w].target = 0

TakeTarget(w) ==
    /\ Free(w) /\ next <= TARGETS
    /\ next' = next + 1
    /\ IF past_deadline
       THEN found' = [found EXCEPT ![next] = "skipped"] /\ UNCHANGED worker
       ELSE worker' = [worker EXCEPT ![w] = [target |-> next, since |-> time]] /\ UNCHANGED found
    /\ UNCHANGED <<scan, time, macs, listed, rows, verdict, heard>>

HostScanned(w) ==
    /\ worker[w].target # 0
    /\ \E r \in {"silent", "found"} : found' = [found EXCEPT ![worker[w].target] = r]
    /\ worker' = [worker EXCEPT ![w] = Resting]
    /\ UNCHANGED <<scan, time, next, macs, listed, rows, verdict, heard>>

\* says so when there is nothing else to say
SweepError_NoHosts == IF past_deadline /\ (\A t \in Targets : found[t] # "found") THEN "partial" ELSE "none"

SweepError == IF past_deadline THEN "partial" ELSE "none"

Found == {t \in Targets : found[t] = "found"}

To(at, k) == [at |-> at, since |-> time, k |-> k, began |-> scan.began]

(* No controllers or no hosts: straight to the post. *)
SweepEnds ==
    /\ scan.at = "sweep" /\ next > TARGETS
    /\ \A w \in Workers : worker[w].target = 0
    /\ macs' \in {a \in [Targets -> MACs \cup {None}] : \A t \in Targets \ Found : a[t] = None}
    /\ rows' = [t \in Targets |-> [NoRow EXCEPT !.mac = macs'[t]]]
    /\ verdict' = SweepError
    /\ scan' = IF Found = {} \/ CONTROLLERS = 0 THEN To("posting", 1)
               ELSE [at |-> "controllers", since |-> time, k |-> 1, began |-> time]
    /\ UNCHANGED <<time, next, worker, found, listed, heard>>

(* A CIDR that can't be read, or a bad SNMP version, which leaves the targets
   that no worker has begun: no hosts, and why. *)
ScanRaises ==
    /\ scan.at = "sweep"
    /\ \A w \in Workers : worker[w].target = 0
    /\ found' = [t \in Targets |-> "silent"]
    /\ verdict' = "why"
    /\ scan' = To("posting", 1)
    /\ UNCHANGED <<time, next, worker, macs, listed, rows, heard>>

-----------------------------------------------------------------------------
(* The controllers: controller_inventory, enrich_hosts *)

\* the budget is looked at once, before the first
NextController_OneLook ==
    /\ scan.at = "controllers"
    /\ scan.k <= CONTROLLERS /\ (scan.k > 1 \/ time <= scan.began + ENRICH_BUDGET)
    /\ scan' = To("asking", scan.k)
    /\ UNCHANGED <<time, next, worker, found, macs, listed, rows, verdict, heard>>

NextController ==
    /\ scan.at = "controllers"
    /\ scan.k <= CONTROLLERS /\ time <= scan.began + ENRICH_BUDGET
    /\ scan' = To("asking", scan.k)
    /\ UNCHANGED <<time, next, worker, found, macs, listed, rows, verdict, heard>>

(* All of its sites, or nothing: a refused or late request drops the rest. *)
ControllerDone ==
    /\ scan.at = "asking"
    /\ scan' = To("controllers", scan.k + 1)
    /\ \/ \E i \in Inventories :
            listed' = [devices |-> listed.devices \o i.devices, clients |-> listed.clients \o i.clients]
       \/ UNCHANGED listed
    /\ UNCHANGED <<time, next, worker, found, macs, rows, verdict, heard>>

(* the entries of a list with a MAC or an address, and the first of them in the
   controllers' order: setdefault *)
WithMAC(list, mac) == {i \in DOMAIN list : mac # None /\ list[i].mac = mac}
WithIP(list, ip) == {i \in DOMAIN list : list[i].ip = ip}
First(list, at) == IF at = {} THEN None ELSE list[CHOOSE i \in at : \A j \in at : i <= j]

\* looks at the address first
Hit_Address(list, t) == First(list, IF WithIP(list, t) # {} THEN WithIP(list, t) ELSE WithMAC(list, macs[t]))

(* the MAC first; the address when no entry has the MAC *)
Hit(list, t) == First(list, IF WithMAC(list, macs[t]) # {} THEN WithMAC(list, macs[t]) ELSE WithIP(list, t))

Row(t) ==
    LET device == Hit(listed.devices, t)
        client == Hit(listed.clients, t)
    IN  IF device # None
        THEN [device |-> device, client |-> None, mac |-> IF macs[t] = None THEN device.mac ELSE macs[t]]
        ELSE [device |-> None, client |-> IF client # None /\ client.named THEN client ELSE None, mac |-> macs[t]]

(* The rest of enrich_hosts; or, with a controller without a number, its end
   with the rows as they were. *)
Enriched ==
    /\ scan.at = "controllers"
    /\ scan.k > CONTROLLERS \/ time > scan.began + ENRICH_BUDGET
    /\ rows' = [t \in Targets |-> IF t \in Found THEN Row(t) ELSE NoRow]
    /\ scan' = To("posting", 1)
    /\ UNCHANGED <<time, next, worker, found, macs, listed, verdict, heard>>

EnrichRaises ==
    /\ scan.at = "asking"
    /\ scan' = To("posting", 1)
    /\ UNCHANGED <<time, next, worker, found, macs, listed, rows, verdict, heard>>

-----------------------------------------------------------------------------
(* post_results *)

PostTry ==
    /\ scan.at = "posting"
    /\ \E v4 \in Families, v6 \in Families : \E o \in PostOutcomes(v4, v6) :
         /\ heard' = IF o = "failed" THEN heard ELSE heard + 1
         /\ scan' = To(IF AfterTry(scan.k, TRIES, o) = "again" THEN "waiting" ELSE "end", scan.k)
    /\ UNCHANGED <<time, next, worker, found, macs, listed, rows, verdict>>

PostAgain ==
    /\ scan.at = "waiting" /\ time >= scan.since + WAIT
    /\ scan' = To("posting", scan.k + 1)
    /\ UNCHANGED <<time, next, worker, found, macs, listed, rows, verdict, heard>>

(* Time passes while something runs or waits, and no longer than it may. *)
Waiting ==
    CASE scan.at = "sweep" -> /\ \E w \in Workers : worker[w].target # 0
                              /\ \A w \in Workers : worker[w].target # 0 => time < worker[w].since + HOST
      [] scan.at = "asking" -> time < scan.since + CONTROLLER
      [] scan.at = "posting" -> time < scan.since + POST
      [] scan.at = "waiting" -> time < scan.since + WAIT
      [] OTHER -> FALSE

NetTick ==
    /\ Waiting
    /\ time' = time + 1
    /\ UNCHANGED <<scan, next, worker, found, macs, listed, rows, verdict, heard>>

NetNext ==
    \/ \E w \in Workers : TakeTarget(w) \/ HostScanned(w)
    \/ SweepEnds \/ ScanRaises
    \/ NextController \/ ControllerDone \/ Enriched \/ EnrichRaises
    \/ PostTry \/ PostAgain
    \/ NetTick

NetSpec == NetInit /\ [][NetNext]_netVars

-----------------------------------------------------------------------------
(* Properties *)

(* Hosts the deadline left out are never taken for silent ones: the results
   that leave the probe say they are partial (scan, main). *)
GapsAreSaid ==
    scan.at \in {"posting", "waiting", "end"} /\ (\E t \in Targets : found[t] = "skipped") => verdict # "none"

(* A host whose own MAC a controller lists is never given another device's
   facts, though another device may be listed at the host's address (a list
   holds old addresses; enrich_hosts). *)
OwnFacts ==
    \A t \in Targets :
        LET d == rows[t].device IN
        d # None /\ macs[t] # None /\ d.mac # macs[t] => WithMAC(listed.devices, macs[t]) = {}

(* The job is over in a time that doesn't depend on how many hosts and
   controllers it has, but for the one of each that was begun last: what
   entrypoint.sh's lock of fifteen minutes counts on. *)
LONGEST == SCAN_DEADLINE + HOST + ENRICH_BUDGET + CONTROLLER + TRIES * POST + (TRIES - 1) * WAIT

ScanInTime == time <= LONGEST

-----------------------------------------------------------------------------
(* Why the job ends in time, and why no gap is lost *)

Deadlines ==
    /\ scan \in [at : {"sweep", "controllers", "asking", "posting", "waiting", "end"},
                 since : Nat, k : Nat, began : Nat]
    /\ time \in Nat
    /\ next \in 1 .. TARGETS + 1
    /\ worker \in [Workers -> [target : Targets \cup {0}, since : Nat]]
    /\ found \in [Targets -> {"todo", "skipped", "silent", "found"}]

(* A target is begun before the deadline and takes HOST ticks at most; after
   the sweep no worker has one. *)
Sweeping ==
    /\ \A w \in Workers : worker[w].target # 0 =>
          /\ scan.at = "sweep"
          /\ worker[w].since <= SCAN_DEADLINE /\ time <= worker[w].since + HOST
    /\ scan.at = "sweep" => time <= SCAN_DEADLINE + HOST

(* A controller is begun within the budget. *)
Enriching ==
    /\ scan.at \in {"controllers", "asking"} => scan.began <= SCAN_DEADLINE + HOST
    /\ scan.at = "controllers" => time <= scan.began + ENRICH_BUDGET + CONTROLLER
    /\ scan.at = "asking" => scan.since <= scan.began + ENRICH_BUDGET /\ time <= scan.since + CONTROLLER

(* when the k-th try begins *)
TryBy(k) == SCAN_DEADLINE + HOST + ENRICH_BUDGET + CONTROLLER
            + (IF k = 1 THEN 0 ELSE IF k = 2 THEN POST + WAIT ELSE POST + WAIT + POST + WAIT)

Delivering ==
    /\ scan.at = "posting" => scan.k \in 1 .. TRIES /\ scan.since <= TryBy(scan.k) /\ time <= scan.since + POST
    /\ scan.at = "waiting" => scan.k \in 1 .. TRIES - 1 /\ scan.since <= TryBy(scan.k) + POST
                              /\ time <= scan.since + WAIT
    /\ scan.at = "end" => time <= LONGEST

(* A gap is left after the deadline only, and said at the sweep's end. *)
GapsKnown ==
    \A t \in Targets : found[t] = "skipped" =>
        /\ scan.at = "sweep" => past_deadline
        /\ scan.at # "sweep" => verdict # "none"

NetInv == Deadlines /\ Sweeping /\ Enriching /\ Delivering /\ GapsKnown

(* What the rows are made of *)
RowTypes ==
    /\ macs \in [Targets -> MACs \cup {None}]
    /\ listed \in [devices : Seq(Devices), clients : Seq(Clients)]
    /\ rows \in [Targets -> [device : Devices \cup {None}, client : Clients \cup {None}, mac : MACs \cup {None}]]

(* No row has a device while the lists may still grow. *)
ListsFirst ==
    scan.at \in {"sweep", "controllers", "asking"} => \A t \in Targets : rows[t].device = None

RowInv == RowTypes /\ ListsFirst /\ OwnFacts
===============================================================================

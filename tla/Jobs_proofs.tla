------------------------------ MODULE Jobs_proofs ------------------------------
(***************************************************************************)
(* Theorems about the jobs' programs, for any number of addresses,         *)
(* workers, controllers, pings, hops and types and for any time limits:    *)
(* they end in a time that depends on none of what they find, a network    *)
(* scan never passes a gap off as silence nor gives a host another's       *)
(* facts, and a diagnostic always ends on Argus.                           *)
(***************************************************************************)
EXTENDS NetScan, Diag, WellFoundedInduction, TLAPS

-----------------------------------------------------------------------------
(* NetScan: its time and its gaps *)

\* The limits and counts are natural numbers.
LEMMA Limits ==
  /\ TARGETS \in Nat /\ HOST \in Nat /\ CONTROLLER \in Nat /\ POST \in Nat /\ WAIT \in Nat
  /\ SCAN_DEADLINE \in Nat /\ ENRICH_BUDGET \in Nat
BY NetScanAssumption

\* Nothing is late and no gap is left at the start.
LEMMA InvStarts == NetInit => NetInv
<1> SUFFICES ASSUME NetInit PROVE NetInv
  OBVIOUS
<1> USE Limits
<1>a. /\ scan = [at |-> "sweep", since |-> 0, k |-> 0, began |-> 0]
      /\ time = 0 /\ next = 1
      /\ worker = [w \in Workers |-> [target |-> 0, since |-> 0]]
      /\ found = [t \in Targets |-> "todo"]
  BY DEF NetInit, Resting
<1>1. Deadlines
  BY <1>a DEF Deadlines
<1>2. Sweeping
  BY <1>a DEF Sweeping
<1>3. Enriching /\ Delivering
  BY <1>a DEF Enriching, Delivering
<1>4. GapsKnown
  BY <1>a DEF GapsKnown
<1> QED
  BY <1>1, <1>2, <1>3, <1>4 DEF NetInv

\* A worker that takes a target begins before the deadline, or leaves a gap behind it.
LEMMA TakeTargetKeeps == ASSUME NetInv, NEW w \in Workers, TakeTarget(w) PROVE NetInv'
<1> USE Limits DEF TakeTarget, Free, past_deadline
<1> NetInv
  OBVIOUS
<1> next \in Targets
  BY DEF NetInv, Deadlines, Targets
<1>1. Deadlines'
  BY DEF NetInv, Deadlines
<1>2. Sweeping'
  BY DEF NetInv, Deadlines, Sweeping
<1>3. Enriching'
  BY DEF NetInv, Deadlines, Sweeping, Enriching
<1>4. Delivering'
  BY DEF NetInv, Deadlines, Sweeping, Enriching, Delivering, TryBy, TRIES, LONGEST
<1>5. GapsKnown'
  BY DEF NetInv, Deadlines, Sweeping, GapsKnown, past_deadline
<1> QED
  BY <1>1, <1>2, <1>3, <1>4, <1>5 DEF NetInv

\* A worker that is done rests.
LEMMA HostScannedKeeps == ASSUME NetInv, NEW w \in Workers, HostScanned(w) PROVE NetInv'
<1> USE Limits DEF HostScanned, Resting
<1> NetInv
  OBVIOUS
<1>1. Deadlines'
  BY DEF NetInv, Deadlines
<1>2. Sweeping'
  BY DEF NetInv, Deadlines, Sweeping
<1>3. Enriching'
  BY DEF NetInv, Deadlines, Sweeping, Enriching
<1>4. Delivering'
  BY DEF NetInv, Deadlines, Sweeping, Enriching, Delivering, TryBy, TRIES, LONGEST
<1>5. GapsKnown'
  BY DEF NetInv, Deadlines, Sweeping, GapsKnown, past_deadline
<1> QED
  BY <1>1, <1>2, <1>3, <1>4, <1>5 DEF NetInv

\* The end of the sweep says what was left out.
LEMMA SweepEndsKeeps == ASSUME NetInv, SweepEnds PROVE NetInv'
<1> USE Limits
<1> NetInv
  OBVIOUS
<1>a. /\ scan.at = "sweep" /\ \A w \in Workers : worker[w].target = 0
      /\ UNCHANGED <<time, next, worker, found>>
      /\ \/ scan' = [at |-> "posting", since |-> time, k |-> 1, began |-> scan.began]
         \/ scan' = [at |-> "controllers", since |-> time, k |-> 1, began |-> time]
      /\ past_deadline => verdict' = "partial"
  BY DEF SweepEnds, SweepError, To
<1>1. Deadlines'
  BY <1>a DEF NetInv, Deadlines
<1>2. Sweeping'
  BY <1>a DEF NetInv, Deadlines, Sweeping
<1>3. Enriching'
  BY <1>a DEF NetInv, Deadlines, Sweeping, Enriching
<1>4. Delivering'
  BY <1>a DEF NetInv, Deadlines, Sweeping, Enriching, Delivering, TryBy, TRIES, LONGEST
<1>5. GapsKnown'
  BY <1>a DEF NetInv, Deadlines, Sweeping, GapsKnown, past_deadline
<1> QED
  BY <1>1, <1>2, <1>3, <1>4, <1>5 DEF NetInv

\* So does a sweep that can't be made.
LEMMA ScanRaisesKeeps == ASSUME NetInv, ScanRaises PROVE NetInv'
<1> USE Limits DEF ScanRaises, To
<1> NetInv
  OBVIOUS
<1>1. Deadlines'
  BY DEF NetInv, Deadlines
<1>2. Sweeping'
  BY DEF NetInv, Deadlines, Sweeping
<1>3. Enriching'
  BY DEF NetInv, Deadlines, Sweeping, Enriching
<1>4. Delivering'
  BY DEF NetInv, Deadlines, Sweeping, Enriching, Delivering, TryBy, TRIES, LONGEST
<1>5. GapsKnown'
  BY DEF NetInv, Deadlines, Sweeping, GapsKnown, past_deadline
<1> QED
  BY <1>1, <1>2, <1>3, <1>4, <1>5 DEF NetInv

\* A controller is asked within the budget.
LEMMA NextControllerKeeps == ASSUME NetInv, NextController PROVE NetInv'
<1> USE Limits DEF NextController, To
<1> NetInv
  OBVIOUS
<1>1. Deadlines'
  BY DEF NetInv, Deadlines
<1>2. Sweeping'
  BY DEF NetInv, Deadlines, Sweeping
<1>3. Enriching'
  BY DEF NetInv, Deadlines, Sweeping, Enriching
<1>4. Delivering'
  BY DEF NetInv, Deadlines, Sweeping, Enriching, Delivering, TryBy, TRIES, LONGEST
<1>5. GapsKnown'
  BY DEF NetInv, Deadlines, Sweeping, GapsKnown, past_deadline
<1> QED
  BY <1>1, <1>2, <1>3, <1>4, <1>5 DEF NetInv

\* Its turn is over when its answers are in.
LEMMA ControllerDoneKeeps == ASSUME NetInv, ControllerDone PROVE NetInv'
<1> USE Limits DEF ControllerDone, To
<1> NetInv
  OBVIOUS
<1>1. Deadlines'
  BY DEF NetInv, Deadlines
<1>2. Sweeping'
  BY DEF NetInv, Deadlines, Sweeping
<1>3. Enriching'
  BY DEF NetInv, Deadlines, Sweeping, Enriching
<1>4. Delivering'
  BY DEF NetInv, Deadlines, Sweeping, Enriching, Delivering, TryBy, TRIES, LONGEST
<1>5. GapsKnown'
  BY DEF NetInv, Deadlines, Sweeping, GapsKnown, past_deadline
<1> QED
  BY <1>1, <1>2, <1>3, <1>4, <1>5 DEF NetInv

\* The rows are made when the controllers' turn is over.
LEMMA EnrichedKeeps == ASSUME NetInv, Enriched PROVE NetInv'
<1> USE Limits DEF Enriched, To
<1> NetInv
  OBVIOUS
<1>1. Deadlines'
  BY DEF NetInv, Deadlines
<1>2. Sweeping'
  BY DEF NetInv, Deadlines, Sweeping
<1>3. Enriching'
  BY DEF NetInv, Deadlines, Sweeping, Enriching
<1>4. Delivering'
  BY DEF NetInv, Deadlines, Sweeping, Enriching, Delivering, TryBy, TRIES, LONGEST
<1>5. GapsKnown'
  BY DEF NetInv, Deadlines, Sweeping, GapsKnown, past_deadline
<1> QED
  BY <1>1, <1>2, <1>3, <1>4, <1>5 DEF NetInv

\* So does an error in the middle.
LEMMA EnrichRaisesKeeps == ASSUME NetInv, EnrichRaises PROVE NetInv'
<1> USE Limits DEF EnrichRaises, To
<1> NetInv
  OBVIOUS
<1>1. Deadlines'
  BY DEF NetInv, Deadlines
<1>2. Sweeping'
  BY DEF NetInv, Deadlines, Sweeping
<1>3. Enriching'
  BY DEF NetInv, Deadlines, Sweeping, Enriching
<1>4. Delivering'
  BY DEF NetInv, Deadlines, Sweeping, Enriching, Delivering, TryBy, TRIES, LONGEST
<1>5. GapsKnown'
  BY DEF NetInv, Deadlines, Sweeping, GapsKnown, past_deadline
<1> QED
  BY <1>1, <1>2, <1>3, <1>4, <1>5 DEF NetInv

\* Every try to post begins after those before it and their waits.
LEMMA PostKeeps == ASSUME NetInv, PostTry \/ PostAgain PROVE NetInv'
<1> USE Limits
<1> NetInv
  OBVIOUS
<1>a. /\ UNCHANGED <<time, next, worker, found, verdict>>
      /\ \/ /\ scan.at = "posting"
            /\ scan' = [at |-> "end", since |-> time, k |-> scan.k, began |-> scan.began]
         \/ /\ scan.at = "posting" /\ scan.k < TRIES
            /\ scan' = [at |-> "waiting", since |-> time, k |-> scan.k, began |-> scan.began]
         \/ /\ scan.at = "waiting" /\ time >= scan.since + WAIT
            /\ scan' = [at |-> "posting", since |-> time, k |-> scan.k + 1, began |-> scan.began]
  BY DEF PostTry, PostAgain, AfterTry, To
<1>1. Deadlines'
  BY <1>a DEF NetInv, Deadlines
<1>2. Sweeping'
  BY <1>a DEF NetInv, Deadlines, Sweeping
<1>3. Enriching'
  BY <1>a DEF NetInv, Deadlines, Sweeping, Enriching
<1>4. Delivering'
  BY <1>a DEF NetInv, Deadlines, Sweeping, Enriching, Delivering, TryBy, TRIES, LONGEST
<1>5. GapsKnown'
  <2> UNCHANGED <<found, verdict>> /\ scan.at # "sweep" /\ scan'.at # "sweep"
    BY <1>a
  <2> QED
    BY DEF NetInv, GapsKnown
<1> QED
  BY <1>1, <1>2, <1>3, <1>4, <1>5 DEF NetInv

\* The clock waits for no one who is late.
LEMMA TickKeeps == ASSUME NetInv, NetTick PROVE NetInv'
<1> USE Limits DEF NetTick, Waiting
<1> NetInv
  OBVIOUS
<1>1. Deadlines'
  BY DEF NetInv, Deadlines
<1>2. Sweeping'
  BY DEF NetInv, Deadlines, Sweeping
<1>3. Enriching'
  BY DEF NetInv, Deadlines, Sweeping, Enriching
<1>4. Delivering'
  BY DEF NetInv, Deadlines, Sweeping, Enriching, Delivering, TryBy, TRIES, LONGEST
<1>5. GapsKnown'
  <2>1. UNCHANGED <<scan, found, verdict>> /\ time' = time + 1
    OBVIOUS
  <2>2. past_deadline => past_deadline'
    <3> time \in Nat
      BY DEF NetInv, Deadlines
    <3> QED
      BY <2>1 DEF past_deadline
  <2> HIDE DEF NetTick, Waiting
  <2> QED
    BY <2>1, <2>2 DEF NetInv, GapsKnown
<1> QED
  BY <1>1, <1>2, <1>3, <1>4, <1>5 DEF NetInv

\* The invariant holds for ever.
THEOREM NetInductive == NetSpec => []NetInv
<1>1. NetInv /\ UNCHANGED netVars => NetInv'
  BY DEF NetInv, Deadlines, Sweeping, Enriching, Delivering, GapsKnown, past_deadline, netVars
<1>2. NetInv /\ [NetNext]_netVars => NetInv'
  BY <1>1, TakeTargetKeeps, HostScannedKeeps, SweepEndsKeeps, ScanRaisesKeeps,
     NextControllerKeeps, ControllerDoneKeeps, EnrichedKeeps, EnrichRaisesKeeps, PostKeeps, TickKeeps DEF NetNext
<1> QED
  BY InvStarts, <1>2, PTL DEF NetSpec

\* A scan is over within its deadlines, with one host, one controller, three
\* posts and the waits between them on top, however many hosts and controllers
\* it has: the lock that keeps scans apart counts on it.
THEOREM ScansEndInTime == NetSpec => []ScanInTime
<1>1. NetInv => ScanInTime
  <2> SUFFICES ASSUME NetInv PROVE time <= LONGEST
    BY DEF ScanInTime
  <2> USE Limits
      DEF NetInv, Deadlines, Sweeping, Enriching, Delivering, TryBy, TRIES, LONGEST
  <2>1. CASE scan.at \in {"sweep", "controllers", "asking"}
    BY <2>1
  <2>2. CASE scan.at \in {"posting", "waiting", "end"}
    BY <2>2
  <2> QED
    BY <2>1, <2>2
<1> QED
  BY <1>1, NetInductive, PTL

\* Results that leave the probe say that hosts were left out, if any were.
THEOREM NoSilentGaps == NetSpec => []GapsAreSaid
<1>1. NetInv => GapsAreSaid
  BY DEF NetInv, GapsKnown, GapsAreSaid
<1> QED
  BY <1>1, NetInductive, PTL

-----------------------------------------------------------------------------
(* NetScan: the rows *)

\* Of some natural numbers one is the least.
LEMMA Least == ASSUME NEW S \in SUBSET Nat, S # {} PROVE \E i \in S : \A j \in S : i <= j
<1>1. PICK i \in S : \A j \in S : <<j, i>> \notin OpToRel(<, Nat)
  BY NatLessThanWellFounded, WFMin
<1>2. \A j \in S : ~ (j < i)
  BY <1>1 DEF OpToRel
<1> QED
  BY <1>2

\* The first of some entries of a list is one of them.
LEMMA FirstIsOne == ASSUME NEW D, NEW list \in Seq(D), NEW at \in SUBSET DOMAIN list, at # {}
                    PROVE  \E i \in at : First(list, at) = list[i]
<1>1. at \in SUBSET Nat
  OBVIOUS
<1>2. \E i \in at : \A j \in at : i <= j
  BY <1>1, Least
<1> QED
  BY <1>2 DEF First

\* What the lists have on a host is one of their entries, with its MAC if they have that.
LEMMA HitFits == ASSUME NEW D, NEW list \in Seq(D), NEW t
                 PROVE  /\ Hit(list, t) \in D \cup {None}
                        /\ WithMAC(list, macs[t]) # {} => Hit(list, t).mac = macs[t]
<1>1. /\ WithMAC(list, macs[t]) \in SUBSET DOMAIN list
      /\ WithIP(list, t) \in SUBSET DOMAIN list
  BY DEF WithMAC, WithIP
<1>2. \A i \in DOMAIN list : list[i] \in D
  OBVIOUS
<1>3. ASSUME WithMAC(list, macs[t]) # {}
      PROVE  Hit(list, t) \in D /\ Hit(list, t).mac = macs[t]
  <2>1. PICK i \in WithMAC(list, macs[t]) : First(list, WithMAC(list, macs[t])) = list[i]
    BY <1>1, <1>3, FirstIsOne
  <2>2. Hit(list, t) = list[i]
    BY <1>3, <2>1 DEF Hit
  <2> QED
    BY <1>2, <2>2 DEF WithMAC
<1>4. ASSUME WithMAC(list, macs[t]) = {}
      PROVE  Hit(list, t) \in D \cup {None}
  <2>1. Hit(list, t) = First(list, WithIP(list, t))
    BY <1>4 DEF Hit
  <2>2. CASE WithIP(list, t) = {}
    BY <2>1, <2>2 DEF First
  <2>3. CASE WithIP(list, t) # {}
    BY <1>1, <1>2, <2>1, <2>3, FirstIsOne
  <2> QED
    BY <2>2, <2>3
<1> QED
  BY <1>3, <1>4

\* There are no rows at the start.
LEMMA RowsStart == NetInit => RowInv
<1> SUFFICES ASSUME NetInit PROVE RowInv
  OBVIOUS
<1>0. /\ macs = [t \in Targets |-> None]
      /\ listed = [devices |-> <<>>, clients |-> <<>>]
      /\ rows = [t \in Targets |-> [device |-> None, client |-> None, mac |-> None]]
  BY Zenon DEF NetInit, NoRow, NoLists
<1>1. RowTypes
  BY <1>0 DEF RowTypes
<1>2. ListsFirst /\ OwnFacts
  BY <1>0 DEF ListsFirst, OwnFacts
<1> QED
  BY <1>1, <1>2 DEF RowInv

\* The sweep's end gives a host no more than the MAC it answered with.
LEMMA SweepKeepsRows == ASSUME RowInv, SweepEnds PROVE RowInv'
<1>1. /\ macs' \in [Targets -> MACs \cup {None}]
      /\ rows' = [t \in Targets |-> [device |-> None, client |-> None, mac |-> macs'[t]]]
      /\ UNCHANGED listed
  BY DEF SweepEnds, NoRow
<1>2. RowTypes'
  BY <1>1 DEF RowInv, RowTypes
<1>3. ListsFirst' /\ OwnFacts'
  BY <1>1 DEF ListsFirst, OwnFacts
<1> QED
  BY <1>2, <1>3 DEF RowInv

\* A controller adds to the lists, and no row was made of them yet.
LEMMA ControllerKeepsRows == ASSUME RowInv, ControllerDone PROVE RowInv'
<1>1. /\ scan.at = "asking" /\ UNCHANGED <<macs, rows>>
      /\ listed' \in [devices : Seq(Devices), clients : Seq(Clients)]
  <2>1. listed \in [devices : Seq(Devices), clients : Seq(Clients)]
    BY DEF RowInv, RowTypes
  <2>2. ASSUME NEW i \in Inventories,
               listed' = [devices |-> listed.devices \o i.devices, clients |-> listed.clients \o i.clients]
        PROVE  listed' \in [devices : Seq(Devices), clients : Seq(Clients)]
    <3>1. i \in [devices : Seq(Devices), clients : Seq(Clients)]
      BY NetScanAssumption
    <3>2. listed.devices \o i.devices \in Seq(Devices) /\ listed.clients \o i.clients \in Seq(Clients)
      BY <2>1, <3>1
    <3> QED
      BY <2>2, <3>2
  <2> QED
    BY <2>1, <2>2 DEF ControllerDone
<1>2. RowTypes'
  BY <1>1 DEF RowInv, RowTypes
<1>3. ListsFirst' /\ OwnFacts'
  BY <1>1 DEF RowInv, ListsFirst, OwnFacts
<1> QED
  BY <1>2, <1>3 DEF RowInv

\* A row is made of the device the host's MAC finds, or of none with another's MAC.
LEMMA RowFits == ASSUME RowInv, NEW t \in Targets
                 PROVE  /\ Row(t) \in [device : Devices \cup {None}, client : Clients \cup {None}, mac : MACs \cup {None}]
                        /\ Row(t).device # None /\ macs[t] # None /\ Row(t).device.mac # macs[t]
                              => WithMAC(listed.devices, macs[t]) = {}
<1> DEFINE device == Hit(listed.devices, t)
           client == Hit(listed.clients, t)
           mac == IF macs[t] = None THEN device.mac ELSE macs[t]
           named == IF client # None /\ client.named THEN client ELSE None
<1>1. /\ macs[t] \in MACs \cup {None}
      /\ listed.devices \in Seq(Devices) /\ listed.clients \in Seq(Clients)
  BY DEF RowInv, RowTypes
<1>2. /\ device \in Devices \cup {None}
      /\ WithMAC(listed.devices, macs[t]) # {} => device.mac = macs[t]
  BY <1>1, HitFits
<1>3. client \in Clients \cup {None}
  BY <1>1, HitFits
<1>4. Row(t) = IF device # None THEN [device |-> device, client |-> None, mac |-> mac]
               ELSE [device |-> None, client |-> named, mac |-> macs[t]]
  BY DEF Row
<1>5. named \in Clients \cup {None}
  BY <1>3, Zenon
<1>6. device # None => mac \in MACs \cup {None}
  BY <1>1, <1>2 DEF Devices
<1> HIDE DEF device, client, mac, named
<1>7. CASE device # None
  BY <1>1, <1>2, <1>4, <1>6, <1>7
<1>8. CASE device = None
  BY <1>1, <1>2, <1>4, <1>5, <1>8
<1> QED
  BY <1>7, <1>8

\* The rows are made of the lists once they are whole.
LEMMA EnrichedKeepsRows == ASSUME RowInv, Enriched PROVE RowInv'
<1>1. /\ rows' = [t \in Targets |-> IF t \in Found THEN Row(t) ELSE NoRow]
      /\ UNCHANGED <<macs, listed>> /\ scan'.at = "posting"
  BY DEF Enriched, To
<1>2. ASSUME NEW t \in Targets
      PROVE  /\ rows'[t] \in [device : Devices \cup {None}, client : Clients \cup {None}, mac : MACs \cup {None}]
             /\ rows'[t].device # None /\ macs[t] # None /\ rows'[t].device.mac # macs[t]
                   => WithMAC(listed.devices, macs[t]) = {}
  <2>1. CASE t \in Found
    BY <1>1, <2>1, RowFits
  <2>2. CASE t \notin Found
    BY <1>1, <2>2 DEF NoRow
  <2> QED
    BY <2>1, <2>2
<1>3. RowTypes'
  BY <1>1, <1>2 DEF RowInv, RowTypes
<1>5. OwnFacts'
  BY <1>1, <1>2 DEF OwnFacts, WithMAC
<1>6. ListsFirst'
  BY <1>1 DEF ListsFirst
<1> QED
  BY <1>3, <1>5, <1>6 DEF RowInv

\* The other steps leave the lists and the rows alone, and none of them goes back to the lists.
LEMMA RowsKept == ASSUME RowInv, [NetNext]_netVars PROVE RowInv'
<1>1. ASSUME NEW w \in Workers, TakeTarget(w) \/ HostScanned(w)
      PROVE  UNCHANGED <<scan, macs, listed, rows>>
  BY <1>1 DEF TakeTarget, HostScanned
<1>2. ASSUME NextController \/ NetTick \/ UNCHANGED netVars
      PROVE  UNCHANGED <<macs, listed, rows>>
             /\ (scan'.at \in {"sweep", "controllers", "asking"} => scan.at \in {"sweep", "controllers", "asking"})
  BY <1>2 DEF NextController, NetTick, netVars, To
<1>3. ASSUME ScanRaises \/ EnrichRaises \/ PostTry \/ PostAgain
      PROVE  UNCHANGED <<macs, listed, rows>> /\ scan'.at \in {"posting", "waiting", "end"}
  <2>1. CASE ScanRaises \/ EnrichRaises \/ PostAgain
    BY <2>1 DEF ScanRaises, EnrichRaises, PostAgain, To
  <2>2. CASE PostTry
    <3>1. UNCHANGED <<macs, listed, rows>>
      BY <2>2 DEF PostTry
    <3>2. PICK o : scan' = To(IF AfterTry(scan.k, TRIES, o) = "again" THEN "waiting" ELSE "end", scan.k)
      BY <2>2, Zenon DEF PostTry
    <3> QED
      BY <3>1, <3>2 DEF To
  <2> QED
    BY <1>3, <2>1, <2>2
<1>4. CASE UNCHANGED <<macs, listed, rows>>
           /\ (scan'.at \in {"sweep", "controllers", "asking"} => scan.at \in {"sweep", "controllers", "asking"})
  <2>1. RowTypes' /\ ListsFirst'
    BY <1>4 DEF RowInv, RowTypes, ListsFirst
  <2>2. OwnFacts'
    BY <1>4 DEF RowInv, OwnFacts, WithMAC
  <2> QED
    BY <2>1, <2>2 DEF RowInv
<1> QED
  BY <1>1, <1>2, <1>3, <1>4, SweepKeepsRows, ControllerKeepsRows, EnrichedKeepsRows, Zenon DEF NetNext

\* The rows fit the lists they are made of.
THEOREM RowsInductive == NetSpec => []RowInv
  BY RowsStart, RowsKept, PTL DEF NetSpec

\* A host whose MAC a controller lists has no other device's facts.
THEOREM FactsAreOwn == NetSpec => []OwnFacts
<1>1. RowInv => OwnFacts
  BY DEF RowInv
<1> QED
  BY <1>1, RowsInductive, PTL

-----------------------------------------------------------------------------
(* Diag *)

\* The limits are natural numbers.
LEMMA DiagLimits ==
  /\ COUNT \in Nat /\ COUNT > 0 /\ RESOLVE \in Nat /\ PING \in Nat /\ HOP \in Nat /\ EXCHANGE \in Nat /\ SYSTEM \in Nat
  /\ POST_TIMEOUT \in Nat /\ GAP \in Nat /\ TRACE_DEADLINE \in Nat /\ POST_WAIT \in Nat
  /\ PingCost \in Nat /\ TypeCost \in Nat /\ TryCost \in Nat
  /\ PING + POST_TIMEOUT <= PingCost /\ GAP <= PingCost
  /\ Len(Types) \in Nat /\ Len(Types) > 0
<1>1. Len(Types) \in Nat /\ Len(Types) > 0
  BY DiagAssumption
<1>2. /\ {COUNT, MAX_HOPS, RESOLVE, PING, HOP, EXCHANGE, SYSTEM, POST_TIMEOUT} \subseteq Nat
      /\ {GAP, THROTTLE, TRACE_DEADLINE, POST_WAIT} \subseteq Nat
      /\ COUNT > 0
  BY DiagAssumption, Zenon
<1>3. /\ COUNT \in Nat /\ COUNT > 0 /\ RESOLVE \in Nat /\ PING \in Nat /\ HOP \in Nat /\ EXCHANGE \in Nat /\ SYSTEM \in Nat
      /\ POST_TIMEOUT \in Nat /\ GAP \in Nat /\ TRACE_DEADLINE \in Nat /\ POST_WAIT \in Nat
  BY <1>2
<1>4. PingCost \in Nat /\ PING + POST_TIMEOUT <= PingCost /\ GAP <= PingCost
  BY <1>3 DEF PingCost, Later
<1>5. TypeCost \in Nat /\ TryCost \in Nat
  BY <1>3 DEF TypeCost, TryCost
<1> QED
  BY <1>1, <1>3, <1>4, <1>5

\* The same added to both.
LEMMA AddBoth == ASSUME NEW a \in Nat, NEW b \in Nat, a <= b, NEW c \in Nat
                 PROVE  a + c \in Nat /\ a <= a + c /\ a + c <= b + c
  OBVIOUS

\* One more of the same.
LEMMA OneMore == ASSUME NEW k \in Nat, NEW n \in Nat, k <= n, NEW c \in Nat
                 PROVE  /\ k * c \in Nat /\ n * c \in Nat /\ k * c <= n * c
                        /\ k > 0 => (k - 1) * c \in Nat /\ (k - 1) * c + c = k * c
                        /\ ((k + 1) - 1) * c = k * c
  OBVIOUS

\* A tool's work is a number of ticks, and starts with the look at its name.
LEMMA WorkIs ==
  ASSUME tool \in {"ping", "traceroute", "dns", "unfit"}
  PROVE  /\ Work \in Nat /\ Work >= RESOLVE
         /\ tool = "ping" => Work = RESOLVE + COUNT * PingCost
         /\ tool = "traceroute" => Work = RESOLVE + TRACE_DEADLINE + HOP + POST_TIMEOUT
         /\ tool = "dns" => Work = RESOLVE + Len(Types) * TypeCost + SYSTEM
<1> USE DiagLimits
<1>1. CASE tool = "ping"
  <2>1. Work = RESOLVE + COUNT * PingCost
    BY <1>1, Zenon DEF Work, PingCost
  <2>2. COUNT * PingCost \in Nat
    BY OneMore
  <2> QED
    BY <1>1, <2>1, <2>2
<1>2. CASE tool = "traceroute"
  BY <1>2 DEF Work
<1>3. CASE tool = "dns"
  <2>1. Work = RESOLVE + Len(Types) * 4 * EXCHANGE + SYSTEM
    BY <1>3 DEF Work
  <2>2. Len(Types) * 4 * EXCHANGE = Len(Types) * TypeCost
    BY DEF TypeCost
  <2>3. Len(Types) * TypeCost \in Nat
    BY OneMore
  <2> QED
    BY <1>3, <2>1, <2>2, <2>3
<1>4. CASE tool = "unfit"
  BY <1>4 DEF Work
<1> QED
  BY <1>1, <1>2, <1>3, <1>4

\* A run begins with nothing done.
LEMMA DiagStarts == DiagInit => DiagInv
<1> SUFFICES ASSUME DiagInit PROVE DiagInv
  OBVIOUS
<1>1. /\ tool \in {"ping", "traceroute", "dns", "unfit"}
      /\ run = [at |-> "clean", k |-> 0] /\ clock = 0 /\ mark = 0 /\ told = "nothing"
  BY DEF DiagInit
<1>2. DiagTypes /\ OwnSteps /\ Told /\ Clean
  BY <1>1 DEF DiagTypes, OwnSteps, Told, Clean
<1>3. Pinging /\ Tracing /\ Asking /\ Posting
  BY <1>1 DEF Pinging, Tracing, Asking, Posting
<1> QED
  BY <1>2, <1>3 DEF DiagInv

\* What takes no longer than some ticks ends by then.
LEMMA TakesAtMost == ASSUME clock \in Nat, NEW most \in Nat, Takes(most)
                     PROVE  clock' \in Nat /\ clock <= clock' /\ clock' <= clock + most
  BY DEF Takes

\* A run that comes to its first post in time is as it should be.
LEMMA ComesToPost ==
  ASSUME DiagInv, tool' = tool, clock' \in Nat, mark' \in Nat, told' \in {"nothing", "partial"},
         run' = [at |-> "post", k |-> 1], clock' <= Work, tool = "unfit" => result'.error
  PROVE  DiagInv'
<1>1. DiagTypes' /\ OwnSteps' /\ Told' /\ Clean' /\ Pinging' /\ Tracing' /\ Asking'
  BY DEF DiagInv, DiagTypes, OwnSteps, Told, Clean, Pinging, Tracing, Asking
<1>2. Work' = Work
  BY DEF Work
<1>3. Work \in Nat
  BY WorkIs DEF DiagInv, DiagTypes
<1>4. (1 - 1) * TryCost = 0
  BY DiagLimits
<1>5. Posting'
  BY <1>2, <1>3, <1>4 DEF Posting, FINAL_TRIES
<1> QED
  BY <1>1, <1>5 DEF DiagInv

\* A name that isn't found, or a request that can't be carried out, is a result too.
LEMMA RefusedKeeps == ASSUME DiagInv, Refused PROVE DiagInv'
<1>1. /\ run.at = "clean" /\ Takes(RESOLVE) /\ UNCHANGED <<tool, mark, told>>
      /\ run' = [at |-> "post", k |-> 1] /\ result'.error
  BY DEF Refused, Failed, Goto, NoResult
<1>2. /\ tool \in {"ping", "traceroute", "dns", "unfit"} /\ clock = 0 /\ mark \in Nat
      /\ told \in {"nothing", "partial"}
  BY <1>1 DEF DiagInv, DiagTypes, Clean, Told
<1>3. clock' \in Nat /\ clock' <= RESOLVE
  BY <1>1, <1>2, DiagLimits, TakesAtMost
<1> QED
  BY <1>1, <1>2, <1>3, DiagLimits, WorkIs, ComesToPost

\* A tool's first step.
LEMMA BeginsKeeps == ASSUME DiagInv, Begins PROVE DiagInv'
<1> USE DiagLimits
<1>1. /\ run.at = "clean" /\ tool \in {"ping", "traceroute", "dns"} /\ clock = 0 /\ mark \in Nat
      /\ told # "whole" /\ told \in {"nothing", "partial", "whole"}
  BY DEF DiagInv, DiagTypes, Clean, Told, Begins
<1>2. /\ run' = [at |-> CASE tool = "ping" -> "ping" [] tool = "traceroute" -> "hop" [] tool = "dns" -> "server",
                 k |-> 1]
      /\ UNCHANGED <<tool, told>>
      /\ mark' = IF tool = "traceroute" THEN clock' + TRACE_DEADLINE ELSE clock'
      /\ Takes(IF tool = "dns" THEN 0 ELSE RESOLVE)
  BY DEF Begins, Goto
<1>3. clock' \in Nat /\ clock' <= RESOLVE
  BY <1>1, <1>2, TakesAtMost
<1>4. (1 - 1) * PingCost = 0 /\ (1 - 1) * TypeCost = 0
  OBVIOUS
<1>5. CASE tool = "ping"
  <2>1. run' = [at |-> "ping", k |-> 1] /\ mark' = clock' /\ tool' = "ping" /\ told' = told
    BY <1>2, <1>5
  <2>2. DiagTypes' /\ OwnSteps' /\ Told' /\ Clean'
    BY <1>1, <1>3, <2>1 DEF DiagTypes, OwnSteps, Told, Clean
  <2>3. Pinging' /\ Tracing' /\ Asking' /\ Posting'
    BY <1>3, <1>4, <2>1 DEF Pinging, Tracing, Asking, Posting
  <2> QED
    BY <2>2, <2>3 DEF DiagInv
<1>6. CASE tool = "traceroute"
  <2>1. run' = [at |-> "hop", k |-> 1] /\ tool' = "traceroute" /\ told' = told
    BY <1>2, <1>6
  <2>2. mark' \in Nat /\ clock' <= mark' /\ mark' <= RESOLVE + TRACE_DEADLINE
    <3>1. mark' = clock' + TRACE_DEADLINE
      BY <1>2, <1>6, Zenon
    <3>2. /\ clock' + TRACE_DEADLINE \in Nat /\ clock' <= clock' + TRACE_DEADLINE
          /\ clock' + TRACE_DEADLINE <= RESOLVE + TRACE_DEADLINE
      BY <1>3, AddBoth, Zenon
    <3> QED
      BY <3>1, <3>2, Zenon
  <2>3. DiagTypes' /\ OwnSteps' /\ Told' /\ Clean'
    BY <1>1, <1>3, <2>1, <2>2 DEF DiagTypes, OwnSteps, Told, Clean
  <2>4. Pinging' /\ Tracing' /\ Asking' /\ Posting'
    BY <1>3, <2>1, <2>2 DEF Pinging, Tracing, Asking, Posting
  <2> QED
    BY <2>3, <2>4 DEF DiagInv
<1>7. CASE tool = "dns"
  <2>1. run' = [at |-> "server", k |-> 1] /\ mark' = clock' /\ tool' = "dns" /\ told' = told
    BY <1>2, <1>7
  <2>2. DiagTypes' /\ OwnSteps' /\ Told' /\ Clean'
    BY <1>1, <1>3, <2>1 DEF DiagTypes, OwnSteps, Told, Clean
  <2>3. Pinging' /\ Tracing' /\ Asking' /\ Posting'
    BY <1>3, <1>4, <2>1 DEF Pinging, Tracing, Asking, Posting
  <2> QED
    BY <2>2, <2>3 DEF DiagInv
<1> QED
  BY <1>1, <1>5, <1>6, <1>7

\* A ping ends in its time, and none of it is posted yet.
LEMMA PingKeeps == ASSUME DiagInv, Ping PROVE DiagInv'
<1> USE DiagLimits
<1>1. /\ run.at = "ping" /\ tool = "ping" /\ clock \in Nat /\ mark \in Nat /\ clock <= mark
      /\ run.k \in 1 .. COUNT /\ mark <= RESOLVE + (run.k - 1) * PingCost
      /\ told \in {"nothing", "partial", "whole"} /\ told # "whole"
  BY DEF DiagInv, DiagTypes, OwnSteps, Told, Pinging, Ping
<1>2. /\ run' = [at |-> "progress", k |-> run.k] /\ Takes(PING)
      /\ UNCHANGED <<tool, mark, told>>
  BY DEF Ping, Goto
<1>3. clock' \in Nat /\ clock' <= mark + PING
  BY <1>1, <1>2, TakesAtMost
<1>4. DiagTypes' /\ OwnSteps' /\ Told' /\ Clean'
  BY <1>1, <1>2, <1>3 DEF DiagTypes, OwnSteps, Told, Clean
<1>5. Pinging' /\ Tracing' /\ Asking' /\ Posting'
  BY <1>1, <1>2, <1>3 DEF Pinging, Tracing, Asking, Posting
<1> QED
  BY <1>4, <1>5 DEF DiagInv

\* A hop begins before the deadline.
LEMMA HopKeeps == ASSUME DiagInv, Hop PROVE DiagInv'
<1> USE DiagLimits
<1>1. /\ run.at = "hop" /\ tool = "traceroute" /\ clock \in Nat /\ mark \in Nat /\ clock <= mark
      /\ mark <= RESOLVE + TRACE_DEADLINE /\ run.k \in Nat
      /\ told \in {"nothing", "partial", "whole"} /\ told # "whole"
  BY DEF DiagInv, DiagTypes, OwnSteps, Told, Tracing, Hop
<1>2. /\ run' = [at |-> "progress", k |-> run.k] /\ Takes(HOP)
      /\ UNCHANGED <<tool, mark, told>>
  BY DEF Hop, Goto
<1>3. clock' \in Nat /\ clock' <= mark + HOP
  BY <1>1, <1>2, TakesAtMost
<1>4. DiagTypes' /\ OwnSteps' /\ Told' /\ Clean'
  BY <1>1, <1>2, <1>3 DEF DiagTypes, OwnSteps, Told, Clean
<1>5. Pinging' /\ Tracing' /\ Asking' /\ Posting'
  BY <1>1, <1>2, <1>3 DEF Pinging, Tracing, Asking, Posting
<1> QED
  BY <1>4, <1>5 DEF DiagInv

\* traceroute's end.
LEMMA TraceEndsKeeps == ASSUME DiagInv, TraceEnds PROVE DiagInv'
<1>1. /\ run.at = "hop" /\ tool = "traceroute" /\ clock \in Nat /\ mark \in Nat /\ clock <= mark
      /\ mark <= RESOLVE + TRACE_DEADLINE /\ told \in {"nothing", "partial"}
  BY DEF DiagInv, DiagTypes, OwnSteps, Told, Tracing, TraceEnds
<1>2. /\ run' = [at |-> "post", k |-> 1] /\ UNCHANGED <<tool, clock, mark, told>>
  BY DEF TraceEnds, Goto
<1>3. clock <= Work
  BY <1>1, DiagLimits, WorkIs
<1> QED
  BY <1>1, <1>2, <1>3, ComesToPost

\* A post of what there is, and the next ping's second or the next hop.
LEMMA ProgressKeeps == ASSUME DiagInv, Progress PROVE DiagInv'
<1> USE DiagLimits
<1>1. /\ run.at = "progress" /\ tool \in {"ping", "traceroute"} /\ clock \in Nat /\ mark \in Nat /\ run.k \in Nat
      /\ told \in {"nothing", "partial", "whole"} /\ told # "whole" /\ tool' = tool
  BY DEF DiagInv, DiagTypes, OwnSteps, Told, Progress
<1>2. PICK after \in Nat : /\ clock <= after /\ after <= clock + POST_TIMEOUT /\ AfterProgress(after)
                           /\ told' \in {told, "partial"}
  <2>1. CASE posted = None \/ clock >= posted + THROTTLE
    <3>1. told' \in {told, "partial"} /\ \E d \in 0 .. POST_TIMEOUT : AfterProgress(clock + d)
      BY <2>1, Zenon DEF Progress
    <3>2. PICK d \in 0 .. POST_TIMEOUT : AfterProgress(clock + d)
      BY <3>1
    <3>3. clock + d \in Nat /\ clock <= clock + d /\ clock + d <= clock + POST_TIMEOUT
      BY <1>1, <3>2
    <3> QED
      BY <3>1, <3>2, <3>3
  <2>2. CASE ~ (posted = None \/ clock >= posted + THROTTLE)
    <3>1. told' = told /\ AfterProgress(clock)
      BY <2>2, Zenon DEF Progress
    <3> QED
      BY <1>1, <3>1
  <2> QED
    BY <2>1, <2>2
<1>3. told' \in {"nothing", "partial", "whole"} /\ told' # "whole"
  BY <1>1, <1>2
<1>4. CASE tool = "ping"
  <2>1. /\ run.k \in 1 .. COUNT /\ mark <= RESOLVE + (run.k - 1) * PingCost /\ after <= mark + PingCost
        /\ mark + GAP <= mark + PingCost
    <3>1. run.k \in 1 .. COUNT /\ mark <= RESOLVE + (run.k - 1) * PingCost /\ clock <= mark + PING
      BY <1>1, <1>4 DEF DiagInv, Pinging
    <3> QED
      BY <1>1, <1>2, <3>1
  <2> DEFINE before == (run.k - 1) * PingCost
             more == run.k * PingCost
             all == COUNT * PingCost
  <2>2. /\ before \in Nat /\ more \in Nat /\ all \in Nat /\ more <= all
        /\ before + PingCost = more
        /\ ((run.k + 1) - 1) * PingCost = more
    <3>1. run.k \in Nat /\ run.k > 0 /\ run.k <= COUNT /\ COUNT \in Nat /\ PingCost \in Nat
      BY <2>1
    <3> QED
      BY <3>1, OneMore, Zenon
  <2>3. mark <= RESOLVE + before
    BY <2>1
  <2> HIDE DEF before, more, all
  <2>4. CASE run.k < COUNT
    <3>1. /\ clock' = Later(after, mark + GAP) /\ mark' = clock' /\ run' = [at |-> "ping", k |-> run.k + 1]
      BY <1>2, <1>4, <2>4, Zenon DEF AfterProgress, Goto
    <3>2. clock' \in Nat /\ clock' <= mark + PingCost
      BY <1>1, <1>2, <2>1, <3>1 DEF Later
    <3>3. clock' <= RESOLVE + more
      BY <1>1, <2>2, <2>3, <3>2
    <3>4. run.k + 1 \in 1 .. COUNT
      BY <2>1, <2>4
    <3>5. clock' <= RESOLVE + ((run.k + 1) - 1) * PingCost /\ run.k + 1 \in 1 .. COUNT
      BY <2>2, <3>3, <3>4, Zenon
    <3>6. DiagTypes' /\ OwnSteps' /\ Told' /\ Clean'
      BY <1>1, <1>3, <1>4, <3>1, <3>2 DEF DiagTypes, OwnSteps, Told, Clean
    <3>7. Pinging'
      BY <3>1, <3>2, <3>5 DEF Pinging
    <3>8. Tracing' /\ Asking' /\ Posting'
      BY <1>1, <1>4, <3>1 DEF Tracing, Asking, Posting
    <3> QED
      BY <3>6, <3>7, <3>8 DEF DiagInv
  <2>5. CASE ~ (run.k < COUNT)
    <3>1. clock' = after /\ mark' = mark /\ run' = [at |-> "post", k |-> 1]
      BY <1>2, <1>4, <2>5, Zenon DEF AfterProgress, Goto
    <3>2. after <= RESOLVE + all
      BY <1>1, <2>1, <2>2, <2>3
    <3>3. clock' <= Work
      BY <1>1, <1>4, <3>1, <3>2, WorkIs, Zenon DEF all
    <3> QED
      BY <1>1, <1>2, <1>3, <1>4, <3>1, <3>3, ComesToPost
  <2> QED
    BY <2>4, <2>5
<1>5. CASE tool = "traceroute"
  <2>1. mark <= RESOLVE + TRACE_DEADLINE /\ clock <= mark + HOP
    BY <1>1, <1>5 DEF DiagInv, Tracing
  <2>2. clock' = after /\ mark' = mark
    BY <1>2, <1>5, Zenon DEF AfterProgress
  <2>3. (TraceOver /\ run' = [at |-> "post", k |-> 1]) \/ (~ TraceOver /\ run' = [at |-> "hop", k |-> run.k + 1])
    BY <1>2, <1>5, Zenon DEF AfterProgress, Goto
  <2>4. CASE TraceOver /\ run' = [at |-> "post", k |-> 1]
    <3>1. after <= Work
      BY <1>1, <1>2, <1>5, <2>1, WorkIs
    <3> QED
      BY <1>1, <1>2, <1>3, <1>5, <2>2, <2>4, <3>1, ComesToPost
  <2>5. CASE ~ TraceOver /\ run' = [at |-> "hop", k |-> run.k + 1]
    <3>1. ~ (clock' > mark)
      BY <2>5, Zenon DEF TraceOver
    <3>2. clock' <= mark
      BY <1>1, <2>2, <3>1
    <3>3. DiagTypes' /\ OwnSteps' /\ Told' /\ Clean'
      BY <1>1, <1>3, <1>5, <2>2, <2>5 DEF DiagTypes, OwnSteps, Told, Clean
    <3>4. Pinging' /\ Tracing' /\ Asking' /\ Posting'
      BY <1>1, <1>5, <2>1, <2>2, <2>5, <3>2 DEF Pinging, Tracing, Asking, Posting
    <3> QED
      BY <3>3, <3>4 DEF DiagInv
  <2> QED
    BY <2>3, <2>4, <2>5
<1> QED
  BY <1>1, <1>4, <1>5

\* A type is asked for in its time.
LEMMA AskServerKeeps == ASSUME DiagInv, AskServer PROVE DiagInv'
<1> USE DiagLimits
<1> DEFINE before == (run.k - 1) * TypeCost
           more == run.k * TypeCost
           all == Len(Types) * TypeCost
<1>1. /\ run.at = "server" /\ tool = "dns" /\ clock \in Nat /\ mark \in Nat
      /\ run.k \in 1 .. Len(Types) /\ clock <= RESOLVE + before
      /\ told \in {"nothing", "partial"}
  BY DEF DiagInv, DiagTypes, OwnSteps, Told, Asking, AskServer
<1>2. /\ before \in Nat /\ more \in Nat /\ all \in Nat /\ more <= all
      /\ before + TypeCost = more
      /\ ((run.k + 1) - 1) * TypeCost = more
  <2>1. run.k \in Nat /\ run.k > 0 /\ run.k <= Len(Types) /\ Len(Types) \in Nat /\ TypeCost \in Nat
    BY <1>1
  <2> QED
    BY <2>1, OneMore, Zenon
<1>3. /\ Takes(TypeCost) /\ UNCHANGED <<tool, mark, told>>
      /\ \/ run' = [at |-> "post", k |-> 1]
         \/ run.k < Len(Types) /\ run' = [at |-> "server", k |-> run.k + 1]
         \/ run' = [at |-> "system", k |-> 1]
  BY Zenon DEF AskServer, Failed, Goto, TypeCost
<1>4. Work = RESOLVE + all + SYSTEM
  BY <1>1, WorkIs
<1> HIDE DEF before, more, all
<1>5. clock' \in Nat /\ clock' <= RESOLVE + more /\ clock' <= RESOLVE + all
  <2>1. clock' \in Nat /\ clock' <= clock + TypeCost
    BY <1>1, <1>3, TakesAtMost
  <2> QED
    BY <1>1, <1>2, <2>1
<1>6. CASE run' = [at |-> "post", k |-> 1]
  <2>1. clock' <= Work
    BY <1>2, <1>4, <1>5
  <2> QED
    BY <1>1, <1>3, <1>5, <1>6, <2>1, ComesToPost
<1>7. ASSUME run' \in {[at |-> "server", k |-> run.k + 1], [at |-> "system", k |-> 1]}
      PROVE  DiagTypes' /\ OwnSteps' /\ Told' /\ Clean' /\ Pinging' /\ Tracing' /\ Posting'
  BY <1>1, <1>3, <1>5, <1>7 DEF DiagTypes, OwnSteps, Told, Clean, Pinging, Tracing, Posting
<1>8. CASE run.k < Len(Types) /\ run' = [at |-> "server", k |-> run.k + 1]
  <2>1. run.k + 1 \in 1 .. Len(Types)
    BY <1>1, <1>8
  <2>2. clock' <= RESOLVE + ((run.k + 1) - 1) * TypeCost
    BY <1>2, <1>5, Zenon
  <2>3. Asking'
    BY <1>8, <2>1, <2>2 DEF Asking
  <2> QED
    BY <1>7, <1>8, <2>3 DEF DiagInv
<1>9. CASE run' = [at |-> "system", k |-> 1]
  <2>1. clock' <= RESOLVE + Len(Types) * TypeCost
    BY <1>5 DEF all
  <2>2. Asking'
    BY <1>9, <2>1 DEF Asking
  <2> QED
    BY <1>7, <1>9, <2>2 DEF DiagInv
<1> QED
  BY <1>3, <1>6, <1>8, <1>9

\* Without a server only the system is asked.
LEMMA NoServerKeeps == ASSUME DiagInv, NoServer PROVE DiagInv'
<1> USE DiagLimits
<1>1. /\ run.at = "server" /\ run.k = 1 /\ tool = "dns" /\ clock \in Nat /\ mark \in Nat
      /\ clock <= RESOLVE + (run.k - 1) * TypeCost /\ told \in {"nothing", "partial"}
  BY DEF DiagInv, DiagTypes, OwnSteps, Told, Asking, NoServer
<1>2. run' = [at |-> "system", k |-> 1] /\ UNCHANGED <<tool, clock, mark, told>>
  BY DEF NoServer, Goto
<1>3. clock <= RESOLVE + Len(Types) * TypeCost
  <2>1. (1 - 1) * TypeCost = 0 /\ Len(Types) * TypeCost \in Nat
    BY OneMore
  <2>2. clock <= RESOLVE
    BY <1>1, <2>1
  <2> QED
    BY <1>1, <2>1, <2>2
<1>4. DiagTypes' /\ OwnSteps' /\ Told' /\ Clean' /\ Pinging' /\ Tracing' /\ Posting'
  BY <1>1, <1>2 DEF DiagTypes, OwnSteps, Told, Clean, Pinging, Tracing, Posting
<1>5. Asking'
  BY <1>2, <1>3 DEF Asking
<1> QED
  BY <1>4, <1>5 DEF DiagInv

\* The system's answer is the lookup's last.
LEMMA AskSystemKeeps == ASSUME DiagInv, AskSystem PROVE DiagInv'
<1> USE DiagLimits
<1> DEFINE all == Len(Types) * TypeCost
<1>1. /\ run.at = "system" /\ tool = "dns" /\ clock \in Nat /\ mark \in Nat
      /\ clock <= RESOLVE + all /\ told \in {"nothing", "partial"}
  BY DEF DiagInv, DiagTypes, OwnSteps, Told, Asking, AskSystem
<1>2. Takes(SYSTEM) /\ UNCHANGED <<tool, mark, told>> /\ run' = [at |-> "post", k |-> 1]
  BY Zenon DEF AskSystem, Failed, Goto
<1>3. Work = RESOLVE + all + SYSTEM /\ all \in Nat
  BY <1>1, WorkIs, OneMore
<1>4. clock' \in Nat /\ clock' <= clock + SYSTEM
  BY <1>1, <1>2, TakesAtMost
<1> HIDE DEF all
<1>5. clock' <= Work
  BY <1>1, <1>3, <1>4
<1> QED
  BY <1>1, <1>2, <1>4, <1>5, ComesToPost

\* What the tries take.
LEMMA Tries == ASSUME NEW k \in 1 .. FINAL_TRIES
               PROVE  (k - 1) * TryCost \in Nat /\ ((k + 1) - 1) * TryCost = (k - 1) * TryCost + POST_TIMEOUT + POST_WAIT
<1> USE DiagLimits
<1>1. k \in Nat /\ k > 0
  BY DEF FINAL_TRIES
<1>2. (k - 1) * TryCost \in Nat /\ (k - 1) * TryCost + TryCost = k * TryCost /\ ((k + 1) - 1) * TryCost = k * TryCost
  BY <1>1, OneMore
<1> DEFINE before == (k - 1) * TryCost
<1>3. before + TryCost = before + POST_TIMEOUT + POST_WAIT
  <2>1. before \in Nat
    BY <1>2
  <2> HIDE DEF before
  <2> QED
    BY <2>1 DEF TryCost
<1> QED
  BY <1>2, <1>3, Zenon

\* A try ends in its time: on Argus, or in a wait, or as the last.
LEMMA PostWholeKeeps == ASSUME DiagInv, PostWhole PROVE DiagInv'
<1> USE DiagLimits
<1> DEFINE before == (run.k - 1) * TryCost
<1>1. /\ run.at = "post" /\ tool \in {"ping", "traceroute", "dns", "unfit"} /\ clock \in Nat /\ mark \in Nat
      /\ run.k \in 1 .. FINAL_TRIES /\ clock <= Work + before
      /\ told \in {"nothing", "partial", "whole"} /\ (tool = "unfit" => result.error)
  BY DEF DiagInv, DiagTypes, OwnSteps, Posting, PostWhole
<1>2. PICK o \in {"failed", "taken", "unheard"} :
         /\ told' = IF o = "failed" THEN told ELSE "whole"
         /\ run' = [at |-> IF AfterTry(run.k, FINAL_TRIES, o) = "again" THEN "wait" ELSE "end", k |-> run.k]
  <2>1. PICK v4 \in Families, v6 \in Families : \E o \in PostOutcomes(v4, v6) :
           /\ told' = IF o = "failed" THEN told ELSE "whole"
           /\ run' = [at |-> IF AfterTry(run.k, FINAL_TRIES, o) = "again" THEN "wait" ELSE "end", k |-> run.k]
    BY Zenon DEF PostWhole, Goto
  <2>2. PostOutcomes(v4, v6) \subseteq {"failed", "taken", "unheard"}
    BY DEF PostOutcomes
  <2> QED
    BY <2>1, <2>2, Zenon
<1>3. Takes(POST_TIMEOUT) /\ UNCHANGED <<tool, mark, result>>
  BY DEF PostWhole
<1>4. clock' \in Nat /\ clock' <= clock + POST_TIMEOUT
  BY <1>1, <1>3, TakesAtMost
<1>5. Work' = Work /\ Work \in Nat
  BY <1>1, <1>3, WorkIs DEF Work
<1>6. before \in Nat
  BY <1>1, Tries
<1> HIDE DEF before
<1>7. clock' <= Work + before + POST_TIMEOUT
  BY <1>1, <1>4, <1>5, <1>6
<1>8. run'.k = run.k /\ run' \in [at : {"wait", "end"}, k : Nat] /\ told' \in {"nothing", "partial", "whole"}
  BY <1>1, <1>2 DEF FINAL_TRIES
<1>9. /\ run'.at = "wait" => run.k < FINAL_TRIES
      /\ run'.at = "end" /\ told' # "whole" => run.k = FINAL_TRIES
  <2>1. CASE run.k < FINAL_TRIES
    BY <1>2, <2>1 DEF AfterTry
  <2>2. CASE ~ (run.k < FINAL_TRIES)
    <3>1. run.k = FINAL_TRIES
      BY <1>1, <2>2 DEF FINAL_TRIES
    <3>2. AfterTry(run.k, FINAL_TRIES, o) # "again"
      BY <2>2 DEF AfterTry
    <3> QED
      BY <1>2, <3>1, <3>2
  <2> QED
    BY <2>1, <2>2
<1>10. DiagTypes' /\ OwnSteps' /\ Told' /\ Clean'
  BY <1>1, <1>3, <1>4, <1>8, <1>9 DEF DiagTypes, OwnSteps, Told, Clean
<1>11. Pinging' /\ Tracing' /\ Asking'
  BY <1>8 DEF Pinging, Tracing, Asking
<1>12. Posting'
  <2>1. (run'.k - 1) * TryCost = before
    BY <1>8 DEF before
  <2> QED
    BY <1>1, <1>5, <1>7, <1>8, <1>9, <2>1, Zenon DEF Posting
<1> QED
  BY <1>10, <1>11, <1>12 DEF DiagInv

\* The next try after a wait.
LEMMA TryAgainKeeps == ASSUME DiagInv, TryAgain PROVE DiagInv'
<1> USE DiagLimits
<1> DEFINE before == (run.k - 1) * TryCost
<1>1. /\ run.at = "wait" /\ tool \in {"ping", "traceroute", "dns", "unfit"} /\ clock \in Nat /\ mark \in Nat
      /\ run.k \in 1 .. FINAL_TRIES /\ run.k < FINAL_TRIES /\ clock <= Work + before + POST_TIMEOUT
      /\ told \in {"nothing", "partial", "whole"} /\ (tool = "unfit" => result.error)
  BY DEF DiagInv, DiagTypes, OwnSteps, Posting, TryAgain
<1>2. /\ clock' = clock + POST_WAIT /\ run' = [at |-> "post", k |-> run.k + 1]
      /\ UNCHANGED <<tool, mark, result, told>>
  BY DEF TryAgain, Goto
<1>3. Work' = Work /\ Work \in Nat
  BY <1>1, <1>2, WorkIs DEF Work
<1>4. before \in Nat /\ ((run.k + 1) - 1) * TryCost = before + POST_TIMEOUT + POST_WAIT
  BY <1>1, Tries
<1> HIDE DEF before
<1>5. clock + POST_WAIT \in Nat /\ clock + POST_WAIT <= Work + (before + POST_TIMEOUT + POST_WAIT)
  BY <1>1, <1>3, <1>4
<1>6. run.k + 1 \in 1 .. FINAL_TRIES /\ run.k + 1 \in Nat
  BY <1>1 DEF FINAL_TRIES
<1>7. DiagTypes' /\ OwnSteps' /\ Told' /\ Clean' /\ Pinging' /\ Tracing' /\ Asking'
  BY <1>1, <1>2, <1>5, <1>6 DEF DiagTypes, OwnSteps, Told, Clean, Pinging, Tracing, Asking
<1>8. Posting'
  <2>1. clock' <= Work' + (run'.k - 1) * TryCost
    BY <1>2, <1>3, <1>4, <1>5, Zenon
  <2> QED
    BY <1>2, <1>6, <2>1 DEF Posting
<1> QED
  BY <1>7, <1>8 DEF DiagInv

\* Every step.
LEMMA DiagKept == ASSUME DiagInv, [DiagNext]_diagVars PROVE DiagInv'
<1>1. CASE UNCHANGED diagVars
  BY <1>1 DEF diagVars, DiagInv, DiagTypes, OwnSteps, Told, Clean, Pinging, Tracing, Asking, Posting, Work
<1> QED
  BY <1>1, RefusedKeeps, BeginsKeeps, PingKeeps, HopKeeps, TraceEndsKeeps, ProgressKeeps,
     AskServerKeeps, NoServerKeeps, AskSystemKeeps, PostWholeKeeps, TryAgainKeeps, Zenon DEF DiagNext

\* Where a run is, it has taken no more than its steps so far may.
THEOREM DiagInductive == DiagSpec => []DiagInv
  BY DiagStarts, DiagKept, PTL DEF DiagSpec

\* A run ends on Argus, with its result or with why, or after three tries.
THEOREM RunEnds == DiagSpec => []RunEndsOnCore
<1>1. DiagInv => RunEndsOnCore
  BY DEF DiagInv, DiagTypes, OwnSteps, Told, RunEndsOnCore
<1> QED
  BY <1>1, DiagInductive, PTL

\* Wherever a run is, that is no more than its work and its tries.
LEMMA DiagFits == ASSUME DiagInv PROVE DiagInTime
<1> USE DiagLimits
<1>1. /\ tool \in {"ping", "traceroute", "dns", "unfit"} /\ clock \in Nat /\ mark \in Nat /\ run.k \in Nat
      /\ run.at \in {"clean", "ping", "hop", "server", "system", "progress", "post", "wait", "end"}
  BY DEF DiagInv, DiagTypes
<1>2. Work \in Nat /\ Work >= RESOLVE
  BY <1>1, WorkIs
<1>3. CASE run.at \in {"clean", "ping", "hop", "server", "system", "progress"}
  <2>1. CASE run.at = "clean"
    BY <1>2, <2>1 DEF DiagInv, Clean, DiagInTime, FINAL_TRIES
  <2>2. CASE run.at \in {"ping", "progress"} /\ tool = "ping"
    <3> DEFINE before == (run.k - 1) * PingCost
               all == COUNT * PingCost
    <3>1. /\ run.k \in 1 .. COUNT /\ mark <= RESOLVE + before /\ clock <= mark + PING
      BY <1>1, <2>2 DEF DiagInv, Pinging
    <3>2. before + PingCost <= all /\ before \in Nat /\ all \in Nat
      <4>1. run.k > 0 /\ run.k <= COUNT
        BY <3>1
      <4>2. before \in Nat /\ before + PingCost = run.k * PingCost /\ run.k * PingCost <= all /\ all \in Nat
        BY <1>1, <4>1, OneMore, Zenon
      <4> QED
        BY <4>2, Zenon
    <3>3. Work = RESOLVE + all
      BY <1>1, <2>2, WorkIs
    <3> HIDE DEF before, all
    <3>4. clock <= Work
      BY <1>1, <3>1, <3>2, <3>3
    <3> QED
      BY <1>1, <1>2, <3>4 DEF DiagInTime, FINAL_TRIES
  <2>3. CASE run.at \in {"hop", "progress"} /\ tool = "traceroute"
    <3>1. mark <= RESOLVE + TRACE_DEADLINE /\ clock <= mark + HOP
      BY <1>1, <2>3 DEF DiagInv, Tracing
    <3>2. clock <= Work
      BY <1>1, <2>3, <3>1, WorkIs
    <3> QED
      BY <1>1, <1>2, <3>2 DEF DiagInTime, FINAL_TRIES
  <2>4. CASE run.at \in {"server", "system"}
    <3> DEFINE before == (run.k - 1) * TypeCost
               all == Len(Types) * TypeCost
    <3>1. tool = "dns"
      BY <2>4 DEF DiagInv, OwnSteps
    <3>2. Work = RESOLVE + all + SYSTEM /\ all \in Nat
      BY <1>1, <3>1, WorkIs, OneMore
    <3>3. clock <= RESOLVE + all
      <4>1. CASE run.at = "server"
        <5>1. run.k \in 1 .. Len(Types) /\ clock <= RESOLVE + before
          BY <4>1 DEF DiagInv, Asking
        <5>2. run.k > 0 /\ run.k <= Len(Types)
          BY <5>1
        <5>3. before \in Nat /\ before + TypeCost = run.k * TypeCost /\ run.k * TypeCost <= all
          BY <1>1, <5>2, OneMore, Zenon
        <5>4. before + TypeCost <= all
          BY <5>3, Zenon
        <5> HIDE DEF before, all
        <5> QED
          BY <1>1, <3>2, <5>1, <5>3, <5>4
      <4>2. CASE run.at = "system"
        BY <4>2 DEF DiagInv, Asking
      <4> QED
        BY <2>4, <4>1, <4>2
    <3> HIDE DEF before, all
    <3>4. clock <= Work
      BY <1>1, <3>2, <3>3
    <3> QED
      BY <1>1, <1>2, <3>4 DEF DiagInTime, FINAL_TRIES
  <2> QED
    BY <1>1, <1>3, <2>1, <2>2, <2>3, <2>4 DEF DiagInv, OwnSteps
<1>4. CASE run.at \in {"post", "wait", "end"}
  <2>1. /\ run.k \in 1 .. FINAL_TRIES
        /\ clock <= Work + (run.k - 1) * TryCost + POST_TIMEOUT
    <3>1. /\ run.k \in 1 .. FINAL_TRIES
          /\ run.at = "post" => clock <= Work + (run.k - 1) * TryCost
          /\ run.at \in {"wait", "end"} => clock <= Work + (run.k - 1) * TryCost + POST_TIMEOUT
      BY <1>4 DEF DiagInv, Posting
    <3> DEFINE before == (run.k - 1) * TryCost
    <3>2. before \in Nat
      BY <3>1, Tries
    <3> HIDE DEF before
    <3>3. run.at = "post" => clock <= Work + before + POST_TIMEOUT
      <4>1. run.at = "post" => clock <= Work + before
        BY <3>1 DEF before
      <4> QED
        BY <1>1, <1>2, <3>2, <4>1
    <3> QED
      BY <1>4, <3>1, <3>3, Zenon DEF before
  <2>2. (run.k - 1) * TryCost <= 2 * TryCost
    <3>1. run.k = 1 \/ run.k = 2 \/ run.k = 3
      BY <2>1 DEF FINAL_TRIES
    <3>2. (1 - 1) * TryCost <= 2 * TryCost /\ (2 - 1) * TryCost <= 2 * TryCost /\ (3 - 1) * TryCost <= 2 * TryCost
      OBVIOUS
    <3> QED
      BY <3>1, <3>2
  <2>3. (run.k - 1) * TryCost \in Nat
    BY <2>1, Tries
  <2> DEFINE before == (run.k - 1) * TryCost
  <2> HIDE DEF before
  <2>4. before \in Nat /\ before <= 2 * TryCost /\ clock <= Work + before + POST_TIMEOUT
    BY <2>1, <2>2, <2>3 DEF before
  <2> QED
    BY <1>1, <1>2, <2>4 DEF DiagInTime, FINAL_TRIES, TryCost
<1> QED
  BY <1>1, <1>3, <1>4

\* A run takes no more than its tool's work and three tries.
THEOREM DiagIsInTime == DiagSpec => []DiagInTime
<1>1. DiagInv => DiagInTime
  BY DiagFits
<1> QED
  BY <1>1, DiagInductive, PTL

-----------------------------------------------------------------------------
(* Types *)

\* The scan's state, its rows and what it tells are of their types.
THEOREM NetTypesHold == NetSpec => []NetTypeOK
<1> DEFINE Rest == verdict \in {"none", "partial", "why"} /\ heard \in Nat
<1>1. NetInit => Rest
  BY DEF NetInit
<1>2. Rest /\ [NetNext]_netVars => Rest'
  <2> SUFFICES ASSUME Rest, [NetNext]_netVars PROVE Rest'
    OBVIOUS
  <2>1. CASE PostTry
    <3>1. verdict' = verdict /\ (heard' = heard \/ heard' = heard + 1)
      BY <2>1 DEF PostTry
    <3> QED
      BY <3>1
  <2>2. CASE \E w \in Workers : TakeTarget(w) \/ HostScanned(w)
    BY <2>2 DEF TakeTarget, HostScanned
  <2>3. CASE SweepEnds \/ ScanRaises
    BY <2>3 DEF SweepEnds, ScanRaises, SweepError
  <2>4. CASE NextController \/ ControllerDone \/ Enriched \/ EnrichRaises \/ PostAgain \/ NetTick
    BY <2>4 DEF NextController, ControllerDone, Enriched, EnrichRaises, PostAgain, NetTick
  <2>5. CASE UNCHANGED netVars
    BY <2>5 DEF netVars
  <2> QED
    BY <2>1, <2>2, <2>3, <2>4, <2>5, Zenon DEF NetNext
<1>3. NetInv /\ RowInv /\ Rest => NetTypeOK
  BY Zenon DEF NetInv, Deadlines, RowInv, RowTypes, NetTypeOK
<1> QED
  BY <1>1, <1>2, <1>3, NetInductive, RowsInductive, PTL DEF NetSpec

\* A name that can't be looked up leaves a result all the same.
LEMMA ResultFails == ASSUME Failed
                     PROVE  result' = [last |-> None, server |-> <<>>, system |-> <<>>, differ |-> FALSE, error |-> TRUE]
  BY DEF Failed, NoResult

\* A result is what the replies, hops and answers so far make of it.
ResultType == [last : Replies \cup Hops \cup {None}, server : Seq(Answers), system : Seq(Answers),
               differ : BOOLEAN, error : BOOLEAN]

\* What a run keeps of what it was answered.
LEMMA ResultKept == ASSUME result \in ResultType, [DiagNext]_diagVars PROVE result' \in ResultType
<1>1. CASE Failed
  <2>1. result' = [last |-> None, server |-> <<>>, system |-> <<>>, differ |-> FALSE, error |-> TRUE]
    BY <1>1, ResultFails
  <2> QED
    BY <2>1 DEF ResultType
<1>2. CASE Ping \/ Hop
  <2>1. PICK r \in Replies \cup Hops : result' = [result EXCEPT !.last = r]
    BY <1>2 DEF Ping, Hop
  <2> QED
    BY <2>1 DEF ResultType
<1>3. CASE AskServer /\ ~Failed
  <2>1. PICK a \in Answers : result' = [result EXCEPT !.server = Append(result.server, a)]
    BY <1>3 DEF AskServer
  <2>2. Append(result.server, a) \in Seq(Answers)
    BY <2>1 DEF ResultType
  <2> QED
    BY <2>1, <2>2 DEF ResultType
<1>4. CASE NoServer
  BY <1>4 DEF NoServer, ResultType
<1>5. CASE AskSystem /\ ~Failed
  <2>1. PICK s \in [DOMAIN SystemTypes -> {b \in Answers : b.values # {} <=> b.error = "none"}] :
           result' = [result EXCEPT !.system = s, !.differ = result.server # <<>> /\ differ(result.server, s)]
    BY <1>5, Zenon DEF AskSystem
  <2>2. s \in Seq(Answers)
    <3>1. SystemTypes \in Seq(DNS_TYPES)
      BY DiagAssumption DEF SystemTypes
    <3>2. DOMAIN SystemTypes = 1 .. Len(SystemTypes) /\ Len(SystemTypes) \in Nat
      BY <3>1
    <3>3. s \in [1 .. Len(SystemTypes) -> Answers]
      BY <2>1, <3>2
    <3> QED
      BY <3>2, <3>3
  <2> DEFINE d == result.server # <<>> /\ differ(result.server, s)
  <2>3. d \in BOOLEAN
    BY Zenon
  <2>4. result' = [result EXCEPT !.system = s, !.differ = d]
    BY <2>1, Zenon
  <2> HIDE DEF d
  <2> QED
    BY <2>2, <2>3, <2>4 DEF ResultType
<1>6. CASE UNCHANGED result
  BY <1>6
<1> QED
  BY <1>1, <1>2, <1>3, <1>4, <1>5, <1>6, Zenon
     DEF DiagNext, Refused, Begins, TraceEnds, Progress, AskServer, AskSystem, PostWhole, TryAgain, diagVars

\* No more hops than were asked for, and a look past the last.
LEMMA HopsCounted == ASSUME DiagInv, HopsCount, [DiagNext]_diagVars PROVE HopsCount'
<1>0. /\ run \in [at : {"clean", "ping", "hop", "server", "system", "progress", "post", "wait", "end"}, k : Nat]
      /\ run.at = "progress" => tool \in {"ping", "traceroute"}
      /\ run.at = "ping" => tool = "ping"
      /\ MAX_HOPS \in Nat /\ MAX_HOPS > 0
  <2>1. MAX_HOPS \in Nat /\ MAX_HOPS > 0
    <3>1. {COUNT, MAX_HOPS, RESOLVE, PING, HOP, EXCHANGE, SYSTEM, POST_TIMEOUT} \subseteq Nat /\ MAX_HOPS > 0
      BY DiagAssumption, Zenon
    <3> QED
      BY <3>1
  <2> QED
    BY <2>1 DEF DiagInv, DiagTypes, OwnSteps
<1>1. CASE Refused \/ TraceEnds
  <2>1. run' = [at |-> "post", k |-> 1]
    BY <1>1 DEF Refused, Failed, TraceEnds, Goto
  <2> QED
    BY <2>1 DEF HopsCount
<1>2. CASE Begins
  <2>1. tool \in {"ping", "traceroute", "dns"} /\ tool' = tool
    BY <1>2 DEF DiagInv, DiagTypes, Begins
  <2>2. run'.k = 1 /\ run'.at \in {"ping", "hop", "server"}
    BY <1>2, <2>1 DEF Begins, Goto
  <2> QED
    BY <1>0, <2>2 DEF HopsCount
<1>3. CASE Ping
  <2>1. run' = [at |-> "progress", k |-> run.k] /\ tool' = "ping"
    BY <1>0, <1>3 DEF Ping, Goto
  <2> QED
    BY <2>1 DEF HopsCount
<1>4. CASE Hop
  <2>1. run' = [at |-> "progress", k |-> run.k] /\ run.k \in 1 .. MAX_HOPS
    BY <1>0, <1>4 DEF Hop, Goto, HopsCount
  <2> QED
    BY <2>1 DEF HopsCount
<1>5. CASE Progress
  <2>1. run.at = "progress" /\ tool' = tool /\ \E after : AfterProgress(after)
    BY <1>5, Zenon DEF Progress
  <2>2. \/ run'.at \in {"ping", "post"}
        \/ tool = "traceroute" /\ run' = [at |-> "hop", k |-> run.k + 1]
    <3>1. PICK after : AfterProgress(after)
      BY <2>1
    <3>2. CASE tool = "ping"
      <4>1. run' = [at |-> "ping", k |-> run.k + 1] \/ run' = [at |-> "post", k |-> 1]
        BY <3>1, <3>2, Zenon DEF AfterProgress, Goto
      <4> QED
        BY <4>1
    <3>3. CASE tool = "traceroute"
      <4>1. run' = [at |-> "hop", k |-> run.k + 1] \/ run' = [at |-> "post", k |-> 1]
        BY <3>1, <3>3, Zenon DEF AfterProgress, Goto
      <4> QED
        BY <3>3, <4>1
    <3> QED
      BY <1>0, <2>1, <3>2, <3>3
  <2>3. CASE run'.at \in {"ping", "post"}
    BY <2>3 DEF HopsCount
  <2>4. CASE tool = "traceroute" /\ run' = [at |-> "hop", k |-> run.k + 1]
    <3>1. run.k \in 1 .. MAX_HOPS
      BY <2>1, <2>4 DEF HopsCount
    <3> QED
      BY <1>0, <2>4, <3>1 DEF HopsCount
  <2> QED
    BY <2>2, <2>3, <2>4
<1>6. CASE AskServer
  <2>1. run' = [at |-> "post", k |-> 1] \/ run'.at = "server" \/ run' = [at |-> "system", k |-> 1]
    <3>1. \/ run' = [at |-> "post", k |-> 1]
          \/ run' = [at |-> "server", k |-> run.k + 1]
          \/ run' = [at |-> "system", k |-> 1]
      BY <1>6, Zenon DEF AskServer, Failed, Goto
    <3> QED
      BY <3>1
  <2> QED
    BY <2>1 DEF HopsCount
<1>7. CASE NoServer
  <2>1. run' = [at |-> "system", k |-> 1]
    BY <1>7 DEF NoServer, Goto
  <2> QED
    BY <2>1 DEF HopsCount
<1>8. CASE AskSystem
  <2>1. run' = [at |-> "post", k |-> 1]
    BY <1>8, Zenon DEF AskSystem, Failed, Goto
  <2> QED
    BY <2>1 DEF HopsCount
<1>9. CASE PostWhole
  <2>1. run'.at \in {"wait", "end"}
    BY <1>9 DEF PostWhole, Goto
  <2> QED
    BY <2>1 DEF HopsCount
<1>10. CASE TryAgain
  <2>1. run'.at = "post"
    BY <1>10 DEF TryAgain, Goto
  <2> QED
    BY <2>1 DEF HopsCount
<1>11. CASE UNCHANGED diagVars
  BY <1>11 DEF diagVars, HopsCount
<1> QED
  BY <1>1, <1>2, <1>3, <1>4, <1>5, <1>6, <1>7, <1>8, <1>9, <1>10, <1>11, Zenon DEF DiagNext

\* The number a run is at is that of a ping, a hop, a type or a try.
LEMMA NumbersFit == ASSUME DiagInv, HopsCount
                    PROVE  run \in [at : {"clean", "ping", "hop", "server", "system", "progress", "post", "wait", "end", "dead"},
                                    k : 0 .. COUNT + MAX_HOPS + Len(Types) + FINAL_TRIES]
<1>1. COUNT \in Nat /\ Len(Types) \in Nat
  BY DiagLimits
<1>2. MAX_HOPS \in Nat
  <2>1. {COUNT, MAX_HOPS, RESOLVE, PING, HOP, EXCHANGE, SYSTEM, POST_TIMEOUT} \subseteq Nat
    BY DiagAssumption, Zenon
  <2> QED
    BY <2>1
<1>3. run \in [at : {"clean", "ping", "hop", "server", "system", "progress", "post", "wait", "end"}, k : Nat]
  BY DEF DiagInv, DiagTypes
<1>4. \/ run.k \in 0 .. 1 \/ run.k \in 1 .. COUNT \/ run.k \in 1 .. MAX_HOPS + 1
      \/ run.k \in 1 .. Len(Types) \/ run.k \in 1 .. FINAL_TRIES
  <2>1. CASE run.at \in {"clean", "hop", "system"}
    BY <2>1 DEF HopsCount
  <2>2. CASE run.at \in {"ping", "progress"}
    <3>1. tool = "ping" \/ (tool = "traceroute" /\ run.at = "progress")
      BY <2>2 DEF DiagInv, OwnSteps
    <3>2. CASE tool = "ping"
      BY <2>2, <3>2 DEF DiagInv, Pinging
    <3>3. CASE tool = "traceroute" /\ run.at = "progress"
      BY <1>2, <3>3 DEF HopsCount
    <3> QED
      BY <3>1, <3>2, <3>3
  <2>3. CASE run.at = "server"
    BY <2>3 DEF DiagInv, Asking
  <2>4. CASE run.at \in {"post", "wait", "end"}
    BY <2>4 DEF DiagInv, Posting
  <2> QED
    BY <1>3, <2>1, <2>2, <2>3, <2>4
<1>5. run.k \in 0 .. COUNT + MAX_HOPS + Len(Types) + FINAL_TRIES
  BY <1>1, <1>2, <1>4 DEF FINAL_TRIES
<1> DEFINE most == COUNT + MAX_HOPS + Len(Types) + FINAL_TRIES
<1>6. run.k \in 0 .. most
  BY <1>5
<1> HIDE DEF most
<1>7. run \in [at : {"clean", "ping", "hop", "server", "system", "progress", "post", "wait", "end", "dead"}, k : 0 .. most]
  BY <1>3, <1>6
<1> QED
  BY <1>7 DEF most

\* A run's state and what it has of an answer are of their types.
THEOREM DiagTypesHold == DiagSpec => []DiagTypeOK
<1> DEFINE Rest == HopsCount /\ result \in ResultType /\ posted \in Nat \cup {None}
<1>1. DiagInit => Rest
  <2> SUFFICES ASSUME DiagInit PROVE Rest
    OBVIOUS
  <2>1. run = [at |-> "clean", k |-> 0] /\ posted = None
    BY DEF DiagInit
  <2>2. result = [last |-> None, server |-> <<>>, system |-> <<>>, differ |-> FALSE, error |-> FALSE]
    BY DEF DiagInit, NoResult
  <2> QED
    BY <2>1, <2>2 DEF HopsCount, ResultType
<1>2. DiagInv /\ Rest /\ [DiagNext]_diagVars => Rest'
  <2> SUFFICES ASSUME DiagInv, Rest, [DiagNext]_diagVars PROVE Rest'
    OBVIOUS
  <2>1. posted' \in {posted, clock}
    BY Zenon DEF DiagNext, Refused, Begins, Ping, Hop, TraceEnds, Progress, AskServer, NoServer, AskSystem,
       PostWhole, TryAgain, diagVars
  <2>2. clock \in Nat
    BY DEF DiagInv, DiagTypes
  <2> QED
    BY <2>1, <2>2, HopsCounted, ResultKept
<1>3. DiagInv /\ Rest => DiagTypeOK
  <2> SUFFICES ASSUME DiagInv, Rest PROVE DiagTypeOK
    OBVIOUS
  <2>1. /\ tool \in {"ping", "traceroute", "dns", "unfit"} /\ clock \in Nat /\ mark \in Nat
        /\ told \in {"nothing", "partial", "whole"}
    BY DEF DiagInv, DiagTypes
  <2> QED
    BY <2>1, NumbersFit, Zenon DEF DiagTypeOK, ResultType
<1> QED
  BY <1>1, <1>2, <1>3, DiagInductive, PTL DEF DiagSpec

===============================================================================

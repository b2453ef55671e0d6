----------------------------- MODULE Checks_proofs -----------------------------
(***************************************************************************)
(* Theorems about the checks Zabbix starts, for any number of URLs, ports, *)
(* streams, pollers, addresses and certificates and for any limits: an     *)
(* address of XCP-ng is trusted with one certificate only; a website is    *)
(* up, or down for a reason, only as it was found; a port's reading comes  *)
(* in time; a speed is read over a span of time in which data was moved.   *)
(* The last of them are about MCChecks, which runs them and the jobs of    *)
(* Jobs_proofs one at a time.                                              *)
(***************************************************************************)
EXTENDS MCChecks, Jobs_proofs, FiniteSetTheorems, TLAPS

-----------------------------------------------------------------------------
(* Xcpng *)

\* What every step makes of its poll's record.
Moved(p, r) ==
  /\ poll' = [poll EXCEPT ![p] = r]
  /\ r.at # "idle" => r.addr \in Names
  /\ r.at \in {"check", "learn", "write"} => r.got \in Presented
  /\ r.at \in {"learn", "write"} => r.addr = poll[p].addr /\ r.got = poll[p].got

\* Every poll that goes on keeps its address and, at the check, its certificate.
LEMMA BecomesMoved == ASSUME PinTypes, NEW p \in Polls, NEW at \in PollSteps, Becomes(p, at), ~At(p, "idle"),
                             at # "check", at \in {"learn", "write"} => poll[p].got \in Presented
                      PROVE  \E r \in PollType : Moved(p, r) /\ r.at = at
<1> DEFINE r == [poll[p] EXCEPT !.at = at]
<1>1. poll[p] \in PollType
  BY DEF PinTypes
<1>a. poll[p].addr \in Names
  BY DEF PinTypes
<1>2. r \in PollType /\ r.at = at /\ r.addr = poll[p].addr /\ r.got = poll[p].got
  BY <1>1 DEF PollType
<1>3. poll' = [poll EXCEPT ![p] = r]
  BY DEF Becomes, Now
<1> HIDE DEF r
<1> QED
  BY <1>a, <1>2, <1>3 DEF Moved

\* A connection is for an address.
LEMMA ConnectsMoved == ASSUME PinTypes, NEW p \in Polls, NEW for \in {"login", "rates"}, NEW a \in Names,
                              NEW try \in 1 .. 2, NEW hosts \in SUBSET Members, Connects(p, for, a, try, hosts)
                       PROVE  \E r \in PollType : Moved(p, r) /\ r.at = "connect"
<1> DEFINE r == [at |-> "connect", for |-> for, addr |-> a, try |-> try, got |-> None, hosts |-> hosts]
<1>1. r \in PollType /\ r.at = "connect" /\ r.addr = a
  BY DEF PollType, PollSteps
<1>2. poll' = [poll EXCEPT ![p] = r]
  BY DEF Connects, Now
<1> HIDE DEF r
<1> QED
  BY <1>1, <1>2 DEF Moved

\* Every step of a poll.
LEMMA EveryStepMoves == ASSUME PinTypes, NEW p \in Polls, PollStep(p)
                        PROVE  \E r \in PollType : Moved(p, r)
<1>p. poll[p] \in PollType
  BY DEF PinTypes
<1>1. CASE PollBegins(p) \/ Redirect(p)
  BY <1>1, ConnectsMoved DEF PollBegins, Redirect
<1>2. CASE FetchRates(p)
  <2> PICK a \in poll[p].hosts : Connects(p, "rates", a, poll[p].try, poll[p].hosts \ {a})
    BY <1>2 DEF FetchRates
  <2> a \in Names /\ poll[p].try \in 1 .. 2 /\ poll[p].hosts \ {a} \in SUBSET Members
    BY <1>p, XcpngAssumption DEF PollType
  <2> QED
    BY ConnectsMoved
<1>3. CASE Shake(p)
  <2> DEFINE c == presents[poll[p].addr]
             r == [poll[p] EXCEPT !.at = "check", !.got = c]
  <2>1. poll[p].addr \in Names /\ c \in Presented
    BY <1>3 DEF Shake, PinTypes, At
  <2> HIDE DEF c
  <2>2. r \in PollType /\ r.at = "check" /\ r.got = c /\ r.addr = poll[p].addr
    BY <1>p, <2>1 DEF PollType, PollSteps
  <2>3. poll' = [poll EXCEPT ![p] = r]
    BY <1>3 DEF Shake, Now, c
  <2> HIDE DEF r
  <2> QED
    BY <2>1, <2>2, <2>3 DEF Moved
<1>4. CASE CallsDone(p)
  <2> PICK live \in SUBSET Members : Now(p, [poll[p] EXCEPT !.at = "rates", !.hosts = live])
    BY <1>4 DEF CallsDone
  <2> DEFINE r == [poll[p] EXCEPT !.at = "rates", !.hosts = live]
  <2>1. r \in PollType /\ r.at = "rates" /\ r.addr = poll[p].addr
    BY <1>p DEF PollType, PollSteps
  <2>2. poll' = [poll EXCEPT ![p] = r] /\ poll[p].addr \in Names
    BY <1>4 DEF Now, CallsDone, At, PinTypes
  <2> HIDE DEF r
  <2> QED
    BY <2>1, <2>2 DEF Moved
<1>5. CASE Emit(p) \/ Killed(p)
  <2>1. NoPoll \in PollType /\ NoPoll.at = "idle"
    BY DEF NoPoll, PollType, PollSteps
  <2> QED
    BY <1>5, <2>1 DEF Emit, Killed, Now, Moved
<1>6. CASE Unreachable(p) \/ LoggedIn(p) \/ LoginRefused(p) \/ CallFails(p) \/ RatesDone(p)
  BY <1>6, BecomesMoved
     DEF Unreachable, GivesUp, LoggedIn, LoginRefused, CallFails, RatesDone, At, PollSteps
<1>7. CASE ReadPin(p) \/ OpenPin(p) \/ WritePin(p) \/ NoPinStore(p)
  <2>1. poll[p].got \in Presented
    BY <1>7 DEF PinTypes, At, ReadPin, OpenPin, WritePin, NoPinStore
  <2> QED
    BY <1>7, <2>1, BecomesMoved
       DEF ReadPin, OpenPin, WritePin, NoPinStore, LetThrough, GivesUp, At, PollSteps
<1> QED
  BY <1>1, <1>2, <1>3, <1>4, <1>5, <1>6, <1>7 DEF PollStep

\* Pins, records and what was let through keep their types.
LEMMA TypesKept == ASSUME PinTypes, NEW p \in Polls, PollStep(p) PROVE PinTypes'
<1> PICK r \in PollType : Moved(p, r)
  BY EveryStepMoves
<1>1. /\ poll' \in [Polls -> PollType]
      /\ poll'[p] = r /\ \A q \in Polls \ {p} : poll'[q] = poll[q]
  BY DEF Moved, PinTypes
<1>2. \A q \in Polls : /\ ~At(q, "idle")' => poll'[q].addr \in Names
                       /\ poll'[q].at \in {"check", "learn", "write"} => poll'[q].got \in Presented
  BY <1>1 DEF Moved, PinTypes, At
<1>3. presents' = presents
  BY DEF PollStep, PollBegins, Shake, Unreachable, ReadPin, OpenPin, WritePin, NoPinStore, LoggedIn,
     Redirect, LoginRefused, CallFails, CallsDone, FetchRates, RatesDone, Emit, Killed
<1>4. CASE UNCHANGED <<pin, accepted>>
  BY <1>1, <1>2, <1>3, <1>4 DEF PinTypes
<1>5. CASE ReadPin(p) \/ WritePin(p) \/ NoPinStore(p)
  <2>1. poll[p].got \in Presented /\ poll[p].addr \in Names
    BY <1>5 DEF PinTypes, At, ReadPin, WritePin, NoPinStore
  <2>2. /\ pin' = pin \/ pin' = [pin EXCEPT ![poll[p].addr] = poll[p].got]
        /\ \/ accepted' = accepted
           \/ accepted' = [accepted EXCEPT ![poll[p].addr] = @ \cup {poll[p].got}]
    BY <1>5 DEF ReadPin, WritePin, NoPinStore, LetThrough
  <2> QED
    BY <1>1, <1>2, <1>3, <2>1, <2>2 DEF PinTypes
<1>6. CASE OpenPin(p)
  BY <1>1, <1>2, <1>3, <1>6 DEF OpenPin, PinTypes
<1> QED
  BY <1>4, <1>5, <1>6
     DEF PollStep, PollBegins, Shake, Unreachable, LoggedIn, Redirect, LoginRefused, CallFails,
         CallsDone, FetchRates, RatesDone, Emit, Killed

\* A step that leaves pins alone and doesn't take a poll to its first contact
\* changes nothing of what is known, unless it leaves one unfinished.
LEMMA OthersKeep ==
  ASSUME XcpInv, NEW p \in Polls, NEW r \in PollType, poll' = [poll EXCEPT ![p] = r],
         r.at \notin {"learn", "write"},
         pin' = pin, accepted' = accepted, unsure \subseteq unsure',
         At(p, "write") => poll[p].addr \in unsure'
  PROVE  \A a \in Names \ unsure' : Learned(a)'
<1> SUFFICES ASSUME NEW a \in Names \ unsure' PROVE Learned(a)'
  OBVIOUS
<1>1. Learned(a)
  BY DEF XcpInv
<1>2. poll'[p] = r /\ \A q \in Polls \ {p} : poll'[q] = poll[q]
  BY DEF XcpInv, PinTypes
<1>3. ~Learns(p, a)' /\ \A q \in Polls \ {p} : Learns(q, a)' = Learns(q, a) /\ At(q, "learn")' = At(q, "learn")
  BY <1>2 DEF Learns, At
<1>4. Learns(p, a) => pin[a] # "empty"
  BY <1>1, XcpngAssumption DEF Learned, Learns, At
<1> HIDE DEF Learns
<1> QED
  BY <1>1, <1>3, <1>4 DEF Learned

\* The address at hand has no other first contact under way, or is unsure.
LEMMA ReadPinKeeps == ASSUME XcpInv, NEW p \in Polls, ReadPin(p)
                      PROVE  \A a \in Names \ unsure' : Learned(a)'
<1> SUFFICES ASSUME NEW a \in Names \ unsure' PROVE Learned(a)'
  OBVIOUS
<1> DEFINE b == poll[p].addr
<1>1. Learned(a) /\ unsure \subseteq unsure'
  BY DEF XcpInv, ReadPin
<1>t. poll[p].got \in Presented /\ b \in Names /\ pin' = pin /\ poll[p] \in PollType
  BY DEF XcpInv, PinTypes, At, ReadPin
<1>2. a = b => \A q \in Polls \ {p} : ~Learns(q, a)
  BY <1>t DEF ReadPin, Learning, Learns
<1>3. CASE pin[b] \in {None, "empty"}
  <2>1. Becomes(p, "learn") /\ UNCHANGED accepted
    BY <1>3 DEF ReadPin
  <2>2. /\ poll'[p].at = "learn" /\ poll'[p].addr = b
        /\ \A q \in Polls \ {p} : poll'[q] = poll[q]
    BY <2>1, <1>t DEF Becomes, Now, XcpInv, PinTypes, PollType
  <2>3. /\ Learns(p, a)' = (a = b) /\ At(p, "learn")'
        /\ \A q \in Polls \ {p} : Learns(q, a)' = Learns(q, a) /\ At(q, "learn")' = At(q, "learn")
    BY <2>2 DEF Learns, At
  <2>4. ~Learns(p, a)
    BY DEF Learns, ReadPin, At
  <2>5. a = b => pin[a] = None
    BY <1>1, <1>2, <1>3, <2>4 DEF Learned
  <2> QED
    BY <1>1, <1>2, <1>t, <2>1, <2>3, <2>4, <2>5, XcpngAssumption DEF Learned
<1>4. CASE pin[b] \notin {None, "empty"}
  <2>1. \E r \in PollType : r.at \notin {"learn", "write"} /\ poll' = [poll EXCEPT ![p] = r]
    BY <1>4, <1>t DEF ReadPin, LetThrough, GivesUp, Becomes, Now, PollType, PollSteps
  <2>2. PICK r \in PollType : r.at \notin {"learn", "write"} /\ poll' = [poll EXCEPT ![p] = r]
    BY <2>1
  <2>3. poll'[p] = r /\ \A q \in Polls \ {p} : poll'[q] = poll[q]
    BY <2>2 DEF XcpInv, PinTypes
  <2>4. ~Learns(p, a)' /\ \A q \in Polls \ {p} : Learns(q, a)' = Learns(q, a) /\ At(q, "learn")' = At(q, "learn")
    BY <2>2, <2>3 DEF Learns, At
  <2>5. ~Learns(p, a)
    BY DEF Learns, ReadPin, At
  <2>6. \/ accepted' = accepted
        \/ pin[b] = poll[p].got /\ accepted' = [accepted EXCEPT ![b] = @ \cup {poll[p].got}]
    BY <1>4 DEF ReadPin, LetThrough
  <2>7. accepted'[a] = accepted[a] \/ (a = b /\ accepted'[a] = accepted[a] \cup {pin[a]} /\ pin[a] \in Presented)
    BY <2>6, <1>t DEF XcpInv, PinTypes
  <2> QED
    BY <1>1, <1>t, <2>4, <2>5, <2>7 DEF Learned
<1> QED
  BY <1>3, <1>4

\* The first contact's poll opens the pin's file: it is empty then, and its own.
LEMMA OpenPinKeeps == ASSUME XcpInv, NEW p \in Polls, OpenPin(p)
                      PROVE  \A a \in Names \ unsure' : Learned(a)'
<1> SUFFICES ASSUME NEW a \in Names \ unsure' PROVE Learned(a)'
  OBVIOUS
<1> DEFINE b == poll[p].addr
<1>1. Learned(a) /\ unsure' = unsure /\ accepted' = accepted
  BY DEF XcpInv, OpenPin
<1>2. /\ b \in Names /\ poll'[p].at = "write" /\ poll'[p].addr = b
      /\ \A q \in Polls \ {p} : poll'[q] = poll[q]
  BY DEF OpenPin, Becomes, Now, XcpInv, PinTypes, PollType, At
<1>3. pin'[a] = IF a = b THEN "empty" ELSE pin[a]
  BY <1>2 DEF OpenPin, XcpInv, PinTypes
<1>4. /\ Learns(p, a) = (a = b) /\ At(p, "learn")
      /\ Learns(p, a)' = (a = b) /\ ~At(p, "learn")'
      /\ \A q \in Polls \ {p} : Learns(q, a)' = Learns(q, a) /\ At(q, "learn")' = At(q, "learn")
  BY <1>2 DEF Learns, At, OpenPin
<1>5. a = b => accepted[a] = {}
  BY <1>1, <1>4, XcpngAssumption DEF Learned
<1>6. a = b => \A q \in Polls \ {p} : ~Learns(q, a)
  BY <1>1, <1>4 DEF Learned
<1> QED
  BY <1>1, <1>3, <1>4, <1>5, <1>6, XcpngAssumption DEF Learned

\* It writes the certificate it goes on with.
LEMMA WritePinKeeps == ASSUME XcpInv, NEW p \in Polls, WritePin(p)
                       PROVE  \A a \in Names \ unsure' : Learned(a)'
<1> SUFFICES ASSUME NEW a \in Names \ unsure' PROVE Learned(a)'
  OBVIOUS
<1> DEFINE b == poll[p].addr
<1>1. Learned(a) /\ unsure' = unsure
  BY DEF XcpInv, WritePin
<1>2. /\ b \in Names /\ poll[p].got \in Presented /\ poll'[p].at \notin {"learn", "write"}
      /\ \A q \in Polls \ {p} : poll'[q] = poll[q]
  BY DEF WritePin, LetThrough, Becomes, Now, XcpInv, PinTypes, PollType, At
<1>3. /\ pin'[a] = IF a = b THEN poll[p].got ELSE pin[a]
      /\ accepted'[a] = IF a = b THEN accepted[a] \cup {poll[p].got} ELSE accepted[a]
  BY <1>2 DEF WritePin, LetThrough, XcpInv, PinTypes
<1>4. /\ Learns(p, a) = (a = b) /\ ~At(p, "learn") /\ ~Learns(p, a)'
      /\ \A q \in Polls \ {p} : Learns(q, a)' = Learns(q, a) /\ At(q, "learn")' = At(q, "learn")
  BY <1>2 DEF Learns, At, WritePin
<1>5. a = b => accepted[a] = {}
  BY <1>1, <1>4, XcpngAssumption DEF Learned
<1>6. a = b => \A q \in Polls \ {p} : ~Learns(q, a)
  BY <1>1, <1>4 DEF Learned
<1>7. CASE a = b
  <2>1. pin'[a] \in Presented /\ pin'[a] # "empty" /\ accepted'[a] = {pin'[a]}
    BY <1>2, <1>3, <1>5, <1>7, XcpngAssumption
  <2>2. \A q \in Polls : ~Learns(q, a)'
    BY <1>4, <1>6, <1>7
  <2> QED
    BY <2>1, <2>2 DEF Learned
<1>8. CASE a # b
  BY <1>1, <1>3, <1>4, <1>8 DEF Learned
<1> QED
  BY <1>7, <1>8

\* Where the pins can't be read or written, nothing is known of the address.
LEMMA NoPinStoreKeeps == ASSUME XcpInv, NEW p \in Polls, NoPinStore(p)
                         PROVE  \A a \in Names \ unsure' : Learned(a)'
<1> SUFFICES ASSUME NEW a \in Names \ unsure' PROVE Learned(a)'
  OBVIOUS
<1> DEFINE b == poll[p].addr
<1>1. Learned(a) /\ pin' = pin /\ a # b
  BY DEF XcpInv, NoPinStore
<1>2. /\ b \in Names /\ poll'[p].at \notin {"learn", "write"}
      /\ \A q \in Polls \ {p} : poll'[q] = poll[q]
  BY DEF NoPinStore, LetThrough, Becomes, Now, XcpInv, PinTypes, PollType, At
<1>3. accepted'[a] = accepted[a]
  BY <1>1, <1>2 DEF NoPinStore, LetThrough, XcpInv, PinTypes
<1>4. /\ ~Learns(p, a) /\ ~Learns(p, a)'
      /\ \A q \in Polls \ {p} : Learns(q, a)' = Learns(q, a) /\ At(q, "learn")' = At(q, "learn")
  BY <1>1, <1>2 DEF Learns, At
<1> QED
  BY <1>1, <1>3, <1>4 DEF Learned

\* Every step of a poll keeps what is known.
LEMMA PollKeeps == ASSUME XcpInv, NEW p \in Polls, PollStep(p) PROVE XcpInv'
<1>1. PinTypes'
  BY TypesKept DEF XcpInv
<1>2. CASE ReadPin(p) \/ OpenPin(p) \/ WritePin(p) \/ NoPinStore(p)
  BY <1>1, <1>2, ReadPinKeeps, OpenPinKeeps, WritePinKeeps, NoPinStoreKeeps DEF XcpInv
<1>3. CASE ~(ReadPin(p) \/ OpenPin(p) \/ WritePin(p) \/ NoPinStore(p))
  <2>1. PICK r \in PollType : Moved(p, r)
    BY EveryStepMoves DEF XcpInv
  <2>2. /\ pin' = pin /\ accepted' = accepted /\ unsure \subseteq unsure'
        /\ At(p, "write") => poll[p].addr \in unsure'
    BY <1>3 DEF PollStep, PollBegins, Shake, Unreachable, LoggedIn, Redirect, LoginRefused, CallFails,
                CallsDone, FetchRates, RatesDone, Emit, Killed, At
  <2>3. poll'[p].at \notin {"learn", "write"}
    <3>1. poll \in [Polls -> PollType]
      BY DEF XcpInv, PinTypes
    <3>2. CASE PollBegins(p) \/ Redirect(p) \/ FetchRates(p)
      <4>1. ASSUME NEW for, NEW a, NEW try, NEW hosts, Connects(p, for, a, try, hosts)
            PROVE  poll'[p].at = "connect"
        BY <3>1, <4>1 DEF Connects, Now
      <4> QED
        BY <3>2, <4>1 DEF PollBegins, Redirect, FetchRates
    <3>3. CASE Shake(p) \/ CallsDone(p)
      <4>1. \E c, h : poll' = [poll EXCEPT ![p] = [poll[p] EXCEPT !.at = "check", !.got = c]]
                   \/ poll' = [poll EXCEPT ![p] = [poll[p] EXCEPT !.at = "rates", !.hosts = h]]
        BY <3>3 DEF Shake, CallsDone, Now
      <4>2. poll'[p].at \in {"check", "rates"}
        BY <3>1, <4>1 DEF PollType
      <4> QED
        BY <4>2
    <3>4. CASE Unreachable(p) \/ LoggedIn(p) \/ LoginRefused(p) \/ CallFails(p) \/ RatesDone(p)
      <4>1. \E at \in {"rates", "emit", "calls"} : poll' = [poll EXCEPT ![p] = [poll[p] EXCEPT !.at = at]]
        BY <3>4 DEF Unreachable, GivesUp, LoggedIn, LoginRefused, CallFails, RatesDone, Becomes, Now
      <4>2. poll'[p].at \in {"rates", "emit", "calls"}
        BY <3>1, <4>1 DEF PollType
      <4> QED
        BY <4>2
    <3>5. CASE Emit(p) \/ Killed(p)
      BY <3>1, <3>5 DEF Emit, Killed, Now, NoPoll
    <3> QED
      BY <1>3, <3>2, <3>3, <3>4, <3>5 DEF PollStep
  <2>4. poll' = [poll EXCEPT ![p] = r] /\ r.at \notin {"learn", "write"}
    BY <2>1, <2>3 DEF Moved, XcpInv, PinTypes
  <2> QED
    BY <1>1, <2>2, <2>4, OthersKeep DEF XcpInv
<1> QED
  BY <1>2, <1>3

\* A host's new certificate changes nothing of what is known; a pin that is
\* removed starts over, unless a poll is at its address.
LEMMA OutsideKeeps == ASSUME XcpInv, CertificateChanges \/ PinRemoved PROVE XcpInv'
<1>1. CASE CertificateChanges
  BY <1>1 DEF CertificateChanges, XcpInv, PinTypes, Learned, Learns, At
<1>2. CASE PinRemoved
  <2> PICK b \in Names :
        /\ pin' = [pin EXCEPT ![b] = None]
        /\ accepted' = [accepted EXCEPT ![b] = {}]
        /\ unsure' = IF \E p \in Polls : poll[p].addr = b THEN unsure \cup {b} ELSE unsure \ {b}
    BY <1>2 DEF PinRemoved
  <2>1. UNCHANGED <<presents, poll>>
    BY <1>2 DEF PinRemoved
  <2>2. PinTypes'
    <3>1. pin' \in [Names -> Presented \cup {None, "empty"}] /\ accepted' \in [Names -> SUBSET Presented]
      BY DEF XcpInv, PinTypes
    <3> QED
      BY <2>1, <3>1 DEF XcpInv, PinTypes, At
  <2>3. ASSUME NEW a \in Names \ unsure' PROVE Learned(a)'
    <3>1. CASE a = b
      BY <2>1, <3>1, XcpngAssumption DEF XcpInv, PinTypes, Learned, Learns
    <3>2. CASE a # b
      <4> Learned(a) /\ pin'[a] = pin[a] /\ accepted'[a] = accepted[a]
        BY <3>2 DEF XcpInv, PinTypes
      <4> QED
        BY <2>1 DEF Learned, Learns, At
    <3> QED
      BY <3>1, <3>2
  <2> QED
    BY <2>2, <2>3 DEF XcpInv
<1> QED
  BY <1>1, <1>2

\* What is known of an address, and the types it rests on, hold for ever.
THEOREM PinsInductive == XcpSpec => []XcpInv
<1>1. XcpInit => XcpInv
  <2> SUFFICES ASSUME XcpInit PROVE XcpInv
    OBVIOUS
  <2>1. NoPoll \in PollType /\ NoPoll.at = "idle"
    BY DEF NoPoll, PollType, PollSteps
  <2>2. PinTypes
    BY <2>1 DEF XcpInit, PinTypes, At
  <2>3. \A a \in Names : Learned(a)
    BY <2>1, XcpngAssumption DEF XcpInit, Learned, Learns
  <2> QED
    BY <2>2, <2>3 DEF XcpInv
<1>2. XcpInv /\ UNCHANGED xcpVars => XcpInv'
  BY DEF XcpInv, PinTypes, Learned, Learns, At, xcpVars
<1>3. XcpInv /\ [XcpNext]_xcpVars => XcpInv'
  BY <1>2, PollKeeps, OutsideKeeps DEF XcpNext
<1> QED
  BY <1>1, <1>3, PTL DEF XcpSpec

\* Until its pin is removed, an address is trusted with one certificate only,
\* however many pollers there are, whatever is presented and whenever a poll is
\* killed, unless its first contact was disturbed or its pin couldn't be kept.
THEOREM AddressesAreTrustedOnce == XcpSpec => []OneCertificate
<1>1. XcpInv => OneCertificate
  <2> SUFFICES ASSUME XcpInv, NEW a \in Names \ unsure PROVE Cardinality(accepted[a]) <= 1
    BY DEF OneCertificate
  <2>1. CASE pin[a] \notin Presented
    <3>1. accepted[a] = {}
      BY <2>1 DEF XcpInv, Learned
    <3>2. Cardinality(accepted[a]) = 0
      BY <3>1, FS_EmptySet
    <3> QED
      BY <3>2
  <2>2. CASE pin[a] \in Presented
    <3>1. accepted[a] \subseteq {pin[a]}
      BY <2>2 DEF XcpInv, Learned
    <3>2. accepted[a] = {} \/ accepted[a] = {pin[a]}
      BY <3>1
    <3>3. Cardinality(accepted[a]) = 0 \/ Cardinality(accepted[a]) = 1
      BY <3>2, FS_EmptySet, FS_Singleton
    <3> QED
      BY <3>3
  <2> QED
    BY <2>1, <2>2
<1> QED
  BY <1>1, PinsInductive, PTL

-----------------------------------------------------------------------------
(* HttpCheck *)

\* What holds of a thread and its result rests on the settings and on them only.
LEMMA SameSettings ==
    ASSUME UNCHANGED <<entry, hostmode, server>>, NEW u \in Urls, thread'[u] = thread[u]
    PROVE  /\ Knows(u, thread[u])' = Knows(u, thread[u])
           /\ results'[u] = results[u] => Stands(u)' = Stands(u) \/ printed'[u] # printed[u]
<1>1. Knows(u, thread[u])' = Knows(u, thread[u])
  BY DEF mode, Passed, Knows, OnTheHops, FoundOut
<1>2. ASSUME results'[u] = results[u], printed'[u] = printed[u] PROVE Stands(u)' = Stands(u)
  BY <1>2 DEF Stands, Earned, Reasoned, mode
<1> QED
  BY <1>1, <1>2

\* The other URLs' threads share nothing with it.
LEMMA OtherUrlsKeep ==
    ASSUME HttpInv, NEW u \in Urls, NEW t \in ThreadType, Step(u, t), 
           \A v \in Urls \ {u} : results'[v] = results[v]
    PROVE  /\ \A v \in Urls : (server'[v] = None) <=> ~entry'[v].tls
           /\ thread' \in [Urls -> ThreadType] /\ thread'[u] = t
           /\ \A v \in Urls \ {u} : Knows(v, thread[v])' /\ Stands(v)'
<1>1. /\ UNCHANGED <<entry, hostmode, server, httpmain, printed>>
      /\ thread' \in [Urls -> ThreadType] /\ thread'[u] = t
      /\ \A v \in Urls \ {u} : thread'[v] = thread[v]
  BY DEF Step, HttpInv, HttpTypeOK
<1>2. ASSUME NEW v \in Urls \ {u} PROVE Knows(v, thread[v])' /\ Stands(v)'
  <2>1. Knows(v, thread[v]) /\ Stands(v)
    BY DEF HttpInv
  <2>2. thread'[v] = thread[v] /\ results'[v] = results[v] /\ printed'[v] = printed[v]
    BY <1>1
  <2> QED
    BY <1>1, <2>1, <2>2, SameSettings
<1> QED
  BY <1>1, <1>2 DEF HttpInv

\* A thread that goes on keeps what it found out.
LEMMA GoKeeps ==
    ASSUME HttpInv, NEW u \in Urls, NEW t \in ThreadType, Go(u, t),
           thread[u].pc # "done", Knows(u, t)
    PROVE  HttpInv'
<1>1. Step(u, t) /\ UNCHANGED <<entry, hostmode, server, httpmain, printed, results>>
  BY DEF Go, Step
<1>2. /\ thread' \in [Urls -> ThreadType] /\ thread'[u] = t
      /\ \A v \in Urls : (server'[v] = None) <=> ~entry'[v].tls
      /\ \A v \in Urls \ {u} : Knows(v, thread[v])' /\ Stands(v)'
  BY <1>1, OtherUrlsKeep
<1>3. Knows(u, thread[u])'
  BY <1>1, <1>2 DEF Knows, OnTheHops, FoundOut, Passed, mode
<1>4. Stands(u)'
  BY <1>1, <1>2 DEF HttpInv, Stands
<1>5. HttpTypeOK'
  BY <1>1, <1>2 DEF HttpInv, HttpTypeOK
<1> QED
  BY <1>2, <1>3, <1>4, <1>5 DEF HttpInv

\* A thread that leaves a result must have found out what it says.
LEMMA LeaveKeeps ==
    ASSUME HttpInv, NEW u \in Urls, NEW t \in ThreadType, NEW r \in Results, Leave(u, t, r),
           thread[u].pc # "done", Earned(u, t, r), Reasoned(u, t, r),
           t.refused # "none" => FoundOut(u, t.refused)
    PROVE  HttpInv'
<1> DEFINE d == [t EXCEPT !.pc = "done"]
<1>0. d \in ThreadType /\ d.pc = "done" /\ d.refused = t.refused /\ d.unchecked = t.unchecked /\ d.asks = t.asks
  BY DEF ThreadType, Reasons
<1>1. /\ Step(u, d) /\ UNCHANGED <<entry, hostmode, server, httpmain, printed>>
      /\ results' = [results EXCEPT ![u] = r]
  BY DEF Leave, Step
<1> HIDE DEF d
<1>a. results' \in [Urls -> Results \cup {None}] /\ results'[u] = r /\ \A v \in Urls \ {u} : results'[v] = results[v]
  BY <1>1 DEF HttpInv, HttpTypeOK
<1>2. /\ thread' \in [Urls -> ThreadType] /\ thread'[u] = d
      /\ \A v \in Urls : (server'[v] = None) <=> ~entry'[v].tls
      /\ \A v \in Urls \ {u} : Knows(v, thread[v])' /\ Stands(v)'
  BY <1>0, <1>1, <1>a, OtherUrlsKeep
<1>3. Knows(u, thread[u])'
  BY <1>0, <1>1, <1>2 DEF Knows, FoundOut, mode
<1>4. Stands(u)'
  <2>1. Earned(u, d, r) /\ Reasoned(u, d, r)
    BY <1>0 DEF Earned, Reasoned
  <2>2. (Earned(u, thread[u], results[u]) /\ Reasoned(u, thread[u], results[u]))'
    BY <2>1, <1>1, <1>2, <1>a DEF Earned, Reasoned, mode
  <2>3. results[u] = None
    BY DEF HttpInv, Stands
  <2>4. printed'[u] = printed[u] /\ printed[u] \in {None, Unfinished}
    BY <1>1, <2>3 DEF HttpInv, Stands
  <2> QED
    BY <1>0, <1>2, <2>2, <2>4 DEF Stands, Unfinished
<1>5. HttpTypeOK'
  BY <1>1, <1>2, <1>a DEF HttpInv, HttpTypeOK
<1> QED
  BY <1>2, <1>3, <1>4, <1>5 DEF HttpInv

\* An attempt begins with the certificate when there is one to look at.
LEMMA StartKeeps == ASSUME HttpInv, NEW u \in Urls, StartAttempt(u) PROVE HttpInv'
<1>1. thread[u] \in ThreadType /\ thread[u].pc = "start" /\ Knows(u, thread[u])
  BY DEF HttpInv, HttpTypeOK, StartAttempt, Running
<1>2. CASE entry[u].tls /\ mode(u) # "ignore"
  <2> DEFINE t == [thread[u] EXCEPT !.pc = "strict"]
  <2>1. t \in ThreadType /\ Knows(u, t)
    BY <1>1, <1>2 DEF ThreadType, Reasons, Knows
  <2>2. Go(u, t)
    BY <1>2 DEF StartAttempt
  <2> QED
    BY <1>1, <2>1, <2>2, GoKeeps
<1>3. CASE ~(entry[u].tls /\ mode(u) # "ignore")
  <2> DEFINE t == [thread[u] EXCEPT !.pc = "hop"]
  <2>1. t \in ThreadType /\ t.pc = "hop" /\ t.refused = "none" /\ ~t.unchecked /\ t.asks = t.tries - 1
    BY <1>1 DEF ThreadType, Reasons, Knows
  <2>2. Passed(u)
    BY <1>3 DEF Passed
  <2>3. Knows(u, t)
    BY <2>1, <2>2 DEF Knows, OnTheHops
  <2>4. Go(u, t)
    BY <1>3 DEF StartAttempt
  <2> QED
    BY <1>1, <2>1, <2>3, <2>4, GoKeeps
<1> QED
  BY <1>2, <1>3

\* The second attempt takes nothing over from the first.
LEMMA SecondKeeps == ASSUME HttpInv, NEW u \in Urls, SecondAttempt(u) PROVE HttpInv'
<1> DEFINE t == [Fresh EXCEPT !.tries = 2, !.asks = thread[u].asks]
<1>1. thread[u] \in ThreadType /\ thread[u].pc = "sleep" /\ thread[u].asks = 1 /\ Go(u, t)
  BY DEF HttpInv, HttpTypeOK, SecondAttempt, Running, Knows
<1>2. Fresh \in ThreadType
  BY HttpAssumption DEF Fresh, ThreadType, Reasons
<1>3. Fresh.pc = "start" /\ Fresh.refused = "none" /\ ~Fresh.unchecked
  BY DEF Fresh
<1> HIDE DEF Fresh
<1>4. t \in ThreadType /\ t.pc = "start" /\ t.refused = "none" /\ ~t.unchecked /\ t.asks = 1 /\ t.tries = 2
  BY <1>1, <1>2, <1>3 DEF ThreadType, Reasons
<1> HIDE DEF t
<1>5. Knows(u, t)
  BY <1>4 DEF Knows
<1> QED
  BY <1>1, <1>4, <1>5, GoKeeps

\* The except clause gives the reason of the certificate, if there is one, and
\* the resolver's only after two lookups.
LEMMA ExceptKeeps ==
    ASSUME HttpInv, NEW u \in Urls, NEW e, Except(u, thread[u], e), e \in Failures \cup {"tls", "port", "fail"},
           thread[u].pc \in {"strict", "hop"}
    PROVE  HttpInv'
<1> DEFINE t == thread[u]
<1>1. t \in ThreadType /\ Knows(u, t)
  BY DEF HttpInv, HttpTypeOK
<1>k. t.refused # "none" => FoundOut(u, t.refused)
  BY <1>1 DEF Knows
<1>n. t.tries \in {1, 2} /\ t.asks \in Nat /\ t.asks = t.tries - 1
  <2>1. t.tries \in {1, 2} /\ t.asks \in Nat
    BY <1>1 DEF ThreadType, Reasons
  <2>2. t.asks = t.tries - 1
    BY <1>1, Zenon DEF Knows
  <2> QED
    BY <2>1, <2>2
<1>2. Failures \subseteq {"again", "noname", "fail"}
  BY DEF Failures, create_connection, Lookups
<1>3. CASE t.refused = "none" /\ e = "port"
  <2> DEFINE d == [t EXCEPT !.pc = "died"]
  <2>1. d \in ThreadType /\ Knows(u, d)
    BY <1>1, <1>3 DEF ThreadType, Reasons, Knows
  <2>2. Go(u, d)
    BY <1>3 DEF Except
  <2> QED
    BY <2>1, <2>2, GoKeeps
<1>4. CASE t.refused = "none" /\ e = "again" /\ t.tries = 1
  <2> DEFINE k == t.asks + 1
             d == [t EXCEPT !.pc = "sleep", !.asks = k]
  <2>0. k = 1 /\ k \in 0 .. 2
    BY <1>n, <1>4
  <2>3. Go(u, d)
    BY <1>4 DEF Except
  <2> HIDE DEF k
  <2>1. d \in ThreadType /\ d.pc = "sleep" /\ d.asks = 1 /\ d.refused = "none"
    BY <1>1, <1>4, <2>0 DEF ThreadType, Reasons
  <2>2. Knows(u, d)
    BY <2>1 DEF Knows
  <2> QED
    BY <2>1, <2>2, <2>3, GoKeeps
<1>5. CASE ~(t.refused = "none" /\ e = "port") /\ ~(t.refused = "none" /\ e = "again" /\ t.tries = 1)
  <2> DEFINE asks == IF e = "again" THEN t.asks + 1 ELSE t.asks
             cause == IF t.refused # "none" THEN t.refused ELSE why(e)
             d == [t EXCEPT !.asks = asks]
             r == [up |-> FALSE, status |-> FALSE, days |-> t.days, error |-> cause]
  <2>1. Leave(u, d, r)
    BY <1>5 DEF Except
  <2>2. asks \in 0 .. 2 /\ (e = "again" /\ t.refused = "none" => asks = 2)
    BY <1>n, <1>5
  <2>3. d \in ThreadType /\ d.refused = t.refused /\ d.asks = asks
    BY <1>1, <2>2 DEF ThreadType, Reasons
  <2>4. \/ cause = t.refused /\ t.refused \in Reasons
        \/ cause \in {"noname", "fail", "tls"}
        \/ cause = "resolver" /\ e = "again" /\ t.refused = "none"
    BY <1>1, <1>2, <1>5 DEF ThreadType, Reasons, why
  <2>5. r \in Results /\ r.up = FALSE /\ r.status = FALSE /\ r.error = cause
    BY <1>1, <2>4 DEF Results, ThreadType, Errors, Reasons
  <2> HIDE DEF cause, r, d, asks
  <2>6. Earned(u, d, r)
    BY <2>5 DEF Earned
  <2>7. Reasoned(u, d, r)
    BY <1>k, <2>2, <2>3, <2>4, <2>5 DEF Reasoned, FoundOut, Reasons
  <2> QED
    BY <1>k, <2>1, <2>3, <2>5, <2>6, <2>7, LeaveKeeps
<1> QED
  BY <1>3, <1>4, <1>5

\* A certificate is read with checks, and without if they fail.
LEMMA StrictKeeps == ASSUME HttpInv, NEW u \in Urls, StrictConnect(u) PROVE HttpInv'
<1> DEFINE t == thread[u]  c == server[u]
<1>1. t \in ThreadType /\ Knows(u, t) /\ t.pc = "strict" /\ t.refused = "none" /\ ~t.unchecked
  BY DEF HttpInv, HttpTypeOK, StrictConnect, Running, Knows
<1>2. entry[u].tls /\ mode(u) # "ignore" /\ t.asks = t.tries - 1
  BY <1>1, Zenon DEF Knows
<1>3. ASSUME NEW e \in Failures \cup {"tls"}, Except(u, t, e) PROVE HttpInv'
  BY <1>1, <1>3, ExceptKeeps
<1>4. CASE StrictOK(c, entry[u].ip) /\ Go(u, [t EXCEPT !.pc = "hop", !.conn = TRUE, !.days = TRUE])
  <2> DEFINE d == [t EXCEPT !.pc = "hop", !.conn = TRUE, !.days = TRUE]
  <2>1. /\ d \in ThreadType /\ d.pc = "hop" /\ d.refused = "none" /\ ~d.unchecked
        /\ d.asks = t.asks /\ d.tries = t.tries
    BY <1>1 DEF ThreadType, Reasons
  <2>2. Passed(u)
    BY <1>4 DEF Passed
  <2>3. Go(u, d)
    BY <1>4
  <2> HIDE DEF d
  <2>4. Knows(u, d)
    BY <1>2, <2>1, <2>2 DEF Knows, OnTheHops
  <2> QED
    BY <1>1, <2>1, <2>3, <2>4, GoKeeps
<1>5. ASSUME NEW r \in verify_reason(c, entry[u].ip), Go(u, [t EXCEPT !.pc = "loose", !.refused = r]) PROVE HttpInv'
  <2> DEFINE d == [t EXCEPT !.pc = "loose", !.refused = r]
  <2>1. r \in Reasons /\ FoundOut(u, r)
    BY <1>2, <1>5 DEF verify_reason, Reasons, FoundOut
  <2>2. /\ d \in ThreadType /\ d.pc = "loose" /\ d.refused = r /\ r # "none" /\ ~d.unchecked
        /\ d.asks = t.asks /\ d.tries = t.tries
    BY <1>1, <2>1 DEF ThreadType, Reasons
  <2>3. Go(u, d)
    BY <1>5
  <2> HIDE DEF d
  <2>4. Knows(u, d)
    BY <1>2, <2>1, <2>2 DEF Knows
  <2> QED
    BY <1>1, <2>2, <2>3, <2>4, GoKeeps
<1> QED
  BY <1>3, <1>4, <1>5 DEF StrictConnect

\* What a self-signed certificate is refused for is so.
LEMMA RefusalFits ==
    ASSUME NEW u \in Urls, server[u] \in Certificates, NEW reason \in Reasons, FoundOut(u, reason)
    PROVE  LET q == Refusal(u, reason) IN
           /\ q \in Reasons \cup {"none"} /\ (q # "none" => FoundOut(u, q))
           /\ q = "none" => Passed(u) /\ mode(u) = "self-signed"
           /\ q = "another-name" /\ mode(u) = "self-signed" => ~entry[u].ip
           /\ q = "not-trusted" => mode(u) = "verify" \/ mode(u) \notin MODES
<1> DEFINE c == server[u]  p == self_signed_problem(der_cert(c), entry[u].ip)
<1>1. /\ p \in {"not-valid-yet", "expired", "none", "another-name"}
      /\ p = "not-valid-yet" => c.when = "early"
      /\ p = "expired" => c.when = "expired"
      /\ p = "another-name" => ~entry[u].ip
  BY DEF self_signed_problem, der_cert
<1>2. mode(u) # "ignore" /\ entry[u].tls
  BY DEF FoundOut
<1> HIDE DEF p
<1>3. CASE mode(u) = "self-signed"
  <2>1. Refusal(u, reason) = p
    BY <1>3 DEF Refusal, p
  <2> QED
    BY <1>1, <1>2, <1>3, <2>1 DEF FoundOut, Passed, Reasons, p
<1>4. CASE mode(u) # "self-signed"
  <2>1. Refusal(u, reason) = reason
    BY <1>4 DEF Refusal
  <2> QED
    BY <1>2, <1>4, <2>1 DEF Reasons, MODES
<1> QED
  BY <1>3, <1>4

\* What failed the checks goes on only where the mode lets it, and keeps its
\* reason.
LEMMA LooseKeeps == ASSUME HttpInv, NEW u \in Urls, LooseConnect(u) PROVE HttpInv'
<1> DEFINE t == thread[u]
<1>1. t \in ThreadType /\ Knows(u, t) /\ t.pc = "loose" /\ t.refused # "none" /\ ~t.unchecked
  BY DEF HttpInv, HttpTypeOK, LooseConnect, Running, Knows
<1>2. t.refused \in Reasons /\ FoundOut(u, t.refused) /\ t.asks = t.tries - 1
  BY <1>1, Zenon DEF Knows, ThreadType
<1>3. server[u] \in Certificates /\ mode(u) \in MODES
  <2>1. entry[u].tls
    BY <1>2 DEF FoundOut
  <2>2. server[u] \in Certificates
    BY <2>1 DEF HttpInv, HttpTypeOK
  <2>3. entry[u] \in Entries /\ hostmode \in MODES
    BY HttpAssumption DEF HttpInv, HttpTypeOK
  <2>4. entry[u].mode \in MODES \cup {"host"}
    BY <2>3 DEF Entries
  <2> QED
    BY <2>2, <2>3, <2>4 DEF mode
<1>4. CASE Leave(u, t, [up |-> FALSE, status |-> FALSE, days |-> FALSE, error |-> t.refused])
  <2> DEFINE r == [up |-> FALSE, status |-> FALSE, days |-> FALSE, error |-> t.refused]
  <2>1. r \in Results /\ r.up = FALSE /\ r.status = FALSE /\ r.error = t.refused
    BY <1>2 DEF Results, Errors
  <2>2. Leave(u, t, r)
    BY <1>4
  <2> HIDE DEF r
  <2>3. Earned(u, t, r) /\ Reasoned(u, t, r)
    BY <1>1, <1>2, <2>1 DEF Earned, Reasoned, FoundOut, Reasons
  <2> QED
    BY <1>1, <1>2, <2>1, <2>2, <2>3, LeaveKeeps
<1>5. CASE Go(u, [t EXCEPT !.pc = "hop", !.conn = TRUE, !.days = TRUE, !.refused = Refusal(u, t.refused)])
  <2> DEFINE q == Refusal(u, t.refused)
             d == [t EXCEPT !.pc = "hop", !.conn = TRUE, !.days = TRUE, !.refused = q]
  <2>1. /\ q \in Reasons \cup {"none"} /\ (q # "none" => FoundOut(u, q))
        /\ q = "none" => Passed(u) /\ mode(u) = "self-signed"
        /\ q = "another-name" /\ mode(u) = "self-signed" => ~entry[u].ip
        /\ q = "not-trusted" => mode(u) = "verify"
    BY <1>2, <1>3, RefusalFits
  <2>2. Go(u, d)
    BY <1>5
  <2> HIDE DEF q
  <2>3. /\ d \in ThreadType /\ d.pc = "hop" /\ d.refused = q /\ ~d.unchecked
        /\ d.asks = t.asks /\ d.tries = t.tries
    BY <1>1, <2>1 DEF ThreadType
  <2> HIDE DEF d
  <2>4. Knows(u, d)
    BY <1>2, <2>1, <2>3 DEF Knows, OnTheHops
  <2> QED
    BY <1>1, <2>2, <2>3, <2>4, GoKeeps
<1> QED
  BY <1>4, <1>5 DEF LooseConnect

\* A hop that connects is one more, and unchecked only where that is let through.
LEMMA ConnectedFits ==
    ASSUME HttpInv, NEW u \in Urls, NEW tls \in BOOLEAN, thread[u].pc = "hop", thread[u].hops <= MAX_REDIRECTS
    PROVE  LET d == Connected(u, tls) IN
           /\ d \in ThreadType /\ d.pc = "hop" /\ d.refused = thread[u].refused /\ d.asks = thread[u].asks
           /\ Knows(u, d)
<1> DEFINE t == thread[u]
           b == t.unchecked \/ (tls /\ ~t.conn /\ Unchecked(u, t))
           h == t.hops + 1
           d == [t EXCEPT !.conn = FALSE, !.hops = h, !.unchecked = b]
<1>1. t \in ThreadType /\ Knows(u, t) /\ OnTheHops(u, t)
  BY DEF HttpInv, HttpTypeOK, Knows
<1>2. t.asks = t.tries - 1
  BY <1>1, Zenon DEF Knows
<1>3. h \in 0 .. MAX_REDIRECTS + 1
  <2>1. t.hops \in 0 .. MAX_REDIRECTS + 1
    BY <1>1 DEF ThreadType
  <2> QED
    BY <2>1, HttpAssumption
<1>4. b \in BOOLEAN
  BY Zenon DEF Unchecked
<1>5. t.refused = "none" /\ mode(u) = "verify" => ~b
  BY <1>1, Zenon DEF OnTheHops, Unchecked
<1>6. Connected(u, tls) = d
  BY Zenon DEF Connected
<1> HIDE DEF b, h
<1>7. /\ d \in ThreadType /\ d.pc = t.pc /\ d.refused = t.refused /\ d.asks = t.asks /\ d.tries = t.tries
      /\ d.unchecked = b
  BY <1>1, <1>3, <1>4 DEF ThreadType, Reasons
<1> HIDE DEF d
<1>8. OnTheHops(u, d)
  BY <1>1, <1>5, <1>7 DEF OnTheHops
<1>9. Knows(u, d)
  BY <1>1, <1>2, <1>7, <1>8 DEF Knows
<1> QED
  BY <1>6, <1>7, <1>9

\* A redirect is followed, or leads where the check doesn't go.
LEMMA RedirectedKeeps == ASSUME HttpInv, NEW u \in Urls, Redirected(u) PROVE HttpInv'
<1>1. thread[u].pc = "hop" /\ thread[u].hops <= MAX_REDIRECTS /\ thread[u] \in ThreadType
  BY DEF Redirected, Running, HttpInv, HttpTypeOK
<1>2. PICK tls \in HopTLS(u) :
         \/ Go(u, Connected(u, tls))
         \/ Leave(u, Connected(u, tls), [up |-> FALSE, status |-> FALSE, days |-> thread[u].days, error |-> "scheme"])
  BY DEF Redirected
<1>3. tls \in BOOLEAN
  BY HttpAssumption DEF HopTLS, HttpInv, HttpTypeOK, Entries
<1> DEFINE d == Connected(u, tls)
           r == [up |-> FALSE, status |-> FALSE, days |-> thread[u].days, error |-> "scheme"]
<1>4. d \in ThreadType /\ Knows(u, d)
  BY <1>1, <1>3, ConnectedFits
<1>5. r \in Results /\ r.up = FALSE /\ r.error = "scheme"
  BY <1>1 DEF Results, Errors, ThreadType, Reasons
<1>6. Go(u, d) \/ Leave(u, d, r)
  BY <1>2
<1> HIDE DEF d, r
<1>7. Earned(u, d, r) /\ Reasoned(u, d, r)
  BY <1>5 DEF Earned, Reasoned, Reasons
<1>8. d.refused # "none" => FoundOut(u, d.refused)
  BY <1>4, Zenon DEF Knows
<1> QED
  BY <1>1, <1>4, <1>5, <1>6, <1>7, <1>8, GoKeeps, LeaveKeeps

\* A page is up only with a certificate that passed.
LEMMA PageKeeps == ASSUME HttpInv, NEW u \in Urls, Page(u) PROVE HttpInv'
<1> DEFINE t == thread[u]
<1>1. t.pc = "hop" /\ t.hops <= MAX_REDIRECTS /\ t \in ThreadType
  BY DEF Page, Running, HttpInv, HttpTypeOK
<1>2. PICK tls \in HopTLS(u), good \in BOOLEAN, hit \in BOOLEAN :
         Leave(u, Connected(u, tls), [up |-> Verdict(t, entry[u], good, hit) = "none", status |-> TRUE, days |-> t.days,
                                      error |-> Verdict(t, entry[u], good, hit)])
  BY DEF Page
<1>3. tls \in BOOLEAN
  BY HttpAssumption DEF HopTLS, HttpInv, HttpTypeOK, Entries
<1> DEFINE d == Connected(u, tls)
           v == Verdict(t, entry[u], good, hit)
           b == v = "none"
           r == [up |-> b, status |-> TRUE, days |-> t.days, error |-> v]
<1>4. d \in ThreadType /\ Knows(u, d) /\ d.pc = "hop" /\ d.refused = t.refused
  BY <1>1, <1>3, ConnectedFits
<1>5. IF t.refused # "none" THEN v = t.refused ELSE v \in {"status", "text", "none"}
  BY Zenon DEF Verdict
<1>6. Leave(u, d, r)
  BY <1>2
<1>7. t.refused \in Reasons \cup {"none"} /\ t.days \in BOOLEAN
  BY <1>1 DEF ThreadType
<1>8. b \in BOOLEAN /\ (b <=> v = "none")
  BY Zenon
<1> HIDE DEF b, v, d
<1>9. r \in Results /\ (r.up <=> v = "none") /\ r.error = v /\ r.status = TRUE
  BY <1>5, <1>7, <1>8 DEF Results, Errors, Reasons
<1> HIDE DEF r
<1>10. OnTheHops(u, d) /\ (d.refused # "none" => FoundOut(u, d.refused))
  BY <1>4, Zenon DEF Knows
<1>11. Earned(u, d, r)
  <2> SUFFICES ASSUME r.up PROVE Earned(u, d, r)
    BY DEF Earned
  <2>1. v = "none" /\ d.refused = "none"
    BY <1>4, <1>5, <1>9
  <2>2. Passed(u) /\ (mode(u) = "verify" => ~d.unchecked)
    BY <1>10, <2>1 DEF OnTheHops
  <2>3. entry[u].tls => server[u] \in Certificates
    BY DEF HttpInv, HttpTypeOK
  <2>4. entry[u].tls /\ mode(u) = "self-signed" =>
          StrictOK(server[u], entry[u].ip) \/ (server[u].when = "valid" /\ (entry[u].ip \/ server[u].names \in {"listed", "common"}))
    BY <2>2, <2>3 DEF Passed, self_signed_problem, der_cert, name_matches, Certificates
  <2> QED
    BY <1>9, <2>1, <2>2, <2>4 DEF Earned, Passed
<1>12. Reasoned(u, d, r)
  <2> SUFFICES ASSUME ~r.up PROVE Reasoned(u, d, r)
    BY DEF Reasoned
  <2>1. CASE t.refused # "none"
    <3>1. v = t.refused /\ FoundOut(u, v) /\ v \in Reasons
      BY <2>1, <1>4, <1>5, <1>7, <1>10
    <3>2. /\ v = "another-name" /\ mode(u) = "self-signed" => ~entry[u].ip
          /\ v = "not-trusted" => mode(u) = "verify"
      BY <3>1, <1>4, <1>10 DEF OnTheHops
    <3> QED
      BY <1>9, <3>1, <3>2 DEF Reasoned, FoundOut, Reasons
  <2>2. CASE t.refused = "none"
    <3>1. v \in {"status", "text"}
      BY <2>2, <1>5, <1>9
    <3> QED
      BY <1>9, <3>1 DEF Reasoned, Reasons
  <2> QED
    BY <2>1, <2>2
<1> QED
  BY <1>1, <1>4, <1>6, <1>9, <1>10, <1>11, <1>12, LeaveKeeps

\* Too many redirects, or a hop that can't be made.
LEMMA HopsEnd == ASSUME HttpInv, NEW u \in Urls, HopFails(u) \/ TooManyRedirects(u) PROVE HttpInv'
<1> DEFINE t == thread[u]
<1>1. t.pc = "hop" /\ t \in ThreadType /\ Knows(u, t)
  BY DEF HopFails, TooManyRedirects, Running, HttpInv, HttpTypeOK
<1>2. CASE HopFails(u)
  <2>1. PICK e \in Failures \cup {"tls", "port", "fail"} : Except(u, t, e)
    BY <1>2 DEF HopFails
  <2> QED
    BY <1>1, <2>1, ExceptKeeps
<1>3. CASE TooManyRedirects(u)
  <2> DEFINE r == [up |-> FALSE, status |-> FALSE, days |-> t.days, error |-> "redirects"]
  <2>1. r \in Results /\ r.up = FALSE /\ r.error = "redirects"
    BY <1>1 DEF Results, Errors, ThreadType, Reasons
  <2>2. Leave(u, t, r)
    BY <1>3 DEF TooManyRedirects
  <2> HIDE DEF r
  <2>3. Earned(u, t, r) /\ Reasoned(u, t, r)
    BY <2>1 DEF Earned, Reasoned, Reasons
  <2>4. t.refused # "none" => FoundOut(u, t.refused)
    BY <1>1, Zenon DEF Knows
  <2> QED
    BY <1>1, <2>1, <2>2, <2>3, <2>4, LeaveKeeps
<1> QED
  BY <1>2, <1>3

\* main prints what a thread left, or that it left nothing by then.
LEMMA MainKeeps == ASSUME HttpInv, Start \/ JoinEnds \/ \E u \in Urls : PrintResult(u) PROVE HttpInv'
<1>1. UNCHANGED <<entry, hostmode, server, thread, results>>
  BY DEF Start, JoinEnds, PrintResult
<1>2. httpmain' \in {"join", "print", "end", "refused"}
  BY DEF Start, JoinEnds, PrintResult
<1>3. \A v \in Urls : Knows(v, thread[v])' /\ ((server'[v] = None) <=> ~entry'[v].tls)
  BY <1>1, SameSettings DEF HttpInv
<1>4. /\ printed' \in [Urls -> Results \cup {None}]
      /\ \A v \in Urls : printed'[v] \in {None, Unfinished, results[v]}
  <2>1. CASE UNCHANGED printed
    BY <2>1 DEF HttpInv, HttpTypeOK, Stands
  <2>2. ASSUME NEW u \in Urls, PrintResult(u) 
        PROVE  /\ printed' \in [Urls -> Results \cup {None}]
               /\ \A v \in Urls : printed'[v] \in {None, Unfinished, results[v]}
    <3>1. Unfinished \in Results
      BY DEF Unfinished, Results
    <3>2. printed' = [printed EXCEPT ![u] = Unfinished] \/ printed' = [printed EXCEPT ![u] = results[u]]
      BY <2>2, Zenon DEF PrintResult
    <3> QED
      BY <3>1, <3>2 DEF HttpInv, HttpTypeOK, Stands
  <2> QED
    BY <2>1, <2>2 DEF Start, JoinEnds
<1>5. \A v \in Urls : Stands(v)'
  BY <1>1, <1>4 DEF HttpInv, Stands, Earned, Reasoned, mode
<1> QED
  BY <1>1, <1>2, <1>3, <1>4, <1>5 DEF HttpInv, HttpTypeOK

\* Threads, results and certificates agree, whatever answers, redirects and
\* however the budget ends.
THEOREM HttpInductive == HttpSpec => []HttpInv
<1>1. HttpInit => HttpInv
  <2> SUFFICES ASSUME HttpInit PROVE HttpInv
    OBVIOUS
  <2>1. Fresh \in ThreadType /\ Fresh.pc = "start" /\ Fresh.refused = "none" /\ ~Fresh.unchecked
        /\ Fresh.asks = 0 /\ Fresh.tries = 1
    BY HttpAssumption DEF Fresh, ThreadType, Reasons
  <2>2. HttpTypeOK
    BY <2>1 DEF HttpInit, HttpTypeOK
  <2>3. ASSUME NEW u \in Urls PROVE Knows(u, thread[u]) /\ Stands(u) /\ ((server[u] = None) <=> ~entry[u].tls)
    <3>1. thread[u] = Fresh /\ results[u] = None /\ printed[u] = None
      BY DEF HttpInit
    <3> QED
      BY <2>1, <3>1 DEF Knows, Stands, HttpInit
  <2> QED
    BY <2>2, <2>3 DEF HttpInv
<1>2. HttpInv /\ UNCHANGED httpVars => HttpInv'
  <2> SUFFICES ASSUME HttpInv, UNCHANGED httpVars PROVE HttpInv'
    OBVIOUS
  <2>1. UNCHANGED <<entry, hostmode, server, thread, results, httpmain, printed>>
    BY DEF httpVars
  <2>2. \A u \in Urls : Knows(u, thread[u])' /\ Stands(u)'
    BY <2>1, SameSettings DEF HttpInv
  <2> QED
    BY <2>1, <2>2 DEF HttpInv, HttpTypeOK
<1>3. HttpInv /\ [HttpNext]_httpVars => HttpInv'
  BY <1>2, StartKeeps, SecondKeeps, StrictKeeps, LooseKeeps, RedirectedKeeps, PageKeeps, HopsEnd, MainKeeps
     DEF HttpNext, HttpThread
<1> QED
  BY <1>1, <1>3, PTL DEF HttpSpec

\* A URL that is printed as up passed the check its settings ask for.
THEOREM UpWasEarned == HttpSpec => []UpIsEarned
<1>1. HttpInv => UpIsEarned
  BY DEF HttpInv, Stands, UpIsEarned, Earned, Unfinished
<1> QED
  BY <1>1, HttpInductive, PTL

\* What a URL that is down is printed to be down for is so.
THEOREM ReasonWasTrue == HttpSpec => []ReasonIsTrue
<1>1. HttpInv => ReasonIsTrue
  <2> SUFFICES ASSUME HttpInv, NEW u \in Urls, printed[u] # None PROVE Reasoned(u, thread[u], printed[u])
    BY DEF ReasonIsTrue
  <2>1. CASE printed[u] = Unfinished
    BY <2>1 DEF Reasoned, Unfinished, Reasons
  <2>2. CASE printed[u] = results[u]
    BY <2>2 DEF HttpInv, Stands
  <2> QED
    BY <2>1, <2>2 DEF HttpInv, Stands
<1> QED
  BY <1>1, HttpInductive, PTL

-----------------------------------------------------------------------------
(* TcpCheck *)

\* What connections come to is never called unfinished.
LEMMA OutcomesFinished == "unfinished" \notin TcpOutcomes
BY DEF TcpOutcomes, why, Failures, create_connection, Lookups

\* Main's clock and the threads' agree at every tick.
THEOREM TcpInductive == TcpSpec => []TcpInv
<1> DEFINE L == TCP_TIMEOUT * MAX_ADDRESSES
<1>L. L \in Nat
  BY TcpAssumption
<1> DEFINE W == TCP_TIMEOUT + GRACE
<1>W. W \in Nat
  BY TcpAssumption DEF GRACE
<1> HIDE DEF L, W
<1> USE <1>L, <1>W, TcpAssumption
<1>1. TcpInit => TcpInv
  BY DEF TcpInit, TcpInv, TcpTypeOK, Ports, L, W
<1>2. TcpInv /\ [TcpNext]_tcpVars => TcpInv'
  <2> SUFFICES ASSUME TcpInv, [TcpNext]_tcpVars PROVE TcpInv'
    OBVIOUS
  <2>0. /\ left \in [Ports -> 0 .. L] /\ comes \in [Ports -> TcpOutcomes] /\ joining \in 0 .. PORTS + 2
        /\ waited \in 0 .. W /\ elapsed \in Nat /\ readings \in [Ports -> TcpOutcomes \cup {"unfinished", None}]
        /\ waited <= elapsed /\ elapsed <= L
        /\ \A p \in Ports : left[p] > 0 => elapsed + left[p] <= L
        /\ \A p \in Ports : /\ joining <= PORTS + 1 /\ p < joining /\ left[p] > 0 => elapsed >= W
                            /\ readings[p] = "unfinished" => elapsed >= W
    BY DEF TcpInv, TcpTypeOK, L, W
  <2> SUFFICES
        /\ left' \in [Ports -> 0 .. L] /\ comes' \in [Ports -> TcpOutcomes] /\ joining' \in 0 .. PORTS + 2
        /\ waited' \in 0 .. W /\ elapsed' \in Nat /\ readings' \in [Ports -> TcpOutcomes \cup {"unfinished", None}]
        /\ waited' <= elapsed' /\ elapsed' <= L
        /\ \A p \in Ports : left'[p] > 0 => elapsed' + left'[p] <= L
        /\ \A p \in Ports : /\ joining' <= PORTS + 1 /\ p < joining' /\ left'[p] > 0 => elapsed' >= W
                            /\ readings'[p] = "unfinished" => elapsed' >= W
    BY DEF TcpInv, TcpTypeOK, L, W
  <2>1. CASE StartThreads
    BY <2>0, <2>1 DEF StartThreads, Ports
  <2>2. CASE Join
    <3>1. joining \in Ports /\ joining' = joining + 1 /\ waited' = 0 /\ (left[joining] = 0 \/ waited = W)
          /\ UNCHANGED <<left, comes, elapsed, readings>>
      BY <2>2 DEF Join, JoinOver, W
    <3> QED
      BY <2>0, <3>1 DEF Ports
  <2>3. CASE TcpTick
    <3>1. /\ joining \in Ports /\ left[joining] # 0 /\ waited # W
          /\ left' = [p \in Ports |-> IF left[p] > 0 THEN left[p] - 1 ELSE 0]
          /\ waited' = waited + 1 /\ elapsed' = elapsed + 1 /\ UNCHANGED <<comes, joining, readings>>
      BY <2>3 DEF TcpTick, JoinOver, ThreadsRun, W
    <3>2. left[joining] > 0 /\ elapsed + left[joining] <= L
      BY <2>0, <3>1
    <3> QED
      BY <2>0, <3>1, <3>2
  <2>4. CASE PrintReadings
    <3>1. /\ joining = PORTS + 1 /\ joining' = PORTS + 2
          /\ readings' = [p \in Ports |-> IF left[p] = 0 THEN comes[p] ELSE "unfinished"]
          /\ UNCHANGED <<left, comes, waited, elapsed>>
      BY <2>4 DEF PrintReadings
    <3> QED
      BY <2>0, <3>1, OutcomesFinished DEF Ports
  <2>5. CASE UNCHANGED tcpVars
    BY <2>0, <2>5 DEF tcpVars
  <2> QED
    BY <2>1, <2>2, <2>3, <2>4, <2>5 DEF TcpNext
<1> QED
  BY <1>1, <1>2, PTL DEF TcpSpec

\* The check takes no longer than its slowest port, and calls a port unfinished
\* only when it took longer than the timeout and two seconds.
THEOREM TcpIsInTime == TcpSpec => []TcpInTime
<1>1. TcpInv => TcpInTime
  BY DEF TcpInv, TcpInTime
<1> QED
  BY <1>1, TcpInductive, PTL

-----------------------------------------------------------------------------
(* SpeedTest *)

\* A new phase knows nothing of the last one.
LEMMA PhaseBegins == ASSUME now' = 0, phase' = NewPhase, stream' = NewStreams, firstDone' = None
                     PROVE  SpeedInv'
<1> USE SpeedAssumption DEF SpeedInv
<1>1. SpeedTypes'
  BY DEF SpeedTypes, NewPhase, NewStreams, Readings
<1>2. WarmBefore' /\ DoneAfter' /\ SpanInOrder'
  BY DEF WarmBefore, DoneAfter, SpanInOrder, NewPhase
<1>3. SharesCount'
  BY DEF SharesCount, NewStreams, NewPhase
<1> QED
  BY <1>1, <1>2, <1>3

\* Readings stay in the past.
LEMMA SpeedTickKeeps == ASSUME SpeedInv, SpeedTick PROVE SpeedInv'
<1>1. now \in Nat /\ now' = now + 1 /\ UNCHANGED <<phase, stream, firstDone>>
  BY DEF SpeedInv, SpeedTypes, SpeedTick
<1>2. SpeedTypes' /\ SpanInOrder' /\ SharesCount'
  BY <1>1 DEF SpeedInv, SpeedTypes, SpanInOrder, SharesCount
<1>3. WarmBefore' /\ DoneAfter'
  <2>1. /\ phase.at_warm # None => phase.at_warm.at \in Nat
        /\ phase.at_done # None => phase.at_done.at \in Nat
    BY DEF SpeedInv, SpeedTypes, Readings
  <2> QED
    BY <1>1, <2>1 DEF SpeedInv, WarmBefore, DoneAfter
<1> QED
  BY <1>2, <1>3 DEF SpeedInv

\* A piece that comes in counts after the reading it may cause.
LEMMA MoveKeeps == ASSUME SpeedInv, NEW s \in Streams, Move(s) PROVE SpeedInv'
<1>0. /\ now \in Nat /\ phase \in [bytes : Nat, at_warm : Readings, at_done : Readings, cause : Causes \cup {None}]
      /\ stream \in [Streams -> [pc : {"check", "moving", "answer", "full", "ended"}, left : 0 .. SHARE]]
      /\ SHARE \in Nat
  BY SpeedAssumption DEF SpeedInv, SpeedTypes
<1>1. PICK n \in 1 .. stream[s].left :
         add(n) /\ stream' = [stream EXCEPT ![s] = [pc |-> "check", left |-> stream[s].left - n]]
  BY DEF Move
<1>2. UNCHANGED <<now, firstDone>>
  BY DEF Move
<1> DEFINE reading == [bytes |-> phase.bytes, at |-> now]
           warm == IF phase.at_warm = None /\ Warm THEN reading ELSE phase.at_warm
           count == phase.bytes + n
<1>3. n \in Nat \ {0} /\ stream[s].left - n \in 0 .. SHARE /\ count \in Nat /\ count > phase.bytes
  BY <1>0, <1>1
<1>4. reading \in Readings /\ reading # None /\ reading.bytes = phase.bytes /\ reading.at = now
  BY <1>0, SpeedAssumption DEF Readings
<1>5. (warm = reading /\ phase.at_warm = None) \/ warm = phase.at_warm
  OBVIOUS
<1>6. phase' = [phase EXCEPT !.bytes = count, !.at_warm = warm]
  BY <1>1 DEF add
<1> HIDE DEF reading, warm, count
<1>7. /\ phase' \in [bytes : Nat, at_warm : Readings, at_done : Readings, cause : Causes \cup {None}]
      /\ phase'.bytes = count /\ phase'.at_warm = warm /\ phase'.at_done = phase.at_done
  BY <1>0, <1>3, <1>4, <1>5, <1>6
<1>8. /\ stream' \in [Streams -> [pc : {"check", "moving", "answer", "full", "ended"}, left : 0 .. SHARE]]
      /\ stream'[s].pc = "check" /\ \A r \in Streams \ {s} : stream'[r] = stream[r]
  BY <1>0, <1>1, <1>3
<1>9. SpeedTypes'
  BY <1>0, <1>2, <1>7, <1>8 DEF SpeedTypes, SpeedInv
<1>10. /\ phase.at_warm # None => phase.at_warm.bytes \in Nat /\ phase.at_warm.at \in Nat
       /\ phase.at_done # None => phase.at_done.bytes \in Nat /\ phase.at_done.at \in Nat
  BY <1>0 DEF Readings
<1>11. WarmBefore'
  BY <1>0, <1>2, <1>3, <1>4, <1>5, <1>7, <1>10 DEF WarmBefore, SpeedInv
<1>12. DoneAfter'
  BY <1>0, <1>2, <1>3, <1>7, <1>10 DEF DoneAfter, SpeedInv
<1>13. SpanInOrder'
  BY <1>0, <1>2, <1>4, <1>5, <1>7, <1>10 DEF SpanInOrder, DoneAfter, SpeedInv
<1>14. SharesCount'
  <2>1. phase'.bytes > 0
    BY <1>0, <1>3, <1>7
  <2> QED
    BY <2>1, <1>8 DEF SharesCount, SpeedInv
<1> QED
  BY <1>9, <1>11, <1>12, <1>13, <1>14 DEF SpeedInv

\* A stream that is full has brought in its share.
LEMMA FullKeeps == ASSUME SpeedInv, NEW s \in Streams, Full(s) PROVE SpeedInv'
<1>0. /\ now \in Nat /\ phase \in [bytes : Nat, at_warm : Readings, at_done : Readings, cause : Causes \cup {None}]
      /\ stream \in [Streams -> [pc : {"check", "moving", "answer", "full", "ended"}, left : 0 .. SHARE]]
      /\ SHARE \in Nat \ {0} /\ firstDone \in Nat \cup {None}
  BY SpeedAssumption DEF SpeedInv, SpeedTypes
<1>1. /\ stream[s].pc = "full" /\ done /\ stream' = [stream EXCEPT ![s].pc = "ended"]
      /\ UNCHANGED now
  BY DEF Full, Ends
<1>2. phase.bytes > 0
  BY <1>0, <1>1 DEF SpeedInv, SharesCount
<1> DEFINE reading == [bytes |-> phase.bytes, at |-> now]
           first == IF phase.at_done = None THEN reading ELSE phase.at_done
<1>3. reading \in Readings /\ reading # None /\ reading.bytes = phase.bytes /\ reading.at = now
  BY <1>0, SpeedAssumption DEF Readings
<1>4. (first = reading /\ phase.at_done = None) \/ (first = phase.at_done /\ phase.at_done # None)
  OBVIOUS
<1>5. phase' = [phase EXCEPT !.at_done = first]
  BY <1>1 DEF done
<1>6. IF firstDone = None THEN firstDone' = now ELSE firstDone' = firstDone
  BY DEF Full
<1> HIDE DEF reading, first
<1>7. /\ phase' \in [bytes : Nat, at_warm : Readings, at_done : Readings, cause : Causes \cup {None}]
      /\ phase'.bytes = phase.bytes /\ phase'.at_warm = phase.at_warm /\ phase'.at_done = first
  BY <1>0, <1>3, <1>4, <1>5
<1>8. /\ stream' \in [Streams -> [pc : {"check", "moving", "answer", "full", "ended"}, left : 0 .. SHARE]]
      /\ \A r \in Streams : stream'[r].left = stream[r].left
      /\ stream'[s].pc = "ended" /\ \A r \in Streams \ {s} : stream'[r].pc = stream[r].pc
  BY <1>0, <1>1
<1>9. SpeedTypes'
  BY <1>0, <1>1, <1>6, <1>7, <1>8 DEF SpeedTypes
<1>10. /\ phase.at_warm # None => phase.at_warm.bytes \in Nat /\ phase.at_warm.at \in Nat
       /\ phase.at_done # None => phase.at_done.bytes \in Nat /\ phase.at_done.at \in Nat
  BY <1>0 DEF Readings
<1>11. firstDone # None <=> phase.at_done # None
  BY <1>0, <1>10, SpeedAssumption DEF SpeedInv, SpanInOrder, DoneAfter
<1>12. WarmBefore'
  BY <1>1, <1>7 DEF WarmBefore, SpeedInv
<1>13. DoneAfter'
  BY <1>0, <1>1, <1>2, <1>3, <1>4, <1>6, <1>7, <1>10, <1>11 DEF DoneAfter, SpeedInv
<1>14. SpanInOrder'
  BY <1>0, <1>3, <1>4, <1>7, <1>10 DEF SpanInOrder, WarmBefore, SpeedInv
<1>15. SharesCount'
  BY <1>7, <1>8 DEF SharesCount, SpeedInv
<1> QED
  BY <1>9, <1>12, <1>13, <1>14, <1>15 DEF SpeedInv

\* The other steps of a stream count nothing.
LEMMA StreamKeeps == ASSUME SpeedInv, NEW s \in Streams, Check(s) \/ AnswerTooLate(s) \/ Broken(s) \/ Answer(s)
                     PROVE  SpeedInv'
<1>0. /\ phase \in [bytes : Nat, at_warm : Readings, at_done : Readings, cause : Causes \cup {None}]
      /\ stream \in [Streams -> [pc : {"check", "moving", "answer", "full", "ended"}, left : 0 .. SHARE]]
  BY DEF SpeedInv, SpeedTypes
<1>1. UNCHANGED <<now, firstDone>>
  BY DEF Check, AnswerTooLate, Broken, Answer
<1>2. PICK at \in {"moving", "answer", "full", "ended"} :
        /\ stream' = [stream EXCEPT ![s].pc = at]
        /\ at \in {"answer", "full"} => stream[s].left = 0
  <2>1. CASE Check(s)
    BY <2>1, <1>0 DEF Check
  <2>2. CASE AnswerTooLate(s) \/ Broken(s)
    BY <2>2 DEF AnswerTooLate, Broken, Ends
  <2>3. CASE Answer(s)
    BY <2>3 DEF Answer, Ends, SpeedInv, SharesCount
  <2> QED
    BY <2>1, <2>2, <2>3
<1>3. UNCHANGED phase \/ \E r \in Causes : fail(r)
  BY DEF Check, AnswerTooLate, Broken, Answer, Causes
<1>4. /\ phase' \in [bytes : Nat, at_warm : Readings, at_done : Readings, cause : Causes \cup {None}]
      /\ phase'.bytes = phase.bytes /\ phase'.at_warm = phase.at_warm /\ phase'.at_done = phase.at_done
  <2>1. CASE \E r \in Causes : fail(r)
    <3>1. PICK c \in Causes \cup {None} : phase' = [phase EXCEPT !.cause = c]
      BY <2>1, <1>0 DEF fail
    <3> QED
      BY <1>0, <3>1
  <2> QED
    BY <1>0, <1>3, <2>1
<1>5. /\ stream' \in [Streams -> [pc : {"check", "moving", "answer", "full", "ended"}, left : 0 .. SHARE]]
      /\ \A r \in Streams : stream'[r].left = stream[r].left
      /\ stream'[s].pc = at /\ \A r \in Streams \ {s} : stream'[r].pc = stream[r].pc
  BY <1>0, <1>2
<1>6. SpeedTypes'
  BY <1>1, <1>4, <1>5 DEF SpeedInv, SpeedTypes
<1>7. WarmBefore' /\ DoneAfter' /\ SpanInOrder'
  BY <1>1, <1>4 DEF SpeedInv, WarmBefore, DoneAfter, SpanInOrder
<1>8. SharesCount'
  BY <1>2, <1>4, <1>5 DEF SpeedInv, SharesCount
<1> QED
  BY <1>6, <1>7, <1>8 DEF SpeedInv

\* The readings are in order and of what they say, in each phase and however
\* its streams, the warm-up and the deadline fall.
THEOREM SpeedInductive == SpeedSpec => []SpeedInv
<1>1. SpeedInit => SpeedInv
  <2> SUFFICES ASSUME SpeedInit PROVE SpeedInv
    OBVIOUS
  <2>1. SpeedTypes
    BY SpeedAssumption DEF SpeedInit, SpeedTypes, NewPhase, NewStreams, Readings
  <2>2. WarmBefore /\ DoneAfter /\ SpanInOrder /\ SharesCount
    BY SpeedAssumption DEF SpeedInit, WarmBefore, DoneAfter, SpanInOrder, SharesCount, NewPhase, NewStreams
  <2> QED
    BY <2>1, <2>2 DEF SpeedInv
<1>2. SpeedInv /\ UNCHANGED <<now, phase, stream, firstDone>> => SpeedInv'
  BY DEF SpeedInv, SpeedTypes, WarmBefore, DoneAfter, SpanInOrder, SharesCount
<1>3. SpeedInv /\ [SpeedNext]_speedVars => SpeedInv'
  BY <1>2, PhaseBegins, SpeedTickKeeps, MoveKeeps, FullKeeps, StreamKeeps
     DEF SpeedNext, Stream, Latency, JoinsEnd, speedVars
<1> QED
  BY <1>1, <1>3, PTL DEF SpeedSpec

\* A speed is read over a span that is one, in which something was moved, and
\* that ends before any stream left the line to the others.
THEOREM SpeedWasMeasured == SpeedSpec => []SpeedIsMeasured
<1>1. SpeedInv => SpeedIsMeasured
  <2> SUFFICES ASSUME SpeedInv, bps # None
               PROVE  /\ bps.t0 < bps.t1 /\ bps.b0 < bps.b1
                      /\ firstDone # None => bps.t1 <= firstDone
    BY DEF SpeedIsMeasured
  <2> DEFINE end == IF now < DEADLINE THEN now ELSE DEADLINE
             from == IF phase.at_warm = None THEN [bytes |-> 0, at |-> 0] ELSE phase.at_warm
             to == IF phase.at_done = None THEN [bytes |-> phase.bytes, at |-> end] ELSE phase.at_done
             w == IF to.at < from.at + MIN_WINDOW THEN [bytes |-> 0, at |-> 0] ELSE from
  <2>0. now \in Nat /\ DEADLINE \in Nat /\ phase.bytes \in Nat /\ MIN_WINDOW \in Nat \ {0}
    BY SpeedAssumption DEF SpeedInv, SpeedTypes, DEADLINE
  <2>1. end \in Nat
    BY <2>0
  <2>2. bps = [b0 |-> w.bytes, t0 |-> w.at, b1 |-> to.bytes, t1 |-> to.at] /\ phase.bytes # 0 /\ to.at # w.at
    BY DEF bps
  <2> HIDE DEF end
  <2>3. from.bytes \in Nat /\ from.at \in Nat
    BY DEF SpeedInv, SpeedTypes, Readings
  <2>4. to.bytes \in Nat \ {0} /\ to.at \in Nat
    BY <2>0, <2>1, <2>2 DEF SpeedInv, SpeedTypes, Readings, DoneAfter
  <2>5. to.at > from.at => to.bytes > from.bytes
    BY <2>0, <2>2, <2>3, <2>4 DEF SpeedInv, SpeedTypes, Readings, WarmBefore, SpanInOrder
  <2>6. firstDone # None => to.at = firstDone
    BY DEF SpeedInv, SpanInOrder, DoneAfter
  <2> HIDE DEF from, to
  <2>7. w.at < to.at /\ w.bytes < to.bytes
    BY <2>0, <2>2, <2>3, <2>4, <2>5
  <2> HIDE DEF w
  <2> QED
    BY <2>2, <2>4, <2>6, <2>7
<1> QED
  BY <1>1, SpeedInductive, PTL

-----------------------------------------------------------------------------
(* Types: SpeedTest, Xcpng *)

\* The budget, the deadline and what there is to count are numbers.
LEMMA Budget ==
  /\ SHARE \in Nat \ {0} /\ WARMUP \in Nat /\ SECONDS \in Nat /\ PATIENCE \in Nat
  /\ Cardinality(Streams) \in Nat /\ BUDGET \in Nat /\ LAST \in Nat
  /\ IsFiniteSet(Streams \X (1 .. SHARE)) /\ Cardinality(Streams \X (1 .. SHARE)) = BUDGET
<1>1. SHARE \in Nat \ {0} /\ WARMUP \in Nat /\ SECONDS \in Nat /\ PATIENCE \in Nat
  BY SpeedAssumption
<1>2. IsFiniteSet(Streams) /\ Cardinality(Streams) \in Nat
  BY SpeedAssumption, FS_CardinalityType
<1>3. IsFiniteSet(1 .. SHARE) /\ Cardinality(1 .. SHARE) = SHARE
  BY <1>1, FS_Interval
<1>4. IsFiniteSet(Streams \X (1 .. SHARE)) /\ Cardinality(Streams \X (1 .. SHARE)) = Cardinality(Streams) * SHARE
  BY <1>2, <1>3, FS_Product, Zenon
<1>5. Cardinality(Streams) * SHARE = SHARE * Cardinality(Streams) /\ SHARE * Cardinality(Streams) \in Nat
  BY <1>1, <1>2
<1>6. LAST \in Nat
  BY <1>1 DEF LAST, DEADLINE
<1> QED
  BY <1>1, <1>2, <1>4, <1>5, <1>6 DEF BUDGET

\* No more units are moved than there are.
LEMMA WithinBudget == ASSUME NEW moved \in SUBSET (Streams \X (1 .. SHARE))
                      PROVE  IsFiniteSet(moved) /\ Cardinality(moved) \in 0 .. BUDGET
<1>1. IsFiniteSet(moved) /\ Cardinality(moved) <= BUDGET
  BY Budget, FS_Subset
<1> QED
  BY <1>1, Budget, FS_CardinalityType

\* A piece of n units adds n units.
LEMMA PieceCounts ==
  ASSUME stream \in [Streams -> [pc : {"check", "moving", "answer", "full", "ended"}, left : 0 .. SHARE]],
         NEW s \in Streams, NEW n \in 1 .. stream[s].left,
         stream' = [stream EXCEPT ![s] = [pc |-> "check", left |-> stream[s].left - n]]
  PROVE  Cardinality(Units') = Cardinality(Units) + n
<1> USE Budget
<1> DEFINE from == stream[s].left - n + 1
           to == stream[s].left
           piece == {s} \X (from .. to)
<1>1. to \in Nat /\ to <= SHARE /\ from \in Nat /\ from >= 1 /\ from <= to /\ to - from + 1 = n /\ n \in Nat
  OBVIOUS
<1>2. stream'[s].left = stream[s].left - n /\ \A r \in Streams \ {s} : stream'[r].left = stream[r].left
  OBVIOUS
<1>3. piece \cap Units = {}
  BY <1>1 DEF Units
<1>4. Units' = Units \cup piece
  <2>1. ASSUME NEW r \in Streams, NEW i \in 1 .. SHARE
        PROVE  i > stream'[r].left <=> (i > stream[r].left \/ (r = s /\ i \in from .. to))
    BY <1>1, <1>2
  <2>2. piece \subseteq Streams \X (1 .. SHARE)
    BY <1>1
  <2>3. \A u \in Streams \X (1 .. SHARE) : u \in piece <=> (u[1] = s /\ u[2] \in from .. to)
    OBVIOUS
  <2> HIDE DEF piece, from, to
  <2>4. \A u \in Streams \X (1 .. SHARE) : u \in Units' <=> (u \in Units \/ u \in piece)
    BY <2>1, <2>3 DEF Units
  <2> QED
    BY <2>2, <2>4 DEF Units
<1>5. IsFiniteSet(piece) /\ Cardinality(piece) = n
  <2>1. IsFiniteSet({s}) /\ Cardinality({s}) = 1
    BY FS_Singleton
  <2> HIDE DEF from, to
  <2>2. IsFiniteSet(from .. to) /\ Cardinality(from .. to) = n
    <3>1. from \in Int /\ to \in Int /\ ~ (from > to)
      BY <1>1
    <3>2. IsFiniteSet(from .. to) /\ Cardinality(from .. to) = to - from + 1
      BY <3>1, FS_Interval
    <3> QED
      BY <1>1, <3>2
  <2>3. IsFiniteSet(piece) /\ Cardinality(piece) = 1 * n
    BY <2>1, <2>2, FS_Product
  <2> QED
    BY <1>1, <2>3
<1>6. IsFiniteSet(Units) /\ Cardinality(Units) \in Nat
  BY WithinBudget DEF Units
<1> HIDE DEF piece
<1>7. Cardinality(Units \cup piece) = Cardinality(Units) + Cardinality(piece) - Cardinality(Units \cap piece)
  BY <1>5, <1>6, FS_Union
<1>8. Cardinality(Units \cap piece) = 0
  BY <1>3, FS_EmptySet
<1> QED
  BY <1>1, <1>4, <1>5, <1>6, <1>7, <1>8

\* A phase counts what its streams moved, within its budget, and its readings are of its time.
THEOREM SpeedTypesInductive == SpeedSpec => [](SpeedTypeOK /\ UnitsCount)
<1> USE Budget
<1> DEFINE PhaseType == [bytes : 0 .. BUDGET, at_warm : Marks, at_done : Marks, cause : Causes \cup {None}]
           StreamType == [Streams -> [pc : {"check", "moving", "answer", "full", "ended"}, left : 0 .. SHARE]]
           ErrorType == ({"latency", "down", "up"} \X (Causes \cup {"none"})) \cup {<<>>}
           Rest == /\ speedmain \in {"latency", "down", "up", "end"}
                   /\ speeds \in [{"down", "up"} -> BOOLEAN] /\ error \in ErrorType
<1>1. ASSUME now' = 0, phase' = NewPhase, stream' = NewStreams, firstDone' = None, Rest'
      PROVE  SpeedTypeOK' /\ UnitsCount'
  <2>1. Cardinality(Units') = 0
    <3>1. Units' = {}
      BY <1>1 DEF Units, NewStreams
    <3> QED
      BY <3>1, FS_EmptySet
  <2>2. UnitsCount'
    BY <1>1, <2>1 DEF UnitsCount, NewPhase
  <2>3. now' \in Times /\ firstDone' \in Times \cup {None}
    BY <1>1 DEF Times
  <2>4. phase' \in PhaseType /\ stream' \in StreamType
    BY <1>1 DEF Marks, Causes, NewPhase, NewStreams
  <2> QED
    BY <1>1, <2>2, <2>3, <2>4, Zenon DEF SpeedTypeOK
<1>2. SpeedInit => SpeedTypeOK /\ UnitsCount
  <2> SUFFICES ASSUME SpeedInit PROVE SpeedTypeOK /\ UnitsCount
    OBVIOUS
  <2>1. Cardinality(Units) = 0
    <3>1. Units = {}
      BY DEF SpeedInit, Units, NewStreams
    <3> QED
      BY <3>1, FS_EmptySet
  <2>2. UnitsCount
    BY <2>1 DEF SpeedInit, UnitsCount, NewPhase
  <2>3. now \in Times /\ firstDone \in Times \cup {None}
    BY DEF SpeedInit, Times
  <2>4. phase \in PhaseType /\ stream \in StreamType
    BY DEF SpeedInit, Marks, Causes, NewPhase, NewStreams
  <2>5. Rest
    BY DEF SpeedInit
  <2> QED
    BY <2>2, <2>3, <2>4, <2>5, Zenon DEF SpeedTypeOK
<1>3. ASSUME SpeedTypeOK, UnitsCount, [SpeedNext]_speedVars
      PROVE  SpeedTypeOK' /\ UnitsCount'
  <2>0. /\ now \in Times /\ phase \in PhaseType /\ stream \in StreamType /\ firstDone \in Times \cup {None}
        /\ Rest /\ phase.bytes = Cardinality(Units)
    BY <1>3 DEF SpeedTypeOK, UnitsCount
  <2> HIDE DEF PhaseType, StreamType, Rest
  <2>a. ASSUME now' \in Times, phase' \in PhaseType, stream' \in StreamType, firstDone' \in Times \cup {None}, Rest'
        PROVE  SpeedTypeOK'
    BY <2>a, Zenon DEF SpeedTypeOK, PhaseType, StreamType, Rest
  <2>b. ASSUME phase'.bytes = phase.bytes, \A s \in Streams : stream'[s].left = stream[s].left
        PROVE  UnitsCount'
    <3>1. Units' = Units
      BY <2>b DEF Units
    <3> QED
      BY <2>0, <2>b, <3>1 DEF UnitsCount
  <2>c. [bytes |-> phase.bytes, at |-> now] \in Marks
    BY <2>0 DEF PhaseType, Marks
  <2>1. CASE Latency
    <3>1. UNCHANGED <<now, phase, stream, speeds, firstDone>>
      BY <2>1 DEF Latency
    <3>2. Rest'
      BY <2>0, <2>1 DEF Latency, Rest, Causes
    <3> QED
      BY <2>0, <2>a, <2>b, <3>1, <3>2 DEF PhaseType, StreamType
  <2>2. CASE SpeedTick
    <3>1. now' \in Times /\ UNCHANGED <<phase, stream, firstDone>> /\ Rest'
      BY <2>0, <2>2 DEF SpeedTick, Times, Rest
    <3> QED
      BY <2>0, <2>a, <2>b, <3>1 DEF PhaseType, StreamType
  <2>3. CASE JoinsEnd
    <3>1. now' = 0 /\ phase' = NewPhase /\ stream' = NewStreams /\ firstDone' = None
      BY <2>3 DEF JoinsEnd
    <3>2. speedmain' \in {"latency", "down", "up", "end"} /\ speedmain \in {"down", "up"}
      BY <2>3 DEF JoinsEnd, Testing
    <3>3. speeds' \in [{"down", "up"} -> BOOLEAN]
      <4> DEFINE fit == phase.cause = None /\ bps # None
      <4>1. fit \in BOOLEAN
        BY Zenon
      <4>2. speeds' = [speeds EXCEPT ![speedmain] = fit]
        BY <2>3, Zenon DEF JoinsEnd
      <4> HIDE DEF fit
      <4> QED
        BY <2>0, <4>1, <4>2 DEF Rest
    <3>4. error' \in ErrorType
      BY <2>0, <2>3, <3>2 DEF JoinsEnd, Rest, PhaseType, Causes
    <3> QED
      BY <1>1, <3>1, <3>2, <3>3, <3>4 DEF Rest
  <2>4. ASSUME NEW s \in Streams, Stream(s) PROVE SpeedTypeOK' /\ UnitsCount'
    <3>1. now' \in Times /\ Rest'
      BY <2>0, <2>4 DEF Stream, Check, Move, AnswerTooLate, Broken, Answer, Full, Rest
    <3>2. CASE Move(s)
      <4>1. PICK n \in 1 .. stream[s].left :
               add(n) /\ stream' = [stream EXCEPT ![s] = [pc |-> "check", left |-> stream[s].left - n]]
        BY <3>2 DEF Move
      <4>2. firstDone' = firstDone
        BY <3>2 DEF Move
      <4>3. Cardinality(Units') = phase.bytes + n
        BY <2>0, <4>1, PieceCounts DEF StreamType
      <4>4. phase.bytes + n \in 0 .. BUDGET
        <5>1. Units' \in SUBSET (Streams \X (1 .. SHARE))
          BY DEF Units
        <5> QED
          BY <4>3, <5>1, WithinBudget
      <4>5. stream' \in StreamType
        BY <2>0, <4>1 DEF StreamType
      <4> DEFINE reading == [bytes |-> phase.bytes, at |-> now]
                 warm == IF phase.at_warm = None /\ Warm THEN reading ELSE phase.at_warm
                 count == phase.bytes + n
      <4>6. phase' = [phase EXCEPT !.bytes = count, !.at_warm = warm]
        BY <4>1 DEF add
      <4>7. warm \in Marks
        <5>1. phase.at_warm \in Marks
          BY <2>0 DEF PhaseType
        <5> QED
          BY <2>c, <5>1, Zenon
      <4>8. count \in 0 .. BUDGET /\ Cardinality(Units') = count
        BY <4>3, <4>4
      <4> HIDE DEF reading, warm, count
      <4>9. phase' \in PhaseType /\ phase'.bytes = count
        BY <2>0, <4>6, <4>7, <4>8 DEF PhaseType
      <4> QED
        BY <2>0, <2>a, <3>1, <4>2, <4>5, <4>8, <4>9 DEF UnitsCount
    <3>3. CASE Full(s)
      <4> DEFINE reading == [bytes |-> phase.bytes, at |-> now]
                 first == IF phase.at_done = None THEN reading ELSE phase.at_done
      <4>1. phase' = [phase EXCEPT !.at_done = first] /\ stream' = [stream EXCEPT ![s].pc = "ended"]
        BY <3>3 DEF Full, done, Ends
      <4>2. firstDone' \in Times \cup {None}
        BY <2>0, <3>3 DEF Full
      <4>3. first \in Marks
        <5>1. phase.at_done \in Marks
          BY <2>0 DEF PhaseType
        <5> QED
          BY <2>c, <5>1, Zenon
      <4> HIDE DEF reading, first
      <4>4. phase' \in PhaseType /\ phase'.bytes = phase.bytes
        BY <2>0, <4>1, <4>3 DEF PhaseType
      <4>5. stream' \in StreamType /\ \A r \in Streams : stream'[r].left = stream[r].left
        BY <2>0, <4>1 DEF StreamType
      <4> QED
        BY <2>a, <2>b, <3>1, <4>2, <4>4, <4>5
    <3>4. CASE Check(s) \/ AnswerTooLate(s) \/ Broken(s) \/ Answer(s)
      <4>1. firstDone' = firstDone
        BY <3>4 DEF Check, AnswerTooLate, Broken, Answer
      <4>2. \E at \in {"moving", "answer", "full", "ended"} : stream' = [stream EXCEPT ![s].pc = at]
        BY <3>4 DEF Check, AnswerTooLate, Broken, Answer, Ends
      <4>3. phase' = phase \/ \E r \in Causes : phase' = [phase EXCEPT !.cause = IF phase.cause = None THEN r ELSE phase.cause]
        BY <3>4 DEF Check, AnswerTooLate, Broken, Answer, fail, Causes
      <4>4. phase' \in PhaseType /\ phase'.bytes = phase.bytes
        BY <2>0, <4>3 DEF PhaseType
      <4>5. stream' \in StreamType /\ \A r \in Streams : stream'[r].left = stream[r].left
        BY <2>0, <4>2 DEF StreamType
      <4> QED
        BY <2>0, <2>a, <2>b, <3>1, <4>1, <4>4, <4>5
    <3> QED
      BY <2>4, <3>2, <3>3, <3>4 DEF Stream
  <2>5. CASE UNCHANGED speedVars
    BY <2>0, <2>5, <2>a, <2>b DEF speedVars, PhaseType, StreamType, Rest
  <2> QED
    BY <1>3, <2>1, <2>2, <2>3, <2>4, <2>5 DEF SpeedNext
<1> QED
  BY <1>2, <1>3, PTL DEF SpeedSpec

\* What a poll is to print is four flags.
LEMMA FourFlags == ASSUME NEW a \in BOOLEAN, NEW b \in BOOLEAN, NEW c \in BOOLEAN, NEW d \in BOOLEAN
                   PROVE  [reachable |-> a, authed |-> b, tls_error |-> c, error |-> d] \in [DOMAIN Blank -> BOOLEAN]
  BY DEF Blank

\* Whatever a step prints is that.
LEMMA PrintsFlags ==
  ASSUME output \in [Polls -> [DOMAIN Blank -> BOOLEAN]], NEW p \in Polls,
         NEW reachable \in BOOLEAN, NEW authed \in BOOLEAN, NEW tls \in BOOLEAN, Prints(p, reachable, authed, tls)
  PROVE  output' \in [Polls -> [DOMAIN Blank -> BOOLEAN]]
<1> DEFINE r == [reachable |-> reachable, authed |-> authed, tls_error |-> tls, error |-> ~authed]
<1>1. r \in [DOMAIN Blank -> BOOLEAN]
  <2>1. PICK d \in BOOLEAN : d = ~authed
    BY Zenon
  <2> QED
    BY <2>1, FourFlags, Zenon
<1>2. output' = [output EXCEPT ![p] = r]
  BY DEF Prints
<1> HIDE DEF r
<1> QED
  BY <1>1, <1>2

\* A poll's output, the disturbed addresses and the changes keep their types too.
LEMMA OutputsKept == ASSUME XcpTypeOK, PinTypes, NEW p \in Polls, PollStep(p)
                     PROVE  /\ output' \in [Polls -> [DOMAIN Blank -> BOOLEAN]]
                            /\ unsure' \subseteq Names /\ changes' = changes
<1>0. output \in [Polls -> [DOMAIN Blank -> BOOLEAN]] /\ unsure \subseteq Names
  BY DEF XcpTypeOK
<1>1. changes' = changes
  BY DEF PollStep, PollBegins, Shake, Unreachable, ReadPin, OpenPin, WritePin, NoPinStore, LoggedIn,
     Redirect, LoginRefused, CallFails, CallsDone, FetchRates, RatesDone, Emit, Killed
<1>2. unsure' \subseteq unsure \cup {poll[p].addr}
  BY Zenon DEF PollStep, PollBegins, Shake, Unreachable, ReadPin, OpenPin, WritePin, NoPinStore, LoggedIn,
     Redirect, LoginRefused, CallFails, CallsDone, FetchRates, RatesDone, Emit, Killed
<1>3. At(p, "idle") => unsure' = unsure
  BY DEF At, PollStep, PollBegins, Shake, Unreachable, ReadPin, OpenPin, WritePin, NoPinStore, LoggedIn,
     Redirect, LoginRefused, CallFails, CallsDone, FetchRates, RatesDone, Emit, Killed
<1>4. unsure' \subseteq Names
  BY <1>0, <1>2, <1>3 DEF PinTypes
<1>5. Blank \in [DOMAIN Blank -> BOOLEAN]
  BY FourFlags DEF Blank
<1>6. CASE UNCHANGED output
  BY <1>0, <1>1, <1>4, <1>6
<1>7. CASE output' = [output EXCEPT ![p] = Blank]
  BY <1>0, <1>1, <1>4, <1>5, <1>7
<1>8. CASE \E reachable, authed, tls \in BOOLEAN : Prints(p, reachable, authed, tls)
  BY <1>0, <1>1, <1>4, <1>8, PrintsFlags
<1> QED
  BY <1>6, <1>7, <1>8
     DEF PollStep, PollBegins, Shake, Unreachable, GivesUp, ReadPin, OpenPin, WritePin, NoPinStore, LoggedIn,
     Redirect, LoginRefused, CallFails, CallsDone, FetchRates, RatesDone, Emit, Killed

\* The pollers' state, their pins and what is kept of them are of their types.
THEOREM XcpTypesHold == XcpSpec => []XcpTypeOK
<1>1. XcpInit => XcpTypeOK /\ PinTypes
  <2> SUFFICES ASSUME XcpInit PROVE XcpTypeOK /\ PinTypes
    OBVIOUS
  <2>1. NoPoll \in PollType /\ NoPoll.at = "idle" /\ Blank \in [DOMAIN Blank -> BOOLEAN]
    <3>1. NoPoll \in PollType /\ NoPoll.at = "idle"
      BY DEF NoPoll, PollType, PollSteps
    <3>2. Blank \in [DOMAIN Blank -> BOOLEAN]
      BY FourFlags DEF Blank
    <3> QED
      BY <3>1, <3>2
  <2>2. PinTypes
    BY <2>1 DEF XcpInit, PinTypes, At
  <2>3. output \in [Polls -> [DOMAIN Blank -> BOOLEAN]] /\ unsure \subseteq Names /\ changes \in 0 .. MaxChanges
    BY <2>1, XcpngAssumption DEF XcpInit
  <2> QED
    BY <2>2, <2>3 DEF XcpTypeOK, PinTypes
<1>2. ASSUME XcpTypeOK, PinTypes, [XcpNext]_xcpVars
      PROVE  XcpTypeOK' /\ PinTypes'
  <2>1. CASE \E p \in Polls : PollStep(p)
    <3>1. PICK p \in Polls : PollStep(p)
      BY <2>1
    <3>2. PinTypes'
      BY <1>2, <3>1, TypesKept
    <3>3. /\ output' \in [Polls -> [DOMAIN Blank -> BOOLEAN]]
          /\ unsure' \subseteq Names /\ changes' \in 0 .. MaxChanges
      BY <1>2, <3>1, OutputsKept DEF XcpTypeOK
    <3> QED
      BY <3>2, <3>3 DEF XcpTypeOK, PinTypes
  <2>2. CASE CertificateChanges
    <3>1. /\ presents' \in [Names -> Presented]
          /\ UNCHANGED <<pin, poll, output, accepted, unsure>>
      BY <1>2, <2>2 DEF CertificateChanges, XcpTypeOK
    <3>2. changes' \in 0 .. MaxChanges
      BY <1>2, <2>2, XcpngAssumption DEF CertificateChanges, XcpTypeOK
    <3> QED
      BY <1>2, <3>1, <3>2 DEF XcpTypeOK, PinTypes, At
  <2>3. CASE PinRemoved
    <3>1. /\ pin' \in [Names -> Presented \cup {None, "empty"}]
          /\ accepted' \in [Names -> SUBSET Presented]
          /\ unsure' \subseteq Names
          /\ UNCHANGED <<presents, poll, output, changes>>
      BY <1>2, <2>3 DEF PinRemoved, XcpTypeOK
    <3> QED
      BY <1>2, <3>1 DEF XcpTypeOK, PinTypes, At
  <2>4. CASE UNCHANGED xcpVars
    BY <1>2, <2>4 DEF xcpVars, XcpTypeOK, PinTypes, At
  <2> QED
    BY <1>2, <2>1, <2>2, <2>3, <2>4 DEF XcpNext
<1> QED
  BY <1>1, <1>2, PTL DEF XcpSpec

-----------------------------------------------------------------------------
(* The programs one at a time *)

\* In a run each program does what it does on its own, or rests.
THEOREM EachOnItsOwn == Spec => HttpSpec /\ TcpSpec /\ SpeedSpec /\ XcpSpec /\ NetSpec /\ DiagSpec
<1> DEFINE vars == <<which, httpVars, tcpVars, speedVars, xcpVars, netVars, diagVars>>
<1>1. Init => HttpInit /\ TcpInit /\ SpeedInit /\ XcpInit /\ NetInit /\ DiagInit
  BY Zenon DEF Init, HttpRests, TcpRests, XcpStarts, DiagRests
<1>2. [Next]_vars => /\ [HttpNext]_httpVars /\ [TcpNext]_tcpVars /\ [SpeedNext]_speedVars
                     /\ [XcpNext]_xcpVars /\ [NetNext]_netVars /\ [DiagNext]_diagVars
  BY Zenon DEF Next
<1> QED
  BY <1>1, <1>2, PTL DEF Spec, HttpSpec, TcpSpec, SpeedSpec, XcpSpec, NetSpec, DiagSpec

\* All their states are of their types, whichever program runs.
THEOREM AllTypesHold == Spec => []TypeOK
<1>1. Spec => [](which \in Programs)
  <2>1. Init => which \in Programs
    BY DEF Init
  <2>2. which \in Programs /\ [Next]_<<which, httpVars, tcpVars, speedVars, xcpVars, netVars, diagVars>>
          => (which \in Programs)'
    BY Zenon DEF Next
  <2> QED
    BY <2>1, <2>2, PTL DEF Spec
<1>2. HttpSpec => []HttpTypeOK
  <2>1. HttpInv => HttpTypeOK
    BY DEF HttpInv
  <2> QED
    BY <2>1, HttpInductive, PTL
<1>3. TcpSpec => []TcpTypeOK
  <2>1. TcpInv => TcpTypeOK
    BY DEF TcpInv
  <2> QED
    BY <2>1, TcpInductive, PTL
<1>4. which \in Programs /\ HttpTypeOK /\ TcpTypeOK /\ SpeedTypeOK /\ XcpTypeOK /\ NetTypeOK /\ DiagTypeOK => TypeOK
  BY Zenon DEF TypeOK
<1> QED
  BY <1>1, <1>2, <1>3, <1>4, EachOnItsOwn, SpeedTypesInductive, XcpTypesHold, NetTypesHold, DiagTypesHold, PTL

===============================================================================

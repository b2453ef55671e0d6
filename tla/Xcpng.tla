-------------------------------- MODULE Xcpng ---------------------------------
(***************************************************************************)
(* The XCP-NG collector (probe-image/externalscripts/argus_xcpng.py) with  *)
(* TLS mode "pin", as Zabbix's pollers run it: a poll logs in, following   *)
(* one redirect to the pool's master, reads the pool, fetches the rates of *)
(* its live hosts, each over a connection of its own, and prints one       *)
(* object.  The polls share the pins: a file per address that the first    *)
(* contact writes.  What is read of the pool is left out.                  *)
(***************************************************************************)
EXTENDS Naturals, FiniteSets, Nothing

CONSTANTS
    Polls,          \* the pollers
    Names,          \* addresses of the pool's hosts
    Members,        \* those of hosts that may be live
    Presented,      \* certificates
    MaxChanges      \* bound: changes of a certificate

ASSUME XcpngAssumption ==
    /\ None \notin Presented /\ "empty" \notin Presented /\ None # "empty"
    /\ Members \subseteq Names /\ MaxChanges \in Nat

VARIABLES
    presents,   \* per address: the certificate its host presents
    pin,        \* per address: None (no file), "empty", or a certificate
    poll,       \* per poller: where its poll is
    output,     \* per poller: what its poll is to print
    accepted,   \* history, per address: certificates let through since its pin was removed
    unsure,     \* history: addresses whose first contact was disturbed
    changes     \* bound

xcpVars == <<presents, pin, poll, output, accepted, unsure, changes>>

(* for: what the connection is for; hosts: those whose rates are still to be fetched *)
NoPoll == [at |-> "idle", for |-> "login", addr |-> None, try |-> 1, got |-> None, hosts |-> {}]
Blank == [reachable |-> FALSE, authed |-> FALSE, tls_error |-> FALSE, error |-> FALSE]

PollSteps == {"idle", "connect", "check", "learn", "write", "login", "calls", "rates", "emit"}
PollType == [at : PollSteps,
             for : {"login", "rates"}, addr : Names \cup {None}, try : 1 .. 2,
             got : Presented \cup {None}, hosts : SUBSET Members]

XcpTypeOK ==
    /\ presents \in [Names -> Presented]
    /\ pin \in [Names -> Presented \cup {None, "empty"}]
    /\ poll \in [Polls -> PollType]
    /\ output \in [Polls -> [DOMAIN Blank -> BOOLEAN]]
    /\ accepted \in [Names -> SUBSET Presented]
    /\ unsure \subseteq Names
    /\ changes \in 0 .. MaxChanges

XcpInit ==
    /\ presents \in [Names -> Presented]
    /\ pin = [a \in Names |-> None]
    /\ poll = [p \in Polls |-> NoPoll]
    /\ output = [p \in Polls |-> Blank]
    /\ accepted = [a \in Names |-> {}] /\ unsure = {}
    /\ changes = 0

At(p, at) == poll[p].at = at
Now(p, r) == poll' = [poll EXCEPT ![p] = r]
Becomes(p, at) == Now(p, [poll[p] EXCEPT !.at = at])
Connects(p, for, a, try, hosts) ==
    Now(p, [at |-> "connect", for |-> for, addr |-> a, try |-> try, got |-> None, hosts |-> hosts])
Prints(p, reachable, authed, tls) ==
    output' = [output EXCEPT ![p] = [reachable |-> reachable, authed |-> authed, tls_error |-> tls, error |-> ~authed]]

PollBegins(p) ==
    /\ At(p, "idle")
    /\ \E a \in Names : Connects(p, "login", a, 1, {})
    /\ UNCHANGED <<presents, pin, output, accepted, unsure, changes>>

(***************************************************************************)
(* A connection.  One for the rates that can't be made says nothing.       *)
(***************************************************************************)
Shake(p) ==
    /\ At(p, "connect")
    /\ Now(p, [poll[p] EXCEPT !.at = "check", !.got = presents[poll[p].addr]])
    /\ UNCHANGED <<presents, pin, output, accepted, unsure, changes>>

(* what follows a connection that can't be used *)
GivesUp(p, tls) ==
    IF poll[p].for = "rates"
    THEN Becomes(p, "rates") /\ UNCHANGED output
    ELSE Becomes(p, "emit") /\ Prints(p, FALSE, FALSE, tls)

Unreachable(p) ==
    /\ At(p, "connect") \/ At(p, "login")
    /\ GivesUp(p, FALSE)
    /\ UNCHANGED <<presents, pin, accepted, unsure, changes>>

(***************************************************************************)
(* TLSPolicy.check                                                         *)
(***************************************************************************)
LetThrough(p) ==
    /\ Becomes(p, IF poll[p].for = "rates" THEN "rates" ELSE "login")
    /\ accepted' = [accepted EXCEPT ![poll[p].addr] = @ \cup {poll[p].got}]

Learning(a, others) == \E q \in others : poll[q].addr = a /\ poll[q].at \in {"learn", "write"}

\* learns a certificate that isn't the pinned one
ReadPin_Relearns(p) ==
    /\ At(p, "check")
    /\ LET a == poll[p].addr IN
       /\ IF pin[a] # poll[p].got
          THEN Becomes(p, "learn") /\ UNCHANGED <<output, accepted>>
          ELSE LetThrough(p) /\ UNCHANGED output
       /\ unsure' = IF Learning(a, Polls \ {p}) THEN unsure \cup {a} ELSE unsure
    /\ UNCHANGED <<presents, pin, changes>>

ReadPin(p) ==
    /\ At(p, "check")
    /\ LET a == poll[p].addr IN
       /\ IF pin[a] \in {None, "empty"}
          THEN Becomes(p, "learn") /\ UNCHANGED <<output, accepted>>
          ELSE IF pin[a] = poll[p].got
          THEN LetThrough(p) /\ UNCHANGED output
          ELSE GivesUp(p, TRUE) /\ UNCHANGED accepted
       /\ unsure' = IF Learning(a, Polls \ {p}) THEN unsure \cup {a} ELSE unsure
    /\ UNCHANGED <<presents, pin, changes>>

(* open "w": the file is there and empty *)
OpenPin(p) ==
    /\ At(p, "learn")
    /\ pin' = [pin EXCEPT ![poll[p].addr] = "empty"]
    /\ Becomes(p, "write")
    /\ UNCHANGED <<presents, output, accepted, unsure, changes>>

WritePin(p) ==
    /\ At(p, "write")
    /\ pin' = [pin EXCEPT ![poll[p].addr] = poll[p].got]
    /\ LetThrough(p)
    /\ UNCHANGED <<presents, output, unsure, changes>>

(* A pin that can't be read isn't compared with, one that can't be written
   isn't learned: "next poll trusts again". *)
NoPinStore(p) ==
    /\ poll[p].at \in {"check", "learn", "write"}
    /\ LetThrough(p)
    /\ unsure' = unsure \cup {poll[p].addr}
    /\ UNCHANGED <<presents, pin, output, changes>>

(***************************************************************************)
(* connect: login_with_password, and one redirect                          *)
(***************************************************************************)
LoggedIn(p) ==
    /\ At(p, "login")
    /\ Becomes(p, "calls")
    /\ UNCHANGED <<presents, pin, output, accepted, unsure, changes>>

Redirect(p) ==
    /\ At(p, "login") /\ poll[p].try = 1
    /\ \E a \in Names : Connects(p, "login", a, 2, {})
    /\ UNCHANGED <<presents, pin, output, accepted, unsure, changes>>

(* A wrong password is an answer; other refusals, a second redirect among them,
   count as none. *)
LoginRefused(p) ==
    /\ At(p, "login")
    /\ Becomes(p, "emit")
    /\ \E reachable \in BOOLEAN : Prints(p, reachable, FALSE, FALSE)
    /\ UNCHANGED <<presents, pin, accepted, unsure, changes>>

(***************************************************************************)
(* main: the data calls, the rates of the live hosts, logout, emit         *)
(***************************************************************************)
CallFails(p) ==
    /\ At(p, "calls")
    /\ Becomes(p, "emit") /\ Prints(p, TRUE, FALSE, FALSE)
    /\ UNCHANGED <<presents, pin, accepted, unsure, changes>>

CallsDone(p) ==
    /\ At(p, "calls")
    /\ \E live \in SUBSET Members : Now(p, [poll[p] EXCEPT !.at = "rates", !.hosts = live])
    /\ Prints(p, TRUE, TRUE, FALSE)
    /\ UNCHANGED <<presents, pin, accepted, unsure, changes>>

FetchRates(p) ==
    /\ At(p, "rates")
    /\ \E a \in poll[p].hosts : Connects(p, "rates", a, poll[p].try, poll[p].hosts \ {a})
    /\ UNCHANGED <<presents, pin, output, accepted, unsure, changes>>

RatesDone(p) ==
    /\ At(p, "rates") /\ poll[p].hosts = {}
    /\ Becomes(p, "emit")
    /\ UNCHANGED <<presents, pin, output, accepted, unsure, changes>>

Emit(p) ==
    /\ At(p, "emit")
    /\ Now(p, NoPoll)
    /\ output' = [output EXCEPT ![p] = Blank]
    /\ UNCHANGED <<presents, pin, accepted, unsure, changes>>

(* Zabbix ends a check that takes longer than its timeout. *)
Killed(p) ==
    /\ ~At(p, "idle") /\ ~At(p, "emit")
    /\ Now(p, NoPoll)
    /\ output' = [output EXCEPT ![p] = Blank]
    /\ unsure' = IF At(p, "write") THEN unsure \cup {poll[p].addr} ELSE unsure
    /\ UNCHANGED <<presents, pin, accepted, changes>>

(* A host gets another certificate; its operator removes the old one's pin. *)
CertificateChanges ==
    /\ changes < MaxChanges
    /\ \E a \in Names, c \in Presented : c # presents[a] /\ presents' = [presents EXCEPT ![a] = c]
    /\ changes' = changes + 1
    /\ UNCHANGED <<pin, poll, output, accepted, unsure>>

PinRemoved ==
    /\ \E a \in Names :
         /\ pin[a] \notin {None, presents[a]}
         /\ pin' = [pin EXCEPT ![a] = None]
         /\ accepted' = [accepted EXCEPT ![a] = {}]
         /\ unsure' = IF \E p \in Polls : poll[p].addr = a THEN unsure \cup {a} ELSE unsure \ {a}
    /\ UNCHANGED <<presents, poll, output, changes>>

PollStep(p) ==
    \/ PollBegins(p) \/ Shake(p) \/ Unreachable(p)
    \/ ReadPin(p) \/ OpenPin(p) \/ WritePin(p) \/ NoPinStore(p)
    \/ LoggedIn(p) \/ Redirect(p) \/ LoginRefused(p)
    \/ CallFails(p) \/ CallsDone(p) \/ FetchRates(p) \/ RatesDone(p) \/ Emit(p)
    \/ Killed(p)

XcpNext == CertificateChanges \/ PinRemoved \/ \E p \in Polls : PollStep(p)

XcpSpec == XcpInit /\ [][XcpNext]_xcpVars

-----------------------------------------------------------------------------
(* Properties *)

(* Polls at the same time, redirects and certificates that change: an address
   is trusted with one certificate only, until its pin is removed, unless two
   polls made its first contact together, or the pin couldn't be read, written
   or finished (TLSPolicy.check). *)
OneCertificate ==
    \A a \in Names \ unsure : Cardinality(accepted[a]) <= 1

-----------------------------------------------------------------------------
(* Why there is only one *)

Learns(p, a) == poll[p].addr = a /\ poll[p].at \in {"learn", "write"}

PinTypes ==
    /\ presents \in [Names -> Presented]
    /\ pin \in [Names -> Presented \cup {None, "empty"}]
    /\ poll \in [Polls -> PollType]
    /\ accepted \in [Names -> SUBSET Presented]
    /\ \A p \in Polls : /\ ~At(p, "idle") => poll[p].addr \in Names
                        /\ poll[p].at \in {"check", "learn", "write"} => poll[p].got \in Presented

(* What was let through is what the pin's file says, before and after its
   first contact; and one poll at most makes that contact. *)
Learned(a) ==
    /\ pin[a] \in Presented => accepted[a] \subseteq {pin[a]}
    /\ pin[a] \notin Presented => accepted[a] = {}
    /\ \A p, q \in Polls : Learns(p, a) /\ Learns(q, a) => p = q
    /\ \A p \in Polls : Learns(p, a) => pin[a] = IF At(p, "learn") THEN None ELSE "empty"
    /\ pin[a] = "empty" => \E p \in Polls : Learns(p, a)

XcpInv == PinTypes /\ \A a \in Names \ unsure : Learned(a)
===============================================================================

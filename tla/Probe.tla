-------------------------------- MODULE Probe ---------------------------------
(***************************************************************************)
(* The probe container as a whole: the start script and the check-in loop  *)
(* with what can befall them.  A stop (a power cut, a reboot, the updater  *)
(* recreating the container) ends the script at any of the steps in        *)
(* StopAt; Docker's restart policy, or the next boot, starts it again.     *)
(***************************************************************************)
EXTENDS Renewal

CONSTANTS
    StopAt,      \* the steps a stop, or the SIGTERM the loop sends, may hit
    MaxStops,    \* bound: stops from outside in one behaviour
    MaxNow       \* bound: the last date

ASSUME StopsAssumption == StopAt \subseteq Steps /\ MaxStops \in Nat /\ MaxNow \in Nat

\* A factory-new data volume, an Argus that has redeemed nothing yet.
Init ==
    /\ key = None /\ crt = None /\ ca = None /\ meta = None /\ old = None
    /\ pc = "off" /\ ret = "read"
    /\ mem = None /\ resp = None /\ new = None /\ run = None
    /\ term = FALSE /\ wait = FALSE
    /\ env \in Envs
    /\ now = 0 /\ spent = {} /\ stops = 0
    /\ argusCA = [id |-> OurCA, end |-> Life + Margin]
    /\ argusHost \in Hosts \cup {None}

-------------------------------------------------------------------------------
(* What happens from outside                                               *)

\* A stop that has nothing to do with what the script is doing.
Stop ==
    /\ pc \in StopAt
    /\ stops < MaxStops
    /\ stops' = stops + 1
    /\ Forget
    /\ UNCHANGED <<volume, env, now, spent, argusCA, argusHost>>

\* The proxy (PID 1) has ended on the loop's SIGTERM, and with it the loop.
Terminated ==
    /\ term /\ pc \in StopAt
    /\ Forget
    /\ UNCHANGED <<volume, outside>>

\* The operator creates the container anew with another environment.
Reconfigure ==
    /\ pc = "off"
    /\ \E e \in Envs : e # env /\ env' = e
    /\ UNCHANGED <<volume, script, now, spent, argusCA, argusHost, stops>>

\* "clear the enroll dir and run with a new token": what the script asks for
\* when proxy.env has no usable name.
ClearVolume ==
    /\ pc = "off" /\ AllThree /\ meta \in {None, Junk}
    /\ key' = None /\ crt' = None /\ ca' = None /\ meta' = None /\ old' = None
    /\ UNCHANGED <<script, outside>>

DayPasses ==
    /\ now < MaxNow
    /\ now' = now + 1
    /\ UNCHANGED <<volume, script, env, spent, argusCA, argusHost, stops>>

\* Argus renews its CA (same key and name, a later end) or re-points the fleet.
ArgusRenewsCA ==
    /\ EndsSoon(argusCA)
    /\ argusCA' = [argusCA EXCEPT !.end = now + Life + Margin]
    /\ UNCHANGED <<volume, script, env, now, spent, argusHost, stops>>

ArgusRepoints ==
    /\ \E h \in Hosts \cup {None} : h # argusHost /\ argusHost' = h
    /\ UNCHANGED <<volume, script, env, now, spent, argusCA, stops>>

-------------------------------------------------------------------------------
ScriptStep == StartContainer \/ EnrollStep \/ StartStep \/ LoopStep

Next ==
    \/ ScriptStep \/ HourPasses
    \/ Stop \/ Terminated
    \/ Reconfigure \/ ClearVolume
    \/ DayPasses \/ ArgusRenewsCA \/ ArgusRepoints

Spec == Init /\ [][Next]_vars

\* The script runs on (the container's process and Docker's restart policy), an
\* hour ends, and a proxy told to terminate does.  Argus answers a renewal
\* again and again when it is asked again and again.
Fairness ==
    /\ WF_vars(ScriptStep) /\ WF_vars(HourPasses)
    /\ SF_vars(Terminated)
    /\ SF_vars(NewKey) /\ SF_vars(CertificateArrives)

FairSpec == Spec /\ Fairness

-------------------------------------------------------------------------------
(* Properties                                                              *)

\* The steps a stop must not hit, by what it would leave behind.
\* Enrolment: the three files are there, proxy.env is not.
EnrolWindow == {"ca_fill", "name", "meta_open", "rm_key", "rm_crt", "rm_ca"}
\* write_meta: proxy.env is empty.
MetaWindow == {"meta_fill"}
\* Renewal: the key and the certificate don't belong together.
SwapWindow == {"key_fill", "crtn_open", "crtn_fill"}

\* The Zabbix proxy never runs under another identity than its own: from the
\* exec in the start script on, the key it was started with is the one its
\* certificate was signed for, the CA is the one that signed it, and the name it
\* calls itself by is the certificate's.
RunsAsItself ==
    run # None =>
        /\ run.crt \in Certs /\ run.ca \in CACerts
        /\ run.crt.key = run.key
        /\ run.crt.by = run.ca.id
        /\ run.crt.name = run.name

\* Every start finds something it can work with: while the container is off, the
\* volume either lacks one of the three files (the next start enrols) or holds a
\* whole identity (the next start brings the proxy up as itself).  Claimed for
\* stops outside the three windows; what one inside leaves is real.
RestartSafe == pc = "off" /\ AllThree => Whole

\* A probe once enrolled is never turned away at the door: the start script's
\* "no usable PROXY_NAME" exit is never reached.  Claimed as above, and for answers
\* that have both a CA and a name.
NeverStranded == pc = "read" => meta \in Metas

\* A token taken from the environment has reached proxy.env before the proxy
\* runs, and a core host that Argus handed out too: what runs is what the next
\* start would find.
RunsWhatIsSaved ==
    pc = "up" => meta = mem /\ (env.pin = None => run.host = meta.host)

\* The certificate the probe has: while the new one is copied over it, still the
\* one just saved to proxy.crt.old.
PresentCert == IF pc = "crtn_fill" THEN old.crt ELSE crt

\* proxy.env names the probe, or is just being written anew from memory.
Named == meta \in Metas \/ (pc = "meta_fill" /\ ret # "read")

\* None is no identity either.
ASSUME IdentityAssumption == None \notin [name : Names, end : Nat]

Identity ==
    IF PresentCert \in Certs /\ ca \in CACerts /\ Named
      THEN [name |-> PresentCert.name, end |-> PresentCert.end]
      ELSE None

Contract == INSTANCE ProbeContract WITH id <- Identity, up <- run # None

\* The container keeps the probe's promise: enrolled once and for good, always
\* the same name, certificates that only get later, no proxy before enrolment;
\* across every stop, restart, re-point and renewal.
KeepsContract == Contract!Spec

\* The probe only ever goes from one CA certificate to a renewal of the same CA
\* with a later end, whatever Argus hands out.
SameTrustAnchor ==
    [][(ca \in CACerts /\ ca' # ca /\ key' # None)
         => (ca' \in CACerts /\ ca'.id = ca.id /\ ca'.end > ca.end)]_vars

\* The loop restarts the proxy for a certificate only once the new pair is in
\* place: other than the one it runs on, complete, with a later end.  Claimed where
\* writes succeed: a move that fails goes unnoticed (checkin.sh 223).
RestartsOnNewPair ==
    [][pc = "rn_done" /\ pc' = "up" => Pair /\ crt.end > run.crt.end]_vars

\* An enrolled probe that has a core host saved comes up again after any stop,
\* whatever Argus answers and with no operator.
ComesBack == pc = "off" /\ Whole /\ meta.host # None ~> pc = "up"

\* A running probe's certificate that ends soon is replaced by one that doesn't,
\* however often the proxy is restarted meanwhile.
CertificateRenewed ==
    pc = "up" /\ mem.cred # None /\ mem.host # None /\ EndsSoon(crt)
        ~> crt \in Certs /\ ~EndsSoon(crt)

-------------------------------------------------------------------------------
(* Why they hold: the inductive invariants.                                *)

\* What the steps below must not meet, for each of them.
NoCutInRenewal == StopAt \cap SwapWindow = {} /\ ~DiskFull
NoCutAtAll ==
    /\ NoCutInRenewal
    /\ StopAt \cap (EnrolWindow \cup MetaWindow) = {}
    /\ Replies \cap {"noCa", "noName"} = {}

EnrolSteps == {"gen", "post", "rmkey", "crt_open", "crt_fill", "ca_open", "ca_fill",
               "name", "rm_key", "rm_crt", "rm_ca"}

\* Nothing is enrolled over a proxy.env that names the probe, and while one
\* does, the three files go with it.
NameIsLast ==
    /\ pc \in EnrolSteps => meta \notin Metas
    /\ meta \in Metas /\ pc \notin SwapWindow => Whole

\* What the enrolment has in hand is from one answer, for the key on disk.
OneAnswer ==
    /\ pc \in {"gen", "post"} => env.token # None
    /\ pc = "post" => key \in Keys
    /\ pc \in {"crt_open", "crt_fill", "ca_open", "ca_fill", "name"} =>
         /\ key \in Keys /\ resp \in Answers
         /\ resp.crt # Junk => /\ resp.crt.key = key
                               /\ resp.name \in Names => resp.name = resp.crt.name
                               /\ resp.ca # Junk => resp.ca.id = resp.crt.by
    /\ pc \in {"ca_open", "ca_fill", "name"} => crt = resp.crt /\ crt \in Certs
    /\ pc = "name" => ca = resp.ca /\ ca \in CACerts

\* proxy.env and the script's variables, from the first write_meta on.
MemoryIsSaved ==
    /\ pc \in {"meta_open", "meta_fill"} => mem \in Metas /\ Pair /\ mem.name = crt.name
    /\ pc \in {"cred", "sync", "procs", "host"} \cup LoopSteps => meta \in Metas /\ mem = meta

\* The proxy runs while the loop does, as itself.
RunInv ==
    /\ pc \in LoopSteps <=> run # None
    /\ RunsAsItself
    /\ run # None => run.name = meta.name

\* A renewal's new pair is one, of the same name and CA, with a later end.
NewPair ==
    /\ pc \in {"rn_post", "rn_save", "key_open"} \cup SwapWindow => new # None
    /\ pc \in {"rn_save", "key_open"} \cup SwapWindow =>
         /\ new.crt \in Certs /\ ca \in CACerts
         /\ new.crt.key = new.key /\ new.crt.by = ca.id
         /\ new.crt.name = meta.name
         /\ new.crt.end > run.crt.end
    /\ pc \in {"key_fill", "crtn_open"} => crt \in Certs /\ crt.name = meta.name
    /\ pc \in {"crtn_open", "crtn_fill"} => key = new.key
    /\ run # None /\ crt \in Certs => crt.end >= run.crt.end
    /\ pc = "rn_done" => crt.end > run.crt.end

\* The loop's proxy dials the host that is saved, or the pinned one.
DialsSaved == pc \in LoopSteps /\ env.pin = None => run.host = meta.host

IInv == TypeOK /\ NameIsLast /\ OneAnswer /\ MemoryIsSaved /\ RunInv /\ NewPair

\* With no cut in the windows, the CA file is there only with all the others.
CAIsComplete ==
    /\ pc \in {"off", "check"} => ca = None \/ meta \in Metas
    /\ pc \in {"gen", "post", "rmkey", "crt_open", "crt_fill", "ca_open"} => ca = None
    /\ pc \in {"crt_open", "crt_fill", "ca_open", "ca_fill", "name"} =>
         resp.ca # Junk /\ resp.name # Junk
    /\ pc = "ca_fill" => ca = Junk
    /\ pc \in {"rm_crt", "rm_ca"} => key = None
    /\ pc = "read" => meta \in Metas

IInvSafe == IInv /\ CAIsComplete

\* The identity outlives its rewriting: proxy.env is emptied only to be written
\* anew, and what a renewal replaces is in proxy.crt.old and ends earlier.
Rewriting ==
    /\ pc = "meta_open" => (meta \in Metas <=> ret # "read")
    /\ pc = "meta_fill" => meta = Junk
    /\ pc \in {"rn_save", "key_open", "key_fill", "crtn_open"} => crt \in Certs /\ new.crt.end > crt.end
    /\ pc \in {"key_open", "key_fill", "crtn_open"} => old # None /\ old.crt = crt
    /\ pc = "crtn_fill" => /\ old # None /\ old.crt \in Certs
                           /\ old.crt.name = meta.name /\ old.crt.end < new.crt.end

IInvContract == IInvSafe /\ Rewriting

===============================================================================

------------------------------ MODULE ProbeState ------------------------------
(***************************************************************************)
(* The state that a probe's start script (Enroll) and its check-in loop    *)
(* (Renewal) work on: the identity on the data volume (enroll/proxy.key,   *)
(* proxy.crt, ca.crt, proxy.env), the one script of the container, what it *)
(* holds in memory, and what the outside (Argus, the operator) has to say. *)
(*                                                                         *)
(* Keys, certificates and hosts are values told apart only by equality; a  *)
(* certificate is the four things the scripts compare.  Dates are whole    *)
(* units of the clock `now'.                                               *)
(***************************************************************************)
EXTENDS Naturals, FiniteSets

CONSTANTS
    Keys,        \* key pairs; a new key is one that nothing refers to any more
    Names,       \* proxy names that have a usable shape (valid_name)
    CAIds,       \* certification authorities, each with a key and name of its own
    OurCA,       \* the one that belongs to this Argus
    Hosts,       \* core hosts that have a usable shape (valid_host)
    Creds,       \* check-in tokens that have a usable shape (valid_token)
    Tokens,      \* single-use enrolment tokens
    None,        \* a missing file, an empty value
    Junk,        \* a file that is there and can't be used (cut short, "null")
    Life,        \* how long a certificate Argus signs lasts
    Margin       \* "ends within 30 days", in units of the clock

ASSUME ArgusAssumption == OurCA \in CAIds
ASSUME DatesAssumption == Life \in Nat /\ Margin \in Nat /\ Margin < Life

VARIABLES
    \* the data volume
    key,         \* enroll/proxy.key
    crt,         \* enroll/proxy.crt
    ca,          \* enroll/ca.crt
    meta,        \* enroll/proxy.env
    old,         \* enroll/proxy.key.old and proxy.crt.old
    \* the container: one script (start script, then check-in loop)
    pc,          \* the step it is about to take; "off" when it doesn't run
    ret,         \* where the start script goes on after write_meta
    mem,         \* the shell variables PROXY_NAME, CORE_HOST, PROBE_TOKEN
    resp,        \* the answer to the enrolment request
    new,         \* the new pair in renew_cert's temporary folder
    term,        \* a SIGTERM is on its way to PID 1
    wait,        \* CERT_NEXT_TRY lies in the future
    run,         \* what the Zabbix proxy was started with; None before the exec
    \* outside
    env,         \* the container's environment, set by the operator
    now,         \* the date
    spent,       \* enrolment tokens Argus has redeemed
    argusCA,     \* the CA certificate Argus hands out
    argusHost,   \* the core host Argus hands out (None: it has none)
    stops        \* how often the container was stopped from outside

volume == <<key, crt, ca, meta, old>>
script == <<pc, ret, mem, resp, new, term, wait, run>>
outside == <<env, now, spent, argusCA, argusHost, stops>>
vars == <<volume, script, outside>>

Certs == [key : Keys, name : Names, by : CAIds, end : Nat]
CACerts == [id : CAIds, end : Nat]
OldPairs == [key : Keys \cup {Junk}, crt : Certs \cup {Junk}]
NewPairs == [key : Keys, crt : Certs \cup {None}]
Metas == [name : Names, host : Hosts \cup {None}, cred : Creds \cup {None}]
\* The environment: ARGUS_ENROLL_TOKEN, ARGUS_PROBE_TOKEN, ZBX_SERVER_HOST.
Envs == [token : Tokens \cup {None}, cred : Creds \cup {None}, pin : Hosts \cup {None}]
\* An enrolment answer: Junk stands for a field jq can't find; the name may
\* also be one that valid_name refuses (None).
Answers == [crt : Certs \cup {Junk}, ca : CACerts \cup {Junk}, name : Names \cup {None, Junk},
            host : Hosts \cup {None}, cred : Creds \cup {None}]
Runs == [key : Keys \cup {Junk}, crt : Certs \cup {Junk}, ca : CACerts \cup {Junk},
         name : Names, host : Hosts]


\* None and Junk are no proper value of anything.
ASSUME SentinelsAssumption ==
    /\ None # Junk
    /\ None \notin Hosts \cup Creds \cup Tokens
    /\ {None, Junk} \cap (Names \cup Keys) = {}
    /\ \A s \in {None, Junk} : s \notin Certs /\ s \notin CACerts /\ s \notin Metas
    /\ None \notin Answers /\ None \notin Runs
    /\ None \notin NewPairs /\ None \notin OldPairs

StartSteps == {"check", "gen", "post", "rmkey", "crt_open", "crt_fill", "ca_open", "ca_fill",
               "name", "rm_key", "rm_crt", "rm_ca", "meta_open", "meta_fill",
               "read", "cred", "sync", "procs", "host"}
LoopSteps == {"up", "cert", "rn_gen", "rn_post", "rn_save",
              "key_open", "key_fill", "crtn_open", "crtn_fill", "rn_done"}
Steps == StartSteps \cup LoopSteps

\* The two flags, apart from the rest of the types.
Flags == term \in BOOLEAN /\ wait \in BOOLEAN

DataOK ==
    /\ key \in Keys \cup {None, Junk}
    /\ crt \in Certs \cup {None, Junk}
    /\ ca \in CACerts \cup {None, Junk}
    /\ meta \in Metas \cup {None, Junk}
    /\ old \in OldPairs \cup {None}
    /\ pc \in Steps \cup {"off"}
    /\ ret \in {"read", "sync", "procs"}
    /\ mem \in Metas \cup {None}
    /\ resp \in Answers \cup {None}
    /\ new \in NewPairs \cup {None}
    /\ run \in Runs \cup {None}
    /\ env \in Envs
    /\ now \in Nat /\ stops \in Nat
    /\ spent \subseteq Tokens
    /\ argusCA \in CACerts
    /\ argusHost \in Hosts \cup {None}

TypeOK == DataOK /\ Flags

-------------------------------------------------------------------------------
(* Vocabulary                                                              *)

\* `openssl x509 -checkend 2592000' fails: it ends within thirty days, or
\* can't be read at all.
EndsSoon(c) == c \in {None, Junk} \/ c.end <= now + Margin

\* The keys something still refers to; a new one is none of these.
KeysInUse ==
    {k \in Keys :
        \/ key = k
        \/ crt \notin {None, Junk} /\ crt.key = k
        \/ old # None /\ old.key = k
        \/ old # None /\ old.crt # Junk /\ old.crt.key = k
        \/ new # None /\ new.key = k
        \/ run # None /\ run.key = k}

\* All three files are there, so a start skips the enrolment.
AllThree == key # None /\ crt # None /\ ca # None

\* A key, its certificate and the CA that signed it.
Pair == /\ key \in Keys
        /\ crt \in Certs
        /\ ca \in CACerts
        /\ crt.key = key
        /\ crt.by = ca.id

\* The identity is complete: the pair, and proxy.env naming it.
Whole == Pair /\ meta \in Metas /\ meta.name = crt.name
===============================================================================

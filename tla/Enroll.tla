-------------------------------- MODULE Enroll --------------------------------
(***************************************************************************)
(* The start script of the probe container (probe-image/entrypoint.sh): it *)
(* enrols when one of the three identity files is missing, reads proxy.env *)
(* back, brings it up to date with the operator's environment and Argus,   *)
(* and hands over to the Zabbix proxy.  A redirection `> FILE' is two      *)
(* steps: it empties the file when it opens it, then the text arrives.     *)
(* `exit 1' (and what `set -e' ends) turns the container off; Docker's     *)
(* restart policy starts it again.                                         *)
(***************************************************************************)
EXTENDS ProbeState

CONSTANTS
    Replies,     \* kinds of a 200 answer to the enrolment Argus may give
    DiskFull     \* TRUE: a write to the data volume may fail

AllReplies == {"full", "noCert", "noCa", "noName", "badName"}
ASSUME RepliesAssumption == Replies \subseteq AllReplies /\ DiskFull \in BOOLEAN

\* The answers of each kind, for the key in the request.
Answer(kind, k, n, h, c) ==
    [crt  |-> IF kind = "noCert" THEN Junk
              ELSE [key |-> k, name |-> n, by |-> argusCA.id, end |-> now + Life],
     ca   |-> IF kind = "noCa" THEN Junk ELSE argusCA,
     name |-> CASE kind = "noName" -> Junk
                [] kind = "badName" -> None
                [] OTHER -> n,
     host |-> h,
     cred |-> c]

\* The shell ends: its variables are gone, and so is a signal meant for it.
Forget ==
    /\ pc' = "off"
    /\ ret' = "read"
    /\ mem' = None /\ resp' = None /\ new' = None /\ run' = None
    /\ term' = FALSE /\ wait' = FALSE

Goto(step) == pc' = step /\ UNCHANGED <<ret, mem, resp, new, term, wait, run>>

\* The text of a redirection doesn't arrive: the file stays as `> FILE' left
\* it, and `set -e' ends the script.
WriteFails == DiskFull /\ UNCHANGED volume /\ Forget

\* Docker (re)starts the container.
StartContainer ==
    /\ pc = "off"
    /\ Goto("check")
    /\ UNCHANGED <<volume, outside>>

\* Enrol unless all three files exist; no enrolment without a token.
CheckFiles ==
    /\ pc = "check"
    /\ IF AllThree THEN Goto("read")
       ELSE IF env.token = None THEN Forget
       ELSE Goto("gen")
    /\ UNCHANGED <<volume, outside>>

GenerateKey ==
    /\ pc = "gen"
    /\ \E k \in Keys \ KeysInUse : key' = k
    /\ Goto("post")
    /\ UNCHANGED <<crt, ca, meta, old, outside>>

\* Argus redeems the token once, and its answer arrives.
PostAccepted ==
    /\ pc = "post"
    /\ env.token \notin spent
    /\ spent' = spent \cup {env.token}
    /\ \E kind \in Replies, n \in Names, h \in {argusHost}, c \in Creds \cup {None} :
          resp' = Answer(kind, key, n, h, c)
    /\ pc' = "crt_open"
    /\ UNCHANGED <<volume, ret, mem, new, term, wait, run, env, now, argusCA, argusHost, stops>>

\* No usable answer: Argus can't be reached, refuses the token, or redeems it
\* and its answer is lost on the way back.
PostFailed ==
    /\ pc = "post"
    /\ \/ UNCHANGED spent
       \/ env.token \notin spent /\ spent' = spent \cup {env.token}
    /\ Goto("rmkey")
    /\ UNCHANGED <<volume, env, now, argusCA, argusHost, stops>>

RemoveKeyAndExit ==
    /\ pc = "rmkey"
    /\ key' = None
    /\ Forget
    /\ UNCHANGED <<crt, ca, meta, old, outside>>

\* echo "$RESP" | jq -er '.certificate' > "$CRT"
OpenCert ==
    /\ pc = "crt_open"
    /\ crt' = Junk
    /\ Goto("crt_fill")
    /\ UNCHANGED <<key, ca, meta, old, outside>>

FillCert ==
    /\ pc = "crt_fill"
    /\ \/ WriteFails
       \/ resp.crt = Junk /\ UNCHANGED volume /\ Forget
       \/ /\ resp.crt # Junk
          /\ crt' = resp.crt
          /\ Goto("ca_open")
          /\ UNCHANGED <<key, ca, meta, old>>
    /\ UNCHANGED outside

OpenCA ==
    /\ pc = "ca_open"
    /\ ca' = Junk
    /\ Goto("ca_fill")
    /\ UNCHANGED <<key, crt, meta, old, outside>>

FillCA ==
    /\ pc = "ca_fill"
    /\ \/ WriteFails
       \/ resp.ca = Junk /\ UNCHANGED volume /\ Forget
       \/ /\ resp.ca # Junk
          /\ ca' = resp.ca
          /\ Goto("name")
          /\ UNCHANGED <<key, crt, meta, old>>
    /\ UNCHANGED outside

\* Ends on an unusable name without taking the files back.
CheckName_KeepsFiles ==
    /\ pc = "name"
    /\ IF resp.name \in {None, Junk} THEN Forget
       ELSE /\ mem' = [name |-> resp.name, host |-> resp.host, cred |-> resp.cred]
            /\ pc' = "meta_open" /\ ret' = "read"
            /\ UNCHANGED <<resp, new, term, wait, run>>
    /\ UNCHANGED <<volume, outside>>

\* The name: missing ends the script, an unusable one takes the files back.
CheckName ==
    /\ pc = "name"
    /\ CASE resp.name = Junk -> Forget
         [] resp.name = None -> Goto("rm_key")
         [] OTHER -> /\ mem' = [name |-> resp.name, host |-> resp.host, cred |-> resp.cred]
                     /\ pc' = "meta_open" /\ ret' = "read"
                     /\ UNCHANGED <<resp, new, term, wait, run>>
    /\ UNCHANGED <<volume, outside>>

\* rm -f "$KEY" "$CRT" "$CA"
RemoveAll ==
    /\ \/ pc = "rm_key" /\ key' = None /\ Goto("rm_crt") /\ UNCHANGED <<crt, ca>>
       \/ pc = "rm_crt" /\ crt' = None /\ Goto("rm_ca") /\ UNCHANGED <<key, ca>>
       \/ pc = "rm_ca" /\ ca' = None /\ Forget /\ UNCHANGED <<key, crt>>
    /\ UNCHANGED <<meta, old, outside>>

\* write_meta: printf ... > "$META"
OpenMeta ==
    /\ pc = "meta_open"
    /\ meta' = Junk
    /\ Goto("meta_fill")
    /\ UNCHANGED <<key, crt, ca, old, outside>>

\* Goes on when the text can't be written.
FillMeta_GoesOn ==
    /\ pc = "meta_fill"
    /\ \/ DiskFull /\ Goto(ret) /\ UNCHANGED volume
       \/ meta' = mem /\ Goto(ret) /\ UNCHANGED <<key, crt, ca, old>>
    /\ UNCHANGED outside

FillMeta ==
    /\ pc = "meta_fill"
    /\ \/ WriteFails
       \/ meta' = mem /\ Goto(ret) /\ UNCHANGED <<key, crt, ca, old>>
    /\ UNCHANGED outside

\* proxy.env is the truth from here on; without a usable name there is none.
ReadMeta ==
    /\ pc = "read"
    /\ IF meta \in {None, Junk} THEN Forget
       ELSE /\ mem' = meta
            /\ resp' = None
            /\ pc' = "cred"
            /\ UNCHANGED <<ret, new, term, wait, run>>
    /\ UNCHANGED <<volume, outside>>

WriteMetaThen(m, step) ==
    /\ mem' = m
    /\ pc' = "meta_open" /\ ret' = step
    /\ UNCHANGED <<resp, new, term, wait, run>>

\* A token in the environment wins over the saved one, and is saved.
TakeEnvCred ==
    /\ pc = "cred"
    /\ IF env.cred \notin {None, mem.cred}
         THEN WriteMetaThen([mem EXCEPT !.cred = env.cred], "sync")
         ELSE Goto("sync")
    /\ UNCHANGED <<volume, outside>>

\* Takes an empty answer for a new host.
SyncWithArgus_TakesEmpty ==
    /\ pc = "sync"
    /\ IF env.pin = None /\ mem.cred # None /\ argusHost # mem.host
         THEN WriteMetaThen([mem EXCEPT !.host = argusHost], "procs")
         ELSE Goto("procs")
    /\ UNCHANGED <<volume, outside>>

\* Asks Argus for the core host, unless there is no token to ask with, the
\* call fails, or the environment pins the host.
SyncWithArgus ==
    /\ pc = "sync"
    /\ \E answer \in IF mem.cred = None THEN {None} ELSE {None, argusHost} :
          IF env.pin = None /\ answer \notin {None, mem.host}
            THEN WriteMetaThen([mem EXCEPT !.host = answer], "procs")
            ELSE Goto("procs")
    /\ UNCHANGED <<volume, outside>>

\* The process counts in the same answer go to procs.env.new and are moved over
\* procs.env; `set -e' ends the script when they can't be written.
SaveCounts ==
    /\ pc = "procs"
    /\ \/ Goto("host")
       \/ DiskFull /\ mem.cred # None /\ Forget
    /\ UNCHANGED <<volume, outside>>

\* The host to dial, the environment's first; then the exec.  The check-in
\* loop is forked just before and only with a token.
HandOver ==
    /\ pc = "host"
    /\ LET dial == IF env.pin # None THEN env.pin ELSE mem.host IN
       IF dial = None THEN Forget
       ELSE /\ run' = [key |-> key, crt |-> crt, ca |-> ca, name |-> mem.name, host |-> dial]
            /\ pc' = "up"
            /\ UNCHANGED <<ret, mem, resp, new, term, wait>>
    /\ UNCHANGED <<volume, outside>>

EnrollStep ==
    \/ CheckFiles \/ GenerateKey \/ PostAccepted \/ PostFailed \/ RemoveKeyAndExit
    \/ OpenCert \/ FillCert \/ OpenCA \/ FillCA \/ CheckName \/ RemoveAll

StartStep ==
    \/ OpenMeta \/ FillMeta \/ ReadMeta \/ TakeEnvCred \/ SyncWithArgus
    \/ SaveCounts \/ HandOver
===============================================================================

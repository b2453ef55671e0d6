------------------------------- MODULE Renewal --------------------------------
(***************************************************************************)
(* The certificates in the check-in loop (probe-image/entrypoint.sh and    *)
(* checkin.sh: take_ca, renew_cert).  The loop runs beside the Zabbix      *)
(* proxy, only with a check-in token.  One round takes a renewed CA from   *)
(* the answer, then renews the probe's own certificate when it ends soon;  *)
(* either may send PID 1 a SIGTERM, and the loop goes on until that        *)
(* arrives.                                                                *)
(***************************************************************************)
EXTENDS Enroll

\* Forgets to compare the key and the name.
IsRenewalOf_AnyCA(c, current) ==
    current \in CACerts /\ c.end > now /\ c.end > current.end
\* take_ca accepts C: the same key and name, valid now, a later end.
IsRenewalOf(c, current) ==
    /\ current \in CACerts
    /\ c.id = current.id
    /\ c.end > now
    /\ c.end > current.end

\* The report and the `ca' of its answer (none, the present one, an earlier one
\* or another CA's); the CA the proxy started with (RUN_CA) ending soon restarts
\* it on the new one.
CheckIn ==
    /\ pc = "up" /\ mem.cred # None
    /\ \/ UNCHANGED ca
       \/ IsRenewalOf(argusCA, ca) /\ ca' = argusCA
       \/ \E id \in CAIds, end \in {now + 1, now + Life} :
            /\ IsRenewalOf([id |-> id, end |-> end], ca)
            /\ id # argusCA.id \/ end <= argusCA.end
            /\ ca' = [id |-> id, end |-> end]
    /\ term' = (term \/ (ca' # run.ca /\ EndsSoon(run.ca)))
    /\ pc' = "cert"
    /\ UNCHANGED <<key, crt, meta, old, ret, mem, resp, new, wait, run, outside>>

\* Takes an expired certificate for one that is not due.
CertCheck_SkipsExpired ==
    /\ pc = "cert"
    /\ IF ~wait /\ EndsSoon(crt) /\ crt.end > now
         THEN wait' = TRUE /\ pc' = "rn_gen" /\ UNCHANGED <<ret, mem, resp, new, term, run>>
         ELSE Goto("up")
    /\ UNCHANGED <<volume, outside>>

\* Due when it ends soon and the last try is an hour back.
CertCheck ==
    /\ pc = "cert"
    /\ IF ~wait /\ EndsSoon(crt)
         THEN /\ wait' = TRUE
              /\ pc' = "rn_gen"
              /\ UNCHANGED <<ret, mem, resp, new, term, run>>
         ELSE Goto("up")
    /\ UNCHANGED <<volume, outside>>

HourPasses ==
    /\ wait /\ pc \in LoopSteps
    /\ wait' = FALSE
    /\ UNCHANGED <<volume, pc, ret, mem, resp, new, term, run, outside>>

\* renew_cert gives up, saying why: the files are as they were.
RenewalFailed ==
    /\ pc \in {"rn_gen", "rn_post"}
    /\ new' = None
    /\ pc' = "up"
    /\ UNCHANGED <<volume, ret, mem, resp, term, wait, run, outside>>

\* A new key, and a request signed with the current one.
NewKey ==
    /\ pc = "rn_gen" /\ key \in Keys
    /\ \E k \in Keys \ KeysInUse : new' = [key |-> k, crt |-> None]
    /\ pc' = "rn_post"
    /\ UNCHANGED <<volume, ret, mem, resp, term, wait, run, outside>>

\* Each drops one of renew_cert's comparisons.
Acceptable_AnyKey(c) ==
    crt \in Certs /\ c.name = crt.name /\ ca \in CACerts /\ c.by = ca.id /\ c.end > crt.end
Acceptable_AnyName(c) ==
    c.key = new.key /\ crt \in Certs /\ ca \in CACerts /\ c.by = ca.id /\ c.end > crt.end
Acceptable_AnyCA(c) ==
    c.key = new.key /\ crt \in Certs /\ c.name = crt.name /\ c.end > crt.end
Acceptable_AnyEnd(c) ==
    c.key = new.key /\ crt \in Certs /\ c.name = crt.name /\ ca \in CACerts /\ c.by = ca.id

\* What renew_cert wants of the certificate in the answer.
Acceptable(c) ==
    /\ c.key = new.key
    /\ crt \in Certs /\ c.name = crt.name
    /\ ca \in CACerts /\ c.by = ca.id /\ c.end > now /\ ca.end > now
    /\ c.end > crt.end

\* Any certificate may come back, for this key or another, of any name, by any
\* CA, as new as today's or as old as the present one.
CertificateArrives ==
    /\ pc = "rn_post"
    /\ \E k \in {key, new.key}, n \in Names, by \in CAIds,
          end \in {now + Life} \cup (IF crt \in Certs THEN {crt.end} ELSE {}) :
          LET c == [key |-> k, name |-> n, by |-> by, end |-> end] IN
          /\ Acceptable(c)
          /\ new' = [new EXCEPT !.crt = c]
    /\ pc' = "rn_save"
    /\ UNCHANGED <<volume, ret, mem, resp, term, wait, run, outside>>

\* cp -p to proxy.crt.old and proxy.key.old; a failed copy doesn't matter.
SaveOldPair ==
    /\ pc = "rn_save"
    /\ \/ old' = [key |-> key, crt |-> crt]
       \/ DiskFull /\ old' = [key |-> Junk, crt |-> Junk]
    /\ Goto("key_open")
    /\ UNCHANGED <<key, crt, ca, meta, outside>>

\* mv -f "$_d/key" "$4" && mv -f "$_d/crt" "$3": from the container's disk to
\* the volume, so each one is a copy; a failed one leaves what it had written,
\* and the script goes on after the `&&' either way.
MoveKey ==
    \/ /\ pc = "key_open"
       /\ \/ key' = Junk /\ Goto("key_fill")
          \/ DiskFull /\ UNCHANGED key /\ Goto("rn_done")
       /\ UNCHANGED <<crt, ca, meta, old, outside>>
    \/ /\ pc = "key_fill"
       /\ \/ key' = new.key /\ Goto("crtn_open")
          \/ DiskFull /\ UNCHANGED key /\ Goto("rn_done")
       /\ UNCHANGED <<crt, ca, meta, old, outside>>

MoveCert ==
    \/ /\ pc = "crtn_open"
       /\ \/ crt' = Junk /\ Goto("crtn_fill")
          \/ DiskFull /\ UNCHANGED crt /\ Goto("rn_done")
       /\ UNCHANGED <<key, ca, meta, old, outside>>
    \/ /\ pc = "crtn_fill"
       /\ \/ crt' = new.crt /\ Goto("rn_done")
          \/ DiskFull /\ UNCHANGED crt /\ Goto("rn_done")
       /\ UNCHANGED <<key, ca, meta, old, outside>>

\* rm -rf of the temporary folder is renew_cert's last command, so it always
\* reports success: the proxy is told to restart.
RenewalDone ==
    /\ pc = "rn_done"
    /\ new' = None
    /\ term' = TRUE
    /\ pc' = "up"
    /\ UNCHANGED <<volume, ret, mem, resp, wait, run, outside>>

LoopStep ==
    \/ CheckIn \/ CertCheck \/ RenewalFailed \/ NewKey \/ CertificateArrives
    \/ SaveOldPair \/ MoveKey \/ MoveCert \/ RenewalDone
===============================================================================

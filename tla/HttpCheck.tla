------------------------------ MODULE HttpCheck ------------------------------
(***************************************************************************)
(* The HTTP check (probe-image/externalscripts/argus_http.py): a thread    *)
(* per URL reads the certificate, follows the redirects and looks at the   *)
(* page; main waits for all of them as long as its budget lasts, and       *)
(* prints what is there by then.                                           *)
(*                                                                         *)
(* A thread shares nothing but its place in `results', so a connection     *)
(* and the answer on it are one step.  How long a step takes is left open: *)
(* the budget may end at any time.  Wording and response times are left    *)
(* out.                                                                    *)
(***************************************************************************)
EXTENDS Naturals, Connect, Nothing

CONSTANTS
    Urls,           \* the URLs of the list, without duplicates
    Lists,          \* the settings the URLs may have
    MAX_REDIRECTS

MODES == {"verify", "self-signed", "ignore"}

(***************************************************************************)
(* A URL's settings: parse_urls and parse_options.  mode "host" is the host's. *)
(***************************************************************************)
Entries == [tls : BOOLEAN, ip : BOOLEAN, mode : MODES \cup {"host"}, text : {"none", "text", "notext"}]

ASSUME HttpAssumption ==
    /\ Lists \subseteq [Urls -> Entries]
    /\ MAX_REDIRECTS \in Nat

(***************************************************************************)
(* Certificates: what a known CA vouches for, the names that cover the     *)
(* URL's host (an alternative name; others; the common name and no         *)
(* alternative ones; none), and when.                                      *)
(***************************************************************************)
Certificates ==
    [trusted : BOOLEAN, names : {"listed", "others", "common", "none"},
     when : {"early", "valid", "expired"}]

\* the library takes a common name too, for a host by name, when there is no other
Covers(c, ip) == c.names = "listed" \/ (~ip /\ c.names = "common")

StrictOK(c, ip) == c.trusted /\ Covers(c, ip) /\ c.when = "valid"

verify_reason(c, ip) ==
    {r \in {"another-name", "expired", "not-valid-yet", "not-trusted"} :
       \/ r = "another-name" /\ ~Covers(c, ip)
       \/ r = "expired" /\ c.when = "expired"
       \/ r = "not-valid-yet" /\ c.when = "early"
       \/ r = "not-trusted" /\ ~c.trusted}

(* the fields der_cert reads, whoever signed *)
der_cert(c) == [when |-> c.when, names |-> c.names]

name_matches(info) == info.names \in {"listed", "common"}

self_signed_problem(info, ip) ==
    IF info.when = "early" THEN "not-valid-yet"
    ELSE IF info.when = "expired" THEN "expired"
    ELSE IF ip \/ name_matches(info) THEN "none"
    ELSE "another-name"

VARIABLES
    entry,      \* per URL: its settings
    hostmode,   \* the host's way to check certificates
    server,     \* per URL: the certificate its host has
    thread,     \* per URL: the thread that checks it
    results,    \* what the threads leave
    httpmain,   \* main: "start" | "join" | "print" | "end" | "refused" (the settings are not valid)
    printed     \* what main has printed

httpVars == <<entry, hostmode, server, thread, results, httpmain, printed>>

Reasons == {"another-name", "expired", "not-valid-yet", "not-trusted"}
Errors == Reasons \cup {"resolver", "noname", "fail", "tls", "status", "text", "scheme", "redirects"}
Results == [up : BOOLEAN, status : BOOLEAN, days : BOOLEAN, error : Errors \cup {"none", "unfinished"}]

(* unchecked, asks: history, for the properties: an https hop went unchecked; the lookups without an answer *)
Fresh == [pc |-> "start", tries |-> 1, hops |-> 0, conn |-> FALSE, refused |-> "none", days |-> FALSE,
          unchecked |-> FALSE, asks |-> 0]

ThreadType == [pc : {"start", "strict", "loose", "hop", "sleep", "done", "died"}, tries : {1, 2},
               hops : 0 .. MAX_REDIRECTS + 1, conn : BOOLEAN, refused : Reasons \cup {"none"}, days : BOOLEAN,
               unchecked : BOOLEAN, asks : 0 .. 2]

HttpTypeOK ==
    /\ entry \in Lists /\ hostmode \in MODES /\ server \in [Urls -> Certificates \cup {None}]
    /\ thread \in [Urls -> ThreadType]
    /\ results \in [Urls -> Results \cup {None}]
    /\ httpmain \in {"start", "join", "print", "end", "refused"}
    /\ printed \in [Urls -> Results \cup {None}]

HttpInit ==
    /\ entry \in Lists /\ hostmode \in MODES
    /\ server \in {s \in [Urls -> Certificates \cup {None}] : \A u \in Urls : (s[u] = None) <=> ~entry[u].tls}
    /\ thread = [u \in Urls |-> Fresh]
    /\ results = [u \in Urls |-> None] /\ printed = results
    /\ httpmain = "start"

mode(u) == IF entry[u].mode = "host" THEN hostmode ELSE entry[u].mode

Running(u, pc) == httpmain \in {"join", "print"} /\ thread[u].pc = pc
Step(u, t) == thread' = [thread EXCEPT ![u] = t] /\ UNCHANGED <<entry, hostmode, server, httpmain, printed>>
Go(u, t) == Step(u, t) /\ UNCHANGED results

(* what the attempt returns *)
Leave(u, t, r) ==
    /\ Step(u, [t EXCEPT !.pc = "done"])
    /\ results' = [results EXCEPT ![u] = r]

(***************************************************************************)
(* The except clause of attempt, and fetch: a resolver that didn't answer  *)
(* is asked once more.  A port that can't be read is raised again by the   *)
(* clause itself: the thread dies.                                         *)
(***************************************************************************)
Except(u, t, e) ==
    LET asks == IF e = "again" THEN t.asks + 1 ELSE t.asks
        error == IF t.refused # "none" THEN t.refused ELSE why(e)
    IN  IF t.refused = "none" /\ e = "port" THEN Go(u, [t EXCEPT !.pc = "died"])
        ELSE IF t.refused = "none" /\ e = "again" /\ t.tries = 1
        THEN Go(u, [t EXCEPT !.pc = "sleep", !.asks = asks])
        ELSE Leave(u, [t EXCEPT !.asks = asks],
                   [up |-> FALSE, status |-> FALSE, days |-> t.days, error |-> error])

StartAttempt(u) ==
    /\ Running(u, "start")
    /\ Go(u, [thread[u] EXCEPT !.pc = IF entry[u].tls /\ mode(u) # "ignore" THEN "strict" ELSE "hop"])

\* the second attempt takes the certificate for read
SecondAttempt_NoCertificate(u) ==
    /\ Running(u, "sleep")
    /\ Go(u, [Fresh EXCEPT !.pc = "hop", !.tries = 2, !.asks = thread[u].asks])

SecondAttempt(u) ==
    /\ Running(u, "sleep")
    /\ Go(u, [Fresh EXCEPT !.tries = 2, !.asks = thread[u].asks])

(***************************************************************************)
(* certificate: with checks; if they fail, without, for the expiry         *)
(***************************************************************************)
StrictConnect(u) ==
    /\ Running(u, "strict")
    /\ LET t == thread[u] IN
       \/ \E e \in Failures \cup {"tls"} : Except(u, t, e)
       \/ StrictOK(server[u], entry[u].ip) /\ Go(u, [t EXCEPT !.pc = "hop", !.conn = TRUE, !.days = TRUE])
       \/ \E r \in verify_reason(server[u], entry[u].ip) : Go(u, [t EXCEPT !.pc = "loose", !.refused = r])

\* leaves the reason of the check with a CA
Refusal_Stays(u, reason) ==
    IF mode(u) = "self-signed" /\ self_signed_problem(der_cert(server[u]), entry[u].ip) = "none"
    THEN "none" ELSE reason

Refusal(u, reason) ==
    IF mode(u) = "self-signed" THEN self_signed_problem(der_cert(server[u]), entry[u].ip) ELSE reason

LooseConnect(u) ==
    /\ Running(u, "loose")
    /\ LET t == thread[u] IN
       \/ Leave(u, t, [up |-> FALSE, status |-> FALSE, days |-> FALSE, error |-> t.refused])
       \/ Go(u, [t EXCEPT !.pc = "hop", !.conn = TRUE, !.days = TRUE, !.refused = Refusal(u, @)])

(***************************************************************************)
(* The loop over the redirects.                                            *)
(***************************************************************************)
(* the context a hop gets: the accept-anything one? *)
Unchecked(u, t) == mode(u) # "verify" \/ t.refused # "none"

HopFails(u) ==
    /\ Running(u, "hop") /\ thread[u].hops <= MAX_REDIRECTS
    /\ \E e \in {"fail"} \cup IF thread[u].conn THEN {} ELSE Failures \cup {"tls", "port"} :
         /\ e = "port" => thread[u].hops > 0
         /\ Except(u, thread[u], e)

(* is the next hop an https one? *)
HopTLS(u) == IF thread[u].hops = 0 THEN {entry[u].tls} ELSE BOOLEAN

(* the thread as it is on a hop's connection *)
Connected(u, tls) ==
    [thread[u] EXCEPT !.conn = FALSE, !.hops = @ + 1,
                      !.unchecked = @ \/ (tls /\ ~thread[u].conn /\ Unchecked(u, thread[u]))]

\* follows redirects for as long as they come
Redirected_NoLimit(u) ==
    /\ Running(u, "hop")
    /\ \E tls \in HopTLS(u) : Go(u, Connected(u, tls))

Redirected(u) ==
    /\ Running(u, "hop") /\ thread[u].hops <= MAX_REDIRECTS
    /\ \E tls \in HopTLS(u) :
         \/ Go(u, Connected(u, tls))
         \/ Leave(u, Connected(u, tls), [up |-> FALSE, status |-> FALSE, days |-> thread[u].days, error |-> "scheme"])

(* good: the status is an accepted one; found: the text is in the page *)
Verdict(t, e, good, found) ==
    IF t.refused # "none" THEN t.refused
    ELSE IF ~good THEN "status"
    ELSE IF e.text # "none" /\ found = (e.text = "notext") THEN "text"
    ELSE "none"

Page(u) ==
    /\ Running(u, "hop") /\ thread[u].hops <= MAX_REDIRECTS
    /\ \E tls \in HopTLS(u), good, found \in BOOLEAN :
         LET error == Verdict(thread[u], entry[u], good, found)
         IN  Leave(u, Connected(u, tls),
                   [up |-> error = "none", status |-> TRUE, days |-> thread[u].days, error |-> error])

TooManyRedirects(u) ==
    /\ Running(u, "hop") /\ thread[u].hops > MAX_REDIRECTS
    /\ Leave(u, thread[u], [up |-> FALSE, status |-> FALSE, days |-> thread[u].days, error |-> "redirects"])

(***************************************************************************)
(* main and run: settings that aren't valid end it; else join the threads  *)
(* until they are done or the budget is, then read a result after the      *)
(* other while late threads may still write theirs.                        *)
(***************************************************************************)
Start ==
    /\ httpmain = "start"
    /\ httpmain' \in {"join", "refused"}
    /\ UNCHANGED <<entry, hostmode, server, thread, results, printed>>

JoinEnds ==
    /\ httpmain = "join"
    /\ httpmain' = "print"
    /\ UNCHANGED <<entry, hostmode, server, thread, results, printed>>

Unfinished == [up |-> FALSE, status |-> FALSE, days |-> FALSE, error |-> "unfinished"]

PrintResult(u) ==
    /\ httpmain = "print" /\ printed[u] = None
    /\ printed' = [printed EXCEPT ![u] = IF results[u] = None THEN Unfinished ELSE results[u]]
    /\ httpmain' = IF \A v \in Urls \ {u} : printed[v] # None THEN "end" ELSE "print"
    /\ UNCHANGED <<entry, hostmode, server, thread, results>>

HttpThread(u) ==
    \/ StartAttempt(u) \/ SecondAttempt(u) \/ StrictConnect(u) \/ LooseConnect(u)
    \/ HopFails(u) \/ Redirected(u) \/ Page(u) \/ TooManyRedirects(u)

HttpNext == Start \/ JoinEnds \/ \E u \in Urls : PrintResult(u) \/ HttpThread(u)

-----------------------------------------------------------------------------
(* Properties *)

Earned(u, t, r) ==
    LET c == server[u] IN
    r.up =>
      /\ entry[u].tls /\ mode(u) = "verify" => StrictOK(c, entry[u].ip)
      /\ entry[u].tls /\ mode(u) = "self-signed" =>
           \/ StrictOK(c, entry[u].ip)
           \/ c.when = "valid" /\ (entry[u].ip \/ c.names \in {"listed", "common"})
      /\ mode(u) = "verify" => ~t.unchecked
      /\ r.status /\ r.error = "none"

(* Up means checked: the URL's own certificate passed the check its settings
   ask for, on the attempt that counted, and with "verify" no https hop of the
   redirects went unchecked (attempt, certificate, fetch). *)
UpIsEarned == \A u \in Urls : printed[u] # None => Earned(u, thread[u], printed[u])

Reasoned(u, t, r) ==
    LET c == server[u] IN
    ~r.up =>
      /\ r.error \in Reasons => entry[u].tls
      /\ r.error = "expired" => c.when = "expired"
      /\ r.error = "not-valid-yet" => c.when = "early"
      /\ r.error = "another-name" /\ mode(u) = "self-signed" /\ r.status => ~entry[u].ip
      /\ r.error = "not-trusted" => ~c.trusted /\ (r.status => mode(u) = "verify")
      /\ r.error = "resolver" => t.asks = 2
      /\ r.error # "none"

(* A reason is a reason: what a URL that is down says of its certificate is so,
   and, once its page was timed, a reason for the mode it is checked in; a
   resolver is only named after it left two lookups without an answer. *)
ReasonIsTrue == \A u \in Urls : printed[u] # None => Reasoned(u, thread[u], printed[u])

-----------------------------------------------------------------------------
(* Why a result can be believed *)

HttpSpec == HttpInit /\ [][HttpNext]_httpVars

(* On a hop nothing is refused but what the mode refuses, and what isn't has
   been checked in the way the mode asks for. *)
Passed(u) ==
    LET c == server[u] IN
    entry[u].tls =>
      /\ mode(u) = "verify" => StrictOK(c, entry[u].ip)
      /\ mode(u) = "self-signed" => StrictOK(c, entry[u].ip) \/ self_signed_problem(der_cert(c), entry[u].ip) = "none"

OnTheHops(u, t) ==
    /\ t.refused = "none" => Passed(u) /\ (mode(u) = "verify" => ~t.unchecked)
    /\ t.refused = "another-name" /\ mode(u) = "self-signed" => ~entry[u].ip
    /\ t.refused = "not-trusted" => mode(u) = "verify"

(* What a thread found out about the certificate, and kept. *)
FoundOut(u, reason) ==
    LET c == server[u] IN
    /\ entry[u].tls /\ mode(u) # "ignore"
    /\ reason = "expired" => c.when = "expired"
    /\ reason = "not-valid-yet" => c.when = "early"
    /\ reason = "not-trusted" => ~c.trusted

Knows(u, t) ==
    /\ t.pc \in {"strict", "loose"} => entry[u].tls /\ mode(u) # "ignore"
    /\ t.pc \in {"start", "strict", "loose"} => ~t.unchecked
    /\ t.pc \in {"start", "strict"} => t.refused = "none"
    /\ t.pc = "loose" => t.refused # "none"
    /\ t.refused # "none" => FoundOut(u, t.refused)
    /\ t.pc = "hop" => OnTheHops(u, t)
    /\ t.pc \in {"start", "strict", "loose", "hop"} => t.asks = t.tries - 1
    /\ t.pc = "sleep" => t.asks = 1

(* A thread that leaves a result is done; main prints what was left, or that
   nothing was. *)
Stands(u) ==
    /\ results[u] # None =>
         thread[u].pc = "done" /\ Earned(u, thread[u], results[u]) /\ Reasoned(u, thread[u], results[u])
    /\ printed[u] \in {None, Unfinished, results[u]}

HttpInv ==
    /\ HttpTypeOK
    /\ \A u \in Urls : /\ (server[u] = None) <=> ~entry[u].tls
                       /\ Knows(u, thread[u]) /\ Stands(u)
=============================================================================

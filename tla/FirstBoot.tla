------------------------------ MODULE FirstBoot ------------------------------
(***************************************************************************)
(* The first boot of a probe VM (probe-vm/files/argus-firstboot.py): the   *)
(* service process (main, then its monitor thread), one handler thread per *)
(* browser tab on the setup page, the container they start, and power cuts *)
(* and reboots between any two steps.                                      *)
(*                                                                         *)
(* One action per step that reads or changes something another thread, the *)
(* container or a later boot can see.  write_env is one step: submissions  *)
(* may overlap, their few milliseconds of writing may not.  Keyboard,      *)
(* static network and the page's wording are left out.                     *)
(***************************************************************************)
EXTENDS Naturals, FiniteSets

CONSTANTS
    Tabs,           \* browser tabs, each with the thread that handles its request
    Codes,          \* setup codes
    Passwords,      \* break-glass passwords
    Good, Bad,      \* the token of a form or a seed: Argus takes it, or doesn't
    CODE_MAX_FAILURES,
    MaxCuts,        \* bound: power cuts
    None, Empty     \* a missing file; a file that is opened for writing

ASSUME FirstBootAssumption ==
    /\ CODE_MAX_FAILURES \in Nat \ {0}
    /\ MaxCuts \in Nat
    /\ IsFiniteSet(Tabs)
    /\ Good # Bad
    /\ None \notin Codes \cup Passwords \cup {Good, Bad, Empty}
    /\ Empty \notin Passwords
    /\ \E p, q \in Passwords : p # q

Tokens == {Good, Bad}

VARIABLES
    disk,       \* the files, and what systemd has enabled
    account,    \* the break-glass account: its password on the VM, and as Argus has it
    main,       \* the service process
    server,     \* what the handlers share: setup_code, code_failures
    tab,        \* per tab: what it shows, or where its handler is
    arg,        \* per tab: the code its handler is about to announce
    box,        \* the container: the token it was made with; has Argus refused it
                \* in this run, or is its identity half written in this run?
    unit,       \* argus-probe.service
    seen        \* history: power cuts; does the login banner outlive the page it is
                \* of; is the page's code one that was never announced; did two
                \* handlers replace it at once; did setting the password fail

vars == <<disk, account, main, server, tab, arg, box, unit, seen>>

Idle == {"form", "waiting", "enrolled", "failed"}
Busy == {"asleep", "replace", "announce", "start"}
Served == {"serve", "hostname", "bg", "user", "open", "fill", "report", "mark", "after",
           "shut", "leave"}
MainSteps == {"off", "boot", "listen", "rest"} \cup Served

BoxType == [token : Tokens \cup {None}, refused : BOOLEAN, midway : BOOLEAN]
SeenType == [cuts : 0 .. MaxCuts, stale : BOOLEAN, silent : BOOLEAN, raced : BOOLEAN, unset : BOOLEAN]

FileTypes ==
    /\ disk \in [env : Tokens \cup {None}, cert : BOOLEAN, meta : BOOLEAN,
                 secret : Passwords \cup {None, Empty}, done : BOOLEAN,
                 banner : Codes \cup {None}, named : BOOLEAN,
                 probe : BOOLEAN, firstboot : BOOLEAN, seed : BOOLEAN]
    /\ account \in [vm : Passwords \cup {None}, argus : Passwords \cup {None}]
    /\ main \in [pc : MainSteps, serving : BOOLEAN, pw : Passwords \cup {None}]
    /\ arg \in [Tabs -> Codes \cup {None}]
    /\ seen \in SeenType

(* Wrong guesses at a code are fewer than CODE_MAX_FAILURES and the requests
   that may be asleep at once (_code_ok). *)
TypeOK ==
    /\ FileTypes
    /\ server \in [code : Codes, failures : 0 .. CODE_MAX_FAILURES - 1 + Cardinality(Tabs)]
    /\ tab \in [Tabs -> Idle \cup Busy]
    /\ box \in BoxType
    /\ unit \in {"inactive", "active", "failed"}

Fresh(token) == [token |-> token, refused |-> FALSE, midway |-> FALSE]
NoBox == Fresh(None)

(* argus-probe.service is installed and not enabled, argus-firstboot is. *)
Init ==
    /\ \E s \in BOOLEAN :
         disk = [env |-> None, cert |-> FALSE, meta |-> FALSE, secret |-> None, done |-> FALSE,
                 banner |-> None, named |-> FALSE, probe |-> FALSE, firstboot |-> TRUE, seed |-> s]
    /\ account = [vm |-> None, argus |-> None]
    /\ main = [pc |-> "off", serving |-> FALSE, pw |-> None]
    /\ \E c \in Codes : server = [code |-> c, failures |-> 0]
    /\ tab = [t \in Tabs |-> "form"] /\ arg = [t \in Tabs |-> None]
    /\ box = NoBox /\ unit = "inactive"
    /\ seen = [cuts |-> 0, stale |-> FALSE, silent |-> FALSE, raced |-> FALSE, unset |-> FALSE]

GoTo(p) == main' = [main EXCEPT !.pc = p]
already_enrolled == disk.env # None
HandlersRun == main.serving /\ main.pc \in Served

\* without the restart
start_probe_Start(d) ==
    /\ disk' = [d EXCEPT !.probe = TRUE]
    /\ IF unit = "active"
       THEN UNCHANGED <<unit, box>>
       ELSE \/ unit' = "active" /\ box' = Fresh(d.env)
            \/ unit' = "failed" /\ box' = NoBox

(***************************************************************************)
(* start_probe: enable, then restart, so that a container that runs is     *)
(* replaced by one with the file's token.  The unit fails when Docker      *)
(* can't pull or run the image.  d is the disk with the file.              *)
(***************************************************************************)
start_probe(d) ==
    /\ disk' = [d EXCEPT !.probe = TRUE]
    /\ \/ unit' = "active" /\ box' = Fresh(d.env)
       \/ unit' = "failed" /\ box' = NoBox

(***************************************************************************)
(* Boots.  A container that a power cut ended is started again by Docker,  *)
(* with the token it was made with; its unit, once enabled, replaces it by *)
(* one with the file's.  A reboot stops it through the unit, for good.     *)
(***************************************************************************)
Boot ==
    /\ main.pc = "off"
    /\ GoTo(IF disk.firstboot THEN "boot" ELSE "rest")
    /\ UNCHANGED <<disk, account, server, tab, arg, box, unit, seen>>

UnitStarts ==
    /\ main.pc # "off" /\ disk.probe /\ unit = "inactive"
    /\ start_probe(disk)
    /\ UNCHANGED <<account, main, server, tab, arg, seen>>

GoDown ==
    /\ main' = [pc |-> "off", serving |-> FALSE, pw |-> None]
    /\ tab' = [t \in Tabs |-> "form"] /\ arg' = [t \in Tabs |-> None]
    /\ unit' = "inactive"
    /\ server' = [server EXCEPT !.failures = 0]
    /\ UNCHANGED <<disk, account>>

Reboot == main.pc = "rest" /\ GoDown /\ box' = NoBox /\ UNCHANGED seen

PowerCut ==
    /\ main.pc # "off" /\ seen.cuts < MaxCuts
    /\ GoDown
    /\ box' = Fresh(box.token)
    /\ seen' = [seen EXCEPT !.cuts = @ + 1, !.stale = disk.banner # None, !.silent = FALSE]

(***************************************************************************)
(* main: an enrolled VM only retries the report; else take the seed disk's *)
(* values, if it has good ones and no token is there, and serve the page.  *)
(***************************************************************************)
EnrolledBoot ==
    /\ main.pc = "boot" /\ already_enrolled /\ disk.cert
    /\ GoTo("hostname")
    /\ start_probe(disk)
    /\ UNCHANGED <<account, server, tab, arg, seen>>

AdoptSeed ==
    /\ main.pc = "boot" /\ ~(already_enrolled /\ disk.cert)
    /\ GoTo("listen")
    /\ IF disk.seed /\ ~already_enrolled
       THEN \E token \in Tokens : disk' = [disk EXCEPT !.env = token]
       ELSE UNCHANGED disk
    /\ UNCHANGED <<account, server, tab, arg, box, unit, seen>>

(* The code is announced only if the page starts with no token there. *)
Listen ==
    /\ main.pc = "listen"
    /\ main' = [main EXCEPT !.pc = "serve", !.serving = TRUE]
    /\ \E c \in Codes :
         /\ server' = [code |-> c, failures |-> 0]
         /\ IF already_enrolled
            THEN /\ start_probe(disk)
                 /\ seen' = [seen EXCEPT !.silent = TRUE, !.raced = FALSE]
            ELSE /\ disk' = [disk EXCEPT !.banner = c]
                 /\ seen' = [seen EXCEPT !.silent = FALSE, !.stale = FALSE, !.raced = FALSE]
                 /\ UNCHANGED <<unit, box>>
    /\ UNCHANGED <<account, tab, arg>>

(***************************************************************************)
(* The monitor, and the end of main.  An enrolled boot takes the same      *)
(* steps from "hostname" on, with nothing served.                          *)
(***************************************************************************)
SeeCert ==
    /\ main.pc = "serve" /\ disk.cert
    /\ GoTo("hostname")
    /\ disk' = [disk EXCEPT !.banner = None] /\ seen' = [seen EXCEPT !.stale = FALSE]
    /\ UNCHANGED <<account, server, tab, arg, box, unit>>

apply_hostname ==
    /\ main.pc = "hostname"
    /\ GoTo("bg")
    /\ disk' = [disk EXCEPT !.named = @ \/ disk.meta]
    /\ UNCHANGED <<account, server, tab, arg, box, unit, seen>>

ensure_break_glass ==
    /\ main.pc = "bg"
    /\ main' = IF disk.done THEN [main EXCEPT !.pc = "after"]
               ELSE IF disk.secret \in Passwords THEN [main EXCEPT !.pc = "report", !.pw = disk.secret]
               ELSE [main EXCEPT !.pc = "user"]
    /\ UNCHANGED <<disk, account, server, tab, arg, box, unit, seen>>

(* a new one; which one makes no difference *)
gen_password == CHOOSE p \in Passwords : p \notin {account.vm, account.argus, disk.secret}

\* a file that isn't there yet gets a password that the account doesn't
SetPassword_Later ==
    /\ main.pc = "user"
    /\ account' = [account EXCEPT !.vm = IF disk.secret = Empty THEN gen_password ELSE @]
    /\ seen' = [seen EXCEPT !.unset = FALSE]
    /\ main' = [main EXCEPT !.pc = "open", !.pw = gen_password]
    /\ UNCHANGED <<disk, server, tab, arg, box, unit>>

(* useradd, which fails for an account that is there, and chpasswd: whether
   they work isn't looked at (check=False). *)
SetPassword ==
    /\ main.pc = "user"
    /\ \E works \in BOOLEAN :
         /\ account' = [account EXCEPT !.vm = IF works THEN gen_password ELSE @]
         /\ seen' = [seen EXCEPT !.unset = ~works]
    /\ main' = [main EXCEPT !.pc = "open", !.pw = gen_password]
    /\ UNCHANGED <<disk, server, tab, arg, box, unit>>

OpenSecret ==
    /\ main.pc = "open"
    /\ GoTo("fill")
    /\ disk' = [disk EXCEPT !.secret = Empty]
    /\ UNCHANGED <<account, server, tab, arg, box, unit, seen>>

FillSecret ==
    /\ main.pc = "fill"
    /\ GoTo("report")
    /\ disk' = [disk EXCEPT !.secret = main.pw]
    /\ UNCHANGED <<account, server, tab, arg, box, unit, seen>>

(* without a credential of its own there is nothing to report with *)
NotReportable ==
    /\ main.pc = "report" /\ ~disk.meta
    /\ GoTo("after")
    /\ UNCHANGED <<disk, account, server, tab, arg, box, unit, seen>>

(* Argus takes the password; its answer arrives, or doesn't *)
ReportTaken ==
    /\ main.pc = "report" /\ disk.meta
    /\ account' = [account EXCEPT !.argus = main.pw]
    /\ GoTo("mark")
    /\ UNCHANGED <<disk, server, tab, arg, box, unit, seen>>

ReportFailed ==
    /\ main.pc = "report" /\ disk.meta
    /\ \E p \in {account.argus, main.pw} : account' = [account EXCEPT !.argus = p]
    /\ GoTo("after")
    /\ UNCHANGED <<disk, server, tab, arg, box, unit, seen>>

MarkReported ==
    /\ main.pc = "mark"
    /\ GoTo("after")
    /\ disk' = [disk EXCEPT !.done = TRUE]
    /\ UNCHANGED <<account, server, tab, arg, box, unit, seen>>

AtRest == [pc |-> "rest", serving |-> FALSE, pw |-> None]

\* disables the service whatever became of the report
Disable_Always ==
    /\ main.pc = "after"
    /\ main' = IF main.serving THEN [main EXCEPT !.pc = "shut"] ELSE AtRest
    /\ disk' = [disk EXCEPT !.firstboot = FALSE]
    /\ UNCHANGED <<account, server, tab, arg, box, unit, seen>>

(* the service is disabled once the report is marked; a boot that serves
   nothing ends with that *)
Disable ==
    /\ main.pc = "after"
    /\ main' = IF main.serving THEN [main EXCEPT !.pc = "shut"] ELSE AtRest
    /\ disk' = [disk EXCEPT !.firstboot = @ /\ ~disk.done]
    /\ UNCHANGED <<account, server, tab, arg, box, unit, seen>>

(* shutdown ends serve_forever, main clears the banner: the requests that were
   accepted by then go on *)
clear_code_banner ==
    /\ main.pc = "shut"
    /\ GoTo("leave")
    /\ disk' = [disk EXCEPT !.banner = None] /\ seen' = [seen EXCEPT !.stale = FALSE]
    /\ UNCHANGED <<account, server, tab, arg, box, unit>>

(* and end with the process (daemon threads) *)
Exit ==
    /\ main.pc = "leave"
    /\ main' = AtRest
    /\ tab' = [t \in Tabs |-> "form"] /\ arg' = [t \in Tabs |-> None]
    /\ seen' = [seen EXCEPT !.stale = disk.banner # None, !.silent = FALSE]
    /\ UNCHANGED <<disk, account, server, box, unit>>

(***************************************************************************)
(* do_POST.  _code_ok: a right code resets the count, a wrong one counts,  *)
(* sleeps a second, and replaces the code if the count is too high by then.*)
(* A submission with a right code and values of the right shape is written *)
(* to probe.env (write_env) before start_probe.                            *)
(***************************************************************************)
Show(t, s) == tab' = [tab EXCEPT ![t] = s]

PostRight(t) ==
    /\ HandlersRun /\ tab[t] = "form"
    /\ server' = [server EXCEPT !.failures = 0]
    /\ \/ UNCHANGED <<tab, disk>>                    \* a value of the wrong shape
       \/ \E token \in Tokens : Show(t, "start") /\ disk' = [disk EXCEPT !.env = token]
    /\ UNCHANGED <<account, main, arg, box, unit, seen>>

PostWrong(t) ==
    /\ HandlersRun /\ tab[t] = "form"
    /\ server' = [server EXCEPT !.failures = @ + 1]
    /\ Show(t, "asleep")
    /\ UNCHANGED <<disk, account, main, arg, box, unit, seen>>

\* one guess too late
CheckCount_Late(t) ==
    /\ HandlersRun /\ tab[t] = "asleep"
    /\ LET again == server.failures > CODE_MAX_FAILURES
       IN  /\ Show(t, IF again THEN "replace" ELSE "form")
           /\ seen' = [seen EXCEPT !.raced =
                         @ \/ (again /\ \E u \in Tabs : tab[u] \in {"replace", "announce"})]
    /\ UNCHANGED <<disk, account, main, server, arg, box, unit>>

CheckCount(t) ==
    /\ HandlersRun /\ tab[t] = "asleep"
    /\ LET again == server.failures >= CODE_MAX_FAILURES
       IN  /\ Show(t, IF again THEN "replace" ELSE "form")
           /\ seen' = [seen EXCEPT !.raced =
                         @ \/ (again /\ \E u \in Tabs : tab[u] \in {"replace", "announce"})]
    /\ UNCHANGED <<disk, account, main, server, arg, box, unit>>

\* announces the code that was asked for
ReplaceCode_AnnouncesOld(t) ==
    /\ HandlersRun /\ tab[t] = "replace"
    /\ \E c \in Codes \ {server.code} :
         /\ server' = [server EXCEPT !.code = c, !.failures = 0]
         /\ arg' = [arg EXCEPT ![t] = server.code]
    /\ Show(t, "announce")
    /\ UNCHANGED <<disk, account, main, box, unit, seen>>

ReplaceCode(t) ==
    /\ HandlersRun /\ tab[t] = "replace"
    /\ \E c \in Codes \ {server.code} :
         /\ server' = [server EXCEPT !.code = c, !.failures = 0]
         /\ arg' = [arg EXCEPT ![t] = c]
    /\ Show(t, "announce")
    /\ UNCHANGED <<disk, account, main, box, unit, seen>>

announce_code(t) ==
    /\ HandlersRun /\ tab[t] = "announce"
    /\ disk' = [disk EXCEPT !.banner = arg[t]]
    /\ Show(t, "form") /\ arg' = [arg EXCEPT ![t] = None]
    /\ seen' = [seen EXCEPT !.silent = FALSE, !.stale = FALSE]
    /\ UNCHANGED <<account, main, server, box, unit>>

StartAfterPost(t) ==
    /\ HandlersRun /\ tab[t] = "start"
    /\ start_probe(disk)
    /\ Show(t, "waiting")
    /\ UNCHANGED <<account, main, server, arg, seen>>

(***************************************************************************)
(* enroll_status.  The unit runs `docker run -d', so what the container    *)
(* logs is not in the unit's journal, the one the service looks at.        *)
(* "waiting" is a page that says starting or enrolling.                    *)
(***************************************************************************)
DETACHED == TRUE
ContainerLog ==
    (IF box.refused THEN {"enrollment failed"} ELSE {}) \cup (IF disk.meta THEN {"enrolled as"} ELSE {})
UnitJournal == IF DETACHED THEN {} ELSE ContainerLog

enroll_status ==
    IF disk.cert \/ "enrolled as" \in UnitJournal THEN "enrolled"
    ELSE IF "enrollment failed" \in UnitJournal \/ unit = "failed" THEN "failed"
    ELSE "waiting"

(* the page's script asks until it hears "enrolled" or "failed" *)
Poll(t) ==
    /\ HandlersRun /\ tab[t] = "waiting"
    /\ Show(t, enroll_status)
    /\ UNCHANGED <<disk, account, main, server, arg, box, unit, seen>>

(* `submitted' is only true with a token in probe.env, which never goes *)
Load(t) ==
    /\ HandlersRun /\ tab[t] \in Idle
    /\ Show(t, IF already_enrolled THEN enroll_status ELSE "form")
    /\ UNCHANGED <<disk, account, main, server, arg, box, unit, seen>>

Edit(t) ==
    /\ HandlersRun /\ tab[t] = "failed"
    /\ Show(t, "form")
    /\ UNCHANGED <<disk, account, main, server, arg, box, unit, seen>>

(***************************************************************************)
(* The container (Enroll has its steps): the certificate is written before *)
(* proxy.env, and a start that finds the one without the other gives up    *)
(* (entrypoint.sh 136); a refusal makes it exit, and Docker starts it      *)
(* again.                                                                  *)
(***************************************************************************)
BoxRuns == box.token # None /\ main.pc # "off"

BoxEnrols ==
    /\ BoxRuns /\ box.token = Good /\ ~disk.cert
    /\ disk' = [disk EXCEPT !.cert = TRUE]
    /\ box' = [box EXCEPT !.refused = FALSE, !.midway = TRUE]
    /\ UNCHANGED <<account, main, server, tab, arg, unit, seen>>

BoxSavesMeta ==
    /\ BoxRuns /\ box.midway
    /\ disk' = [disk EXCEPT !.meta = TRUE]
    /\ box' = [box EXCEPT !.midway = FALSE]
    /\ UNCHANGED <<account, main, server, tab, arg, unit, seen>>

BoxRefused ==
    /\ BoxRuns /\ ~disk.cert /\ ~box.refused
    /\ box' = [box EXCEPT !.refused = TRUE]
    /\ UNCHANGED <<disk, account, main, server, tab, arg, unit, seen>>

MainStep ==
    \/ EnrolledBoot \/ AdoptSeed \/ Listen \/ SeeCert \/ apply_hostname
    \/ ensure_break_glass \/ SetPassword \/ OpenSecret \/ FillSecret
    \/ NotReportable \/ ReportTaken \/ ReportFailed \/ MarkReported
    \/ Disable \/ clear_code_banner \/ Exit

Handler(t) ==
    CheckCount(t) \/ ReplaceCode(t) \/ announce_code(t) \/ StartAfterPost(t)

Browser(t) == PostRight(t) \/ PostWrong(t) \/ Poll(t) \/ Load(t) \/ Edit(t)

Next ==
    \/ Boot \/ UnitStarts \/ Reboot \/ PowerCut \/ MainStep
    \/ \E t \in Tabs : Handler(t) \/ Browser(t)
    \/ BoxEnrols \/ BoxSavesMeta \/ BoxRefused

Spec == Init /\ [][Next]_vars

(* Processes that can run do, pages poll, the VM comes up and is rebooted
   now and then; one of the reports gets through. *)
FairSpec ==
    /\ Spec
    /\ WF_vars(Boot) /\ WF_vars(Reboot) /\ WF_vars(MainStep) /\ SF_vars(ReportTaken)
    /\ \A t \in Tabs : WF_vars(Handler(t)) /\ WF_vars(Poll(t))

-----------------------------------------------------------------------------
(* Properties *)

(* Once the report is marked as done (and the service never runs again), the
   password Argus shows its admins is the one in the root-only file, and the one
   the account has unless the tool that sets it failed, which nothing looks at:
   through lost answers, and cuts between setting it, writing the file and
   reporting it (ensure_break_glass). *)
KnownPassword ==
    disk.done => /\ disk.secret \in Passwords /\ account.argus = disk.secret
                 /\ ~seen.unset => account.vm = disk.secret

(* While the page is served, the login banner shows the code it wants, unless
   two handlers replaced it at the same time; but a page that starts with a
   token there announces none until wrong guesses replace it, and the banner
   shows nothing, or what a power cut left there (main, announce_code,
   _code_ok).  After the service there is no code on the banner, except one
   that outlived its page: by a power cut, or announced by a request after
   main's last look. *)
Announcing == \E t \in Tabs : tab[t] = "announce"
BannerTells ==
    /\ HandlersRun /\ main.pc = "serve" /\ ~seen.raced /\ ~Announcing =>
         IF seen.silent THEN disk.banner = None \/ seen.stale ELSE disk.banner = server.code
    /\ ~HandlersRun /\ ~seen.stale => disk.banner = None

(* A corrected token is picked up: when no handler is on its way to restart
   it, a container that its unit has started and that has yet to enrol runs
   with what probe.env says, also after submissions that overlap and power cuts
   between a submission and the restart (start_probe, do_POST). *)
PicksUpRetry ==
    (\A t \in Tabs : tab[t] # "start") /\ unit = "active" /\ ~disk.cert => box.token = disk.env

(* An enrolled VM that is rebooted now and then reports its password in the
   end: the service stays enabled until then (main, monitor). *)
PasswordReported == disk.meta ~> disk.done

-----------------------------------------------------------------------------
(* Why the password is known *)

(* The file is only ever filled with the password the account was just given
   (or was to be given), and Argus only told of what the file holds; once it
   holds one it is never made again. *)
Given(p) == ~seen.unset => account.vm = p
SecretIsSet ==
    /\ disk.secret \in Passwords => Given(disk.secret)
    /\ disk.secret \notin Passwords => account.argus = None /\ ~disk.done
    /\ main.pc \in {"user", "open", "fill"} => disk.secret \notin Passwords
    /\ main.pc \in {"open", "fill"} => main.pw \in Passwords /\ Given(main.pw)
    /\ main.pc \in {"report", "mark"} => main.pw \in Passwords /\ disk.secret = main.pw
    /\ main.pc = "mark" \/ disk.done => account.argus = disk.secret

FirstBootInv == FileTypes /\ SecretIsSet

-----------------------------------------------------------------------------
(* Why the console tells the code, and why a retry is picked up *)

PageTypes ==
    /\ server \in [code : Codes, failures : Nat]
    /\ tab \in [Tabs -> Idle \cup Busy]
    /\ box \in BoxType
    /\ unit \in {"inactive", "active", "failed"}

(* There are handlers only while the page is served, and the monitor goes on
   from a certificate only. *)
ServedInOrder ==
    /\ main.serving => main.pc \in Served
    /\ ~HandlersRun => \A t \in Tabs : tab[t] = "form"
    /\ main.pc \in Served \ {"serve"} => disk.cert

(* Whoever makes the count too high, but for those still asleep or about to
   replace the code, has had it reset. *)
Guessing == {t \in Tabs : tab[t] \in {"asleep", "replace"}}
GuessesCounted ==
    /\ server.failures <= CODE_MAX_FAILURES - 1 + Cardinality(Tabs)
    /\ HandlersRun => server.failures <= CODE_MAX_FAILURES - 1 + Cardinality(Guessing)

(* One handler at a time is between a new code and its banner; the banner
   tells the code whenever none is. *)
Replacing(t) == tab[t] \in {"replace", "announce"}
BannerFollows ==
    /\ ~seen.raced =>
         /\ \A t, u \in Tabs : Replacing(t) /\ Replacing(u) => t = u
         /\ \A t \in Tabs : tab[t] = "announce" => arg[t] = server.code
    /\ BannerTells

(* A token once written is never taken back, and nothing runs without one. *)
TokenIsFiled ==
    /\ PicksUpRetry
    /\ box.token # None \/ disk.probe \/ (\E t \in Tabs : tab[t] = "start") => disk.env # None
    /\ unit # "inactive" => disk.probe

PageInv == PageTypes /\ ServedInOrder /\ GuessesCounted /\ BannerFollows /\ TokenIsFiled
=============================================================================

---------------------------- MODULE FirstBoot_proofs ---------------------------
(***************************************************************************)
(* Theorems about FirstBoot, for any number of tabs, codes, passwords and  *)
(* power cuts: Argus shows the password that was set, the console the      *)
(* page's code, and a corrected token reaches the container.               *)
(***************************************************************************)
EXTENDS FirstBoot, FiniteSetTheorems, TLAPS

\* A new password is one, while no file holds any and Argus knows none.
LEMMA NewPassword == ASSUME FileTypes, account.argus = None, disk.secret \notin Passwords
                     PROVE  gen_password \in Passwords
<1>1. \E p \in Passwords : p \notin {account.vm, account.argus, disk.secret}
  BY FirstBootAssumption
<1> QED
  BY <1>1 DEF gen_password

\* The history keeps its type: a step notes a cut, a banner, a race or a failure.
LEMMA NotesTyped == ASSUME seen \in SeenType, Next PROVE seen' \in SeenType
<1> USE DEF SeenType
<1>1. CASE PowerCut
  <2>1. PICK b \in BOOLEAN : seen' = [seen EXCEPT !.cuts = seen.cuts + 1, !.stale = b, !.silent = FALSE]
    <3> DEFINE b == disk.banner # None
    <3>1. b \in BOOLEAN /\ seen' = [seen EXCEPT !.cuts = seen.cuts + 1, !.stale = b, !.silent = FALSE]
      BY <1>1, Zenon DEF PowerCut
    <3> QED
      BY <3>1, Zenon
  <2>2. seen.cuts + 1 \in 0 .. MaxCuts
    <3>1. seen.cuts < MaxCuts
      BY <1>1, Zenon DEF PowerCut
    <3> QED
      BY <3>1, FirstBootAssumption
  <2> QED
    BY <2>1, <2>2
<1>2. ASSUME NEW t \in Tabs, CheckCount(t) PROVE seen' \in SeenType
  <2>1. PICK b \in BOOLEAN : seen' = [seen EXCEPT !.raced = b]
    <3> DEFINE b == seen.raced \/ (server.failures >= CODE_MAX_FAILURES
                                   /\ \E u \in Tabs : tab[u] \in {"replace", "announce"})
    <3>1. b \in BOOLEAN /\ seen' = [seen EXCEPT !.raced = b]
      BY <1>2, Zenon DEF CheckCount
    <3> QED
      BY <3>1, Zenon
  <2> QED
    BY <2>1
<1>3. CASE SetPassword
  <2>1. PICK works \in BOOLEAN : seen' = [seen EXCEPT !.unset = ~works]
    BY <1>3, Zenon DEF SetPassword
  <2> QED
    BY <2>1
<1>4. CASE Exit
  <2>1. PICK b \in BOOLEAN : seen' = [seen EXCEPT !.stale = b, !.silent = FALSE]
    <3> DEFINE b == disk.banner # None
    <3>1. b \in BOOLEAN /\ seen' = [seen EXCEPT !.stale = b, !.silent = FALSE]
      BY <1>4, Zenon DEF Exit
    <3> QED
      BY <3>1, Zenon
  <2> QED
    BY <2>1
<1>5. CASE \/ UNCHANGED seen
           \/ seen' = [seen EXCEPT !.silent = TRUE, !.raced = FALSE]
           \/ seen' = [seen EXCEPT !.silent = FALSE, !.stale = FALSE, !.raced = FALSE]
           \/ seen' = [seen EXCEPT !.stale = FALSE]
           \/ seen' = [seen EXCEPT !.silent = FALSE, !.stale = FALSE]
  BY <1>5
<1> QED
  BY <1>1, <1>2, <1>3, <1>4, <1>5, Zenon DEF Next, MainStep, Handler, Browser, Boot, UnitStarts, Reboot, EnrolledBoot,
     AdoptSeed, Listen, SeeCert, apply_hostname, ensure_break_glass, OpenSecret, FillSecret,
     NotReportable, ReportTaken, ReportFailed, MarkReported, Disable, clear_code_banner, PostRight, PostWrong,
     ReplaceCode, announce_code, StartAfterPost, Poll, Load, Edit, BoxEnrols,
     BoxSavesMeta, BoxRefused

\* Whether setting the password failed is noted when it is set.
LEMMA FailureKept == ASSUME seen \in SeenType, Next, ~SetPassword PROVE seen'.unset = seen.unset
<1> USE DEF SeenType
<1>1. CASE PowerCut
  BY <1>1 DEF PowerCut
<1>2. ASSUME NEW t \in Tabs, CheckCount(t) PROVE seen'.unset = seen.unset
  BY <1>2 DEF CheckCount
<1>3. CASE Exit
  BY <1>3 DEF Exit
<1>4. CASE \/ UNCHANGED seen
           \/ seen' = [seen EXCEPT !.silent = TRUE, !.raced = FALSE]
           \/ seen' = [seen EXCEPT !.silent = FALSE, !.stale = FALSE, !.raced = FALSE]
           \/ seen' = [seen EXCEPT !.stale = FALSE]
           \/ seen' = [seen EXCEPT !.silent = FALSE, !.stale = FALSE]
  BY <1>4
<1> QED
  BY <1>1, <1>2, <1>3, <1>4, Zenon DEF Next, MainStep, Handler, Browser, Boot, UnitStarts, Reboot, EnrolledBoot,
     AdoptSeed, Listen, SeeCert, apply_hostname, ensure_break_glass, OpenSecret, FillSecret,
     NotReportable, ReportTaken, ReportFailed, MarkReported, Disable, clear_code_banner, PostRight, PostWrong,
     ReplaceCode, announce_code, StartAfterPost, Poll, Load, Edit, BoxEnrols,
     BoxSavesMeta, BoxRefused

\* What such a step does to the history, as far as the password goes.
Noted == seen' \in SeenType /\ seen'.unset = seen.unset

\* A reboot or a cut leaves the files and forgets what was under way.
LEMMA DownForgets == ASSUME Reboot \/ PowerCut
                     PROVE  /\ main' = [pc |-> "off", serving |-> FALSE, pw |-> None]
                            /\ arg' = [t \in Tabs |-> None] /\ disk' = disk /\ account' = account
BY DEF Reboot, PowerCut, GoDown

\* Boots, reboots and cuts keep the files, and nothing is under way.
LEMMA BootsKeep == ASSUME FirstBootInv, Noted, Boot \/ UnitStarts \/ Reboot \/ PowerCut PROVE FirstBootInv'
<1> USE DEF FirstBootInv, FileTypes, SecretIsSet, Given, Noted, MainSteps, Served
<1>1. CASE Boot
  BY <1>1 DEF Boot, GoTo
<1>3. CASE UnitStarts
  <2>1. disk' = [disk EXCEPT !.probe = TRUE] /\ UNCHANGED <<account, main, arg>>
    BY <1>3 DEF UnitStarts, start_probe
  <2>2. /\ disk' \in [env : Tokens \cup {None}, cert : BOOLEAN, meta : BOOLEAN,
                      secret : Passwords \cup {None, Empty}, done : BOOLEAN,
                      banner : Codes \cup {None}, named : BOOLEAN,
                      probe : BOOLEAN, firstboot : BOOLEAN, seed : BOOLEAN]
        /\ disk'.secret = disk.secret /\ disk'.done = disk.done
    BY <2>1
  <2> QED
    BY <2>1, <2>2
<1>2. CASE Reboot \/ PowerCut
  <2> DEFINE off == [pc |-> "off", serving |-> FALSE, pw |-> None]
  <2>a. off.pc = "off" /\ off \in [pc : MainSteps, serving : BOOLEAN, pw : Passwords \cup {None}]
    BY Zenon DEF MainSteps
  <2>b. main' = off
    BY <1>2, DownForgets
  <2> HIDE DEF off
  <2>1. main'.pc = "off" /\ main' \in [pc : MainSteps, serving : BOOLEAN, pw : Passwords \cup {None}]
    BY <2>a, <2>b
  <2>2. arg' \in [Tabs -> Codes \cup {None}] /\ disk' = disk /\ account' = account
    BY <1>2, DownForgets
  <2> QED
    BY <2>1, <2>2
<1> QED
  BY <1>1, <1>2, <1>3

\* Of the files, apply_hostname changes whether the VM has its name.
LEMMA HostnameApplied == ASSUME apply_hostname PROVE \E n \in BOOLEAN : disk' = [disk EXCEPT !.named = n]
<1> DEFINE n == disk.named \/ disk.meta
<1>1. n \in BOOLEAN /\ disk' = [disk EXCEPT !.named = n]
  BY Zenon DEF apply_hostname
<1> QED
  BY <1>1, Zenon

\* The way to the page changes the token, the code and the unit only.
LEMMA StartKeeps == ASSUME FirstBootInv, Noted, EnrolledBoot \/ AdoptSeed \/ Listen \/ SeeCert \/ apply_hostname
                    PROVE  FirstBootInv'
<1> USE DEF FirstBootInv, FileTypes, SecretIsSet, Given, Noted, MainSteps, Served
<1>1. CASE EnrolledBoot
  BY <1>1 DEF EnrolledBoot, GoTo, start_probe
<1>2. CASE AdoptSeed
  BY <1>2 DEF AdoptSeed, GoTo, Tokens
<1>3. CASE Listen
  <2>1. main' \in [pc : MainSteps, serving : BOOLEAN, pw : Passwords \cup {None}] /\ main'.pc = "serve"
    BY <1>3 DEF Listen
  <2>2. /\ \/ disk' = [disk EXCEPT !.probe = TRUE]
           \/ \E c \in Codes : disk' = [disk EXCEPT !.banner = c]
        /\ UNCHANGED <<account, arg>>
    BY <1>3 DEF Listen, start_probe
  <2>3. /\ disk' \in [env : Tokens \cup {None}, cert : BOOLEAN, meta : BOOLEAN,
                      secret : Passwords \cup {None, Empty}, done : BOOLEAN,
                      banner : Codes \cup {None}, named : BOOLEAN,
                      probe : BOOLEAN, firstboot : BOOLEAN, seed : BOOLEAN]
        /\ disk'.secret = disk.secret /\ disk'.done = disk.done
    <3>1. CASE disk' = [disk EXCEPT !.probe = TRUE]
      BY <3>1
    <3>2. CASE \E c \in Codes : disk' = [disk EXCEPT !.banner = c]
      BY <3>2
    <3> QED
      BY <2>2, <3>1, <3>2
  <2> QED
    BY <2>1, <2>2, <2>3
<1>4. CASE SeeCert
  BY <1>4 DEF SeeCert, GoTo
<1>5. CASE apply_hostname
  <2>2. PICK n \in BOOLEAN : disk' = [disk EXCEPT !.named = n]
    BY <1>5, HostnameApplied
  <2> QED
    BY <1>5, <2>2 DEF apply_hostname, GoTo
<1> QED
  BY <1>1, <1>2, <1>3, <1>4, <1>5

\* A password is set, filed, reported and marked in that order.
LEMMA AccountKeeps == ASSUME FirstBootInv, seen' \in SeenType, SetPassword \/ Noted,
                             \/ ensure_break_glass \/ SetPassword \/ OpenSecret \/ FillSecret
                             \/ NotReportable \/ ReportTaken \/ ReportFailed \/ MarkReported
                             \/ Disable \/ clear_code_banner \/ Exit
                      PROVE  FirstBootInv'
<1> USE FirstBootAssumption DEF FirstBootInv, FileTypes, SecretIsSet, Given, Noted, MainSteps, Served
<1>1. CASE ensure_break_glass
  <2>1. CASE disk.done
    BY <1>1, <2>1 DEF ensure_break_glass
  <2>2. CASE ~disk.done /\ disk.secret \in Passwords
    <3>1. /\ main' = [main EXCEPT !.pc = "report", !.pw = disk.secret]
          /\ UNCHANGED <<disk, account, arg, seen>>
      BY <1>1, <2>2 DEF ensure_break_glass
    <3>2. main'.pc = "report" /\ main'.pw = disk.secret
      BY <3>1
    <3>3. main' \in [pc : MainSteps, serving : BOOLEAN, pw : Passwords \cup {None}]
      BY <2>2, <3>1
    <3>4. FileTypes'
      BY <3>1, <3>3
    <3>5. SecretIsSet'
      BY <2>2, <3>1, <3>2
    <3> QED
      BY <3>4, <3>5
  <2>3. CASE ~disk.done /\ disk.secret \notin Passwords
    BY <1>1, <2>3 DEF ensure_break_glass
  <2> QED
    BY <2>1, <2>2, <2>3
<1>2. CASE SetPassword
  <2>1. gen_password \in Passwords
    BY <1>2, NewPassword DEF SetPassword
  <2>2. PICK works \in BOOLEAN : /\ account' = [account EXCEPT !.vm = IF works THEN gen_password ELSE account.vm]
                                 /\ seen' = [seen EXCEPT !.unset = ~works]
    BY <1>2, Zenon DEF SetPassword
  <2>3. /\ main' = [main EXCEPT !.pc = "open", !.pw = gen_password]
        /\ UNCHANGED <<disk, arg>> /\ main.pc = "user"
    BY <1>2 DEF SetPassword
  <2>4. seen'.unset = ~works
    BY <2>2 DEF SeenType
  <2>5. account' \in [vm : Passwords \cup {None}, argus : Passwords \cup {None}]
        /\ account'.argus = account.argus /\ (works => account'.vm = gen_password)
    BY <2>1, <2>2
  <2>6. /\ main' \in [pc : MainSteps, serving : BOOLEAN, pw : Passwords \cup {None}]
        /\ main'.pc = "open" /\ main'.pw = gen_password
    BY <2>1, <2>3
  <2>7. disk.secret \notin Passwords /\ account.argus = None /\ ~disk.done
    BY <2>3
  <2>8. UNCHANGED <<disk, arg>> /\ (~seen'.unset => account'.vm = gen_password)
    BY <2>3, <2>4, <2>5
  <2>9. FileTypes'
    BY <2>5, <2>6, <2>8
  <2>10. SecretIsSet'
    BY <2>1, <2>5, <2>6, <2>7, <2>8
  <2> QED
    BY <2>9, <2>10
<1>3. CASE OpenSecret
  BY <1>3 DEF OpenSecret, GoTo
<1>4. CASE FillSecret
  BY <1>4 DEF FillSecret, GoTo
<1>5. CASE NotReportable \/ ReportTaken \/ ReportFailed
  BY <1>5 DEF NotReportable, ReportTaken, ReportFailed, GoTo
<1>6. CASE MarkReported
  BY <1>6 DEF MarkReported, GoTo
<1>7. CASE Disable
  <2>1. main' \in [pc : MainSteps, serving : BOOLEAN, pw : Passwords \cup {None}] /\ main'.pc \in {"shut", "rest"}
    BY <1>7 DEF Disable, AtRest
  <2>2. PICK b \in BOOLEAN : disk' = [disk EXCEPT !.firstboot = b]
    <3> DEFINE b == disk.firstboot /\ ~disk.done
    <3>1. b \in BOOLEAN /\ disk' = [disk EXCEPT !.firstboot = b]
      BY <1>7, Zenon DEF Disable
    <3> QED
      BY <3>1, Zenon
  <2>3. UNCHANGED <<account, arg, seen>>
    BY <1>7 DEF Disable
  <2> QED
    BY <2>1, <2>2, <2>3
<1>8. CASE clear_code_banner
  BY <1>8 DEF clear_code_banner, GoTo
<1>9. CASE Exit
  BY <1>9 DEF Exit, AtRest
<1> QED
  BY <1>1, <1>2, <1>3, <1>4, <1>5, <1>6, <1>7, <1>8, <1>9

\* The page's handlers touch neither the account nor its files.
LEMMA PageKeeps == ASSUME FirstBootInv, Noted, NEW t \in Tabs, Handler(t) \/ Browser(t) PROVE FirstBootInv'
<1> USE DEF FirstBootInv, FileTypes, SecretIsSet, Given, Noted
<1>1. CASE CheckCount(t) \/ Poll(t) \/ Load(t) \/ Edit(t) \/ PostWrong(t)
  BY <1>1 DEF CheckCount, Poll, Load, Edit, PostWrong
<1>2. CASE ReplaceCode(t)
  BY <1>2 DEF ReplaceCode
<1>3. CASE announce_code(t)
  BY <1>3 DEF announce_code
<1>4. CASE StartAfterPost(t)
  BY <1>4 DEF StartAfterPost, start_probe
<1>5. CASE PostRight(t)
  BY <1>5 DEF PostRight, Tokens
<1> QED
  BY <1>1, <1>2, <1>3, <1>4, <1>5 DEF Handler, Browser

\* So does the container, which writes its own.
LEMMA BoxKeeps == ASSUME FirstBootInv, Noted, BoxEnrols \/ BoxSavesMeta \/ BoxRefused PROVE FirstBootInv'
BY DEF FirstBootInv, FileTypes, SecretIsSet, Given, Noted, BoxEnrols, BoxSavesMeta, BoxRefused

\* What the password's file holds, and what the account and Argus have, agree
\* at every step.
THEOREM SecretInductive == Spec => []FirstBootInv
<1>1. Init => FirstBootInv
  BY FirstBootAssumption DEF Init, FirstBootInv, FileTypes, SecretIsSet, Given, SeenType, MainSteps
<1>2. FirstBootInv /\ UNCHANGED vars => FirstBootInv'
  BY DEF FirstBootInv, FileTypes, SecretIsSet, Given, vars
<1>3. FirstBootInv /\ [Next]_vars => FirstBootInv'
  <2>1. FirstBootInv /\ Next => seen' \in SeenType /\ (SetPassword \/ Noted)
    BY NotesTyped, FailureKept DEF FirstBootInv, FileTypes, Noted
  <2>2. FirstBootInv /\ SetPassword => Next
    BY DEF Next, MainStep
  <2>3. FirstBootInv /\ SetPassword => FirstBootInv'
    BY <2>1, <2>2, AccountKeeps
  <2> QED
    BY <1>2, <2>1, <2>3, BootsKeep, StartKeeps, AccountKeeps, PageKeeps, BoxKeeps DEF Next, MainStep
<1> QED
  BY <1>1, <1>3, PTL DEF Spec

\* Once the report is marked as done, Argus and the file have the same password,
\* and so has the account unless setting it failed, whenever the power was cut
\* and whichever answers were lost.
THEOREM PasswordIsKnown == Spec => []KnownPassword
<1>1. FirstBootInv => KnownPassword
  BY FirstBootAssumption DEF FirstBootInv, FileTypes, SecretIsSet, Given, KnownPassword
<1> QED
  BY <1>1, SecretInductive, PTL

-----------------------------------------------------------------------------
(* The page: PageInv, one lemma per part.                                  *)

\* start_probe runs the container with what is on the disk, or doesn't.
LEMMA Started ==
    ASSUME PageTypes, NEW d \in [env : Tokens \cup {None}, cert : BOOLEAN, meta : BOOLEAN,
                 secret : Passwords \cup {None, Empty}, done : BOOLEAN,
                 banner : Codes \cup {None}, named : BOOLEAN,
                 probe : BOOLEAN, firstboot : BOOLEAN, seed : BOOLEAN], start_probe(d)
    PROVE  /\ box' \in BoxType
           /\ box'.token \in {d.env, None} /\ (unit' = "active" => box'.token = d.env)
           /\ unit' \in {"active", "failed"}
           /\ disk' = [d EXCEPT !.probe = TRUE]
<1> USE DEF BoxType, Fresh
<1>1. CASE box' = NoBox /\ unit' = "failed"
  BY <1>1 DEF start_probe, NoBox
<1>2. CASE box' = Fresh(d.env) /\ unit' = "active"
  BY <1>2 DEF start_probe
<1> QED
  BY <1>1, <1>2 DEF start_probe

\* The container runs with a token of the disk's, or there is none.
LEMMA BoxTyped == ASSUME FirstBootInv, PageTypes, Next
                  PROVE  /\ box' \in BoxType
                         /\ unit' \in {"inactive", "active", "failed"}
<1> USE DEF PageTypes
<1>a. /\ disk \in [env : Tokens \cup {None}, cert : BOOLEAN, meta : BOOLEAN,
                 secret : Passwords \cup {None, Empty}, done : BOOLEAN,
                 banner : Codes \cup {None}, named : BOOLEAN,
                 probe : BOOLEAN, firstboot : BOOLEAN, seed : BOOLEAN]
  BY DEF FirstBootInv, FileTypes
<1>1. CASE box' = Fresh(box.token) /\ unit' = "inactive"
  BY <1>1 DEF BoxType, Fresh
<1>2. CASE box' = NoBox /\ unit' = "inactive"
  BY <1>2 DEF BoxType, Fresh, NoBox
<1>3. CASE start_probe(disk)
  BY <1>a, <1>3, Started
<1>4. CASE /\ UNCHANGED unit
           /\ \/ box' = [box EXCEPT !.refused = FALSE, !.midway = TRUE]
              \/ box' = [box EXCEPT !.midway = FALSE]
              \/ box' = [box EXCEPT !.refused = TRUE]
  BY <1>4 DEF BoxType
<1>5. CASE UNCHANGED <<box, unit>>
  BY <1>5
<1> QED
  BY <1>1, <1>2, <1>3, <1>4, <1>5, Zenon DEF Next, MainStep, Handler, Browser, Boot, UnitStarts, Reboot, PowerCut, GoDown,
     EnrolledBoot, AdoptSeed, Listen, SeeCert, apply_hostname, ensure_break_glass, SetPassword, OpenSecret,
     FillSecret, NotReportable, ReportTaken, ReportFailed, MarkReported, Disable, clear_code_banner, Exit, PostRight, PostWrong,
     CheckCount, ReplaceCode, announce_code, StartAfterPost, Poll, Load, Edit, BoxEnrols, BoxSavesMeta,
     BoxRefused

\* What a step does to the code and the count of wrong guesses.
LEMMA ServerMoves == ASSUME Next
                     PROVE  \/ UNCHANGED server
                            \/ server' = [server EXCEPT !.failures = 0]
                            \/ server' = [server EXCEPT !.failures = server.failures + 1]
                            \/ \E c \in Codes : server' = [code |-> c, failures |-> 0]
                            \/ \E c \in Codes : server' = [server EXCEPT !.code = c, !.failures = 0]
BY Zenon DEF Next, MainStep, Handler, Browser, Boot, UnitStarts, Reboot, PowerCut, GoDown,
     EnrolledBoot, AdoptSeed, Listen, SeeCert, apply_hostname, ensure_break_glass, SetPassword, OpenSecret,
     FillSecret, NotReportable, ReportTaken, ReportFailed, MarkReported, Disable, clear_code_banner, Exit, PostRight, PostWrong,
     CheckCount, ReplaceCode, announce_code, StartAfterPost, Poll, Load, Edit, BoxEnrols, BoxSavesMeta,
     BoxRefused

\* What a handler does to its tab.
LEMMA HandlerMoves == ASSUME NEW t \in Tabs, Handler(t) \/ Browser(t)
                      PROVE  UNCHANGED tab \/ \E s \in Idle \cup Busy : tab' = [tab EXCEPT ![t] = s]
<1> USE DEF Show, Idle, Busy
<1>1. CASE PostRight(t) \/ PostWrong(t) \/ Edit(t)
  BY <1>1 DEF PostRight, PostWrong, Edit
<1>2. CASE CheckCount(t)
  <2>1. Show(t, "replace") \/ Show(t, "form")
    BY <1>2, Zenon DEF CheckCount
  <2> QED
    BY <2>1
<1>3. CASE ReplaceCode(t) \/ announce_code(t) \/ StartAfterPost(t)
  BY <1>3 DEF ReplaceCode, announce_code, StartAfterPost
<1>4. CASE Poll(t) \/ Load(t)
  <2>1. enroll_status \in {"enrolled", "failed", "waiting"}
    BY Zenon DEF enroll_status
  <2>2. Show(t, enroll_status) \/ Show(t, "form")
    BY <1>4, Zenon DEF Poll, Load
  <2> QED
    BY <2>1, <2>2
<1> QED
  BY <1>1, <1>2, <1>3, <1>4, Zenon DEF Handler, Browser

\* What a step does to the tabs.
LEMMA TabMoves == ASSUME Next
                  PROVE  \/ UNCHANGED tab
                         \/ tab' = [t \in Tabs |-> "form"]
                         \/ \E t \in Tabs, s \in Idle \cup Busy : tab' = [tab EXCEPT ![t] = s]
<1>1. ASSUME NEW t \in Tabs, Handler(t) \/ Browser(t)
      PROVE  UNCHANGED tab \/ \E s \in Idle \cup Busy : tab' = [tab EXCEPT ![t] = s]
  BY <1>1, HandlerMoves
<1> QED
  BY <1>1, Zenon DEF Next, MainStep, Boot, UnitStarts, Reboot, PowerCut, GoDown,
     EnrolledBoot, AdoptSeed, Listen, SeeCert, apply_hostname, ensure_break_glass, SetPassword, OpenSecret,
     FillSecret, NotReportable, ReportTaken, ReportFailed, MarkReported, Disable, clear_code_banner, Exit, BoxEnrols, BoxSavesMeta,
     BoxRefused

\* The page's own data keep their types.
LEMMA PageTyped == ASSUME FirstBootInv, PageTypes, Next PROVE PageTypes'
<1>1. server' \in [code : Codes, failures : Nat]
  <2>0. server \in [code : Codes, failures : Nat]
    BY DEF PageTypes
  <2>1. CASE \/ UNCHANGED server
             \/ server' = [server EXCEPT !.failures = 0]
             \/ server' = [server EXCEPT !.failures = server.failures + 1]
    BY <2>0, <2>1
  <2>2. CASE \E c \in Codes : server' = [code |-> c, failures |-> 0]
    BY <2>0, <2>2
  <2>3. CASE \E c \in Codes : server' = [server EXCEPT !.code = c, !.failures = 0]
    <3>1. PICK c \in Codes : server' = [server EXCEPT !.code = c, !.failures = 0]
      BY <2>3
    <3> QED
      BY <2>0, <3>1
  <2> QED
    BY <2>1, <2>2, <2>3, ServerMoves
<1>2. tab' \in [Tabs -> Idle \cup Busy]
  BY TabMoves DEF PageTypes, Idle, Busy
<1> QED
  BY <1>1, <1>2, BoxTyped, NotesTyped DEF PageTypes

\* Until the service ends, the steps of the monitor and of main leave the page
\* alone: they write what follows from a certificate, and at most clear the banner.
Monitor == \/ SeeCert \/ apply_hostname \/ ensure_break_glass \/ SetPassword \/ OpenSecret \/ FillSecret
           \/ NotReportable \/ ReportTaken \/ ReportFailed \/ MarkReported \/ clear_code_banner

\* They stay with the page's service, and keep the environment and the certificate.
LEMMA MonitorGoesOn ==
    ASSUME FirstBootInv, ServedInOrder, Monitor
    PROVE  /\ UNCHANGED <<server, tab, arg, box, unit>> /\ seen'.raced = seen.raced
           /\ main.pc \in Served /\ main'.pc \in Served \ {"serve"} /\ main'.serving = main.serving
           /\ disk'.env = disk.env /\ disk'.cert = disk.cert /\ disk.cert /\ disk'.probe = disk.probe
           /\ disk'.banner = None \/ (disk'.banner = disk.banner /\ seen'.stale = seen.stale)
<1>0. /\ main \in [pc : MainSteps, serving : BOOLEAN, pw : Passwords \cup {None}]
      /\ disk \in [env : Tokens \cup {None}, cert : BOOLEAN, meta : BOOLEAN,
                 secret : Passwords \cup {None, Empty}, done : BOOLEAN,
                 banner : Codes \cup {None}, named : BOOLEAN,
                 probe : BOOLEAN, firstboot : BOOLEAN, seed : BOOLEAN]
      /\ seen \in SeenType
  BY DEF FirstBootInv, FileTypes
<1> USE <1>0 DEF ServedInOrder, Served, GoTo, SeenType
<1>1. CASE SeeCert \/ clear_code_banner
  BY <1>1 DEF SeeCert, clear_code_banner
<1>2. CASE apply_hostname
  <2>1. PICK n \in BOOLEAN : disk' = [disk EXCEPT !.named = n]
    BY <1>2, HostnameApplied
  <2> QED
    BY <1>2, <2>1 DEF apply_hostname
<1>3. CASE ensure_break_glass
  <2>1. /\ \/ main' = [main EXCEPT !.pc = "after"]
           \/ main' = [main EXCEPT !.pc = "report", !.pw = disk.secret]
           \/ main' = [main EXCEPT !.pc = "user"]
        /\ main.pc = "bg" /\ UNCHANGED <<disk, server, tab, arg, box, unit, seen>>
    BY <1>3, Zenon DEF ensure_break_glass
  <2> QED
    BY <2>1
<1>4. CASE OpenSecret \/ FillSecret
  BY <1>4 DEF OpenSecret, FillSecret
<1>6. CASE SetPassword
  <2>1. \E works \in BOOLEAN : seen' = [seen EXCEPT !.unset = ~works]
    BY <1>6, Zenon DEF SetPassword
  <2>2. seen'.raced = seen.raced /\ seen'.stale = seen.stale
    BY <2>1
  <2> QED
    BY <1>6, <2>2 DEF SetPassword
<1>5. CASE NotReportable \/ ReportTaken \/ ReportFailed \/ MarkReported
  BY <1>5 DEF NotReportable, ReportTaken, ReportFailed, MarkReported
<1> QED
  BY <1>1, <1>2, <1>3, <1>4, <1>5, <1>6 DEF Monitor

\* Submissions are handled while the page is served, and the monitor goes on
\* once there is a certificate.
LEMMA ServedKept == ASSUME FirstBootInv, PageTypes, ServedInOrder, Next PROVE ServedInOrder'
<1> USE DEF ServedInOrder, HandlersRun
<1>0. /\ main \in [pc : MainSteps, serving : BOOLEAN, pw : Passwords \cup {None}]
      /\ disk \in [env : Tokens \cup {None}, cert : BOOLEAN, meta : BOOLEAN,
                 secret : Passwords \cup {None, Empty}, done : BOOLEAN,
                 banner : Codes \cup {None}, named : BOOLEAN,
                 probe : BOOLEAN, firstboot : BOOLEAN, seed : BOOLEAN]
      /\ tab \in [Tabs -> Idle \cup Busy]
      /\ seen \in SeenType
  BY DEF FirstBootInv, FileTypes, PageTypes
<1>1. CASE Boot
  BY <1>0, <1>1 DEF Boot, GoTo, Served
<1>2. CASE Reboot
  BY <1>0, <1>2 DEF Reboot, GoDown, Served
<1>3. CASE PowerCut
  BY <1>0, <1>3 DEF PowerCut, GoDown, Served
<1>4. CASE EnrolledBoot
  BY <1>0, <1>4 DEF EnrolledBoot, GoTo, Served, start_probe
<1>5. CASE AdoptSeed
  BY <1>0, <1>5 DEF AdoptSeed, GoTo, Served
<1>6. CASE Listen
  BY <1>0, <1>6 DEF Listen, Served, start_probe
<1>7. CASE Monitor
  BY <1>7, MonitorGoesOn
<1>8. CASE Disable \/ Exit
  BY <1>0, <1>8 DEF Disable, Exit, AtRest, Served
<1>u. CASE UnitStarts
  BY <1>0, <1>u DEF UnitStarts, start_probe, Served
<1>9. ASSUME NEW t \in Tabs, Handler(t) \/ Browser(t) PROVE ServedInOrder'
  BY <1>0, <1>9 DEF Handler, Browser, PostRight, PostWrong, CheckCount, ReplaceCode, announce_code,
     StartAfterPost, start_probe, Poll, Load, Edit
<1>10. CASE BoxEnrols \/ BoxSavesMeta \/ BoxRefused
  BY <1>0, <1>10 DEF BoxEnrols, BoxSavesMeta, BoxRefused
<1> QED
  BY <1>1, <1>2, <1>3, <1>4, <1>5, <1>6, <1>7, <1>8, <1>u, <1>9, <1>10 DEF Next, MainStep, Monitor

\* No more handlers are asleep or replace the code than there are tabs.
LEMMA GuessingBounded == /\ IsFiniteSet(Guessing) /\ Cardinality(Guessing) \in Nat
                         /\ Cardinality(Tabs) \in Nat /\ Cardinality(Guessing) <= Cardinality(Tabs)
BY FS_Subset, FS_CardinalityType, FirstBootAssumption DEF Guessing

\* So it is after a step.
LEMMA GuessingBoundedNext == Cardinality(Guessing') \in Nat /\ Cardinality(Guessing') <= Cardinality(Tabs)
<1>1. Guessing' \subseteq Tabs
  BY DEF Guessing
<1> QED
  BY <1>1, FS_Subset, FS_CardinalityType, FirstBootAssumption

\* The count exceeds what replaces a code by no more than there are handlers
\* that have yet to look at it.
LEMMA GuessesKept == ASSUME FirstBootInv, PageTypes, ServedInOrder, GuessesCounted, Next
                     PROVE  GuessesCounted'
<1>0. /\ server \in [code : Codes, failures : Nat] /\ tab \in [Tabs -> Idle \cup Busy]
      /\ main \in [pc : MainSteps, serving : BOOLEAN, pw : Passwords \cup {None}]
      /\ CODE_MAX_FAILURES \in Nat \ {0}
  BY FirstBootAssumption DEF FirstBootInv, FileTypes, PageTypes
<1>n. Cardinality(Guessing) \in Nat /\ Cardinality(Guessing) <= Cardinality(Tabs) /\ Cardinality(Tabs) \in Nat
      /\ Cardinality(Guessing') \in Nat /\ Cardinality(Guessing') <= Cardinality(Tabs)
  BY GuessingBounded, GuessingBoundedNext
<1>1. CASE server'.failures = 0
  BY <1>0, <1>n, <1>1 DEF GuessesCounted
<1>2. CASE UNCHANGED server /\ (HandlersRun' => HandlersRun /\ Guessing' = Guessing)
  BY <1>0, <1>n, <1>2 DEF GuessesCounted
<1>3. CASE \/ Boot \/ Reboot \/ PowerCut \/ EnrolledBoot \/ AdoptSeed \/ Listen
  BY <1>0, <1>1, <1>2, <1>3 DEF Boot, Reboot, PowerCut, GoDown, EnrolledBoot, AdoptSeed, Listen, GoTo,
     HandlersRun, ServedInOrder, Served
<1>4. CASE Disable \/ Exit
  BY <1>0, <1>2, <1>4 DEF Disable, Exit, AtRest, Guessing, HandlersRun, Served
<1>u. CASE UnitStarts
  BY <1>2, <1>u DEF UnitStarts, Guessing, HandlersRun
<1>m. CASE Monitor
  BY <1>2, <1>m, MonitorGoesOn DEF HandlersRun, Guessing
<1>5. ASSUME NEW t \in Tabs, Handler(t) \/ Browser(t) PROVE GuessesCounted'
  <2> USE <1>0, <1>n DEF Show, Idle, Busy, Guessing
  <2>0. HandlersRun /\ UNCHANGED main
    BY <1>5 DEF Handler, Browser, CheckCount, ReplaceCode, announce_code, StartAfterPost, PostRight,
       PostWrong, Poll, Load, Edit
  <2>1. CASE PostRight(t) \/ ReplaceCode(t)
    BY <2>1, <1>1 DEF PostRight, ReplaceCode
  <2>2. CASE PostWrong(t)
    <3>1. Guessing' = Guessing \cup {t} /\ t \notin Guessing
      BY <2>2 DEF PostWrong
    <3>2. Cardinality(Guessing') = Cardinality(Guessing) + 1
      BY <3>1, GuessingBounded, FS_AddElement
    <3>3. server'.failures = server.failures + 1
      BY <2>2 DEF PostWrong
    <3> QED
      BY <3>2, <3>3, <2>0 DEF GuessesCounted
  <2>3. CASE CheckCount(t)
    <3>1. CASE server.failures >= CODE_MAX_FAILURES
      <4>1. Guessing' = Guessing
        BY <2>3, <3>1 DEF CheckCount
      <4> QED
        BY <4>1, <2>0, <2>3, <1>2 DEF CheckCount
    <3>2. CASE ~(server.failures >= CODE_MAX_FAILURES)
      <4>1. server.failures <= CODE_MAX_FAILURES - 1 /\ UNCHANGED server
        BY <3>2, <2>3 DEF CheckCount
      <4> QED
        BY <4>1 DEF GuessesCounted
    <3> QED
      BY <3>1, <3>2
  <2>4. CASE announce_code(t) \/ StartAfterPost(t) \/ Edit(t)
    <3>1. Guessing' = Guessing /\ UNCHANGED server
      BY <2>4 DEF announce_code, StartAfterPost, Edit
    <3> QED
      BY <3>1, <2>0, <1>2
  <2>5. CASE Poll(t) \/ Load(t)
    <3>1. PICK s \in Idle : tab' = [tab EXCEPT ![t] = s]
      <4>1. enroll_status \in {"enrolled", "failed", "waiting"}
        BY Zenon DEF enroll_status
      <4>2. Show(t, enroll_status) \/ Show(t, "form")
        BY <2>5, Zenon DEF Poll, Load
      <4> QED
        BY <4>1, <4>2
    <3>2. tab[t] \in Idle /\ UNCHANGED server
      BY <2>5 DEF Poll, Load
    <3>3. Guessing' = Guessing
      BY <3>1, <3>2
    <3> QED
      BY <3>2, <3>3, <2>0, <1>2
  <2> QED
    BY <1>5, <2>1, <2>2, <2>3, <2>4, <2>5 DEF Handler, Browser
<1>6. CASE BoxEnrols \/ BoxSavesMeta \/ BoxRefused
  BY <1>6, <1>2 DEF BoxEnrols, BoxSavesMeta, BoxRefused, HandlersRun, Guessing
<1> QED
  BY <1>3, <1>4, <1>u, <1>m, <1>5, <1>6 DEF Next, MainStep, Monitor

\* A page that shows where the enrolment is goes on to show that, or the form.
LEMMA PagesIdle ==
    ASSUME PageTypes, NEW t \in Tabs, Poll(t) \/ Load(t) \/ Edit(t)
    PROVE  /\ tab[t] \in Idle /\ tab'[t] \in Idle /\ HandlersRun
           /\ UNCHANGED <<disk, main, server, arg, box, unit, seen>>
           /\ \A u \in Tabs : u # t => tab'[u] = tab[u]
<1>1. /\ tab[t] \in Idle /\ HandlersRun
      /\ UNCHANGED <<disk, main, server, arg, box, unit, seen>>
  BY DEF Poll, Load, Edit, Idle
<1>2. enroll_status \in {"enrolled", "failed", "waiting"}
  BY Zenon DEF enroll_status
<1>3. Show(t, enroll_status) \/ Show(t, "form")
  BY Zenon DEF Poll, Load, Edit
<1> QED
  BY <1>1, <1>2, <1>3 DEF Show, Idle, PageTypes

\* A new code is announced before the next one is made, or the race is noted.
LEMMA BannerKept == ASSUME FirstBootInv, PageTypes, ServedInOrder, BannerFollows, Next
                    PROVE  BannerFollows'
<1>0. /\ main \in [pc : MainSteps, serving : BOOLEAN, pw : Passwords \cup {None}]
      /\ disk \in [env : Tokens \cup {None}, cert : BOOLEAN, meta : BOOLEAN,
                 secret : Passwords \cup {None, Empty}, done : BOOLEAN,
                 banner : Codes \cup {None}, named : BOOLEAN,
                 probe : BOOLEAN, firstboot : BOOLEAN, seed : BOOLEAN]
      /\ server \in [code : Codes, failures : Nat]
      /\ tab \in [Tabs -> Idle \cup Busy] /\ arg \in [Tabs -> Codes \cup {None}]
      /\ seen \in SeenType
  BY DEF FirstBootInv, FileTypes, PageTypes
<1> USE <1>0 DEF BannerFollows, BannerTells, Announcing, Replacing, HandlersRun, ServedInOrder, SeenType
<1>1. CASE Boot
  BY <1>1 DEF Boot, GoTo, Served
<1>2. CASE Reboot
  BY <1>2 DEF Reboot, GoDown, Served
<1>3. CASE PowerCut
  <2>1. seen'.stale <=> disk.banner # None
    BY <1>3 DEF PowerCut
  <2>2. UNCHANGED disk /\ main'.pc = "off" /\ tab' = [t \in Tabs |-> "form"]
    BY <1>3 DEF PowerCut, GoDown
  <2> QED
    BY <2>1, <2>2 DEF Served
<1>4. CASE EnrolledBoot
  BY <1>4 DEF EnrolledBoot, GoTo, Served, start_probe
<1>5. CASE AdoptSeed
  BY <1>5 DEF AdoptSeed, GoTo, Served
<1>6. CASE Listen
  <2>1. \A u \in Tabs : tab'[u] = "form"
    BY <1>6 DEF Listen, Served
  <2>2. PICK c \in Codes : server' = [code |-> c, failures |-> 0]
                            /\ (already_enrolled \/ disk' = [disk EXCEPT !.banner = c])
    BY <1>6 DEF Listen
  <2>5. main.pc = "listen" /\ main' = [main EXCEPT !.pc = "serve", !.serving = TRUE]
    BY <1>6 DEF Listen
  <2>3. CASE already_enrolled
    <3>1. disk' = [disk EXCEPT !.probe = TRUE] /\ seen' = [seen EXCEPT !.silent = TRUE, !.raced = FALSE]
      BY <1>6, <2>3 DEF Listen, start_probe
    <3> QED
      BY <2>1, <2>5, <3>1 DEF Served
  <2>4. CASE ~already_enrolled
    <3>1. seen' = [seen EXCEPT !.silent = FALSE, !.stale = FALSE, !.raced = FALSE]
      BY <1>6, <2>4 DEF Listen
    <3> QED
      BY <2>1, <2>2, <2>4, <2>5, <3>1 DEF Served
  <2> QED
    BY <2>3, <2>4
<1>7. CASE Monitor
  BY <1>7, MonitorGoesOn
<1>8. CASE Disable
  BY <1>8 DEF Disable, AtRest, Served
<1>e. CASE Exit
  <2>1. seen'.stale <=> disk.banner # None
    BY <1>e DEF Exit
  <2>2. UNCHANGED disk /\ main'.pc = "rest" /\ tab' = [t \in Tabs |-> "form"]
    BY <1>e DEF Exit, AtRest
  <2> QED
    BY <2>1, <2>2 DEF Served
<1>u. CASE UnitStarts
  BY <1>u DEF UnitStarts, start_probe
<1>9. ASSUME NEW t \in Tabs, Handler(t) \/ Browser(t) PROVE BannerFollows'
  <2> USE DEF Show, Idle, Busy
  <2>1. CASE PostRight(t)
    BY <1>9, <2>1 DEF PostRight
  <2>2. CASE PostWrong(t)
    BY <1>9, <2>2 DEF PostWrong
  <2>3. CASE CheckCount(t)
    BY <1>9, <2>3 DEF CheckCount
  <2>4. CASE ReplaceCode(t)
    BY <1>9, <2>4 DEF ReplaceCode
  <2>5. CASE announce_code(t)
    BY <1>9, <2>5 DEF announce_code
  <2>6. CASE StartAfterPost(t)
    BY <1>9, <2>6 DEF StartAfterPost, start_probe
  <2>7. CASE Poll(t) \/ Load(t) \/ Edit(t)
    BY <2>7, PagesIdle
  <2> QED
    BY <1>9, <2>1, <2>2, <2>3, <2>4, <2>5, <2>6, <2>7 DEF Handler, Browser
<1>10. CASE BoxEnrols \/ BoxSavesMeta \/ BoxRefused
  BY <1>10 DEF BoxEnrols, BoxSavesMeta, BoxRefused
<1> QED
  BY <1>1, <1>2, <1>3, <1>4, <1>5, <1>6, <1>7, <1>8, <1>e, <1>u, <1>9, <1>10 DEF Next, MainStep, Monitor

\* The container takes no token and no mark away, and leaves the page alone.
LEMMA BoxLeaves == ASSUME FirstBootInv, PageTypes, BoxEnrols \/ BoxSavesMeta \/ BoxRefused
                   PROVE  /\ UNCHANGED <<main, tab, unit>>
                          /\ disk'.env = disk.env /\ disk'.probe = disk.probe
                          /\ (disk.cert => disk'.cert) /\ box'.token = box.token
<1>1. /\ disk \in [env : Tokens \cup {None}, cert : BOOLEAN, meta : BOOLEAN,
                   secret : Passwords \cup {None, Empty}, done : BOOLEAN,
                   banner : Codes \cup {None}, named : BOOLEAN,
                   probe : BOOLEAN, firstboot : BOOLEAN, seed : BOOLEAN]
      /\ box \in BoxType
  BY DEF FirstBootInv, FileTypes, PageTypes
<1>2. CASE BoxEnrols
  BY ONLY <1>1, <1>2 DEF BoxType, BoxEnrols
<1>3. CASE BoxSavesMeta
  BY ONLY <1>1, <1>3 DEF BoxType, BoxSavesMeta
<1>4. CASE BoxRefused
  BY ONLY <1>1, <1>4 DEF BoxType, BoxRefused
<1> QED
  BY <1>2, <1>3, <1>4

\* A token, once there, stays until a handler with a better one restarts the
\* container.
LEMMA TokenKept == ASSUME FirstBootInv, PageTypes, ServedInOrder, TokenIsFiled, Next
                   PROVE  TokenIsFiled'
<1>0. /\ main \in [pc : MainSteps, serving : BOOLEAN, pw : Passwords \cup {None}]
      /\ disk \in [env : Tokens \cup {None}, cert : BOOLEAN, meta : BOOLEAN,
                 secret : Passwords \cup {None, Empty}, done : BOOLEAN,
                 banner : Codes \cup {None}, named : BOOLEAN,
                 probe : BOOLEAN, firstboot : BOOLEAN, seed : BOOLEAN]
      /\ tab \in [Tabs -> Idle \cup Busy]
      /\ box \in BoxType
      /\ None \notin Tokens
  BY FirstBootAssumption DEF FirstBootInv, FileTypes, PageTypes, Tokens
<1> USE <1>0 DEF TokenIsFiled, PicksUpRetry, HandlersRun, ServedInOrder
<1>s. ASSUME start_probe(disk)
      PROVE  /\ box'.token \in {disk.env, None} /\ (unit' = "active" => box'.token = disk.env)
             /\ disk' = [disk EXCEPT !.probe = TRUE]
  BY <1>s, Started
<1>1. CASE Boot
  <2>1. UNCHANGED <<disk, tab, box, unit>>
    BY <1>1 DEF Boot
  <2> QED
    BY <2>1
<1>u. CASE UnitStarts
  BY <1>u, <1>s DEF UnitStarts
<1>2. CASE Reboot \/ PowerCut
  <2>1. box'.token \in {box.token, None} /\ UNCHANGED disk /\ unit' = "inactive" /\ tab' = [t \in Tabs |-> "form"]
    BY <1>2 DEF Reboot, PowerCut, GoDown, NoBox, Fresh
  <2> QED
    BY <2>1
<1>3. CASE EnrolledBoot
  BY <1>3, <1>s DEF EnrolledBoot, already_enrolled
<1>4. CASE AdoptSeed
  <2>1. main.pc = "boot" /\ main'.pc = "listen" /\ UNCHANGED <<tab, box, unit>>
    BY <1>4 DEF AdoptSeed, GoTo
  <2>2. disk.env # None => UNCHANGED disk
    BY <1>4 DEF AdoptSeed, already_enrolled
  <2>3. UNCHANGED disk \/ \E token \in Tokens : disk' = [disk EXCEPT !.env = token]
    BY <1>4, Zenon DEF AdoptSeed
  <2> QED
    BY <2>1, <2>2, <2>3
<1>5. CASE Listen
  <2>1. CASE already_enrolled
    BY <1>5, <2>1, <1>s DEF Listen, already_enrolled
  <2>2. CASE ~already_enrolled
    <3>1. box.token = None /\ UNCHANGED <<tab, box, unit>> /\ unit = "inactive"
          /\ \E c \in Codes : disk' = [disk EXCEPT !.banner = c]
      BY <1>5, <2>2 DEF Listen, already_enrolled
    <3> QED
      BY <3>1
  <2> QED
    BY <2>1, <2>2
<1>6. CASE Monitor
  <2>1. disk'.cert /\ UNCHANGED <<tab, box, unit>> /\ disk'.env = disk.env /\ disk'.probe = disk.probe
    BY <1>6, MonitorGoesOn
  <2> QED
    BY <2>1
<1>7. CASE Disable \/ Exit
  BY <1>7 DEF Disable, Exit
<1>8. ASSUME NEW t \in Tabs, Handler(t) \/ Browser(t) PROVE TokenIsFiled'
  <2> USE DEF Show, Idle, Busy
  <2>1. CASE PostRight(t)
    <3>1. /\ UNCHANGED <<box, main, unit>>
          /\ \/ UNCHANGED <<tab, disk>>
             \/ \E token \in Tokens : Show(t, "start") /\ disk' = [disk EXCEPT !.env = token]
      BY <2>1 DEF PostRight
    <3> QED
      BY <3>1, <1>8
  <2>2. CASE PostWrong(t) \/ ReplaceCode(t)
    <3>1. /\ tab' = [tab EXCEPT ![t] = "asleep"] \/ tab' = [tab EXCEPT ![t] = "announce"]
          /\ tab[t] # "start" /\ UNCHANGED <<disk, main, box, unit>>
      BY <2>2 DEF PostWrong, ReplaceCode
    <3>2. \A u \in Tabs : tab'[u] = "start" <=> tab[u] = "start"
      BY <3>1
    <3> QED
      BY <3>1, <3>2
  <2>a. CASE announce_code(t)
    BY <1>8, <2>a DEF announce_code
  <2>3. CASE CheckCount(t)
    BY <1>8, <2>3 DEF CheckCount
  <2>4. CASE StartAfterPost(t)
    BY <1>8, <2>4, <1>s DEF StartAfterPost
  <2>5. CASE Poll(t) \/ Load(t) \/ Edit(t)
    BY <2>5, PagesIdle
  <2> QED
    BY <1>8, <2>1, <2>2, <2>a, <2>3, <2>4, <2>5 DEF Handler, Browser
<1>9. CASE BoxEnrols \/ BoxSavesMeta \/ BoxRefused
  BY <1>9, BoxLeaves
<1> QED
  BY <1>1, <1>u, <1>2, <1>3, <1>4, <1>5, <1>6, <1>7, <1>8, <1>9 DEF Next, MainStep, Monitor

-----------------------------------------------------------------------------
\* The setup page's invariant: the handlers, the monitor, the container and
\* the disk agree at every step, whatever is submitted and whenever the power
\* is cut.
THEOREM PageInductive == Spec => []PageInv
<1>1. Init => PageInv
  <2> USE FirstBootAssumption DEF Init
  <2>1. Init => PageTypes
    BY DEF PageTypes, NoBox, Fresh, BoxType, Idle, Tokens
  <2>2. Init => ServedInOrder
    BY DEF ServedInOrder, HandlersRun, Served
  <2>3. Init => GuessesCounted
    BY GuessingBounded DEF GuessesCounted
  <2>4. Init => BannerFollows
    BY DEF BannerFollows, BannerTells, Announcing, Replacing, HandlersRun
  <2>5. Init => TokenIsFiled
    BY DEF TokenIsFiled, PicksUpRetry, NoBox, Fresh
  <2> QED
    BY <2>1, <2>2, <2>3, <2>4, <2>5 DEF PageInv
<1>2. FirstBootInv /\ PageInv /\ Next => PageInv'
  BY PageTyped, ServedKept, GuessesKept, BannerKept, TokenKept DEF PageInv
<1>3. PageInv /\ UNCHANGED vars => PageInv'
  <2> SUFFICES ASSUME PageInv, UNCHANGED vars PROVE PageInv'
    OBVIOUS
  <2>1. UNCHANGED <<disk, main, server, tab, arg, box, unit, seen>>
    BY DEF vars
  <2>2. PageTypes' /\ ServedInOrder' /\ BannerFollows' /\ TokenIsFiled'
    BY <2>1 DEF PageInv, PageTypes, ServedInOrder, HandlersRun, BannerFollows, BannerTells, Announcing,
       Replacing, TokenIsFiled, PicksUpRetry
  <2>3. Guessing' = Guessing
    BY <2>1 DEF Guessing
  <2>4. GuessesCounted'
    BY <2>1, <2>3 DEF PageInv, GuessesCounted, HandlersRun
  <2> QED
    BY <2>2, <2>4 DEF PageInv
<1> QED
  BY <1>1, <1>2, <1>3, SecretInductive, PTL DEF Spec

\* Every file, page, thread and note has its type; the count of wrong guesses
\* stays below the limit plus the requests that may be asleep at once.
THEOREM TypesHold == Spec => []TypeOK
<1>1. FirstBootInv /\ PageInv => TypeOK
  <2> SUFFICES ASSUME FirstBootInv, PageInv PROVE TypeOK
    OBVIOUS
  <2>1. server.failures \in 0 .. CODE_MAX_FAILURES - 1 + Cardinality(Tabs)
    BY GuessingBounded, FirstBootAssumption DEF PageInv, PageTypes, GuessesCounted
  <2>2. server \in [code : Codes, failures : 0 .. CODE_MAX_FAILURES - 1 + Cardinality(Tabs)]
    BY <2>1 DEF PageInv, PageTypes
  <2> QED
    BY <2>2 DEF FirstBootInv, PageInv, PageTypes, TypeOK
<1> QED
  BY <1>1, SecretInductive, PageInductive, PTL

\* The code on the login banner is the one the page wants, unless two handlers
\* replaced it at once; a page that starts with a token there, the case in which
\* the service announces no code, has none there, or what a power cut left. After
\* the service the banner shows a code only if it outlived its page.
THEOREM ConsoleTells == Spec => []BannerTells
<1>1. PageInv => BannerTells
  BY DEF PageInv, BannerFollows
<1> QED
  BY <1>1, PageInductive, PTL

\* However submissions overlap and whenever the power is cut, a container that
\* its unit has started and that has yet to enrol runs with the file's token once
\* every handler has restarted it.
THEOREM RetryIsPickedUp == Spec => []PicksUpRetry
<1>1. PageInv => PicksUpRetry
  BY DEF PageInv, TokenIsFiled
<1> QED
  BY <1>1, PageInductive, PTL
================================================================================

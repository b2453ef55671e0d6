----------------------------- MODULE HostActions ------------------------------
(***************************************************************************)
(* What a probe VM does on Argus's behalf (deploy/probe-vm/host): reboot   *)
(* now, patch now, and the reboot in its window.  The container hands the  *)
(* window and the requests over as files in the data folder (host_files in *)
(* checkin.sh); systemd starts argus-reboot-check (a timer and a path      *)
(* unit) and argus-patch (a path unit only), which act on them.  A reboot, *)
(* or a power cut, kills both and leaves the files.                        *)
(*                                                                         *)
(* The clock is the one the window is on.  Dates are counted in requests:  *)
(* something that carries n came after the n-th request, which is what     *)
(* Argus compares.                                                         *)
(***************************************************************************)
EXTENDS Integers

CONSTANTS
    DAYS, HOURS, MINUTES,  \* days in a week, hours in a day, minutes in an hour
    Slack,       \* minutes after the window's that still count
    Period,      \* minutes between two checks of the timer
    BootDelay,   \* minutes from boot to the timer's first check
    DefaultHour, \* hour of the window a VM without one keeps
    Windows,     \* bound: windows an answer of Argus can carry
    Asked,       \* bound: the kinds of request Argus makes
    MaxAsked,    \* bound: requests of a kind
    KernelStays, \* TRUE: the OS may still ask for a reboot after one
    SlowCheck,   \* TRUE: time passes and windows arrive while a check runs
    MaxCuts,     \* bound: power cuts
    None         \* no file, nothing in the answer

Kinds == {"reboot", "patch"}
EveryDay == -1

\* What an answer can carry, and what a window is.
WindowType == [mode : {"auto", "notify"}, day : Int, hour : Int, minute : Int]
GoodWindows == [mode : {"auto", "notify"}, day : {EveryDay} \cup 0..(DAYS - 1),
                hour : 0..(HOURS - 1), minute : 0..(MINUTES - 1)]
Clocks == [day : 0..(DAYS - 1), hour : 0..(HOURS - 1), minute : 0..(MINUTES - 1)]
DefaultWindow == [mode |-> "auto", day |-> EveryDay, hour |-> DefaultHour, minute |-> 0]

ASSUME TimeAssumption ==
    /\ DAYS \in Nat \ {0} /\ HOURS \in Nat \ {0} /\ MINUTES \in Nat \ {0}
    /\ Slack \in Nat \ {0} /\ Period \in Nat \ {0}
    /\ BootDelay \in 0..Period /\ DefaultHour \in 0..(HOURS - 1)
ASSUME BoundsAssumption ==
    /\ Windows \subseteq WindowType /\ Asked \subseteq Kinds
    /\ MaxAsked \in Nat /\ MaxCuts \in Nat
    /\ KernelStays \in BOOLEAN /\ SlowCheck \in BOOLEAN
ASSUME NoneAssumption == None \notin WindowType /\ None \notin Kinds

VARIABLES
    window,      \* reboot-window.json
    req,         \* by kind: whether there is a request file
    result,      \* by kind: the result file
    clock, due,  \* the time; minutes to the timer's next check
    need,        \* whether the OS asks for a reboot
    vm,          \* "up", "going" down for a reboot, "off"
    check,       \* the process of argus-reboot-check
    patch,       \* the process of argus-patch
    notice,      \* by kind: the path unit has seen its file change
    handed,      \* by kind: requests handed over so far
    booted,      \* how many of the reboot requests came before the last boot
    obeyed,      \* reboots on request so far
    cuts         \* power cuts so far

files == <<window, req, result>>
time == <<clock, due>>
argus == <<handed, obeyed>>
vars == <<files, time, need, vm, check, patch, notice, argus, booted, cuts>>

Fields == {"mode", "day", "hour", "minute"}
CheckSteps == {"idle", "begin", "take", "asked", "ask", "file", "test", "now_day", "now_hour",
               "now_minute", "compare", "say", "reboot", "done", "report"} \cup Fields
PatchSteps == {"idle", "begin", "take", "upgrade", "dietpi", "say", "report"}

\* What the check has read so far, and why it would reboot; fits: at some moment
\* since it began the time was right for the window in the folder.
CheckType == [step : CheckSteps, why : {"request", "window"}, got : WindowType,
              now : Clocks, fits : BOOLEAN]
PatchType == [step : PatchSteps, fine : BOOLEAN]
ResultType == [state : {"rebooting", "done", "failed"}, at : Nat]

Midnight == [day |-> 0, hour |-> 0, minute |-> 0]
NoCheck == [step |-> "idle", why |-> "window", got |-> DefaultWindow, now |-> Midnight,
            fits |-> FALSE]
NoPatch == [step |-> "idle", fine |-> TRUE]

\* host_files takes a window only with every field in its range.
Valid(w) ==
    /\ w.day \in {EveryDay} \cup 0..(DAYS - 1)
    /\ w.hour \in 0..(HOURS - 1)
    /\ w.minute \in 0..(MINUTES - 1)

\* The window the check goes by, and its test of the time c against it.
InWindow_AnyHour(w, c) ==
    /\ w.day \in {EveryDay, c.day}
    /\ w.minute <= c.minute /\ c.minute < w.minute + Slack
InWindow_NoSlack(w, c) ==
    /\ w.day \in {EveryDay, c.day} /\ w.hour = c.hour
    /\ w.minute = c.minute
InWindow(w, c) ==
    /\ w.day \in {EveryDay, c.day} /\ w.hour = c.hour
    /\ w.minute <= c.minute /\ c.minute < w.minute + Slack

Effective(w) == IF w = None THEN DefaultWindow ELSE w

\* What a window means: automatic, and at most Slack minutes since its moment,
\* today or, around midnight, yesterday.
OfDay(t) == t.hour * MINUTES + t.minute
Yesterday(day) == (day + DAYS - 1) % DAYS
Fits(file, c) ==
    LET w == Effective(file)
        since == OfDay(c) - OfDay(w) IN
    /\ w.mode = "auto"
    /\ \/ w.day \in {EveryDay, c.day} /\ since \in 0..(Slack - 1)
       \/ /\ w.day \in {EveryDay, Yesterday(c.day)}
          /\ since + HOURS * MINUTES \in 0..(Slack - 1)

TypeOK ==
    /\ window \in GoodWindows \cup {None}
    /\ req \in [Kinds -> BOOLEAN]
    /\ result \in [Kinds -> ResultType \cup {None}]
    /\ clock \in Clocks /\ due \in 0..Period
    /\ need \in BOOLEAN /\ vm \in {"up", "going", "off"}
    /\ check \in CheckType /\ patch \in PatchType
    /\ notice \in [Kinds -> BOOLEAN] /\ handed \in [Kinds -> Nat]
    /\ booted \in Nat /\ obeyed \in Nat /\ cuts \in Nat

Init ==
    /\ window = None
    /\ req = [k \in Kinds |-> FALSE] /\ result = [k \in Kinds |-> None]
    /\ clock \in Clocks /\ due = BootDelay
    /\ need \in BOOLEAN /\ vm = "up"
    /\ check = NoCheck /\ patch = NoPatch
    /\ notice = [k \in Kinds |-> FALSE] /\ handed = [k \in Kinds |-> 0]
    /\ booted = 0 /\ obeyed = 0 /\ cuts = 0

-------------------------------------------------------------------------------
(* The container: host_files with a check-in's answer                      *)

Running(k) == IF k = "reboot" THEN check.step # "idle" ELSE patch.step # "idle"

\* Now and after the step the time may be right: the running check keeps track.
Tracked(chk, w, c) == [chk EXCEPT !.fits = @ \/ (chk.step # "idle" /\ Fits(w, c))]

\* Each file is written whole (mv).  A path unit sees the change, unless its
\* service runs (systemd then doesn't watch) or the VM goes down.
HostFiles(w, k) ==
    /\ vm # "off"
    /\ k # None => handed[k] < MaxAsked
    /\ w # None => SlowCheck \/ check.step = "idle"
    /\ window' = IF w # None /\ Valid(w) THEN w ELSE window
    /\ check' = Tracked(check, window', clock)
    /\ IF k = None
         THEN UNCHANGED <<req, handed, notice>>
         ELSE /\ req' = [req EXCEPT ![k] = TRUE]
              /\ handed' = [handed EXCEPT ![k] = @ + 1]
              /\ \E seen \in BOOLEAN :
                    /\ vm = "up" /\ ~Running(k) => seen
                    /\ notice' = [notice EXCEPT ![k] = seen]
    /\ UNCHANGED <<result, time, need, vm, patch, booted, obeyed, cuts>>

-------------------------------------------------------------------------------
(* argus-reboot-check                                                      *)

Begin == [NoCheck EXCEPT !.step = "begin", !.fits = Fits(window, clock)]

TimerStartsCheck ==
    /\ vm = "up" /\ due = 0 /\ check.step = "idle"
    /\ check' = Begin /\ due' = Period
    /\ UNCHANGED <<files, clock, need, vm, patch, notice, argus, booted, cuts>>

PathStartsCheck ==
    /\ vm = "up" /\ notice["reboot"] /\ check.step = "idle"
    /\ notice' = [notice EXCEPT !["reboot"] = FALSE]
    /\ check' = Begin /\ due' = Period
    /\ UNCHANGED <<files, clock, need, vm, patch, argus, booted, cuts>>

Go(step) == check' = [check EXCEPT !.step = step]
ExitCheck == check' = NoCheck

LookForRequest ==
    /\ check.step = "begin"
    /\ \/ req["reboot"] /\ check' = [check EXCEPT !.step = "take", !.why = "request"]
       \/ ~req["reboot"] /\ Go("ask")
    /\ UNCHANGED <<files, time, need, vm, patch, notice, argus, booted, cuts>>

\* rm -f after the reboot, which never comes to it.
TakeRequest_Keeps ==
    /\ check.step = "take"
    /\ Go("asked")
    /\ UNCHANGED <<files, time, need, vm, patch, notice, argus, booted, cuts>>

\* The request is gone before anything is done about it.
TakeRequest ==
    /\ check.step = "take"
    /\ req' = [req EXCEPT !["reboot"] = FALSE]
    /\ Go("asked")
    /\ UNCHANGED <<window, result, time, need, vm, patch, notice, argus, booted, cuts>>

\* A request that doesn't ask the OS.
AskOS_RequestDecides ==
    /\ \/ check.step = "asked" /\ Go("say")
       \/ check.step = "ask" /\ need /\ Go("file")
       \/ check.step = "ask" /\ ~need /\ ExitCheck
    /\ UNCHANGED <<files, time, need, vm, patch, notice, argus, booted, cuts>>

\* needs_reboot, for a request and for the window.
AskOS ==
    /\ \/ check.step = "asked" /\ need /\ Go("say")
       \/ check.step = "asked" /\ ~need /\ Go("done")
       \/ check.step = "ask" /\ need /\ Go("file")
       \/ check.step = "ask" /\ ~need /\ ExitCheck
    /\ UNCHANGED <<files, time, need, vm, patch, notice, argus, booted, cuts>>

LookForWindow ==
    /\ check.step = "file"
    /\ \/ window = None /\ Go("now_day")
       \/ window # None /\ Go("mode")
    /\ UNCHANGED <<files, time, need, vm, patch, notice, argus, booted, cuts>>

\* One sed per field, each opens the file anew.
ReadField ==
    /\ \/ /\ check.step = "mode"
          /\ check' = [check EXCEPT !.got.mode = window.mode, !.step = "day"]
       \/ /\ check.step = "day"
          /\ check' = [check EXCEPT !.got.day = window.day, !.step = "hour"]
       \/ /\ check.step = "hour"
          /\ check' = [check EXCEPT !.got.hour = window.hour, !.step = "minute"]
       \/ /\ check.step = "minute"
          /\ check' = [check EXCEPT !.got.minute = window.minute, !.step = "test"]
    /\ UNCHANGED <<files, time, need, vm, patch, notice, argus, booted, cuts>>

TestFields ==
    /\ check.step = "test"
    /\ LET automatic == check.got.mode = "auto" /\ Valid(check.got) IN
       \/ automatic /\ Go("now_day")
       \/ ~automatic /\ ExitCheck
    /\ UNCHANGED <<files, time, need, vm, patch, notice, argus, booted, cuts>>

\* One date per part of the time.
ReadClock ==
    /\ \/ /\ check.step = "now_day"
          /\ check' = [check EXCEPT !.now.day = clock.day, !.step = "now_hour"]
       \/ /\ check.step = "now_hour"
          /\ check' = [check EXCEPT !.now.hour = clock.hour, !.step = "now_minute"]
       \/ /\ check.step = "now_minute"
          /\ check' = [check EXCEPT !.now.minute = clock.minute, !.step = "compare"]
    /\ UNCHANGED <<files, time, need, vm, patch, notice, argus, booted, cuts>>

Compare ==
    /\ check.step = "compare"
    /\ \/ InWindow(check.got, check.now) /\ Go("say")
       \/ ~InWindow(check.got, check.now) /\ ExitCheck
    /\ UNCHANGED <<files, time, need, vm, patch, notice, argus, booted, cuts>>

Result(state) ==
    result' = [result EXCEPT !["reboot"] = [state |-> state, at |-> handed["reboot"]]]

TellResult_OnlyReboots ==
    /\ \/ check.step = "say" /\ Result("rebooting") /\ Go("reboot")
       \/ check.step = "done" /\ Go("report") /\ UNCHANGED result
    /\ UNCHANGED <<window, req, time, need, vm, patch, notice, argus, booted, cuts>>

TellResult ==
    /\ \/ check.step = "say" /\ Result("rebooting") /\ Go("reboot")
       \/ check.step = "done" /\ Result("done") /\ Go("report")
    /\ UNCHANGED <<window, req, time, need, vm, patch, notice, argus, booted, cuts>>

\* systemctl reboot, and the script ends.
RebootVM ==
    /\ check.step = "reboot"
    /\ vm' = "going"
    /\ obeyed' = IF check.why = "request" THEN obeyed + 1 ELSE obeyed
    /\ ExitCheck
    /\ UNCHANGED <<files, time, need, patch, notice, handed, booted, cuts>>

ReportCheck ==
    /\ check.step = "report"
    /\ ExitCheck
    /\ UNCHANGED <<files, time, need, vm, patch, notice, argus, booted, cuts>>

CheckStep ==
    \/ LookForRequest \/ TakeRequest \/ AskOS \/ LookForWindow \/ ReadField \/ TestFields
    \/ ReadClock \/ Compare \/ TellResult \/ RebootVM \/ ReportCheck

-------------------------------------------------------------------------------
(* argus-patch                                                             *)

PathStartsPatch ==
    /\ vm = "up" /\ notice["patch"] /\ patch.step = "idle"
    /\ notice' = [notice EXCEPT !["patch"] = FALSE]
    /\ patch' = [NoPatch EXCEPT !.step = "begin"]
    /\ UNCHANGED <<files, time, need, vm, check, argus, booted, cuts>>

LookForPatch ==
    /\ patch.step = "begin"
    /\ patch' = IF req["patch"] THEN [patch EXCEPT !.step = "take"] ELSE NoPatch
    /\ UNCHANGED <<files, time, need, vm, check, notice, argus, booted, cuts>>

TakePatch ==
    /\ patch.step = "take"
    /\ req' = [req EXCEPT !["patch"] = FALSE]
    /\ patch' = [patch EXCEPT !.step = "upgrade"]
    /\ UNCHANGED <<window, result, time, need, vm, check, notice, argus, booted, cuts>>

\* unattended-upgrade, then a DietPi release that waits; either can fail, and
\* can leave the OS asking for a reboot.
Upgrade ==
    /\ patch.step \in {"upgrade", "dietpi"}
    /\ need' \in {need, TRUE}
    /\ \E well \in BOOLEAN :
          patch' = [step |-> IF patch.step = "upgrade" THEN "dietpi" ELSE "say",
                    fine |-> patch.fine /\ well]
    /\ UNCHANGED <<files, time, vm, check, notice, argus, booted, cuts>>

\* Says nothing of a run that had a problem.
TellPatched_OnlyDone ==
    /\ patch.step = "say"
    /\ result' = IF patch.fine
                   THEN [result EXCEPT !["patch"] = [state |-> "done", at |-> handed["patch"]]]
                   ELSE result
    /\ patch' = [patch EXCEPT !.step = "report"]
    /\ UNCHANGED <<window, req, time, need, vm, check, notice, argus, booted, cuts>>

TellPatched ==
    /\ patch.step = "say"
    /\ result' = [result EXCEPT !["patch"] =
                    [state |-> IF patch.fine THEN "done" ELSE "failed", at |-> handed["patch"]]]
    /\ patch' = [patch EXCEPT !.step = "report"]
    /\ UNCHANGED <<window, req, time, need, vm, check, notice, argus, booted, cuts>>

ReportPatch ==
    /\ patch.step = "report"
    /\ patch' = NoPatch
    /\ UNCHANGED <<files, time, need, vm, check, notice, argus, booted, cuts>>

PatchStep ==
    \/ LookForPatch \/ TakePatch \/ Upgrade \/ TellPatched \/ ReportPatch

-------------------------------------------------------------------------------
(* The VM                                                                  *)

\* The daily unattended-upgrades, or anyone at the console.
OSUpdated ==
    /\ vm = "up" /\ ~need
    /\ need' = TRUE
    /\ UNCHANGED <<files, time, vm, check, patch, notice, argus, booted, cuts>>

NextMinute(c) ==
    LET hourEnds == c.minute = MINUTES - 1
        dayEnds == hourEnds /\ c.hour = HOURS - 1 IN
    [day    |-> IF dayEnds THEN (c.day + 1) % DAYS ELSE c.day,
     hour   |-> IF hourEnds THEN (c.hour + 1) % HOURS ELSE c.hour,
     minute |-> (c.minute + 1) % MINUTES]

\* The timer doesn't wait past its time for a check that can start.
MinutePasses ==
    /\ vm = "up"
    /\ IF SlowCheck THEN due > 0 \/ check.step # "idle" ELSE due > 0 /\ check.step = "idle"
    /\ clock' = NextMinute(clock)
    /\ due' = IF due = 0 THEN 0 ELSE due - 1
    /\ check' = Tracked(check, window, clock')
    /\ UNCHANGED <<files, need, vm, patch, notice, argus, booted, cuts>>

PowerCut ==
    /\ vm # "off" /\ cuts < MaxCuts
    /\ cuts' = cuts + 1 /\ vm' = "off"
    /\ check' = NoCheck /\ patch' = NoPatch /\ notice' = [k \in Kinds |-> FALSE]
    /\ UNCHANGED <<files, time, need, argus, booted>>

\* The boot loads the newest kernel, as a rule.
Boot ==
    /\ vm \in {"going", "off"}
    /\ vm' = "up" /\ booted' = handed["reboot"] /\ due' = BootDelay
    /\ need' \in {FALSE} \cup (IF KernelStays THEN {need} ELSE {})
    /\ check' = NoCheck /\ patch' = NoPatch /\ notice' = [k \in Kinds |-> FALSE]
    /\ UNCHANGED <<files, clock, argus, cuts>>

Next ==
    \/ \E w \in Windows \cup {None}, k \in Asked \cup {None} : HostFiles(w, k)
    \/ TimerStartsCheck \/ PathStartsCheck \/ CheckStep
    \/ PathStartsPatch \/ PatchStep
    \/ OSUpdated \/ MinutePasses \/ PowerCut \/ Boot

Spec == Init /\ [][Next]_vars

\* systemd starts what is due, the scripts run on, a VM that goes down or lost
\* its power comes up again, and time passes.
Fairness ==
    /\ WF_vars(TimerStartsCheck) /\ WF_vars(PathStartsCheck) /\ WF_vars(CheckStep)
    /\ WF_vars(PathStartsPatch) /\ WF_vars(PatchStep)
    /\ WF_vars(Boot) /\ SF_vars(MinutePasses)

FairSpec == Spec /\ Fairness

-------------------------------------------------------------------------------
(* Properties                                                              *)

\* "A reboot happens only if the OS still asks for one": true of the moment of
\* the reboot, for requests and for the window, whatever happened meanwhile.
OnlyWhenNeeded == check.step \in {"say", "reboot"} => need

\* A request reboots the VM once: not again when the OS still asks after the
\* boot, when the timer looks too, or when a power cut comes between.
AskedOnce == obeyed <= handed["reboot"]

\* A VM without a request reboots at a time that was right for the window it had
\* at some moment of the check.  Claimed while no minute passes and no window
\* arrives during a check: the script reads both piece by piece.
RebootInWindow == check.step = "reboot" /\ check.why = "window" => check.fits

\* A VM that needs a reboot and keeps an automatic window, its own or one from
\* Argus, reboots in the end, if the slack fits the window's hour.  One that is
\* later in its hour is open for less than the slack, and the timer may step over
\* it every time: nothing is claimed of that (argus-reboot-check).
Roomy(w) == Effective(w).mode = "auto" /\ Effective(w).minute + Slack <= MINUTES
WindowServed ==
    <>[][FALSE]_window /\ <>[]Roomy(window) => (need ~> (vm = "going" \/ ~need))

\* Every reboot request is answered for Argus: by a result or by a boot after it.
Answered(n) == booted >= n \/ (result["reboot"] # None /\ result["reboot"].at >= n)
RebootAnswered == \A n \in 1..MaxAsked : handed["reboot"] >= n ~> Answered(n)

\* A patch run that has taken its request leaves a result that says how it ended,
\* unless the VM goes down under it.
PatchAnswered == \A n \in 1..MaxAsked :
    patch.step = "upgrade" /\ handed["patch"] >= n
        ~> vm # "up" \/ (result["patch"] # None /\ result["patch"].at >= n)

-------------------------------------------------------------------------------
(* Why they hold                                                           *)

OnRequest == {"take", "asked", "done"}
ForWindow == {"begin", "ask", "file", "test", "now_day", "now_hour", "now_minute", "compare"} \cup Fields
One(test) == IF test THEN 1 ELSE 0

\* A reboot on request, one about to happen and a request in the folder are each
\* for a request of their own.
Accounted ==
    /\ obeyed
         + One(check.step \in {"asked", "say", "reboot"} /\ check.why = "request")
         + One(req["reboot"]) <= handed["reboot"]
    /\ check.step = "take" => req["reboot"]
    /\ check.step \in OnRequest => check.why = "request"
    /\ check.step \in ForWindow => check.why = "window"

\* The OS was asked, and goes on asking until it has booted.
Needed == check.step \in (ForWindow \ {"begin", "ask"}) \cup {"say", "reboot"} => need

\* What the check has read so far is what there is, when nothing changes under it.
ReadSoFar ==
    /\ check.step # "idle" => check.fits = Fits(window, clock)
    /\ check.step \in {"day", "hour", "minute"} => check.got.mode = window.mode
    /\ check.step \in {"hour", "minute"} => check.got.day = window.day
    /\ check.step = "minute" => check.got.hour = window.hour
    /\ check.step = "test" => check.got = window
    /\ check.step \in {"begin", "take", "asked", "ask", "file"} => check.got = DefaultWindow
    /\ check.step \in {"now_day", "now_hour", "now_minute", "compare"} =>
         check.got = Effective(window) /\ check.got.mode = "auto"
    /\ check.step \in {"now_hour", "now_minute", "compare"} => check.now.day = clock.day
    /\ check.step \in {"now_minute", "compare"} => check.now.hour = clock.hour
    /\ check.step = "compare" => check.now = clock
    /\ check.step \in {"say", "reboot"} /\ check.why = "window" => check.fits

\* The window file stays once it is there.
WindowThere == check.step \in Fields \cup {"test"} => window # None

IInv == TypeOK /\ Accounted /\ Needed /\ WindowThere
===============================================================================

-------------------------- MODULE HostActions_proofs --------------------------
(***************************************************************************)
(* Theorems about HostActions, for weeks, days and hours of any length,    *)
(* any windows and any number of requests, boots and power cuts: a request *)
(* reboots the VM at most once, a VM reboots only while its OS asks for    *)
(* it, and, unless time or window change during a check, only in its       *)
(* window.                                                                 *)
(***************************************************************************)
EXTENDS HostActions, TLAPS

\* A process that has read nothing is of its type, at its first step too.
LEMMA NoCheckType == NoCheck \in CheckType /\ \A w \in WindowType \cup {None} :
    [NoCheck EXCEPT !.step = "begin", !.fits = Fits(w, clock)] \in CheckType
<1>1. Midnight \in Clocks
  BY TimeAssumption DEF Midnight, Clocks
<1>2. DefaultWindow \in WindowType
  BY TimeAssumption DEF DefaultWindow, WindowType, EveryDay
<1> DEFINE b(w) == Fits(w, clock)
<1>3. \A w : b(w) \in BOOLEAN
  BY DEF Fits, InWindow
<1> HIDE DEF b
<1>4. \A w : [NoCheck EXCEPT !.step = "begin", !.fits = b(w)] \in CheckType
  BY <1>1, <1>2, <1>3 DEF NoCheck, CheckType, CheckSteps
<1> QED
  BY <1>1, <1>2, <1>4 DEF NoCheck, CheckType, CheckSteps, b

\* A window in the folder is one an answer can carry.
LEMMA WindowTyped == GoodWindows \subseteq WindowType
  BY TimeAssumption DEF GoodWindows, WindowType, EveryDay

\* The minutes the check allows are minutes since the window's moment.
LEMMA WindowFits ==
  ASSUME NEW w \in WindowType \cup {None}, NEW c \in Clocks,
         Effective(w).mode = "auto", InWindow(Effective(w), c)
  PROVE  Fits(w, c)
<1> DEFINE e == Effective(w)
<1>1. e \in WindowType
  BY TimeAssumption DEF Effective, DefaultWindow, WindowType, EveryDay
<1>2. e.hour = c.hour /\ e.day \in {EveryDay, c.day}
  BY DEF InWindow
<1>3. e.minute <= c.minute /\ c.minute < e.minute + Slack
  BY DEF InWindow
<1>4. c.hour * MINUTES \in Int /\ c.minute \in Int /\ e.minute \in Int
  BY <1>1, TimeAssumption DEF Clocks, WindowType
<1> DEFINE h == c.hour * MINUTES
<1>5. OfDay(c) = h + c.minute /\ OfDay(e) = h + e.minute
  BY <1>2 DEF OfDay
<1> HIDE DEF h, e
<1>6. OfDay(c) - OfDay(e) \in 0..(Slack - 1)
  BY <1>3, <1>4, <1>5, TimeAssumption DEF h
<1> QED
  BY <1>2, <1>6 DEF Fits, e

\* What keeps track of the time stays of its type.
LEMMA TrackedType == ASSUME NEW c \in CheckType, NEW w, NEW t PROVE Tracked(c, w, t) \in CheckType
<1> DEFINE b == c.fits \/ (c.step # "idle" /\ Fits(w, t))
<1>1. b \in BOOLEAN
  OBVIOUS
<1>2. Tracked(c, w, t) = [c EXCEPT !.fits = b]
  BY DEF Tracked
<1> HIDE DEF b
<1> QED
  BY <1>1, <1>2 DEF CheckType

\* Reading a field of a window keeps the process of its type.
LEMMA FieldRead ==
  ASSUME NEW c \in CheckType, NEW w \in WindowType
  PROVE  /\ [c EXCEPT !.got.mode = w.mode, !.step = "day"] \in CheckType
         /\ [c EXCEPT !.got.day = w.day, !.step = "hour"] \in CheckType
         /\ [c EXCEPT !.got.hour = w.hour, !.step = "minute"] \in CheckType
         /\ [c EXCEPT !.got.minute = w.minute, !.step = "test"] \in CheckType
<1>1. [c.got EXCEPT !.mode = w.mode] \in WindowType
  BY DEF CheckType, WindowType
<1>1x. [c EXCEPT !.got.mode = w.mode, !.step = "day"] \in CheckType
  BY <1>1 DEF CheckType, CheckSteps, Fields
<1>2. [c.got EXCEPT !.day = w.day] \in WindowType
  BY DEF CheckType, WindowType
<1>2x. [c EXCEPT !.got.day = w.day, !.step = "hour"] \in CheckType
  BY <1>2 DEF CheckType, CheckSteps, Fields
<1>3. [c.got EXCEPT !.hour = w.hour] \in WindowType
  BY DEF CheckType, WindowType
<1>3x. [c EXCEPT !.got.hour = w.hour, !.step = "minute"] \in CheckType
  BY <1>3 DEF CheckType, CheckSteps, Fields
<1>4. [c.got EXCEPT !.minute = w.minute] \in WindowType
  BY DEF CheckType, WindowType
<1>4x. [c EXCEPT !.got.minute = w.minute, !.step = "test"] \in CheckType
  BY <1>4 DEF CheckType, CheckSteps, Fields
<1> QED
  BY <1>1x, <1>2x, <1>3x, <1>4x

\* Reading a part of the time keeps the process of its type.
LEMMA ClockRead ==
  ASSUME NEW c \in CheckType, NEW t \in Clocks
  PROVE  /\ [c EXCEPT !.now.day = t.day, !.step = "now_hour"] \in CheckType
         /\ [c EXCEPT !.now.hour = t.hour, !.step = "now_minute"] \in CheckType
         /\ [c EXCEPT !.now.minute = t.minute, !.step = "compare"] \in CheckType
<1>1. [c.now EXCEPT !.day = t.day] \in Clocks
  BY DEF CheckType, Clocks
<1>1x. [c EXCEPT !.now.day = t.day, !.step = "now_hour"] \in CheckType
  BY <1>1 DEF CheckType, CheckSteps, Fields
<1>2. [c.now EXCEPT !.hour = t.hour] \in Clocks
  BY DEF CheckType, Clocks
<1>2x. [c EXCEPT !.now.hour = t.hour, !.step = "now_minute"] \in CheckType
  BY <1>2 DEF CheckType, CheckSteps, Fields
<1>3. [c.now EXCEPT !.minute = t.minute] \in Clocks
  BY DEF CheckType, Clocks
<1>3x. [c EXCEPT !.now.minute = t.minute, !.step = "compare"] \in CheckType
  BY <1>3 DEF CheckType, CheckSteps, Fields
<1> QED
  BY <1>1x, <1>2x, <1>3x

\* The check's process.
LEMMA CheckTyped == ASSUME TypeOK, WindowThere, [Next]_vars PROVE check' \in CheckType
<1>a. check \in CheckType
  BY DEF TypeOK
<1>b. window \in WindowType \cup {None} /\ clock \in Clocks
  BY WindowTyped DEF TypeOK
<1>c. check.step \in Fields => window \in WindowType
  BY <1>b DEF WindowThere
<1>1. CASE \E w \in Windows \cup {None}, k \in Asked \cup {None} : HostFiles(w, k)
  BY <1>1, <1>a, TrackedType DEF HostFiles
<1>2. CASE TimerStartsCheck
  BY <1>2, <1>b, NoCheckType DEF TimerStartsCheck, Begin
<1>3. CASE PathStartsCheck
  BY <1>3, <1>b, NoCheckType DEF PathStartsCheck, Begin
<1>4. CASE LookForRequest
  BY <1>4, <1>a DEF LookForRequest, Go, CheckType, CheckSteps
<1>5. CASE TakeRequest
  BY <1>5, <1>a DEF TakeRequest, Go, CheckType, CheckSteps
<1>6. CASE AskOS
  BY <1>6, <1>a, NoCheckType DEF AskOS, Go, ExitCheck, CheckType, CheckSteps
<1>7. CASE LookForWindow
  BY <1>7, <1>a DEF LookForWindow, Go, CheckType, CheckSteps, Fields
<1>8. CASE ReadField
  BY <1>8, <1>a, <1>c, FieldRead DEF ReadField, Fields
<1>9. CASE TestFields
  BY <1>9, <1>a, NoCheckType DEF TestFields, Go, ExitCheck, CheckType, CheckSteps
<1>10. CASE ReadClock
  BY <1>10, <1>a, <1>b, ClockRead DEF ReadClock
<1>11. CASE Compare
  BY <1>11, <1>a, NoCheckType DEF Compare, Go, ExitCheck, CheckType, CheckSteps
<1>12. CASE TellResult
  BY <1>12, <1>a DEF TellResult, Result, Go, CheckType, CheckSteps
<1>13. CASE RebootVM
  BY <1>13, <1>a, NoCheckType DEF RebootVM, ExitCheck
<1>14. CASE ReportCheck
  BY <1>14, <1>a, NoCheckType DEF ReportCheck, ExitCheck
<1>15. CASE PathStartsPatch
  BY <1>15, <1>a DEF PathStartsPatch
<1>16. CASE LookForPatch
  BY <1>16, <1>a DEF LookForPatch
<1>17. CASE TakePatch
  BY <1>17, <1>a DEF TakePatch
<1>18. CASE Upgrade
  BY <1>18, <1>a DEF Upgrade
<1>19. CASE TellPatched
  BY <1>19, <1>a DEF TellPatched
<1>20. CASE ReportPatch
  BY <1>20, <1>a DEF ReportPatch
<1>21. CASE OSUpdated
  BY <1>21, <1>a DEF OSUpdated
<1>22. CASE MinutePasses
  BY <1>22, <1>a, TrackedType DEF MinutePasses
<1>23. CASE PowerCut
  BY <1>23, <1>b, NoCheckType DEF PowerCut
<1>24. CASE Boot
  BY <1>24, <1>b, NoCheckType DEF Boot
<1>25. CASE UNCHANGED vars
  BY <1>25, <1>a DEF vars
<1> QED
  BY <1>1, <1>2, <1>3, <1>4, <1>5, <1>6, <1>7, <1>8, <1>9, <1>10, <1>11, <1>12, <1>13, <1>14, <1>15, <1>16, <1>17, <1>18, <1>19, <1>20, <1>21, <1>22, <1>23, <1>24, <1>25 DEF Next, CheckStep, PatchStep

\* The patch's process.
LEMMA PatchTyped == ASSUME patch \in PatchType, [Next]_vars PROVE patch' \in PatchType
<1>1. CASE \E w \in Windows \cup {None}, k \in Asked \cup {None} : HostFiles(w, k)
  BY <1>1 DEF HostFiles
<1>2. CASE TimerStartsCheck
  BY <1>2 DEF TimerStartsCheck
<1>3. CASE PathStartsCheck
  BY <1>3 DEF PathStartsCheck
<1>4. CASE LookForRequest
  BY <1>4 DEF LookForRequest
<1>5. CASE TakeRequest
  BY <1>5 DEF TakeRequest
<1>6. CASE AskOS
  BY <1>6 DEF AskOS
<1>7. CASE LookForWindow
  BY <1>7 DEF LookForWindow
<1>8. CASE ReadField
  BY <1>8 DEF ReadField
<1>9. CASE TestFields
  BY <1>9 DEF TestFields
<1>10. CASE ReadClock
  BY <1>10 DEF ReadClock
<1>11. CASE Compare
  BY <1>11 DEF Compare
<1>12. CASE TellResult
  BY <1>12 DEF TellResult
<1>13. CASE RebootVM
  BY <1>13 DEF RebootVM
<1>14. CASE ReportCheck
  BY <1>14 DEF ReportCheck
<1>15. CASE PathStartsPatch
  BY <1>15 DEF PathStartsPatch, NoPatch, PatchType, PatchSteps
<1>16. CASE LookForPatch
  BY <1>16 DEF LookForPatch, NoPatch, PatchType, PatchSteps
<1>17. CASE TakePatch
  BY <1>17 DEF TakePatch, NoPatch, PatchType, PatchSteps
<1>18. CASE Upgrade
  BY <1>18 DEF Upgrade, NoPatch, PatchType, PatchSteps
<1>19. CASE TellPatched
  BY <1>19 DEF TellPatched, NoPatch, PatchType, PatchSteps
<1>20. CASE ReportPatch
  BY <1>20 DEF ReportPatch, NoPatch, PatchType, PatchSteps
<1>21. CASE OSUpdated
  BY <1>21 DEF OSUpdated
<1>22. CASE MinutePasses
  BY <1>22 DEF MinutePasses
<1>23. CASE PowerCut
  BY <1>23 DEF PowerCut, NoPatch, PatchType, PatchSteps
<1>24. CASE Boot
  BY <1>24 DEF Boot, NoPatch, PatchType, PatchSteps
<1>25. CASE UNCHANGED vars
  BY <1>25 DEF vars
<1> QED
  BY <1>1, <1>2, <1>3, <1>4, <1>5, <1>6, <1>7, <1>8, <1>9, <1>10, <1>11, <1>12, <1>13, <1>14, <1>15, <1>16, <1>17, <1>18, <1>19, <1>20, <1>21, <1>22, <1>23, <1>24, <1>25 DEF Next, CheckStep, PatchStep

\* The types other than the two processes'.
Rest ==
    /\ window \in GoodWindows \cup {None}
    /\ req \in [Kinds -> BOOLEAN]
    /\ result \in [Kinds -> ResultType \cup {None}]
    /\ clock \in Clocks
    /\ due \in 0..Period
    /\ need \in BOOLEAN
    /\ vm \in {"up", "going", "off"}
    /\ notice \in [Kinds -> BOOLEAN]
    /\ handed \in [Kinds -> Nat]
    /\ booted \in Nat
    /\ obeyed \in Nat
    /\ cuts \in Nat

\* Everything else.
LEMMA RestTyped == ASSUME patch \in PatchType, Rest, [Next]_vars PROVE Rest'
<1> USE TimeAssumption, BoundsAssumption, NoneAssumption DEF Rest
<1>1. CASE \E w \in Windows \cup {None}, k \in Asked \cup {None} : HostFiles(w, k)
  <2>1. PICK w \in Windows \cup {None}, k \in Asked \cup {None} : HostFiles(w, k)
    BY <1>1
  <2>2. window' \in GoodWindows \cup {None}
    BY <2>1 DEF HostFiles, Valid, WindowType, GoodWindows
  <2>3. req' \in [Kinds -> BOOLEAN] /\ handed' \in [Kinds -> Nat] /\ notice' \in [Kinds -> BOOLEAN]
    <3>1. CASE k = None
      BY <2>1, <3>1 DEF HostFiles
    <3>2. CASE k # None
      <4>1. k \in Kinds
        BY <3>2
      <4>2. req' = [req EXCEPT ![k] = TRUE] /\ handed' = [handed EXCEPT ![k] = handed[k] + 1]
        BY <2>1, <3>2 DEF HostFiles
      <4>3. \E seen \in BOOLEAN : notice' = [notice EXCEPT ![k] = seen]
        BY <2>1, <3>2 DEF HostFiles
      <4> QED
        BY <4>1, <4>2, <4>3
    <3> QED
      BY <3>1, <3>2
  <2> QED
    BY <2>1, <2>2, <2>3 DEF HostFiles, time
<1>2. CASE TimerStartsCheck
  BY <1>2 DEF TimerStartsCheck, files, time, argus, Kinds
<1>3. CASE PathStartsCheck
  BY <1>3 DEF PathStartsCheck, files, time, argus, Kinds
<1>4. CASE LookForRequest
  BY <1>4 DEF LookForRequest, files, time, argus, Kinds
<1>5. CASE TakeRequest
  BY <1>5 DEF TakeRequest, files, time, argus, Kinds
<1>6. CASE AskOS
  BY <1>6 DEF AskOS, files, time, argus, Kinds
<1>7. CASE LookForWindow
  BY <1>7 DEF LookForWindow, files, time, argus, Kinds
<1>8. CASE ReadField
  BY <1>8 DEF ReadField, files, time, argus, Kinds
<1>9. CASE TestFields
  BY <1>9 DEF TestFields, files, time, argus, Kinds
<1>10. CASE ReadClock
  BY <1>10 DEF ReadClock, files, time, argus, Kinds
<1>11. CASE Compare
  BY <1>11 DEF Compare, files, time, argus, Kinds
<1>12. CASE TellResult
  BY <1>12 DEF TellResult, Result, files, time, argus, Kinds, ResultType, PatchType
<1>13. CASE RebootVM
  BY <1>13 DEF RebootVM, files, time, argus, Kinds
<1>14. CASE ReportCheck
  BY <1>14 DEF ReportCheck, files, time, argus, Kinds
<1>15. CASE PathStartsPatch
  BY <1>15 DEF PathStartsPatch, files, time, argus, Kinds
<1>16. CASE LookForPatch
  BY <1>16 DEF LookForPatch, files, time, argus, Kinds
<1>17. CASE TakePatch
  BY <1>17 DEF TakePatch, files, time, argus, Kinds
<1>18. CASE Upgrade
  BY <1>18 DEF Upgrade, files, time, argus, Kinds
<1>19. CASE TellPatched
  BY <1>19 DEF TellPatched, files, time, argus, Kinds, ResultType, PatchType
<1>20. CASE ReportPatch
  BY <1>20 DEF ReportPatch, files, time, argus, Kinds
<1>21. CASE OSUpdated
  BY <1>21 DEF OSUpdated, files, time, argus, Kinds
<1>22. CASE MinutePasses
  BY <1>22 DEF MinutePasses, files, time, argus, Kinds, NextMinute, Clocks
<1>23. CASE PowerCut
  BY <1>23 DEF PowerCut, files, time, argus, Kinds
<1>24. CASE Boot
  BY <1>24 DEF Boot, files, time, argus, Kinds
<1>25. CASE UNCHANGED vars
  BY <1>25 DEF vars, files, time, argus, Kinds
<1> QED
  BY <1>1, <1>2, <1>3, <1>4, <1>5, <1>6, <1>7, <1>8, <1>9, <1>10, <1>11, <1>12, <1>13, <1>14, <1>15, <1>16, <1>17, <1>18, <1>19, <1>20, <1>21, <1>22, <1>23, <1>24, <1>25 DEF Next, CheckStep, PatchStep

\* The types.
LEMMA TypesKept == ASSUME TypeOK, WindowThere, [Next]_vars PROVE TypeOK'
<1>1. check' \in CheckType
  BY CheckTyped
<1>2. patch' \in PatchType
  BY PatchTyped DEF TypeOK
<1>3. Rest'
  BY RestTyped DEF TypeOK, Rest
<1> QED
  BY <1>1, <1>2, <1>3 DEF TypeOK, Rest

\* No request counts twice.
LEMMA AccountedKept == ASSUME TypeOK, Accounted, [Next]_vars PROVE Accounted'
<1> USE TimeAssumption, BoundsAssumption, NoneAssumption DEF TypeOK, files, time, argus, Kinds, CheckType, CheckSteps, Fields, Accounted, OnRequest, ForWindow, One
<1>1. CASE \E w \in Windows \cup {None}, k \in Asked \cup {None} : HostFiles(w, k)
  BY <1>1 DEF HostFiles, Tracked
<1>2. CASE TimerStartsCheck
  BY <1>2 DEF TimerStartsCheck, Begin, NoCheck
<1>3. CASE PathStartsCheck
  BY <1>3 DEF PathStartsCheck, Begin, NoCheck
<1>4. CASE LookForRequest
  <2>1. CASE req["reboot"]
    <3>1. check'.step = "take" /\ check'.why = "request"
      BY <1>4, <2>1 DEF LookForRequest
    <3> QED
      BY <1>4, <2>1, <3>1 DEF LookForRequest
  <2>2. CASE ~req["reboot"]
    <3>1. check'.step = "ask" /\ check'.why = check.why /\ check.step = "begin"
      BY <1>4, <2>2 DEF LookForRequest, Go
    <3> QED
      BY <1>4, <2>2, <3>1 DEF LookForRequest
  <2> QED
    BY <2>1, <2>2
<1>5. CASE TakeRequest
  BY <1>5 DEF TakeRequest, Go
<1>6. CASE AskOS
  BY <1>6 DEF AskOS, Go, ExitCheck, NoCheck
<1>7. CASE LookForWindow
  BY <1>7 DEF LookForWindow, Go
<1>8. CASE ReadField
  BY <1>8 DEF ReadField
<1>9. CASE TestFields
  BY <1>9 DEF TestFields, Go, ExitCheck, NoCheck
<1>10. CASE ReadClock
  <2>1. /\ check'.why = check.why
        /\ check.step \in {"now_day", "now_hour", "now_minute"}
        /\ check'.step \in {"now_hour", "now_minute", "compare"}
    BY <1>10 DEF ReadClock
  <2> QED
    BY <1>10, <2>1 DEF ReadClock
<1>11. CASE Compare
  BY <1>11 DEF Compare, Go, ExitCheck, NoCheck
<1>12. CASE TellResult
  BY <1>12 DEF TellResult, Result, Go
<1>13. CASE RebootVM
  BY <1>13 DEF RebootVM, ExitCheck, NoCheck
<1>14. CASE ReportCheck
  BY <1>14 DEF ReportCheck, ExitCheck, NoCheck
<1>15. CASE PathStartsPatch
  BY <1>15 DEF PathStartsPatch
<1>16. CASE LookForPatch
  BY <1>16 DEF LookForPatch
<1>17. CASE TakePatch
  BY <1>17 DEF TakePatch
<1>18. CASE Upgrade
  BY <1>18 DEF Upgrade
<1>19. CASE TellPatched
  BY <1>19 DEF TellPatched
<1>20. CASE ReportPatch
  BY <1>20 DEF ReportPatch
<1>21. CASE OSUpdated
  BY <1>21 DEF OSUpdated
<1>22. CASE MinutePasses
  BY <1>22 DEF MinutePasses, Tracked
<1>23. CASE PowerCut
  BY <1>23 DEF PowerCut, NoCheck
<1>24. CASE Boot
  BY <1>24 DEF Boot, NoCheck
<1>25. CASE UNCHANGED vars
  BY <1>25 DEF vars
<1> QED
  BY <1>1, <1>2, <1>3, <1>4, <1>5, <1>6, <1>7, <1>8, <1>9, <1>10, <1>11, <1>12, <1>13, <1>14, <1>15, <1>16, <1>17, <1>18, <1>19, <1>20, <1>21, <1>22, <1>23, <1>24, <1>25 DEF Next, CheckStep, PatchStep

\* A check goes on to a reboot only after the OS asked for it.
LEMMA NeededKept == ASSUME TypeOK, Needed, [Next]_vars PROVE Needed'
<1> USE TimeAssumption, BoundsAssumption, NoneAssumption DEF TypeOK, files, time, argus, Kinds, CheckType, CheckSteps, Fields, Needed, ForWindow
<1>1. CASE \E w \in Windows \cup {None}, k \in Asked \cup {None} : HostFiles(w, k)
  BY <1>1 DEF HostFiles, Tracked
<1>2. CASE TimerStartsCheck
  BY <1>2 DEF TimerStartsCheck, Begin, NoCheck
<1>3. CASE PathStartsCheck
  BY <1>3 DEF PathStartsCheck, Begin, NoCheck
<1>4. CASE LookForRequest
  BY <1>4 DEF LookForRequest, Go
<1>5. CASE TakeRequest
  BY <1>5 DEF TakeRequest, Go
<1>6. CASE AskOS
  BY <1>6 DEF AskOS, Go, ExitCheck, NoCheck
<1>7. CASE LookForWindow
  BY <1>7 DEF LookForWindow, Go
<1>8. CASE ReadField
  BY <1>8 DEF ReadField
<1>9. CASE TestFields
  BY <1>9 DEF TestFields, Go, ExitCheck, NoCheck
<1>10. CASE ReadClock
  BY <1>10 DEF ReadClock
<1>11. CASE Compare
  BY <1>11 DEF Compare, Go, ExitCheck, NoCheck
<1>12. CASE TellResult
  BY <1>12 DEF TellResult, Result, Go
<1>13. CASE RebootVM
  BY <1>13 DEF RebootVM, ExitCheck, NoCheck
<1>14. CASE ReportCheck
  BY <1>14 DEF ReportCheck, ExitCheck, NoCheck
<1>15. CASE PathStartsPatch
  BY <1>15 DEF PathStartsPatch
<1>16. CASE LookForPatch
  BY <1>16 DEF LookForPatch
<1>17. CASE TakePatch
  BY <1>17 DEF TakePatch
<1>18. CASE Upgrade
  <2>1. need => need'
    BY <1>18 DEF Upgrade
  <2>2. check' = check
    BY <1>18 DEF Upgrade
  <2> QED
    BY <2>1, <2>2
<1>19. CASE TellPatched
  BY <1>19 DEF TellPatched
<1>20. CASE ReportPatch
  BY <1>20 DEF ReportPatch
<1>21. CASE OSUpdated
  BY <1>21 DEF OSUpdated
<1>22. CASE MinutePasses
  BY <1>22 DEF MinutePasses, Tracked
<1>23. CASE PowerCut
  BY <1>23 DEF PowerCut, NoCheck
<1>24. CASE Boot
  BY <1>24 DEF Boot, NoCheck
<1>25. CASE UNCHANGED vars
  BY <1>25 DEF vars
<1> QED
  BY <1>1, <1>2, <1>3, <1>4, <1>5, <1>6, <1>7, <1>8, <1>9, <1>10, <1>11, <1>12, <1>13, <1>14, <1>15, <1>16, <1>17, <1>18, <1>19, <1>20, <1>21, <1>22, <1>23, <1>24, <1>25 DEF Next, CheckStep, PatchStep

\* A window file is never removed.
LEMMA WindowKept == ASSUME TypeOK, WindowThere, [Next]_vars PROVE WindowThere'
<1> USE TimeAssumption, BoundsAssumption, NoneAssumption DEF TypeOK, files, time, argus, Kinds, CheckType, CheckSteps, Fields, WindowThere
<1>1. CASE \E w \in Windows \cup {None}, k \in Asked \cup {None} : HostFiles(w, k)
  BY <1>1 DEF HostFiles, Tracked
<1>2. CASE TimerStartsCheck
  BY <1>2 DEF TimerStartsCheck, Begin, NoCheck
<1>3. CASE PathStartsCheck
  BY <1>3 DEF PathStartsCheck, Begin, NoCheck
<1>4. CASE LookForRequest
  BY <1>4 DEF LookForRequest, Go
<1>5. CASE TakeRequest
  BY <1>5 DEF TakeRequest, Go
<1>6. CASE AskOS
  BY <1>6 DEF AskOS, Go, ExitCheck, NoCheck
<1>7. CASE LookForWindow
  BY <1>7 DEF LookForWindow, Go
<1>8. CASE ReadField
  BY <1>8 DEF ReadField
<1>9. CASE TestFields
  BY <1>9 DEF TestFields, Go, ExitCheck, NoCheck
<1>10. CASE ReadClock
  BY <1>10 DEF ReadClock
<1>11. CASE Compare
  BY <1>11 DEF Compare, Go, ExitCheck, NoCheck
<1>12. CASE TellResult
  BY <1>12 DEF TellResult, Result, Go
<1>13. CASE RebootVM
  BY <1>13 DEF RebootVM, ExitCheck, NoCheck
<1>14. CASE ReportCheck
  BY <1>14 DEF ReportCheck, ExitCheck, NoCheck
<1>15. CASE PathStartsPatch
  BY <1>15 DEF PathStartsPatch
<1>16. CASE LookForPatch
  BY <1>16 DEF LookForPatch
<1>17. CASE TakePatch
  BY <1>17 DEF TakePatch
<1>18. CASE Upgrade
  BY <1>18 DEF Upgrade
<1>19. CASE TellPatched
  BY <1>19 DEF TellPatched
<1>20. CASE ReportPatch
  BY <1>20 DEF ReportPatch
<1>21. CASE OSUpdated
  BY <1>21 DEF OSUpdated
<1>22. CASE MinutePasses
  BY <1>22 DEF MinutePasses, Tracked
<1>23. CASE PowerCut
  BY <1>23 DEF PowerCut, NoCheck
<1>24. CASE Boot
  BY <1>24 DEF Boot, NoCheck
<1>25. CASE UNCHANGED vars
  BY <1>25 DEF vars
<1> QED
  BY <1>1, <1>2, <1>3, <1>4, <1>5, <1>6, <1>7, <1>8, <1>9, <1>10, <1>11, <1>12, <1>13, <1>14, <1>15, <1>16, <1>17, <1>18, <1>19, <1>20, <1>21, <1>22, <1>23, <1>24, <1>25 DEF Next, CheckStep, PatchStep

\* Nothing the check reads changes under it.
LEMMA ReadKept ==
  ASSUME ~SlowCheck, TypeOK, WindowThere, Accounted, ReadSoFar, [Next]_vars
  PROVE  ReadSoFar'
<1>t. check \in CheckType /\ clock \in Clocks /\ window \in WindowType \cup {None}
  BY WindowTyped DEF TypeOK
<1>r. ReadSoFar
  OBVIOUS
<1>u. ASSUME check' = NoCheck PROVE ReadSoFar'
  BY <1>u DEF ReadSoFar, NoCheck, Fields
<1>v. ASSUME window' = window, clock' = clock, check' = check PROVE ReadSoFar'
  BY <1>v, <1>r DEF ReadSoFar
<1>1. CASE \E w \in Windows \cup {None}, k \in Asked \cup {None} : HostFiles(w, k)
  <2>1. clock' = clock /\ (check.step # "idle" => window' = window)
    BY <1>1 DEF HostFiles, time
  <2>2. check'.step = check.step /\ check'.got = check.got /\ check'.why = check.why
    BY <1>1, <1>t DEF HostFiles, Tracked, CheckType
  <2>3. check'.now = check.now /\ (check.step # "idle" => check'.fits = (check.fits \/ Fits(window, clock)))
    BY <1>1, <1>t, <2>1 DEF HostFiles, Tracked, CheckType
  <2>4. CASE check.step = "idle"
    BY <2>2, <2>4 DEF ReadSoFar, Fields
  <2>5. CASE check.step # "idle"
    BY <2>1, <2>2, <2>3, <2>5, <1>r DEF ReadSoFar, Fits
  <2> QED
    BY <2>4, <2>5
<1>2. CASE TimerStartsCheck \/ PathStartsCheck
  <2>1. check' = Begin /\ window' = window /\ clock' = clock
    BY <1>2 DEF TimerStartsCheck, PathStartsCheck, files
  <2>2. check'.step = "begin" /\ check'.got = DefaultWindow /\ check'.fits = Fits(window, clock)
    BY <2>1 DEF Begin, NoCheck
  <2> QED
    BY <2>1, <2>2 DEF ReadSoFar, Fields
<1>3. CASE LookForRequest \/ TakeRequest \/ AskOS
  <2>1. CASE check' = NoCheck
    BY <2>1, <1>u
  <2>2. CASE check' # NoCheck
    <3>1. /\ window' = window /\ clock' = clock /\ check'.got = check.got /\ check'.fits = check.fits
          /\ check.step \in {"begin", "take", "asked", "ask"}
      BY <1>3, <2>2, <1>t DEF LookForRequest, TakeRequest, AskOS, Go, ExitCheck, files, time, CheckType
    <3>2. /\ check'.step \in {"take", "asked", "ask", "file", "say", "done"}
          /\ check'.step = "say" => check.step = "asked" /\ check'.why = check.why
      BY <1>3, <2>2, <1>t DEF LookForRequest, TakeRequest, AskOS, Go, ExitCheck, CheckType
    <3>3. check.step = "asked" => check.why = "request"
      BY DEF Accounted, OnRequest
    <3> QED
      BY <3>1, <3>2, <3>3, <1>r DEF ReadSoFar, Fields
  <2> QED
    BY <2>1, <2>2
<1>4. CASE LookForWindow
  <2>1. /\ window' = window /\ clock' = clock /\ check'.got = check.got /\ check'.fits = check.fits
        /\ check.step = "file"
        /\ check'.step = "mode" \/ (check'.step = "now_day" /\ window = None)
    BY <1>4, <1>t DEF LookForWindow, Go, files, time, CheckType
  <2> QED
    BY <2>1, <1>r DEF ReadSoFar, Effective, DefaultWindow, Fields
<1>5. CASE ReadField
  <2>1. window' = window /\ clock' = clock /\ window \in WindowType
    BY <1>5, <1>t DEF ReadField, files, time, WindowThere, Fields
  <2>2. CASE check.step = "mode"
    <3>1. check' = [check EXCEPT !.got.mode = window.mode, !.step = "day"]
      BY <1>5, <2>2 DEF ReadField
    <3>2. check'.step = "day" /\ check'.fits = check.fits /\ check'.got.mode = window.mode
      BY <3>1, <1>t DEF CheckType, WindowType
    <3> QED
      BY <2>1, <2>2, <3>2, <1>r DEF ReadSoFar, Fields
  <2>3. CASE check.step = "day"
    <3>1. check' = [check EXCEPT !.got.day = window.day, !.step = "hour"]
      BY <1>5, <2>3 DEF ReadField
    <3>2. /\ check'.step = "hour" /\ check'.fits = check.fits
          /\ check'.got.day = window.day /\ check'.got.mode = check.got.mode
      BY <3>1, <1>t DEF CheckType, WindowType
    <3> QED
      BY <2>1, <2>3, <3>2, <1>r DEF ReadSoFar, Fields
  <2>4. CASE check.step = "hour"
    <3>1. check' = [check EXCEPT !.got.hour = window.hour, !.step = "minute"]
      BY <1>5, <2>4 DEF ReadField
    <3>2. /\ check'.step = "minute" /\ check'.fits = check.fits /\ check'.got.hour = window.hour
          /\ check'.got.mode = check.got.mode /\ check'.got.day = check.got.day
      BY <3>1, <1>t DEF CheckType, WindowType
    <3> QED
      BY <2>1, <2>4, <3>2, <1>r DEF ReadSoFar, Fields
  <2>5. CASE check.step = "minute"
    <3>1. check' = [check EXCEPT !.got.minute = window.minute, !.step = "test"]
      BY <1>5, <2>5 DEF ReadField
    <3>2. /\ check'.step = "test" /\ check'.fits = check.fits
          /\ check'.got = [check.got EXCEPT !.minute = window.minute]
      BY <3>1, <1>t DEF CheckType
    <3>3. check.got.mode = window.mode /\ check.got.day = window.day /\ check.got.hour = window.hour
      BY <2>5, <1>r DEF ReadSoFar
    <3>4. check'.got = window
      BY <2>1, <3>2, <3>3, <1>t DEF WindowType, CheckType
    <3> QED
      BY <2>1, <2>5, <3>2, <3>4, <1>r DEF ReadSoFar, Fields
  <2> QED
    BY <1>5, <2>2, <2>3, <2>4, <2>5 DEF ReadField
<1>6. CASE TestFields
  <2>1. CASE check' = NoCheck
    BY <2>1, <1>u
  <2>2. CASE check' # NoCheck
    <3>1. /\ window' = window /\ clock' = clock /\ check'.got = check.got /\ check'.fits = check.fits
          /\ check.step = "test" /\ check'.step = "now_day" /\ check.got.mode = "auto"
      BY <1>6, <2>2, <1>t DEF TestFields, Go, ExitCheck, files, time, CheckType
    <3>2. check.got = window /\ window # None
      BY <3>1, <1>r DEF ReadSoFar, WindowThere
    <3> QED
      BY <3>1, <3>2, <1>r DEF ReadSoFar, Effective, Fields
  <2> QED
    BY <2>1, <2>2
<1>7. CASE ReadClock
  <2>1. window' = window /\ clock' = clock
    BY <1>7 DEF ReadClock, files, time
  <2>2. CASE check.step = "now_day"
    <3>1. check' = [check EXCEPT !.now.day = clock.day, !.step = "now_hour"]
      BY <1>7, <2>2 DEF ReadClock
    <3>2. /\ check'.step = "now_hour" /\ check'.now.day = clock.day
          /\ check'.fits = check.fits /\ check'.got = check.got
      BY <3>1, <1>t DEF CheckType, Clocks
    <3> QED
      BY <2>1, <2>2, <3>2, <1>r DEF ReadSoFar, Fields, Effective
  <2>3. CASE check.step = "now_hour"
    <3>1. check' = [check EXCEPT !.now.hour = clock.hour, !.step = "now_minute"]
      BY <1>7, <2>3 DEF ReadClock
    <3>2. /\ check'.step = "now_minute" /\ check'.now.hour = clock.hour
          /\ check'.now.day = check.now.day /\ check'.fits = check.fits /\ check'.got = check.got
      BY <3>1, <1>t DEF CheckType, Clocks
    <3> QED
      BY <2>1, <2>3, <3>2, <1>r DEF ReadSoFar, Fields, Effective
  <2>4. CASE check.step = "now_minute"
    <3>1. check' = [check EXCEPT !.now.minute = clock.minute, !.step = "compare"]
      BY <1>7, <2>4 DEF ReadClock
    <3>2. /\ check'.step = "compare" /\ check'.now = [check.now EXCEPT !.minute = clock.minute]
          /\ check'.fits = check.fits /\ check'.got = check.got
      BY <3>1, <1>t DEF CheckType
    <3>3. check.now.day = clock.day /\ check.now.hour = clock.hour
      BY <2>4, <1>r DEF ReadSoFar
    <3>4. check'.now = clock
      BY <3>2, <3>3, <1>t DEF Clocks, CheckType
    <3> QED
      BY <2>1, <2>4, <3>2, <3>4, <1>r DEF ReadSoFar, Fields, Effective
  <2> QED
    BY <1>7, <2>2, <2>3, <2>4 DEF ReadClock
<1>8. CASE Compare
  <2>1. CASE check' = NoCheck
    BY <2>1, <1>u
  <2>2. CASE check' # NoCheck
    <3>1. /\ window' = window /\ clock' = clock /\ check.step = "compare" /\ check'.step = "say"
          /\ check'.fits = check.fits /\ InWindow(check.got, check.now)
      BY <1>8, <2>2, <1>t DEF Compare, Go, ExitCheck, files, time, CheckType
    <3>2. check.fits
      BY <3>1, <1>r, <1>t, WindowFits DEF ReadSoFar
    <3> QED
      BY <3>1, <3>2, <1>r DEF ReadSoFar, Fields
  <2> QED
    BY <2>1, <2>2
<1>9. CASE TellResult
  <2>1. /\ window' = window /\ clock' = clock /\ check'.fits = check.fits /\ check'.why = check.why
        /\ check.step \in {"say", "done"} /\ check'.step \in {"reboot", "report"}
        /\ check'.step = "reboot" => check.step = "say"
    BY <1>9, <1>t DEF TellResult, Go, time, CheckType
  <2> QED
    BY <2>1, <1>r DEF ReadSoFar, Fields
<1>10. CASE MinutePasses
  <2>1. check.step = "idle"
    BY <1>10 DEF MinutePasses
  <2>2. check'.step = "idle"
    BY <1>10, <1>t, <2>1 DEF MinutePasses, Tracked, CheckType
  <2> QED
    BY <2>2 DEF ReadSoFar, Fields
<1>11. CASE RebootVM \/ ReportCheck \/ PowerCut \/ Boot
  BY <1>11, <1>u DEF RebootVM, ReportCheck, PowerCut, Boot, ExitCheck
<1>12. CASE PathStartsPatch \/ PatchStep \/ OSUpdated \/ UNCHANGED vars
  BY <1>12, <1>v DEF PathStartsPatch, PatchStep, LookForPatch, TakePatch, Upgrade, TellPatched,
                     ReportPatch, OSUpdated, vars, files, time
<1> QED
  BY <1>1, <1>2, <1>3, <1>4, <1>5, <1>6, <1>7, <1>8, <1>9, <1>10, <1>11, <1>12 DEF Next, CheckStep

\* IInv is inductive: the types, a request for every reboot on request, the OS
\* asked before every reboot.
THEOREM ActionsInductive == Spec => []IInv
<1>1. Init => IInv
  BY TimeAssumption DEF Init, IInv, TypeOK, Accounted, Needed, WindowThere, One, NoCheck, NoPatch,
     CheckType, CheckSteps, PatchType, PatchSteps, Kinds, Fields, Clocks, Midnight, WindowType,
     DefaultWindow, EveryDay, OnRequest, ForWindow
<1>2. IInv /\ [Next]_vars => IInv'
  BY TypesKept, AccountedKept, NeededKept, WindowKept DEF IInv
<1> QED
  BY <1>1, <1>2, PTL DEF Spec

\* A request reboots the VM at most once, whatever power cuts come between its
\* removal, its result and the reboot, and however often the OS goes on asking.
THEOREM RequestsRebootOnce == Spec => []AskedOnce
<1>1. IInv => AskedOnce
  BY DEF IInv, TypeOK, Accounted, AskedOnce, One, Kinds
<1> QED
  BY <1>1, ActionsInductive, PTL

\* At the reboot the OS still asks for it.
THEOREM RebootsAreNeeded == Spec => []OnlyWhenNeeded
<1>1. IInv => OnlyWhenNeeded
  BY DEF IInv, Needed, OnlyWhenNeeded
<1> QED
  BY <1>1, ActionsInductive, PTL

\* A reboot without a request is in the window, for every week, window and
\* timer, if neither the window nor the time changes while the check reads them.
THEOREM RebootsInWindow == ASSUME ~SlowCheck PROVE Spec => []RebootInWindow
<1>1. Init => ReadSoFar
  BY DEF Init, ReadSoFar, NoCheck, Fields
<1>2. IInv /\ ReadSoFar /\ [Next]_vars => ReadSoFar'
  BY ReadKept DEF IInv
<1>3. ReadSoFar => RebootInWindow
  BY DEF ReadSoFar, RebootInWindow
<1> QED
  BY <1>1, <1>2, <1>3, ActionsInductive, PTL DEF Spec
===============================================================================

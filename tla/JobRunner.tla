------------------------------ MODULE JobRunner -------------------------------
(***************************************************************************)
(* One-shot jobs (a network scan, a UniFi sweep, a diagnostic) that Argus  *)
(* hands the probe in a check-in's answer (probe-image/entrypoint.sh).     *)
(* The check-in loop starts each in a background process; a lock file per  *)
(* kind keeps the runs of a kind apart, and a lock that has grown old is   *)
(* taken for a crashed run's.  Lock and job files are on the data volume:  *)
(* a stop of the container kills the processes and leaves the files.       *)
(*                                                                         *)
(* Time is in whole minutes, as `find -mmin' counts: a lock's and a run's  *)
(* age, a lock's no further than it takes to be old.                       *)
(***************************************************************************)
EXTENDS Naturals, FiniteSets

CONSTANTS
    Jobs,        \* jobs, told apart by their id
    Asked,       \* bound: the kinds Argus has jobs of
    Pids,        \* bound: background processes at a time
    StaleAfter,  \* by kind: find -mmin +StaleAfter finds the lock
    MaxRun,      \* by kind: no run takes longer than this
    DiskFull,    \* TRUE: a write to the data volume may fail
    MaxStops,    \* bound: stops of the container in one behaviour
    None         \* no file, no job, no process

Kinds == {"scan", "sweep", "diag"}

ASSUME BoundsAssumption ==
    /\ Asked \subseteq Kinds /\ DiskFull \in BOOLEAN /\ MaxStops \in Nat
    /\ StaleAfter \in [Kinds -> Nat] /\ MaxRun \in [Kinds -> Nat]

VARIABLES
    lock,        \* by kind: the lock file's age
    jobfile,     \* by kind: the job in the job file
    loop,        \* where the check-in loop is; "off" when the container is
    kind,        \* the kind of job it looks at
    resp,        \* by kind: the job in the last answer
    runs,        \* by process: the run it does
    stops        \* how often the container was stopped

vars == <<lock, jobfile, loop, kind, resp, runs, stops>>

RunSteps == {"read", "work", "rm_lock", "rm_job"}
\* What a background process was started for and the job it has read.
Run == [kind : Kinds, job : Jobs, got : Jobs \cup {None}, age : Nat, step : RunSteps]

ASSUME NoneAssumption == None \notin Jobs /\ None \notin Nat /\ None \notin Run

TypeOK ==
    /\ lock \in [Kinds -> Nat \cup {None}]
    /\ \A k \in Kinds : lock[k] # None => lock[k] <= StaleAfter[k] + 1
    /\ jobfile \in [Kinds -> Jobs \cup {None}]
    /\ loop \in {"off", "rest", "clear", "touch", "write", "fork", "ended"}
    /\ kind \in Kinds
    /\ resp \in [Kinds -> Jobs \cup {None}]
    /\ runs \in [Pids -> Run \cup {None}]
    /\ stops \in Nat

Init ==
    /\ lock = [k \in Kinds |-> None] /\ jobfile = [k \in Kinds |-> None]
    /\ loop = "off" /\ kind = "scan" /\ resp = [k \in Kinds |-> None]
    /\ runs = [p \in Pids |-> None]
    /\ stops = 0

-------------------------------------------------------------------------------
(* The check-in loop                                                       *)

StartContainer ==
    /\ loop = "off"
    /\ loop' = "rest"
    /\ UNCHANGED <<lock, jobfile, kind, resp, runs, stops>>

\* The answer may carry one job of each kind; a failed check-in carries none.
CheckIn ==
    /\ loop = "rest"
    /\ \E answer \in [Asked -> Jobs \cup {None}] :
          resp' = [k \in Kinds |-> IF k \in Asked THEN answer[k] ELSE None]
    /\ loop' = "clear" /\ kind' = "scan"
    /\ UNCHANGED <<lock, jobfile, runs, stops>>

\* On to the next kind: scan, sweep, diag, then the sleep.
GoOn ==
    \/ kind = "scan" /\ kind' = "sweep" /\ loop' = "clear"
    \/ kind = "sweep" /\ kind' = "diag" /\ loop' = "clear"
    \/ kind = "diag" /\ kind' = kind /\ loop' = "rest"

\* A minute too soon.
Stale_TooSoon(k) == lock[k] # None /\ lock[k] >= StaleAfter[k]
\* Looks for a lock of another age format and never finds one.
Stale_Never(k) == FALSE
\* find "$LOCK" -mmin +StaleAfter
Stale(k) == lock[k] # None /\ lock[k] > StaleAfter[k]

ClearStaleLock ==
    /\ loop = "clear"
    /\ IF resp[kind] = None
         THEN GoOn /\ UNCHANGED lock
         ELSE /\ lock' = IF Stale(kind) THEN [lock EXCEPT ![kind] = None] ELSE lock
              /\ loop' = "touch" /\ UNCHANGED kind
    /\ UNCHANGED <<jobfile, resp, runs, stops>>

\* Doesn't look whether there is a lock.
TakeLock_Always ==
    /\ loop = "touch"
    /\ lock' = [lock EXCEPT ![kind] = 0]
    /\ loop' = "write"
    /\ UNCHANGED <<jobfile, kind, resp, runs, stops>>

\* A job that finds a lock is dropped.  `set -e' ends the loop when the write
\* fails, and nothing starts it again while the container runs.
TakeLock ==
    /\ loop = "touch"
    /\ \/ lock[kind] # None /\ GoOn /\ UNCHANGED lock
       \/ /\ lock[kind] = None
          /\ lock' = [lock EXCEPT ![kind] = 0]
          /\ loop' = "write" /\ UNCHANGED kind
       \/ lock[kind] = None /\ DiskFull /\ loop' = "ended" /\ UNCHANGED <<lock, kind>>
    /\ UNCHANGED <<jobfile, resp, runs, stops>>

WriteJob ==
    /\ loop = "write"
    /\ \/ jobfile' = [jobfile EXCEPT ![kind] = resp[kind]] /\ loop' = "fork"
       \/ DiskFull /\ jobfile' = [jobfile EXCEPT ![kind] = None] /\ loop' = "ended"
    /\ UNCHANGED <<lock, kind, resp, runs, stops>>

StartRun ==
    /\ loop = "fork"
    /\ \E p \in Pids :
          /\ runs[p] = None
          /\ runs' = [runs EXCEPT ![p] = [kind |-> kind, job |-> resp[kind], got |-> None,
                                          age |-> 0, step |-> "read"]]
    /\ GoOn
    /\ UNCHANGED <<lock, jobfile, resp, stops>>

LoopStep == CheckIn \/ ClearStaleLock \/ TakeLock \/ WriteJob \/ StartRun

-------------------------------------------------------------------------------
(* A background process                                                    *)

\* The script loads the job file; without one it fails, and `|| true' goes on.
ReadJob(p) ==
    /\ runs[p] # None /\ runs[p].step = "read"
    /\ LET found == jobfile[runs[p].kind] IN
       runs' = [runs EXCEPT ![p].got = found,
                            ![p].step = IF found = None THEN "rm_lock" ELSE "work"]
    /\ UNCHANGED <<lock, jobfile, loop, kind, resp, stops>>

\* The results are posted, or the script fails.
Finish(p) ==
    /\ runs[p] # None /\ runs[p].step = "work"
    /\ runs' = [runs EXCEPT ![p].step = "rm_lock"]
    /\ UNCHANGED <<lock, jobfile, loop, kind, resp, stops>>

\* rm -f "$LOCK" "$JOBFILE": one after the other, whoever they belong to.
RemoveLock(p) ==
    /\ runs[p] # None /\ runs[p].step = "rm_lock"
    /\ lock' = [lock EXCEPT ![runs[p].kind] = None]
    /\ runs' = [runs EXCEPT ![p].step = "rm_job"]
    /\ UNCHANGED <<jobfile, loop, kind, resp, stops>>

RemoveJob(p) ==
    /\ runs[p] # None /\ runs[p].step = "rm_job"
    /\ jobfile' = [jobfile EXCEPT ![runs[p].kind] = None]
    /\ runs' = [runs EXCEPT ![p] = None]
    /\ UNCHANGED <<lock, loop, kind, resp, stops>>

RunStep(p) == ReadJob(p) \/ Finish(p) \/ RemoveLock(p) \/ RemoveJob(p)

-------------------------------------------------------------------------------
(* Outside                                                                 *)

\* The container stops, and with it every process in it.
Stop ==
    /\ loop # "off" /\ stops < MaxStops
    /\ stops' = stops + 1
    /\ loop' = "off"
    /\ runs' = [p \in Pids |-> None]
    /\ resp' = [k \in Kinds |-> None]
    /\ UNCHANGED <<lock, jobfile, kind>>

Older(k) == IF lock[k] > StaleAfter[k] THEN lock[k] ELSE lock[k] + 1

\* Between a touch and the run it is for no minute passes, and no run outlasts
\* MaxRun.
MinutePasses ==
    /\ loop \notin {"write", "fork"}
    /\ \A p \in Pids : runs[p] # None => runs[p].age < MaxRun[runs[p].kind]
    /\ lock' = [k \in Kinds |-> IF lock[k] = None THEN None ELSE Older(k)]
    /\ runs' = [p \in Pids |-> IF runs[p] = None THEN None
                               ELSE [runs[p] EXCEPT !.age = @ + 1]]
    /\ UNCHANGED <<jobfile, loop, kind, resp, stops>>

Next ==
    \/ StartContainer \/ LoopStep \/ Stop \/ MinutePasses
    \/ \E p \in Pids : RunStep(p)

Spec == Init /\ [][Next]_vars

\* The container, its loop and its background processes run on, and time passes.
Fairness ==
    /\ WF_vars(StartContainer) /\ WF_vars(LoopStep)
    /\ \A p \in Pids : WF_vars(RunStep(p))
    /\ SF_vars(MinutePasses)

FairSpec == Spec /\ Fairness

-------------------------------------------------------------------------------
(* Properties                                                              *)

\* The process is at its run: the script is about to start or works.
Busy(p) == runs[p] # None /\ runs[p].step \in {"read", "work"}

\* Runs of a kind are serial ("a lock file per kind keeps runs serial"): across
\* dropped jobs, old locks, and locks a stop left behind.
Serial == \A p, q \in Pids :
    Busy(p) /\ Busy(q) /\ runs[p].kind = runs[q].kind => p = q

\* A run works on the job that its own check-in handed out, never on one that a
\* later check-in wrote over it or an earlier one left.
OwnJob == \A p \in Pids : Busy(p) /\ runs[p].got # None => runs[p].got = runs[p].job

\* A kind of job that is handed out again and again is run again and again: no
\* lock stands in the way for ever, whatever run or stop left it behind.
JobsRun == \A k \in Asked :
    []<>(loop = "touch" /\ kind = k)
        => []<>(\E p \in Pids : runs[p] # None /\ runs[p].kind = k)

-------------------------------------------------------------------------------
(* Why runs are serial                                                     *)

\* Runs are short enough for a lock to outlive them.
ShortRuns == \A k \in Kinds : MaxRun[k] <= StaleAfter[k]

\* The lock on kind k is still someone's.
Held(p) == runs[p] # None /\ runs[p].step # "rm_job"

\* A run has its lock, as old as itself, and is alone with it; none of its kind
\* exists between the touch and the fork, when the job file is the loop's.
LockHeld ==
    /\ \A p \in Pids : Held(p) =>
         /\ lock[runs[p].kind] = runs[p].age
         /\ runs[p].age <= MaxRun[runs[p].kind]
         /\ loop \in {"write", "fork"} => runs[p].kind # kind
    /\ \A p, q \in Pids : Held(p) /\ Held(q) /\ runs[p].kind = runs[q].kind => p = q
    /\ loop \in {"write", "fork"} => lock[kind] = 0
    /\ loop \in {"touch", "write", "fork"} => resp[kind] # None

\* What the job file of a kind can hold.
FileIsOwn ==
    /\ \A p \in Pids : Busy(p) => jobfile[runs[p].kind] \in {None, runs[p].job}
    /\ \A p \in Pids : Busy(p) => runs[p].got \in {None, runs[p].job}
    /\ loop = "fork" => jobfile[kind] \in {None, resp[kind]}

IInv == TypeOK /\ LockHeld /\ FileIsOwn
===============================================================================

--------------------------- MODULE JobRunner_proofs ---------------------------
(***************************************************************************)
(* Theorems about JobRunner, for every number of processes and jobs and    *)
(* every limit: while no run outlasts the age at which its lock counts as  *)
(* old (ShortRuns), runs of a kind are serial and work on their own job.   *)
(***************************************************************************)
EXTENDS JobRunner, TLAPS

\* The types.
LEMMA TypesKept == ASSUME TypeOK, LockHeld, [Next]_vars PROVE TypeOK'
<1> USE BoundsAssumption, NoneAssumption DEF TypeOK, Kinds
<1>1. CASE StartContainer
  BY <1>1 DEF StartContainer
<1>2. CASE CheckIn
  BY <1>2 DEF CheckIn
<1>3. CASE ClearStaleLock
  BY <1>3 DEF ClearStaleLock, GoOn
<1>4. CASE TakeLock
  BY <1>4 DEF TakeLock, GoOn
<1>5. CASE WriteJob
  BY <1>5 DEF WriteJob
<1>6. CASE StartRun
  BY <1>6 DEF StartRun, GoOn, Run, RunSteps, LockHeld
<1>7. CASE Stop
  BY <1>7 DEF Stop
<1>8. CASE MinutePasses
  BY <1>8 DEF MinutePasses, Older, Run
<1>9. CASE \E p \in Pids : RunStep(p)
  BY <1>9 DEF RunStep, ReadJob, Finish, RemoveLock, RemoveJob, Run, RunSteps
<1>10. CASE UNCHANGED vars
  BY <1>10 DEF vars
<1>11. QED
  BY <1>1, <1>2, <1>3, <1>4, <1>5, <1>6, <1>7, <1>8, <1>9, <1>10 DEF Next, LoopStep

\* A run keeps its lock, and is alone with it.
LEMMA LockKept == ASSUME ShortRuns, TypeOK, LockHeld, [Next]_vars PROVE LockHeld'
<1> USE BoundsAssumption, NoneAssumption DEF TypeOK, LockHeld, Held, Kinds
<1>1. CASE StartContainer
  BY <1>1 DEF StartContainer
<1>2. CASE CheckIn
  BY <1>2 DEF CheckIn
<1>3. CASE ClearStaleLock
  BY <1>3 DEF ClearStaleLock, GoOn, Stale, ShortRuns, Run
<1>4. CASE TakeLock
  BY <1>4 DEF TakeLock, GoOn, Run
<1>5. CASE WriteJob
  BY <1>5 DEF WriteJob
<1>6. CASE StartRun
  BY <1>6 DEF StartRun, GoOn, Run, RunSteps, LockHeld
<1>7. CASE Stop
  BY <1>7 DEF Stop
<1>8. CASE MinutePasses
  BY <1>8 DEF MinutePasses, Older, Run, ShortRuns
<1>9. CASE \E p \in Pids : RunStep(p)
  BY <1>9 DEF RunStep, ReadJob, Finish, RemoveLock, RemoveJob, Run, RunSteps
<1>10. CASE UNCHANGED vars
  BY <1>10 DEF vars
<1>11. QED
  BY <1>1, <1>2, <1>3, <1>4, <1>5, <1>6, <1>7, <1>8, <1>9, <1>10 DEF Next, LoopStep

\* A busy run's job file is its own, or gone.
LEMMA FileKept == ASSUME TypeOK, LockHeld, FileIsOwn, [Next]_vars PROVE FileIsOwn'
<1> USE NoneAssumption DEF TypeOK, LockHeld, FileIsOwn, Busy, Held, Kinds
<1>1. CASE StartContainer
  BY <1>1 DEF StartContainer
<1>2. CASE CheckIn
  BY <1>2 DEF CheckIn
<1>3. CASE ClearStaleLock
  BY <1>3 DEF ClearStaleLock, GoOn
<1>4. CASE TakeLock
  BY <1>4 DEF TakeLock, GoOn
<1>5. CASE WriteJob
  BY <1>5 DEF WriteJob, Run
<1>6. CASE StartRun
  BY <1>6 DEF StartRun, GoOn, Run, RunSteps, LockHeld
<1>7. CASE Stop
  BY <1>7 DEF Stop
<1>8. CASE MinutePasses
  BY <1>8 DEF MinutePasses, Run
<1>9. CASE \E p \in Pids : RunStep(p)
  BY <1>9 DEF RunStep, ReadJob, Finish, RemoveLock, RemoveJob, Run, RunSteps
<1>10. CASE UNCHANGED vars
  BY <1>10 DEF vars
<1>11. QED
  BY <1>1, <1>2, <1>3, <1>4, <1>5, <1>6, <1>7, <1>8, <1>9, <1>10 DEF Next, LoopStep

\* IInv is an invariant as long as runs are short.
THEOREM RunsInductive == ShortRuns => (Spec => []IInv)
<1> SUFFICES ASSUME ShortRuns PROVE Spec => []IInv
  OBVIOUS
<1>1. Init => IInv
  BY BoundsAssumption, NoneAssumption
     DEF Init, IInv, TypeOK, LockHeld, FileIsOwn, Held, Busy, Kinds
<1>2. IInv /\ [Next]_vars => IInv'
  BY TypesKept, LockKept, FileKept DEF IInv
<1>3. QED BY <1>1, <1>2, PTL DEF Spec

\* "a lock file per kind keeps runs serial": it does, whatever is dropped,
\* stopped, started again or left behind.
THEOREM RunsAreSerial == ShortRuns => (Spec => []Serial)
<1> SUFFICES ASSUME ShortRuns PROVE Spec => []Serial
  OBVIOUS
<1>1. IInv => Serial
  BY DEF IInv, LockHeld, Serial, Busy, Held
<1>2. Spec => []IInv
  BY RunsInductive
<1>3. QED BY <1>1, <1>2, PTL

\* No run works on another run's job.
THEOREM JobsAreOwn == ShortRuns => (Spec => []OwnJob)
<1> SUFFICES ASSUME ShortRuns PROVE Spec => []OwnJob
  OBVIOUS
<1>1. IInv => OwnJob
  BY DEF IInv, FileIsOwn, OwnJob
<1>2. Spec => []IInv
  BY RunsInductive
<1>3. QED BY <1>1, <1>2, PTL
===============================================================================

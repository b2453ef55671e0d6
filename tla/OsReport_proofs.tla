--------------------------- MODULE OsReport_proofs ----------------------------
(***************************************************************************)
(* Theorems about OsReport: until another script runs the reporter,        *)
(* os-status.json is whole whatever fails and whenever the VM goes down.   *)
(***************************************************************************)
EXTENDS OsReport, TLAPS

\* Another file for a run to open.
LEMMA UnusedFile ==
  ASSUME TypeOK, OneWriter, At(Hourly, "open")
  PROVE  Unused \in Files /\ Unused \notin {temp, status}
<1>1. \A r \in Runs : run[r].file = None
  BY DEF OneWriter, At, Runs, Idle
<1>2. \E f \in Files : f \notin {temp, status}
  <2>1. CASE temp \in Files /\ status \in Files
    BY <2>1, FilesAssumption
  <2>2. CASE temp = None /\ status \in Files
    BY <2>2, FilesAssumption, SentinelAssumption
  <2>3. CASE temp \in Files /\ status = None
    BY <2>3, FilesAssumption, SentinelAssumption
  <2>4. CASE temp = None /\ status = None
    BY <2>4, FilesAssumption, SentinelAssumption
  <2> QED
    BY <2>1, <2>2, <2>3, <2>4 DEF TypeOK
<1>3. \E f \in Files : f \notin {temp, status} /\ \A r \in Runs : run[r].file # f
  BY <1>1, <1>2, SentinelAssumption
<1> QED
  BY <1>3 DEF Unused

\* A step of systemd's run keeps the types and the copy whole.
LEMMA StepKept ==
  ASSUME TypeOK, OneWriter, RunStep(Hourly) \/ Start(Hourly)
  PROVE  TypeOK' /\ OneWriter' /\ others' = others
<1> USE BoundsAssumption, SentinelAssumption
    DEF TypeOK, OneWriter, Whole, At, Runs, RunType, Steps, Idle
<1>1. CASE Start(Hourly)
  BY <1>1 DEF Start, Go
<1>2. CASE Look(Hourly)
  BY <1>2 DEF Look
<1>3. CASE OpenTemp(Hourly)
  BY <1>3, UnusedFile DEF OpenTemp
<1>4. CASE WriteTemp(Hourly)
  BY <1>4 DEF WriteTemp
<1>5. CASE WriteFails(Hourly)
  BY <1>5 DEF WriteFails
<1>6. CASE Chmod(Hourly)
  BY <1>6 DEF Chmod, Go
<1>7. CASE Replace(Hourly)
  BY <1>7 DEF Replace, Go
<1>8. CASE ReadToken(Hourly)
  BY <1>8 DEF ReadToken, Go
<1>9. CASE Posted(Hourly) \/ PostFailed(Hourly)
  BY <1>9 DEF Posted, PostFailed
<1> QED
  BY <1>1, <1>2, <1>3, <1>4, <1>5, <1>6, <1>7, <1>8, <1>9 DEF RunStep

\* Until another script runs the reporter, who reads os-status.json finds one
\* whole report, also after failed writes, reboots and power cuts.
THEOREM CopyIsWhole == Spec => []StatusWhole
<1>1. Init => IInv
  <2> SUFFICES ASSUME Init PROVE IInv
    OBVIOUS
  <2>1. Idle \in RunType
    BY DEF Idle, RunType, Steps
  <2>2. TypeOK
    BY <2>1 DEF Init, TypeOK
  <2>3. OneWriter
    BY DEF Init, OneWriter, Whole, At, Runs, Idle
  <2> QED
    BY <2>2, <2>3 DEF IInv, TypeOK
<1>2. IInv /\ [Next]_vars => IInv'
  <2> SUFFICES ASSUME IInv, [Next]_vars PROVE IInv'
    OBVIOUS
  <2>1. CASE others # 0
    <3>1. others' \in Nat /\ others' # 0
      <4>1. CASE \E r \in Runs : Start(r)
        BY <2>1, <4>1 DEF IInv, Start
      <4>2. CASE others' = others
        BY <2>1, <4>2 DEF IInv
      <4> QED
        BY <4>1, <4>2 DEF Next, RunStep, Look, OpenTemp, WriteTemp, WriteFails, Chmod, Replace,
             ReadToken, Posted, PostFailed, SomethingChanges, Enrolls, Reboot, vars
    <3> QED
      BY <3>1 DEF IInv
  <2>2. CASE others = 0
    <3> USE <2>2
    <3>1. TypeOK /\ OneWriter
      BY DEF IInv
    <3>2. CASE Start(Hourly) \/ RunStep(Hourly)
      BY <3>1, <3>2, StepKept DEF IInv
    <3>3. CASE \E r \in Others : Start(r)
      <4>1. others' = 1
        BY <3>3, BoundsAssumption DEF Start
      <4> QED
        BY <4>1 DEF IInv
    <3>4. CASE \E r \in Others : RunStep(r)
      \* No other run is at a step.
      <4>1. PICK r \in Others : RunStep(r)
        BY <3>4
      <4>2. At(r, "idle")
        BY <3>1 DEF OneWriter, At, Idle
      <4> QED
        BY <4>1, <4>2 DEF At, RunStep, Look, OpenTemp, WriteTemp, WriteFails, Chmod, Replace,
             ReadToken, Posted, PostFailed
    <3>5. CASE SomethingChanges \/ Enrolls \/ UNCHANGED vars
      <4>1. UNCHANGED <<temp, status, content, run, told, others, boots>>
        BY <3>5 DEF SomethingChanges, Enrolls, vars
      <4>2. facts' \in Nat /\ enrolled' \in BOOLEAN
        <5>1. facts' \in Nat
          BY <3>1, <3>5 DEF SomethingChanges, Enrolls, vars, TypeOK
        <5>2. enrolled' = enrolled \/ enrolled' = TRUE
          BY <3>5, Zenon DEF SomethingChanges, Enrolls, vars
        <5> QED
          BY <3>1, <5>1, <5>2, Zenon DEF TypeOK
      <4>3. TypeOK'
        BY <3>1, <4>1, <4>2 DEF TypeOK
      <4>4. OneWriter'
        BY <3>1, <4>1 DEF OneWriter, Whole, At
      <4> QED
        BY <4>3, <4>4 DEF IInv, TypeOK
    <3>6. CASE Reboot
      <4>1. Idle \in RunType
        BY DEF Idle, RunType, Steps
      <4>2. TypeOK'
        BY <3>1, <3>6, <4>1 DEF Reboot, TypeOK
      <4>3. OneWriter'
        BY <3>1, <3>6 DEF Reboot, OneWriter, Whole, At, Runs, Idle
      <4> QED
        BY <4>2, <4>3 DEF IInv, TypeOK
    <3> QED
      BY <3>2, <3>3, <3>4, <3>5, <3>6 DEF Next, Runs
  <2> QED
    BY <2>1, <2>2
<1>3. IInv => StatusWhole
  BY DEF IInv, OneWriter, StatusWhole
<1> QED
  BY <1>1, <1>2, <1>3, PTL DEF Spec
===============================================================================

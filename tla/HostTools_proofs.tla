---------------------------- MODULE HostTools_proofs ---------------------------
(***************************************************************************)
(* Theorems about HostTools, for any files, releases, updates and cuts: no *)
(* file on the host is ever half written, and what a marked change wants   *)
(* gets loaded and enabled.                                                *)
(***************************************************************************)
EXTENDS HostTools, TLAPS

\* The image build, boots and updates.
LEMMA VMKeeps == ASSUME HostToolsInv, ImageBuild \/ Boot \/ Update PROVE HostToolsInv'
<1> USE HostToolsAssumption DEF HostToolsInv, TypeOK, RunsInOrder, HandedOver
<1>1. CASE ImageBuild
  BY <1>1 DEF ImageBuild, Installed
<1>2. CASE Boot
  BY <1>2 DEF Boot
<1>3. CASE Update
  <2>1. image' \in Versions /\ ins.todo = {} /\ ins.pc = "idle" /\ vm = "up"
    BY <1>3 DEF Update
  <2>2. count' \in [updates : 0 .. MaxUpdates, cuts : 0 .. MaxCuts]
    BY <1>3 DEF Update
  <2> QED
    BY <1>3, <2>1, <2>2 DEF Update
<1> QED
  BY <1>1, <1>2, <1>3

\* Nothing runs, and nothing is called.
LEMMA NothingRuns == /\ NoRun \in RunType /\ NoRun.pc = "idle" /\ NoRun.todo = {} /\ NoRun.installed = {}
                     /\ NoApply \in ApplyType /\ NoApply.pc = "idle"
BY DEF NoRun, NoApply, RunType, ApplyType

\* Down goes what is under way, and what it was marked for counts as lost.
LEMMA DownKeeps == ASSUME HostToolsInv, GoDown PROVE HostToolsInv'
<1>1. count' \in [updates : 0 .. MaxUpdates, cuts : 0 .. MaxCuts]
  BY HostToolsAssumption DEF HostToolsInv, TypeOK, GoDown
<1> QED
  BY <1>1, NothingRuns, HostToolsAssumption DEF HostToolsInv, TypeOK, RunsInOrder, HandedOver, GoDown

\* A run of the installer before its marker.
LEMMA RunKeeps == ASSUME HostToolsInv, InstallerStarts \/ Compare \/ WriteTemp \/ Rename \/ InstallerFails \/ AllDone
                  PROVE  HostToolsInv'
<1> USE HostToolsAssumption DEF HostToolsInv, TypeOK, RunsInOrder, HandedOver, RunType
<1>1. CASE InstallerStarts
  BY <1>1 DEF InstallerStarts
<1>2. CASE Compare
  <2>1. PICK f \in ins.todo : \/ ins' = [ins EXCEPT !.todo = ins.todo \ {f}]
                             \/ ins' = [ins EXCEPT !.pc = "write", !.file = f]
    BY <1>2 DEF Compare
  <2>2. f \in Files
    OBVIOUS
  <2>3. CASE ins' = [ins EXCEPT !.todo = ins.todo \ {f}]
    BY <1>2, <2>3 DEF Compare
  <2>4. CASE ins' = [ins EXCEPT !.pc = "write", !.file = f]
    <3>1. /\ ins' \in RunType /\ ins'.pc = "write" /\ ins'.file = f
          /\ ins'.todo = ins.todo /\ ins'.installed = ins.installed
      BY <2>2, <2>4
    <3> QED
      BY <1>2, <3>1 DEF Compare
  <2> QED
    BY <2>1, <2>3, <2>4
<1>3. CASE WriteTemp
  BY <1>3 DEF WriteTemp
<1>4. CASE Rename
  BY <1>4 DEF Rename
<1>5. CASE InstallerFails
  BY <1>5, NothingRuns DEF InstallerFails
<1>6. CASE AllDone
  BY <1>6, NothingRuns DEF AllDone
<1> QED
  BY <1>1, <1>2, <1>3, <1>4, <1>5, <1>6

\* The marker calls the script, or comes too late for it.
LEMMA MarkerKeeps == ASSUME HostToolsInv, DropMarker PROVE HostToolsInv'
<1> USE HostToolsAssumption DEF HostToolsInv, TypeOK, RunsInOrder, HandedOver
<1>1. /\ marker' = ToEnable[image] /\ ToEnable[image] \in SUBSET Files /\ vm = "up"
      /\ UNCHANGED <<vm, image, host, loaded, enabled, count>> /\ ins' = NoRun
  BY DEF DropMarker, MarkedUnits
<1>2. CASE apply.pc \in {"idle", "called"}
  <2>1. apply' \in ApplyType /\ apply'.pc = "called" /\ fate' = image
    BY <1>2 DEF DropMarker, NoApply, ApplyType
  <2> QED
    BY <1>1, <2>1, NothingRuns
<1>3. CASE apply.pc \notin {"idle", "called"}
  BY <1>1, <1>3, NothingRuns DEF DropMarker
<1> QED
  BY <1>2, <1>3

\* The script reads it, removes it, reloads and enables.
LEMMA ApplyKeeps == ASSUME HostToolsInv, ApplyStep PROVE HostToolsInv'
<1> USE HostToolsAssumption DEF HostToolsInv, TypeOK, RunsInOrder, HandedOver, ApplyType
<1>1. CASE ReadMarker
  <2>1. marker \in SUBSET Files
    BY <1>1 DEF ReadMarker
  <2>2. apply' \in ApplyType /\ apply'.pc = "remove" /\ apply'.units = marker
    BY <1>1, <2>1 DEF ReadMarker
  <2> QED
    BY <1>1, <2>2 DEF ReadMarker
<1>2. CASE RemoveMarker
  <2>1. apply' \in ApplyType /\ apply'.pc = "reload" /\ apply'.units = apply.units
    BY <1>2 DEF RemoveMarker
  <2>2. apply.pc = "remove" /\ marker' = None /\ UNCHANGED <<vm, image, host, loaded, enabled, ins, fate, count>>
    BY <1>2 DEF RemoveMarker
  <2>3. TypeOK'
    BY <2>1, <2>2
  <2>4. RunsInOrder'
    BY <2>1, <2>2
  <2>5. HandedOver'
    BY <2>1, <2>2
  <2> QED
    BY <2>3, <2>4, <2>5
<1>3. CASE Reload
  BY <1>3 DEF Reload
<1>4. CASE Enable
  <2>1. PICK u \in apply.units :
          /\ apply' = [apply EXCEPT !.units = apply.units \ {u}]
          /\ \/ enabled' = enabled \cup {u} /\ fate' = fate
             \/ enabled' = enabled /\ fate' = "lost"
    BY <1>4, Zenon DEF Enable
  <2>2. apply' \in ApplyType /\ apply'.pc = "enable" /\ apply'.units = apply.units \ {u} /\ u \in Files
    BY <1>4, <2>1 DEF Enable
  <2>3. apply.pc = "enable" /\ UNCHANGED <<vm, image, host, loaded, marker, ins, count>>
    BY <1>4 DEF Enable
  <2>4. TypeOK'
    BY <2>1, <2>2, <2>3
  <2>5. RunsInOrder'
    BY <2>1, <2>2, <2>3
  <2>6. HandedOver'
    BY <2>1, <2>2, <2>3
  <2> QED
    BY <2>4, <2>5, <2>6
<1>5. CASE ApplyEnds
  BY <1>5, NothingRuns DEF ApplyEnds
<1> QED
  BY <1>1, <1>2, <1>3, <1>4, <1>5 DEF ApplyStep

\* Types, the order of a run and what was handed over hold for ever.
THEOREM ToolsInductive == Spec => []HostToolsInv
<1>1. Init => HostToolsInv
  <2> SUFFICES ASSUME Init PROVE HostToolsInv
    OBVIOUS
  <2>1. ins = NoRun /\ apply = NoApply /\ fate = "built" /\ fate \notin Versions
    BY HostToolsAssumption DEF Init
  <2>2. count \in [updates : 0 .. MaxUpdates, cuts : 0 .. MaxCuts]
    BY HostToolsAssumption DEF Init
  <2>3. TypeOK
    BY <2>1, <2>2, NothingRuns DEF Init, TypeOK
  <2> QED
    BY <2>1, <2>3, NothingRuns DEF HostToolsInv, RunsInOrder, HandedOver
<1>2. HostToolsInv /\ UNCHANGED vars => HostToolsInv'
  BY DEF HostToolsInv, TypeOK, RunsInOrder, HandedOver, vars
<1>3. HostToolsInv /\ [Next]_vars => HostToolsInv'
  BY <1>2, VMKeeps, DownKeeps, RunKeeps, MarkerKeeps, ApplyKeeps DEF Next, InstallerStep
<1> QED
  BY <1>1, <1>3, PTL DEF Spec

\* Whatever cuts an install short, each of the host's files is one release's
\* content or not there.
THEOREM NothingIsHalf == Spec => []TypeOK
<1>1. HostToolsInv => TypeOK
  BY DEF HostToolsInv
<1> QED
  BY <1>1, ToolsInductive, PTL

\* After a change whose marker reached the script, systemd knows the files that
\* are there and has enabled the release's units, also those that an earlier,
\* failed run wrote.
THEOREM ChangesAreApplied == Spec => []Applied
<1>1. HostToolsInv => Applied
  <2> SUFFICES ASSUME HostToolsInv, Quiet, fate = image PROVE loaded = host /\ ToEnable[image] \subseteq enabled
    BY DEF Applied
  <2>1. fate \in Versions
    BY DEF HostToolsInv, TypeOK
  <2> QED
    BY <2>1 DEF Quiet, HostToolsInv, RunsInOrder, HandedOver
<1> QED
  BY <1>1, ToolsInductive, PTL
================================================================================

------------------------------- MODULE OsReport -------------------------------
(***************************************************************************)
(* The OS reporter of a probe VM (deploy/probe-vm/host/argus-os-report):   *)
(* it looks at the VM, writes what it saw to os-status.json through a      *)
(* temporary file, and posts it to Argus.  systemd runs it by the hour, at *)
(* boot and when the probe enrolls; argus-reboot-check, argus-patch and    *)
(* argus-host-tools-apply each run it too, beside systemd's run.           *)
(*                                                                         *)
(* What there is to report is a number that grows with every change; a     *)
(* file's content is the number written there, nothing yet, or the rests   *)
(* of two writes.  A file goes on existing for who has it open.            *)
(***************************************************************************)
EXTENDS Naturals

CONSTANTS
    Hourly,      \* the run systemd makes
    Others,      \* the runs other scripts make
    Files,       \* bound: files that exist at a time
    DiskFull,    \* TRUE: a write to the data folder may fail
    MaxFacts,    \* bound: changes there are to report
    MaxOthers,   \* bound: runs other scripts make
    MaxBoots,    \* bound: reboots and power cuts
    None,        \* no file
    Empty, Mixed \* a file that holds nothing, and one that holds two writes' rests

Runs == {Hourly} \cup Others

ASSUME BoundsAssumption ==
    /\ Hourly \notin Others
    /\ DiskFull \in BOOLEAN
    /\ MaxFacts \in Nat /\ MaxOthers \in Nat /\ MaxBoots \in Nat
ASSUME SentinelAssumption ==
    /\ None \notin Files
    /\ Empty \notin Nat /\ Mixed \notin Nat /\ Empty # Mixed
ASSUME FilesAssumption == Files # {} /\ \A f, g \in Files : \E h \in Files : h \notin {f, g}

VARIABLES
    facts,       \* what there is to report
    enrolled,    \* whether proxy.env has the check-in token and address
    temp,        \* the file named os-status.json.tmp
    status,      \* the file named os-status.json
    content,     \* by file
    run,         \* by run: its step, what it saw, the file it has open
    told,        \* what Argus heard last
    others, boots

vars == <<facts, enrolled, temp, status, content, run, told, others, boots>>

Steps == {"idle", "look", "open", "write", "chmod", "replace", "read_token", "post"}
RunType == [step : Steps, saw : Nat, file : Files \cup {None}]
Idle == [step |-> "idle", saw |-> 0, file |-> None]

TypeOK ==
    /\ facts \in Nat /\ told \in Nat /\ others \in Nat /\ boots \in Nat
    /\ enrolled \in BOOLEAN
    /\ temp \in Files \cup {None} /\ status \in Files \cup {None}
    /\ content \in [Files -> Nat \cup {Empty, Mixed}]
    /\ run \in [Runs -> RunType]

Init ==
    /\ facts = 1 /\ told = 0 /\ others = 0 /\ boots = 0
    /\ enrolled = FALSE
    /\ temp = None /\ status = None
    /\ content = [f \in Files |-> Empty]
    /\ run = [r \in Runs |-> Idle]

-------------------------------------------------------------------------------
(* A run                                                                   *)

At(r, step) == run[r].step = step
Go(r, step) == run' = [run EXCEPT ![r].step = step]

\* systemd runs one at a time; so does each of the scripts.
Start(r) ==
    /\ At(r, "idle")
    /\ r # Hourly => others < MaxOthers
    /\ others' = IF r = Hourly THEN others ELSE others + 1
    /\ Go(r, "look")
    /\ UNCHANGED <<facts, enrolled, temp, status, content, told, boots>>

\* Takes the copy's word for it when there is one.
Look_Copy(r) ==
    /\ At(r, "look")
    /\ run' = [run EXCEPT ![r].saw = IF status # None /\ content[status] \in Nat
                                        THEN content[status] ELSE facts,
                          ![r].step = "open"]
    /\ UNCHANGED <<facts, enrolled, temp, status, content, told, others, boots>>

\* Counts updates and reads the last results, at one moment.
Look(r) ==
    /\ At(r, "look")
    /\ run' = [run EXCEPT ![r].saw = facts, ![r].step = "open"]
    /\ UNCHANGED <<facts, enrolled, temp, status, content, told, others, boots>>

\* Any file no name and no run stands for: which one makes no difference.
Unused == CHOOSE f \in Files : f \notin {temp, status} /\ \A r \in Runs : run[r].file # f

\* Writes to the file itself.
OpenTemp_InPlace(r) ==
    /\ At(r, "open")
    /\ IF status # None
         THEN /\ content' = [content EXCEPT ![status] = Empty]
              /\ run' = [run EXCEPT ![r].file = status, ![r].step = "write"]
              /\ UNCHANGED status
         ELSE /\ status' = Unused /\ content' = [content EXCEPT ![Unused] = Empty]
              /\ run' = [run EXCEPT ![r].file = Unused, ![r].step = "write"]
    /\ UNCHANGED <<facts, enrolled, temp, told, others, boots>>

\* open(tmp, "w"): empties the file of that name, or makes one.
OpenTemp(r) ==
    /\ At(r, "open")
    /\ LET f == IF temp # None THEN temp ELSE Unused IN
       /\ temp' = f
       /\ content' = [content EXCEPT ![f] = Empty]
       /\ run' = [run EXCEPT ![r].file = f, ![r].step = "write"]
    /\ UNCHANGED <<facts, enrolled, status, told, others, boots>>

\* One write, from the start of the file, at its close.  Over another run's
\* longer text the end of that stays.
WriteTemp(r) ==
    /\ At(r, "write")
    /\ LET f == run[r].file IN
       \E c \in IF content[f] = Empty THEN {run[r].saw} ELSE {run[r].saw, Mixed} :
          content' = [content EXCEPT ![f] = c]
    /\ run' = [run EXCEPT ![r].file = None, ![r].step = "chmod"]
    /\ UNCHANGED <<facts, enrolled, temp, status, told, others, boots>>

\* A failed write leaves nothing or a piece, and ends write_status.
WriteFails(r) ==
    /\ At(r, "write") /\ DiskFull
    /\ \E c \in {content[run[r].file], Mixed} :
          content' = [content EXCEPT ![run[r].file] = c]
    /\ run' = [run EXCEPT ![r].file = None, ![r].step = "read_token"]
    /\ UNCHANGED <<facts, enrolled, temp, status, told, others, boots>>

\* os.chmod fails when another run has moved the file away.
Chmod(r) ==
    /\ At(r, "chmod")
    /\ Go(r, IF temp = None THEN "read_token" ELSE "replace")
    /\ UNCHANGED <<facts, enrolled, temp, status, content, told, others, boots>>

\* Leaves a copy that is there.
Replace_KeepsOld(r) ==
    /\ At(r, "replace")
    /\ IF temp = None \/ status # None
         THEN UNCHANGED <<temp, status>>
         ELSE status' = temp /\ temp' = None
    /\ Go(r, "read_token")
    /\ UNCHANGED <<facts, enrolled, content, told, others, boots>>

\* os.replace: the name goes over, with whatever the file holds now.
Replace(r) ==
    /\ At(r, "replace")
    /\ IF temp = None
         THEN UNCHANGED <<temp, status>>
         ELSE status' = temp /\ temp' = None
    /\ Go(r, "read_token")
    /\ UNCHANGED <<facts, enrolled, content, told, others, boots>>

\* Without a token there is nobody to tell.
ReadToken(r) ==
    /\ At(r, "read_token")
    /\ IF enrolled
         THEN Go(r, "post")
         ELSE run' = [run EXCEPT ![r] = Idle]
    /\ UNCHANGED <<facts, enrolled, temp, status, content, told, others, boots>>

Posted(r) ==
    /\ At(r, "post")
    /\ told' = run[r].saw
    /\ run' = [run EXCEPT ![r] = Idle]
    /\ UNCHANGED <<facts, enrolled, temp, status, content, others, boots>>

PostFailed(r) ==
    /\ At(r, "post")
    /\ run' = [run EXCEPT ![r] = Idle]
    /\ UNCHANGED <<facts, enrolled, temp, status, content, told, others, boots>>

RunStep(r) ==
    \/ Look(r) \/ OpenTemp(r) \/ WriteTemp(r) \/ WriteFails(r) \/ Chmod(r) \/ Replace(r)
    \/ ReadToken(r) \/ Posted(r) \/ PostFailed(r)

-------------------------------------------------------------------------------
(* The VM around it                                                        *)

SomethingChanges ==
    /\ facts < MaxFacts
    /\ facts' = facts + 1
    /\ UNCHANGED <<enrolled, temp, status, content, run, told, others, boots>>

Enrolls ==
    /\ ~enrolled
    /\ enrolled' = TRUE
    /\ UNCHANGED <<facts, temp, status, content, run, told, others, boots>>

\* The VM goes down and comes up: the runs are gone, the files are there.
Reboot ==
    /\ boots < MaxBoots
    /\ boots' = boots + 1
    /\ run' = [r \in Runs |-> Idle]
    /\ UNCHANGED <<facts, enrolled, temp, status, content, told, others>>

Next ==
    \/ \E r \in Runs : Start(r) \/ RunStep(r)
    \/ SomethingChanges \/ Enrolls \/ Reboot

Spec == Init /\ [][Next]_vars

\* The timer starts a run every hour, runs go on, the probe enrolls, and of the
\* hourly posts and writes some succeed.
Fairness ==
    /\ WF_vars(Start(Hourly)) /\ WF_vars(Enrolls)
    /\ \A r \in Runs : WF_vars(RunStep(r))
    /\ SF_vars(Posted(Hourly)) /\ SF_vars(WriteTemp(Hourly)) /\ SF_vars(Replace(Hourly))

FairSpec == Spec /\ Fairness

-------------------------------------------------------------------------------
(* Properties                                                              *)

\* "The local copy, atomically": whoever reads os-status.json finds one whole
\* report, whatever the runs are doing.
Whole == status # None => content[status] \in Nat

\* The same while systemd's run was the only one: between the steps of a run,
\* after a reboot in the middle of one, after failed writes.
StatusWhole == others = 0 => Whole

\* Argus hears of every change in the end, whatever runs overlap, fail or are
\* cut off, and hears nothing older for good.
ArgusHears == \A n \in 1..MaxFacts : facts >= n ~> told >= n

\* So does who reads os-status.json: a copy that overlapping runs spoiled is
\* replaced by a good one.
CopyHeals == \A n \in 1..MaxFacts :
    facts >= n ~> status # None /\ content[status] \in Nat /\ content[status] >= n

-------------------------------------------------------------------------------
(* Why the copy is whole while systemd's run is the only one               *)

\* The published file is not the one being written, which is whole once it is
\* written and is the run's alone.
OneWriter ==
    /\ \A r \in Others : run[r] = Idle
    /\ Whole /\ (status # None => temp # status)
    /\ At(Hourly, "write") => temp # None /\ run[Hourly].file = temp
    /\ ~At(Hourly, "write") => run[Hourly].file = None
    /\ run[Hourly].step \in {"chmod", "replace"} => temp # None /\ content[temp] \in Nat

IInv == others \in Nat /\ (others = 0 => TypeOK /\ OneWriter)
===============================================================================

------------------------------ MODULE HostTools ------------------------------
(***************************************************************************)
(* The host's scripts and units follow the probe's release: the image      *)
(* build's install and clean-up (probe-vm/scripts/provision.sh), then      *)
(* install-host-tools.py in a container, after every update and once a     *)
(* day, and argus-host-tools-apply on the host, which a path unit starts   *)
(* when the installer drops its marker.                                    *)
(*                                                                         *)
(* The manifest's order and the files' modes are left out: a run takes its *)
(* entries in any order, and content stands for content and mode.          *)
(***************************************************************************)
EXTENDS Naturals

CONSTANTS
    Files,          \* destinations on the host
    Contents,       \* what a file may have in it, rendered
    Versions,       \* probe releases
    Release,        \* per release: the files of its manifest, with their contents
    ToEnable,       \* per release: the entries with the enable flag
    BuildEnables,   \* the units provision.sh enables by name
    MaxUpdates, MaxCuts,    \* bounds: updates of the probe; power cuts and restarts
    None, Half      \* no such file; a file in the middle of its write

ASSUME HostToolsAssumption ==
    /\ None \notin Contents /\ Half \notin Contents /\ None # Half
    /\ \A v \in Versions : /\ DOMAIN Release[v] \subseteq Files
                           /\ \A f \in DOMAIN Release[v] : Release[v][f] \in Contents
                           /\ ToEnable[v] \subseteq DOMAIN Release[v]
    /\ BuildEnables \subseteq Files
    /\ Versions \cap {"built", "lost"} = {}
    /\ MaxUpdates \in Nat /\ MaxCuts \in Nat

VARIABLES
    vm,         \* "factory" | "off" | "up"
    image,      \* the release of the probe image
    host,       \* the files on the host
    loaded,     \* the files as systemd knows them
    enabled,    \* the units systemd has enabled
    marker,     \* host-tools-apply.json: the units to enable
    ins,        \* the installer
    apply,      \* argus-host-tools-apply
    fate,       \* history: the release the last change was marked for, or "built", or "lost"
    count       \* bounds

vars == <<vm, image, host, loaded, enabled, marker, ins, apply, fate, count>>

RunType == [pc : {"idle", "entries", "write", "rename", "mark"}, todo : SUBSET Files,
            file : Files \cup {None}, installed : SUBSET Files]
ApplyType == [pc : {"idle", "called", "remove", "reload", "enable"}, units : SUBSET Files]

(* Nothing on the host is ever half a file, whatever cut its install short
   (install writes beside the file and renames). *)
TypeOK ==
    /\ vm \in {"factory", "off", "up"}
    /\ image \in Versions
    /\ host \in [Files -> Contents \cup {None}]
    /\ loaded \in [Files -> Contents \cup {None}]
    /\ enabled \subseteq Files
    /\ marker \in (SUBSET Files) \cup {None}
    /\ ins \in RunType /\ apply \in ApplyType
    /\ fate \in {"built", "lost"} \cup Versions
    /\ count \in [updates : 0 .. MaxUpdates, cuts : 0 .. MaxCuts]

NoRun == [pc |-> "idle", todo |-> {}, file |-> None, installed |-> {}]
NoApply == [pc |-> "idle", units |-> {}]

Init ==
    /\ vm = "factory"
    /\ image \in Versions
    /\ host = [f \in Files |-> None] /\ loaded = host
    /\ enabled = {} /\ marker = None
    /\ ins = NoRun /\ apply = NoApply
    /\ fate = "built" /\ count = [updates |-> 0, cuts |-> 0]

Installed(h, v) == [f \in Files |-> IF f \in DOMAIN Release[v] THEN Release[v][f] ELSE h[f]]

(***************************************************************************)
(* provision.sh: the installer with --root /, then the marker is removed,  *)
(* for no systemd runs yet, and units are enabled by name.                 *)
(***************************************************************************)
ImageBuild ==
    /\ vm = "factory"
    /\ vm' = "off"
    /\ host' = Installed(host, image)
    /\ enabled' = BuildEnables
    /\ UNCHANGED <<image, loaded, marker, ins, apply, fate, count>>

(* systemd reads its units; a marker that is there changes no more *)
Boot ==
    /\ vm = "off"
    /\ vm' = "up"
    /\ loaded' = host
    /\ UNCHANGED <<image, host, enabled, marker, ins, apply, fate, count>>

(***************************************************************************)
(* Update: the updater pulls another release, between two runs.            *)
(***************************************************************************)
Update ==
    /\ vm = "up" /\ ins.pc = "idle" /\ count.updates < MaxUpdates
    /\ \E v \in Versions \ {image} : image' = v
    /\ count' = [count EXCEPT !.updates = @ + 1]
    /\ UNCHANGED <<vm, host, loaded, enabled, marker, ins, apply, fate>>

InstallerStarts ==
    /\ vm = "up" /\ ins.pc = "idle"
    /\ ins' = [pc |-> "entries", todo |-> DOMAIN Release[image], file |-> None, installed |-> {}]
    /\ UNCHANGED <<vm, image, host, loaded, enabled, marker, apply, fate, count>>

\* only looks whether the file is there
Compare_There ==
    /\ ins.pc = "entries"
    /\ \E f \in ins.todo :
         ins' = IF host[f] # None
                THEN [ins EXCEPT !.todo = @ \ {f}]
                ELSE [ins EXCEPT !.pc = "write", !.file = f]
    /\ UNCHANGED <<vm, image, host, loaded, enabled, marker, apply, fate, count>>

(* Any entry still to do: same, or open the temporary file *)
Compare ==
    /\ ins.pc = "entries"
    /\ \E f \in ins.todo :
         ins' = IF host[f] = Release[image][f]
                THEN [ins EXCEPT !.todo = @ \ {f}]
                ELSE [ins EXCEPT !.pc = "write", !.file = f]
    /\ UNCHANGED <<vm, image, host, loaded, enabled, marker, apply, fate, count>>

\* opens the file itself
WriteTemp_InPlace ==
    /\ ins.pc = "write"
    /\ ins' = [ins EXCEPT !.pc = "rename"]
    /\ host' = [host EXCEPT ![ins.file] = Half]
    /\ UNCHANGED <<vm, image, loaded, enabled, marker, apply, fate, count>>

(* the temporary file is nobody else's, and truncated by the next run *)
WriteTemp ==
    /\ ins.pc = "write"
    /\ ins' = [ins EXCEPT !.pc = "rename"]
    /\ UNCHANGED <<vm, image, host, loaded, enabled, marker, apply, fate, count>>

Rename ==
    /\ ins.pc = "rename"
    /\ host' = [host EXCEPT ![ins.file] = Release[image][ins.file]]
    /\ ins' = [pc |-> "entries", todo |-> ins.todo \ {ins.file}, file |-> None,
               installed |-> ins.installed \cup {ins.file}]
    /\ UNCHANGED <<vm, image, loaded, enabled, marker, apply, fate, count>>

(* ManifestError: no space, a read-only file system, a file the image lacks;
   or the container is stopped *)
InstallerFails ==
    /\ ins.todo # {} \/ ins.pc = "mark"
    /\ ins' = NoRun
    /\ fate' = IF ins.installed # {} THEN "lost" ELSE fate
    /\ UNCHANGED <<vm, image, host, loaded, enabled, marker, apply, count>>

AllDone ==
    /\ ins.pc = "entries" /\ ins.todo = {}
    /\ ins' = IF ins.installed = {} THEN NoRun ELSE [ins EXCEPT !.pc = "mark"]
    /\ UNCHANGED <<vm, image, host, loaded, enabled, marker, apply, fate, count>>

\* those this run wrote
MarkedUnits_Written == ToEnable[image] \cap ins.installed

(* every unit with the flag, also one that an earlier run wrote *)
MarkedUnits == ToEnable[image]

(* The path unit sees the new marker unless its service runs. *)
DropMarker ==
    /\ ins.pc = "mark"
    /\ ins' = NoRun
    /\ marker' = MarkedUnits
    /\ IF apply.pc \in {"idle", "called"}
       THEN apply' = [NoApply EXCEPT !.pc = "called"] /\ fate' = image
       ELSE UNCHANGED apply /\ fate' = "lost"
    /\ UNCHANGED <<vm, image, host, loaded, enabled, count>>

(***************************************************************************)
(* argus-host-tools-apply                                                  *)
(***************************************************************************)
ReadMarker ==
    /\ apply.pc = "called"
    /\ apply' = [pc |-> "remove", units |-> marker]
    /\ UNCHANGED <<vm, image, host, loaded, enabled, marker, ins, fate, count>>

RemoveMarker ==
    /\ apply.pc = "remove"
    /\ apply' = [apply EXCEPT !.pc = "reload"]
    /\ marker' = None
    /\ UNCHANGED <<vm, image, host, loaded, enabled, ins, fate, count>>

Reload ==
    /\ apply.pc = "reload"
    /\ apply' = [apply EXCEPT !.pc = "enable"]
    /\ loaded' = host
    /\ UNCHANGED <<vm, image, host, enabled, marker, ins, fate, count>>

(* systemctl enable --now: a failure is logged *)
Enable ==
    /\ apply.pc = "enable"
    /\ \E u \in apply.units :
         /\ apply' = [apply EXCEPT !.units = @ \ {u}]
         /\ \/ enabled' = enabled \cup {u} /\ UNCHANGED fate
            \/ fate' = "lost" /\ UNCHANGED enabled
    /\ UNCHANGED <<vm, image, host, loaded, marker, ins, count>>

(* the report that ends the service is OsReport's *)
ApplyEnds ==
    /\ apply.pc = "enable" /\ apply.units = {}
    /\ apply' = NoApply
    /\ UNCHANGED <<vm, image, host, loaded, enabled, marker, ins, fate, count>>

(* a power cut, or a reboot, in the middle of anything *)
GoDown ==
    /\ vm = "up" /\ count.cuts < MaxCuts
    /\ vm' = "off"
    /\ ins' = NoRun /\ apply' = NoApply
    /\ fate' = IF ins.installed # {} \/ apply.pc # "idle" THEN "lost" ELSE fate
    /\ count' = [count EXCEPT !.cuts = @ + 1]
    /\ UNCHANGED <<image, host, loaded, enabled, marker>>

InstallerStep == Compare \/ WriteTemp \/ Rename \/ AllDone \/ DropMarker
ApplyStep == ReadMarker \/ RemoveMarker \/ Reload \/ Enable \/ ApplyEnds

Next ==
    \/ ImageBuild \/ Boot \/ Update \/ GoDown
    \/ InstallerStarts \/ InstallerStep \/ InstallerFails
    \/ ApplyStep

Spec == Init /\ [][Next]_vars

(* The VM comes up, the updater runs the installer daily, and what runs goes on. *)
FairSpec ==
    /\ Spec
    /\ WF_vars(ImageBuild) /\ WF_vars(Boot)
    /\ WF_vars(InstallerStarts) /\ WF_vars(InstallerStep) /\ WF_vars(ApplyStep)

-----------------------------------------------------------------------------
(* Properties *)

Quiet == vm = "up" /\ ins.pc = "idle" /\ apply.pc = "idle"

(* After a run that changed something and left its marker, unless the marker
   came while the script ran, a unit could not be enabled, or a cut or a later
   failed run came in between: systemd knows the files that are there, and has
   enabled every unit the release of the marker wants enabled, also one that a
   failed run wrote before (install: `enable' lists all of them, "changed" only
   this run's). *)
Applied ==
    Quiet /\ fate = image => loaded = host /\ ToEnable[image] \subseteq enabled

(* A release that stays gets onto the host once the runs stop failing: the
   daily run compares every file with the release's (install). *)
CatchesUp ==
    <>[][~InstallerFails]_vars =>
        \A v \in Versions : <>[](image = v) => <>[](host = Installed(host, v))

(* The enable flag of the manifest (host/manifest:4: "enable = systemctl
   enable --now it") holds on a VM that was just built. *)
EnabledWhenBuilt ==
    Quiet /\ fate = "built" => ToEnable[image] \subseteq enabled

-----------------------------------------------------------------------------
(* Why what is marked gets applied *)

(* A run works on its release's files, and none runs before the VM is up;
   whenever the script is called there is a marker. *)
RunsInOrder ==
    /\ ins.todo \subseteq DOMAIN Release[image]
    /\ ins.pc \in {"write", "rename"} => ins.file \in ins.todo
    /\ ins.pc = "idle" => ins.todo = {} /\ ins.installed = {}
    /\ vm # "up" => ins.pc = "idle" /\ apply.pc = "idle"
    /\ vm = "factory" => fate = "built"
    /\ apply.pc = "called" => marker \in SUBSET Files

(* What the last marked change wants enabled is in the marker, with the script,
   or enabled; and its reload is still to come, or has come after the last
   change. *)
HandedOver ==
    fate \in Versions =>
        /\ apply.pc = "called" => marker = ToEnable[fate]
        /\ apply.pc \in {"remove", "reload"} => apply.units = ToEnable[fate]
        /\ apply.pc = "enable" => ToEnable[fate] \subseteq enabled \cup apply.units
        /\ apply.pc = "idle" => ToEnable[fate] \subseteq enabled
        /\ apply.pc \in {"enable", "idle"} /\ ins.installed = {} => loaded = host

HostToolsInv == TypeOK /\ RunsInOrder /\ HandedOver
=============================================================================

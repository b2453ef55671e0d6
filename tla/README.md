# A verification project for argus-probe

argus-probe is the part of Argus that stands in a customer's network: a Zabbix
proxy in a container (`deploy/probe-image`) that enrols itself with Argus, keeps
its certificates, runs small jobs on request, and, on a probe VM
(`deploy/probe-vm`), a set of host tools around it. This folder holds TLA+ models
of its logic, TLC runs that check them on small instances, and theorems about
them that TLAPS checks for every instance. All paths below are relative to the
repository.

## 1. The system

```
            Argus (central server)                         operator
   enrol | check-in | renew-cert | results           environment, console
      \        |          |          |                        |
   +-------------------- probe container -----------------+   |
   |  entrypoint.sh  start script: enrol, re-read, sync,   |   |
   |                 exec the Zabbix proxy (PID 1)         |   |
   |   `-- check-in loop (background): CA, certificate,    |   |
   |        jobs, files for the VM's host                  |   |
   |          `-- one background process per job           |   |
   |  external checks, started by the Zabbix proxy         |   |
   +---------------- /var/lib/zabbix (volume) -------------+   |
   +------------------------ probe VM ----------------------+  |
   | first boot page | console | host tools | reboot, patch | -+
   +--------------------------------------------------------+
```

| Component | State it keeps | Operations | What is hard | What makes it correct |
|---|---|---|---|---|
| Enrolment and start (`probe-image/entrypoint.sh`) | `enroll/proxy.key`, `proxy.crt`, `ca.crt`, `proxy.env`, `procs.env`; the shell's variables | enrol, re-read, take the environment's token, sync with Argus, exec | a stop between any two writes; a single-use token; a lost answer; a full disk | the proxy only runs as itself; every start finds something to work with; what runs is what is saved |
| Certificates (`checkin.sh`: `take_ca`, `renew_cert`) | `ca.crt`, the pair and its `.old` copy, the CA the proxy runs with | take a renewed CA, renew the pair, restart the proxy | two files moved one after the other; a SIGTERM the loop sends itself; expiry | one trust anchor for ever; same name; later end; the new pair is in place before the restart; renewal comes |
| One-shot jobs (`entrypoint.sh` 349-393) | a lock file and a job file per kind, background processes | take a lock, write the job, start, clean up; clear an old lock | real time; clean-up against the next start; a stop leaves lock and job file | runs of a kind are serial; a run works on its own job; no lock blocks for ever |
| Check-in report (`checkin.sh`) | the address found last, the next lookup | build the report, choose the wait, `host_files` | best-effort parts must not lose the report | always a JSON object; 2..60 seconds |
| VM host actions (`probe-vm/host/argus-reboot-check`, `argus-patch`) | request and result files, reboot window | reboot or patch on request, reboot in the window | path units and timers; a reboot between two steps; arithmetic of the window | a request is acted on once and answered; a reboot only in the window and only if needed |
| OS report (`probe-vm/host/argus-os-report`) | `os-status.json`, its temporary file | look, write, post | several scripts run it at a time | the copy is whole; Argus hears of every change |
| Host tools (`install-host-tools.py`, `argus-host-tools-apply`) | the host's scripts and units, the marker | install what changed, drop the marker, reload | a crash between files and marker; marker read and removed | what is installed gets enabled |
| VM console (`argus-console`) | netplan file, its backup, a pending revert, `proxy.env` | change the network with a timed revert, change the core host | a second session, a reboot or a confirmation against the revert | an unconfirmed change is undone |
| First boot (`argus-firstboot.py`) | setup code and wrong guesses, `probe.env`, the break-glass secret and its note of report, the login banner | check the code, write the environment, start the probe, show progress, set and report the password | a thread per request; a power cut between four writes; files written by another process | the console shows the code that counts; a retry reaches the container; Argus is told the password that is kept |
| HTTP and TCP checks (`argus_http.py`, `argus_tcp.py`) | a result per URL or port | look up, connect, check the certificate, follow redirects, read the page; join the threads | a budget that ends at any time, a second attempt after a lost lookup, joins one after the other | up means checked; a reason is so; waits don't add up |
| Speed test (`argus_speedtest.py`) | a phase's count and marks | parallel streams, warm-up, rate | streams that end, hang or are refused at any time | the rate comes from a span in which all streams ran; a refusal is said |
| XCP-NG collector (`argus_xcpng.py`) | a pinned certificate per address, on the volume | log in, follow one redirect, read the pool, fetch rates | several pollers at a time, killed at Zabbix's timeout; a file emptied before it is written | an address is trusted with one certificate |
| Scan and diagnostics (`argus_netscan.py`, `argus_diag.py`, `argus_corepost.py`) | rows, partial results | sweep, ask controllers, ping, trace, look up; post with tries | deadlines that are looked at only between steps; lost answers | over in time; what is left out is said; ends on Argus with why |
| Other checks, health check, guest agent, installer, builds | none, or one pass | | | |

The same list, with what is modelled so far, is in `PROJECT.json` (components),
with the hazards of this code, each at its line and with the properties that
watch it.

## 2. The modules

| Module | Models |
|---|---|
| `ProbeState` | the state shared by the next two: volume, container, outside; types; vocabulary |
| `Enroll` | `entrypoint.sh` from the first line to the `exec` |
| `Renewal` | the check-in loop's certificates: `take_ca`, `renew_cert`, the restarts |
| `ProbeContract` | abstract: what a probe promises, with no files and no steps |
| `Probe` | both together with stops, reconfiguration, dates, Argus; the properties; the inductive invariant |
| `Probe_proofs` | theorems about `Probe` |
| `JobRunner` | the loop's jobs: locks, job files, background processes |
| `JobRunner_proofs` | theorems about `JobRunner` |
| `HostActions` | the VM's reboots and patches: `host_files`, `argus-reboot-check`, `argus-patch`, their units |
| `HostActions_proofs` | theorems about `HostActions` |
| `OsReport` | the runs of `argus-os-report` and the file they share |
| `OsReport_proofs` | a theorem about `OsReport` |
| `HostTools` | the host's scripts and units: the image build, `install-host-tools.py`, the marker, `argus-host-tools-apply` |
| `HostTools_proofs` | theorems about `HostTools` |
| `FirstBoot` | `argus-firstboot.py`: the service, its page's threads, the container it starts |
| `FirstBoot_proofs` | theorems about `FirstBoot` |
| `Connect` | connections and their reasons, shared by the two checks |
| `HttpCheck`, `TcpCheck` | the HTTP and the TCP port check |
| `SpeedTest` | the Cloudflare engine of the speed test |
| `Xcpng` | the XCP-NG collector's pollers and pins |
| `CorePost` | the jobs' post to Argus, with its tries |
| `NetScan` | the network scan |
| `Diag` | ping, traceroute and DNS lookup |
| `Jobs_proofs` | theorems about `NetScan` and `Diag` |
| `Checks_proofs` | theorems about `HttpCheck`, `TcpCheck`, `SpeedTest`, `Xcpng` and their composition in `MCChecks` |
| `Nothing` | the constant `None` that the six checks and jobs share |
| `MCProbe`, `MCJobRunner`, `MCHostActions`, `MCHostTools` | the small instances for TLC (`OsReport` and `FirstBoot` need none) |
| `MCChecks` | `HttpCheck`, `TcpCheck`, `SpeedTest`, `Xcpng`, `NetScan` and `Diag` side by side, one of them running: they share no state |

Operators named `X_Something`, next to an `X`, are `X` with a plausible mistake. No
specification uses them; with one in `X`'s place TLC refutes the property that
`PROJECT.json` (mutants) names, which shows that the property depends on the code.

### Enroll, Renewal, Probe

The five variables of the volume are the files. A file is `None` (missing),
`Junk` (there and unusable: empty after `> FILE`, cut short, "null") or its
content. A certificate is the four things the scripts compare: key, name,
issuer, end. `pc` is the step the one script is about to take; `mem` its three
variables `PROXY_NAME`, `CORE_HOST`, `PROBE_TOKEN` (`CHECKIN_URL` always goes with
the token: it is derived from the enrolment URL when it is missing); `run` what
the Zabbix proxy was started with.

* One action per command that changes a file. A redirection is two steps (`OpenX`
  empties, `FillX` writes), a `mv` across file systems too (`MoveKey`,
  `MoveCert`); a `mv` in one folder (`take_ca`) is one step. `exit 1`, and a
  command failing under `set -e`, is `Forget`: the container is off, and
  `StartContainer` is Docker's `restart: unless-stopped`.
* Shape checks (`valid_name`, ...) are the choice between a value of the set and
  `None`. Keys are drawn fresh from the keys nothing refers to any more.
* `Stop` ends the script at any step in `StopAt`. `Terminated` is the loop's own
  `kill -TERM 1`: the loop goes on until the signal has done its work.
* Argus is external: it answers an enrolment once per token, or its answer gets
  lost; it hands out any CA certificate and any certificate, fitting or not; it
  re-points the fleet and renews its CA.
* Process counts: only that writing `procs.env` can fail (`SaveCounts`).

### JobRunner

Files and processes by kind (scan, sweep, diag). The loop takes one kind after
the other: clear an old lock, test and touch, write the job, fork. A background
process reads the job, works, removes the lock, removes the job file; they
interleave with the loop freely. Time is whole minutes, as `find -mmin` counts;
ages of locks and runs replace the clock, so there is no bound on time. No minute
passes between a touch and its fork (three commands in a row). `MaxRun` is an
assumption about the scripts: the theorems say what depends on it.

### HostActions

The container and the host share a folder: `window`, `req` and `result` are its
files. `HostFiles` is the container's `host_files` with any check-in's answer; a
window with a field out of its range is dropped, a request is written whole.

* `check` and `patch` are the two scripts' processes, one action per command that
  reads or changes something shared. `argus-reboot-check` reads each field of the
  window with a `sed` of its own and each part of the time with a `date` of its
  own; so does the model.
* The timer is `due`, the minutes to its next check. A path unit watches only
  while its service rests: a change that comes while the service runs, or while
  the VM goes down, may be seen or not (`seen`), one that comes while it rests is.
* The clock is day, hour and minute; `DAYS`, `HOURS`, `MINUTES`, `Slack` and `Period`
  are constants (7, 24, 60, 10 and 5 in the code). `Fits` says what a window means:
  automatic, and less than `Slack` minutes since its moment, over the hour and
  over midnight. It is written apart from `InWindow`, the script's test.
* `check.fits` is a history variable: whether `Fits` held at some moment of the
  running check. `SlowCheck` lets time pass and windows arrive while a check runs.
* Dates are counted in requests: a result that carries `n` came after the `n`-th
  request, which is what Argus compares.
* Whether the OS asks for a reboot (`needs_reboot`) is `need`: updates set it, a boot
  clears it, or not (`KernelStays`: an older kernel came up).

### OsReport

What there is to report is a number that grows. Names (`temp`, `status`) point to
files, and a run keeps the file it has open: `os.replace` moves a name, whoever
is writing to what it names. One action per system call of `write_status`. Over
longer text another run wrote, a write leaves a mixture (`Mixed`). `Hourly` is
systemd's run, one at a time; `Others` are the runs that `argus-reboot-check`,
`argus-patch` and `argus-host-tools-apply` make beside it. Writes are taken to be on
the disk once made.

### HostTools

`host` is what is on the disk, `loaded` what systemd has read, `enabled` the units it
starts at boot. `ImageBuild` is `provision.sh`: install everything, remove the
marker, enable units by name. An installer run is `Compare`, `WriteTemp`, `Rename` per
entry, and `DropMarker`; `argus-host-tools-apply` is `ReadMarker`, `RemoveMarker`, `Reload`,
`Enable` per unit. `InstallerFails` and `GoDown` cut them short anywhere. `fate` is a history
variable: the release whose marker reached an idle host last, or "lost" if a cut, a failure or a
running script got in the way.

### FirstBoot

`main` is the service process with its monitor thread; each browser tab has a handler
thread (`tab`, `arg`); `box` is the container, of which only the token, a refusal and
the two files matter that the service looks for (`Enroll` has the rest). A step is what another
thread, the container or a later boot can see.

* `_code_ok` counts, sleeps and replaces the code in four steps, so that two tabs
  interleave in it. Requests go on until the process ends: the end of `monitor` and
  `main` is `Disable`, `clear_code_banner` and `Exit`, and a handler can announce a code in between.
* `ensure_break_glass` is `SetPassword`, `OpenSecret`, `FillSecret`, the report (whose answer may
  get lost) and `MarkReported`. `useradd` and `chpasswd` may fail, which the code ignores
  (`check=False`): `SetPassword` then leaves the account as it was and goes on.
* Power cuts hit anywhere, and a boot starts again from what is on the disk. Docker starts
  the container that a cut ended again, with the token it was made with, until its unit
  (`UnitStarts`), or first boot, replaces it by one with the file's. The container names itself in the
  run in which it enrolled (`midway`); a later start without `proxy.env` exits, as in `Enroll`.
* The unit runs `docker run -d`, so its journal has no line of the container's (`DETACHED`).
* `seen` is a history variable: whether the code of the page was ever announced (`silent`), a
  banner outlived its page (`stale`), two handlers replaced the code at once (`raced`), setting
  the password failed (`unset`).

### Connect, HttpCheck, TcpCheck

`create_connection` is the reason a connection by name ends with, from the two families'
lookups and addresses. `HttpCheck` has a thread per URL: the certificate's look by mode, the
page's request, each redirect, the text; an attempt that a resolver cut short is made
again. A certificate is what the checks tell apart (who vouches, which names, when). Main's
budget may end at any time (`JoinEnds`). `TcpCheck` counts ticks: the threads run
together, main joins them in turn.

### SpeedTest

Each stream's steps may take any number of ticks: `Check`, moving units, waiting for the
answer. `Phase`'s marks (`at_warm`, `at_done`) are set by whichever stream gets there;
`bps` is the rate's span. A refusal at the end of an upload is "mangled" as the code
mangles it.

### Xcpng

A poll connects, compares or learns the address's pin (it opens the file, which empties it,
and writes it: two steps), logs in, follows one redirect, calls, and fetches rates with a connection per
host. A poller may be killed at any step. `accepted` and `unsure` are history variables:
the certificates let through, and the addresses whose first contact was disturbed.

### CorePost, NetScan, Diag

A post's outcome is "taken", "unheard" (Argus has it, the probe doesn't know) or
"failed". `NetScan`: workers take targets in order until the deadline, controllers are asked in
order within a budget, `Enriched` matches rows to devices and clients (by MAC, then address).
`Diag`: one run with its partial posts and its whole one. In both a step jumps the clock by
no more than what the step takes (`HOST`, `HOP`, ...), which are constants.

## 3. The runs

All runs pass `CHECK_DEADLOCK FALSE`, because a probe that is switched off, or has
no token, may rest, and a check ends.

| Run | Question | Answer |
|---|---|---|
| `probe_safe` | stops anywhere but in the three windows below | a stopped container has a usable volume (`RestartSafe`); no start is turned away (`NeverStranded`); it runs as itself; trust anchor; restart only on a new pair; implements `ProbeContract` |
| `probe_stop_anywhere` | also stops in enrolment and `write_meta`, answers that lack fields, writes that fail | the proxy runs what is saved (`RunsWhatIsSaved`) |
| `probe_live` | with fairness | comes back; the certificate is renewed |
| `probe_ca_restart_cuts_renewal` | no stop from outside at all | **violated**: `RestartSafe` |
| `jobs` | two kinds, a stop that leaves locks, a full disk | `Serial`, `OwnJob`, and with fairness `JobsRun` |
| `host_actions` | a reboot and a patch request, the VM's own window and one of Argus's, a power cut, boots that settle nothing | `OnlyWhenNeeded`, `AskedOnce`, `RebootInWindow`, `WindowServed`, `RebootAnswered`, `PatchAnswered` |
| `report_shared` | a full disk, a reboot, a run beside systemd's | `StatusWhole` (until that run), `ArgusHears`, `CopyHeals` |
| `first_boot` | two tabs, a seed disk or none, wrong codes, a refused token, a password that could not be set, a power cut | `KnownPassword`, `BannerTells`, `PicksUpRetry`, `PasswordReported` |
| `host_tools` | three releases, two updates, cuts and failures anywhere | no file is half (`TypeOK`), `Applied`, `CatchesUp` |
| `host_tools_built` | a VM that was just built | **violated**: `EnabledWhenBuilt` |
| `checks` | the six programs of `MCChecks` | `UpIsEarned`, `ReasonIsTrue`, `TcpInTime`, `SpeedIsMeasured`, `OneCertificate`, `GapsAreSaid`, `OwnFacts`, `ScanInTime`, `RunEndsOnCore`, `DiagInTime` |
| `speedtest_refusal` | an upload refused at its end | **violated**: `RefusalIsSaid` |

The types of `Probe`, `JobRunner`, `HostActions` and `OsReport` are part of the proved
invariants (section 4); the other modules' are proved and checked in their runs.

What the three violated runs show, with the lines that say otherwise, is in `PROJECT.json`
(findings): the restart for a renewed CA can end the loop between the two moves of the same
round's renewal; a fresh VM has the units of its reboot window and requests installed and
not enabled, until a later release changes a file; and a refused upload ends in a Python
error, because `refused` is a local variable of `upload_stream`.

The three windows, named in `Probe`: `EnrolWindow` (the three files are there,
`proxy.env` is not), `MetaWindow` (`proxy.env` is empty), `SwapWindow` (key and
certificate don't belong together). What a cut in each leaves behind is real.
After one in `MetaWindow` every start asks for a new enrolment; one in `SwapWindow`
needs no stop from outside (`probe_ca_restart_cuts_renewal`). A cut in `EnrolWindow`,
or an answer without `ca` or `proxy_name`, leaves three files and no
usable `proxy.env`: the start asks for a new enrolment (`ClearVolume` models the
operator doing so).

**What the models contain and no property claims.** These follow from steps of the
models; the hazards in `PROJECT.json` name their lines.

* A failed move leaves `renew_cert` with status 0, so the proxy restarts with no
  new pair in place (`MoveKey`, `MoveCert` under `DiskFull`).
* A run's clean-up removes its lock before its job file, and so at times the next
  run's job file (`RemoveLock`, `RemoveJob`): that job is lost on the probe.
* A failed write of a lock or of a job ends the check-in loop until the container
  starts again (`TakeLock`, `WriteJob` to "ended").
* At the turn of an hour the three calls of `date` don't belong together, and a
  check can reboot a minute after the hour of its window (`ReadClock` under
  `SlowCheck`).
* The slack after a window's minute doesn't go past the hour, so a window at minute 56
  or later can be missed by every check (`argus-reboot-check` 75-76); `WindowServed` is
  claimed for windows with room for their slack (`Roomy`) that Argus leaves as they are.
* A patch request that lies in the folder at boot, or came while `argus-patch` ran,
  waits for the next one: there is no timer (`PathStartsPatch`).
* Two reporters at a time share `os-status.json.tmp` (`argus-os-report` 201-205), and
  who reads the copy may find an empty or a mixed file until the next hour.
* A marker that comes while `argus-host-tools-apply` runs is lost, and one that is there at
  boot is not picked up (`DropMarker`, `Boot`); units that leave the manifest stay
  installed and enabled.
* A password that `useradd` or `chpasswd` could not set is filed, reported and marked as
  reported all the same (`argus-firstboot.py` 265-266, `SetPassword`): Argus then shows one that
  opens nothing, and no later boot sets it again. `KnownPassword` claims that Argus and the file
  agree, and the account with them if the tool worked.
* A page that starts with a token there, from a seed disk or after a cut, announces no code
  (684-687, `Listen`), though 57-60 say that the code is printed when the page starts serving. Its
  form asks for one when the token has to be corrected, and the only way to a code is ten
  wrong ones. `BannerTells` says that the banner shows nothing then, or what a cut left.
* The setup page never shows that Argus refused a token, because the container's log is not in
  the unit's journal (`enroll_status`): it goes on saying that it enrols. A banner
  that a power cut found stays after the enrolment (`main` 660), and so does one that a
  request announces after `main`'s last clearing (691). Two threads that replace the code at one
  moment may announce in the other order.
* First boot can find the certificate before `proxy.env` is written and names no host; if
  the file is there in time for the report, the service is disabled and never names it
  (`apply_hostname`, `Disable`). A cut between the two leaves a container that exits at every
  start (`BoxSavesMeta`).
* A reboot in the middle of `argus-patch` leaves neither the request nor a result
  (`PatchAnswered` allows for it).
* Two first contacts at a time may each trust another certificate, and an empty pin is
  learned again (`Xcpng`; `unsure`).
* A check falls back to IPv6 also when IPv4's addresses fail; `argus_http.py` 19-20 says only
  when there is no IPv4 address (`create_connection`).
* A speed test whose streams all connect after the deadline has neither a speed nor an error.
* Argus may take a scan's results twice (`heard`), two rows may be given the same
  device by its address, and a diagnostic's late partial result may reach Argus after the whole
  one.
* With the code's numbers a ping of 20 may take 20 times 11 s, longer than
  `entrypoint.sh` 381 counts on: `DiagInTime` bounds a run by its parts.

**Bounds.** *Probe:* three keys are one in use, its predecessor (in the `.old` pair) and a
new one, the most that live at a time. Two names and two CAs let a foreign
certificate and a foreign CA arrive. Two tokens allow a second enrolment;
`probe_stop_anywhere` has one name and one token, and two hosts instead, to tell what is saved
from what is in memory. `Life` 2, `Margin` 1 and dates up to 2 (3 for the CA's restart) reach
"ends soon" and "expired" for a certificate made on day 0; `probe_live` has `Life` 3, dates up to 3
and two keys, since one renewal fits in its days. One stop is enough for every
single cut; the next start then runs to the end. *Jobs:* two kinds (the
third works on its own files) and two processes, which are two of a kind (one cleaning up,
one started) or one of each; `MaxRun = StaleAfter` is the tightest case of the
assumption: one minute less in `Stale` breaks `Serial`. *Host:* hours of three minutes
with two of slack and a check every two, so that a window has exactly one sure
check in it (the code's ten and five leave two); two hours and two days keep day, hour and minute
apart. The windows are the VM's own, one of Argus's on one day at the second minute of an hour, one that
leaves the decision to a person, and one with an hour no clock shows, which is dropped (an assumption
of `MCHostActions` has TLC check that the others are taken); a window late in its hour is covered by the
theorem `RebootsInWindow` only. One request of each kind, and one cut between any two steps. *Report:* one run beside systemd's makes every overlap of two; three files are the most
that two runs have at a time; two changes make old and new news. *First boot:* two tabs are
two handlers at a time; `CODE_MAX_FAILURES` 1 makes every wrong guess replace the code; two
codes and two passwords are the old and the new one; one cut. *Host tools:* a release that adds
a unit and changes a script, one that takes the script back, and two cuts, so that a second run
meets what a first one left. *Checks:* one URL, since threads share nothing, with every
setting (but the texts it may look for, which are one), every certificate and one redirect; two ports of up to three addresses with a timeout of two
ticks, so that a port can outlast timeout and grace; two streams of two units over two
ticks of warm-up and two of measurement; two pollers at one address with two certificates and one
change; two targets, two workers and two controllers with deadlines a step can overrun; three
pings, four hops, two record types.

**Fairness.** `WF` of the script's next step, and of `StartContainer` in it: a
process that can run does, and Docker restarts a container that ended. `SF` of
`Terminated`: a signal that stays pending while the loop goes on is delivered.
`SF` of `NewKey` and `CertificateArrives`: among the hourly tries one is answered.
`WF` of `HourPasses` and `SF` of `MinutePasses`: time passes. Argus's other
actions, stops and the operator have no fairness. Host: `WF` of what systemd starts
and of the scripts' steps, `WF` of `Boot` (a VM that goes down comes up), `SF` of
`MinutePasses`. Report: `WF` of the hourly start, of the runs and of the
enrolment; `SF` of the hourly run's post, write and rename, because hour
after hour one of them works (`Chmod` fails only while another run has the file
away). First boot: `WF` of the service's and the handlers' steps, of the page's polls, of
`Boot` and `Reboot` (a VM is rebooted now and then, which is when a report is tried again), `SF` of
`ReportTaken`: among those tries one gets through. Host tools: `WF` of the build, of `Boot`, of the
installer's daily start and of both scripts' steps; `CatchesUp` has its own premise, that
runs stop failing. `MCChecks` states none: its properties are about what is said and when, and a
bound on time that the model's clock can't pass is a safety property.

## 4. The theorems

`Probe_proofs`, for all constants that satisfy the named assumptions (the
sentinels differ from proper values, `Margin < Life`, `OurCA` is a CA):

* `Inductive`: `IInv` is invariant if `NoCutInRenewal` (no stop in `SwapWindow`,
  writes succeed). `RunsAsItself` alone is not inductive. The argument:
  `proxy.env` is written last, so once it names the probe the other three are
  whole (`NameIsLast`); during the enrolment the files are from one answer for the
  key on disk (`OneAnswer`); after it the shell's variables are `proxy.env`
  (`MemoryIsSaved`); what the proxy was handed was whole (`RunInv`); and
  `renew_cert`'s checks carry over to the two moves (`NewPair`). One lemma per
  part, one step per group of actions.
* `OwnIdentity` (`RunsAsItself`), `NewPairFirst` (`RestartsOnNewPair`), `SavedFirst`
  (`RunsWhatIsSaved`, which needs `DialsSaved` beside `IInv`). The run
  `probe_stop_anywhere` shows the last one also where writes fail.
* `SafeInductive`, `StartsAreSafe` (`RestartSafe`), `StartsAreNamed` (`NeverStranded`),
  `OneTrustAnchor` (`SameTrustAnchor`): with no cut in the other two windows and answers that have
  both fields (`NoCutAtAll`), the CA file is there only with all the rest
  (`CAIsComplete`).
* `ContractKept` (`KeepsContract`), the refinement, under the same condition. Initial states
  map to initial states, and each step of `Next` to an action of `ProbeContract` or to a
  stutter. The difficulty is what the contract does not see: `proxy.env` is empty while
  `write_meta` runs, and the certificate while a renewal moves it. `Rewriting` says what stands
  for them then: the name in the shell's memory, and the pair saved in `.old`, which ends
  earlier than the new one.

`JobRunner_proofs`, for all numbers of processes, jobs, stops and all limits, with
writes failing or not: `RunsInductive`, `RunsAreSerial` (`Serial`), `JobsAreOwn`
(`OwnJob`), if `ShortRuns`: no run lasts longer than the age at which its lock counts
as old. The argument: a run's lock is exactly as old as the run, so it is
neither cleared nor free while the run holds it.

`HostActions_proofs`, for weeks, days and hours of any length, any windows and any
number of requests and cuts: `ActionsInductive`, `RequestsRebootOnce` (`AskedOnce`),
`RebootsAreNeeded` (`OnlyWhenNeeded`), also with `SlowCheck`. The argument: the request
file goes before anything is done about it, so a reboot done, one about to be done
and a file in the folder each have a request of their own (`Accounted`); between
the OS's answer and the boot nothing takes the need away (`Needed`).
`RebootsInWindow` (`RebootInWindow`) needs `~SlowCheck`: what the check has read so far
is what there is (`ReadSoFar`), and the script's test implies `Fits`.

`OsReport_proofs`, for any runs, changes and boots, with writes failing or not:
`CopyIsWhole` (`StatusWhole`). The argument: while systemd's run is the only one, the
file it writes is not the published one, and is whole when it is renamed
(`OneWriter`).

`HostTools_proofs`, for any files, releases, updates and cuts: `ToolsInductive`, `NothingIsHalf`
(`TypeOK`, in which no file is `Half`), `ChangesAreApplied` (`Applied`). The argument: what
the last marked change wants enabled is in the marker, with the script or enabled, and its
reload is still to come or came after the last change (`HandedOver`), given that a run is
in its place (`RunsInOrder`).

`FirstBoot_proofs`, for any tabs, codes, passwords and cuts:

* `SecretInductive`, `PasswordIsKnown` (`KnownPassword`). The secret's file is only filled with
  the password the account was just given, or was to be given when the tool failed (`Given`), Argus
  is only told what the file holds, and a file that holds a password is not made again
  (`SecretIsSet`).
* `PageInductive`, `TypesHold` (`TypeOK`), `ConsoleTells` (`BannerTells`), `RetryIsPickedUp`
  (`PicksUpRetry`). The count of wrong guesses is below the limit but for the handlers that
  counted and still sleep or are about to replace the code (`GuessesCounted`, by cardinalities);
  while no two handlers replace it at once, the one that does holds the code it will
  announce (`BannerFollows`), and a page that starts with a token there has nothing on the
  banner but what a cut left; a token that was written is not taken back, and nothing is enabled or
  runs without one (`TokenIsFiled`); the monitor's steps wait for a certificate and leave the page alone
  (`ServedInOrder`).

`Jobs_proofs`, for any number of hosts, workers and controllers, any lengths, limits and
deadlines:

* `NetInductive`, `ScansEndInTime` (`ScanInTime`), `NoSilentGaps` (`GapsAreSaid`): one part per phase.
  A target is begun before the deadline (`Sweeping`), a controller within the budget
  (`Enriching`), the k-th try by a time of its own (`Delivering`); and a skipped target means
  that the deadline is over, which the sweep's end says (`GapsKnown`).
* `RowsInductive`, `FactsAreOwn` (`OwnFacts`). No row has a device before the lists are complete
  (`ListsFirst`): a list that grew afterwards could make a match by address wrong. The row's
  device is then the first match by MAC if there is one. That a set of indices has a first is
  induction over data; `Least` gets it from the minimal element of a well-founded order
  (`WFMin`), which takes no operator as a parameter.
* `DiagInductive`, `RunEnds` (`RunEndsOnCore`), `DiagIsInTime` (`DiagInTime`). For each tool, when
  its k-th step began and when it may be over (`Pinging`, `Tracing`, `Asking`), and when
  the k-th try of the post may (`Posting`). The multiplications are kept out of the solver's way:
  each step adds one summand.
* `NetTypesHold`, `DiagTypesHold`.

`Checks_proofs`, for any URLs, ports, streams, pollers and addresses:

* `HttpInductive`, `UpWasEarned` (`UpIsEarned`), `ReasonWasTrue` (`ReasonIsTrue`). `Knows` says what a thread
  has found out at each of its steps, and that an attempt after a lost lookup starts with
  nothing; `Stands` says that a result is left once, by a thread that is done, and that main
  prints it or that there was none.
* `TcpInductive`, `TcpIsInTime` (`TcpInTime`). Main's clock never passes the threads', and an
  unfinished port that was joined has had its timeout and grace: the joins don't add up.
* `SpeedInductive`, `SpeedWasMeasured` (`SpeedIsMeasured`). When the warm-up is marked, the
  move that marks it is still to be counted (`WarmBefore`); the first end of a stream marks its own
  time and the bytes so far (`DoneAfter`); and of two marks in order the later has more bytes
  (`SpanInOrder`).
* `SpeedTypesInductive`: a phase counts at most its budget. The sum of the streams' shares is stated
  without a fold: the bytes counted are the cardinality of the set `Units` of units that have left
  their streams (`UnitsCount`), and a move adds a disjoint piece.
* `PinsInductive`, `AddressesAreTrustedOnce` (`OneCertificate`). At an address whose first contact is
  undisturbed, one poll at most learns, the file is missing or empty exactly while it does, and
  what was let through is what the file says (`Learned`).
* `EachOnItsOwn`: a behaviour of `MCChecks`, where one of the six programs runs, is one of each
  program's own specification, so the theorems above hold where TLC checks them. `XcpTypesHold`,
  `AllTypesHold` (`TypeOK` of `MCChecks`).

**Only model-checked.** Every invariant and action property of a run that passes is
now stated by a theorem. What is left to TLC is liveness, which is out of the prover's reach
(fairness needs `ENABLED`): `ComesBack`, `CertificateRenewed`, `JobsRun`, `WindowServed`,
`RebootAnswered`, `PatchAnswered`, `ArgusHears`, `CopyHeals`, `PasswordReported` and `CatchesUp`.

**What the theorems assume.** `Probe_proofs` and `JobRunner_proofs` have the premises named above (no
cut in the windows; `ShortRuns`), which the code does not enforce and the runs violate or bound;
`RebootsInWindow` has `~SlowCheck`. The others have no premise but the assumptions on the constants
in the modules: sentinels differ from values, sets are finite, limits are natural numbers.

## 5. Plan

Done, in this order: `Enroll`, `Renewal`, `Probe`, `JobRunner`; `HostActions`, `OsReport`; `HostTools`,
`FirstBoot`; the checks and jobs; each with its runs, and the theorems of section 4. Left:

1. `NetRevert`: the console's network change with its timer, confirmation, reboot and a second
   session; its change of the core host against `write_meta`.
2. The check-in report's cadence (`next_wait`, the hour between address lookups), with `Renewal`
   and `JobRunner` composed: they are one loop in the code and two modules here.
3. `ShortRuns` from `ScanInTime` and `DiagInTime`: needs a bound on one host's looks and one
   name's lookup, which the code does not have.

## 6. Not modelled

* The VM console (`argus-console`): text menus over system tools. Its two pieces of shared
  state are listed as hazards.
* The check-in report: one JSON object built in one expression, the wait's clamp to 2..60
  and the hour between lookups. `host_files` is in `HostActions`, the answer's CA in `Renewal`.
* The UniFi sweep (a loop over addresses and the post that `CorePost` models), `argus_nut`,
  `argus_linux_ssh` and `dns-resolver` (one connection, one answer parsed, nothing kept), Ookla's
  engine (another program's output parsed).
* The health check and the guest agent (one look, one answer), what the OS report counts,
  the installer (a one-way dialogue), image and VM builds and CI, but for what the build does with the
  host tools.
* In modelled parts: the texts of logs, reports and errors, file ownership and modes,
  the wording of JSON; first boot's keyboard, static address, seed disk's syntax and two
  submissions that write `probe.env` at the same instant; XCP-NG's reconnections inside
  `xmlrpc.client`, and a member whose certificate changed while its rates are fetched; the looks
  at one host of a scan; round trips of the speed test.

Where a step is coarser than the code, and what that leaves out:

* `GenerateKey` (`entrypoint.sh` 88) never fails for a full disk: the script would end there with at
  most a broken key in the place of a missing one. `SaveOldPair` (`checkin.sh` 217-218) makes two copies in one step,
  which no start reads. A `mv` across file systems is emptying and filling the target: when it
  unlinks the target first, the key is missing instead of unusable for that moment, inside `SwapWindow`.
* `HostFiles` puts the window and a request of one answer in place in one step; each has readers of
  its own. `Look` (`argus-os-report` 222-243) reads at one moment what the reporter gathers one
  by one: a report may mix two, and the next hour's run reports anew.
* `verify_reason` (`argus_http.py` 309-321) is reduced to what is wrong with the URL's own certificate:
  a chain whose intermediate has expired says "expired", too. `Covers` has the library's own rule for
  names: a common name counts for a host by name when the certificate lists no other.
* A thread's time in `TcpCheck` leaves out `getaddrinfo`, which has no timeout
  (`argus_tcp.py` 90), and a diagnostic's end leaves out the lookups that its pool still joins
  (`argus_diag.py` 261): both bounds are for what the code does set a limit to.
* `SpeedTest` reads the clock with the update it is for, where the code reads it just before it
  takes the lock (258, 265); and main's joins with a timeout each (391) are one wait.
* `Xcpng` keeps a pin per address; the file's name is the address with other characters
  replaced (93-95), so that two unusual addresses could share one.
* `Diag` starts with a job that could be read: `main`'s exits without a token, or with no
  readable job (493-500), report nothing to Argus.
* First boot's monitor and `write_env` meet no full disk, and `PowerCut` finds each file as it was
  last written.

Argus, Docker, systemd, the Zabbix proxy, Cloudflare, controllers, hypervisors and the operator are
external and appear only as what the code sees of them.

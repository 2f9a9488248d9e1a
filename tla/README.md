# A verification project for libappupdater

libappupdater is a C++ library that a Windows application links to keep itself
up to date: it asks a feed whether a newer release exists, asks the user what to
do, downloads the installer, verifies it and launches it. This directory holds
TLA+ models of that program, TLC runs over small instances, and TLAPS proofs for
every value of the constants. Paths below are relative to the repository; most
of the code is in `src/`.

## 1. Inventory

| Part | Code | State it keeps | Operations |
|---|---|---|---|
| Update session | `src/AutoUpdater.cpp` | per call: mode, prompt, release on offer, last error, temporary file | `Execute` and what it calls: `Status`, `Once`, `SetOnce`, `SetAuto`, `Reset`, `IsAvailable`, `IsSkipped`, `InstallNow`, `InstallLater`, `InstallSkip` |
| Settings store | `src/AutoConfig.cpp` | seven used registry values, in the user's hive (HKCU) and the machine's (HKLM); application names, feed and public keys in memory | read, write, delete; setters; lazily derived defaults |
| Availability check | `IsAvailable` in `src/AutoUpdater.cpp` | where the check is, the chosen item, the last error | one call: indicator, feed, three downloads, parser, keys, versions, notes |
| Install flow | `InstallNow` and the end of `Execute` in `src/AutoUpdater.cpp` | temporary directory and file, last error, two indicators | target name, download, `Verify`, launch, retry, `CleanTemp` |
| Downloader | `src/AutoDownLoad.cpp` | one `DownloadContext` per download: reference count, two events, two WinINet handles, result; a sink | `get`, `completion`, `cancel`; the worker's `threadproc` and `execute` |
| Graphical dialogs | `src/AutoDialog.cpp`, `src/CUpdatePromptDlg.cpp`, `src/CUpdateInstallDlg.cpp` | the modal dialog's answer, enabled buttons | prompt, install, later, skip, automatic box, close |
| Console interface | `src/AutoConsole.cpp` | the progress bar | the same answers, from keys |
| Progress dialog | `src/CProgressDialog.cpp` | window, flags, reference count, cancelled | start, update, stop, release; a thread of its own |
| Console progress bar | `src/TProgressBar.cpp` | position, cancelled, stop event | the same interface; a thread of its own that paints and looks for ESC |
| Version order | `src/AutoVersion.cpp` | none | `Compare` |
| Manifest | `src/AutoManifest.cpp` | parser nesting levels, selected channel and item | parser callbacks, `Load`, `IsCriticalUpdate` |
| GitHub feed | `src/AutoGitHub.cpp` | none | `IsEndpoint`, `GetLatestRelease` |
| Logger | `src/AutoLogger.cpp`, `libautoupdater.cpp` | one instance, a table of 32 per-thread buffers | open, get, release, flush |
| C interface | `libautoupdater.cpp` | the DLL's thread table | `autoupdate_execute`, `autoupdate_isavailable`, setters |
| Tools | `update/`, `sign/`, `util/` | none | command lines |
| Localisation, vendored code | `localisation/`, `cjson/`, `expat/`, `ed25519/` | - | used as libraries |

**How they interact.** `autoupdate_execute` builds a user interface and an
`AutoUpdater` on its stack and calls `Execute`. `Execute` reads and writes the
registry through `Config`, calls the interface's modal dialogs, and the install
dialog calls back into `AutoUpdater` (`InstallNow`, `InstallLater`,
`InstallSkip`, `SetAuto`). `IsAvailable` and `InstallNow` put a sink and a
`Download` on the stack; `get` starts a worker thread that writes to the sink,
and `completion` pumps window messages until the worker signals an event. The
worker reports to the progress indicator the interface holds, and asks it whether
the user cancelled; the indicator runs a third thread. Every thread logs through
one `Logger`, which the client deletes at the end of its call. The registry is shared by all the running
copies of the application and outlives them.

**What is hard.**

* *Concurrency between processes*: several copies make multi-value updates of
  the registry without a lock around them (a skip-request is two values, a
  refusal is two values).
* *Death between two steps*: what the registry holds then is what the next call
  starts from.
* *Concurrency between threads*: client and worker share a context by reference
  count, a result through an event, and a sink that lives on the client's stack.
* *Early ends*: WM_QUIT ends the wait before the worker is done; a download can
  be given up while its worker is inside a system call.
* *Nested return codes*: an answer goes through the dialog, `InstallDialog`,
  `Execute` and the C interface before the application sees it.
* *Time*: intervals of days, with defaults for values out of range.

**What makes each part correct.** Session: a user's refusal sticks; a
skip-request is honoured for its interval, lapses after it, and is never
invented; checks are spaced; the code returned tells the truth. Availability
check: the answer is true, however late the user cancels, and a failure is told.
Downloader: nothing is used after it is deleted, everything is deleted, the
client is always answered and the answer is true. Install flow: no unverified
image is launched, a cancel is final, no temporary file or indicator is left.
Progress indicators: stop always ends them, no thread uses one that is deleted, a
cancel is told, nobody waits for ever. Version: an order in which no chain of
updates leads down. Manifest: the item taken belongs to the channel asked for and
is the best for the host. Logger: no buffer is shared, none is lost while there is
a slot, and its two locks are taken in one order.

`PROJECT.json` lists each component with its status, and under `hazards` every
place where the code is exposed to one of these difficulties.

## 2. Plan

The modules in the order they were written, the most important behaviour first.

| Order | Module | About | Proved in |
|---|---|---|---|
| 1 | `UpdateSession` | one call of `Execute` per copy, over a shared registry | `UpdateSessionProofs` |
| 2 | `Transfer`, `Download` | what a download promises, and the threads that keep it | `DownloadProofs`, `TransferProofs` |
| 3 | `ProgressUI` | both progress indicators: client, worker and indicator thread | `ProgressUIProofs` |
| 4 | `Indicator` | what a caller has of an indicator: shown, cancelled, and who polls it | with its users |
| 5 | `InstallFlow` | `InstallNow` and the end of `Execute`, over `Transfer` and `Indicator` | `InstallFlowProofs` |
| 6 | `Version` | the comparison, over texts of tokens | `VersionProofs` |
| 7 | `Manifest` | the parser's callbacks and the selection of an item | `AvailabilityProofs` |
| 8 | `Availability` | `IsAvailable`, over `Transfer`, `Indicator`, `Manifest` and `Version` | `AvailabilityProofs` |
| 9 | `Logger` | the log: its instance, its two locks, its table of threads | `LoggerProofs` |

Composition. `Transfer` is the interface between the parts: `Download` implements
it, and `InstallFlow` and `Availability` instantiate it, one job for each download
they make, so that what they show rests on what `Download` was shown to do.
`Availability` extends `Manifest` and `Version`: the steps of the parser are its
own. Both instantiate `Indicator`, which knows of the progress indicator that it is
shown and was cancelled, what key waits in the console's buffer, and what each thread
found there and has not stored; the rest of its threads is in `ProgressUI`.

What would come next: the in-memory half of `Config` (lazily derived keys and
paths), the JSON of a GitHub release, and the process's detach from the DLL.

## 3. The modules

### UpdateSession

State. `user` and `host.machine` are the two hives (functions from setting to
an integer, `NoValue` or `Empty`). `host` also says whether the console interface
is used and whether `RegDeleteKeyExA` is emulated (`AutoConfig.cpp:77-116`).
`session[p]` is what copy `p`'s call is doing: a program counter, the mode, the
release on offer, the last error, the value to return; `then` and `arg` are the
return address and the argument of `SetAuto`, which three callers share. `feed`
and `now` are the environment.

Actions. One registry access is one step, so `SetAuto` is `WriteAutoCheck` then
`WriteAutoLast`, `InstallSkip` is `SkipReqVersion` then `SkipReqTime`,
`IsSkipped` is `IsSkippedVersion`, `IsSkippedTime`, `UnskipVersion`,
`UnskipTime`, and `Status` is `StatusInterval`, `StatusStamp`, `StatusCheck`.
Reads that follow each other (a value and the interval it is compared with) are
one step: no other part of the library writes the intervals. Everything the user
can do at a dialog is an action of its own (`PromptNo`, `ChooseSkip`,
`DialogAuto`, ...). `RegistryThrows` is a failing registry call, `Crash` the
death of the copy.

History variables (`promise`, `asked`, `refused`, `lastAuto`) record what the
user said and when a check was decided. Actions only write them.

Abstractions. Time is in whole days. Versions are ordered integers; a version
is one word (`AutoVersion.h:92`), so the stream extraction in
`ReadConfigValue` reads all of it. `AppVersion` does not change: a launched
installer replaces the program after the call. `IsAvailable` and `InstallNow`
are reduced to their outcomes. `HKLM` is readable and not writable, so `Reset`
throws where the machine's key exists. `ExecuteDump` only reads. The
`interactive` flag only decides which dialogs are shown. `AutoSkip`,
`AutoChannel` and `AutoHost` are never read and are left out. A call runs on a
fresh `AutoUpdater`, as the C interface does it. An exception out of a graphical
dialog's handler is taken to reach `Execute`.

### Transfer and Download

`Transfer` is the promise: jobs are given one at a time, each runs to an end,
and each is answered; the answer comes after the end unless the application is
quitting. `Download` is the code. `client` is the thread in `get`,
`completion`, `cancel` or the end of scope; `worker[c]` is where the thread of
context `c` is in `threadproc` and `execute`; `context[c]` holds the fields of
the `DownloadContext`; `sink[c]` is the sink on the client's stack. Regions
under `DownloadContext::lock` are one step each, and so is a call of WinINet.
The refinement maps a context to its job: `JobOf(c)` is "running" while the
worker is in `execute`, then "done" or "failed" by the field `success`.

Abstractions. WinINet and the file system are external: a resource is `Blocks`
blocks, and any call may fail. The status dialogs for a proxy (`goto again`,
`AutoDownLoad.cpp:579-595`) are left out, because `enable_login_` is never set.
The notifications of the callback are left out but for the one that stores a
handle. `cancel` and the destruction of a `Download` that holds a context have no
caller in the repository; they are modelled because they are its interface.

### ProgressUI

`AutoDialogUI` over `CProgressDialog` and `AutoConsoleUI` over `TProgressBar` are
one module, because they promise the same thing to the same callers; `ui` says
which is in use. `held` is the interface's `progress_`; `client` starts and stops
indicators, `reporter` is the download worker that reads `progress_` once and then
uses what it read, `thread[s]` is the indicator's own. `object[s]` has the fields,
`lock[s]` the critical section: `SetProgress` holds it over its test and leaves it
*before* it sends a message, so taking and leaving it are steps; everything else
under the lock is one step. A poll of the console is two steps (`Look`, `Stores`),
since what was found is stored later and nothing orders two askers. Peeking at the
buffer and taking the key out are one step: two threads that peek at the same key,
of which the second then waits for another (`VTSupport.h:531-532`), are not modelled.

External: a sent message is handled by the window's thread while its sender waits
(`HandleUpdate`, `HandleCancel`, `HandleDestroy`), or returns at once if the window
is gone; creating and destroying a window is taken to need nothing of the client's
thread. `StartProgressDialog` waits for the start event and for WM_QUIT in a pump
that peeks without removing: a message posted to the thread and to no window keeps
it turning, and `posted` records that. Painting is reduced to the value shown.

### Indicator

The state both flows share. A cancel of the dialog is in its flag at once (`Button`).
On the console the user presses ESC (`Escape`), and it takes a poll to notice:
`Look` takes the key out of the buffer, `Store` writes what was found, later and
without a lock, and what `HasUserCancelled` returns is read after that. The client
asks (`Ask`, then `Told`), the bar's thread and the download's worker look when they
like while the indicator is up. `Overlaps` says that another thread has looked and
not stored. `Forget` is the end of `ProgressStop`, which waits for the bar's thread;
`Stop` is the whole of it, for the callers that ignore its answer.

### InstallFlow

State. `pc` goes through `GetTargetName`, the download, `Verify` and
`CreateProcess`, back to the dialog (`menu`), then `report` and `clean`; `dir` and
`image` are the temporary directory and file of each attempt, `tempfile` the one
`d_tempfile` names. The worker's steps (`Append`, `Finish`) are `Transfer`'s, and
write the file: it may be anything, since a server may send anything. `Verify`
reads it and the `host`'s kind of key. The worker polls the indicator after each block,
the bar's thread whenever it likes, `InstallNow` once (`Ask`, `Stores`,
`ProgressCancelled`). `Cancel` may come at any moment an indicator of the dialog is
shown and, on the console, at any moment at all, since a key may be typed ahead; `Quit`
at any moment. `VerifyThrowsOpen` is the one exception that leaves the file open
(`AutoUpdater.cpp:1028`): it stays, and so does its directory (`Removable`).

One attempt is one press of the button; the graphical dialog stays open after a
failure, the console does not. Every exception `Verify`, `GetTargetName` or the
registry throws goes through `Throw`, the catch of `Execute`, and then `CleanTemp`
and the interface's destructor, which are one step: the message box Execute shows in
between, with the indicator perhaps still up, is left out. A manifest without any
digest is not modelled, nor what `CryptGetHashParam` failing would make of one
(`AutoUpdater.cpp:1065-1067`).

### Manifest, Version, Availability

`Manifest` builds *every* well-formed document, one event at a time, and runs
`OnStartElement`, `OnEndElement` and `OnText` on it: `document` is what is open in
the text, `ctx` is the `ParserContext`. Text is a sequence of digits, and only the
order of the elements that hold it matters, so two of them stand for all. The
selection weight is computed with its 12-bit mask. Of the host's system only the major
version counts: the minor one (`AutoManifest.cpp:328-332`) and a failing `GetVersionEx`
are left out.

`Version` takes a text apart into epoch, upstream and revision. The loop over two
components ends at the first pair of tokens that differs, or at the end of the shorter
one, and so does `CompareComponent`. A token is a number or a character by its code, so
that the special cases of `~`, digits, letters and the end are the code's own; a
number saturates at `MaxLong`. A sign is a character, and where `strtol` would take
it with the digits that follow, `Compare` does.

`Availability` is `IsAvailable`: the exception when no address is configured, the
indicator, GitHub's endpoint with its own download and any way it can end, the
manifest's download, the parse (`ParserNext`, interleaved with nothing: a cancel, a
poll or WM_QUIT during it commutes with it), keys, versions, notes, and the question
`ProgressStop` asks last (`AskLast`, then `Stop`). `console` says whose indicator it
is. No worker polls here: `StringDownloadSink` never asks. Which versions meet is
chosen when they are read.

### Logger

One action per region under a lock: `Find` (the loop over `tls_values`, under
`tls_lock`), `Make` (a new buffer in a new slot, or in none when they are used up),
`Compose`, `Write` (the flush, which takes the Logger's `lock_`), `OpenInstance`,
`ReleaseInstance` and `Deleted`, `DetachEnters` and `DetachDestroys`. `ThreadStarts`
gives an id back to a new thread: the slot is found again. A thread that still
holds the deleted Logger may lose its line or crash (`Crash`).

## 4. The runs

| Run | Instance | Distinct states | Shows |
|---|---|---|---|
| `single` | 1 copy, 2 releases, all 7 modes, 3 hosts, 3 days, 1 fault | 4.6 million | refusals, skip-requests, spacing and the console's return code |
| `two` | 2 contexts, 2 blocks, both kinds of url | 1.5 million | lifetimes, whole answers, implementation of `Transfer` |
| `live` | 1 context, 2 blocks, fairness | 3118 | no leak, always an answer |
| `shows` | 2 indicators of 1 report, both interfaces, fairness | 0.4 million | lifetimes, cancels, stop always returns, what is stopped is deleted |
| `install` | 2 attempts, both interfaces, 3 kinds of trust, fairness | 0.1 million | what is launched, left behind and reported; an answer always comes |
| `check` | the dialog: documents of 6 events, 3 deep; 3 channel names; 12 versions; the console: 4 events, 2 versions | 7.0 million | the item taken, the answer, and the order of versions |
| `logger` | client and 2 ids, 2 lives each, 2 slots, 1 call, fairness | 0.1 million | buffers, slots, and that no thread waits for ever |
| `skipforever` | 2 copies | violation | a torn skip-request never expires |
| `unspaced` | 1 copy, AutoCheck set by hand | violation | checks that are not spaced |
| `notreset` | 1 copy, graphical | violation | a reset that resets nothing |
| `lostcancel` | the console, 4 events | violation | a check answered against a cancel made in time |
| `betaoffered` | the dialog, 4 events | violation | 1-b offered to 1 |

**Bounds.** Intervals are one day in the runs, so three days are enough for a
request to be made, honoured, lapse and be made again, and for two checks to be
due. Two releases are enough for a request to be about another one than the feed
carries. `AppVersion = 1` in `single` makes one of them no news. One fault is
enough to tear any two-value update; two copies, in `skipforever`, to interleave any
two. What `single` shows of refusals and requests with one copy is proved of any number.
The three hosts differ in everything the code looks at: console, emulated
deletion, settings in the machine's hive (checks on, skips without end). In
`two`, a second download is what it takes to overlap with a worker left behind
by the first, and two blocks put a cancel between blocks. Contexts are never
reused, so a run stops when they are used up and deadlock is not checked there;
in `UpdateSession` it is. In `shows` a second indicator is what it takes to start
while the first, left by an exception or still stopping, is there; one report is
enough for the worker to hold one that is released. Two attempts in `install` are
what it takes to forget a directory, and to launch after a failure. In `check` six events are
enough for a channel with an item that has text and an enclosure, or for two items
or two channels; depth 3 for tags in tags; two elements with text for one to shadow
the other; `MaxLong = 20` makes 21 and 22 saturate. The polls of the console multiply
the states, so there a constraint (`ConsoleIsShort`) keeps to the smallest documents with
an item to choose and to two versions, one newer than the other. The twelve version texts have an
epoch, a revision, tildes, a letter, an empty component and too large numbers;
`ASSUME AutoVersionTest` evaluates the expectations of `AutoVersionTest.cpp:23-63`.
In `logger` three ids against two slots use the table up, and a second life gives an
id back. These four systems stop too (attempts, indicators, documents, calls and
lives are used up), so deadlock is not checked: `StopReturns`, `InstallAnswers` and
`ThreadsGetThrough` say instead that nobody is left waiting; `check` has no loop and
no lock.

**Fairness.** In `live`, the client's thread and each worker are scheduled (weak
fairness of `Client` and of each `Worker(c)`): a pump loop with a 100 ms timeout,
and WinINet calls that time out, never block for ever. In `shows`, the steps that
end a call of the client, the worker and the indicator's threads are weakly fair;
`StopForgets` and `SetProgress` are strongly fair, because they enter a critical
section that others hold briefly and leave (the bar's thread sleeps between two
paints). The dialog's `HandleCancel`, the user's keys and messages posted by others
are not assumed to happen. In `install`, the client is scheduled and `Finish` is
strongly fair: the worker polls only after a block and stores what it found (weakly
fair), and blocks end, which is what `AnswersAlways` shows of `Download`. In `logger` each thread
gets a critical section that is again and again free (strong fairness of
`Proceeds`); a line or a call need not begin. Nothing is assumed of the user, of
WM_QUIT, of a cancel, or of a crash. The reference count makes `NothingLeaks` hold
with WM_QUIT too; downloads given up by `cancel` or the destructor are excepted
because the code does leak them (`AutoDownLoad.cpp:155, 208`).

**Exceptions written into properties.** `SkipHonoured` and `SkipLapses` are for
one copy: with two, `skipforever` shows how a request is torn.
`ChecksSpacedUnlessFault` leaves out a death between the two writes of `SetAuto`,
and AutoCheck in the machine's hive, which `unspaced` explains.
`SinkOutlivesWorker` leaves out WM_QUIT (`AutoDownLoad.cpp:347`) and downloads
given up, where the sink really may die first.
`UsedIsAlive` and `PutAway` of `ProgressUI`, and `StoppedIsDeleted`, leave out a
worker that the quitting application left behind: it owns no reference to the
indicator it reads. `CancelTold` leaves out two polls of the console that overlap:
the one that found nothing may store its answer last (`TProgressBar.cpp:225`).
`StopReturns` leaves out a message posted to the client's thread, on which the pump
of `StartProgressDialog` turns without end. `CancelIsFinal` and `AnswerIsTrue` have
the exception of `CancelTold`, and no other: `raced` records that one thread looked
for ESC while another had looked and not stored. It can only happen on the console;
`lostcancel` shows what follows.
`TempIsSettled` leaves out a directory that a later attempt made forgotten, a file that
`Verify` left open, and one that a worker still writes after WM_QUIT.
`LaunchIsReported` leaves out an earlier failure, whose error is never cleared, and a
registry that throws. `FailureTold`
leaves out a manifest whose download could not begin (`silent`): `IsAvailable` then
fails without a message, and `Execute` returns 0 as if nothing had been due.
`VersionOrder` is about texts in which no component has a sign where the other
ends: `1.` equals `1.+0`, which equals `1.+`, and yet `1.` is less than `1.+`.
`SlotsSuffice` says when a line is lost, because lines are: the 33rd id has no slot.

**Disagreements with the documentation** are the five violation runs; the
findings in `PROJECT.json` quote the lines. `VersionOrder` says only that the order is
one: that it is not the documented one, `betaoffered` shows. Others were met and have no
run:

* `AutoVersion.h:40` says that 7 comes after 2003; the code has 7 before 2003.
  `AutoVersionTest.cpp:65-76` asserts that 1.0 equals 1; the code has 1.0 greater.
* The graphical install dialog's skip and later make `Execute` return 2, which
  `AutoUpdater.cpp:379` calls "installed": `AutoDialogUI::InstallDialog` answers 1 for
  everything but a cancel (`AutoDialog.cpp:91-99`). An installer that was started after
  an attempt failed is reported as -1 (`AutoUpdater.cpp:407-410`).
* `CleanTemp` is to "release temporary resources" (`AutoUpdater.cpp:159`): it cannot
  when `Verify` has left the file open (1028), and of several attempts it knows the last
  (927-928). `TempIsSettled` says so.
* `AutoLogger.h:78-82` says a Logger is usable until it is released; a callback of
  WinINet may log after the completion event, when the client is free to release it.
* `AutoDownLoad`'s `StringDownloadSink` never asks for a cancel, closing the install
  dialog during a download does not cancel it, and a cancel during the verification
  is ignored (`AutoUpdater.cpp:783`).
* `GitHub::IsEndpoint` looks for any one of the characters of an address, so many
  addresses with a `~` count as GitHub's; the module lets any address be one.
* The error for tags in tags is unreachable, because the inner end tag ends both
  (`AutoManifest.cpp:610`); levels may then fall below zero. Attributes of one
  element are read at the wrong index (`AutoManifest.cpp:510, 538`), which is why
  what is only copied from an attribute is left out. `Load` ignores its system label.

## 5. The proofs

`UpdateSessionProofs` proves, for any number of copies, hosts, hives, faults and
days, `TypeCorrect`, `RefusalIsKept` and `SkipIsAsked`, from the module's four
assumptions (the sentinels are neither integers nor requests, releases are integers, nobody but
the library writes the internal settings at the start, the bounds are naturals).
The inductive invariant `Inv` has four parts. `TypeOK`; `Good`, which says of each
call that a release is on offer where it must be and that a call past the version
test of `IsSkipped`, or about to write a request, has a release somebody asked to
skip; `RefusalStored` (while the user's last word is no, the user's hive holds
AutoCheck 0, which is what makes `RegistryRead`'s order of hives matter); and
`SkipStored` (any release in SkipVersion was asked for). The two action
properties do not follow from `TypeOK`: the first needs the registry to agree
with the user's word in every interleaving, the second needs it both of the
registry and of the calls that read it a step earlier.
It also proves `ConsoleTellsInstalled`: on the console a call is either one that has
launched nothing and will not return 2 (`Unlaunched`), or one that launched and whose
remaining steps all lead to 2, unless the registry throws (`Launched`). That invariant
(`Tells`) needs no more than `TypeOK`, but every action has to keep it,
which `Keeps` says once for those that touch none of the fields concerned.

Three more of its theorems say of time what holds while one copy runs (`Proc = {c}`).
With two copies they are false, as one may clear or stamp what the other has just
read; TLC, too, checks them with one. `SkipIsHonoured` and `SkipDoesLapse` are two sides
of one invariant, `Requests`: what the user is owed is in the registry, version and
time, or its days have run; a call about to clear a request clears one that is owed no
more; and what is found in the registry while nothing failed is owed. The request is
written in two steps and cleared in two, so the invariant says for each of them what is
half there, and a copy that dies, or a write that throws, between the two leaves a state
it covers. `ChecksAreSpaced` carries `Spaced`: in AutoLast stands the time of the last
automatic check, or of a later stamp, wherever the next one may be decided. Its second
hypothesis, that no host was configured with AutoCheck 1 before the program ran, is
about what `SetAuto` cannot have written: it stamps AutoLast together with the switch,
and a switch without a stamp is the one way to a first check that is due at once.

`DownloadProofs` proves `TypeCorrect` and `NoUseAfterDelete` for any number of
contexts and blocks. The invariant counts: the references of a context are
exactly the client's claim plus the worker's, and at least the client's claim
once it was given up; a context in use is therefore never at zero. It also ties
`Reference` and `Resume` to their place in `start`, where the worker does not yet
exist.

`TransferProofs` goes on from there to what `Download` is for: `SinkIsAlive`,
`YesIsTrue`, and `ImplementsTransfer`, that every behaviour of the two threads is one
of `Transfer`. Its invariant, `Promise`, adds three parts. `Answered` is who waits for
whom: a client that has begun a download and not answered for it is in `start`, in
`completion` or in `cancel`, and its sink is on the stack; a worker still executing has
a client that waits, unless the application quits or the client withdrew. `Stored` is
what the sink was given by the time its worker is where it is, so that success, which
is stored before the event is set, means a whole resource. `InOrder` says that contexts
are made one after the other, which is what `Turn` asks for. Of each step the proof
then says which job it is about: it begins, refuses, ends, settles or withdraws that
one and leaves the others (`OneJob`), or it changes no job at all (`NoJob`). The
liveness half of `Transfer`, `AnswersAlways`, stays with TLC.

`InstallFlowProofs` proves all the module's invariants for any number of attempts,
interfaces and kinds of key. The five properties speak of different moments, so the
inductive invariant says what connects them: which attempt the program counter is
about and that later ones have not begun (`Attempted`); that the directory of the
current attempt is there and is the one remembered, and that one which cannot be removed
means an exception and the end (`Kept`); that a job runs only while `InstallNow` waits
for it, or after the application quit, and that what is about to be started passed
`Verify` (`Watched`); that the indicator is shown only where one was started (`Hidden`);
that only the console's is polled and that, until two polls overlap, the one thread that
polls does so for what is not known yet (`Polled`); that a cancel made in time is in the
flag, in the hands of the thread that took it, or in the console's buffer, until
`InstallNow` has asked, and in its answer after (`Noticed`); and that an error, an
exception and a launch each leave their mark on the code returned (`Reported`).
`TempIsSettled` is about every attempt's directory. `LaunchedIsVerified` needs
`Watched`: the file verified is not written any more *because* the answer was yes.

`LoggerProofs` proves `OwnBuffer` and `SlotsSuffice` for any ids, slots and lives.
A buffer belongs to an id and not to a thread, so the invariant has to say that a
slot found again still holds the buffer its id made (`Housed`), that ids in the table
are distinct (`Distinct`), and that the buffers in the table are exactly those
allocated (`Allocated`); that a buffer can be made at all is a pigeonhole argument
over the slots (`FreshBuffer`).

`ProgressUIProofs` proves `TypeCorrect` and `NoUseAfterDelete`, for either
interface and any number of indicators and reports. The invariant counts references:
the client's claim plus that of the indicator's thread (`Counted`); the client works on
the indicator that is `held` (`ClientKeeps`), and so does the worker, which has no
reference and is safe because the client does not leave the job while there is a
worker, unless the application quits (`ReporterKeeps`).
On top of it, `Away` proves `StoppedIsPutAway` and `ShownIsReported`. `Visible` follows
the window: it is open only while its thread is there to destroy it; until it is made
the client waits in the handshake with the trigger unset, and from then on the client
has its handle or is destroying it. `Stopping` says that a client on its way through
`ProgressStop` has been given the answer, so that an indicator somebody was told of is
off or is being stopped. `Pictured` follows a report: what the dialog shows is what the
fields hold, or the reporter is about to send the message with the flag still up; this
is where a cancel, a report and a repaint meet.
On top of `Away` in turn, `Heard` proves `CancelIsTold`. A cancel of the dialog is in its
flag at once. On the console it is first a key in the buffer, then in the hands of the
thread that took it from there, and only then in the flag, while the other thread may
be about to write what it found earlier. `Caught` says that it is always in one of the
three; `OnePoll`, that until two polls have overlapped the one thread that polls does
not unsay the flag; `Owned`, that a key pressed is a key for the indicator that is
shown, as the bar has one at a time.

`VersionProofs` proves that for all texts, and any width of a `long`, exchanging two
versions exchanges the sign of their comparison: two applications never each offer
the other's version as newer. Both calls stop at the same place, since the tokens that
differ are the same ones both ways (the least of them exists by well-foundedness); at
the place, and at the end of the shorter component, the sign is exchanged case by case.
`CompareIsTransitive` is that the comparison is an order. Each component is given a
`Key`, a sequence of numbers that never ends, in which the end stands between a tilde
and a digit, and a component that ends among characters goes on with a zero, which is
what `strtol` makes of an empty rest. Components compare as their keys do, by the first
place where they differ (`ComponentKeys`), and so do epoch, upstream and revision. The
theorem's hypothesis, `UnsignedVersion`, is needed: where a sign stands between a
character and a number the code's comparison is no order (`1.+0` equals both `1.` and
`1.+`, and they differ). It is a condition on each text alone.

`AvailabilityProofs` proves `AnswerIsTheTruth` and `FailureIsTold` for every document,
set of versions, outcome of the downloads and kind of indicator, from
`AvailabilityAssumption` (versions are texts of tokens, and the interface is the
console's or not) and `VersionProofs`, which gives the comparison its type. The invariant
counts the downloads begun by where the check is (`Numbered`), says that it goes on only
after a yes (`Downloaded`), that nothing is decided before the comparison (`Undecided`),
and that what is about to be returned is the truth but for the last question
(`Decided`). `Polled` and `Noticed` are what they are in `InstallFlowProofs`: while polls
do not overlap, a cancel in time is in the flag, in the hands of a thread, or in the
buffer, until `ProgressStop` has asked and the client has it. Each step then keeps two
things apart, the flow (`StepFlow`) and what is known of a cancel (`AnotherStep` for the
steps that leave the indicator alone, a lemma each for the others). Of the parser these two use only that an item that is selected is an item.

The rest of the module is about the parser, from `ManifestAssumption` (channel names
include the omitted one, the kinds of element are distinct, the bounds are naturals).
It proves `ChannelIsHonoured`, `TextStaysOwn` and `TypeCorrect` for documents of any
length and depth, over any fields and channels. `ParserInv` relates what is open in the
text, which the code does not keep, to the few flags and levels it does:

- `InChannel`: at most one channel is open, the status says whether it is one that was
  asked for, and all items loaded so far are its own, or stand in none;
- `InOpenItem` and `ItemAt`: an open item is the p-th open element and its tags, if they
  are open, the t-th, and the level of a field is the number of its elements open
  between the two. `OnEndElement` lowers a level whatever stood between, so with tags
  inside tags a level only stays below that number: `nested` is what tells the two apart;
- `Labelled` and `Leveled0`, which outlive the parse: an item keeps the label of its
  channel, and a level is between nothing and the number of events.

That a field open just once is open within its item, and not through the tags, follows
by counting (`OwnField`). Each handler has a lemma of its effects on each field
(`StatusEffects` to `TextEffects`), each event a lemma that it keeps the invariant.

`ChosenIsSuitable` is about the selection: the two highest bits of a weight are the
rank and the others the minimum system, of which the mask takes nothing away as it is
not above the host's (`WeightFacts`), so the first of the heaviest suits best. It needs
that a text spells a natural number. That is induction over data, and the library's
theorems for it cannot be instantiated; `SpellingExists` and `NumberType` get it from
the least counterexample instead: the least place up to which the fold is not a
function, or not a number.

`VersionsAreOrdered` puts the last theorem of `VersionProofs` to use, for any set of
versions that meets its hypothesis, as the versions of the run do.

Three things came out of these proofs. Handlers of the parser that had been written as a
CASE whose guards overlap are now an IF with the code's order; the sentinels of the
registry had not been assumed to differ from a request; and that `FieldOrder` is a
sequence of names had not been said.

Every invariant and every action property of the passing runs is thus a theorem, and so
is the refinement of `Transfer` without its fairness. Only model-checked is all that is
about liveness: `NothingLeaks` and `AnswersAlways` of `Download`, `StopReturns` and
`StoppedIsDeleted` of the indicators, `InstallAnswers`, and `ThreadsGetThrough` of the
log. Liveness under fairness, and ENABLED, are out of the prover's reach.

## 6. Not modelled

* *Cryptography* (`AutoEd25519.cpp`, `ed25519/`), *JSON and XML libraries* (`cjson/`,
  `expat/`): computation on data that no property here tells apart. Their callers are
  modelled over every outcome they can have. They are most of the lines of this
  repository, so the map covers a small share of all lines and a large one of `src/src`.
* *Painting, layout, localisation, the release notes browser*: pure output.
* *The command line tools* (`update/`, `sign/`, `util/`): sequential programs that
  parse arguments, call one function and write files.
* *In-memory settings*: setters and lazily derived defaults of `Config`; each is one
  assignment, and only their order in `updatetoolshim.cpp` is a hazard, listed.
* *The detach of the process* (`DLL_PROCESS_DETACH`), which frees the table of
  buffers when no other thread of the process runs any more.
* *The dialogs that ask a proxy's password* (`AutoDownLoad.cpp:579-595`): never enabled.

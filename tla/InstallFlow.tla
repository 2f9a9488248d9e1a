---------------------------- MODULE InstallFlow -----------------------------
(***************************************************************************)
(* InstallNow, from the moment the install dialog asks until Execute has    *)
(* reported: the temporary file, the two progress indicators, the download, *)
(* Verify, CreateProcess, and a second try after a failure.  The download   *)
(* is what Transfer promises of it: InstallFlow gives it one job for each   *)
(* attempt, and the worker, writing to the temporary file, is Transfer's.   *)
(* Indicator is what the user can do to the progress indicators, and who    *)
(* notices it.                                                              *)
(***************************************************************************)
EXTENDS Integers

CONSTANTS
  Attempts,   \* bound: how often the user asks to install
  Interface,  \* interfaces: "dialog", which stays open after a failure, and "console"
  Trust       \* what the manifest and the application's keys let Verify check

Attempt == 1..Attempts
None    == 0

(* No key is configured; a key that fits the manifest's signature; a key     *)
(* that does not, for any of the reasons Verify throws for.                  *)
TrustKind == {"digest", "signature", "unusable"}

ASSUME InstallAssumption ==
  /\ Attempts \in Nat
  /\ Interface \subseteq {"dialog", "console"}
  /\ Trust \subseteq TrustKind

VARIABLES
  host,      \* the interface, and what Verify can check; never change
  pc,        \* where InstallNow, and Execute around it, are
  tempfile,  \* d_tempfile and d_tempdir: those of an attempt, or None
  attempt,   \* the attempts so far
  dir,       \* the temporary directory of each attempt
  image,     \* the file in it
  progress, key, poll,   \* of Indicator
  getfile,   \* the download was answered "yes"
  wasCancelled,
  lastError, \* d_lasterror is not empty
  ret,       \* what Execute returns
  job, answer, quitting,   \* of Transfer
  \* history, read by the properties only:
  pressed,   \* the user cancelled the download of this attempt in time
  raced,     \* two polls of the console overlapped during this attempt
  launched,  \* the attempts whose installer was started
  failed,    \* the attempts that ended with an error
  threw      \* an exception reached Execute

indicator == <<progress, key, poll>>
flow      == <<pc, tempfile, attempt, dir, indicator, getfile, wasCancelled, lastError, ret>>
history   == <<pressed, raced, launched, failed, threw>>
vars      == <<host, flow, image, job, answer, quitting, history>>

T == INSTANCE Transfer WITH Job <- Attempt

Poller == {"client", "worker", "bar"}

I == INSTANCE Indicator WITH console <- host.interface = "console"

-----------------------------------------------------------------------------
Pc == {"menu", "target", "start", "get", "wait", "ask", "answer", "stop", "verify.start", "verify",
       "verify.stop", "create", "done", "report", "clean", "ended"}

(* "partial": too short.  "other": it has the manifest's length, and no more. *)
(* "digest": its length and digest, but nobody signed it. *)
Image == {"none", "partial", "other", "digest", "release"}

(* "open": Verify left a handle to the file in it. *)
Dir == {"none", "made", "open", "removed"}

Init ==
  /\ host \in [interface : Interface, trust : Trust]
  /\ pc = "menu" /\ tempfile = None /\ attempt = 0
  /\ dir = [a \in Attempt |-> "none"]
  /\ image = [a \in Attempt |-> "none"]
  /\ I!Init
  /\ getfile = FALSE /\ wasCancelled = FALSE /\ lastError = FALSE
  /\ ret = 3
  /\ T!Init
  /\ pressed = [a \in Attempt |-> FALSE] /\ raced = [a \in Attempt |-> FALSE]
  /\ launched = {} /\ failed = {} /\ threw = FALSE

(* A step of the client's thread that leaves the worker alone. *)
Alone == UNCHANGED <<host, image, job, answer, quitting>>

(* The catch of Execute. *)
Throw ==
  /\ pc' = "clean" /\ ret' = -1
  /\ threw' = TRUE

-----------------------------------------------------------------------------
(* OnBnClickedInstallNow, or 'y' at the console. *)
Press ==
  /\ pc = "menu"
  /\ attempt < Attempts
  /\ attempt' = attempt + 1
  /\ pc' = "target"
  /\ UNCHANGED <<tempfile, dir, indicator, getfile, wasCancelled, lastError, ret, history>> /\ Alone

(* GetTargetName: a new directory, and the one of an earlier attempt is      *)
(* forgotten; or no directory can be made.                                   *)
GetTargetName ==
  /\ pc = "target"
  /\ dir' = [dir EXCEPT ![attempt] = "made"]
  /\ tempfile' = attempt
  /\ pc' = "start"
  /\ UNCHANGED <<attempt, indicator, getfile, wasCancelled, lastError, ret, history>> /\ Alone

NoTargetName ==
  /\ pc = "target"
  /\ Throw
  /\ UNCHANGED <<tempfile, attempt, dir, indicator, getfile, wasCancelled, lastError,
                 pressed, raced, launched, failed>> /\ Alone

ShowDownload ==
  /\ pc = "start"
  /\ I!Start
  /\ pc' = "get"
  /\ UNCHANGED <<tempfile, attempt, dir, getfile, wasCancelled, lastError, ret, history>> /\ Alone

Get ==
  /\ pc = "get"
  /\ \/ T!Begin(attempt) /\ pc' = "wait"
     \/ T!Refuse(attempt) /\ pc' = "ask"
  /\ getfile' = FALSE
  /\ UNCHANGED <<host, image, tempfile, attempt, dir, indicator, wasCancelled, lastError, ret,
                 history>>

CompletionOfSuccess ==
  /\ pc = "wait"
  /\ job[attempt] = "done" /\ T!Settle(attempt)
  /\ getfile' = TRUE
  /\ pc' = "ask"
  /\ UNCHANGED <<host, image, tempfile, attempt, dir, indicator, wasCancelled, lastError, ret,
                 history>>

Completion ==
  /\ pc = "wait"
  /\ T!Settle(attempt)
  /\ getfile' = (answer'[attempt] = "yes")
  /\ pc' = "ask"
  /\ UNCHANGED <<host, image, tempfile, attempt, dir, indicator, wasCancelled, lastError, ret,
                 history>>

Overlapped(a) == raced' = [raced EXCEPT ![attempt] = @ \/ I!Overlaps(a)]

Ask ==
  /\ pc = "ask"
  /\ I!Ask("client") /\ Overlapped("client")
  /\ pc' = "answer"
  /\ UNCHANGED <<tempfile, attempt, dir, getfile, wasCancelled, lastError, ret,
                 pressed, launched, failed, threw>> /\ Alone

Stores(a) ==
  /\ I!Store(a)
  /\ UNCHANGED <<pc, tempfile, attempt, dir, getfile, wasCancelled, lastError, ret, history>>
  /\ Alone

AnswerNothing ==
  /\ pc = "answer" /\ I!Told("client")
  /\ wasCancelled' = FALSE
  /\ pc' = "stop"
  /\ UNCHANGED <<tempfile, attempt, dir, indicator, getfile, lastError, ret, history>> /\ Alone

ProgressCancelled ==
  /\ pc = "answer" /\ I!Told("client")
  /\ wasCancelled' = progress.cancelled
  /\ pc' = "stop"
  /\ UNCHANGED <<tempfile, attempt, dir, indicator, getfile, lastError, ret, history>> /\ Alone

(* InstallNow returns false.  The console takes that for its answer; the     *)
(* dialog lets the user try again. *)
ReturnFalse(error) ==
  /\ lastError' = (lastError \/ error)
  /\ failed' = IF error THEN failed \cup {attempt} ELSE failed
  /\ IF host.interface = "console" THEN pc' = "report" ELSE pc' = "menu"

StopDownload ==
  /\ pc = "stop"
  /\ I!Stop
  /\ IF getfile /\ ~wasCancelled
       THEN pc' = "verify.start" /\ UNCHANGED <<lastError, failed>>
       ELSE ReturnFalse(~getfile /\ ~wasCancelled)
  /\ UNCHANGED <<tempfile, attempt, dir, getfile, wasCancelled, ret, pressed, raced, launched, threw>>
  /\ Alone

ShowVerify ==
  /\ pc = "verify.start"
  /\ I!Start
  /\ pc' = "verify"
  /\ UNCHANGED <<tempfile, attempt, dir, getfile, wasCancelled, lastError, ret, history>> /\ Alone

-----------------------------------------------------------------------------
(* Verify: the length, the digest, and the signature if there is a key. *)
PassesOnLength(file, trust) == file \in {"other", "digest", "release"}

Passes(file, trust) ==
  \/ file = "release"
  \/ file = "digest" /\ trust = "digest"

Verify(passed) ==
  /\ pc = "verify"
  /\ host.trust # "unusable"
  /\ image[attempt] # "none"
  /\ passed = Passes(image[attempt], host.trust)
  /\ pc' = IF passed THEN "create" ELSE "verify.stop"

VerifiedWithoutStop ==
  /\ Verify(TRUE)
  /\ UNCHANGED <<tempfile, attempt, dir, indicator, getfile, wasCancelled, lastError, ret, history>>
  /\ Alone

(* What the user did to this indicator is not looked at. *)
Verified ==
  /\ Verify(TRUE)
  /\ I!Stop
  /\ UNCHANGED <<tempfile, attempt, dir, getfile, wasCancelled, lastError, ret, history>> /\ Alone

NotVerified ==
  /\ Verify(FALSE)
  /\ I!Stop
  /\ UNCHANGED <<tempfile, attempt, dir, getfile, wasCancelled, lastError, ret, history>> /\ Alone

VerificationFailure ==
  /\ pc = "verify.stop"
  /\ ReturnFalse(TRUE)
  /\ UNCHANGED <<tempfile, attempt, dir, indicator, getfile, wasCancelled, ret,
                 pressed, raced, launched, threw>> /\ Alone

(* No key that fits, no file, or a failing call: the indicator stays. *)
VerifyThrows ==
  /\ pc = "verify"
  /\ Throw
  /\ UNCHANGED <<tempfile, attempt, dir, indicator, getfile, wasCancelled, lastError,
                 pressed, raced, launched, failed>> /\ Alone

(* No memory for the buffer: the file, of the right length, is not closed. *)
VerifyThrowsOpen ==
  /\ pc = "verify"
  /\ host.trust # "unusable"
  /\ PassesOnLength(image[attempt], host.trust)
  /\ dir' = [dir EXCEPT ![attempt] = "open"]
  /\ Throw
  /\ UNCHANGED <<tempfile, attempt, indicator, getfile, wasCancelled, lastError,
                 pressed, raced, launched, failed>> /\ Alone

-----------------------------------------------------------------------------
(* CreateProcess, then RetainTemp. *)
Launch ==
  /\ pc = "create"
  /\ launched' = launched \cup {attempt}
  /\ tempfile' = None
  /\ pc' = "done"
  /\ UNCHANGED <<attempt, dir, indicator, getfile, wasCancelled, lastError, ret,
                 pressed, raced, failed, threw>> /\ Alone

LaunchThrows ==
  /\ pc = "create"
  /\ Throw
  /\ UNCHANGED <<tempfile, attempt, dir, indicator, getfile, wasCancelled, lastError,
                 pressed, raced, launched, failed>> /\ Alone

(* The rest of Execute.  SetOnce writes to the registry, and may throw. *)
SetOnce ==
  /\ pc = "done"
  /\ \/ pc' = "report" /\ ret' = 2 /\ UNCHANGED threw
     \/ Throw
  /\ UNCHANGED <<tempfile, attempt, dir, indicator, getfile, wasCancelled, lastError,
                 pressed, raced, launched, failed>> /\ Alone

(* Later, skip, cancel, or the window is closed: the dialog's answer is that *)
(* of an installation for everything but a cancel. *)
LeaveMenu ==
  /\ pc = "menu"
  /\ pc' = "report" \/ (host.interface = "dialog" /\ pc' = "done")
  /\ UNCHANGED <<tempfile, attempt, dir, indicator, getfile, wasCancelled, lastError, ret,
                 history>> /\ Alone

ReportDialog ==
  /\ pc = "report"
  /\ ret' = IF lastError THEN -1 ELSE 1
  /\ pc' = "clean"
  /\ UNCHANGED <<tempfile, attempt, dir, indicator, getfile, wasCancelled, lastError, history>>
  /\ Alone

ReportDownload ==
  /\ pc = "report"
  /\ ret' = IF lastError \/ getfile THEN -1 ELSE ret
  /\ pc' = "clean"
  /\ UNCHANGED <<tempfile, attempt, dir, indicator, getfile, wasCancelled, lastError, history>>
  /\ Alone

(* An error of any attempt decides. *)
Report ==
  /\ pc = "report"
  /\ ret' = IF lastError THEN -1 ELSE ret
  /\ pc' = "clean"
  /\ UNCHANGED <<tempfile, attempt, dir, indicator, getfile, wasCancelled, lastError, history>>
  /\ Alone

(* A file that a worker or Verify still has open is not deleted, nor its     *)
(* directory.                                                               *)
Removable(a) ==
  /\ a = tempfile /\ dir[a] # "open"
  /\ job[a] = "running" => image[a] = "none"

CleanTempUnlessThrown ==
  /\ pc = "clean"
  /\ dir' = [a \in Attempt |-> IF Removable(a) /\ ~threw THEN "removed" ELSE dir[a]]
  /\ image' = [a \in Attempt |-> IF Removable(a) /\ ~threw THEN "none" ELSE image[a]]
  /\ tempfile' = None
  /\ I!Stop
  /\ pc' = "ended"
  /\ UNCHANGED <<host, job, answer, quitting, attempt, getfile, wasCancelled, lastError, ret,
                 history>>

(* CleanTemp, and the destructor of the interface stops what it still shows. *)
CleanTemp ==
  /\ pc = "clean"
  /\ dir' = [a \in Attempt |-> IF Removable(a) THEN "removed" ELSE dir[a]]
  /\ image' = [a \in Attempt |-> IF Removable(a) THEN "none" ELSE image[a]]
  /\ tempfile' = None
  /\ I!Stop
  /\ pc' = "ended"
  /\ UNCHANGED <<host, job, answer, quitting, attempt, getfile, wasCancelled, lastError, ret,
                 history>>

-----------------------------------------------------------------------------
(* The worker: the file, which needs its directory, a question whether the   *)
(* user cancelled, and the end of the job.  A cancelled job ends early and is *)
(* a success, and a server may send anything. *)
Append(a) ==
  /\ job[a] = "running" /\ image[a] = "none" /\ dir[a] = "made"
  /\ image' = [image EXCEPT ![a] = "partial"]
  /\ UNCHANGED <<host, flow, job, answer, quitting, history>>

Looks(a) ==
  /\ I!Look(a) /\ Overlapped(a)
  /\ UNCHANGED <<pc, tempfile, attempt, dir, getfile, wasCancelled, lastError, ret,
                 pressed, launched, failed, threw>> /\ Alone

WorkerLooks(a) ==
  /\ job[a] = "running" /\ image[a] = "partial"
  /\ Looks("worker")

Finish(a) ==
  /\ T!Finish(a) /\ I!Told("worker")
  /\ IF job'[a] = "done" /\ image[a] = "partial"
       THEN \E file \in Image \ {"none"} : image' = [image EXCEPT ![a] = file]
       ELSE UNCHANGED image
  /\ UNCHANGED <<host, flow, history>>

(* The user, while an indicator is shown, and the application.  ESC typed    *)
(* ahead stays in the console's buffer. *)
InTime == progress.up /\ pc \in {"get", "wait", "ask"}

Cancel ==
  /\ I!Button \/ (pc \notin {"menu", "ended"} /\ I!Escape)
  /\ pressed' = [a \in Attempt |-> pressed[a] \/ (a = attempt /\ InTime)]
  /\ UNCHANGED <<pc, tempfile, attempt, dir, getfile, wasCancelled, lastError, ret,
                 raced, launched, failed, threw>> /\ Alone

Quit ==
  /\ ~quitting
  /\ T!Quit
  /\ UNCHANGED <<host, flow, image, history>>

InstallNow ==
  \/ GetTargetName \/ NoTargetName \/ ShowDownload \/ Get \/ Completion
  \/ Ask \/ Stores("client") \/ ProgressCancelled \/ StopDownload \/ ShowVerify
  \/ Verified \/ NotVerified \/ VerificationFailure \/ VerifyThrows \/ VerifyThrowsOpen
  \/ Launch \/ LaunchThrows

Execute == SetOnce \/ Report \/ CleanTemp

Worker == Stores("worker") \/ \E a \in Attempt : Append(a) \/ WorkerLooks(a) \/ Finish(a)

Bar == Looks("bar") \/ Stores("bar")

Next == Press \/ LeaveMenu \/ InstallNow \/ Execute \/ Worker \/ Bar \/ Cancel \/ Quit

Spec == Init /\ [][Next]_vars

(* All threads are scheduled, and Transfer ends its jobs: the worker asks    *)
(* once for each block, and the blocks come to an end. *)
FairSpec == Spec /\ WF_vars(InstallNow \/ Execute) /\ WF_vars(Stores("worker"))
                 /\ \A a \in Attempt : SF_vars(Finish(a))

-----------------------------------------------------------------------------
(* Properties. *)

(* Every variable stays in its domain. *)
TypeOK ==
  /\ host \in [interface : Interface, trust : Trust]
  /\ pc \in Pc
  /\ tempfile \in Attempt \cup {None} /\ attempt \in 0..Attempts
  /\ dir \in [Attempt -> Dir]
  /\ image \in [Attempt -> Image]
  /\ I!TypeOK
  /\ getfile \in BOOLEAN /\ wasCancelled \in BOOLEAN /\ lastError \in BOOLEAN
  /\ ret \in {-1, 2, 3}
  /\ job \in [Attempt -> T!JobState] /\ answer \in [Attempt -> T!Answer] /\ quitting \in BOOLEAN
  /\ pressed \in [Attempt -> BOOLEAN] /\ raced \in [Attempt -> BOOLEAN]
  /\ launched \subseteq Attempt /\ failed \subseteq Attempt /\ threw \in BOOLEAN

(* The file of an installer that was started is still there, is what the    *)
(* manifest and the keys vouch for, and nobody writes to it, whatever quits, *)
(* fails or is tried again.  AutoUpdater.cpp:769-806, 1081-1095.             *)
LaunchedIsVerified ==
  \A a \in launched :
    /\ job[a] # "running"
    /\ dir[a] = "made"
    /\ image[a] = "release" \/ (image[a] = "digest" /\ host.trust = "digest")

(* A download cancelled before InstallNow asks is never installed, and is no *)
(* error, whoever takes ESC from the console, unless two of the threads that *)
(* look for it overlap: the one that found nothing may store that last.      *)
(* AutoUpdater.cpp:769-778, 834-857, TProgressBar.cpp:221-227.               *)
CancelIsFinal ==
  \A a \in Attempt : pressed[a] /\ ~raced[a] => a \notin launched \cup failed

(* When Execute is over, a directory it made is there only for an installer  *)
(* started from it, because a worker is still at its file, because Verify    *)
(* left the file open, or because a later attempt made it forgotten.         *)
(* AutoUpdater.cpp:139-164, 430, 925-928, 1027-1029.                         *)
TempIsSettled ==
  pc = "ended" =>
    \A a \in Attempt :
      dir[a] \in {"made", "open"} =>
        \/ a \in launched
        \/ answer[a] = "no" /\ quitting
        \/ dir[a] = "open" /\ threw
        \/ \E b \in Attempt : b > a /\ dir[b] # "none"

(* While the user is asked, and when Execute is over, no indicator is shown. *)
(* AutoUpdater.cpp:773, 788, AutoDialog.cpp:68-71.                           *)
NoProgressLeft == pc \in {"menu", "create", "ended"} => ~progress.up

(* A started installer is reported as 2, unless an earlier attempt failed or *)
(* the registry did: the last error is never cleared.                        *)
(* AutoUpdater.cpp:387-398, 407-410.                                         *)
LaunchIsReported == pc = "ended" /\ launched # {} => ret = 2 \/ failed # {} \/ threw

(* InstallNow always comes back to the user or to Execute's end, cancelled   *)
(* or not, whatever the worker meets.                                        *)
(* AutoUpdater.cpp:743-861.                                                  *)
InstallAnswers == pc = "target" ~> pc \in {"menu", "ended"}
=============================================================================

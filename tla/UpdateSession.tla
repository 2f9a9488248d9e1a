---------------------------- MODULE UpdateSession ----------------------------
(***************************************************************************)
(* One call of AutoUpdater::Execute per running copy of the application,    *)
(* over the registry settings that all the copies of one user share and     *)
(* that survive them.  A registry read or write is one step, so two copies  *)
(* interleave between any two of them, and a copy may die between any two.  *)
(*                                                                         *)
(* The feed, the clock and the users are the environment.  A step of the    *)
(* clock is one day: the code only compares times in whole days.            *)
(***************************************************************************)
EXTENDS Integers, Sequences

CONSTANTS
  Proc,         \* the running copies of the application
  Version,      \* releases the feed may carry, ordered as AutoVersion orders them
  AppVersion,   \* the version that is running
  Critical,     \* releases whose manifest says the update is critical
  Mode,         \* the modes the application passes to Execute
  Configured,   \* settings the user's hive (HKCU) may hold at the start
  Host,         \* how a host may be set up: the settings of the machine's hive
                \* (HKLM), GetConsoleMode() = 1, and RegDeleteKeyExA emulated
  NoValue,      \* the registry has no such value
  Empty,        \* the registry value is the empty string
  Horizon,      \* bound: the last day of the clock
  MaxFaults     \* bound: deaths and failed registry calls

(* The settings Execute reads, in the order of ConfigKeys. *)
ConfigKeys == << "AutoInterval", "AutoCheck", "AutoOnce", "AutoLast",
                 "SkipVersion", "SkipTime", "SkipInterval" >>
Key   == {"AutoInterval", "AutoCheck", "AutoOnce", "AutoLast",
          "SkipVersion", "SkipTime", "SkipInterval"}
Value == Int \cup {NoValue, Empty}

(* The settings the header of AutoUpdater.cpp invites users to configure;   *)
(* only the library writes the others.                                      *)
Tunable == {"AutoInterval", "AutoCheck", "SkipInterval"}

ASSUME SentinelAssumption ==
  /\ NoValue \notin Int /\ Empty \notin Int /\ NoValue # Empty
  /\ NoValue \notin [version : Version, at : Nat]

ASSUME ReleaseAssumption ==
  /\ Version \subseteq Int /\ Version # {}
  /\ AppVersion \in Int
  /\ Critical \subseteq Version

ASSUME HostAssumption ==
  /\ Configured \subseteq [Key -> Value]
  /\ Host \subseteq [machine : [Key -> Value], console : BOOLEAN, emulated : BOOLEAN]
  /\ \A k \in Key \ Tunable :
       /\ \A h \in Configured : h[k] = NoValue
       /\ \A h \in Host : h.machine[k] = NoValue
  /\ Mode \subseteq {"Reset", "Disable", "Enable", "Auto",
                     "Prompt", "IgnoreSkip", "Reinstall"}

ASSUME BoundAssumption == Horizon \in Nat /\ MaxFaults \in Nat

VARIABLES
  host,     \* this host; never changes
  user,     \* the user's hive
  now,      \* today
  feed,     \* the release the feed carries
  session,  \* what each copy's call of Execute is doing
  faults,   \* deaths and failed registry calls so far
  \* history, read by the properties only:
  promise,  \* the skip-request the user is owed, or NoValue
  asked,    \* every version the user ever asked to skip
  refused,  \* the last word of the user is "no automatic checks"
  lastAuto  \* the day the last automatic check was decided, 0 before the first

env     == <<host, now, feed, faults>>
history == <<promise, asked, refused, lastAuto>>
vars    == <<host, user, now, feed, session, faults,
             promise, asked, refused, lastAuto>>

-----------------------------------------------------------------------------
(* Registry access. *)

(* RegistryRead: the user's hive first, then the machine's. *)
HiveMachineFirst(k) == IF host.machine[k] = NoValue THEN user[k] ELSE host.machine[k]
Stored(k) == IF user[k] = NoValue THEN host.machine[k] ELSE user[k]

(* ReadConfigValue: an empty string reads as absent.  Only the first word   *)
(* is read, and a version is one word (AutoVersion.h:92).                   *)
Present(k)       == Stored(k) \in Int
Read(k, default) == IF Present(k) THEN Stored(k) ELSE default

Write(k, v) == user' = [user EXCEPT ![k] = v]

(* How long a check, and a skip-request, lasts. *)
CheckDays == LET d == Read("AutoInterval", 0) IN IF d \in 1..60  THEN d ELSE 2
SkipDays  == LET d == Read("SkipInterval", 0) IN IF d \in 1..180 THEN d ELSE 14

-----------------------------------------------------------------------------
(* The state of a call.  "then" and "arg" are the return address and the    *)
(* argument of SetAuto.                                                     *)

Pc == {"idle", "reset",
       "status.last", "status.stamp", "status.check", "once", "prompt",
       "auto.check", "auto.last", "avail",
       "skip.version", "skip.time", "unskip.version", "unskip.time",
       "install", "later.last", "later.version", "later.time",
       "skipreq.version", "skipreq.time", "setonce", "report"}

Session == [pc : Pc, mode : Mode \cup {"none"},
            then : {"idle", "avail", "install"}, arg : Int,
            offered : Version \cup {NoValue}, began : Nat,
            lastError : BOOLEAN, ret : -1..3, launched : BOOLEAN]

NoSession == [pc |-> "idle", mode |-> "none",
              then |-> "idle", arg |-> 0, offered |-> NoValue, began |-> 0,
              lastError |-> FALSE, ret |-> 0, launched |-> FALSE]

At(p, l)    == session[p].pc = l
Become(p, r) == session' = [session EXCEPT ![p] = r]
Goto(p, l)  == Become(p, [session[p] EXCEPT !.pc = l])
End(p, ret) == Become(p, [NoSession EXCEPT !.ret = ret, !.launched = session[p].launched])
Override(p) == session[p].mode \in {"IgnoreSkip", "Reinstall"}

Init ==
  /\ host \in Host
  /\ user \in Configured
  /\ now = 1
  /\ feed \in Version
  /\ session = [p \in Proc |-> NoSession]
  /\ faults = 0
  /\ promise = NoValue
  /\ asked = {}
  /\ refused = FALSE
  /\ lastAuto = 0

-----------------------------------------------------------------------------
(* Execute: entry, and the registry updates it makes first. *)

Entry(m) == CASE m = "Reset"              -> "reset"
              [] m \in {"Disable", "Enable"} -> "auto.check"
              [] m = "Auto"               -> "status.last"
              [] m = "Prompt"             -> "status.check"
              [] OTHER                    -> "prompt"

Start(p) ==
  /\ At(p, "idle")
  /\ \E m \in Mode :
       Become(p, [NoSession EXCEPT !.pc = Entry(m), !.mode = m,
                    !.arg = IF m \in {"Reset", "Enable"} THEN 1 ELSE 0,
                    !.then = IF m = "Enable" THEN "avail" ELSE "idle"])
  /\ UNCHANGED <<env, user, history>>

(* AutoUpdater::Reset, one value per step.  RegDeleteKeyExA deletes a       *)
(* subkey of that name, and there is none: only its emulation on hosts      *)
(* without the call changes the value.  Opening the machine's key for       *)
(* writing needs rights a user does not have, and throws if it exists.      *)
MachineKeyExists == \E k \in Key : host.machine[k] # NoValue
UserKeyExists    == \E k \in Key : user[k] # NoValue
Wipes            == host.emulated /\ UserKeyExists

Reset(p) ==
  /\ At(p, "reset")
  /\ LET i     == session[p].arg
         k     == ConfigKeys[i]
     IN /\ IF Wipes THEN Write(k, Empty) ELSE UNCHANGED user
        /\ refused' = (refused /\ ~(Wipes /\ k = "AutoCheck"))
        /\ promise' = IF Wipes /\ k \in {"SkipVersion", "SkipTime"} THEN NoValue ELSE promise
        /\ IF MachineKeyExists
             THEN End(p, -1)
             ELSE IF i = Len(ConfigKeys)
               THEN End(p, 0)
               ELSE Become(p, [session[p] EXCEPT !.arg = i + 1])
  /\ UNCHANGED <<env, asked, lastAuto>>

(* SetAuto writes AutoCheck, then AutoLast. *)
CallSetAuto(p, on, then) ==
  Become(p, [session[p] EXCEPT !.pc = "auto.check", !.arg = on, !.then = then])

WriteAutoCheck(p) ==
  /\ At(p, "auto.check")
  /\ Write("AutoCheck", session[p].arg)
  /\ refused' = (session[p].arg = 0)
  /\ Goto(p, "auto.last")
  /\ UNCHANGED <<env, promise, asked, lastAuto>>

SetAutoReturns(p) ==
  IF session[p].then = "idle" THEN End(p, 0)
  ELSE Become(p, [session[p] EXCEPT !.pc = session[p].then, !.arg = 0, !.then = "idle"])

WriteAutoLast(p) ==
  /\ At(p, "auto.last")
  /\ Write("AutoLast", IF session[p].arg = 1 THEN now ELSE 0)
  /\ SetAutoReturns(p)
  /\ UNCHANGED <<env, history>>

-----------------------------------------------------------------------------
(* Status: is a check due, allowed, or the user's to decide? *)

(* The interval has run out, or the last check is unknown. *)
Due == Read("AutoLast", 0) = 0 \/ Read("AutoLast", 0) + CheckDays <= now

StatusInterval(p) ==
  /\ At(p, "status.last")
  /\ IF Due
       THEN Become(p, [session[p] EXCEPT !.began = now,
              !.pc = IF Read("AutoLast", 0) = 0 THEN "status.check" ELSE "status.stamp"])
       ELSE End(p, 0)
  /\ UNCHANGED <<env, user, history>>

StatusStampDropped(p) ==
  /\ At(p, "status.stamp")
  /\ Goto(p, "status.check")
  /\ UNCHANGED <<env, user, history>>

StatusStamp(p) ==
  /\ At(p, "status.stamp")
  /\ Write("AutoLast", now)
  /\ Goto(p, "status.check")
  /\ UNCHANGED <<env, history>>

(* AutoCheck reads as a bool: what is neither 0 nor 1 reads as absent. *)
StatusCheck(p) ==
  /\ At(p, "status.check")
  /\ LET auto == session[p].mode = "Auto"
         next == IF Read("AutoCheck", 0) = 1 THEN "avail"
                 ELSE IF ~auto THEN "prompt"
                 ELSE IF Stored("AutoCheck") = 0 THEN "idle" ELSE "once"
     IN /\ IF next = "idle" THEN End(p, 0)
          ELSE Become(p, [session[p] EXCEPT !.pc = next, !.began = 0])
        /\ lastAuto' = IF auto /\ next = "avail" THEN session[p].began ELSE lastAuto
  /\ UNCHANGED <<env, user, promise, asked, refused>>

ReadOnce(p) ==
  /\ At(p, "once")
  /\ IF Read("AutoOnce", 0) = 1 THEN End(p, 0) ELSE Goto(p, "prompt")
  /\ UNCHANGED <<env, user, history>>

(* The user answers PromptDialog; the console has no way to cancel. *)
PromptAuto(p) ==
  /\ At(p, "prompt")
  /\ CallSetAuto(p, 1, "avail")
  /\ UNCHANGED <<env, user, history>>

PromptOnce(p) ==
  /\ At(p, "prompt")
  /\ Goto(p, "avail")
  /\ UNCHANGED <<env, user, history>>

PromptNo(p) ==
  /\ At(p, "prompt")
  /\ CallSetAuto(p, 0, "idle")
  /\ UNCHANGED <<env, user, history>>

PromptCancel(p) ==
  /\ At(p, "prompt")
  /\ ~host.console
  /\ End(p, 0)
  /\ UNCHANGED <<env, user, history>>

-----------------------------------------------------------------------------
(* IsAvailable, reduced to its outcomes. *)

CheckNewer(p) ==
  /\ At(p, "avail")
  /\ AppVersion < feed \/ session[p].mode = "Reinstall"
  /\ Become(p, [session[p] EXCEPT !.pc = "skip.version", !.offered = feed])
  /\ UNCHANGED <<env, user, history>>

CheckUptodate(p) ==
  /\ At(p, "avail")
  /\ AppVersion >= feed /\ session[p].mode # "Reinstall"
  /\ Become(p, [session[p] EXCEPT !.pc = "report", !.offered = feed, !.ret = 1])
  /\ UNCHANGED <<env, user, history>>

(* An error; or none, when no thread can be had or the user cancelled.       *)
CheckFails(p) ==
  /\ At(p, "avail")
  /\ \E error \in BOOLEAN :
       Become(p, [session[p] EXCEPT !.pc = "report", !.lastError = error])
  /\ UNCHANGED <<env, user, history>>

-----------------------------------------------------------------------------
(* IsSkipped, always called, and the decision Execute takes on it. *)

AfterSkip(p, skipped) ==
  Become(p, [session[p] EXCEPT !.ret = 3,
               !.pc = IF Override(p) \/ ~skipped THEN "install" ELSE "report"])

IsSkippedAnyVersion(p) ==
  /\ At(p, "skip.version")
  /\ IF ~Present("SkipVersion")
       THEN AfterSkip(p, FALSE)
       ELSE Goto(p, "skip.time")
  /\ UNCHANGED <<env, user, history>>

(* A request for another release is void from here on. *)
IsSkippedVersion(p) ==
  /\ At(p, "skip.version")
  /\ IF ~Present("SkipVersion")
       THEN AfterSkip(p, FALSE) /\ UNCHANGED promise
       ELSE IF Stored("SkipVersion") = session[p].offered
         THEN Goto(p, "skip.time") /\ UNCHANGED promise
         ELSE Goto(p, "unskip.version") /\ promise' = NoValue
  /\ UNCHANGED <<env, user, asked, refused, lastAuto>>

Forever == Read("SkipInterval", 0) < 0

IsSkippedTimeOffByOne(p) ==
  /\ At(p, "skip.time")
  /\ IF Read("SkipTime", 0) > 0 /\ ~Forever /\ Read("SkipTime", 0) + SkipDays - 1 <= now
       THEN Goto(p, "unskip.version")
       ELSE AfterSkip(p, TRUE)
  /\ UNCHANGED <<env, user, history>>

IsSkippedTimeNeverExpires(p) ==
  /\ At(p, "skip.time")
  /\ AfterSkip(p, TRUE)
  /\ UNCHANGED <<env, user, history>>

IsSkippedTime(p) ==
  /\ At(p, "skip.time")
  /\ IF Read("SkipTime", 0) > 0 /\ ~Forever /\ Read("SkipTime", 0) + SkipDays <= now
       THEN Goto(p, "unskip.version")
       ELSE AfterSkip(p, TRUE)
  /\ UNCHANGED <<env, user, history>>

UnskipVersion(p) ==
  /\ At(p, "unskip.version")
  /\ Write("SkipVersion", Empty)
  /\ Goto(p, "unskip.time")
  /\ UNCHANGED <<env, history>>

UnskipTime(p) ==
  /\ At(p, "unskip.time")
  /\ Write("SkipTime", 0)
  /\ AfterSkip(p, FALSE)
  /\ UNCHANGED <<env, history>>

-----------------------------------------------------------------------------
(* InstallDialog.  The graphical dialog stays open until EndDialog; its     *)
(* answer is 1 for everything but IDCANCEL.  The console takes one answer.  *)

EndsDialog(p, answer) == Goto(p, IF answer = 1 THEN "setonce" ELSE "report")

(* What InstallDialog answers after "skip" or "later". *)
PutOffIsInstalled == 1
PutOffAnswer == IF host.console THEN 0 ELSE 1

(* The "check automatically" box of the graphical dialog. *)
DialogAuto(p) ==
  /\ At(p, "install")
  /\ ~host.console
  /\ \E on \in 0..1 : CallSetAuto(p, on, "install")
  /\ UNCHANGED <<env, user, history>>

DialogCancel(p) ==
  /\ At(p, "install")
  /\ EndsDialog(p, -1)
  /\ UNCHANGED <<env, user, history>>

(* IDOK, or a window closed by WM_CLOSE without EndDialog. *)
DialogClose(p) ==
  /\ At(p, "install")
  /\ ~host.console
  /\ EndsDialog(p, 1)
  /\ UNCHANGED <<env, user, history>>

InstallLaunches(p) ==
  /\ At(p, "install")
  /\ Become(p, [session[p] EXCEPT !.pc = "setonce", !.launched = TRUE])
  /\ UNCHANGED <<env, user, history>>

(* Not downloaded, not verified (LastError) or cancelled (none). *)
InstallFails(p) ==
  /\ At(p, "install")
  /\ \E error \in BOOLEAN :
       Become(p, [session[p] EXCEPT !.lastError = @ \/ error,
                                    !.pc = IF host.console THEN "report" ELSE "install"])
  /\ UNCHANGED <<env, user, history>>

InstallThrows(p) ==
  /\ At(p, "install")
  /\ End(p, -1)
  /\ UNCHANGED <<env, user, history>>

ChooseLater(p) ==
  /\ At(p, "install")
  /\ Goto(p, "later.last")
  /\ promise' = NoValue
  /\ UNCHANGED <<env, user, asked, refused, lastAuto>>

LaterLast(p) ==
  /\ At(p, "later.last")
  /\ Write("AutoLast", now)
  /\ Goto(p, "later.version")
  /\ UNCHANGED <<env, history>>

LaterVersion(p) ==
  /\ At(p, "later.version")
  /\ Write("SkipVersion", Empty)
  /\ Goto(p, "later.time")
  /\ UNCHANGED <<env, history>>

LaterTime(p) ==
  /\ At(p, "later.time")
  /\ Write("SkipTime", 0)
  /\ EndsDialog(p, PutOffAnswer)
  /\ UNCHANGED <<env, history>>

ChooseSkip(p) ==
  /\ At(p, "install")
  /\ session[p].offered \notin Critical
  /\ Goto(p, "skipreq.version")
  /\ promise' = NoValue
  /\ asked' = asked \cup {session[p].offered}
  /\ UNCHANGED <<env, user, refused, lastAuto>>

SkipReqVersion(p) ==
  /\ At(p, "skipreq.version")
  /\ Write("SkipVersion", session[p].offered)
  /\ Goto(p, "skipreq.time")
  /\ UNCHANGED <<env, history>>

SkipReqTime(p) ==
  /\ At(p, "skipreq.time")
  /\ Write("SkipTime", now)
  /\ promise' = [version |-> session[p].offered, at |-> now]
  /\ EndsDialog(p, PutOffAnswer)
  /\ UNCHANGED <<env, asked, refused, lastAuto>>

SetOnce(p) ==
  /\ At(p, "setonce")
  /\ Write("AutoOnce", 1)
  /\ Become(p, [session[p] EXCEPT !.pc = "report", !.ret = 2])
  /\ UNCHANGED <<env, history>>

ReportLeaksCode(p) ==
  /\ At(p, "report")
  /\ End(p, IF session[p].lastError THEN -2 ELSE session[p].ret)
  /\ UNCHANGED <<env, user, history>>

(* An error of any attempt of the call, even a later success, reports -1. *)
Report(p) ==
  /\ At(p, "report")
  /\ End(p, IF session[p].lastError THEN -1 ELSE session[p].ret)
  /\ UNCHANGED <<env, user, history>>

-----------------------------------------------------------------------------
(* Faults and the environment. *)

Touches(p) == session[p].pc \notin {"idle", "prompt", "avail", "install", "report"}

(* A registry call throws: the rest of the call is not done, Execute or     *)
(* autoupdate_execute catches it and the caller sees -1.                    *)
RegistryThrows(p) ==
  /\ Touches(p)
  /\ faults < MaxFaults
  /\ faults' = faults + 1
  /\ End(p, -1)
  /\ UNCHANGED <<host, user, now, feed, history>>

(* The copy dies: what it was doing is lost, the registry is not. *)
Crash(p) ==
  /\ session[p].pc # "idle"
  /\ faults < MaxFaults
  /\ faults' = faults + 1
  /\ Become(p, NoSession)
  /\ UNCHANGED <<host, user, now, feed, history>>

Tick ==
  /\ now < Horizon
  /\ now' = now + 1
  /\ UNCHANGED <<host, user, feed, session, faults, history>>

Publish ==
  /\ \E v \in Version \ {feed} : feed' = v
  /\ UNCHANGED <<host, user, now, session, faults, history>>

(* The steps the program takes without waiting for anybody. *)
Program(p) ==
  \/ Reset(p)
  \/ WriteAutoCheck(p) \/ WriteAutoLast(p)
  \/ StatusInterval(p) \/ StatusStamp(p) \/ StatusCheck(p) \/ ReadOnce(p)
  \/ CheckNewer(p) \/ CheckUptodate(p) \/ CheckFails(p)
  \/ IsSkippedVersion(p) \/ IsSkippedTime(p) \/ UnskipVersion(p) \/ UnskipTime(p)
  \/ LaterLast(p) \/ LaterVersion(p) \/ LaterTime(p)
  \/ SkipReqVersion(p) \/ SkipReqTime(p)
  \/ SetOnce(p) \/ Report(p)

(* The steps the user decides on. *)
Choice(p) ==
  \/ PromptAuto(p) \/ PromptOnce(p) \/ PromptNo(p) \/ PromptCancel(p)
  \/ DialogAuto(p) \/ DialogCancel(p) \/ DialogClose(p)
  \/ InstallLaunches(p) \/ InstallFails(p) \/ InstallThrows(p)
  \/ ChooseLater(p) \/ ChooseSkip(p)

Next ==
  \/ \E p \in Proc : Start(p) \/ Program(p) \/ Choice(p) \/ RegistryThrows(p) \/ Crash(p)
  \/ Tick
  \/ Publish

Spec == Init /\ [][Next]_vars

-----------------------------------------------------------------------------
(* Properties. *)

(* Every variable stays in its domain. *)
TypeOK ==
  /\ host \in Host
  /\ user \in [Key -> Value]
  /\ now \in Nat \ {0}
  /\ feed \in Version
  /\ session \in [Proc -> Session]
  /\ faults \in 0..MaxFaults
  /\ promise \in {NoValue} \cup [version : Version, at : Nat]
  /\ asked \subseteq Version
  /\ refused \in BOOLEAN
  /\ lastAuto \in Nat

(* A check nobody was asked about in this call. *)
SilentCheck(p) == At(p, "status.check") /\ session'[p].pc = "avail"

(* IsSkipped lets the release through to the install dialog. *)
Offer(p) ==
  /\ session[p].pc \in {"skip.version", "skip.time", "unskip.time"}
  /\ session'[p].pc = "install"

(* IsSkipped withholds the release. *)
Withhold(p) == At(p, "skip.time") /\ session'[p].pc = "report"

(* The user is still owed silence about version v. *)
Owed(v) ==
  /\ promise # NoValue
  /\ promise.version = v
  /\ Forever \/ now < promise.at + SkipDays

(* Once a user has said no (the prompt's "no", "disable", the unticked       *)
(* box), no copy goes to the network unasked, whatever the machine's hive    *)
(* says, whoever dies half way and however the copies interleave, until      *)
(* somebody turns automatic checks on again.  AutoUpdater.cpp:477-484.       *)
RefusalSticks == [][\A p \in Proc : SilentCheck(p) => ~refused]_vars

(* No copy withholds a release that no user of any copy ever asked to skip:  *)
(* neither an interleaving nor a death between the two writes of             *)
(* InstallSkip, or of the clearing, invents a skip-request.                  *)
(* AutoUpdater.cpp:693-740, 1114-1119.                                       *)
SkipWasAsked == [][\A p \in Proc : Withhold(p) => session[p].offered \in asked]_vars

(* A completed skip-request is honoured for its number of days by every call *)
(* that is not told to ignore it.  One copy only: a second one may clear a   *)
(* request it read before it was made.  AutoUpdater.cpp:21, 693-740.         *)
SkipHonoured ==
  [][\A p \in Proc : Offer(p) /\ ~Override(p) => ~Owed(session[p].offered)]_vars

(* For one copy, and while nothing fails, a release is withheld only while a *)
(* request for it is owed: the silence ends and the user is re-prompted.     *)
(* AutoUpdater.cpp:21, 693-740.                                              *)
SkipLapses ==
  [][\A p \in Proc : Withhold(p) /\ faults = 0 => Owed(session[p].offered)]_vars

(* When no copy is at work, a recorded skip-request carries the time it was  *)
(* made, without which it never expires.  AutoUpdater.cpp:36-37, 699-717.    *)
SkipIsDated ==
  (\A p \in Proc : At(p, "idle")) /\ Present("SkipVersion") => Read("SkipTime", 0) > 0

(* Two automatic checks are decided at least the configured interval apart.  *)
(* AutoUpdater.cpp:18-19, 456-474.                                           *)
SpacedCheck(p) ==
  SilentCheck(p) /\ session[p].mode = "Auto" /\ lastAuto # 0
    => session[p].began >= lastAuto + CheckDays
ChecksSpaced == [][\A p \in Proc : SpacedCheck(p)]_vars

(* The same, for one copy, while nothing fails, when AutoCheck was set by    *)
(* the library itself and not by an administrator in the machine's hive.     *)
ChecksSpacedUnlessFault ==
  [][\A p \in Proc : faults = 0 /\ host.machine["AutoCheck"] = NoValue => SpacedCheck(p)]_vars

(* "Reset updater status" (AutoUpdater.h:79): once it returns 0, nothing the *)
(* updater keeps for itself is left in the user's hive.                      *)
ResetDone(p) == At(p, "reset") /\ session'[p].pc = "idle" /\ session'[p].ret = 0
ResetForgets ==
  [][\A p \in Proc : ResetDone(p) =>
        \A k \in Key \ Tunable : ~(user'[k] \in Int)]_vars

(* "2=installed" (AutoUpdater.cpp:379): the console tells it apart, while no *)
(* registry call fails.  The dialog does not: skip and later come out of     *)
(* InstallDialog as the 1 of an installation (AutoDialog.cpp:91-99).         *)
InstalledIsInstalledOnConsole ==
  host.console =>
    \A p \in Proc : At(p, "idle") =>
      /\ session[p].ret = 2 => session[p].launched
      /\ session[p].launched /\ faults = 0 => session[p].ret = 2
=============================================================================

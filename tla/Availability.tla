---------------------------- MODULE Availability ----------------------------
(***************************************************************************)
(* IsAvailable: is there a release newer than the application?  The feed's  *)
(* address may be a GitHub endpoint, which takes a download of its own; the *)
(* manifest is downloaded, parsed and selected from; keys and versions are  *)
(* compared; the release notes are downloaded.  The downloads are jobs of   *)
(* Transfer, one after the other on the same Download; the parser is        *)
(* Manifest, the comparison Version, and what the user can do to the        *)
(* progress indicator, and who notices it, Indicator.                       *)
(***************************************************************************)
EXTENDS Manifest, Version

CONSTANTS
  Versions,  \* the versions of the application and of releases, as texts
  Consoles   \* of the interfaces: is it the console's?

ASSUME AvailabilityAssumption == Versions \subseteq Seq(Token) /\ Consoles \subseteq BOOLEAN

VARIABLES
  console,   \* the interface is the console's; never changes
  pc,        \* where IsAvailable is
  downloads, \* the downloads begun
  progress, key, poll,   \* of Indicator
  chosen,    \* the item of the manifest, or NoItem
  current,   \* the version of the application, chosen when it is read
  offer,     \* the version of the item
  lastError, \* d_lasterror is not empty, or an exception left with a message
  ret,       \* what IsAvailable returns
  job, answer, quitting,   \* of Transfer
  \* history, read by the properties only:
  pressed,   \* the user cancelled
  inTime,    \* and did so before the last look at the indicator, while it was up
  raced,     \* two polls of the console overlapped
  silent     \* the download of the manifest could not begin

indicator == <<progress, key, poll>>
result    == <<chosen, current, offer>>
history   == <<pressed, inTime, raced, silent>>
checker   == <<console, pc, downloads, indicator, result, lastError, ret, history>>
vars      == <<parser, checker, job, answer, quitting>>

T == INSTANCE Transfer WITH Job <- 1..3

Poller == {"client", "bar"}

I == INSTANCE Indicator

Alone == UNCHANGED <<console, parser, job, answer, quitting>>

-----------------------------------------------------------------------------
NoItem == [EmptyItem EXCEPT !.os = "foreign"]

Pc == {"begin", "resolve", "latest", "latest.wait", "manifest", "manifest.wait", "load",
       "cancelled", "asked", "keys", "compare", "notes", "notes.wait", "stop", "stopping",
       "ended"}

Init ==
  /\ ParserInit
  /\ console \in Consoles
  /\ pc = "begin" /\ downloads = 0
  /\ I!Init
  /\ chosen = NoItem /\ current = <<>> /\ offer = <<>>
  /\ lastError = FALSE /\ ret = -1
  /\ T!Init
  /\ pressed = FALSE /\ inTime = FALSE /\ raced = FALSE /\ silent = FALSE

(* SetLastError, and on to the end of the try block. *)
Give(error, code) ==
  /\ lastError' = (lastError \/ error)
  /\ ret' = code
  /\ pc' = "stop"

Goto(next) == pc' = next /\ UNCHANGED <<lastError, ret>>

(* No address: an exception, before there is anything to undo.  Otherwise    *)
(* the indicator is shown if this is interactive and it can be. *)
Begin ==
  /\ pc = "begin"
  /\ \/ pc' = "ended" /\ lastError' = TRUE /\ UNCHANGED <<ret, indicator>>
     \/ I!Start /\ Goto("resolve")
  /\ UNCHANGED <<downloads, result, history>> /\ Alone

(* An address GitHub::IsEndpoint takes for GitHub's, with or without the name *)
(* of a manifest, or the address of the manifest. *)
ResolveFeed ==
  /\ pc = "resolve"
  /\ \/ Give(TRUE, -1)
     \/ Goto("latest")
     \/ Goto("manifest")
  /\ UNCHANGED <<downloads, indicator, result, history>> /\ Alone

(* Download::get for the next job, or its refusal. *)
Get(at, next) ==
  /\ pc = at
  /\ T!Begin(downloads + 1)
  /\ downloads' = downloads + 1
  /\ Goto(next)
  /\ UNCHANGED <<parser, console, indicator, result, history>>

Refused(at, error) ==
  /\ pc = at
  /\ T!Refuse(downloads + 1)
  /\ downloads' = downloads + 1
  /\ Give(error, -1)
  /\ silent' = (silent \/ ~error)
  /\ UNCHANGED <<parser, console, indicator, result, pressed, inTime, raced>>

(* completion, which says "yes" or "no" *)
Completed(at) ==
  /\ pc = at
  /\ T!Settle(downloads)
  /\ UNCHANGED <<parser, console, downloads, indicator, result, history>>

Yes == answer'[downloads] = "yes"

(* GitHub::GetLatestRelease: the payload names the manifest, or does not, or *)
(* cannot be parsed. *)
GetLatest     == Get("latest", "latest.wait")
LatestRefused == Refused("latest", TRUE)

LatestComes ==
  /\ Completed("latest.wait")
  /\ \/ Yes /\ Goto("manifest")
     \/ Give(TRUE, -1)

GetManifest == Get("manifest", "manifest.wait")

(* Nothing is said about a manifest whose download cannot even begin. *)
ManifestRefused == Refused("manifest", FALSE)

ManifestAssumed ==
  /\ Completed("manifest.wait")
  /\ IF Yes THEN Goto("load") ELSE Give(FALSE, -1)

ManifestComes ==
  /\ Completed("manifest.wait")
  /\ IF Yes THEN Goto("load") ELSE Give(TRUE, -1)

-----------------------------------------------------------------------------
(* AutoManifest::Load. *)
Parse ==
  /\ pc = "load"
  /\ ParserNext
  /\ UNCHANGED <<checker, job, answer, quitting>>

ParserDone ==
  /\ ctx' = EmptyContext /\ document' = <<Nowhere>> /\ events' = 0
  /\ origin' = <<>> /\ nested' = FALSE
  /\ UNCHANGED <<required, console, job, answer, quitting>>

(* The parser failed: an exception, and the indicator goes before its answer *)
(* is asked for. *)
LoadThrows ==
  /\ pc = "load"
  /\ ctx.outcome = "error"
  /\ I!Stop
  /\ Give(TRUE, -1)
  /\ ParserDone
  /\ UNCHANGED <<downloads, result, history>>

LoadReturns ==
  /\ pc = "load"
  /\ ctx.outcome \in {"end", "complete"}
  /\ LET best == BestMatch(ctx.items)
     IN IF best = 0 THEN Give(TRUE, -2) /\ UNCHANGED chosen
                    ELSE Goto("cancelled") /\ chosen' = ctx.items[best]
  /\ ParserDone
  /\ UNCHANGED <<downloads, indicator, current, offer, history>>

(* ProgressCancelled, and ProgressStop, which asks before it stops: the poll, *)
(* and its answer, which is read again after another thread may have polled. *)
Overlapped(a) == raced' = (raced \/ I!Overlaps(a))

Ask(at, next) ==
  /\ pc = at
  /\ I!Ask("client") /\ Overlapped("client")
  /\ Goto(next)
  /\ UNCHANGED <<downloads, result, pressed, inTime, silent>> /\ Alone

AskWhether == Ask("cancelled", "asked")
AskLast    == Ask("stop", "stopping")

Stores(a) ==
  /\ pc # "load"
  /\ I!Store(a)
  /\ UNCHANGED <<pc, downloads, result, lastError, ret, history>> /\ Alone

AskCancelled ==
  /\ pc = "asked" /\ I!Told("client")
  /\ Goto(IF progress.cancelled THEN "stop" ELSE "keys")
  /\ UNCHANGED <<downloads, indicator, result, history>> /\ Alone

(* No keys are configured or the item names one of them; or it does not. *)
CheckKeys ==
  /\ pc = "keys"
  /\ \/ Goto("compare")
     \/ Give(TRUE, -1)
  /\ UNCHANGED <<downloads, indicator, result, history>> /\ Alone

CompareVersions ==
  /\ pc = "compare"
  /\ current' \in Versions /\ offer' \in Versions
  /\ IF Compare(current', offer') >= 0 THEN Give(FALSE, 0)
     ELSE ret' = 1 /\ pc' \in {"notes", "stop"} /\ UNCHANGED lastError
  /\ UNCHANGED <<downloads, indicator, chosen, history>> /\ Alone

GetNotes     == Get("notes", "notes.wait")
NotesRefused == Refused("notes", TRUE)

NotesCome ==
  /\ Completed("notes.wait")
  /\ IF Yes THEN Goto("stop") ELSE Give(TRUE, -1)

StopQuietly ==
  /\ pc = "stopping" /\ I!Told("client")
  /\ I!Forget /\ UNCHANGED key
  /\ pc' = "ended"
  /\ UNCHANGED <<downloads, result, lastError, ret, history>> /\ Alone

(* ProgressStop, whose answer has the last word. *)
Stop ==
  /\ pc = "stopping" /\ I!Told("client")
  /\ I!Forget /\ UNCHANGED key
  /\ ret' = IF progress.cancelled THEN -1 ELSE ret
  /\ pc' = "ended"
  /\ UNCHANGED <<downloads, result, lastError, history>> /\ Alone

-----------------------------------------------------------------------------
Finish ==
  /\ \E j \in 1..3 : T!Finish(j)
  /\ UNCHANGED <<parser, checker>>

(* The thread of the console's bar polls as long as the indicator is shown.  *)
(* The parser looks at neither a poll, nor a cancel, nor WM_QUIT: one that    *)
(* comes while it works is one that comes just before or just after. *)
Looks ==
  /\ pc # "load"
  /\ I!Look("bar") /\ Overlapped("bar")
  /\ UNCHANGED <<pc, downloads, result, lastError, ret, pressed, inTime, silent>> /\ Alone

(* On the console ESC may be typed ahead, or after the last look. *)
Cancel ==
  /\ pc \notin {"load", "ended"}
  /\ I!Button \/ I!Escape
  /\ pressed' = TRUE
  /\ inTime' = (inTime \/ (progress.up /\ (console => pc # "stopping")))
  /\ UNCHANGED <<pc, downloads, result, lastError, ret, raced, silent>> /\ Alone

Quit ==
  /\ pc # "load" /\ ~quitting
  /\ T!Quit
  /\ UNCHANGED <<parser, checker>>

Next ==
  \/ Begin \/ ResolveFeed \/ GetLatest \/ LatestRefused \/ LatestComes
  \/ GetManifest \/ ManifestRefused \/ ManifestComes
  \/ Parse \/ LoadThrows \/ LoadReturns
  \/ AskWhether \/ AskCancelled \/ CheckKeys \/ CompareVersions \/ GetNotes \/ NotesRefused \/ NotesCome
  \/ AskLast \/ Stop \/ Stores("client") \/ Stores("bar") \/ Looks
  \/ Finish \/ Cancel \/ Quit

Spec == Init /\ [][Next]_vars

-----------------------------------------------------------------------------
(* Properties. *)

(* Every variable stays in its domain. *)
TypeOK ==
  /\ required \in ChannelName /\ events \in 0..Events /\ nested \in BOOLEAN
  /\ ctx.status \in {"none", "omitted", "active", "inactive"}
  /\ ctx.name \in ChannelName /\ ctx.inItem \in BOOLEAN /\ ctx.inTags \in BOOLEAN
  /\ nested \/ ctx.level \in [Leveled -> 0..Events]
  /\ ctx.outcome \in {"parsing", "end", "complete", "error"}
  /\ Len(origin) = Len(ctx.items) /\ Len(document) > 0
  /\ console \in Consoles /\ pc \in Pc /\ downloads \in 0..3
  /\ I!TypeOK
  /\ chosen.os \in OSLabel /\ chosen.build \in ChannelName
  /\ {current, offer} \subseteq Versions \cup {<<>>}
  /\ lastError \in BOOLEAN /\ ret \in -2..1
  /\ job \in [1..3 -> T!JobState] /\ answer \in [1..3 -> T!Answer] /\ quitting \in BOOLEAN
  /\ pressed \in BOOLEAN /\ inTime \in BOOLEAN /\ raced \in BOOLEAN /\ silent \in BOOLEAN

(* The item taken was loaded, fits the host, and no loaded item fits better: *)
(* first made for this build, then for the newest system.                    *)
(* AutoManifest.cpp:183-205, 283-368.                                        *)
Suits(item) == item.os # "foreign" /\ Minimum(item) <= System

Better(a, b) ==
  IF a.os = b.os THEN Minimum(a) > Minimum(b) ELSE a.os = "specific"

ChosenSuits ==
  [][chosen' # chosen =>
       /\ \E i \in DOMAIN ctx.items : chosen' = ctx.items[i]
       /\ Suits(chosen')
       /\ \A i \in DOMAIN ctx.items : Suits(ctx.items[i]) => ~Better(ctx.items[i], chosen')]_vars

(* 1 is returned only for a release that Compare puts after the application  *)
(* (which the documented order may not: see BetaIsOlder), found in a manifest *)
(* and with its notes all there; 0 only for one that it does not put there;  *)
(* and neither when the user cancelled, however late, unless two polls of    *)
(* the console overlapped.                                                   *)
(* AutoUpdater.cpp:623, 641-668, 684-686, TProgressBar.cpp:221-227.          *)
AnswerIsTrue ==
  pc = "ended" /\ ret >= 0 =>
    /\ inTime => raced
    /\ ~lastError /\ chosen # NoItem
    /\ (ret = 1) <=> (Compare(current, offer) < 0)
    /\ \A j \in 1..downloads : answer[j] = "yes"

(* "1=yes,0=no,-1=canceled/error": a check cancelled while its indicator was *)
(* shown, and before its last look, answers neither yes nor no.              *)
(* AutoUpdater.cpp:562, 684-686.                                             *)
CancelAnswered == pc = "ended" /\ inTime => ret < 0

(* A check that failed has left a message or was cancelled, but for a        *)
(* manifest whose download could not begin.  AutoUpdater.cpp:593-689.        *)
FailureTold == pc = "ended" /\ ret < 0 => lastError \/ pressed \/ silent

(* Compare orders the versions: what is offered to one version is never      *)
(* offered back, and no chain of updates leads down.  It holds of texts in   *)
(* which no component has a sign where a shorter one ends, as 1.+0 has       *)
(* against 1. (1. and 1.+ both equal it, and 1. < 1.+), and it need not be   *)
(* the documented order (BetaIsOlder; nor is 1.0 equal to 1).                *)
(* AutoVersion.cpp:85-130, AutoUpdater.cpp:648.                              *)
VersionOrder ==
  pc = "ended" /\ offer # <<>> =>
    /\ Compare(current, offer) = -Compare(offer, current)
    /\ ret = 1 => \A v \in Versions :
                    Compare(offer, v) <= 0 => Compare(current, v) < 0

(* "2.11 comes after 2.11-beta": a release is not offered its own beta as an *)
(* update.  AutoVersion.h:39, AutoVersion.cpp:52-77, 99-103.                 *)
Betas(text) ==
  { beta \in Versions :
      /\ Len(beta) > 0 /\ ~Last(beta).digits
      /\ beta = text \o <<Hyphen, Last(beta)>> }

BetaIsOlder == pc = "ended" /\ ret = 1 => offer \notin Betas(current)
=============================================================================

------------------------- MODULE AvailabilityProofs -------------------------
(***************************************************************************)
(* What IsAvailable returns, for every document, every length of it, every  *)
(* set of versions and every outcome of the downloads: the truth, or a      *)
(* failure that is told.  Then the parser: whose channel the items are of,  *)
(* whose text a text is, and that the item taken suits the host best.       *)
(***************************************************************************)
EXTENDS Availability, VersionProofs, FiniteSets, FiniteSetTheorems

Waiting == {"latest.wait", "manifest.wait", "notes.wait"}
Over    == {"stop", "stopping", "ended"}
Before  == {"begin", "resolve", "latest", "latest.wait", "manifest", "manifest.wait", "load",
            "cancelled", "asked", "keys", "compare"}
Reading == Pc \ (Waiting \cup Over)

Typed ==
  /\ pc \in Pc /\ downloads \in 0..3
  /\ I!TypeOK
  /\ current \in Versions \cup {<<>>} /\ offer \in Versions \cup {<<>>}
  /\ lastError \in BOOLEAN /\ ret \in -2..1
  /\ answer \in [1..3 -> T!Answer]
  /\ pressed \in BOOLEAN /\ inTime \in BOOLEAN /\ raced \in BOOLEAN /\ silent \in BOOLEAN

(* How many downloads were begun by where the check is. *)
Numbered ==
  /\ pc \in {"begin", "resolve", "latest"} => downloads = 0
  /\ pc = "latest.wait" => downloads = 1
  /\ pc = "manifest" => downloads <= 1
  /\ pc = "manifest.wait" => downloads \in 1..2
  /\ pc \in {"load", "cancelled", "asked", "keys", "compare", "notes"} => downloads <= 2
  /\ pc = "notes.wait" => downloads \in 1..3

(* The check goes on only with what was answered "yes". *)
Downloaded ==
  /\ pc \in Reading => \A j \in 1..downloads : answer[j] = "yes"
  /\ pc \in Waiting => \A j \in 1..(downloads - 1) : answer[j] = "yes"

(* Nothing is decided until the comparison, and a release is newer after it. *)
Undecided ==
  /\ pc \notin Over => ~lastError
  /\ pc \in Before => ret = -1
  /\ pc \in {"cancelled", "asked", "keys", "compare", "notes", "notes.wait"} => chosen # NoItem
  /\ pc \in {"notes", "notes.wait"} => ret = 1 /\ Compare(current, offer) < 0

(* What is about to be returned is the truth, but for a cancel. *)
Decided ==
  pc \in Over =>
    \/ ret < 0 /\ (lastError \/ pressed \/ silent)
    \/ /\ ret >= 0 /\ ~lastError /\ chosen # NoItem
       /\ (ret = 1) <=> (Compare(current, offer) < 0)
       /\ \A j \in 1..downloads : answer[j] = "yes"

Flow == Typed /\ Numbered /\ Downloaded /\ Undecided /\ Decided

(* There is something to poll only while the console's indicator is shown,   *)
(* and while polls do not overlap one thread polls, for what is not known.   *)
(* What is known, found or can be found is a cancel. *)
Found(a) == progress.cancelled \/ poll[a] = "yes"

Polled ==
  /\ console \in BOOLEAN /\ (~console => ~key)
  /\ ~progress.up => progress = I!Down
  /\ pc \in {"begin", "ended"} => ~progress.up
  /\ \A a \in Poller : poll[a] # "none" => progress.up /\ console
  /\ \A a \in Poller : poll[a] # "none" /\ ~raced =>
       ~progress.cancelled /\ \A b \in Poller : b # a => poll[b] = "none"
  /\ key \/ (\E a \in Poller : Found(a)) => pressed

(* A cancel in time can be found until ProgressStop has asked, or the check  *)
(* had failed. *)
Noticed ==
  inTime /\ ~raced =>
    \/ pc \in Over /\ ret < 0
    \/ pc \notin {"stopping", "ended"} /\ progress.up /\ (key \/ \E a \in Poller : Found(a))
    \/ pc = "stopping" /\ Found("client")

(* The inductive invariant. *)
Inv == Flow /\ Polled /\ Noticed

-----------------------------------------------------------------------------
(* What a step may do to the indicator, and that it keeps its types. *)
LEMMA IndicatorType ==
  ASSUME I!TypeOK,
         \/ I!Start \/ I!Ask("client") \/ I!Stop \/ (I!Forget /\ UNCHANGED key)
         \/ I!Button \/ I!Escape \/ UNCHANGED indicator
         \/ \E a \in Poller : I!Look(a) \/ I!Store(a)
  PROVE  I!TypeOK'
<1>1. CASE I!Start
  <2>1. CASE progress.up
    BY <1>1, <2>1 DEF I!Start, I!TypeOK
  <2>2. CASE ~progress.up
    <3>1. PICK up \in BOOLEAN : progress' = [up |-> up, cancelled |-> FALSE]
      BY <1>1, <2>2 DEF I!Start
    <3> QED
      BY <1>1, <3>1 DEF I!Start, I!TypeOK
  <2> QED
    BY <2>1, <2>2
<1>2. CASE \E a \in Poller : I!Look(a)
  BY <1>2 DEF I!Look, I!TypeOK
<1>3. CASE \E a \in Poller : I!Store(a)
  BY <1>3 DEF I!Store, I!TypeOK
<1>4. CASE I!Ask("client")
  BY <1>4 DEF I!Ask, I!Look, I!TypeOK
<1>5. CASE I!Stop \/ (I!Forget /\ UNCHANGED key)
  <2>1. key' \in BOOLEAN
    <3>1. CASE I!Stop
      BY <3>1 DEF I!Stop
    <3>2. CASE UNCHANGED key
      BY <3>2 DEF I!TypeOK
    <3> QED
      BY <1>5, <3>1, <3>2
  <2>2. poll' \in [Poller -> {"none", "no", "yes"}]
    BY <1>5 DEF I!Stop, I!Forget, I!Quiet
  <2>3. progress' \in [up : BOOLEAN, cancelled : BOOLEAN]
    <3>1. progress' = I!Down
      BY <1>5 DEF I!Stop, I!Forget
    <3> QED
      BY <3>1 DEF I!Down
  <2> QED
    BY <2>1, <2>2, <2>3 DEF I!TypeOK
<1>6. CASE I!Button \/ I!Escape \/ UNCHANGED indicator
  BY <1>6 DEF I!Button, I!Escape, indicator, I!TypeOK
<1> QED
  BY <1>1, <1>2, <1>3, <1>4, <1>5, <1>6

LEMMA InitInv == Init => Inv
<1> SUFFICES ASSUME Init PROVE Inv
  OBVIOUS
<1>1. answer \in [1..3 -> T!Answer]
  BY DEF Init, T!Init, T!Answer
<1>2. I!TypeOK /\ ~progress.up /\ ~progress.cancelled /\ progress = I!Down /\ ~key
      /\ \A a \in Poller : poll[a] = "none"
  BY DEF Init, I!Init, I!TypeOK, I!Down, I!Quiet
<1>3. /\ pc = "begin" /\ downloads = 0 /\ lastError = FALSE /\ ret = -1
      /\ pressed = FALSE /\ inTime = FALSE /\ raced = FALSE /\ silent = FALSE
      /\ current = <<>> /\ offer = <<>>
  BY DEF Init
<1>4. Typed
  <2>1. current \in Versions \cup {<<>>} /\ offer \in Versions \cup {<<>>}
    BY <1>3, Zenon
  <2>2. downloads \in 0..3 /\ ret \in -2..1 /\ pc \in Pc
    BY <1>3 DEF Pc
  <2>3. lastError \in BOOLEAN /\ pressed \in BOOLEAN /\ inTime \in BOOLEAN /\ raced \in BOOLEAN
        /\ silent \in BOOLEAN
    BY <1>3
  <2> QED
    BY <1>1, <1>2, <2>1, <2>2, <2>3, Zenon DEF Typed
<1>5. Numbered /\ Downloaded /\ Undecided /\ Decided
  BY <1>3 DEF Numbered, Downloaded, Undecided, Decided, Waiting, Over, Before, Reading
<1>6. Polled /\ Noticed
  <2>1. console \in BOOLEAN
    BY AvailabilityAssumption DEF Init
  <2> QED
    BY <1>2, <1>3, <2>1 DEF Polled, Noticed, Found
<1> QED
  BY <1>4, <1>5, <1>6 DEF Inv, Flow

-----------------------------------------------------------------------------
(* The flow. *)

(* A failure that is told, or of the manifest's download to begin. *)
LEMMA FailStep ==
  ASSUME Inv, pc \notin Over, UNCHANGED <<indicator, chosen, current, offer, pressed, inTime, raced>>,
         pc' = "stop", ret' \in {-2, -1}, downloads' \in 0..3, answer' \in [1..3 -> T!Answer],
         lastError' \in BOOLEAN, silent' \in BOOLEAN, lastError' = TRUE \/ silent' = TRUE
  PROVE  Flow'
<1>1. Typed'
  BY IndicatorType DEF Inv, Flow, Typed, Pc
<1>2. Numbered' /\ Downloaded' /\ Undecided' /\ Decided'
  BY DEF Numbered, Downloaded, Undecided, Decided, Waiting, Over, Before, Reading
<1> QED
  BY <1>1, <1>2 DEF Flow

(* A step of the check that asks for no download and hears no answer. *)
LEMMA LocalStep ==
  ASSUME Inv, UNCHANGED <<downloads, answer, history>>,
         Begin \/ ResolveFeed \/ AskCancelled \/ CheckKeys
  PROVE  Flow'
<1>1. CASE Begin
  <2>1. pc = "begin" /\ UNCHANGED <<ret, result, history, downloads, answer>>
    BY <1>1 DEF Begin, Goto, Alone
  <2>2. I!TypeOK'
    BY <1>1, IndicatorType DEF Begin, Inv, Flow, Typed
  <2>3. CASE pc' = "ended" /\ lastError' = TRUE
    BY <2>1, <2>2, <2>3 DEF Inv, Flow, Typed, Numbered, Downloaded, Undecided, Decided, Waiting,
       Over, Before, Reading, Pc, result, history
  <2>4. CASE pc' = "resolve" /\ UNCHANGED lastError
    BY <2>1, <2>2, <2>4 DEF Inv, Flow, Typed, Numbered, Downloaded, Undecided, Decided, Waiting,
       Over, Before, Reading, Pc, result, history
  <2> QED
    BY <1>1, <2>3, <2>4 DEF Begin, Goto
<1>2. CASE ResolveFeed
  <2>0. pc = "resolve" /\ UNCHANGED <<indicator, chosen, current, offer, pressed, inTime, raced>>
    BY <1>2 DEF ResolveFeed, result, history
  <2>1. CASE Give(TRUE, -1)
    <3>1. pc' = "stop" /\ ret' = -1 /\ lastError' = TRUE
      BY <2>1 DEF Give
    <3> QED
      BY <2>0, <3>1, FailStep DEF Inv, Flow, Typed, Over, history
  <2>2. CASE Goto("latest") \/ Goto("manifest")
    <3>1. I!TypeOK'
      BY <2>0, IndicatorType DEF Inv, Flow, Typed
    <3> QED
      BY <2>0, <2>2, <3>1 DEF Goto, Inv, Flow, Typed, Numbered, Downloaded, Undecided, Decided,
         Waiting, Over, Before, Reading, Pc, history
  <2> QED
    BY <1>2, <2>1, <2>2 DEF ResolveFeed
<1>3. CASE AskCancelled
  <2>1. /\ pc = "asked" /\ pc' \in {"stop", "keys"} /\ (pc' = "stop" => progress.cancelled)
        /\ UNCHANGED <<indicator, result, lastError, ret>>
    BY <1>3 DEF AskCancelled, Goto
  <2>2. I!TypeOK'
    BY <2>1, IndicatorType DEF Inv, Flow, Typed
  <2>3. progress.cancelled => pressed
    BY DEF Inv, Polled, Found, Poller
  <2> QED
    BY <2>1, <2>2, <2>3 DEF Inv, Flow, Typed, Numbered, Downloaded, Undecided, Decided, Waiting,
       Over, Before, Reading, Pc, result, history
<1>4. CASE CheckKeys
  <2>0. pc = "keys" /\ UNCHANGED <<indicator, chosen, current, offer, pressed, inTime, raced>>
    BY <1>4 DEF CheckKeys, result, history
  <2>1. CASE Give(TRUE, -1)
    <3>1. pc' = "stop" /\ ret' = -1 /\ lastError' = TRUE
      BY <2>1 DEF Give
    <3> QED
      BY <2>0, <3>1, FailStep DEF Inv, Flow, Typed, Over, history
  <2>2. CASE Goto("compare")
    <3>1. I!TypeOK'
      BY <2>0, IndicatorType DEF Inv, Flow, Typed
    <3> QED
      BY <2>0, <2>2, <3>1 DEF Goto, Inv, Flow, Typed, Numbered, Downloaded, Undecided, Decided,
         Waiting, Over, Before, Reading, Pc, history
  <2> QED
    BY <1>4, <2>1, <2>2 DEF CheckKeys
<1> QED
  BY <1>1, <1>2, <1>3, <1>4

(* The comparison decides. *)
LEMMA CompareStep == ASSUME Inv, CompareVersions PROVE Flow'
<1>1. current' \in Component /\ offer' \in Component
  BY AvailabilityAssumption DEF CompareVersions, Component
<1>2. Compare(current', offer') \in Int
  BY <1>1, CompareType
<1>3. /\ pc = "compare" /\ UNCHANGED <<downloads, indicator, chosen, history, answer>>
      /\ current' \in Versions /\ offer' \in Versions /\ lastError' = lastError
  BY DEF CompareVersions, Alone, Give, Inv, Flow, Undecided, Typed, Over
<1>4. I!TypeOK'
  BY <1>3, IndicatorType DEF Inv, Flow, Typed
<1>5. CASE Compare(current', offer') >= 0
  <2>1. ret' = 0 /\ pc' = "stop"
    BY <1>5 DEF CompareVersions, Give
  <2> QED
    BY <1>2, <1>3, <1>4, <1>5, <2>1 DEF Inv, Flow, Typed, Numbered, Downloaded, Undecided,
       Decided, Waiting, Over, Before, Reading, Pc, history
<1>6. CASE ~(Compare(current', offer') >= 0)
  <2>1. ret' = 1 /\ pc' \in {"notes", "stop"}
    BY <1>6 DEF CompareVersions
  <2> QED
    BY <1>2, <1>3, <1>4, <1>6, <2>1 DEF Inv, Flow, Typed, Numbered, Downloaded, Undecided,
       Decided, Waiting, Over, Before, Reading, Pc, history
<1> QED
  BY <1>5, <1>6

(* A download is asked for, and begins or is refused. *)
LEMMA GetSteps ==
  ASSUME Inv, GetLatest \/ GetManifest \/ GetNotes
  PROVE  Flow'
<1>1. /\ UNCHANGED <<answer, indicator, result, history, lastError, ret>>
      /\ downloads' = downloads + 1
      /\ \/ pc = "latest" /\ pc' = "latest.wait"
         \/ pc = "manifest" /\ pc' = "manifest.wait"
         \/ pc = "notes" /\ pc' = "notes.wait"
  BY DEF GetLatest, GetManifest, GetNotes, Get, Goto, T!Begin
<1>2. downloads \in 0..2
  BY <1>1 DEF Inv, Flow, Typed, Numbered
<1>3. I!TypeOK'
  BY <1>1, IndicatorType DEF Inv, Flow, Typed
<1> QED
  BY <1>1, <1>2, <1>3 DEF Inv, Flow, Typed, Numbered, Downloaded, Undecided, Decided, Waiting,
     Over, Before, Reading, Pc, result, history

LEMMA RefusedSteps ==
  ASSUME Inv, LatestRefused \/ ManifestRefused \/ NotesRefused
  PROVE  Flow'
<1>1. PICK error \in BOOLEAN :
        /\ UNCHANGED <<indicator, result, pressed, inTime, raced>>
        /\ downloads' = downloads + 1
        /\ pc \in {"latest", "manifest", "notes"} /\ pc' = "stop" /\ ret' = -1
        /\ lastError' = (lastError \/ error) /\ silent' = (silent \/ ~error)
        /\ answer' = [answer EXCEPT ![downloads + 1] = "no"]
  BY DEF LatestRefused, ManifestRefused, NotesRefused, Refused, Give, T!Refuse
<1>2. downloads \in 0..2
  BY <1>1 DEF Inv, Flow, Typed, Numbered
<1>3. answer' \in [1..3 -> T!Answer]
  BY <1>1, <1>2 DEF Inv, Flow, Typed, T!Answer
<1>4. lastError \in BOOLEAN /\ silent \in BOOLEAN
  BY DEF Inv, Flow, Typed
<1>5. /\ lastError' \in BOOLEAN /\ silent' \in BOOLEAN
      /\ lastError' = TRUE \/ silent' = TRUE
  <2>1. CASE error = TRUE
    BY <1>1, <1>4, <2>1
  <2>2. CASE error = FALSE
    BY <1>1, <1>4, <2>2
  <2> QED
    BY <2>1, <2>2
<1>6. /\ pc \notin Over /\ downloads' \in 0..3
      /\ UNCHANGED <<indicator, chosen, current, offer, pressed, inTime, raced>>
  BY <1>1, <1>2 DEF Over, result
<1> QED
  BY <1>1, <1>3, <1>5, <1>6, FailStep

(* A download answers. *)
LEMMA AnswerSteps ==
  ASSUME Inv, LatestComes \/ ManifestComes \/ NotesCome
  PROVE  Flow'
<1>1. /\ UNCHANGED <<downloads, indicator, result, history>> /\ T!Settle(downloads)
      /\ pc \in Waiting
  BY DEF LatestComes, ManifestComes, NotesCome, Completed, Waiting
<1>2. downloads \in 1..3
  BY <1>1 DEF Inv, Flow, Typed, Numbered, Waiting
<1>3. /\ answer' \in [1..3 -> T!Answer]
      /\ \A j \in 1..(downloads - 1) : answer'[j] = "yes"
  <2>1. PICK end \in {"yes", "no"} : answer' = [answer EXCEPT ![downloads] = end]
    BY <1>1 DEF T!Settle
  <2> QED
    BY <1>1, <1>2, <2>1 DEF Inv, Flow, Typed, Downloaded, T!Answer
<1>4. CASE Give(TRUE, -1)
  <2>1. pc' = "stop" /\ ret' = -1 /\ lastError' = TRUE
    BY <1>4 DEF Give
  <2>2. /\ pc \notin Over
        /\ UNCHANGED <<indicator, chosen, current, offer, pressed, inTime, raced, silent, downloads>>
    BY <1>1 DEF Waiting, Over, result, history
  <2> QED
    BY <1>3, <2>1, <2>2, FailStep DEF Inv, Flow, Typed
<1>5. CASE Yes /\ \/ pc = "latest.wait" /\ Goto("manifest")
                  \/ pc = "manifest.wait" /\ Goto("load")
                  \/ pc = "notes.wait" /\ Goto("stop")
  <2>1. \A j \in 1..downloads : answer'[j] = "yes"
    BY <1>2, <1>3, <1>5 DEF Yes
  <2>2. UNCHANGED <<lastError, ret, current, offer, chosen, history, downloads>>
        /\ Compare(current', offer') = Compare(current, offer)
    BY <1>1, <1>5 DEF Goto, result
  <2>3. I!TypeOK'
    BY <1>1, IndicatorType DEF Inv, Flow, Typed
  <2> QED
    BY <1>1, <1>2, <1>3, <1>5, <2>1, <2>2, <2>3 DEF Goto, Inv, Flow, Typed, Numbered, Downloaded,
       Undecided, Decided, Waiting, Over, Before, Reading, Pc, history
<1> QED
  BY <1>4, <1>5 DEF LatestComes, ManifestComes, NotesCome, Completed

(* An item that is selected has a weight, which one for another system has   *)
(* not.                                                                      *)
LEMMA BestMatchIsItem ==
  ASSUME NEW items, BestMatch(items) # 0
  PROVE  items[BestMatch(items)] # NoItem
<1>1. SelectionWeight(items[BestMatch(items)]) # 0
  BY DEF BestMatch
<1>2. \A item : SelectionWeight(item) # 0 => item.os \in {"specific", ""}
  <2> TAKE item
  <2>1. item.os \notin {"specific", ""} => Rank(item) = 0
    BY DEF Rank
  <2>2. Rank(item) = 0 => SelectionWeight(item) = 0
    <3> DEFINE weight == MajorRange * Rank(item) + (Minimum(item) % MajorRange)
               newer  == Minimum(item) > System
    <3>1. SelectionWeight(item) = IF Rank(item) = 0 \/ newer THEN 0 ELSE weight
      BY DEF SelectionWeight
    <3> HIDE DEF weight, newer
    <3> QED
      BY <3>1
  <2> QED
    BY <2>1, <2>2
<1>3. NoItem.os = "foreign"
  BY DEF NoItem, EmptyItem
<1> QED
  BY <1>1, <1>2, <1>3

(* The manifest is parsed, and an item of it is selected. *)
LEMMA LoadSteps ==
  ASSUME Inv, Parse \/ LoadThrows \/ LoadReturns
  PROVE  Flow'
<1>1. CASE Parse
  <2>1. UNCHANGED <<pc, downloads, indicator, result, lastError, ret, history, answer>>
    BY <1>1 DEF Parse, checker
  <2>2. I!TypeOK'
    BY <2>1, IndicatorType DEF Inv, Flow, Typed
  <2> QED
    BY <2>1, <2>2 DEF Inv, Flow, Typed, Numbered, Downloaded, Undecided, Decided, result, history
<1>2. CASE LoadThrows
  <2>1. /\ UNCHANGED <<downloads, result, history, answer>>
        /\ pc = "load" /\ pc' = "stop" /\ ret' = -1 /\ lastError' = TRUE /\ I!Stop
    BY <1>2 DEF LoadThrows, Give, ParserDone
  <2>2. I!TypeOK'
    BY <2>1, IndicatorType DEF Inv, Flow, Typed
  <2> QED
    BY <2>1, <2>2 DEF Inv, Flow, Typed, Numbered, Downloaded, Undecided, Decided, Waiting,
       Over, Before, Reading, Pc, result, history
<1>3. CASE LoadReturns
  <2>1. /\ UNCHANGED <<downloads, indicator, current, offer, history, answer>> /\ pc = "load"
        /\ \/ pc' = "stop" /\ ret' = -2 /\ lastError' = TRUE /\ chosen' = chosen
           \/ pc' = "cancelled" /\ UNCHANGED <<lastError, ret>> /\ chosen' # NoItem
    <3> DEFINE best == BestMatch(ctx.items)
    <3>1. /\ UNCHANGED <<downloads, indicator, current, offer, history, answer>> /\ pc = "load"
          /\ IF best = 0 THEN Give(TRUE, -2) /\ UNCHANGED chosen
                         ELSE Goto("cancelled") /\ chosen' = ctx.items[best]
      BY <1>3 DEF LoadReturns, ParserDone
    <3>2. best # 0 => ctx.items[best] # NoItem
      BY BestMatchIsItem
    <3> HIDE DEF best
    <3>3. CASE best = 0
      BY <3>1, <3>3 DEF Give
    <3>4. CASE best # 0
      BY <3>1, <3>2, <3>4 DEF Goto
    <3> QED
      BY <3>3, <3>4
  <2>2. I!TypeOK'
    BY <2>1, IndicatorType DEF Inv, Flow, Typed
  <2>3. CASE pc' = "stop" /\ ret' = -2 /\ lastError' = TRUE /\ chosen' = chosen
    BY <2>1, <2>3, FailStep DEF Inv, Flow, Typed, Over, history
  <2>4. CASE pc' = "cancelled" /\ UNCHANGED <<lastError, ret>> /\ chosen' # NoItem
    BY <2>1, <2>2, <2>4 DEF Inv, Flow, Typed, Numbered, Downloaded, Undecided, Decided,
       Waiting, Over, Before, Reading, Pc, history
  <2> QED
    BY <2>1, <2>3, <2>4
<1> QED
  BY <1>1, <1>2, <1>3

(* Somebody looks at the indicator, or cancels. *)
LEMMA IndicatorSteps ==
  ASSUME Inv, AskWhether \/ AskLast \/ Looks \/ Cancel \/ \E a \in Poller : Stores(a)
  PROVE  Flow'
<1>1. /\ UNCHANGED <<downloads, result, lastError, ret, silent, answer>>
      /\ \/ pc' = pc
         \/ pc = "cancelled" /\ pc' = "asked"
         \/ pc = "stop" /\ pc' = "stopping"
  BY DEF AskWhether, AskLast, Ask, Goto, Looks, Cancel, Stores, Alone, history
<1>2. I!TypeOK'
  BY IndicatorType DEF Inv, Flow, Typed, AskWhether, AskLast, Ask, Looks, Cancel, Stores, Poller
<1>3. /\ pressed' \in BOOLEAN /\ inTime' \in BOOLEAN /\ raced' \in BOOLEAN
      /\ pressed => pressed'
  BY DEF Inv, Flow, Typed, AskWhether, AskLast, Ask, Overlapped, Looks, Cancel, Stores, history
<1> QED
  BY <1>1, <1>2, <1>3 DEF Inv, Flow, Typed, Numbered, Downloaded, Undecided, Decided, Waiting,
     Over, Before, Reading, Pc, result

(* The last word is the indicator's. *)
LEMMA StopStep == ASSUME Inv, Stop PROVE Flow'
<1>1. /\ UNCHANGED <<downloads, result, lastError, history, answer>>
      /\ pc = "stopping" /\ pc' = "ended"
      /\ ret' = IF progress.cancelled THEN -1 ELSE ret
  BY DEF Stop, Alone
<1>2. I!TypeOK'
  BY IndicatorType DEF Stop, Inv, Flow, Typed
<1>3. progress.cancelled => pressed
  BY DEF Inv, Polled, Found, Poller
<1> QED
  BY <1>1, <1>2, <1>3 DEF Inv, Flow, Typed, Numbered, Downloaded, Undecided, Decided,
     Waiting, Over, Before, Reading, Pc, result, history

(* A download ends in the background, or the application quits. *)
LEMMA OutsideSteps ==
  ASSUME Inv, Finish \/ Quit \/ UNCHANGED vars
  PROVE  Flow'
<1>1. UNCHANGED <<pc, downloads, indicator, chosen, current, offer, lastError, ret, history, answer>>
  BY DEF Finish, Quit, T!Finish, T!Quit, vars, checker, result
<1>2. I!TypeOK'
  BY <1>1, IndicatorType DEF Inv, Flow, Typed
<1> QED
  BY <1>1, <1>2 DEF Inv, Flow, Typed, Numbered, Downloaded, Undecided, Decided, history

LEMMA StepFlow == ASSUME Inv, [Next]_vars PROVE Flow'
<1>1. CASE Begin \/ ResolveFeed \/ AskCancelled \/ CheckKeys
  <2>1. UNCHANGED <<downloads, answer, history>>
    BY <1>1 DEF Begin, ResolveFeed, AskCancelled, CheckKeys, Alone
  <2> QED
    BY <1>1, <2>1, LocalStep
<1>2. CASE AskWhether \/ AskLast \/ Looks \/ Cancel \/ Stores("client") \/ Stores("bar")
  BY <1>2, IndicatorSteps DEF Poller
<1> QED
  BY <1>1, <1>2, CompareStep, GetSteps, RefusedSteps, AnswerSteps, LoadSteps, StopStep,
     OutsideSteps DEF Next

-----------------------------------------------------------------------------
(* The indicator. *)

(* Whose it is never changes. *)
LEMMA ConsoleStays == [Next]_vars => UNCHANGED console
<1>1. CASE Begin \/ ResolveFeed \/ AskCancelled \/ CheckKeys \/ CompareVersions \/ Stop \/ Cancel
  BY <1>1 DEF Begin, ResolveFeed, AskCancelled, CheckKeys, CompareVersions, Stop, Cancel, Alone
<1>2. CASE GetLatest \/ LatestRefused \/ LatestComes \/ GetManifest \/ ManifestRefused
           \/ ManifestComes \/ GetNotes \/ NotesRefused \/ NotesCome
  BY <1>2 DEF GetLatest, LatestRefused, LatestComes, GetManifest, ManifestRefused,
     ManifestComes, GetNotes, NotesRefused, NotesCome, Get, Refused, Completed
<1>3. CASE Parse \/ LoadThrows \/ LoadReturns \/ Finish \/ Quit \/ UNCHANGED vars
  BY <1>3 DEF Parse, LoadThrows, LoadReturns, ParserDone, Finish, Quit, vars, checker
<1>4. CASE AskWhether \/ AskLast \/ Looks \/ Stores("client") \/ Stores("bar")
  BY <1>4 DEF AskWhether, AskLast, Ask, Looks, Stores, Alone
<1> QED
  BY <1>1, <1>2, <1>3, <1>4 DEF Next

(* A step that leaves it alone. *)
LEMMA HeardByAnother ==
  ASSUME Inv, UNCHANGED <<console, indicator, pressed, inTime, raced>>,
         \/ UNCHANGED <<pc, ret>>
         \/ pc \notin Over /\ pc' \notin {"begin", "stopping", "ended"}
  PROVE  Polled' /\ Noticed'
BY DEF Inv, Polled, Noticed, Found, Over, indicator

LEMMA AnotherStep ==
  ASSUME Inv, [Next]_vars,
         ~(Begin \/ AskWhether \/ AskLast \/ Stores("client") \/ Stores("bar") \/ Looks),
         ~(Cancel \/ LoadThrows \/ Stop)
  PROVE  Polled' /\ Noticed'
<1>0. UNCHANGED console
  BY ConsoleStays
<1>1. CASE ResolveFeed \/ AskCancelled \/ CheckKeys \/ CompareVersions
  BY <1>0, <1>1, HeardByAnother DEF ResolveFeed, AskCancelled, CheckKeys, CompareVersions, Give, Goto,
     history, Over
<1>2. CASE GetLatest \/ GetManifest \/ GetNotes
  BY <1>0, <1>2, HeardByAnother DEF GetLatest, GetManifest, GetNotes, Get, Goto, history, Over
<1>3. CASE LatestRefused \/ ManifestRefused \/ NotesRefused
  BY <1>0, <1>3, HeardByAnother DEF LatestRefused, ManifestRefused, NotesRefused, Refused, Give, Over
<1>4. CASE LatestComes \/ ManifestComes \/ NotesCome
  BY <1>0, <1>4, HeardByAnother DEF LatestComes, ManifestComes, NotesCome, Completed, Give, Goto,
     history, Over
<1>5. CASE LoadReturns
  <2>1. /\ pc = "load" /\ pc' \in {"stop", "cancelled"}
        /\ UNCHANGED <<indicator, pressed, inTime, raced>>
    BY <1>5 DEF LoadReturns, Give, Goto, history
  <2> QED
    BY <1>0, <2>1, HeardByAnother DEF Over
<1>6. CASE Parse \/ Finish \/ Quit \/ UNCHANGED vars
  BY <1>0, <1>6, HeardByAnother DEF Parse, Finish, Quit, vars, checker, history
<1> QED
  BY <1>1, <1>2, <1>3, <1>4, <1>5, <1>6 DEF Next

(* The check begins: ESC may have been typed ahead. *)
LEMMA BeginHeard == ASSUME Inv, UNCHANGED console, Begin PROVE Polled' /\ Noticed'
<1>1. /\ pc = "begin" /\ pc' \in {"ended", "resolve"}
      /\ UNCHANGED <<pressed, inTime, raced, key, poll, ret>>
  BY DEF Begin, Goto, I!Start, indicator, history
<1>2. ~progress.up /\ progress = I!Down /\ ~progress.cancelled
  BY <1>1 DEF Inv, Polled, I!Down
<1>3. /\ progress'.cancelled = FALSE
      /\ progress' = I!Down \/ (progress'.up /\ pc' = "resolve")
  <2>1. CASE UNCHANGED indicator
    BY <1>2, <2>1 DEF indicator
  <2>2. CASE I!Start /\ Goto("resolve")
    <3>1. PICK up \in BOOLEAN : progress' = [up |-> up, cancelled |-> FALSE]
      BY <1>2, <2>2 DEF I!Start
    <3> QED
      BY <2>2, <3>1 DEF I!Down, Goto
  <2> QED
    BY <2>1, <2>2 DEF Begin
<1>4. \A a \in Poller : poll[a] = "none"
  BY <1>2 DEF Inv, Polled
<1>5. ~(inTime /\ ~raced)
  BY <1>1, <1>2 DEF Inv, Noticed, Over
<1> QED
  BY <1>1, <1>2, <1>3, <1>4, <1>5 DEF Inv, Polled, Noticed, Found, I!Down

(* A thread looks: the client or the bar's. *)
LEMMA LookHeard ==
  ASSUME Inv, UNCHANGED console, NEW a \in Poller, I!Look(a), Overlapped(a), UNCHANGED <<pressed, inTime, ret>>,
         \/ pc' = pc
         \/ a = "client" /\ pc = "cancelled" /\ pc' = "asked"
         \/ a = "client" /\ pc = "stop" /\ pc' = "stopping",
         pc' # "begin", pc' # "ended"
  PROVE  Polled' /\ Noticed'
<1>1. /\ console /\ progress.up /\ ~progress.cancelled /\ poll[a] = "none"
      /\ progress' = progress /\ key' = FALSE
      /\ poll'[a] = (IF key THEN "yes" ELSE "no")
      /\ \A b \in Poller : b # a => poll'[b] = poll[b]
  BY DEF I!Look, I!Unsure, Inv, Flow, Typed, I!TypeOK
<1>2. ~raced' => ~raced /\ \A b \in Poller : b # a => poll[b] = "none"
  BY <1>1 DEF Overlapped, I!Overlaps, I!Unsure, Inv, Flow, Typed
<1>3. Polled'
  BY <1>1, <1>2 DEF Inv, Polled, Found
<1>4. ASSUME inTime, ~raced', ~(pc' \in Over /\ ret' < 0)
      PROVE  IF pc' = "stopping" THEN Found("client")' ELSE \E b \in Poller : Found(b)'
  <2>1. CASE pc = "stopping"
    <3>0. pc' = "stopping" /\ ret' = ret /\ ~raced
      BY <1>2, <1>4, <2>1
    <3>1. Found("client")
      BY <1>4, <2>1, <3>0 DEF Inv, Noticed, Over
    <3>2. poll["client"] = "yes"
      BY <1>1, <3>1 DEF Found
    <3> QED
      BY <1>1, <1>2, <1>4, <3>2 DEF Poller
  <2>2. CASE pc # "stopping"
    <3>1. key \/ \E b \in Poller : Found(b)
      BY <1>2, <1>4, <2>2 DEF Inv, Noticed, Over
    <3>2. key
      BY <1>1, <1>2, <1>4, <3>1 DEF Found
    <3> QED
      BY <1>1, <2>2, <3>2 DEF Found, Poller
  <2> QED
    BY <2>1, <2>2
<1>5. Noticed'
  BY <1>1, <1>4 DEF Noticed, Found, Over
<1> QED
  BY <1>3, <1>5

LEMMA AskHeard ==
  ASSUME Inv, UNCHANGED console, AskWhether \/ AskLast \/ Looks
  PROVE  Polled' /\ Noticed'
<1>1. CASE Looks
  <2>1. pc \notin {"begin", "ended"}
    BY <1>1 DEF Looks, I!Look, I!Unsure, Inv, Polled
  <2> QED
    BY <1>1, <2>1, LookHeard DEF Looks, Poller
<1>2. CASE AskWhether \/ AskLast
  <2>1. /\ \/ pc = "cancelled" /\ pc' = "asked"
           \/ pc = "stop" /\ pc' = "stopping"
        /\ I!Ask("client") /\ Overlapped("client") /\ UNCHANGED <<pressed, inTime, ret>>
    BY <1>2 DEF AskWhether, AskLast, Ask, Goto
  <2>2. CASE I!Unsure
    BY <2>1, <2>2, LookHeard DEF I!Ask, Poller
  <2>3. CASE ~I!Unsure
    <3>1. UNCHANGED <<progress, key, poll>>
      BY <2>1, <2>3 DEF I!Ask
    <3>2. raced' = raced
      BY <2>1, <2>3 DEF Overlapped, I!Overlaps, Inv, Flow, Typed
    <3>3. Polled'
      BY <2>1, <3>1, <3>2 DEF Inv, Polled, Found
    <3>4. inTime /\ ~raced => progress.cancelled \/ (pc = "stop" /\ ret < 0)
      BY <2>1, <2>3 DEF Inv, Noticed, Polled, Found, Over, I!Unsure
    <3>5. Noticed'
      BY <2>1, <3>1, <3>2, <3>4 DEF Inv, Noticed, Polled, Found, Over, Poller, I!Down
    <3> QED
      BY <3>3, <3>5
  <2> QED
    BY <2>2, <2>3
<1> QED
  BY <1>1, <1>2

(* A thread stores what it found. *)
LEMMA StoreHeard ==
  ASSUME Inv, UNCHANGED console, NEW a \in Poller, Stores(a)
  PROVE  Polled' /\ Noticed'
<1>1. /\ poll[a] # "none" /\ poll'[a] = "none" /\ \A b \in Poller : b # a => poll'[b] = poll[b]
      /\ progress'.cancelled = (poll[a] = "yes") /\ progress'.up = progress.up
      /\ UNCHANGED <<key, pc, ret, pressed, inTime, raced>>
  BY DEF Stores, I!Store, Inv, Flow, Typed, I!TypeOK, history
<1>2. progress.up /\ console
  BY <1>1 DEF Inv, Polled
<1>3. ~raced => ~progress.cancelled /\ \A b \in Poller : b # a => poll[b] = "none"
  BY <1>1 DEF Inv, Polled
<1>4. poll[a] = "yes" => pressed
  BY DEF Inv, Polled, Found
<1>5. Polled'
  BY <1>1, <1>2, <1>3, <1>4 DEF Inv, Polled, Found
<1>6. Noticed'
  BY <1>1, <1>2, <1>3 DEF Inv, Noticed, Found, Poller
<1> QED
  BY <1>5, <1>6

LEMMA CancelHeard == ASSUME Inv, UNCHANGED console, Cancel PROVE Polled' /\ Noticed'
<1>1. /\ pc # "ended" /\ pressed' = TRUE /\ UNCHANGED <<pc, ret, raced, poll>>
      /\ inTime' = (inTime \/ (progress.up /\ (console => pc # "stopping")))
  BY DEF Cancel, I!Button, I!Escape
<1>2. CASE I!Button
  <2>1. /\ ~console /\ progress.up /\ key' = key /\ progress'.up = progress.up
        /\ progress'.cancelled = TRUE
    BY <1>2 DEF I!Button, Inv, Flow, Typed, I!TypeOK
  <2>2. \A a \in Poller : poll[a] = "none"
    BY <2>1 DEF Inv, Polled
  <2> QED
    BY <1>1, <2>1, <2>2 DEF Inv, Polled, Noticed, Found, Poller
<1>3. CASE I!Escape
  <2>1. console /\ key' = TRUE /\ progress' = progress
    BY <1>3 DEF I!Escape
  <2>2. Polled'
    BY <1>1, <2>1 DEF Inv, Polled, Found
  <2>3. inTime' => inTime \/ (progress.up /\ pc # "stopping")
    BY <1>1, <2>1 DEF Inv, Flow, Typed
  <2>4. Noticed'
    BY <1>1, <2>1, <2>3 DEF Inv, Noticed, Found, Over
  <2> QED
    BY <2>2, <2>4
<1> QED
  BY <1>2, <1>3 DEF Cancel

(* The indicator goes. *)
LEMMA ForgetHeard ==
  ASSUME Inv, UNCHANGED console, LoadThrows \/ Stop
  PROVE  Polled' /\ Noticed'
<1>1. /\ progress' = I!Down /\ progress'.up = FALSE /\ progress'.cancelled = FALSE
      /\ \A a \in Poller : poll'[a] = "none"
      /\ (key' => key) /\ pc' \in Over /\ UNCHANGED <<pressed, inTime, raced>>
  BY DEF LoadThrows, Stop, Give, I!Stop, I!Forget, I!Down, I!Quiet, history, Over, Inv, Flow,
     Typed, I!TypeOK
<1>2. Polled'
  BY <1>1 DEF Inv, Polled, Found
<1>3. inTime /\ ~raced => ret' < 0
  <2>1. CASE LoadThrows
    BY <2>1 DEF LoadThrows, Give
  <2>2. CASE Stop
    <3>1. /\ pc = "stopping" /\ poll["client"] = "none"
          /\ ret' = IF progress.cancelled THEN -1 ELSE ret
      BY <2>2 DEF Stop, I!Told
    <3> QED
      BY <3>1 DEF Inv, Noticed, Found
  <2> QED
    BY <2>1, <2>2
<1> QED
  BY <1>1, <1>2, <1>3 DEF Noticed

LEMMA NextInv == Inv /\ [Next]_vars => Inv'
<1> SUFFICES ASSUME Inv, [Next]_vars PROVE Inv'
  OBVIOUS
<1>1. Flow'
  BY StepFlow
<1>2. Polled' /\ Noticed'
  <2>0. UNCHANGED console
    BY ConsoleStays
  <2>1. CASE Begin \/ AskWhether \/ AskLast \/ Stores("client") \/ Stores("bar") \/ Looks
    BY <2>0, <2>1, BeginHeard, AskHeard, StoreHeard DEF Poller
  <2>2. CASE Cancel \/ LoadThrows \/ Stop
    BY <2>0, <2>2, CancelHeard, ForgetHeard
  <2> QED
    BY <2>1, <2>2, AnotherStep
<1> QED
  BY <1>1, <1>2 DEF Inv

-----------------------------------------------------------------------------
LEMMA InvAlways == Spec => []Inv
BY InitInv, NextInv, PTL DEF Spec

(* IsAvailable tells the truth: a release that is returned as newer is that  *)
(* as Compare orders them, was found in a manifest that suits the host and   *)
(* has its notes, and none is returned against a cancel, unless two polls of *)
(* the console overlapped.                                                   *)
(* AutoUpdater.cpp:623, 641-668, 684-686, TProgressBar.cpp:221-227.          *)
THEOREM AnswerIsTheTruth == Spec => []AnswerIsTrue
<1>1. Inv => AnswerIsTrue
  <2> SUFFICES ASSUME Inv, pc = "ended", ret >= 0 PROVE AnswerIsTrue
    BY DEF AnswerIsTrue
  <2>1. ret \in Int /\ ~(ret < 0)
    BY DEF Inv, Flow, Typed
  <2>2. inTime => raced
    BY <2>1 DEF Inv, Noticed
  <2> QED
    BY <2>1, <2>2 DEF Inv, Flow, Decided, Over, AnswerIsTrue
<1> QED
  BY <1>1, InvAlways, PTL

(* A check that fails says so, or the user cancelled it, or the download of  *)
(* the manifest could not begin.  AutoUpdater.cpp:593-689.                   *)
THEOREM FailureIsTold == Spec => []FailureTold
<1>1. Inv => FailureTold
  BY DEF Inv, Flow, Typed, Decided, Over, FailureTold
<1> QED
  BY <1>1, InvAlways, PTL
-----------------------------------------------------------------------------
(* The parser.  Its context has the types of its fields, and an item an      *)
(* origin; there are no more open elements than there were events.           *)

Kinds == {"root", "channel", "item", "tags", "criticalUpdate"} \cup Field

ElementType == [kind : Kinds, name : ChannelName, at : 0..Events]
ItemType    == [build : ChannelName, os : OSLabel, text : [Field -> Seq(Digit)]]
Status      == {"none", "omitted", "active", "inactive"}
Outcome     == {"parsing", "end", "complete", "error"}
ContextType ==
  [status : Status, name : ChannelName, inItem : BOOLEAN, inTags : BOOLEAN,
   level : [Leveled -> Int], items : Seq(ItemType), outcome : Outcome]

ParserTyped ==
  /\ required \in ChannelName /\ events \in 0..Events /\ nested \in BOOLEAN
  /\ document \in Seq(ElementType) /\ Len(document) >= 1 /\ Len(document) <= events + 1
  /\ ctx \in ContextType
  /\ origin \in Seq(ElementType) /\ Len(origin) = Len(ctx.items)

Of(doc, kind) == {d \in DOMAIN doc : doc[d].kind = kind}

(* The channel that is open, if one is, is the one the status is about; all  *)
(* items are its own, or all stand in none.                                  *)
InChannel(doc, c, from) ==
  /\ \A d, e \in Of(doc, "channel") : d = e
  /\ c.status \in {"none", "omitted"} => Of(doc, "channel") = {}
  /\ c.status = "active" =>
       /\ Of(doc, "channel") # {}
       /\ \A d \in Of(doc, "channel") :
            /\ ChannelMatch(doc[d].name) /\ c.name = doc[d].name
            /\ \A i \in DOMAIN from : from[i] = doc[d]
  /\ c.status \in {"none", "inactive"} => from = <<>>
  /\ c.status = "omitted" => \A i \in DOMAIN from : from[i] = Nowhere

(* The elements from the p-th to the t-th of a kind, both left out. *)
Between(doc, kind, p, t) == {d \in (p + 1)..(t - 1) : doc[d].kind = kind}

(* The open item is the p-th element and its tags, if they are open, the     *)
(* t-th: a level counts what is open between them, and what was closed too   *)
(* often through tags inside tags.                                           *)
ItemAt(doc, c, more, p, t) ==
  /\ p \in 1..Len(doc) /\ Of(doc, "item") = {p}
  /\ t \in (p + 1)..(Len(doc) + 1)
  /\ IF c.inTags THEN t \in Of(doc, "tags") ELSE t = Len(doc) + 1
  /\ \A d \in Of(doc, "channel") : d < p
  /\ c.inTags \/ more \/ \A d \in Of(doc, "tags") : d < p
  /\ \A f \in Leveled : LET open == Cardinality(Between(doc, f, p, t))
                        IN c.level[f] <= open /\ (more \/ c.level[f] = open)

InOpenItem(doc, c, more) ==
  /\ more \/ \A d, e \in Of(doc, "tags") : d = e
  /\ c.inItem => /\ c.status \in {"omitted", "active"} /\ Len(c.items) >= 1
                 /\ \E p, t \in 1..(Len(doc) + 1) : ItemAt(doc, c, more, p, t)
  /\ ~c.inItem => /\ ~c.inTags
                  /\ c.status = "inactive" \/ Of(doc, "item") = {}
                  /\ \A d \in Of(doc, "channel"), p \in Of(doc, "item") : d < p
                  /\ \A f \in Leveled : c.level[f] <= 0 /\ (more \/ c.level[f] = 0)

(* What is true of the items and levels, also when the parse is over. *)
Labelled(c, from) ==
  \A i \in DOMAIN from :
    /\ from[i] = Nowhere \/ ChannelMatch(from[i].name)
    /\ from[i].name # "" => c.items[i].build = from[i].name
    /\ \A j \in DOMAIN from : from[i].at = from[j].at

Leveled0(c, more) == more \/ c.level \in [Leveled -> 0..Events]

ParserInv ==
  /\ ParserTyped
  /\ Labelled(ctx, origin) /\ Leveled0(ctx, nested)
  /\ Parsing => InChannel(document, ctx, origin) /\ InOpenItem(document, ctx, nested)

(* What a document with one more open element, or one less, has open. *)
LEMMA OpenedFacts ==
  ASSUME NEW doc \in Seq(ElementType), NEW x \in ElementType
  PROVE  /\ Append(doc, x) \in Seq(ElementType) /\ Len(Append(doc, x)) = Len(doc) + 1
         /\ \A d \in DOMAIN doc : Append(doc, x)[d] = doc[d]
         /\ Append(doc, x)[Len(doc) + 1] = x
         /\ \A k : Of(Append(doc, x), k) =
                     Of(doc, k) \cup (IF x.kind = k THEN {Len(doc) + 1} ELSE {})
         /\ \A k, p, t : p \in Nat /\ t \in 1..(Len(doc) + 1) =>
              Between(Append(doc, x), k, p, t) = Between(doc, k, p, t)
         /\ \A k, p : p \in 1..Len(doc) =>
              Between(Append(doc, x), k, p, Len(doc) + 2) =
                Between(doc, k, p, Len(doc) + 1)
                  \cup (IF x.kind = k THEN {Len(doc) + 1} ELSE {})
<1>1. /\ Append(doc, x) \in Seq(ElementType) /\ Len(Append(doc, x)) = Len(doc) + 1
      /\ DOMAIN Append(doc, x) = 1..(Len(doc) + 1) /\ DOMAIN doc = 1..Len(doc) /\ Len(doc) \in Nat
      /\ \A d \in 1..Len(doc) : Append(doc, x)[d] = doc[d]
      /\ Append(doc, x)[Len(doc) + 1] = x
  OBVIOUS
<1> DEFINE more == Append(doc, x)
<1> HIDE DEF more
<1>2. /\ DOMAIN more = 1..(Len(doc) + 1) /\ DOMAIN doc = 1..Len(doc) /\ Len(doc) \in Nat
      /\ \A d \in 1..Len(doc) : more[d] = doc[d]
      /\ more[Len(doc) + 1] = x
  BY <1>1 DEF more
<1>3. \A k : Of(more, k) = Of(doc, k) \cup (IF x.kind = k THEN {Len(doc) + 1} ELSE {})
  BY <1>2 DEF Of
<1>4. \A k, p, t : p \in Nat /\ t \in 1..(Len(doc) + 1) =>
              Between(more, k, p, t) = Between(doc, k, p, t)
  BY <1>2 DEF Between
<1>5. \A k, p : p \in 1..Len(doc) =>
              Between(more, k, p, Len(doc) + 2) =
                Between(doc, k, p, Len(doc) + 1)
                  \cup (IF x.kind = k THEN {Len(doc) + 1} ELSE {})
  BY <1>2 DEF Between
<1> QED
  BY <1>1, <1>3, <1>4, <1>5 DEF more

LEMMA ClosedFacts ==
  ASSUME NEW doc \in Seq(ElementType), Len(doc) > 1
  PROVE  /\ Front(doc) \in Seq(ElementType) /\ Len(Front(doc)) = Len(doc) - 1
         /\ Last(doc) = doc[Len(doc)] /\ Last(doc) \in ElementType
         /\ \A d \in DOMAIN Front(doc) : Front(doc)[d] = doc[d]
         /\ \A k : Of(Front(doc), k) = Of(doc, k) \ {Len(doc)}
         /\ \A k : Len(doc) \in Of(doc, k) <=> Last(doc).kind = k
         /\ \A k, p, t : p \in Nat /\ t \in 1..Len(doc) =>
              Between(Front(doc), k, p, t) = Between(doc, k, p, t)
         /\ \A k, p : p \in 1..(Len(doc) - 1) =>
              Between(Front(doc), k, p, Len(doc)) =
                Between(doc, k, p, Len(doc) + 1) \ {Len(doc)}
         /\ \A k, p : p \in 1..(Len(doc) - 1) =>
              (Len(doc) \in Between(doc, k, p, Len(doc) + 1) <=> Last(doc).kind = k)
<1>1. doc # <<>> /\ Len(doc) \in Nat /\ DOMAIN doc = 1..Len(doc)
  OBVIOUS
<1>2. /\ Front(doc) \in Seq(ElementType) /\ Len(Front(doc)) = Len(doc) - 1
      /\ \A d \in 1..(Len(doc) - 1) : Front(doc)[d] = doc[d]
  BY <1>1, SubSeqProperties DEF Front
<1>3. Last(doc) = doc[Len(doc)] /\ Last(doc) \in ElementType
  BY <1>1 DEF Last
<1> DEFINE less == Front(doc)
           end  == Last(doc)
<1> HIDE DEF less, end
<1>4. /\ DOMAIN less = 1..(Len(doc) - 1) /\ \A d \in 1..(Len(doc) - 1) : less[d] = doc[d]
      /\ end = doc[Len(doc)] /\ Len(doc) \in Nat /\ DOMAIN doc = 1..Len(doc)
  BY <1>1, <1>2, <1>3 DEF less, end
<1>5. \A k : Of(less, k) = Of(doc, k) \ {Len(doc)}
  BY <1>4 DEF Of
<1>6. \A k : Len(doc) \in Of(doc, k) <=> end.kind = k
  BY <1>1, <1>4 DEF Of
<1>7. \A k, p, t : p \in Nat /\ t \in 1..Len(doc) => Between(less, k, p, t) = Between(doc, k, p, t)
  BY <1>4 DEF Between
<1>8. \A k, p : p \in 1..(Len(doc) - 1) =>
              Between(less, k, p, Len(doc)) = Between(doc, k, p, Len(doc) + 1) \ {Len(doc)}
  BY <1>4 DEF Between
<1>9. \A k, p : p \in 1..(Len(doc) - 1) =>
              (Len(doc) \in Between(doc, k, p, Len(doc) + 1) <=> end.kind = k)
  BY <1>4 DEF Between
<1>10. \A d \in DOMAIN less : less[d] = doc[d]
  BY <1>4
<1> QED
  BY <1>2, <1>3, <1>5, <1>6, <1>7, <1>8, <1>9, <1>10, Zenon DEF less, end

(* How many elements of a kind are open between two others. *)
LEMMA BetweenCount ==
  ASSUME NEW doc, NEW k, NEW p \in Nat, NEW t \in Nat
  PROVE  /\ IsFiniteSet(Between(doc, k, p, t)) /\ Cardinality(Between(doc, k, p, t)) \in Nat
         /\ p < t => Cardinality(Between(doc, k, p, t)) <= t - 1 - p
         /\ Cardinality(Between(doc, k, p, t)) >= 1 => \E d \in Between(doc, k, p, t) : TRUE
<1>1. /\ IsFiniteSet((p + 1)..(t - 1))
      /\ p < t => Cardinality((p + 1)..(t - 1)) = t - 1 - p
  BY FS_Interval
<1>2. Between(doc, k, p, t) \subseteq (p + 1)..(t - 1)
  BY DEF Between
<1>3. /\ IsFiniteSet(Between(doc, k, p, t))
      /\ Cardinality(Between(doc, k, p, t)) <= Cardinality((p + 1)..(t - 1))
  BY <1>1, <1>2, FS_Subset
<1>4. Cardinality(Between(doc, k, p, t)) \in Nat
  BY <1>3, FS_CardinalityType
<1>5. Cardinality(Between(doc, k, p, t)) >= 1 => Between(doc, k, p, t) # {}
  BY FS_EmptySet
<1> QED
  BY <1>1, <1>3, <1>4, <1>5

-----------------------------------------------------------------------------
(* The callbacks keep the types of the context. *)

LEMMA KindFacts ==
  /\ "" \in ChannelName /\ Leveled \subseteq Kinds
  /\ {"root", "channel", "item", "tags"} \cap Leveled = {}
  /\ {"root", "channel", "item", "tags"} \subseteq Kinds
<1>1. "" \in ChannelName /\ Field \cap {"root", "channel", "item", "tags", "criticalUpdate"} = {}
  BY ManifestAssumption, Zenon
<1> QED
  BY <1>1 DEF Leveled, Kinds

LEMMA NowhereType == Nowhere \in ElementType /\ \A e \in Kinds : Element(e) \in ElementType
<1>1. Events \in Nat
  BY ManifestAssumption, Zenon
<1>2. 0 \in 0..Events
  BY <1>1
<1>3. "" \in ChannelName /\ "root" \in Kinds
  BY KindFacts
<1> QED
  BY <1>2, <1>3 DEF Nowhere, Element, ElementType

LEMMA EmptyItemType ==
  /\ EmptyItem \in ItemType
  /\ \A name \in ChannelName : [EmptyItem EXCEPT !.build = name] \in ItemType
  /\ \A name : [EmptyItem EXCEPT !.build = name].build = name
<1>1. [f \in Field |-> <<>>] \in [Field -> Seq(Digit)]
  OBVIOUS
<1> DEFINE none == [f \in Field |-> <<>>]
<1>2. "" \in ChannelName /\ "" \in OSLabel
  BY KindFacts DEF OSLabel
<1>3. EmptyItem = [build |-> "", os |-> "", text |-> none]
  BY DEF EmptyItem
<1> HIDE DEF none
<1>4. none \in [Field -> Seq(Digit)]
  BY <1>1 DEF none
<1> QED
  BY <1>2, <1>3, <1>4 DEF ItemType

LEMMA StatusEffects ==
  ASSUME NEW c \in ContextType
  PROVE  /\ Fail(c) \in ContextType /\ Fail(c).outcome = "error"
         /\ Fail(c).status = c.status /\ Fail(c).name = c.name /\ Fail(c).inItem = c.inItem
         /\ Fail(c).inTags = c.inTags /\ Fail(c).level = c.level /\ Fail(c).items = c.items
         /\ \A name \in ChannelName :
              /\ StartChannel(c, name) \in ContextType
              /\ StartChannel(c, name).inItem = c.inItem
              /\ StartChannel(c, name).inTags = c.inTags
              /\ StartChannel(c, name).level = c.level /\ StartChannel(c, name).items = c.items
              /\ c.status # "none" => StartChannel(c, name).outcome = "error"
              /\ c.status = "none" =>
                   /\ StartChannel(c, name).outcome = c.outcome
                   /\ \/ /\ ChannelMatch(name) /\ StartChannel(c, name).status = "active"
                         /\ StartChannel(c, name).name = name
                      \/ StartChannel(c, name).status = "inactive"
<1>1. "" \in ChannelName
  BY KindFacts
<1>2. Fail(c) = [c EXCEPT !.outcome = "error"]
  BY DEF Fail
<1>3. Fail(c) \in ContextType /\ Fail(c).outcome = "error"
  BY <1>2 DEF ContextType, Outcome
<1>4. /\ Fail(c).status = c.status /\ Fail(c).name = c.name /\ Fail(c).inItem = c.inItem
      /\ Fail(c).inTags = c.inTags /\ Fail(c).level = c.level /\ Fail(c).items = c.items
  BY <1>2 DEF ContextType
<1>5. ASSUME NEW name \in ChannelName
      PROVE  /\ StartChannel(c, name) \in ContextType
             /\ StartChannel(c, name).inItem = c.inItem
             /\ StartChannel(c, name).inTags = c.inTags /\ StartChannel(c, name).level = c.level
             /\ StartChannel(c, name).items = c.items
             /\ c.status # "none" => StartChannel(c, name).outcome = "error"
             /\ c.status = "none" =>
                   /\ StartChannel(c, name).outcome = c.outcome
                   /\ \/ /\ ChannelMatch(name) /\ StartChannel(c, name).status = "active"
                         /\ StartChannel(c, name).name = name
                      \/ StartChannel(c, name).status = "inactive"
  <2>1. CASE c.status # "none"
    BY <1>3, <1>4, <2>1 DEF StartChannel
  <2>2. CASE c.status = "none" /\ ChannelMatch(name)
    <3>1. StartChannel(c, name) = [c EXCEPT !.status = "active", !.name = name]
      BY <2>2 DEF StartChannel
    <3>2. StartChannel(c, name) \in ContextType
      BY <3>1 DEF ContextType, Status
    <3> QED
      BY <2>2, <3>1, <3>2 DEF ContextType
  <2>3. CASE c.status = "none" /\ ~ChannelMatch(name)
    <3>1. StartChannel(c, name) = [c EXCEPT !.status = "inactive", !.name = ""]
      BY <2>3 DEF StartChannel
    <3>2. StartChannel(c, name) \in ContextType
      BY <1>1, <3>1 DEF ContextType, Status
    <3> QED
      BY <2>3, <3>1, <3>2 DEF ContextType
  <2> QED
    BY <2>1, <2>2, <2>3
<1> QED
  BY <1>3, <1>4, <1>5, Zenon

LEMMA StartItemEffects ==
  ASSUME NEW c \in ContextType, ~c.inItem, c.status # "inactive"
  PROVE  \E item \in ItemType :
           /\ item.build = c.name
           /\ StartItem(c) \in ContextType /\ StartItem(c).items = Append(c.items, item)
           /\ StartItem(c).inItem = TRUE
           /\ StartItem(c).status = (IF c.status = "none" THEN "omitted" ELSE c.status)
           /\ StartItem(c).name = c.name /\ StartItem(c).inTags = c.inTags
           /\ StartItem(c).level = c.level /\ StartItem(c).outcome = c.outcome
<1> DEFINE item == [EmptyItem EXCEPT !.build = c.name]
           status == IF c.status = "none" THEN "omitted" ELSE c.status
<1>1. item \in ItemType /\ item.build = c.name
  BY EmptyItemType DEF ContextType
<1>2. StartItem(c) = [c EXCEPT !.items = Append(c.items, item), !.inItem = TRUE, !.status = status]
  BY DEF StartItem
<1>3. status \in Status
  BY DEF ContextType, Status
<1> HIDE DEF item, status
<1>4. Append(c.items, item) \in Seq(ItemType)
  BY <1>1 DEF ContextType
<1> DEFINE items == Append(c.items, item)
<1> HIDE DEF items
<1>5. StartItem(c) = [c EXCEPT !.items = items, !.inItem = TRUE, !.status = status]
  BY <1>2 DEF items
<1>6. StartItem(c) \in ContextType
  BY <1>3, <1>4, <1>5 DEF ContextType, items
<1>7. /\ StartItem(c).items = items /\ StartItem(c).inItem = TRUE /\ StartItem(c).status = status
      /\ StartItem(c).name = c.name /\ StartItem(c).inTags = c.inTags
      /\ StartItem(c).level = c.level /\ StartItem(c).outcome = c.outcome
  BY <1>5 DEF ContextType
<1>8. StartItem(c).items = Append(c.items, item)
  BY <1>7 DEF items
<1>9. StartItem(c).status = (IF c.status = "none" THEN "omitted" ELSE c.status)
  BY <1>7 DEF status
<1> QED
  BY <1>1, <1>6, <1>7, <1>8, <1>9, Zenon

LEMMA StartInsideEffects ==
  ASSUME NEW c \in ContextType, InsideItem(c)
  PROVE  /\ StartInside(c, "tags") \in ContextType /\ StartInside(c, "tags").inTags = TRUE
         /\ StartInside(c, "tags").status = c.status /\ StartInside(c, "tags").name = c.name
         /\ StartInside(c, "tags").inItem = c.inItem /\ StartInside(c, "tags").level = c.level
         /\ StartInside(c, "tags").items = c.items /\ StartInside(c, "tags").outcome = c.outcome
         /\ \A e \in Leveled :
              /\ StartInside(c, e) \in ContextType
              /\ StartInside(c, e).level = [c.level EXCEPT ![e] = @ + 1]
              /\ StartInside(c, e).status = c.status /\ StartInside(c, e).name = c.name
              /\ StartInside(c, e).inItem = c.inItem /\ StartInside(c, e).inTags = c.inTags
              /\ StartInside(c, e).items = c.items /\ StartInside(c, e).outcome = c.outcome
<1>1. StartInside(c, "tags") = [c EXCEPT !.inTags = TRUE]
  BY DEF StartInside
<1>2. /\ StartInside(c, "tags") \in ContextType /\ StartInside(c, "tags").inTags = TRUE
      /\ StartInside(c, "tags").status = c.status /\ StartInside(c, "tags").name = c.name
      /\ StartInside(c, "tags").inItem = c.inItem /\ StartInside(c, "tags").level = c.level
      /\ StartInside(c, "tags").items = c.items /\ StartInside(c, "tags").outcome = c.outcome
  BY <1>1 DEF ContextType
<1>3. ASSUME NEW e \in Leveled
      PROVE  /\ StartInside(c, e) \in ContextType
             /\ StartInside(c, e).level = [c.level EXCEPT ![e] = @ + 1]
             /\ StartInside(c, e).status = c.status /\ StartInside(c, e).name = c.name
             /\ StartInside(c, e).inItem = c.inItem /\ StartInside(c, e).inTags = c.inTags
             /\ StartInside(c, e).items = c.items /\ StartInside(c, e).outcome = c.outcome
  <2> DEFINE level == [c.level EXCEPT ![e] = c.level[e] + 1]
  <2>1. e # "tags"
    BY KindFacts
  <2>2. StartInside(c, e) = [c EXCEPT !.level = level]
    BY <2>1 DEF StartInside, ContextType
  <2>3. level \in [Leveled -> Int]
    BY DEF ContextType
  <2> HIDE DEF level
  <2>4. /\ StartInside(c, e) \in ContextType /\ StartInside(c, e).level = level
        /\ StartInside(c, e).status = c.status /\ StartInside(c, e).name = c.name
        /\ StartInside(c, e).inItem = c.inItem /\ StartInside(c, e).inTags = c.inTags
        /\ StartInside(c, e).items = c.items /\ StartInside(c, e).outcome = c.outcome
    BY <2>2, <2>3 DEF ContextType
  <2> QED
    BY <2>4 DEF level
<1> QED
  BY <1>2, <1>3, Zenon

(* An enclosure that is taken keeps the texts and every label that was set. *)
LEMMA EnclosureEffects ==
  ASSUME NEW c \in ContextType, c.inItem => Len(c.items) >= 1,
         NEW build \in ChannelName, NEW os \in OSLabel
  PROVE  LET d == Enclosure(c, build, os)
         IN /\ d \in ContextType /\ Len(d.items) = Len(c.items)
            /\ d.status = c.status /\ d.name = c.name /\ d.inItem = c.inItem
            /\ d.inTags = c.inTags /\ d.level = c.level
            /\ \A i \in DOMAIN c.items :
                 /\ d.items[i].text = c.items[i].text
                 /\ c.items[i].build # "" => d.items[i].build = c.items[i].build
<1> DEFINE d == Enclosure(c, build, os)
           n == Len(c.items)
           item == c.items[n]
           Redefined(old, new) == new # "" /\ old # "" /\ old # new
           Kept(old, new) == IF new = "" THEN old ELSE new
           failed == Redefined(item.build, build) \/ Redefined(item.os, os)
<1>1. CASE ~InsideItem(c)
  <2>1. d = c
    BY <1>1 DEF Enclosure, InsideItem, Current
  <2> HIDE DEF d
  <2> QED
    BY <2>1 DEF d
<1>2. CASE InsideItem(c) /\ failed
  <2>1. d = Fail(c)
    BY <1>2 DEF Enclosure, Current
  <2> HIDE DEF d
  <2>2. /\ d \in ContextType
        /\ d.status = c.status /\ d.name = c.name /\ d.inItem = c.inItem /\ d.inTags = c.inTags
        /\ d.level = c.level /\ d.items = c.items
    BY <2>1, StatusEffects
  <2> QED
    BY <2>2 DEF d
<1>3. CASE InsideItem(c) /\ ~failed
  <2> DEFINE label == Kept(item.build, build)
             system == Kept(item.os, os)
             new  == [item EXCEPT !.build = label, !.os = system]
             items == [c.items EXCEPT ![n] = new]
  <2>1. n \in DOMAIN c.items /\ c.items \in Seq(ItemType) /\ item \in ItemType
    <3>1. c.items \in Seq(ItemType) /\ n >= 1
      BY <1>3 DEF ContextType, InsideItem
    <3>2. n \in DOMAIN c.items /\ item \in ItemType
      BY <3>1
    <3> QED
      BY <3>1, <3>2
  <2>2. d = [c EXCEPT !.items[n].build = label, !.items[n].os = system]
    BY <1>3, <2>1 DEF Enclosure, Current, ContextType
  <2>3. label \in ChannelName /\ system \in OSLabel
    BY <2>1 DEF ItemType
  <2>4. item.build # "" => label = item.build
    BY <1>3
  <2> HIDE DEF label, system
  <2>5. new \in ItemType /\ new.text = item.text /\ new.build = label
    BY <2>1, <2>3 DEF ItemType
  <2>6. d = [c EXCEPT !.items = items]
    BY <2>1, <2>2, <2>3 DEF ContextType, ItemType
  <2> HIDE DEF new, item
  <2>7. items \in Seq(ItemType) /\ Len(items) = Len(c.items)
        /\ \A i \in DOMAIN c.items : items[i] = IF i = n THEN new ELSE c.items[i]
    BY <2>1, <2>5
  <2> HIDE DEF items
  <2>8. /\ d \in ContextType /\ d.items = items
        /\ d.status = c.status /\ d.name = c.name /\ d.inItem = c.inItem /\ d.inTags = c.inTags
        /\ d.level = c.level
    <3> HIDE DEF d
    <3> QED
      BY <2>6, <2>7 DEF ContextType
  <2>9. ASSUME NEW i \in DOMAIN c.items
        PROVE  /\ items[i].text = c.items[i].text
               /\ c.items[i].build # "" => items[i].build = c.items[i].build
    BY <2>4, <2>5, <2>7 DEF item
  <2> HIDE DEF d
  <2>10. QED
    BY <2>7, <2>8, <2>9 DEF d
<1> QED
  BY <1>1, <1>2, <1>3

LEMMA EndEffects ==
  ASSUME NEW c \in ContextType, NEW e \in Kinds, NEW d, d = OnEndElement(c, e)
  PROVE  /\ d \in ContextType
         /\ d.name = c.name /\ d.items = c.items
         /\ d.inTags = (c.inTags /\ e # "tags")
         /\ d.inItem = (c.inItem /\ (e = "item" => c.inTags))
         /\ d.level = IF c.inItem /\ ~c.inTags /\ e \in Leveled
                      THEN [c.level EXCEPT ![e] = @ - 1] ELSE c.level
         /\ c.inTags \/ c.inItem \/ e # "channel" =>
              d.status = c.status /\ d.outcome = c.outcome
         /\ ~c.inTags /\ ~c.inItem /\ e = "channel" =>
              d.status = "none"
                /\ d.outcome = IF c.status = "active" THEN "complete" ELSE c.outcome
<1>1. CASE c.inTags
  <2>1. d = [c EXCEPT !.inTags = (e # "tags")]
    BY <1>1 DEF OnEndElement, ContextType
  <2> QED
    <3>1. c.inTags = TRUE
      BY <1>1 DEF ContextType
    <3> QED
      BY <1>1, <2>1, <3>1 DEF ContextType
<1>2. CASE ~c.inTags /\ c.inItem
  <2>1. d = EndItem(c, e)
    BY <1>2 DEF OnEndElement
  <2>2. c.inTags = FALSE /\ c.inItem = TRUE
    BY <1>2 DEF ContextType
  <2>3. CASE e \in Leveled
    <3>1. d = [c EXCEPT !.level = [c.level EXCEPT ![e] = c.level[e] - 1]] /\ e \notin {"item", "tags"}
      BY <2>1, <2>3, KindFacts DEF EndItem, ContextType
    <3>2. [c.level EXCEPT ![e] = c.level[e] - 1] \in [Leveled -> Int]
      BY <2>3 DEF ContextType
    <3> DEFINE level == [c.level EXCEPT ![e] = c.level[e] - 1]
    <3>3. d = [c EXCEPT !.level = level]
      BY <3>1
    <3> HIDE DEF level
    <3>4. level \in [Leveled -> Int]
      BY <3>2 DEF level
    <3>5. d \in ContextType /\ d.level = level
          /\ d.name = c.name /\ d.items = c.items /\ d.inTags = c.inTags /\ d.inItem = c.inItem
          /\ d.status = c.status /\ d.outcome = c.outcome
      BY <3>3, <3>4 DEF ContextType
    <3> QED
      BY <2>2, <2>3, <3>1, <3>5 DEF level
  <2>4. CASE e = "item"
    <3>1. d = [c EXCEPT !.inItem = FALSE] /\ e \notin Leveled
      BY <2>1, <2>4, KindFacts DEF EndItem
    <3> QED
      BY <2>2, <2>4, <3>1 DEF ContextType
  <2>5. CASE e \notin Leveled /\ e # "item"
    <3>1. d = c
      BY <2>1, <2>5 DEF EndItem
    <3> QED
      BY <2>2, <2>5, <3>1
  <2> QED
    BY <2>3, <2>4, <2>5
<1>3. CASE ~c.inTags /\ ~c.inItem
  <2>1. d = EndChannel(c, e)
    BY <1>3 DEF OnEndElement
  <2>2. c.inTags = FALSE /\ c.inItem = FALSE
    BY <1>3 DEF ContextType
  <2>3. CASE e = "channel"
    <3> DEFINE outcome == IF c.status = "active" THEN "complete" ELSE c.outcome
    <3>1. d = [c EXCEPT !.status = "none", !.outcome = outcome]
      BY <2>1, <2>3 DEF EndChannel, ContextType
    <3>2. outcome \in Outcome
      BY DEF ContextType, Outcome
    <3> HIDE DEF outcome
    <3>3. d \in ContextType /\ d.status = "none" /\ d.outcome = outcome
          /\ d.name = c.name /\ d.items = c.items /\ d.inTags = c.inTags /\ d.inItem = c.inItem
          /\ d.level = c.level
      BY <3>1, <3>2 DEF ContextType, Status
    <3> QED
      BY <2>2, <2>3, <3>3 DEF outcome
  <2>4. CASE e # "channel"
    <3>1. d = c
      BY <2>1, <2>4 DEF EndChannel
    <3> QED
      BY <2>2, <2>4, <3>1
  <2> QED
    BY <2>3, <2>4
<1> QED
  BY <1>1, <1>2, <1>3 DEF ContextType

(* The field a text goes to is open just once. *)
LEMMA FirstField ==
  ASSUME NEW c
  PROVE  LET i == SelectInSeq(FieldOrder, LAMBDA f : c.level[f] = 1)
         IN i # 0 => FieldOrder[i] \in Field /\ c.level[FieldOrder[i]] = 1
<1> DEFINE Indices == {j \in 1..Len(FieldOrder) : c.level[FieldOrder[j]] = 1}
<1>1. FieldOrder \in Seq(STRING)
  BY ManifestAssumption
<1>2. Len(FieldOrder) \in Nat /\ \A j \in Indices : FieldOrder[j] \in Field
  <2>1. Len(FieldOrder) \in Nat /\ DOMAIN FieldOrder = 1..Len(FieldOrder)
    BY <1>1
  <2> QED
    BY <2>1 DEF Field, ToSet
<1>3. Indices # {} => Min(Indices) \in Indices
  <2>1. Indices \in SUBSET Nat
    BY <1>2
  <2> HIDE DEF Indices
  <2> QED
    BY <2>1, Least DEF Min
<1>4. SelectInSeq(FieldOrder, LAMBDA f : c.level[f] = 1) = IF Indices # {} THEN Min(Indices) ELSE 0
  BY DEF SelectInSeq
<1> DEFINE i == SelectInSeq(FieldOrder, LAMBDA f : c.level[f] = 1)
<1>5. i = IF Indices # {} THEN Min(Indices) ELSE 0
  BY <1>4
<1> HIDE DEF i
<1>6. i # 0 => i \in Indices
  <2> HIDE DEF Indices
  <2> QED
    BY <1>3, <1>5
<1>7. i # 0 => FieldOrder[i] \in Field /\ c.level[FieldOrder[i]] = 1
  BY <1>2, <1>6
<1> QED
  BY <1>7 DEF i

LEMMA TextEffects ==
  ASSUME NEW c \in ContextType, c.inItem => Len(c.items) >= 1, NEW s \in Digit
  PROVE  LET d == OnText(c, s)
         IN /\ d \in ContextType /\ Len(d.items) = Len(c.items)
            /\ d.status = c.status /\ d.name = c.name /\ d.inItem = c.inItem
            /\ d.inTags = c.inTags /\ d.level = c.level /\ d.outcome = c.outcome
            /\ \A i \in DOMAIN c.items :
                 /\ d.items[i].build = c.items[i].build
                 /\ \A f \in Field : d.items[i].text[f] # c.items[i].text[f] =>
                      InsideItem(c) /\ i = Len(c.items) /\ c.level[f] = 1
<1> DEFINE d == OnText(c, s)
           first == SelectInSeq(FieldOrder, LAMBDA f : c.level[f] = 1)
           field == FieldOrder[first]
           n == Len(c.items)
           text == Append(c.items[n].text[field], s)
<1>1. d = IF ~InsideItem(c) \/ first = 0 THEN c ELSE [c EXCEPT !.items[n].text[field] = text]
  BY DEF OnText, Current
<1>2. first # 0 => field \in Field /\ c.level[field] = 1
  BY FirstField DEF SelectInSeq
<1> HIDE DEF first
<1>3. CASE ~InsideItem(c) \/ first = 0
  <2>1. d = c
    BY <1>1, <1>3
  <2> HIDE DEF d
  <2> QED
    BY <2>1 DEF d
<1>4. CASE InsideItem(c) /\ first # 0
  <2>1. d = [c EXCEPT !.items[n].text[field] = text]
    BY <1>1, <1>4
  <2>2. field \in Field /\ c.level[field] = 1
    BY <1>2, <1>4
  <2> HIDE DEF field, d
  <2>3. n \in DOMAIN c.items /\ c.items \in Seq(ItemType) /\ c.items[n] \in ItemType
    <3>1. c.items \in Seq(ItemType) /\ n >= 1
      BY <1>4 DEF ContextType, InsideItem
    <3>2. n \in DOMAIN c.items /\ c.items[n] \in ItemType
      BY <3>1
    <3> QED
      BY <3>1, <3>2
  <2> DEFINE item == c.items[n]
             texts == [item.text EXCEPT ![field] = text]
             new == [item EXCEPT !.text = texts]
             items == [c.items EXCEPT ![n] = new]
  <2>4. text \in Seq(Digit) /\ item.text \in [Field -> Seq(Digit)]
    BY <2>2, <2>3 DEF ItemType
  <2>5. d = [c EXCEPT !.items = items]
    BY <2>1, <2>2, <2>3 DEF ContextType, ItemType
  <2> HIDE DEF text
  <2>6. texts \in [Field -> Seq(Digit)] /\ \A f \in Field : f # field => texts[f] = item.text[f]
    BY <2>2, <2>4
  <2> HIDE DEF texts
  <2>7. new \in ItemType /\ new.text = texts /\ new.build = item.build
    BY <2>3, <2>6 DEF ItemType
  <2> HIDE DEF new, item
  <2>8. items \in Seq(ItemType) /\ Len(items) = Len(c.items)
        /\ \A i \in DOMAIN c.items : items[i] = IF i = n THEN new ELSE c.items[i]
    BY <2>3, <2>7
  <2> HIDE DEF items
  <2>9. /\ d \in ContextType /\ d.items = items
        /\ d.status = c.status /\ d.name = c.name /\ d.inItem = c.inItem /\ d.inTags = c.inTags
        /\ d.level = c.level /\ d.outcome = c.outcome
    BY <2>5, <2>8 DEF ContextType
  <2>10. ASSUME NEW i \in DOMAIN c.items
         PROVE  /\ d.items[i].build = c.items[i].build
                /\ \A f \in Field : d.items[i].text[f] # c.items[i].text[f] =>
                     InsideItem(c) /\ i = Len(c.items) /\ c.level[f] = 1
    <3>1. CASE i = n
      BY <1>4, <2>2, <2>6, <2>7, <2>8, <2>9, <3>1 DEF item
    <3>2. CASE i # n
      BY <2>8, <2>9, <3>2
    <3> QED
      BY <3>1, <3>2
  <2> QED
    BY <2>8, <2>9, <2>10 DEF d
<1> QED
  BY <1>3, <1>4

-----------------------------------------------------------------------------
(* The steps of the parse. *)

LEMMA SequenceDomain ==
  \A S : \A s \in Seq(S) : DOMAIN s = 1..Len(s) /\ Len(s) \in Nat
OBVIOUS

(* An event that leaves the channels, items and texts alone leaves them true. *)
LEMMA SameParts ==
  ASSUME ParserInv, UNCHANGED <<required, origin>>, ctx' \in ContextType,
         Len(ctx'.items) = Len(ctx.items),
         \A i \in DOMAIN ctx.items :
           ctx.items[i].build # "" => ctx'.items[i].build = ctx.items[i].build
  PROVE  /\ Labelled(ctx, origin)' /\ Len(origin') = Len(ctx'.items)
         /\ \A name : ChannelMatch(name)' = ChannelMatch(name)
<1>1. \A name : ChannelMatch(name)' = ChannelMatch(name)
  BY DEF ChannelMatch, EmptyOrRelease
<1>2. Len(origin) = Len(ctx.items) /\ origin \in Seq(ElementType) /\ ctx.items \in Seq(ItemType)
  BY DEF ParserInv, ParserTyped, ContextType
<1>3. DOMAIN origin = DOMAIN ctx.items
  BY <1>2, SequenceDomain, Zenon
<1> QED
  BY <1>1, <1>2, <1>3 DEF Labelled, ParserInv

LEMMA StartsFacts ==
  ASSUME ParserInv, NEW x \in ElementType, NEW c, Starts(x, c)
  PROVE  /\ Parsing /\ required' = required /\ events' \in 0..Events /\ ctx' = c
         /\ document' = Append(document, x) /\ document' \in Seq(ElementType)
         /\ Len(document') >= 1 /\ Len(document') <= events' + 1
<1>1. /\ Parsing /\ required' = required /\ events < Events /\ events' = events + 1 /\ ctx' = c
      /\ document' = Append(document, x)
  BY DEF Starts, Event
<1>2. events \in 0..Events /\ document \in Seq(ElementType)
      /\ Len(document) >= 1 /\ Len(document) <= events + 1
  BY DEF ParserInv, ParserTyped
<1>3. Events \in Nat
  BY ManifestAssumption
<1>4. document' \in Seq(ElementType) /\ Len(document') = Len(document) + 1 /\ Len(document) \in Nat
  BY <1>1, <1>2
<1> QED
  BY <1>1, <1>2, <1>3, <1>4

LEMMA ChannelStep == ASSUME ParserInv, ChannelStarts PROVE ParserInv'
<1>1. PICK name \in ChannelName :
        Starts([kind |-> "channel", name |-> name, at |-> events], StartChannel(ctx, name))
  BY DEF ChannelStarts
<1> DEFINE x == [kind |-> "channel", name |-> name, at |-> events]
<1>2. x \in ElementType /\ x.kind = "channel" /\ x.name = name
  BY KindFacts DEF ElementType, ParserInv, ParserTyped
<1>3. Starts(x, StartChannel(ctx, name))
  BY <1>1
<1> HIDE DEF x
<1>4. /\ Parsing /\ required' = required /\ events' \in 0..Events
      /\ ctx' = StartChannel(ctx, name)
      /\ document' = Append(document, x) /\ document' \in Seq(ElementType)
      /\ Len(document') >= 1 /\ Len(document') <= events' + 1
  BY <1>2, <1>3, StartsFacts
<1>5. UNCHANGED <<origin, nested>>
  BY DEF ChannelStarts
<1>6. ctx \in ContextType /\ document \in Seq(ElementType) /\ ParserTyped
  BY DEF ParserInv, ParserTyped
<1>7. /\ ctx' \in ContextType
      /\ ctx'.inItem = ctx.inItem /\ ctx'.inTags = ctx.inTags
      /\ ctx'.level = ctx.level /\ ctx'.items = ctx.items
      /\ ctx.status # "none" => ctx'.outcome = "error"
      /\ ctx.status = "none" =>
           \/ ChannelMatch(name) /\ ctx'.status = "active" /\ ctx'.name = name
           \/ ctx'.status = "inactive"
  BY <1>4, <1>6, StatusEffects
<1>8. /\ Labelled(ctx, origin)' /\ Len(origin') = Len(ctx'.items)
      /\ \A n : ChannelMatch(n)' = ChannelMatch(n)
  BY <1>4, <1>5, <1>7, SameParts
<1>9. ParserTyped'
  BY <1>4, <1>5, <1>6, <1>7, <1>8 DEF ParserTyped
<1>10. Leveled0(ctx, nested)'
  BY <1>5, <1>7 DEF ParserInv, Leveled0
<1>11. CASE ctx.status # "none"
  BY <1>7, <1>8, <1>9, <1>10, <1>11 DEF ParserInv, Parsing
<1>12. CASE ctx.status = "none"
  <2>1. /\ InChannel(document, ctx, origin) /\ InOpenItem(document, ctx, nested)
    BY <1>4 DEF ParserInv
  <2>2. /\ Of(document', "channel") = {Len(document) + 1} /\ document'[Len(document) + 1] = x
        /\ Of(document', "item") = Of(document, "item")
        /\ Of(document', "tags") = Of(document, "tags")
    <3>1. /\ \A k : Of(document', k) =
                     Of(document, k) \cup (IF x.kind = k THEN {Len(document) + 1} ELSE {})
          /\ document'[Len(document) + 1] = x
      BY <1>2, <1>4, <1>6, OpenedFacts
    <3>2. Of(document, "channel") = {}
      BY <1>12, <2>1 DEF InChannel
    <3> QED
      BY <1>2, <3>1, <3>2
  <2>3. origin' = <<>>
    BY <1>5, <1>12, <2>1 DEF InChannel
  <2>4. InChannel(document, ctx, origin)'
    <3>1. \A d \in Of(document', "channel") : document'[d] = x /\ d = Len(document) + 1
      BY <2>2
    <3>2. Of(document', "channel") # {} /\ \A d, e \in Of(document', "channel") : d = e
      BY <2>2
    <3>3. \A i : i \notin DOMAIN origin'
      BY <2>3
    <3>4. CASE ChannelMatch(name) /\ ctx'.status = "active" /\ ctx'.name = name
      <4>1. \A d \in Of(document', "channel") : document'[d].name = name
        BY <1>2, <3>1
      <4> QED
        BY <1>4, <3>2, <3>3, <3>4, <4>1 DEF InChannel, ChannelMatch, EmptyOrRelease
    <3>5. CASE ctx'.status = "inactive"
      BY <2>3, <3>2, <3>5 DEF InChannel
    <3> QED
      BY <1>7, <1>12, <3>4, <3>5
  <2>5. InOpenItem(document, ctx, nested)'
    BY <1>5, <1>7, <1>12, <2>1, <2>2 DEF InOpenItem
  <2> QED
    BY <1>8, <1>9, <1>10, <2>4, <2>5 DEF ParserInv
<1> QED
  BY <1>11, <1>12

(* The last element of a kind that is open. *)
LEMMA LastOpenFacts ==
  ASSUME document \in Seq(ElementType), NEW kind
  PROVE  /\ Open(kind) <=> Of(document, kind) # {}
         /\ Of(document, kind) # {} =>
              /\ LastOpen(kind) \in Of(document, kind)
              /\ \A d \in Of(document, kind) : d <= LastOpen(kind)
         /\ Of(document, kind) = {} => LastOpen(kind) = 0
<1> DEFINE Indices == {i \in 1..Len(document) : document[i].kind = kind}
<1>1. DOMAIN document = 1..Len(document) /\ Len(document) \in Nat
  BY SequenceDomain
<1>2. Indices = Of(document, kind) /\ Indices \in SUBSET (1..Len(document))
  BY <1>1 DEF Of
<1>3. Indices # {} => Max(Indices) \in Indices /\ \A d \in Indices : d <= Max(Indices)
  <2> HIDE DEF Indices
  <2>1. Indices # {} => \E j \in Indices : \A k \in Indices : j >= k
    BY <1>1, <1>2, Greatest
  <2>2. Indices # {} => Max(Indices) \in Indices /\ \A k \in Indices : Max(Indices) >= k
    BY <2>1 DEF Max
  <2>3. \A k \in Indices : k \in Nat
    BY <1>1, <1>2
  <2> QED
    BY <2>2, <2>3
<1>4. LastOpen(kind) = IF Indices # {} THEN Max(Indices) ELSE 0
  BY DEF LastOpen, SelectLastInSeq
<1>5. Open(kind) <=> Of(document, kind) # {}
  BY DEF Open, Of
<1> HIDE DEF Indices
<1> QED
  BY <1>2, <1>3, <1>4, <1>5

(* The channel an item starts in, or none. *)
ChannelOf == IF Open("channel") THEN document[LastOpen("channel")] ELSE Nowhere

LEMMA ItemStep == ASSUME ParserInv, ItemStarts PROVE ParserInv'
<1> DEFINE x == Element("item")
           n == Len(document) + 1
<1>1. x \in ElementType /\ x.kind = "item"
  BY NowhereType, KindFacts DEF Element
<1>2. Starts(x, StartItem(ctx)) /\ nested' = nested
      /\ origin' = IF ctx'.items = ctx.items THEN origin ELSE Append(origin, ChannelOf)
  BY DEF ItemStarts, ChannelOf
<1> HIDE DEF x
<1>3. /\ Parsing /\ required' = required /\ events' \in 0..Events
      /\ ctx' = StartItem(ctx)
      /\ document' = Append(document, x) /\ document' \in Seq(ElementType)
      /\ Len(document') >= 1 /\ Len(document') <= events' + 1
  BY <1>1, <1>2, StartsFacts
<1>4. ctx \in ContextType /\ document \in Seq(ElementType) /\ ParserTyped
  BY DEF ParserInv, ParserTyped
<1>5. /\ InChannel(document, ctx, origin) /\ InOpenItem(document, ctx, nested)
      /\ Leveled0(ctx, nested) /\ Labelled(ctx, origin)
  BY <1>3 DEF ParserInv
<1>6. /\ Of(document', "channel") = Of(document, "channel")
      /\ Of(document', "tags") = Of(document, "tags")
      /\ Of(document', "item") = Of(document, "item") \cup {n}
      /\ \A d \in DOMAIN document : document'[d] = document[d]
      /\ Len(document') = n
  <2>1. /\ \A k : Of(document', k) = Of(document, k) \cup (IF x.kind = k THEN {n} ELSE {})
        /\ \A d \in DOMAIN document : document'[d] = document[d]
        /\ Len(document') = n
    BY <1>1, <1>3, <1>4, OpenedFacts
  <2> HIDE DEF n
  <2> QED
    BY <1>1, <2>1
<1>7. CASE ctx.inItem
  <2>1. ctx' = Fail(ctx)
    BY <1>3, <1>7 DEF StartItem
  <2>2. ctx' \in ContextType /\ ctx'.outcome = "error" /\ ctx'.items = ctx.items
        /\ ctx'.level = ctx.level
    BY <1>4, <2>1, StatusEffects
  <2>3. origin' = origin
    BY <1>2, <2>2
  <2>4. Labelled(ctx, origin)' /\ Len(origin') = Len(ctx'.items)
    BY <1>3, <2>2, <2>3, SameParts
  <2>5. ParserTyped' /\ Leveled0(ctx, nested)'
    BY <1>2, <1>3, <1>4, <1>5, <2>2, <2>3, <2>4 DEF ParserTyped, Leveled0
  <2> QED
    BY <2>2, <2>4, <2>5 DEF ParserInv, Parsing
<1>8. CASE ~ctx.inItem /\ ctx.status = "inactive"
  <2>1. ctx' = ctx
    BY <1>3, <1>8 DEF StartItem
  <2>2. origin' = origin
    BY <1>2, <2>1
  <2>3. Labelled(ctx, origin)' /\ Len(origin') = Len(ctx'.items)
    BY <1>3, <1>4, <2>1, <2>2, SameParts
  <2>4. ParserTyped' /\ Leveled0(ctx, nested)'
    BY <1>2, <1>3, <1>4, <1>5, <2>1, <2>2, <2>3 DEF ParserTyped, Leveled0
  <2>5. InChannel(document, ctx, origin)'
    BY <1>5, <1>6, <1>8, <2>1, <2>2 DEF InChannel
  <2>6. \A d \in Of(document', "channel") : d < n
    <3>1. DOMAIN document = 1..Len(document) /\ Len(document) \in Nat
      BY <1>4, SequenceDomain
    <3> QED
      BY <1>6, <3>1 DEF Of
  <2>7. InOpenItem(document', ctx', nested')
    <3> HIDE DEF n
    <3> QED
      BY <1>2, <1>5, <1>6, <1>8, <2>1, <2>6 DEF InOpenItem
  <2> QED
    BY <2>3, <2>4, <2>5, <2>7 DEF ParserInv
<1>9. CASE ~ctx.inItem /\ ctx.status # "inactive"
  <2>1. PICK item \in ItemType :
           /\ item.build = ctx.name
           /\ ctx' \in ContextType /\ ctx'.items = Append(ctx.items, item)
           /\ ctx'.inItem = TRUE
           /\ ctx'.status = (IF ctx.status = "none" THEN "omitted" ELSE ctx.status)
           /\ ctx'.name = ctx.name /\ ctx'.inTags = ctx.inTags
           /\ ctx'.level = ctx.level /\ ctx'.outcome = ctx.outcome
    BY <1>3, <1>4, <1>9, StartItemEffects
  <2>2. ctx.items \in Seq(ItemType) /\ origin \in Seq(ElementType) /\ Len(origin) = Len(ctx.items)
    BY <1>4 DEF ParserTyped, ContextType
  <2>3. /\ Len(ctx'.items) = Len(ctx.items) + 1 /\ Len(ctx.items) \in Nat
        /\ DOMAIN ctx.items = 1..Len(ctx.items)
        /\ \A i \in 1..Len(ctx.items) : ctx'.items[i] = ctx.items[i]
        /\ ctx'.items[Len(ctx.items) + 1] = item
    <3> DEFINE items == ctx.items
    <3>1. items \in Seq(ItemType)
      BY <2>2
    <3> HIDE DEF items
    <3>2. /\ Len(Append(items, item)) = Len(items) + 1 /\ Len(items) \in Nat
          /\ DOMAIN items = 1..Len(items)
          /\ \A i \in 1..Len(items) : Append(items, item)[i] = items[i]
          /\ Append(items, item)[Len(items) + 1] = item
      BY <3>1
    <3> QED
      BY <2>1, <3>2 DEF items
  <2>4. origin' = Append(origin, ChannelOf)
    <3>1. ctx'.items # ctx.items
      BY <2>3
    <3> QED
      BY <1>2, <3>1
  <2>5. /\ ctx.status = "active" => ChannelOf \in {document[d] : d \in Of(document, "channel")}
        /\ ctx.status \in {"none", "omitted"} => ChannelOf = Nowhere
    BY <1>4, <1>5, LastOpenFacts DEF ChannelOf, InChannel
  <2>6. ctx.status \in {"none", "omitted", "active"}
    BY <1>4, <1>9 DEF ContextType, Status
  <2>7. ChannelOf \in ElementType
    <3>1. \A d \in Of(document, "channel") : document[d] \in ElementType
      BY <1>4 DEF Of
    <3> QED
      BY <2>5, <2>6, <3>1, NowhereType
  <2>8. /\ origin' \in Seq(ElementType) /\ Len(origin') = Len(ctx'.items)
        /\ DOMAIN origin' = 1..(Len(ctx.items) + 1)
        /\ DOMAIN origin = 1..Len(ctx.items)
        /\ \A i \in 1..Len(ctx.items) : origin'[i] = origin[i]
        /\ origin'[Len(ctx.items) + 1] = ChannelOf
    <3>1. Append(origin, ChannelOf) \in Seq(ElementType)
          /\ DOMAIN Append(origin, ChannelOf) = 1..(Len(origin) + 1)
          /\ Len(Append(origin, ChannelOf)) = Len(origin) + 1
          /\ DOMAIN origin = 1..Len(origin)
          /\ \A i \in 1..Len(origin) : Append(origin, ChannelOf)[i] = origin[i]
          /\ Append(origin, ChannelOf)[Len(origin) + 1] = ChannelOf
      BY <2>2, <2>7
    <3> QED
      BY <2>2, <2>3, <2>4, <3>1
  <2>9. ParserTyped' /\ Leveled0(ctx, nested)'
    BY <1>2, <1>3, <1>4, <1>5, <2>1, <2>8 DEF ParserTyped, Leveled0
  <2>10. \A i \in DOMAIN origin : origin[i] = ChannelOf
    <3>1. CASE ctx.status = "active"
      BY <1>5, <2>5, <3>1 DEF InChannel
    <3>2. CASE ctx.status = "omitted"
      BY <1>5, <2>5, <3>2 DEF InChannel
    <3>3. CASE ctx.status = "none"
      BY <1>5, <3>3 DEF InChannel
    <3> QED
      BY <2>6, <3>1, <3>2, <3>3
  <2>11. \A i \in DOMAIN origin' : origin'[i] = ChannelOf
    BY <2>3, <2>8, <2>10
  <2>12. \A name : ChannelMatch(name)' = ChannelMatch(name)
    BY <1>3 DEF ChannelMatch, EmptyOrRelease
  <2>13. Labelled(ctx, origin)'
    <3>1. ChannelOf = Nowhere \/ (ChannelMatch(ChannelOf.name) /\ ChannelOf.name = ctx.name)
      BY <1>5, <2>5, <2>6 DEF InChannel
    <3>2. Nowhere.name = ""
      BY DEF Nowhere, Element
    <3>3. \A i \in DOMAIN origin' : ChannelOf.name # "" => ctx'.items[i].build = ChannelOf.name
      <4>1. \A i \in DOMAIN origin : ChannelOf.name # "" => ctx.items[i].build = ChannelOf.name
        BY <1>5, <2>10 DEF Labelled
      <4>2. ChannelOf.name # "" => item.build = ChannelOf.name
        BY <2>1, <3>1, <3>2
      <4>3. ASSUME NEW i \in DOMAIN origin', ChannelOf.name # ""
            PROVE  ctx'.items[i].build = ChannelOf.name
        <5>1. i \in 1..Len(ctx.items) \/ i = Len(ctx.items) + 1
          BY <2>3, <2>8
        <5>2. CASE i \in 1..Len(ctx.items)
          <6>1. i \in DOMAIN origin /\ ctx'.items[i] = ctx.items[i]
            BY <2>3, <2>8, <5>2
          <6> QED
            BY <4>1, <4>3, <6>1
        <5>3. CASE i = Len(ctx.items) + 1
          BY <2>3, <4>2, <4>3, <5>3
        <5> QED
          BY <5>1, <5>2, <5>3
      <4> QED
        BY <4>3
    <3> DEFINE channel == ChannelOf
    <3> HIDE DEF channel
    <3>4. \A i \in DOMAIN origin' : origin'[i] = channel
      BY <2>11 DEF channel
    <3>5. channel = Nowhere \/ ChannelMatch(channel.name)
      BY <3>1 DEF channel
    <3>6. \A i \in DOMAIN origin' : channel.name # "" => ctx'.items[i].build = channel.name
      BY <3>3 DEF channel
    <3> QED
      BY <1>3, <3>4, <3>5, <3>6 DEF Labelled, ChannelMatch, EmptyOrRelease
  <2>14. InChannel(document, ctx, origin)'
    <3>1. CASE ctx.status = "active"
      <4>1. \A d \in Of(document, "channel") : document'[d] = document[d] /\ document[d] = ChannelOf
        BY <1>5, <1>6, <2>5, <3>1 DEF InChannel, Of
      <4>2. \A d \in Of(document, "channel") : ChannelMatch(document[d].name) /\ ctx.name = document[d].name
        BY <1>5, <3>1 DEF InChannel
      <4>3. Of(document, "channel") # {} /\ \A d, e \in Of(document, "channel") : d = e
        BY <1>5, <3>1 DEF InChannel
      <4>4. ctx'.status = "active" /\ ctx'.name = ctx.name
        BY <2>1, <3>1
      <4> QED
        BY <1>3, <1>6, <2>11, <4>1, <4>2, <4>3, <4>4 DEF InChannel, ChannelMatch, EmptyOrRelease
    <3>2. CASE ctx.status \in {"none", "omitted"}
      <4>1. ctx'.status = "omitted" /\ ChannelOf = Nowhere /\ Of(document', "channel") = {}
        BY <1>5, <1>6, <2>1, <2>5, <3>2 DEF InChannel
      <4> QED
        BY <2>11, <4>1 DEF InChannel
    <3> QED
      BY <2>6, <3>1, <3>2
  <2>15. InOpenItem(document, ctx, nested)'
    <3>1. Of(document', "item") = {n} /\ n \in 1..Len(document') /\ n \in Nat
      BY <1>4, <1>5, <1>6, <1>9 DEF InOpenItem
    <3>2. \A k \in {"channel", "tags"} : \A d \in Of(document', k) : d < n
      <4>1. DOMAIN document = 1..Len(document) /\ Len(document) \in Nat
        BY <1>4
      <4> QED
        BY <1>6, <4>1 DEF Of
    <3>3. \A f \in Leveled : /\ Cardinality(Between(document', f, n, n + 1)) = 0
                             /\ ctx'.level[f] <= 0 /\ (nested \/ ctx'.level[f] = 0)
      <4>1. \A f : Between(document', f, n, n + 1) = {}
        BY <3>1 DEF Between
      <4> QED
        BY <1>5, <1>9, <2>1, <4>1, FS_EmptySet DEF InOpenItem
    <3>4. ctx'.inTags = FALSE
      BY <1>4, <1>5, <1>9, <2>1 DEF InOpenItem, ContextType
    <3>5. ItemAt(document', ctx', nested', n, n + 1)
      <4>1. Len(document') + 1 = n + 1
        BY <1>6
      <4> HIDE DEF n
      <4> QED
        BY <1>2, <1>6, <3>1, <3>2, <3>3, <3>4, <4>1 DEF ItemAt
    <3>6. ctx'.status \in {"omitted", "active"} /\ Len(ctx'.items) >= 1
      BY <2>1, <2>3, <2>6
    <3>7. nested' \/ \A d, e \in Of(document', "tags") : d = e
      BY <1>2, <1>5, <1>6 DEF InOpenItem
    <3>8. n \in 1..(Len(document') + 1) /\ n + 1 \in 1..(Len(document') + 1)
      BY <1>6, <3>1
    <3> QED
      BY <2>1, <3>5, <3>6, <3>7, <3>8 DEF InOpenItem
  <2> QED
    BY <2>9, <2>13, <2>14, <2>15 DEF ParserInv
<1> QED
  BY <1>7, <1>8, <1>9

LEMMA EventsType == Events \in Nat
BY ManifestAssumption

(* A level counts elements, of which there are no more than there were events. *)
LEMMA LevelsCount ==
  ASSUME NEW doc \in Seq(ElementType), NEW c \in ContextType, NEW more,
         Len(doc) <= Events + 1, InOpenItem(doc, c, more)
  PROVE  Leveled0(c, more)
<1> SUFFICES ASSUME ~more PROVE c.level \in [Leveled -> 0..Events]
  BY DEF Leveled0
<1>1. Events \in Nat /\ Len(doc) \in Nat
  BY EventsType, SequenceDomain
<1>2. c.level \in [Leveled -> Int]
  BY DEF ContextType
<1>3. CASE ~c.inItem
  BY <1>1, <1>2, <1>3 DEF InOpenItem
<1>4. CASE c.inItem
  <2>1. PICK p, t \in 1..(Len(doc) + 1) : ItemAt(doc, c, more, p, t)
    BY <1>4 DEF InOpenItem
  <2>2. p \in Nat /\ t \in Nat /\ p >= 1 /\ p < t /\ t <= Len(doc) + 1
    BY <1>1, <2>1 DEF ItemAt
  <2>3. ASSUME NEW f \in Leveled PROVE c.level[f] \in 0..Events
    <3>1. c.level[f] = Cardinality(Between(doc, f, p, t))
      BY <2>1 DEF ItemAt
    <3>2. /\ Cardinality(Between(doc, f, p, t)) \in Nat
          /\ Cardinality(Between(doc, f, p, t)) <= t - 1 - p
      BY <2>2, BetweenCount
    <3> QED
      BY <1>1, <2>2, <3>1, <3>2
  <2> QED
    BY <1>2, <2>3
<1> QED
  BY <1>3, <1>4

(* A step that changes neither the channels of the document nor the status. *)
LEMMA SameChannel ==
  ASSUME ParserInv, Parsing, UNCHANGED <<required, origin>>,
         ctx'.status = ctx.status, ctx'.name = ctx.name,
         Of(document', "channel") = Of(document, "channel"),
         \A d \in Of(document, "channel") : document'[d] = document[d]
  PROVE  InChannel(document, ctx, origin)'
<1>1. InChannel(document, ctx, origin)
  BY DEF ParserInv
<1> QED
  BY <1>1 DEF InChannel, ChannelMatch, EmptyOrRelease

LEMMA OtherStep == ASSUME ParserInv, OtherStarts PROVE ParserInv'
<1>1. PICK e \in Leveled \cup {"tags"} :
        /\ Starts(Element(e), StartInside(ctx, e))
        /\ nested' = (nested \/ (e = "tags" /\ Open("tags")))
  BY DEF OtherStarts
<1> DEFINE x == Element(e)
<1>2. x \in ElementType /\ x.kind = e /\ e \in Kinds
      /\ e \notin {"channel", "item"}
  BY NowhereType, KindFacts DEF Element
<1> HIDE DEF x
<1>3. /\ Parsing /\ required' = required /\ events' \in 0..Events
      /\ ctx' = StartInside(ctx, e)
      /\ document' = Append(document, x) /\ document' \in Seq(ElementType)
      /\ Len(document') >= 1 /\ Len(document') <= events' + 1
  BY <1>1, <1>2, StartsFacts DEF x
<1>4. ctx \in ContextType /\ document \in Seq(ElementType) /\ ParserTyped
  BY DEF ParserInv, ParserTyped
<1>5. /\ InChannel(document, ctx, origin) /\ InOpenItem(document, ctx, nested)
      /\ nested \in BOOLEAN /\ origin' = origin
  BY <1>3, <1>4 DEF ParserInv, ParserTyped, OtherStarts
<1>6. PICK n : n = Len(document) + 1
  OBVIOUS
<1>7. DOMAIN document = 1..(n - 1) /\ n \in Nat /\ n >= 1 /\ Len(document) = n - 1
  BY <1>4, <1>6
<1>8. /\ \A k : Of(document', k) = Of(document, k) \cup (IF e = k THEN {n} ELSE {})
      /\ \A d \in DOMAIN document : document'[d] = document[d]
      /\ Len(document') = n
      /\ \A k, p, t : p \in Nat /\ t \in 1..n => Between(document', k, p, t) = Between(document, k, p, t)
      /\ \A k, p : p \in 1..(n - 1) =>
           Between(document', k, p, n + 1) =
             Between(document, k, p, n) \cup (IF e = k THEN {n} ELSE {})
  <2>1. Len(document) + 2 = n + 1 /\ Len(document) = n - 1 /\ Len(document) + 1 = n
    BY <1>6, <1>7
  <2>2. /\ \A d \in DOMAIN document : document'[d] = document[d]
        /\ Len(document') = Len(document) + 1
        /\ \A k : Of(document', k) =
                    Of(document, k) \cup (IF x.kind = k THEN {Len(document) + 1} ELSE {})
    BY <1>2, <1>3, <1>4, OpenedFacts
  <2>3. \A k, p, t : p \in Nat /\ t \in 1..(Len(document) + 1) =>
          Between(document', k, p, t) = Between(document, k, p, t)
    BY <1>2, <1>3, <1>4, OpenedFacts
  <2>4. \A k, p : p \in 1..Len(document) =>
          Between(document', k, p, Len(document) + 2) =
            Between(document, k, p, Len(document) + 1)
              \cup (IF x.kind = k THEN {Len(document) + 1} ELSE {})
    BY <1>2, <1>3, <1>4, OpenedFacts
  <2>5. \A k, p : p \in 1..(n - 1) =>
           Between(document', k, p, n + 1) =
             Between(document, k, p, n) \cup (IF e = k THEN {n} ELSE {})
    BY <1>2, <2>1, <2>4
  <2>6. \A k : Of(document', k) = Of(document, k) \cup (IF e = k THEN {n} ELSE {})
    BY <1>2, <2>1, <2>2
  <2>7. \A k, p, t : p \in Nat /\ t \in 1..n => Between(document', k, p, t) = Between(document, k, p, t)
    BY <2>1, <2>3
  <2> QED
    BY <2>1, <2>2, <2>5, <2>6, <2>7
<1>9. /\ Of(document', "channel") = Of(document, "channel")
      /\ Of(document', "item") = Of(document, "item")
      /\ e # "tags" => Of(document', "tags") = Of(document, "tags")
      /\ e = "tags" => Of(document', "tags") = Of(document, "tags") \cup {n}
  BY <1>2, <1>8
<1>10. nested' \in BOOLEAN /\ (nested => nested')
  BY <1>1, <1>5
<1>11. nested' \/ \A d, f \in Of(document', "tags") : d = f
  <2>1. CASE e = "tags"
    <3>1. nested' \/ Of(document, "tags") = {}
      BY <1>1, <1>4, <2>1, LastOpenFacts
    <3> QED
      BY <1>9, <2>1, <3>1
  <2>2. CASE e # "tags"
    BY <1>1, <1>5, <1>9, <2>2 DEF InOpenItem
  <2> QED
    BY <2>1, <2>2
(* The rest is one step for each thing that can become of the context. *)
<1>12. ASSUME ctx' \in ContextType, ctx'.status = ctx.status, ctx'.name = ctx.name,
              ctx'.items = ctx.items, InOpenItem(document', ctx', nested')
       PROVE  ParserInv'
  <2>1. Labelled(ctx, origin)' /\ Len(origin') = Len(ctx'.items)
    BY <1>3, <1>5, <1>12, SameParts
  <2>2. ParserTyped'
    BY <1>3, <1>4, <1>5, <1>10, <1>12, <2>1 DEF ParserTyped
  <2>3. Leveled0(ctx', nested')
    <3>1. Len(document') <= Events + 1
      <4>1. Events \in Nat /\ Len(document') \in Nat
        BY <1>3, EventsType, SequenceDomain
      <4> QED
        BY <1>3, <4>1
    <3> QED
      BY <1>3, <1>12, <3>1, LevelsCount
  <2>4. InChannel(document, ctx, origin)'
    <3>1. \A d \in Of(document, "channel") : document'[d] = document[d]
      BY <1>8 DEF Of
    <3> QED
      BY <1>3, <1>5, <1>9, <1>12, <3>1, SameChannel
  <2> QED
    BY <1>12, <2>1, <2>2, <2>3, <2>4 DEF ParserInv
<1>13. CASE ~ctx.inItem
  <2>1. ctx' = ctx
    BY <1>3, <1>13 DEF StartInside, InsideItem
  <2>2. InOpenItem(document', ctx', nested')
    BY <1>5, <1>9, <1>10, <1>11, <1>13, <2>1 DEF InOpenItem
  <2> QED
    BY <1>4, <1>12, <2>1, <2>2
<1>14. CASE ctx.inItem
  <2>1. PICK p, t \in 1..(Len(document) + 1) : ItemAt(document, ctx, nested, p, t)
    BY <1>5, <1>14 DEF InOpenItem
  <2>2. /\ p \in 1..(n - 1) /\ Of(document, "item") = {p} /\ t \in (p + 1)..n
        /\ \A d \in Of(document, "channel") : d < p
        /\ p \in 1..n /\ p \in Nat /\ t \in 1..n /\ t \in Nat
    <3>1. p \in 1..Len(document) /\ Of(document, "item") = {p} /\ t \in (p + 1)..(Len(document) + 1)
          /\ \A d \in Of(document, "channel") : d < p
      BY <2>1 DEF ItemAt
    <3> QED
      BY <1>6, <1>7, <3>1
  <2>3. /\ ctx.status \in {"omitted", "active"} /\ Len(ctx.items) >= 1
    BY <1>5, <1>14 DEF InOpenItem
  <2>4. CASE ctx.inTags
    <3>1. ctx' = ctx
      BY <1>3, <2>4 DEF StartInside, InsideItem
    <3>2. t \in Of(document, "tags") /\ t \in Of(document', "tags")
      BY <1>8, <2>1, <2>4 DEF ItemAt
    <3>3. \A f : Between(document', f, p, t) = Between(document, f, p, t)
      BY <1>8, <2>2
    <3>4. ItemAt(document', ctx', nested', p, t)
      BY <1>8, <1>9, <1>10, <2>1, <2>2, <2>4, <3>1, <3>2, <3>3 DEF ItemAt
    <3>5. InOpenItem(document', ctx', nested')
      BY <1>8, <1>11, <1>14, <2>2, <2>3, <3>1, <3>4 DEF InOpenItem
    <3> QED
      BY <1>4, <1>12, <3>1, <3>5
  <2>5. CASE ~ctx.inTags /\ e = "tags"
    <3>1. /\ ctx' \in ContextType /\ ctx'.inTags = TRUE
          /\ ctx'.status = ctx.status /\ ctx'.name = ctx.name /\ ctx'.inItem = ctx.inItem
          /\ ctx'.level = ctx.level /\ ctx'.items = ctx.items
      BY <1>3, <1>4, <1>14, <2>5, StartInsideEffects DEF InsideItem
    <3>2. t = n /\ n \in Of(document', "tags") /\ n \in (p + 1)..(Len(document') + 1)
      BY <1>6, <1>8, <2>1, <2>2, <2>5 DEF ItemAt
    <3>3. \A f : Between(document', f, p, n) = Between(document, f, p, t)
      BY <1>8, <2>2, <3>2
    <3>4. ItemAt(document', ctx', nested', p, n)
      BY <1>8, <1>9, <1>10, <2>1, <2>2, <3>1, <3>2, <3>3 DEF ItemAt
    <3>5. InOpenItem(document', ctx', nested')
      BY <1>8, <1>11, <1>14, <2>2, <2>3, <3>1, <3>2, <3>4 DEF InOpenItem
    <3> QED
      BY <1>12, <3>1, <3>5
  <2>6. CASE ~ctx.inTags /\ e # "tags"
    <3>1. /\ ctx' \in ContextType /\ ctx'.level = [ctx.level EXCEPT ![e] = @ + 1]
          /\ ctx'.status = ctx.status /\ ctx'.name = ctx.name /\ ctx'.inItem = ctx.inItem
          /\ ctx'.inTags = ctx.inTags /\ ctx'.items = ctx.items /\ e \in Leveled
      BY <1>3, <1>4, <1>14, <2>6, StartInsideEffects DEF InsideItem
    <3>2. t = n /\ n + 1 \in (p + 1)..(Len(document') + 1) /\ Len(document') + 1 = n + 1
      BY <1>6, <1>8, <2>1, <2>2, <2>6 DEF ItemAt
    <3>3. nested' \/ \A d \in Of(document', "tags") : d < p
      BY <1>9, <1>10, <2>1, <2>6 DEF ItemAt
    <3>4. ASSUME NEW f \in Leveled
          PROVE  LET open == Cardinality(Between(document', f, p, n + 1))
                 IN ctx'.level[f] <= open /\ (nested' \/ ctx'.level[f] = open)
      <4> DEFINE old == Between(document, f, p, n)
                 new == Between(document', f, p, n + 1)
      <4>1. IsFiniteSet(old) /\ Cardinality(old) \in Nat /\ n \notin old
        <5>1. IsFiniteSet(old) /\ Cardinality(old) \in Nat
          BY <1>7, <2>2, BetweenCount
        <5>2. n \notin old
          BY <1>7, <2>2 DEF Between
        <5> QED
          BY <5>1, <5>2
      <4>2. ctx.level[f] <= Cardinality(old) /\ (nested \/ ctx.level[f] = Cardinality(old))
        BY <2>1, <3>2 DEF ItemAt
      <4>3. new = old \cup (IF e = f THEN {n} ELSE {})
        BY <1>8, <2>2
      <4>4. ctx.level \in [Leveled -> Int]
        BY <1>4 DEF ContextType
      <4>5. CASE e = f
        <5>1. Cardinality(new) = Cardinality(old) + 1
          BY <4>1, <4>3, <4>5, FS_AddElement
        <5>2. ctx'.level[f] = ctx.level[f] + 1 /\ ctx.level[f] \in Int
          BY <3>1, <4>4, <4>5
        <5> HIDE DEF old, new
        <5>3. ctx'.level[f] <= Cardinality(new) /\ (nested' \/ ctx'.level[f] = Cardinality(new))
          BY <1>5, <1>10, <4>1, <4>2, <5>1, <5>2
        <5> QED
          BY <5>3 DEF new
      <4>6. CASE e # f
        <5>1. new = old
          BY <4>3, <4>6
        <5>2. ctx'.level[f] = ctx.level[f]
          BY <3>1, <4>4, <4>6
        <5> QED
          BY <1>10, <4>2, <5>1, <5>2
      <4> QED
        BY <4>5, <4>6
    <3>5. ItemAt(document', ctx', nested', p, n + 1)
      BY <1>8, <1>9, <2>2, <2>6, <3>1, <3>2, <3>3, <3>4 DEF ItemAt
    <3>6. p \in 1..(Len(document') + 1) /\ n + 1 \in 1..(Len(document') + 1)
      BY <1>7, <1>8, <2>2
    <3>7. InOpenItem(document', ctx', nested')
      BY <1>11, <1>14, <2>3, <3>1, <3>5, <3>6 DEF InOpenItem
    <3> QED
      BY <1>12, <3>1, <3>7
  <2> QED
    BY <2>4, <2>5, <2>6
<1> QED
  BY <1>13, <1>14

(* An event that neither opens nor closes an element. *)
LEMMA SameDocument ==
  ASSUME ParserInv, Parsing, UNCHANGED <<required, document, origin, nested>>,
         events' \in 0..Events, Len(document) <= events' + 1, ctx' \in ContextType,
         ctx'.status = ctx.status, ctx'.name = ctx.name, ctx'.inItem = ctx.inItem,
         ctx'.inTags = ctx.inTags, ctx'.level = ctx.level,
         Len(ctx'.items) = Len(ctx.items),
         \A i \in DOMAIN ctx.items :
           ctx.items[i].build # "" => ctx'.items[i].build = ctx.items[i].build
  PROVE  ParserInv'
<1>1. Labelled(ctx, origin)' /\ Len(origin') = Len(ctx'.items)
  BY SameParts
<1>2. ParserTyped /\ Leveled0(ctx, nested) /\ InOpenItem(document, ctx, nested)
  BY DEF ParserInv
<1>3. ParserTyped'
  <2>1. /\ document \in Seq(ElementType) /\ Len(document) >= 1
        /\ required \in ChannelName /\ nested \in BOOLEAN /\ origin \in Seq(ElementType)
    BY <1>2, Zenon DEF ParserTyped
  <2> QED
    BY <1>1, <2>1, Zenon DEF ParserTyped
<1>4. Leveled0(ctx, nested)'
  BY <1>2 DEF Leveled0
<1>5. InChannel(document, ctx, origin)'
  BY SameChannel
<1>6. InOpenItem(document', ctx', nested')
  <2>1. \A p, t : ItemAt(document, ctx, nested, p, t) => ItemAt(document', ctx', nested', p, t)
    BY DEF ItemAt
  <2> QED
    BY <1>2, <2>1 DEF InOpenItem
<1> QED
  BY <1>1, <1>3, <1>4, <1>5, <1>6 DEF ParserInv

LEMMA EventFacts ==
  ASSUME ParserInv, Event
  PROVE  Parsing /\ events' \in 0..Events /\ Len(document) <= events' + 1
<1>1. Parsing /\ events < Events /\ events' = events + 1 /\ events \in 0..Events
      /\ Len(document) <= events + 1 /\ document \in Seq(ElementType)
  BY DEF Event, ParserInv, ParserTyped
<1>2. Len(document) \in Nat
  BY <1>1, SequenceDomain
<1> QED
  BY <1>1, <1>2, EventsType

LEMMA ItemsNumbered ==
  ASSUME ParserInv, Parsing
  PROVE  ctx \in ContextType /\ (ctx.inItem => Len(ctx.items) >= 1)
BY DEF ParserInv, ParserTyped, InOpenItem

LEMMA EnclosureStep == ASSUME ParserInv, EnclosureStarts PROVE ParserInv'
<1>1. PICK build \in ChannelName, os \in OSLabel : ctx' = Enclosure(ctx, build, os)
  BY DEF EnclosureStarts
<1>2. UNCHANGED <<required, document, origin, nested>> /\ Event
  BY DEF EnclosureStarts
<1>3. Parsing /\ events' \in 0..Events /\ Len(document) <= events' + 1
  BY <1>2, EventFacts
<1>4. /\ ctx' \in ContextType /\ Len(ctx'.items) = Len(ctx.items)
      /\ ctx'.status = ctx.status /\ ctx'.name = ctx.name /\ ctx'.inItem = ctx.inItem
      /\ ctx'.inTags = ctx.inTags /\ ctx'.level = ctx.level
      /\ \A i \in DOMAIN ctx.items :
           ctx.items[i].build # "" => ctx'.items[i].build = ctx.items[i].build
  BY <1>1, <1>3, ItemsNumbered, EnclosureEffects
<1> QED
  BY <1>2, <1>3, <1>4, SameDocument

LEMMA TextStep == ASSUME ParserInv, TextComes PROVE ParserInv'
<1>1. PICK s \in Digit : ctx' = OnText(ctx, s)
  BY DEF TextComes
<1>2. UNCHANGED <<required, document, origin, nested>> /\ Event
  BY DEF TextComes
<1>3. Parsing /\ events' \in 0..Events /\ Len(document) <= events' + 1
  BY <1>2, EventFacts
<1>4. /\ ctx' \in ContextType /\ Len(ctx'.items) = Len(ctx.items)
      /\ ctx'.status = ctx.status /\ ctx'.name = ctx.name /\ ctx'.inItem = ctx.inItem
      /\ ctx'.inTags = ctx.inTags /\ ctx'.level = ctx.level
      /\ \A i \in DOMAIN ctx.items : ctx'.items[i].build = ctx.items[i].build
  BY <1>1, <1>3, ItemsNumbered, TextEffects
<1> QED
  BY <1>2, <1>3, <1>4, SameDocument

LEMMA DocumentSteps == ASSUME ParserInv, DocumentEnds \/ DocumentBreaks PROVE ParserInv'
<1>1. PICK outcome \in {"end", "error"} : ctx' = [ctx EXCEPT !.outcome = outcome]
  BY DEF DocumentEnds, DocumentBreaks, Fail
<1>2. UNCHANGED <<required, document, events, origin, nested>> /\ Parsing
  BY DEF DocumentEnds, DocumentBreaks
<1>3. ctx \in ContextType /\ events \in 0..Events /\ Len(document) <= events + 1
  BY DEF ParserInv, ParserTyped
<1>4. /\ ctx' \in ContextType /\ ctx'.items = ctx.items
      /\ ctx'.status = ctx.status /\ ctx'.name = ctx.name /\ ctx'.inItem = ctx.inItem
      /\ ctx'.inTags = ctx.inTags /\ ctx'.level = ctx.level
  BY <1>1, <1>3 DEF ContextType, Outcome
<1>5. events' \in 0..Events /\ Len(document) <= events' + 1
  BY <1>2, <1>3
<1> QED
  BY <1>2, <1>4, <1>5, SameDocument

(* The element that ends is the last that began. *)
LEMMA EndStep == ASSUME ParserInv, ElementEnds PROVE ParserInv'
<1>1. /\ Parsing /\ Len(document) > 1 /\ document' = Front(document)
      /\ UNCHANGED <<required, events, origin, nested>>
  BY DEF ElementEnds
<1>2. /\ ctx \in ContextType /\ document \in Seq(ElementType) /\ ParserTyped
      /\ Len(document) <= events + 1 /\ events \in 0..Events
  BY DEF ParserInv, ParserTyped
<1>3. PICK n : n = Len(document)
  OBVIOUS
<1>4. PICK e \in Kinds : e = Last(document).kind
  <2>1. Last(document) \in ElementType
    BY <1>1, <1>2, ClosedFacts
  <2> QED
    BY <2>1 DEF ElementType
<1>5. ctx' = OnEndElement(ctx, e)
  BY <1>4 DEF ElementEnds
<1>6. /\ n \in Nat /\ n > 1 /\ DOMAIN document = 1..n
      /\ document' \in Seq(ElementType) /\ Len(document') = n - 1 /\ DOMAIN document' = 1..(n - 1)
  <2>1. n \in Nat /\ n > 1 /\ DOMAIN document = 1..n
    BY <1>1, <1>2, <1>3, SequenceDomain
  <2>2. document' \in Seq(ElementType) /\ Len(document') = n - 1
    BY <1>1, <1>2, <1>3, ClosedFacts
  <2>3. DOMAIN document' = 1..(n - 1)
    BY <2>2, SequenceDomain
  <2> QED
    BY <2>1, <2>2, <2>3
<1>7. /\ \A d \in 1..(n - 1) : document'[d] = document[d]
      /\ \A k : Of(document', k) = Of(document, k) \ {n}
      /\ \A k : n \in Of(document, k) <=> e = k
  BY <1>1, <1>2, <1>3, <1>4, <1>6, ClosedFacts
<1>8. /\ \A k, p, t : p \in Nat /\ t \in 1..n => Between(document', k, p, t) = Between(document, k, p, t)
      /\ \A k, p : p \in 1..(n - 1) => Between(document', k, p, n) = Between(document, k, p, n + 1) \ {n}
      /\ \A k, p : p \in 1..(n - 1) => (n \in Between(document, k, p, n + 1) <=> e = k)
  BY <1>1, <1>2, <1>3, <1>4, <1>6, ClosedFacts
<1>9. /\ InChannel(document, ctx, origin) /\ InOpenItem(document, ctx, nested)
      /\ Leveled0(ctx, nested)
  BY <1>1 DEF ParserInv
<1>10. /\ ctx' \in ContextType /\ ctx'.name = ctx.name /\ ctx'.items = ctx.items
       /\ ctx'.inTags = (ctx.inTags /\ e # "tags")
       /\ ctx'.inItem = (ctx.inItem /\ (e = "item" => ctx.inTags))
       /\ ctx'.level = IF ctx.inItem /\ ~ctx.inTags /\ e \in Leveled
                       THEN [ctx.level EXCEPT ![e] = @ - 1] ELSE ctx.level
       /\ ctx.inTags \/ ctx.inItem \/ e # "channel" =>
            ctx'.status = ctx.status /\ ctx'.outcome = ctx.outcome
       /\ ~ctx.inTags /\ ~ctx.inItem /\ e = "channel" =>
            ctx'.status = "none"
              /\ ctx'.outcome = IF ctx.status = "active" THEN "complete" ELSE ctx.outcome
  <2>1. ctx \in ContextType /\ e \in Kinds
    BY <1>2, <1>4
  <2> QED
    BY ONLY <2>1, <1>5, EndEffects
<1>11. Labelled(ctx, origin)' /\ Len(origin') = Len(ctx'.items)
  BY <1>1, <1>10, SameParts
<1>12. ParserTyped'
  <2>1. Len(document') >= 1 /\ Len(document') <= events + 1
    BY <1>2, <1>3, <1>6
  <2> QED
    BY <1>1, <1>2, <1>6, <1>10, <1>11, <2>1 DEF ParserTyped
<1>13. nested' \/ \A d, f \in Of(document', "tags") : d = f
  BY <1>1, <1>7, <1>9 DEF InOpenItem
<1>14. ASSUME InOpenItem(document', ctx', nested') PROVE Leveled0(ctx', nested')
  <2>1. Len(document') <= Events + 1
    BY <1>2, <1>3, <1>6, EventsType
  <2> QED
    BY <1>6, <1>10, <1>14, <2>1, LevelsCount
<1>15. ASSUME e # "channel", InOpenItem(document', ctx', nested') PROVE ParserInv'
  <2>1. Of(document', "channel") = Of(document, "channel")
    BY <1>7, <1>15
  <2>2. \A d \in Of(document, "channel") : document'[d] = document[d]
    <3>1. \A d \in Of(document, "channel") : d \in 1..(n - 1)
      BY <1>6, <1>7, <1>15 DEF Of
    <3> QED
      BY <1>7, <3>1
  <2>3. InChannel(document, ctx, origin)'
    BY <1>1, <1>10, <1>15, <2>1, <2>2, SameChannel
  <2> QED
    BY <1>11, <1>12, <1>14, <1>15, <2>3 DEF ParserInv
(* The end of an element outside the items, *)
<1>16. CASE ~ctx.inItem
  <2>1. ~ctx.inTags
    BY <1>9, <1>16 DEF InOpenItem
  <2>2. ~ctx'.inItem /\ ~ctx'.inTags /\ ctx'.level = ctx.level
    BY <1>10, <1>16, <2>1
  <2>3. CASE e # "channel"
    <3>1. InOpenItem(document', ctx', nested')
      BY <1>1, <1>7, <1>9, <1>10, <1>13, <1>16, <2>2, <2>3 DEF InOpenItem
    <3> QED
      BY <1>15, <2>3, <3>1
  <2>4. CASE e = "channel"
    <3>1. /\ ctx'.status = "none"
          /\ ctx'.outcome = IF ctx.status = "active" THEN "complete" ELSE ctx.outcome
      BY <1>10, <1>16, <2>1, <2>4
    <3>2. Leveled0(ctx, nested)'
      BY <1>1, <1>9, <2>2 DEF Leveled0
    <3>3. CASE ctx.status = "active"
      BY <1>11, <1>12, <3>1, <3>2, <3>3 DEF ParserInv, Parsing
    <3>4. CASE ctx.status # "active"
      <4>1. n \in Of(document, "channel") /\ Of(document', "channel") = {}
        <5>1. n \in Of(document, "channel")
          BY <1>7, <2>4
        <5>2. \A d \in Of(document, "channel") : d = n
          BY <1>9, <5>1 DEF InChannel
        <5> QED
          BY <1>7, <5>1, <5>2
      <4>2. ctx.status = "inactive"
        BY <1>2, <1>9, <3>4, <4>1 DEF InChannel, ContextType, Status
      <4>3. origin' = <<>>
        BY <1>1, <1>9, <4>2 DEF InChannel
      <4>4. InChannel(document, ctx, origin)'
        BY <3>1, <4>1, <4>3 DEF InChannel
      <4>5. Of(document', "item") = {}
        <5>1. \A p \in Of(document, "item") : n < p
          BY <1>9, <1>16, <4>1 DEF InOpenItem
        <5>2. \A p \in Of(document, "item") : p \in 1..n
          BY <1>6 DEF Of
        <5>3. Of(document, "item") = {}
          BY <1>6, <5>1, <5>2
        <5> QED
          BY <1>7, <5>3
      <4>6. InOpenItem(document', ctx', nested')
        BY <1>1, <1>9, <1>13, <1>16, <2>2, <3>1, <4>1, <4>5 DEF InOpenItem
      <4> QED
        BY <1>11, <1>12, <3>2, <4>4, <4>6 DEF ParserInv
    <3> QED
      BY <3>3, <3>4
  <2> QED
    BY <2>3, <2>4
(* and inside an item. *)
<1>17. CASE ctx.inItem
  <2>1. PICK p, t \in 1..(Len(document) + 1) : ItemAt(document, ctx, nested, p, t)
    BY <1>9, <1>17 DEF InOpenItem
  <2>2. /\ p \in 1..n /\ Of(document, "item") = {p} /\ t \in (p + 1)..(n + 1)
        /\ p \in Nat /\ t \in Nat
        /\ \A d \in Of(document, "channel") : d < p
        /\ IF ctx.inTags THEN t \in Of(document, "tags") ELSE t = n + 1
        /\ ctx.inTags \/ nested \/ \A d \in Of(document, "tags") : d < p
    <3>1. /\ p \in 1..n /\ Of(document, "item") = {p} /\ t \in (p + 1)..(n + 1)
          /\ \A d \in Of(document, "channel") : d < p
          /\ IF ctx.inTags THEN t \in Of(document, "tags") ELSE t = n + 1
          /\ ctx.inTags \/ nested \/ \A d \in Of(document, "tags") : d < p
      BY <1>3, <2>1 DEF ItemAt
    <3>2. p \in Nat /\ t \in Nat
      BY <1>6, <3>1
    <3> QED
      BY <3>1, <3>2
  <2>3. \A f \in Leveled : LET open == Cardinality(Between(document, f, p, t))
                           IN ctx.level[f] <= open /\ (nested \/ ctx.level[f] = open)
    BY <2>1 DEF ItemAt
  <2>4. ctx.status \in {"omitted", "active"} /\ Len(ctx.items) >= 1
    BY <1>9, <1>17 DEF InOpenItem
  <2>5. e # "channel" /\ Of(document', "channel") = Of(document, "channel")
    <3>1. n \notin Of(document, "channel")
      BY <1>6, <2>2
    <3> QED
      BY <1>7, <3>1
  <2>6. ctx'.status = ctx.status /\ ctx'.items = ctx.items
    BY <1>10, <1>17
  <2>7. ASSUME p # n, ctx'.inItem = TRUE, NEW u \in (p + 1)..n,
               ItemAt(document', ctx', nested', p, u)
        PROVE  ParserInv'
    <3>1. p \in 1..(Len(document') + 1) /\ u \in 1..(Len(document') + 1)
      BY <1>6, <2>2, <2>7
    <3>2. InOpenItem(document', ctx', nested')
      BY <1>13, <2>4, <2>6, <2>7, <3>1 DEF InOpenItem
    <3> QED
      BY <1>15, <2>5, <3>2
  <2>8. p # n => /\ Of(document', "item") = {p} /\ p \in 1..(n - 1)
                 /\ Len(document') + 1 = n
    BY <1>6, <1>7, <2>2
  <2>9. \A f \in Leveled : ctx.level[f] \in Int
    BY <1>2 DEF ContextType
  <2>10. CASE ctx.inTags /\ e = "tags"
    <3>1. p # n /\ e \notin Leveled
      BY <1>7, <2>2, <2>10, KindFacts
    <3>2. ctx'.inTags = FALSE /\ ctx'.inItem = TRUE /\ ctx'.level = ctx.level
      BY <1>10, <1>17, <2>10, <3>1
    <3>3. t \in (p + 1)..n
      BY <1>6, <2>2, <2>10 DEF Of
    <3>4. nested' \/ (t = n /\ \A d \in Of(document', "tags") : d < p)
      <4>1. CASE ~nested
        <5>1. \A d \in Of(document, "tags") : d = n /\ t = n
          BY <1>7, <1>9, <2>2, <2>10, <4>1 DEF InOpenItem
        <5> QED
          BY <1>7, <2>2, <2>10, <5>1
      <4> QED
        BY <1>1, <4>1
    <3>5. ASSUME NEW f \in Leveled
          PROVE  LET open == Cardinality(Between(document', f, p, n))
                 IN ctx'.level[f] <= open /\ (nested' \/ ctx'.level[f] = open)
      <4> DEFINE old == Between(document, f, p, t)
                 new == Between(document', f, p, n)
      <4>1. new = Between(document, f, p, n)
        BY <1>6, <1>8, <2>2
      <4>2. old \subseteq new /\ (t = n => old = new)
        BY <1>6, <2>2, <3>3, <4>1 DEF Between
      <4>3. IsFiniteSet(new) /\ Cardinality(new) \in Nat /\ Cardinality(old) \in Nat
        BY <1>6, <2>2, BetweenCount
      <4> HIDE DEF old, new
      <4>4. Cardinality(old) <= Cardinality(new)
        BY <4>2, <4>3, FS_Subset
      <4>5. ctx'.level[f] = ctx.level[f] /\ ctx.level[f] \in Int
        BY <2>9, <3>2
      <4>6. ctx.level[f] <= Cardinality(old) /\ (nested \/ ctx.level[f] = Cardinality(old))
        BY <2>3 DEF old
      <4>7. ctx'.level[f] <= Cardinality(new)
        BY <4>3, <4>4, <4>5, <4>6
      <4>8. nested' \/ ctx'.level[f] = Cardinality(new)
        BY <1>1, <3>4, <4>2, <4>5, <4>6
      <4> QED
        BY <4>7, <4>8 DEF new
    <3>6. ItemAt(document', ctx', nested', p, n)
      <4>1. p \in 1..Len(document') /\ n \in (p + 1)..(Len(document') + 1)
        BY <1>6, <2>2, <2>8, <3>1
      <4> QED
        BY <2>2, <2>5, <2>8, <3>1, <3>2, <3>4, <3>5, <4>1 DEF ItemAt
    <3>7. n \in (p + 1)..n
      BY <1>6, <2>2, <3>1
    <3> QED
      BY <2>7, <3>1, <3>2, <3>6, <3>7
  <2>11. CASE ctx.inTags /\ e # "tags"
    <3>1. t # n /\ n \notin Of(document, "tags")
      BY <1>7, <2>2, <2>11
    <3>2. t \in (p + 1)..(n - 1) /\ p # n /\ t \in 1..n
      <4>1. t \in 1..n
        BY <1>6, <2>2, <2>11 DEF Of
      <4> QED
        BY <1>6, <2>2, <3>1, <4>1
    <3>3. /\ ctx'.inTags = TRUE /\ ctx'.inItem = TRUE /\ ctx'.level = ctx.level
      BY <1>10, <1>17, <2>11
    <3>4. \A f : Between(document', f, p, t) = Between(document, f, p, t)
      BY <1>8, <2>2, <3>2
    <3>5. t \in Of(document', "tags")
      BY <1>7, <2>2, <2>11, <3>1
    <3>6. ItemAt(document', ctx', nested', p, t)
      <4>1. p \in 1..Len(document') /\ t \in (p + 1)..(Len(document') + 1)
        BY <1>6, <2>2, <2>8, <3>2
      <4> QED
        BY <1>1, <2>2, <2>3, <2>5, <2>8, <3>2, <3>3, <3>4, <3>5, <4>1 DEF ItemAt
    <3>7. t \in (p + 1)..n
      BY <1>6, <2>2, <3>2
    <3> QED
      BY <2>7, <3>2, <3>3, <3>6, <3>7
  <2>12. CASE ~ctx.inTags /\ e = "item"
    <3>1. p = n
      BY <1>7, <2>2, <2>12
    <3>2. ctx'.inItem = FALSE /\ ctx'.inTags = FALSE /\ ctx'.level = ctx.level
      BY <1>10, <1>17, <2>12, KindFacts
    <3>3. Of(document', "item") = {}
      BY <1>7, <2>2, <3>1
    <3>4. \A f \in Leveled : ctx'.level[f] <= 0 /\ (nested' \/ ctx'.level[f] = 0)
      <4>1. \A f : Between(document, f, p, t) = {}
        BY <1>6, <2>2, <2>12, <3>1 DEF Between
      <4> QED
        BY <1>1, <2>3, <3>2, <4>1, FS_EmptySet
    <3>5. InOpenItem(document', ctx', nested')
      BY <1>13, <3>2, <3>3, <3>4 DEF InOpenItem
    <3> QED
      BY <1>15, <2>5, <3>5
  <2>13. CASE ~ctx.inTags /\ e # "item"
    <3>1. p # n
      BY <1>7, <2>2, <2>13
    <3>2. ctx'.inTags = FALSE /\ ctx'.inItem = TRUE /\ t = n + 1
      BY <1>10, <1>17, <2>2, <2>13
    <3>3. nested' \/ \A d \in Of(document', "tags") : d < p
      BY <1>1, <1>7, <2>2, <2>13
    <3>4. ASSUME NEW f \in Leveled
          PROVE  LET open == Cardinality(Between(document', f, p, n))
                 IN ctx'.level[f] <= open /\ (nested' \/ ctx'.level[f] = open)
      <4> DEFINE old == Between(document, f, p, n + 1)
                 new == Between(document', f, p, n)
      <4>1. IsFiniteSet(old) /\ Cardinality(old) \in Nat
        BY <1>6, <2>2, BetweenCount
      <4>2. ctx.level[f] <= Cardinality(old) /\ (nested \/ ctx.level[f] = Cardinality(old))
            /\ ctx.level[f] \in Int
        BY <2>3, <2>9, <3>2
      <4>3. new = old \ {n} /\ (n \in old <=> e = f)
        BY <1>8, <2>8, <3>1
      <4>4. CASE e = f
        <5>1. Cardinality(new) = Cardinality(old) - 1
          <6> HIDE DEF old, new
          <6> QED
            BY <4>1, <4>3, <4>4, FS_RemoveElement
        <5>2. ctx'.level[f] = ctx.level[f] - 1
          <6>1. ctx'.level = [ctx.level EXCEPT ![e] = @ - 1] /\ ctx.level \in [Leveled -> Int]
            BY <1>2, <1>10, <1>17, <2>13, <4>4 DEF ContextType
          <6> QED
            BY <4>4, <6>1
        <5> HIDE DEF old, new
        <5>3. ctx'.level[f] <= Cardinality(new) /\ (nested' \/ ctx'.level[f] = Cardinality(new))
          BY <1>1, <4>1, <4>2, <5>1, <5>2
        <5> QED
          BY <5>3 DEF new
      <4>5. CASE e # f
        <5>1. new = old
          BY <4>3, <4>5
        <5>2. ctx'.level[f] = ctx.level[f]
          <6>1. ctx.level \in [Leveled -> Int]
            BY <1>2 DEF ContextType
          <6> QED
            BY <1>10, <4>5, <6>1
        <5> QED
          BY <1>1, <4>2, <5>1, <5>2
      <4> QED
        BY <4>4, <4>5
    <3>5. ItemAt(document', ctx', nested', p, n)
      <4>1. p \in 1..Len(document') /\ n \in (p + 1)..(Len(document') + 1)
        BY <1>6, <2>2, <2>8, <3>1
      <4> QED
        BY <2>2, <2>5, <2>8, <3>1, <3>2, <3>3, <3>4, <4>1 DEF ItemAt
    <3>6. n \in (p + 1)..n
      BY <1>6, <2>2, <3>1
    <3> QED
      BY <2>7, <3>1, <3>2, <3>5, <3>6
  <2> QED
    BY <2>10, <2>11, <2>12, <2>13
<1> QED
  BY <1>16, <1>17

(* A parse begins with nothing read, whether it is the first or another was over. *)
Fresh(doc, c, n, from, tags) ==
  /\ n \in 0..Events /\ tags \in BOOLEAN
  /\ doc \in Seq(ElementType) /\ Len(doc) >= 1 /\ Len(doc) <= n + 1
  /\ c \in ContextType /\ c.items = <<>>
  /\ from \in Seq(ElementType) /\ Len(from) = Len(c.items)
  /\ Labelled(c, from) /\ Leveled0(c, tags)
  /\ InChannel(doc, c, from) /\ InOpenItem(doc, c, tags)

LEMMA FreshParser ==
  ASSUME NEW doc, NEW c, NEW n, NEW from, NEW tags,
         doc = <<Nowhere>>, c = EmptyContext, n = 0, from = <<>>, tags = FALSE
  PROVE  Fresh(doc, c, n, from, tags)
<1>1. n \in 0..Events /\ 0 \in 0..Events
  BY EventsType
<1>2. doc \in Seq(ElementType) /\ Len(doc) = 1 /\ DOMAIN doc = 1..1
  BY NowhereType
<1>3. /\ c.status = "none" /\ c.name = "" /\ c.inItem = FALSE /\ c.inTags = FALSE
      /\ c.items = <<>> /\ c.level = [f \in Leveled |-> 0] /\ c.outcome = "parsing"
  BY DEF EmptyContext
<1>4. c \in ContextType
  <2>1. [f \in Leveled |-> 0] \in [Leveled -> Int] /\ "" \in ChannelName
    <3>1. [f \in Leveled |-> 0] \in [Leveled -> Int]
      OBVIOUS
    <3> QED
      BY <3>1, KindFacts, Zenon
  <2>2. <<>> \in Seq(ItemType)
    OBVIOUS
  <2> DEFINE level == [f \in Leveled |-> 0]
             none  == <<>>
  <2>3. c = [status |-> "none", name |-> "", inItem |-> FALSE, inTags |-> FALSE,
             level |-> level, items |-> none, outcome |-> "parsing"]
    BY DEF EmptyContext
  <2>4. level \in [Leveled -> Int] /\ none \in Seq(ItemType)
    BY <2>1, <2>2
  <2>5. "none" \in Status /\ "parsing" \in Outcome /\ "" \in ChannelName
    BY <2>1 DEF Status, Outcome
  <2> HIDE DEF level, none
  <2> QED
    BY ONLY <2>3, <2>4, <2>5 DEF ContextType
<1>5. doc[1].kind = "root"
  BY DEF Nowhere, Element
<1>6. \A kind \in {"channel", "item", "tags"} : Of(doc, kind) = {}
  BY <1>2, <1>5 DEF Of
<1>7. InChannel(doc, c, from)
  BY <1>3, <1>6 DEF InChannel
<1>8. \A f \in Leveled : c.level[f] = 0
  BY <1>3
<1>9. InOpenItem(doc, c, tags)
  <2>1. \A d, e \in Of(doc, "tags") : d = e
    BY <1>6
  <2>2. c.inItem = FALSE /\ c.inTags = FALSE /\ Of(doc, "item") = {}
    BY <1>3, <1>6
  <2>3. \A f \in Leveled : c.level[f] <= 0 /\ c.level[f] = 0
    BY <1>8
  <2> QED
    BY <2>1, <2>2, <2>3, Zenon DEF InOpenItem
<1>10. from \in Seq(ElementType) /\ Len(from) = Len(c.items) /\ DOMAIN from = {}
  <2>1. \A S : <<>> \in Seq(S) /\ DOMAIN <<>> = {}
    OBVIOUS
  <2> QED
    BY <1>3, <2>1, Zenon
<1>11. Labelled(c, from)
  BY <1>10 DEF Labelled
<1>12. Leveled0(c, tags)
  BY <1>1, <1>3 DEF Leveled0
<1>13. tags \in BOOLEAN /\ Len(doc) >= 1 /\ Len(doc) <= n + 1
  <2>1. tags \in BOOLEAN
    OBVIOUS
  <2>2. n = 0
    OBVIOUS
  <2>3. Len(doc) >= 1 /\ Len(doc) <= n + 1
    BY ONLY <1>2, <2>2
  <2> QED
    BY <2>1, <2>3, Zenon
<1> QED
  BY ONLY <1>1, <1>2, <1>3, <1>4, <1>7, <1>9, <1>10, <1>11, <1>12, <1>13, Zenon DEF Fresh

LEMMA InitParser == Init => ParserInv
<1> SUFFICES ASSUME Init PROVE ParserInv
  OBVIOUS
<1>1. /\ required \in ChannelName /\ document = <<Nowhere>> /\ ctx = EmptyContext /\ events = 0
      /\ origin = <<>> /\ nested = FALSE
  BY DEF Init, ParserInit
<1> QED
  BY <1>1, FreshParser DEF Fresh, ParserInv, ParserTyped

LEMMA ResetStep == ASSUME ParserInv, ParserDone PROVE ParserInv' /\ ctx'.items = <<>>
<1>1. /\ required' = required /\ document' = <<Nowhere>> /\ ctx' = EmptyContext /\ events' = 0
      /\ origin' = <<>> /\ nested' = FALSE
  BY DEF ParserDone
<1>2. /\ events' \in 0..Events /\ nested' \in BOOLEAN
      /\ document' \in Seq(ElementType) /\ Len(document') >= 1 /\ Len(document') <= events' + 1
      /\ ctx' \in ContextType /\ ctx'.items = <<>>
      /\ origin' \in Seq(ElementType) /\ Len(origin') = Len(ctx'.items)
      /\ Labelled(ctx', origin') /\ Leveled0(ctx', nested')
      /\ InChannel(document', ctx', origin') /\ InOpenItem(document', ctx', nested')
  <2>1. Fresh(document', ctx', events', origin', nested')
    BY <1>1, FreshParser
  <2> QED
    BY <2>1 DEF Fresh
<1>3. \A i \in DOMAIN origin' : FALSE
  BY <1>1
<1>4. Labelled(ctx, origin)'
  BY <1>3 DEF Labelled
<1>5. InChannel(document, ctx, origin)'
  <2>1. ctx'.status = "none"
    BY <1>1 DEF EmptyContext
  <2> QED
    BY <1>2, <2>1 DEF InChannel
<1>6. ParserTyped'
  BY <1>1, <1>2 DEF ParserInv, ParserTyped
<1> QED
  BY <1>2, <1>4, <1>5, <1>6 DEF ParserInv

LEMMA ParserStep == ASSUME ParserInv, ParserNext PROVE ParserInv'
BY ChannelStep, ItemStep, OtherStep, EnclosureStep, TextStep, EndStep, DocumentSteps
   DEF ParserNext

(* Only IsAvailable's call of Load moves the parser. *)
LEMMA ParserAlone ==
  ASSUME [Next]_vars
  PROVE  ParserNext \/ ParserDone \/ UNCHANGED parser
<1>1. CASE UNCHANGED vars
  BY <1>1 DEF vars
<1>2. CASE Parse
  BY <1>2 DEF Parse
<1>3. CASE LoadThrows \/ LoadReturns
  BY <1>3 DEF LoadThrows, LoadReturns
<1>4. CASE Begin \/ ResolveFeed \/ AskCancelled \/ CheckKeys \/ CompareVersions \/ Stop
  BY <1>4 DEF Begin, ResolveFeed, AskCancelled, CheckKeys, CompareVersions, Stop, Alone
<1>5. CASE GetLatest \/ LatestRefused \/ LatestComes \/ GetManifest \/ ManifestRefused
           \/ ManifestComes \/ GetNotes \/ NotesRefused \/ NotesCome
  BY <1>5 DEF GetLatest, LatestRefused, LatestComes, GetManifest, ManifestRefused,
     ManifestComes, GetNotes, NotesRefused, NotesCome, Get, Refused, Completed
<1>6. CASE Finish \/ Cancel \/ Quit \/ AskWhether \/ AskLast \/ Looks \/ \E a \in Poller : Stores(a)
  BY <1>6 DEF Finish, Cancel, Quit, AskWhether, AskLast, Ask, Looks, Stores, Alone
<1> QED
  BY <1>1, <1>2, <1>3, <1>4, <1>5, <1>6 DEF Next, Poller

LEMMA NextParser == ParserInv /\ [Next]_vars => ParserInv'
<1> SUFFICES ASSUME ParserInv, [Next]_vars PROVE ParserInv'
  OBVIOUS
<1>1. CASE UNCHANGED parser
  <2>1. UNCHANGED <<required, document, events, ctx, origin, nested>>
    BY <1>1 DEF parser
  <2>2. ParserTyped' /\ Labelled(ctx, origin)' /\ Leveled0(ctx, nested)'
    BY <2>1 DEF ParserInv, ParserTyped, Labelled, Leveled0, ChannelMatch, EmptyOrRelease
  <2>3. InChannel(document, ctx, origin)' = InChannel(document, ctx, origin)
        /\ InOpenItem(document, ctx, nested)' = InOpenItem(document, ctx, nested)
        /\ Parsing' = Parsing
    BY <2>1 DEF InChannel, InOpenItem, ItemAt, Between, Of, Parsing, ChannelMatch,
       EmptyOrRelease
  <2> QED
    BY <2>2, <2>3 DEF ParserInv
<1> QED
  BY <1>1, ParserAlone, ParserStep, ResetStep

LEMMA ParserAlways == Spec => []ParserInv
BY InitParser, NextParser, PTL DEF Spec

(* Every item that is loaded stands in a channel that was asked for, or in   *)
(* none, keeps the label of its channel, and all come from the first such    *)
(* channel, whatever the document.  AutoManifest.cpp:163-169, 430-487,       *)
(* 541-546, 710-714.                                                         *)
THEOREM ChannelIsHonoured == Spec => []ChannelHonoured
<1>1. ParserInv => ChannelHonoured
  <2> SUFFICES ASSUME ParserInv PROVE ChannelHonoured
    OBVIOUS
  <2>1. Labelled(ctx, origin)
    BY DEF ParserInv
  <2>2. \A name : ChannelMatch(name) => name = required \/ {name, required} \subseteq {"", "release"}
    BY DEF ChannelMatch, EmptyOrRelease
  <2> QED
    BY <2>1, <2>2 DEF Labelled, ChannelHonoured
<1> QED
  BY <1>1, ParserAlways, PTL

LEMMA EndKeepsItems ==
  ASSUME NEW c \in ContextType, NEW e \in Kinds
  PROVE  OnEndElement(c, e).items = c.items
<1>1. \A level : [c EXCEPT !.level = level].items = c.items
  BY DEF ContextType
<1>2. [c EXCEPT !.inItem = FALSE].items = c.items
  BY DEF ContextType
<1>3. EndItem(c, e).items = c.items
  BY <1>1, <1>2 DEF EndItem
<1>4. \A outcome : [c EXCEPT !.status = "none", !.outcome = outcome].items = c.items
  BY DEF ContextType
<1>5. EndChannel(c, e).items = c.items
  BY <1>4 DEF EndChannel
<1>6. [c EXCEPT !.inTags = (e # "tags")].items = c.items
  BY DEF ContextType
<1> QED
  BY <1>3, <1>5, <1>6 DEF OnEndElement, ContextType

(* Only OnText changes what an item says, and of the last one only. *)
LEMMA TextChange ==
  ASSUME ParserInv, ParserNext, NEW i \in DOMAIN ctx.items, NEW f \in Field,
         ctx'.items[i].text[f] # ctx.items[i].text[f]
  PROVE  Parsing /\ InsideItem(ctx) /\ i = Len(ctx.items) /\ ctx.level[f] = 1
<1>1. /\ ctx \in ContextType /\ document \in Seq(ElementType) /\ Len(document) >= 1
      /\ ctx.items \in Seq(ItemType)
  BY DEF ParserInv, ParserTyped, ContextType
<1>2. ctx'.items # ctx.items
  OBVIOUS
<1>3. \A item : Append(ctx.items, item)[i] = ctx.items[i]
  BY <1>1
<1>4. ~ChannelStarts
  <2>1. \A name \in ChannelName : StartChannel(ctx, name).items = ctx.items
    BY <1>1, StatusEffects
  <2> QED
    BY <1>2, <2>1 DEF ChannelStarts, Starts
<1>5. ~ItemStarts
  <2>1. CASE ctx.inItem
    BY <1>1, <1>2, <2>1, StatusEffects DEF ItemStarts, Starts, StartItem
  <2>2. CASE ~ctx.inItem /\ ctx.status = "inactive"
    BY <1>2, <2>2 DEF ItemStarts, Starts, StartItem
  <2>3. CASE ~ctx.inItem /\ ctx.status # "inactive"
    <3>1. PICK item \in ItemType : StartItem(ctx).items = Append(ctx.items, item)
      BY <1>1, <2>3, StartItemEffects
    <3>2. ItemStarts => ctx' = StartItem(ctx)
      BY DEF ItemStarts, Starts
    <3>3. ASSUME ItemStarts PROVE ctx'.items[i] = ctx.items[i]
      BY <1>3, <3>1, <3>2, <3>3
    <3> QED
      BY <3>3
  <2> QED
    BY <2>1, <2>2, <2>3
<1>6. ~OtherStarts
  <2>1. ASSUME NEW e \in Leveled \cup {"tags"} PROVE StartInside(ctx, e).items = ctx.items
    <3>1. CASE InsideItem(ctx)
      BY <1>1, <3>1, StartInsideEffects
    <3>2. CASE ~InsideItem(ctx)
      BY <3>2 DEF StartInside
    <3> QED
      BY <3>1, <3>2
  <2>2. OtherStarts => \E e \in Leveled \cup {"tags"} : ctx' = StartInside(ctx, e)
    BY DEF OtherStarts, Starts
  <2> QED
    BY <1>2, <2>1, <2>2
<1>7. ~ElementEnds
  <2>1. ASSUME ElementEnds PROVE FALSE
    <3>1. PICK e \in Kinds : e = Last(document).kind
      <4>1. Last(document) \in ElementType
        BY <1>1, <2>1, ClosedFacts DEF ElementEnds
      <4> QED
        BY <4>1 DEF ElementType
    <3>2. ctx' = OnEndElement(ctx, e)
      BY <2>1, <3>1 DEF ElementEnds
    <3>3. OnEndElement(ctx, e).items = ctx.items
      BY <1>1, EndKeepsItems
    <3>4. ctx'.items = ctx.items
      BY <3>2, <3>3
    <3> QED
      BY <1>2, <3>4
  <2> QED
    BY <2>1
<1>8. ~(DocumentEnds \/ DocumentBreaks)
  <2>1. \A outcome : [ctx EXCEPT !.outcome = outcome].items = ctx.items
    BY <1>1 DEF ContextType
  <2> QED
    BY <1>2, <2>1 DEF DocumentEnds, DocumentBreaks, Fail
<1>9. ~EnclosureStarts
  <2>1. ASSUME EnclosureStarts PROVE FALSE
    <3>1. PICK build \in ChannelName, os \in OSLabel : ctx' = Enclosure(ctx, build, os)
      BY <2>1 DEF EnclosureStarts
    <3>2. Parsing
      BY <2>1 DEF EnclosureStarts, Event
    <3>3. ctx'.items[i].text = ctx.items[i].text
      BY <3>1, <3>2, ItemsNumbered, EnclosureEffects
    <3> QED
      BY <3>3
  <2> QED
    BY <2>1
<1>10. CASE TextComes
  <2>1. PICK s \in Digit : ctx' = OnText(ctx, s)
    BY <1>10 DEF TextComes
  <2>2. Parsing
    BY <1>10 DEF TextComes, Event
  <2> QED
    BY <2>1, <2>2, ItemsNumbered, TextEffects
<1> QED
  BY <1>4, <1>5, <1>6, <1>7, <1>8, <1>9, <1>10 DEF ParserNext

(* A field that is open just once since its item or its tags began is open   *)
(* within the item. *)
LEMMA OwnField ==
  ASSUME ParserInv, Parsing, InsideItem(ctx), NEW f \in Field, ctx.level[f] = 1
  PROVE  /\ Open("item") /\ LastOpen(f) > LastOpen("item")
         /\ nested \/ LastOpen("tags") < LastOpen("item")
<1>1. document \in Seq(ElementType) /\ InOpenItem(document, ctx, nested)
  BY DEF ParserInv, ParserTyped
<1>2. ctx.inItem /\ ~ctx.inTags /\ f \in Leveled
  BY DEF InsideItem, Leveled
<1>3. PICK p, t \in 1..(Len(document) + 1) : ItemAt(document, ctx, nested, p, t)
  BY <1>1, <1>2 DEF InOpenItem
<1>4. /\ p \in 1..Len(document) /\ Of(document, "item") = {p}
      /\ t \in (p + 1)..(Len(document) + 1) /\ t = Len(document) + 1
      /\ nested \/ \A d \in Of(document, "tags") : d < p
      /\ ctx.level[f] <= Cardinality(Between(document, f, p, t))
  BY <1>2, <1>3 DEF ItemAt
<1>5. Len(document) \in Nat /\ DOMAIN document = 1..Len(document)
  BY <1>1, SequenceDomain
<1>6. p \in Nat /\ t \in Nat /\ p >= 1
  BY <1>4, <1>5
<1>7. LastOpen("item") = p /\ Open("item")
  BY <1>1, <1>4, LastOpenFacts
<1>8. LastOpen(f) > p
  <2>1. Cardinality(Between(document, f, p, t)) >= 1
    <3>1. Cardinality(Between(document, f, p, t)) \in Nat
      BY <1>6, BetweenCount
    <3> QED
      BY <1>4, <3>1
  <2>2. PICK d \in Between(document, f, p, t) : TRUE
    BY <1>6, <2>1, BetweenCount
  <2>3. d \in Of(document, f) /\ d > p /\ d \in Nat
    BY <1>4, <1>5, <1>6 DEF Between, Of
  <2>4. LastOpen(f) \in Of(document, f) /\ d <= LastOpen(f)
    BY <1>1, <2>3, LastOpenFacts
  <2>5. LastOpen(f) \in Nat
    BY <1>5, <2>4 DEF Of
  <2> QED
    BY <1>6, <2>3, <2>4, <2>5
<1>9. nested \/ LastOpen("tags") < p
  <2>1. CASE Of(document, "tags") = {}
    BY <1>1, <1>6, <2>1, LastOpenFacts
  <2>2. CASE Of(document, "tags") # {}
    BY <1>1, <1>4, <2>2, LastOpenFacts
  <2> QED
    BY <2>1, <2>2
<1> QED
  BY <1>7, <1>8, <1>9

(* A text is given to the open item, and to a field that is open in it and   *)
(* not through its tags, in every document.  AutoManifest.cpp:720-779.       *)
THEOREM TextStaysOwn == Spec => TextIsOwn
<1> DEFINE Own == \A i \in DOMAIN ctx.items, f \in Field :
                    i \in DOMAIN ctx'.items /\ ctx'.items[i].text[f] # ctx.items[i].text[f] =>
                      /\ i = Len(ctx.items) /\ Open("item") /\ LastOpen(f) > LastOpen("item")
                      /\ nested \/ LastOpen("tags") < LastOpen("item")
<1>1. ParserInv /\ [Next]_vars => [Own]_parser
  <2> SUFFICES ASSUME ParserInv, [Next]_vars, parser' # parser PROVE Own
    OBVIOUS
  <2> SUFFICES ASSUME NEW i \in DOMAIN ctx.items, NEW f \in Field, i \in DOMAIN ctx'.items,
                      ctx'.items[i].text[f] # ctx.items[i].text[f]
               PROVE  /\ i = Len(ctx.items) /\ Open("item") /\ LastOpen(f) > LastOpen("item")
                      /\ nested \/ LastOpen("tags") < LastOpen("item")
    OBVIOUS
  <2>1. ~ParserDone
    <3>1. \A j \in DOMAIN <<>> : FALSE
      OBVIOUS
    <3> QED
      BY <3>1, ResetStep
  <2>2. ParserNext
    BY <2>1, ParserAlone
  <2> QED
    BY <2>2, TextChange, OwnField
<1> QED
  BY <1>1, ParserAlways, PTL DEF Spec, TextIsOwn

(* The number that a text spells.  FoldLeft is a function of the sets of     *)
(* places; it is there, and a number, for the places up to every one.        *)
Spells(s, D, g) ==
  g = [P \in SUBSET D |-> IF P = {} THEN 0 ELSE 10 * g[P \ {Max(P)}] + s[Max(P)]]

LEMMA NumberSpelled == \A s : Number(s) = (CHOOSE g : Spells(s, DOMAIN s, g))[DOMAIN s]
BY DEF Number, FoldLeft, MapThenFoldSet, Spells

LEMMA MaxFacts ==
  ASSUME NEW n \in Nat, NEW P \in SUBSET (1..n), P # {}
  PROVE  Max(P) \in P /\ \A k \in P : k <= Max(P)
BY Greatest DEF Max

LEMMA SpellingExists ==
  ASSUME NEW s, NEW n \in Nat, \A k \in 1..n : s[k] \in Nat
  PROVE  \E g : Spells(s, 1..n, g)
<1> DEFINE Bad == {k \in 0..n : ~\E g : Spells(s, 1..k, g)}
<1>1. SUFFICES ASSUME Bad # {} PROVE FALSE
  OBVIOUS
<1>2. PICK m \in Bad : \A k \in Bad : m <= k
  <2>1. Bad \in SUBSET Nat
    OBVIOUS
  <2> HIDE DEF Bad
  <2> QED
    BY <1>1, <2>1, Least
<1>3. CASE m = 0
  <2> DEFINE g == [P \in SUBSET {} |-> 0]
  <2>1. 1..0 = {} /\ DOMAIN g = {{}} /\ g[{}] = 0
    OBVIOUS
  <2>2. Spells(s, 1..0, g)
    BY <2>1 DEF Spells
  <2> QED
    BY <1>3, <2>2
<1>4. CASE m # 0
  <2>1. m \in Nat /\ m - 1 \in 0..n /\ m \in 1..n /\ m - 1 \in Nat
    BY <1>4
  <2>2. m - 1 \notin Bad
    BY <1>2, <2>1
  <2>3. PICK g : Spells(s, 1..(m - 1), g)
    BY <2>1, <2>2
  <2> DEFINE value(P) == IF P = {} THEN 0 ELSE 10 * g[P \ {Max(P)}] + s[Max(P)]
             h == [P \in SUBSET (1..m) |-> IF m \in P THEN 10 * g[P \ {m}] + s[m] ELSE g[P]]
             next(P) == IF P = {} THEN 0 ELSE 10 * h[P \ {Max(P)}] + s[Max(P)]
  <2>4. \A P \in SUBSET (1..(m - 1)) : g[P] = value(P)
    BY <2>3 DEF Spells
  <2>5. ASSUME NEW P \in SUBSET (1..m) PROVE h[P] = next(P)
    <3>1. CASE m \in P
      <4>1. Max(P) = m
        <5>1. Max(P) \in P /\ m <= Max(P)
          BY <2>1, <3>1, MaxFacts
        <5>2. Max(P) \in 1..m
          BY <5>1
        <5> QED
          BY <2>1, <5>1, <5>2
      <4>2. P \ {m} \in SUBSET (1..m) /\ m \notin P \ {m} /\ P # {}
        BY <3>1
      <4>3. h[P \ {m}] = g[P \ {m}]
        BY <4>2
      <4>4. h[P] = 10 * g[P \ {m}] + s[m]
        BY <3>1
      <4> QED
        BY <4>1, <4>2, <4>3, <4>4
    <3>2. CASE m \notin P
      <4>1. P \in SUBSET (1..(m - 1))
        BY <2>1, <3>2
      <4>2. h[P] = g[P] /\ g[P] = value(P)
        BY <2>4, <3>2, <4>1
      <4>3. CASE P = {}
        BY <4>2, <4>3
      <4>4. CASE P # {}
        <5>1. P \ {Max(P)} \in SUBSET (1..m) /\ m \notin P \ {Max(P)}
          BY <3>2
        <5>2. h[P \ {Max(P)}] = g[P \ {Max(P)}]
          BY <5>1
        <5> QED
          BY <4>2, <4>4, <5>2
      <4> QED
        BY <4>3, <4>4
    <3> QED
      BY <3>1, <3>2
  <2>6. h = [P \in SUBSET (1..m) |-> next(P)]
    <3>1. h = [P \in SUBSET (1..m) |-> h[P]]
      OBVIOUS
    <3> HIDE DEF h
    <3> QED
      BY <2>5, <3>1
  <2>7. Spells(s, 1..m, h)
    BY <2>6 DEF Spells
  <2> QED
    BY <2>7
<1> QED
  BY <1>3, <1>4

LEMMA NumberType == ASSUME NEW s \in Seq(Digit) PROVE Number(s) \in Nat
<1> DEFINE n == Len(s)
<1>1. n \in Nat /\ DOMAIN s = 1..n /\ \A k \in 1..n : s[k] \in Nat
  <2>1. \A d \in Digit : d \in Nat
    <3>1. Digit \subseteq 0..9
      BY ManifestAssumption, Zenon
    <3> QED
      BY <3>1
  <2>2. n \in Nat /\ DOMAIN s = 1..n
    BY SequenceDomain
  <2>3. \A k \in 1..n : s[k] \in Digit
    BY <2>2
  <2> QED
    BY <2>1, <2>2, <2>3
<1>2. PICK g : g = (CHOOSE h : Spells(s, 1..n, h))
  OBVIOUS
<1>3. Spells(s, 1..n, g) /\ Number(s) = g[1..n]
  <2>1. Spells(s, 1..n, g)
    BY <1>1, <1>2, SpellingExists
  <2>2. Number(s) = g[1..n]
    BY <1>1, <1>2, NumberSpelled
  <2> QED
    BY <2>1, <2>2
<1>4. \A P \in SUBSET (1..n) :
        g[P] = IF P = {} THEN 0 ELSE 10 * g[P \ {Max(P)}] + s[Max(P)]
  BY <1>3 DEF Spells
<1> HIDE DEF n
<1> DEFINE Bad == {k \in 0..n : \E P \in SUBSET (1..k) : g[P] \notin Nat}
<1>5. Bad = {}
  <2> SUFFICES ASSUME Bad # {} PROVE FALSE
    OBVIOUS
  <2>1. PICK m \in Bad : \A k \in Bad : m <= k
    <3>1. Bad \in SUBSET Nat
      BY <1>1
    <3> HIDE DEF Bad
    <3> QED
      BY <3>1, Least
  <2>2. PICK P \in SUBSET (1..m) : g[P] \notin Nat
    OBVIOUS
  <2>3. m \in Nat /\ P \in SUBSET (1..n)
    BY <1>1
  <2>4. P # {} /\ Max(P) \in P /\ \A k \in P : k <= Max(P)
    <3>1. P # {}
      <4>1. {} \in SUBSET (1..n) => g[{}] = 0
        BY <1>4
      <4>2. g[{}] = 0
        BY <4>1
      <4>3. ASSUME P = {} PROVE FALSE
        <5>1. g[P] = 0
          BY <4>2, <4>3, Zenon
        <5> QED
          BY <2>2, <5>1
      <4> QED
        BY <4>3
    <3> QED
      BY <2>3, <3>1, MaxFacts
  <2> DEFINE U == P \ {Max(P)}
  <2>5. m - 1 \in 0..n /\ U \in SUBSET (1..(m - 1))
    <3>1. \A k \in P : k \in 1..m
      BY <2>2
    <3>2. PICK x : x = Max(P)
      OBVIOUS
    <3>3. x \in 1..m /\ \A k \in P \ {x} : k \in 1..m /\ k <= x /\ k # x
      BY <2>4, <3>1, <3>2
    <3>4. \A k \in P \ {x} : k \in 1..(m - 1)
      BY <2>3, <3>3
    <3>5. m - 1 \in 0..n
      BY <1>1, <2>3, <3>3
    <3> QED
      BY <3>2, <3>4, <3>5
  <2>6. g[U] \in Nat
    <3>1. m - 1 \notin Bad
      BY <2>1, <2>3
    <3> QED
      BY <2>5, <3>1
  <2>7. g[P] = 10 * g[U] + s[Max(P)] /\ s[Max(P)] \in Nat
    BY <1>1, <1>4, <2>3, <2>4
  <2> HIDE DEF U
  <2>8. g[P] \in Nat
    BY <2>6, <2>7
  <2> QED
    BY <2>2, <2>8
<1>6. g[1..n] \in Nat
  <2>1. n \in 0..n
    BY <1>1
  <2>2. n \notin Bad
    <3> HIDE DEF Bad
    <3> QED
      BY <1>5
  <2> QED
    BY <2>1, <2>2
<1> QED
  BY <1>3, <1>6

(* The item taken is an item, and none is heavier; it weighs something. *)
LEMMA BestMatchFacts ==
  ASSUME NEW items \in Seq(ItemType), BestMatch(items) # 0
  PROVE  /\ BestMatch(items) \in DOMAIN items
         /\ SelectionWeight(items[BestMatch(items)]) # 0
         /\ \A j \in DOMAIN items :
              SelectionWeight(items[j]) <= SelectionWeight(items[BestMatch(items)])
<1> DEFINE Heaviest(i) == \A j \in DOMAIN items : SelectionWeight(items[j]) <= SelectionWeight(i)
           Indices == {i \in 1..Len(items) : Heaviest(items[i])}
           first == SelectInSeq(items, LAMBDA i :
                      \A j \in DOMAIN items : SelectionWeight(items[j]) <= SelectionWeight(i))
<1>1. DOMAIN items = 1..Len(items) /\ Len(items) \in Nat
  BY SequenceDomain
<1>2. Indices # {} => Min(Indices) \in Indices
  <2>1. Indices \in SUBSET Nat
    BY <1>1
  <2> HIDE DEF Indices
  <2> QED
    BY <2>1, Least DEF Min
<1>3. first = IF Indices # {} THEN Min(Indices) ELSE 0
  BY DEF SelectInSeq
<1>4. BestMatch(items) = first /\ first # 0 /\ SelectionWeight(items[first]) # 0
  <2>1. BestMatch(items) = IF first = 0 THEN 0
                           ELSE IF SelectionWeight(items[first]) = 0 THEN 0 ELSE first
    BY DEF BestMatch
  <2> HIDE DEF first
  <2> QED
    BY <2>1
<1> HIDE DEF first
<1>5. first \in Indices
  <2> HIDE DEF Indices
  <2> QED
    BY <1>2, <1>3, <1>4
<1>6. first \in DOMAIN items /\ Heaviest(items[first])
  BY <1>1, <1>5
<1> QED
  BY <1>4, <1>6

LEMMA MajorFacts ==
  /\ MajorRange \in Nat /\ System \in Nat /\ System < MajorRange
  /\ \A x \in Nat : x < MajorRange => x % MajorRange = x
<1>1. MajorRange \in Nat /\ MajorRange > 0
  BY DEF MajorRange
<1>2. System \in 0..(MajorRange - 1)
  BY ManifestAssumption, Zenon
<1>3. System \in Nat /\ System < MajorRange
  BY <1>1, <1>2
<1> HIDE DEF MajorRange
<1>4. \A x \in Nat : x < MajorRange => x % MajorRange = x
  BY <1>1
<1> QED
  BY <1>1, <1>3, <1>4

(* A weight is that of a rank and, below it, of a system. *)
LEMMA WeightFacts ==
  ASSUME NEW item \in ItemType
  PROVE  /\ Minimum(item) \in Nat
         /\ Suits(item) =>
              SelectionWeight(item)
                = IF item.os = "specific" THEN MajorRange * 2 + Minimum(item)
                                          ELSE MajorRange * 1 + Minimum(item)
         /\ SelectionWeight(item) # 0 => Suits(item)
<1>1. Minimum(item) \in Nat
  <2>1. "minimumSystemVersion" \in Field
    BY ManifestAssumption, Zenon
  <2>2. item.text["minimumSystemVersion"] \in Seq(Digit)
    BY <2>1 DEF ItemType
  <2> QED
    BY <2>2, NumberType DEF Minimum
<1>2. PICK m \in Nat : m = Minimum(item)
  BY <1>1
<1>3. item.os \in {"", "specific", "foreign"}
  BY DEF ItemType, OSLabel
<1>4. Rank(item) = IF item.os = "specific" THEN 2 ELSE IF item.os = "" THEN 1 ELSE 0
  BY <1>3 DEF Rank
<1>5. SelectionWeight(item) = IF Rank(item) = 0 \/ m > System THEN 0
                              ELSE MajorRange * Rank(item) + (m % MajorRange)
  BY <1>2 DEF SelectionWeight
<1>6. Suits(item) <=> item.os # "foreign" /\ m <= System
  BY <1>2 DEF Suits
<1>7. m <= System => m % MajorRange = m
  BY MajorFacts
<1>8. SelectionWeight(item) # 0 => Suits(item)
  <2>1. ASSUME SelectionWeight(item) # 0 PROVE Rank(item) # 0 /\ ~(m > System)
    BY <1>5, <2>1, Zenon
  <2>2. Rank(item) # 0 => item.os # "foreign"
    BY <1>4
  <2>3. ~(m > System) => m <= System
    BY MajorFacts
  <2> QED
    BY <1>6, <2>1, <2>2, <2>3, Zenon
<1>9. Suits(item) => SelectionWeight(item)
                = IF item.os = "specific" THEN MajorRange * 2 + m ELSE MajorRange * 1 + m
  <2> SUFFICES ASSUME Suits(item)
               PROVE  SelectionWeight(item)
                        = IF item.os = "specific" THEN MajorRange * 2 + m ELSE MajorRange * 1 + m
    OBVIOUS
  <2>1. item.os # "foreign" /\ m <= System /\ m % MajorRange = m
    BY <1>6, <1>7
  <2>2. ~(m > System)
    BY <2>1, MajorFacts
  <2>3. CASE item.os = "specific"
    <3>1. Rank(item) = 2 /\ Rank(item) # 0
      BY <1>4, <2>3
    <3>2. SelectionWeight(item) = MajorRange * 2 + (m % MajorRange)
      BY <1>5, <2>2, <3>1, Zenon
    <3> QED
      BY <2>1, <2>3, <3>2, Zenon
  <2>4. CASE item.os = ""
    <3>1. Rank(item) = 1 /\ Rank(item) # 0
      <4>1. item.os # "specific"
        BY <2>4
      <4>2. Rank(item) = 1
        BY <1>4, <2>4, <4>1, Zenon
      <4> QED
        BY <4>2
    <3>2. SelectionWeight(item) = MajorRange * 1 + (m % MajorRange)
      BY <1>5, <2>2, <3>1, Zenon
    <3>3. item.os # "specific"
      BY <2>4
    <3> QED
      BY <2>1, <3>2, <3>3, Zenon
  <2> QED
    BY <1>3, <2>1, <2>3, <2>4
<1> QED
  BY <1>1, <1>2, <1>8, <1>9

(* Nothing but Load takes an item. *)
LEMMA ChosenByLoad == ASSUME [Next]_vars, chosen' # chosen PROVE LoadReturns
<1>1. ~(Begin \/ ResolveFeed \/ AskCancelled \/ CheckKeys \/ CompareVersions \/ Stop)
  BY DEF Begin, ResolveFeed, AskCancelled, CheckKeys, CompareVersions, Stop, result
<1>2. ~(GetLatest \/ LatestRefused \/ LatestComes \/ GetManifest \/ ManifestRefused
        \/ ManifestComes \/ GetNotes \/ NotesRefused \/ NotesCome)
  BY DEF GetLatest, LatestRefused, LatestComes, GetManifest, ManifestRefused,
     ManifestComes, GetNotes, NotesRefused, NotesCome, Get, Refused, Completed, result
<1>3. ~(Finish \/ Cancel \/ Quit \/ Parse \/ LoadThrows \/ UNCHANGED vars)
  BY DEF Finish, Cancel, Quit, Parse, LoadThrows, vars, checker, result
<1>4. ~(AskWhether \/ AskLast \/ Looks \/ \E a \in Poller : Stores(a))
  BY DEF AskWhether, AskLast, Ask, Looks, Stores, result
<1> QED
  BY <1>1, <1>2, <1>3, <1>4 DEF Next, Poller

LEMMA ChosenIsBest ==
  ASSUME LoadReturns, chosen' # chosen
  PROVE  BestMatch(ctx.items) # 0 /\ chosen' = ctx.items[BestMatch(ctx.items)]
BY DEF LoadReturns

(* The item taken was loaded, fits the host, and no loaded item fits better: *)
(* first made for this build, then for the newest system; for every number   *)
(* of items, every host, and every number a text may spell.                  *)
(* AutoManifest.cpp:183-205, 283-368.                                        *)
THEOREM ChosenIsSuitable == Spec => ChosenSuits
<1> DEFINE Suited == chosen' # chosen =>
             /\ \E i \in DOMAIN ctx.items : chosen' = ctx.items[i]
             /\ Suits(chosen')
             /\ \A i \in DOMAIN ctx.items :
                  Suits(ctx.items[i]) => ~Better(ctx.items[i], chosen')
<1>1. ASSUME ParserInv, [Next]_vars, chosen' # chosen PROVE Suited
  <2>1. ctx.items \in Seq(ItemType)
    BY <1>1 DEF ParserInv, ParserTyped, ContextType
  <2>2. PICK best : best = BestMatch(ctx.items)
    OBVIOUS
  <2>3. best # 0 /\ chosen' = ctx.items[best]
    BY <1>1, <2>2, ChosenByLoad, ChosenIsBest
  <2>4. /\ best \in DOMAIN ctx.items /\ SelectionWeight(ctx.items[best]) # 0
        /\ \A j \in DOMAIN ctx.items :
             SelectionWeight(ctx.items[j]) <= SelectionWeight(ctx.items[best])
    BY <2>1, <2>2, <2>3, BestMatchFacts
  <2>5. \A j \in DOMAIN ctx.items : ctx.items[j] \in ItemType
    BY <2>1
  <2>6. PICK b \in ItemType : b = ctx.items[best]
    BY <2>4, <2>5
  <2>7. Suits(b)
    BY <2>4, <2>6, WeightFacts
  <2>8. ASSUME NEW i \in DOMAIN ctx.items, Suits(ctx.items[i])
        PROVE  ~Better(ctx.items[i], b)
    <3>1. PICK a \in ItemType : a = ctx.items[i]
      BY <2>5
    <3>2. SelectionWeight(a) <= SelectionWeight(b) /\ Suits(a)
      BY <2>4, <2>6, <2>8, <3>1
    <3>3. PICK m, n \in Nat : m = Minimum(a) /\ n = Minimum(b)
      BY WeightFacts
    <3>4. /\ SelectionWeight(a) = IF a.os = "specific" THEN MajorRange * 2 + m
                                                       ELSE MajorRange * 1 + m
          /\ SelectionWeight(b) = IF b.os = "specific" THEN MajorRange * 2 + n
                                                       ELSE MajorRange * 1 + n
      BY <2>7, <3>2, <3>3, WeightFacts
    <3>5. a.os # "foreign" /\ b.os # "foreign" /\ m <= System /\ n <= System
      BY <2>7, <3>2, <3>3 DEF Suits
    <3>6. a.os \in {"", "specific", "foreign"} /\ b.os \in {"", "specific", "foreign"}
      BY DEF ItemType, OSLabel
    <3>7. CASE a.os = b.os
      <4>1. m <= n
        BY <3>2, <3>4, <3>7, MajorFacts
      <4> QED
        BY <3>1, <3>3, <3>7, <4>1 DEF Better
    <3>8. CASE a.os # b.os
      <4>1. ASSUME a.os = "specific" PROVE FALSE
        BY <3>2, <3>4, <3>5, <3>8, <4>1, MajorFacts
      <4> QED
        BY <3>1, <3>8, <4>1 DEF Better
    <3> QED
      BY <3>7, <3>8
  <2> QED
    BY <2>3, <2>4, <2>6, <2>7, <2>8
<1>2. ParserInv /\ [Next]_vars => [Suited]_vars
  BY <1>1 DEF vars, checker, result
<1> QED
  BY <1>2, ParserAlways, PTL DEF Spec, ChosenSuits

(* The rest of the types: whose the indicator is, the item taken, and what   *)
(* Transfer keeps. *)
RestTyped ==
  console \in Consoles /\ chosen \in ItemType /\ job \in [1..3 -> T!JobState] /\ quitting \in BOOLEAN

LEMMA InitRest == Init => RestTyped
<1> SUFFICES ASSUME Init PROVE RestTyped
  OBVIOUS
<1>1. NoItem \in ItemType
  <2>1. EmptyItem \in ItemType /\ "foreign" \in OSLabel
    BY EmptyItemType DEF OSLabel
  <2> QED
    BY <2>1 DEF NoItem, ItemType
<1>2. chosen = NoItem /\ job = [j \in 1..3 |-> "new"] /\ quitting = FALSE
  BY DEF Init, T!Init
<1>3. job \in [1..3 -> T!JobState]
  BY <1>2 DEF T!JobState
<1>4. console \in Consoles
  BY DEF Init
<1> QED
  BY <1>1, <1>2, <1>3, <1>4 DEF RestTyped

(* A job moves one state at a time, and quitting is for good. *)
LEMMA JobsMove ==
  ASSUME [Next]_vars
  PROVE  /\ job' = job \/ \E j, s : s \in T!JobState /\ job' = [job EXCEPT ![j] = s]
         /\ quitting' \in {quitting, TRUE}
<1>1. CASE UNCHANGED vars
  BY <1>1 DEF vars
<1>2. CASE Parse \/ LoadThrows \/ LoadReturns
  BY <1>2 DEF Parse, LoadThrows, LoadReturns, ParserDone
<1>3. CASE Begin \/ ResolveFeed \/ AskCancelled \/ CheckKeys \/ CompareVersions \/ Stop \/ Cancel
  BY <1>3 DEF Begin, ResolveFeed, AskCancelled, CheckKeys, CompareVersions, Stop, Cancel, Alone
<1>4. CASE GetLatest \/ GetManifest \/ GetNotes
  <2>1. T!Begin(downloads + 1)
    BY <1>4 DEF GetLatest, GetManifest, GetNotes, Get
  <2> QED
    BY <2>1 DEF T!Begin, T!JobState
<1>5. CASE LatestRefused \/ ManifestRefused \/ NotesRefused
  <2>1. T!Refuse(downloads + 1)
    BY <1>5 DEF LatestRefused, ManifestRefused, NotesRefused, Refused
  <2> QED
    BY <2>1 DEF T!Refuse, T!JobState
<1>6. CASE LatestComes \/ ManifestComes \/ NotesCome
  <2>1. T!Settle(downloads)
    BY <1>6 DEF LatestComes, ManifestComes, NotesCome, Completed
  <2> QED
    BY <2>1 DEF T!Settle
<1>7. CASE Finish
  <2>1. PICK j \in 1..3 : T!Finish(j)
    BY <1>7 DEF Finish
  <2> QED
    BY <2>1 DEF T!Finish, T!JobState
<1>8. CASE Quit
  BY <1>8 DEF Quit, T!Quit
<1>9. CASE AskWhether \/ AskLast \/ Looks \/ \E a \in Poller : Stores(a)
  BY <1>9 DEF AskWhether, AskLast, Ask, Looks, Stores, Alone
<1> QED
  BY <1>1, <1>2, <1>3, <1>4, <1>5, <1>6, <1>7, <1>8, <1>9 DEF Next, Poller

LEMMA NextRest == ParserInv /\ RestTyped /\ [Next]_vars => RestTyped'
<1> SUFFICES ASSUME ParserInv, RestTyped, [Next]_vars PROVE RestTyped'
  OBVIOUS
<1>1. quitting' \in BOOLEAN
  BY JobsMove DEF RestTyped
<1>2. job' \in [1..3 -> T!JobState]
  <2>1. \A j, s : s \in T!JobState => [job EXCEPT ![j] = s] \in [1..3 -> T!JobState]
    BY DEF RestTyped
  <2> QED
    BY <2>1, JobsMove DEF RestTyped
<1>3. chosen' \in ItemType
  <2>1. CASE chosen' = chosen
    BY <2>1 DEF RestTyped
  <2>2. CASE chosen' # chosen
    <3>1. ctx.items \in Seq(ItemType)
      BY DEF ParserInv, ParserTyped, ContextType
    <3>2. PICK best : best = BestMatch(ctx.items)
      OBVIOUS
    <3>3. best # 0 /\ chosen' = ctx.items[best]
      BY <2>2, <3>2, ChosenByLoad, ChosenIsBest
    <3>4. best \in DOMAIN ctx.items
      BY <3>1, <3>2, <3>3, BestMatchFacts
    <3> QED
      BY <3>1, <3>3, <3>4
  <2> QED
    BY <2>1, <2>2
<1>4. console' \in Consoles
  BY ConsoleStays DEF RestTyped
<1> QED
  BY <1>1, <1>2, <1>3, <1>4 DEF RestTyped

LEMMA RestAlways == Spec => []RestTyped
BY InitRest, NextRest, ParserAlways, PTL DEF Spec

(* Every variable stays in its domain: of the parser, that there are no more *)
(* open elements and no deeper levels than there were events, and an origin  *)
(* for every item, whatever the document. *)
THEOREM TypeCorrect == Spec => []TypeOK
<1>1. ParserInv /\ Inv /\ RestTyped => TypeOK
  <2> SUFFICES ASSUME ParserInv, Inv, RestTyped PROVE TypeOK
    OBVIOUS
  <2>1. /\ required \in ChannelName /\ events \in 0..Events /\ nested \in BOOLEAN
        /\ ctx \in ContextType /\ Len(document) >= 1 /\ Len(origin) = Len(ctx.items)
        /\ Leveled0(ctx, nested) /\ document \in Seq(ElementType)
    BY DEF ParserInv, ParserTyped
  <2>2. Len(document) > 0
    <3>1. Len(document) \in Nat
      BY <2>1, SequenceDomain
    <3> QED
      BY <2>1, <3>1
  <2>3. /\ ctx.status \in {"none", "omitted", "active", "inactive"}
        /\ ctx.name \in ChannelName /\ ctx.inItem \in BOOLEAN /\ ctx.inTags \in BOOLEAN
        /\ ctx.outcome \in {"parsing", "end", "complete", "error"}
    BY <2>1 DEF ContextType, Status, Outcome
  <2>4. nested \/ ctx.level \in [Leveled -> 0..Events]
    BY <2>1 DEF Leveled0
  <2>5. console \in Consoles /\ chosen.os \in OSLabel /\ chosen.build \in ChannelName
        /\ job \in [1..3 -> T!JobState] /\ quitting \in BOOLEAN
    BY DEF RestTyped, ItemType
  <2>6. /\ pc \in Pc /\ downloads \in 0..3
        /\ I!TypeOK
        /\ {current, offer} \subseteq Versions \cup {<<>>}
        /\ lastError \in BOOLEAN /\ ret \in -2..1
        /\ answer \in [1..3 -> T!Answer]
        /\ pressed \in BOOLEAN /\ inTime \in BOOLEAN /\ raced \in BOOLEAN /\ silent \in BOOLEAN
    BY DEF Inv, Flow, Typed
  <2> QED
    BY ONLY <2>1, <2>2, <2>3, <2>4, <2>5, <2>6, Zenon DEF TypeOK
<1> QED
  BY <1>1, ParserAlways, InvAlways, RestAlways, PTL

(* An offer is compared with a version of the application. *)
Read == offer # <<>> => current \in Versions /\ offer \in Versions

LEMMA NextRead == Read /\ [Next]_vars => Read'
<1> SUFFICES ASSUME Read, [Next]_vars PROVE Read'
  OBVIOUS
<1>1. CASE CompareVersions
  BY <1>1 DEF CompareVersions, Read
<1>2. CASE UNCHANGED <<current, offer>>
  BY <1>2 DEF Read
<1>3. CASE Begin \/ ResolveFeed \/ AskCancelled \/ CheckKeys \/ LoadThrows \/ LoadReturns \/ Stop
  BY <1>2, <1>3 DEF Begin, ResolveFeed, AskCancelled, CheckKeys, LoadThrows, LoadReturns, Stop,
     result
<1>4. CASE GetLatest \/ LatestRefused \/ LatestComes \/ GetManifest \/ ManifestRefused
           \/ ManifestComes \/ GetNotes \/ NotesRefused \/ NotesCome
  BY <1>2, <1>4 DEF GetLatest, LatestRefused, LatestComes, GetManifest, ManifestRefused,
     ManifestComes, GetNotes, NotesRefused, NotesCome, Get, Refused, Completed, result
<1>5. CASE Parse \/ Finish \/ Cancel \/ Quit \/ UNCHANGED vars
  BY <1>2, <1>5 DEF Parse, Finish, Cancel, Quit, vars, checker, result
<1>6. CASE AskWhether \/ AskLast \/ Looks \/ \E a \in Poller : Stores(a)
  BY <1>2, <1>6 DEF AskWhether, AskLast, Ask, Looks, Stores, result
<1> QED
  BY <1>1, <1>3, <1>4, <1>5, <1>6 DEF Next, Poller

(* What is offered to one version is never offered back, and no chain of     *)
(* updates leads down, for all sets of versions in which no sign stands      *)
(* between a character and a number.  AutoVersion.cpp:85-130,                *)
(* AutoUpdater.cpp:648.                                                      *)
THEOREM VersionsAreOrdered ==
  ASSUME \A v \in Versions : UnsignedVersion(Parsed(v))
  PROVE  Spec => []VersionOrder
<1>1. Init => Read
  BY DEF Init, Read
<1>2. Inv /\ Read => VersionOrder
  <2> SUFFICES ASSUME Inv, Read, pc = "ended", offer # <<>>
               PROVE  /\ Compare(current, offer) = -Compare(offer, current)
                      /\ ret = 1 => \A v \in Versions :
                                      Compare(offer, v) <= 0 => Compare(current, v) < 0
    BY DEF VersionOrder
  <2>1. current \in Versions /\ offer \in Versions
    BY DEF Read
  <2>2. \A v \in Versions : v \in Component
    BY AvailabilityAssumption DEF Component
  <2>3. Compare(current, offer) = -Compare(offer, current)
    BY <2>1, <2>2, CompareIsAntisymmetric
  <2>4. ASSUME ret = 1 PROVE Compare(current, offer) < 0
    <3>1. ~(ret < 0) /\ ret >= 0
      BY <2>4
    <3> QED
      BY <2>4, <3>1 DEF Inv, Flow, Decided, Over
  <2>5. ASSUME ret = 1, NEW v \in Versions, Compare(offer, v) <= 0
        PROVE  Compare(current, v) < 0
    <3>1. \A text \in {current, offer, v} : UnsignedVersion(Parsed(text))
      BY <2>1
    <3> QED
      BY <2>1, <2>2, <2>4, <2>5, <3>1, CompareIsTransitive
  <2> QED
    BY <2>3, <2>5
<1> QED
  BY <1>1, <1>2, NextRead, InvAlways, PTL DEF Spec
=============================================================================

-------------------------- MODULE InstallFlowProofs --------------------------
(***************************************************************************)
(* What InstallFlow guarantees for every number of attempts: of what is     *)
(* started, of what the user cancelled, and of what Execute leaves behind.  *)
(***************************************************************************)
EXTENDS InstallFlow, TLAPS

(* Where InstallNow is: anywhere; after the temporary file has its name; and *)
(* after the download was a success. *)
Installing == {"target", "start", "get", "wait", "ask", "answer", "stop", "verify.start",
               "verify", "verify.stop", "create"}
Named      == Installing \ {"target"}
Downloaded == {"verify.start", "verify", "verify.stop", "create"}
After      == {"done", "report", "clean", "ended"}
Asking     == {"get", "wait", "ask"}

(* What was tried so far.  An attempt that goes on has no outcome yet. *)
Attempted ==
  /\ pc \in Installing => attempt \in Attempt /\ attempt \notin failed
  /\ \A a \in Attempt : a > attempt =>
       dir[a] = "none" /\ ~pressed[a] /\ a \notin launched /\ a \notin failed
  /\ launched # {} => pc \in After
  /\ tempfile <= attempt

(* The temporary file is that of the last attempt that made one, until it is *)
(* started.  Execute is about to end when a directory cannot be removed. *)
Kept ==
  /\ pc \in Named => tempfile = attempt /\ dir[attempt] = "made"
  /\ tempfile \notin launched
  /\ \A a \in Attempt :
       dir[a] = "made" /\ (\A b \in Attempt : b > a => dir[b] = "none") /\ pc # "ended"
         => a = tempfile \/ a \in launched
  /\ \A a \in Attempt : dir[a] = "open" => threw /\ pc \in {"clean", "ended"}

(* A job runs under the eyes of InstallNow, or the application quits. *)
Watched ==
  /\ \A a \in Attempt : job[a] = "running" =>
       \/ answer[a] = "none" /\ pc = "wait" /\ a = attempt
       \/ answer[a] = "no" /\ quitting
  /\ pc \in {"ask", "answer", "stop"} /\ getfile => job[attempt] = "done"
  /\ pc \in Downloaded => job[attempt] = "done"
  /\ pc = "create" => Passes(image[attempt], host.trust)

Hidden == pc \in {"menu", "target", "start", "verify.start", "verify.stop", "create", "ended"}
            => ~progress.up

(* There is something to poll only while the console's indicator is shown,   *)
(* and while polls do not overlap one thread polls, for what is not known. *)
Polled ==
  /\ host.interface # "console" => ~key
  /\ ~progress.up => progress = I!Down
  /\ \A a \in Poller : poll[a] # "none" => progress.up /\ host.interface = "console"
  /\ progress.up => attempt \in Attempt
  /\ progress.up /\ ~raced[attempt] =>
       \A a \in Poller : poll[a] # "none" =>
         ~progress.cancelled /\ \A b \in Poller : b # a => poll[b] = "none"

(* A cancel is known, or found, or can be found, until InstallNow has asked. *)
Found(a) == progress.cancelled \/ poll[a] = "yes"

Noticed ==
  LET Certain == pressed[attempt] /\ ~raced[attempt]
  IN /\ pc \in Asking /\ Certain => progress.up /\ (key \/ \E a \in Poller : Found(a))
     /\ pc = "answer" /\ Certain => Found("client")
     /\ pc = "stop" /\ Certain => wasCancelled
     /\ pc \in {"target", "start"} \cup Downloaded => ~Certain

Reported ==
  /\ lastError => failed # {}
  /\ pc = "report" /\ launched # {} => ret = 2
  /\ pc = "clean" /\ launched # {} => ret = 2 \/ failed # {} \/ threw

(* The inductive invariant. *)
Inv ==
  /\ TypeOK
  /\ Attempted /\ Kept /\ Watched /\ Hidden /\ Polled /\ Noticed /\ Reported
  /\ LaunchedIsVerified /\ CancelIsFinal /\ TempIsSettled /\ LaunchIsReported
-----------------------------------------------------------------------------
(* A step is one of these. *)
LEMMA WhichStep ==
  ASSUME [Next]_vars
  PROVE  \/ Press
         \/ GetTargetName
         \/ NoTargetName \/ VerifyThrows \/ LaunchThrows
         \/ VerifyThrowsOpen
         \/ ShowDownload \/ ShowVerify
         \/ Get
         \/ Completion
         \/ Ask
         \/ (\E a \in Poller : Stores(a))
         \/ ProgressCancelled
         \/ StopDownload
         \/ Verified \/ NotVerified
         \/ VerificationFailure
         \/ Launch
         \/ SetOnce
         \/ LeaveMenu \/ Report
         \/ CleanTemp
         \/ (\E a \in Attempt : Append(a))
         \/ (\E a \in Poller : Looks(a))
         \/ (\E a \in Attempt : Finish(a))
         \/ Cancel
         \/ Quit \/ UNCHANGED vars
BY DEF Next, InstallNow, Execute, Worker, Bar, WorkerLooks, Poller

(* What a step may do to the indicator, and that it keeps its types. *)
LEMMA IndicatorType ==
  ASSUME I!TypeOK,
         \/ I!Start \/ I!Ask("client") \/ I!Stop \/ I!Button \/ I!Escape \/ UNCHANGED indicator
         \/ \E a \in Poller : I!Look(a) \/ I!Store(a)
  PROVE  I!TypeOK'
<1>1. CASE I!Start
  <2>1. CASE progress.up
    BY <1>1, <2>1 DEF I!Start, I!TypeOK
  <2>2. CASE ~progress.up
    <3>1. PICK up \in BOOLEAN : progress' = [up |-> up, cancelled |-> FALSE]
      BY <1>1, <2>2 DEF I!Start
    <3> QED
      BY <1>1, <3>1 DEF I!Start, I!TypeOK
  <2> QED
    BY <2>1, <2>2
<1>2. CASE \E a \in Poller : I!Look(a)
  BY <1>2 DEF I!Look, I!TypeOK
<1>3. CASE \E a \in Poller : I!Store(a)
  BY <1>3 DEF I!Store, I!TypeOK
<1>4. CASE I!Ask("client")
  BY <1>4 DEF I!Ask, I!Look, I!TypeOK
<1>5. CASE I!Stop
  <2>1. key' \in BOOLEAN
    BY <1>5 DEF I!Stop
  <2>2. poll' \in [Poller -> {"none", "no", "yes"}]
    BY <1>5 DEF I!Stop, I!Forget, I!Quiet
  <2> QED
    BY <1>5, <2>1, <2>2 DEF I!Stop, I!Forget, I!Down, I!TypeOK
<1>6. CASE I!Button \/ I!Escape \/ UNCHANGED indicator
  BY <1>6 DEF I!Button, I!Escape, indicator, I!TypeOK
<1> QED
  BY <1>1, <1>2, <1>3, <1>4, <1>5, <1>6

LEMMA FalseType ==
  ASSUME NEW error \in BOOLEAN, ReturnFalse(error), lastError \in BOOLEAN,
         failed \subseteq Attempt, attempt \in Attempt
  PROVE  /\ lastError' \in BOOLEAN
         /\ failed' \subseteq Attempt
         /\ error => lastError' /\ failed' = failed \cup {attempt}
         /\ ~error => lastError' = lastError /\ failed' = failed
         /\ pc' \in {"menu", "report"}
<1>1. CASE error
  BY <1>1 DEF ReturnFalse
<1>2. CASE ~error
  BY <1>2 DEF ReturnFalse
<1> QED
  BY <1>1, <1>2

(* Every step keeps the types. *)
LEMMA StepType ==
  ASSUME Inv, [Next]_vars
  PROVE  TypeOK'
<1> USE InstallAssumption
<1> USE DEF Inv
<1>0. 0..Attempts = Attempt \cup {None}
  BY DEF Attempt, None
<1>1. CASE Press
  <2>1. I!TypeOK'
    BY <1>1, IndicatorType DEF TypeOK, Press, indicator
  <2> QED
    BY <1>1, <2>1 DEF TypeOK, Press, Alone, history, Pc, Attempt, None, T!JobState, T!Answer
<1>2. CASE GetTargetName
  <2>1. I!TypeOK'
    BY <1>2, IndicatorType DEF TypeOK, GetTargetName, indicator
  <2>2. dir' \in [Attempt -> Dir]
    BY <1>2 DEF TypeOK, GetTargetName, Dir
  <2>3. tempfile' \in Attempt \cup {None}
    BY <1>0, <1>2 DEF TypeOK, GetTargetName
  <2> QED
    BY <1>2, <2>1, <2>2, <2>3 DEF TypeOK, GetTargetName, Alone, history, Pc
<1>3. CASE NoTargetName \/ VerifyThrows \/ LaunchThrows
  <2>1. I!TypeOK'
    BY <1>3, IndicatorType DEF TypeOK, NoTargetName, VerifyThrows, LaunchThrows, indicator
  <2> QED
    BY <1>3, <2>1 DEF TypeOK, NoTargetName, VerifyThrows, LaunchThrows, Alone, Throw, Pc, Attempt,
       None, T!JobState, T!Answer
<1>4. CASE VerifyThrowsOpen
  <2>1. I!TypeOK'
    BY <1>4, IndicatorType DEF TypeOK, VerifyThrowsOpen, indicator
  <2>2. dir' \in [Attempt -> Dir]
    BY <1>4 DEF TypeOK, VerifyThrowsOpen, Dir
  <2> QED
    BY <1>4, <2>1, <2>2 DEF TypeOK, VerifyThrowsOpen, Alone, Throw, Pc
<1>5. CASE ShowDownload \/ ShowVerify
  <2>1. I!TypeOK'
    BY <1>5, IndicatorType DEF TypeOK, ShowDownload, ShowVerify
  <2> QED
    BY <1>5, <2>1 DEF TypeOK, ShowDownload, ShowVerify, Alone, history, Pc
<1>6. CASE Get
  <2>1. I!TypeOK'
    BY <1>6, IndicatorType DEF TypeOK, Get, indicator
  <2>2. job' \in [Attempt -> T!JobState] /\ answer' \in [Attempt -> T!Answer]
        /\ quitting' \in BOOLEAN
    BY <1>6 DEF TypeOK, Get, T!Begin, T!Refuse, T!JobState, T!Answer
  <2>3. pc' \in Pc
    BY <1>6 DEF Get, Pc
  <2> QED
    BY <1>6, <2>1, <2>2, <2>3 DEF TypeOK, Get, history
<1>7. CASE Completion
  <2>1. I!TypeOK'
    BY <1>7, IndicatorType DEF TypeOK, Completion, indicator
  <2> QED
    BY <1>7, <2>1 DEF TypeOK, Completion, T!Settle, T!Turn, history, Pc, Attempt, None, T!JobState,
       T!Answer
<1>8. CASE Ask
  <2>1. I!TypeOK'
    BY <1>8, IndicatorType DEF TypeOK, Ask
  <2>2. raced' \in [Attempt -> BOOLEAN]
    BY <1>8 DEF TypeOK, Ask, Overlapped, I!Overlaps
  <2> QED
    BY <1>8, <2>1, <2>2 DEF TypeOK, Ask, Alone, Pc
<1>9. CASE \E a \in Poller : Stores(a)
  <2>1. I!TypeOK'
    BY <1>9, IndicatorType DEF TypeOK, Stores
  <2> QED
    BY <1>9, <2>1 DEF TypeOK, Stores, Alone, history
<1>10. CASE ProgressCancelled
  <2>1. I!TypeOK'
    BY <1>10, IndicatorType DEF TypeOK, ProgressCancelled, indicator
  <2>2. progress.cancelled \in BOOLEAN
    BY DEF TypeOK, I!TypeOK
  <2> QED
    BY <1>10, <2>1, <2>2 DEF TypeOK, ProgressCancelled, Alone, history, Pc
<1>11. CASE StopDownload
  <2>1. I!TypeOK'
    BY <1>11, IndicatorType DEF TypeOK, StopDownload
  <2>2. lastError' \in BOOLEAN /\ failed' \subseteq Attempt /\ pc' \in Pc
    <3>1. CASE getfile /\ ~wasCancelled
      BY <1>11, <3>1 DEF TypeOK, StopDownload, Pc
    <3>2. CASE ~(getfile /\ ~wasCancelled)
      <4>1. ReturnFalse(~getfile /\ ~wasCancelled)
        BY <1>11, <3>2 DEF StopDownload
      <4>2. attempt \in Attempt /\ (~getfile /\ ~wasCancelled) \in BOOLEAN
        BY <1>11 DEF StopDownload, Attempted, Installing
      <4> QED
        BY <4>1, <4>2, FalseType DEF TypeOK, Pc
    <3> QED
      BY <3>1, <3>2
  <2> QED
    BY <1>11, <2>1, <2>2 DEF TypeOK, StopDownload, Alone
<1>12. CASE Verified \/ NotVerified
  <2>1. I!TypeOK'
    BY <1>12, IndicatorType DEF TypeOK, Verified, NotVerified
  <2> QED
    BY <1>12, <2>1 DEF TypeOK, Verified, NotVerified, Alone, Verify, history, Pc, Attempt, None,
       T!JobState, T!Answer
<1>13. CASE VerificationFailure
  <2>1. I!TypeOK'
    BY <1>13, IndicatorType DEF TypeOK, VerificationFailure, indicator
  <2>2. lastError' \in BOOLEAN /\ failed' \subseteq Attempt /\ pc' \in Pc
    <3>1. attempt \in Attempt /\ ReturnFalse(TRUE)
      BY <1>13 DEF VerificationFailure, Attempted, Installing
    <3> QED
      BY <3>1, FalseType DEF TypeOK, Pc
  <2> QED
    BY <1>13, <2>1, <2>2 DEF TypeOK, VerificationFailure, Alone
<1>14. CASE Launch
  <2>1. I!TypeOK'
    BY <1>14, IndicatorType DEF TypeOK, Launch, indicator
  <2>2. launched' \subseteq Attempt
    BY <1>14 DEF TypeOK, Launch, Attempted, Installing
  <2> QED
    BY <1>14, <2>1, <2>2 DEF TypeOK, Launch, Alone, Pc, None
<1>15. CASE SetOnce
  <2>1. I!TypeOK'
    BY <1>15, IndicatorType DEF TypeOK, SetOnce, indicator
  <2> QED
    BY <1>15, <2>1 DEF TypeOK, SetOnce, Alone, Throw, Pc, Attempt, None, T!JobState, T!Answer
<1>16. CASE LeaveMenu \/ Report
  <2>1. I!TypeOK'
    BY <1>16, IndicatorType DEF TypeOK, LeaveMenu, Report, indicator
  <2> QED
    BY <1>16, <2>1 DEF TypeOK, LeaveMenu, Report, Alone, history, Pc, Attempt, None, T!JobState,
       T!Answer
<1>17. CASE CleanTemp
  <2>1. I!TypeOK'
    BY <1>17, IndicatorType DEF TypeOK, CleanTemp
  <2>2. dir' \in [Attempt -> Dir]
    BY <1>17 DEF TypeOK, CleanTemp, Dir
  <2>3. image' \in [Attempt -> Image]
    BY <1>17 DEF TypeOK, CleanTemp, Image
  <2> QED
    BY <1>17, <2>1, <2>2, <2>3 DEF TypeOK, CleanTemp, history, Pc, None
<1>18. CASE \E a \in Attempt : Append(a)
  <2>1. I!TypeOK'
    BY <1>18, IndicatorType DEF TypeOK, Append, flow, indicator
  <2> QED
    BY <1>18, <2>1 DEF TypeOK, Append, flow, history, Image, T!JobState
<1>19. CASE \E a \in Poller : Looks(a)
  <2>1. I!TypeOK'
    BY <1>19, IndicatorType DEF TypeOK, Looks
  <2>2. raced' \in [Attempt -> BOOLEAN]
    BY <1>19 DEF TypeOK, Looks, Overlapped, I!Overlaps
  <2> QED
    BY <1>19, <2>1, <2>2 DEF TypeOK, Looks, Alone
<1>20. CASE \E a \in Attempt : Finish(a)
  <2>1. I!TypeOK'
    BY <1>20, IndicatorType DEF TypeOK, Finish, flow, indicator
  <2> QED
    BY <1>20, <2>1 DEF TypeOK, Finish, T!Finish, flow, history, Image, T!JobState
<1>21. CASE Cancel
  <2>1. I!TypeOK'
    BY <1>21, IndicatorType DEF TypeOK, Cancel
  <2>2. pressed' \in [Attempt -> BOOLEAN]
    BY <1>21 DEF TypeOK, Cancel, InTime
  <2> QED
    BY <1>21, <2>1, <2>2 DEF TypeOK, Cancel, Alone
<1>22. CASE Quit \/ UNCHANGED vars
  <2>1. I!TypeOK'
    BY <1>22, IndicatorType DEF TypeOK, Quit, vars, flow, indicator
  <2> QED
    BY <1>22, <2>1 DEF TypeOK, Quit, T!Quit, vars, flow, history, T!JobState
  <1> QED   BY <1>1, <1>2, <1>3, <1>4, <1>5, <1>6, <1>7, <1>8, <1>9, <1>10, <1>11, <1>12,
     <1>13, <1>14, <1>15, <1>16, <1>17, <1>18, <1>19, <1>20, <1>21, <1>22, WhichStep

(* Every step keeps what is known of the attempts that have an outcome. *)
LEMMA StepAttempted ==
  ASSUME Inv, TypeOK', [Next]_vars
  PROVE  Attempted'
<1> USE InstallAssumption DEF Inv
<1>1. CASE Press
  BY <1>1 DEF TypeOK, Attempted, Installing, After, Press, Alone, history, Attempt, None
<1>2. CASE GetTargetName
  BY <1>2 DEF TypeOK, Attempted, Installing, After, GetTargetName, Alone, history,
     Attempt, None
<1>3. CASE NoTargetName \/ VerifyThrows \/ LaunchThrows
  BY <1>3 DEF TypeOK, Attempted, Installing, After, NoTargetName, VerifyThrows,
     LaunchThrows, Alone, Throw, Attempt, None
<1>4. CASE VerifyThrowsOpen
  BY <1>4 DEF TypeOK, Attempted, Installing, After, VerifyThrowsOpen, Alone, Throw,
     Attempt, None
<1>5. CASE ShowDownload \/ ShowVerify
  BY <1>5 DEF TypeOK, Attempted, Installing, After, ShowDownload, ShowVerify, Alone,
     history, Attempt, None
<1>6. CASE Get
  BY <1>6 DEF TypeOK, Attempted, Installing, After, Get, T!Begin, T!Refuse, T!Turn,
     history, Attempt, None
<1>7. CASE Completion
  BY <1>7 DEF TypeOK, Attempted, Installing, After, Completion, T!Settle, T!Turn, history,
     Attempt, None
<1>8. CASE Ask
  BY <1>8 DEF TypeOK, Attempted, Installing, After, Ask, Alone, Attempt, None
<1>9. CASE \E a \in Poller : Stores(a)
  BY <1>9 DEF TypeOK, Attempted, Installing, After, Stores, Alone, history, Poller,
     Attempt, None
<1>10. CASE ProgressCancelled
  BY <1>10 DEF TypeOK, Attempted, Installing, After, ProgressCancelled, Alone, history,
     Attempt, None
<1>11. CASE StopDownload
  BY <1>11 DEF TypeOK, Attempted, Installing, After, StopDownload, Alone, ReturnFalse,
     Attempt, None
<1>12. CASE Verified \/ NotVerified
  BY <1>12 DEF TypeOK, Attempted, Installing, After, Verified, NotVerified, Alone, Verify,
     history, Attempt, None
<1>13. CASE VerificationFailure
  BY <1>13 DEF TypeOK, Attempted, Installing, After, VerificationFailure, Alone,
     ReturnFalse, Attempt, None
<1>14. CASE Launch
  BY <1>14 DEF TypeOK, Attempted, Installing, After, Launch, Alone, Attempt, None
<1>15. CASE SetOnce
  BY <1>15 DEF TypeOK, Attempted, Installing, After, SetOnce, Alone, Throw, Attempt, None
<1>16. CASE LeaveMenu \/ Report
  BY <1>16 DEF TypeOK, Attempted, Installing, After, LeaveMenu, Report, Alone, history,
     Attempt, None
<1>17. CASE CleanTemp
  <2>1. \A a \in Attempt : a > attempt => dir'[a] = "none"
    BY <1>17 DEF TypeOK, Attempted, CleanTemp, Removable, Attempt, None
  <2> QED
    BY <1>17, <2>1 DEF TypeOK, Attempted, CleanTemp, history, Installing, After, Attempt, None
<1>18. CASE \E a \in Attempt : Append(a)
  BY <1>18 DEF TypeOK, Attempted, Installing, After, Append, flow, history, Attempt, None
<1>19. CASE \E a \in Poller : Looks(a)
  BY <1>19 DEF TypeOK, Attempted, Installing, After, Looks, Alone, Poller, Attempt, None
<1>20. CASE \E a \in Attempt : Finish(a)
  BY <1>20 DEF TypeOK, Attempted, Installing, After, Finish, T!Finish, flow, history,
     Attempt, None
<1>21. CASE Cancel
  BY <1>21 DEF TypeOK, Attempted, Installing, After, Cancel, Alone, Attempt, None
<1>22. CASE Quit \/ UNCHANGED vars
  BY <1>22 DEF TypeOK, Attempted, Installing, After, Quit, T!Quit, vars, flow, history,
     Attempt, None
  <1> QED   BY <1>1, <1>2, <1>3, <1>4, <1>5, <1>6, <1>7, <1>8, <1>9, <1>10, <1>11, <1>12,
     <1>13, <1>14, <1>15, <1>16, <1>17, <1>18, <1>19, <1>20, <1>21, <1>22, WhichStep

(* Every step keeps what is known of which temporary file is kept. *)
LEMMA StepKept ==
  ASSUME Inv, TypeOK', [Next]_vars
  PROVE  Kept'
<1> USE InstallAssumption DEF Inv
<1>1. CASE Press
  BY <1>1 DEF TypeOK, Kept, Attempted, Installing, Named, After, Press, Alone, history,
     Attempt, None
<1>2. CASE GetTargetName
  BY <1>2 DEF TypeOK, Kept, Attempted, Installing, Named, After, GetTargetName, Alone,
     history, Attempt, None
<1>3. CASE NoTargetName \/ VerifyThrows \/ LaunchThrows
  BY <1>3 DEF TypeOK, Kept, Attempted, Installing, Named, After, NoTargetName,
     VerifyThrows, LaunchThrows, Alone, Throw, Attempt, None
<1>4. CASE VerifyThrowsOpen
  BY <1>4 DEF TypeOK, Kept, Attempted, Installing, Named, After, VerifyThrowsOpen, Alone,
     Throw, Attempt, None
<1>5. CASE ShowDownload \/ ShowVerify
  BY <1>5 DEF TypeOK, Kept, Attempted, Installing, Named, After, ShowDownload, ShowVerify,
     Alone, history, Attempt, None
<1>6. CASE Get
  BY <1>6 DEF TypeOK, Kept, Attempted, Installing, Named, After, Get, T!Begin, T!Refuse,
     T!Turn, history, Attempt, None
<1>7. CASE Completion
  BY <1>7 DEF TypeOK, Kept, Attempted, Installing, Named, After, Completion, T!Settle,
     T!Turn, history, Attempt, None
<1>8. CASE Ask
  BY <1>8 DEF TypeOK, Kept, Attempted, Installing, Named, After, Ask, Alone, Attempt, None
<1>9. CASE \E a \in Poller : Stores(a)
  BY <1>9 DEF TypeOK, Kept, Attempted, Installing, Named, After, Stores, Alone, history,
     Poller, Attempt, None
<1>10. CASE ProgressCancelled
  BY <1>10 DEF TypeOK, Kept, Attempted, Installing, Named, After, ProgressCancelled,
     Alone, history, Attempt, None
<1>11. CASE StopDownload
  BY <1>11 DEF TypeOK, Kept, Attempted, Installing, Named, After, StopDownload, Alone,
     ReturnFalse, Attempt, None
<1>12. CASE Verified \/ NotVerified
  BY <1>12 DEF TypeOK, Kept, Attempted, Installing, Named, After, Verified, NotVerified,
     Alone, Verify, history, Attempt, None
<1>13. CASE VerificationFailure
  BY <1>13 DEF TypeOK, Kept, Attempted, Installing, Named, After, VerificationFailure,
     Alone, ReturnFalse, Attempt, None
<1>14. CASE Launch
  BY <1>14 DEF TypeOK, Kept, Attempted, Installing, Named, After, Launch, Alone, Attempt,
     None
<1>15. CASE SetOnce
  BY <1>15 DEF TypeOK, Kept, Attempted, Installing, Named, After, SetOnce, Alone, Throw,
     Attempt, None
<1>16. CASE LeaveMenu \/ Report
  BY <1>16 DEF TypeOK, Kept, Attempted, Installing, Named, After, LeaveMenu, Report,
     Alone, history, Attempt, None
<1>17. CASE CleanTemp
  BY <1>17 DEF TypeOK, Kept, Attempted, Installing, Named, After, CleanTemp, Removable,
     history, Attempt, None
<1>18. CASE \E a \in Attempt : Append(a)
  BY <1>18 DEF TypeOK, Kept, Attempted, Installing, Named, After, Append, flow, history,
     Attempt, None
<1>19. CASE \E a \in Poller : Looks(a)
  BY <1>19 DEF TypeOK, Kept, Attempted, Installing, Named, After, Looks, Alone, Poller,
     Attempt, None
<1>20. CASE \E a \in Attempt : Finish(a)
  BY <1>20 DEF TypeOK, Kept, Attempted, Installing, Named, After, Finish, T!Finish, flow,
     history, Attempt, None
<1>21. CASE Cancel
  BY <1>21 DEF TypeOK, Kept, Attempted, Installing, Named, After, Cancel, Alone, Attempt,
     None
<1>22. CASE Quit \/ UNCHANGED vars
  BY <1>22 DEF TypeOK, Kept, Attempted, Installing, Named, After, Quit, T!Quit, vars,
     flow, history, Attempt, None
  <1> QED   BY <1>1, <1>2, <1>3, <1>4, <1>5, <1>6, <1>7, <1>8, <1>9, <1>10, <1>11, <1>12,
     <1>13, <1>14, <1>15, <1>16, <1>17, <1>18, <1>19, <1>20, <1>21, <1>22, WhichStep

(* Every step keeps what is known of which jobs run. *)
LEMMA StepWatched ==
  ASSUME Inv, TypeOK', [Next]_vars
  PROVE  Watched'
<1> USE InstallAssumption DEF Inv
<1>1. CASE Press
  BY <1>1 DEF TypeOK, Watched, Passes, Downloaded, Attempted, Installing, Press, Alone,
     history, Attempt, None
<1>2. CASE GetTargetName
  BY <1>2 DEF TypeOK, Watched, Passes, Downloaded, Attempted, Installing, GetTargetName,
     Alone, history, Attempt, None
<1>3. CASE NoTargetName \/ VerifyThrows \/ LaunchThrows
  BY <1>3 DEF TypeOK, Watched, Passes, Downloaded, Attempted, Installing, NoTargetName,
     VerifyThrows, LaunchThrows, Alone, Throw, Attempt, None
<1>4. CASE VerifyThrowsOpen
  BY <1>4 DEF TypeOK, Watched, Passes, Downloaded, Attempted, Installing,
     VerifyThrowsOpen, Alone, Throw, Attempt, None
<1>5. CASE ShowDownload \/ ShowVerify
  BY <1>5 DEF TypeOK, Watched, Passes, Downloaded, Attempted, Installing, ShowDownload,
     ShowVerify, Alone, history, Attempt, None
<1>6. CASE Get
  BY <1>6 DEF TypeOK, Watched, Passes, Downloaded, Attempted, Installing, Get, T!Begin,
     T!Refuse, T!Turn, history, Attempt, None
<1>7. CASE Completion
  BY <1>7 DEF TypeOK, Watched, Passes, Downloaded, Attempted, Installing, Completion,
     T!Settle, T!Turn, history, Attempt, None
<1>8. CASE Ask
  BY <1>8 DEF TypeOK, Watched, Passes, Downloaded, Attempted, Installing, Ask, Alone,
     Attempt, None
<1>9. CASE \E a \in Poller : Stores(a)
  BY <1>9 DEF TypeOK, Watched, Passes, Downloaded, Attempted, Installing, Stores, Alone,
     history, Poller, Attempt, None
<1>10. CASE ProgressCancelled
  BY <1>10 DEF TypeOK, Watched, Passes, Downloaded, Attempted, Installing,
     ProgressCancelled, Alone, history, Attempt, None
<1>11. CASE StopDownload
  BY <1>11 DEF TypeOK, Watched, Passes, Downloaded, Attempted, Installing, StopDownload,
     Alone, ReturnFalse, Attempt, None
<1>12. CASE Verified \/ NotVerified
  BY <1>12 DEF TypeOK, Watched, Passes, Downloaded, Attempted, Installing, Verified,
     NotVerified, Alone, Verify, history, Attempt, None
<1>13. CASE VerificationFailure
  BY <1>13 DEF TypeOK, Watched, Passes, Downloaded, Attempted, Installing,
     VerificationFailure, Alone, ReturnFalse, Attempt, None
<1>14. CASE Launch
  BY <1>14 DEF TypeOK, Watched, Passes, Downloaded, Attempted, Installing, Launch, Alone,
     Attempt, None
<1>15. CASE SetOnce
  BY <1>15 DEF TypeOK, Watched, Passes, Downloaded, Attempted, Installing, SetOnce, Alone,
     Throw, Attempt, None
<1>16. CASE LeaveMenu \/ Report
  BY <1>16 DEF TypeOK, Watched, Passes, Downloaded, Attempted, Installing, LeaveMenu,
     Report, Alone, history, Attempt, None
<1>17. CASE CleanTemp
  BY <1>17 DEF TypeOK, Watched, Passes, Downloaded, Attempted, Installing, CleanTemp,
     Removable, history, Attempt, None
<1>18. CASE \E a \in Attempt : Append(a)
  BY <1>18 DEF TypeOK, Watched, Passes, Downloaded, Attempted, Installing, Append, flow,
     history, Attempt, None
<1>19. CASE \E a \in Poller : Looks(a)
  BY <1>19 DEF TypeOK, Watched, Passes, Downloaded, Attempted, Installing, Looks, Alone,
     Poller, Attempt, None
<1>20. CASE \E a \in Attempt : Finish(a)
  BY <1>20 DEF TypeOK, Watched, Passes, Downloaded, Attempted, Installing, Finish,
     T!Finish, flow, history, Attempt, None
<1>21. CASE Cancel
  BY <1>21 DEF TypeOK, Watched, Passes, Downloaded, Attempted, Installing, Cancel, Alone,
     Attempt, None
<1>22. CASE Quit \/ UNCHANGED vars
  BY <1>22 DEF TypeOK, Watched, Passes, Downloaded, Attempted, Installing, Quit, T!Quit,
     vars, flow, history, Attempt, None
  <1> QED   BY <1>1, <1>2, <1>3, <1>4, <1>5, <1>6, <1>7, <1>8, <1>9, <1>10, <1>11, <1>12,
     <1>13, <1>14, <1>15, <1>16, <1>17, <1>18, <1>19, <1>20, <1>21, <1>22, WhichStep

(* Every step keeps what is known of when no indicator is shown. *)
LEMMA StepHidden ==
  ASSUME Inv, TypeOK', [Next]_vars
  PROVE  Hidden'
<1> USE InstallAssumption DEF Inv
<1>1. CASE Press
  BY <1>1 DEF TypeOK, Hidden, Press, Alone, history, indicator, Attempt, None
<1>2. CASE GetTargetName
  BY <1>2 DEF TypeOK, Hidden, GetTargetName, Alone, history, indicator, Attempt, None
<1>3. CASE NoTargetName \/ VerifyThrows \/ LaunchThrows
  BY <1>3 DEF TypeOK, Hidden, NoTargetName, VerifyThrows, LaunchThrows, Alone, Throw,
     indicator, Attempt, None
<1>4. CASE VerifyThrowsOpen
  BY <1>4 DEF TypeOK, Hidden, VerifyThrowsOpen, Alone, Throw, indicator, Attempt, None
<1>5. CASE ShowDownload \/ ShowVerify
  BY <1>5 DEF TypeOK, Hidden, ShowDownload, ShowVerify, Alone, history, I!Start, I!Down,
     Attempt, None
<1>6. CASE Get
  BY <1>6 DEF TypeOK, Hidden, Get, T!Begin, T!Refuse, T!Turn, history, indicator, Attempt,
     None
<1>7. CASE Completion
  BY <1>7 DEF TypeOK, Hidden, Completion, T!Settle, T!Turn, history, indicator, Attempt,
     None
<1>8. CASE Ask
  BY <1>8 DEF TypeOK, Hidden, Ask, Alone, Overlapped, I!Ask, I!Look, I!Unsure, I!Overlaps,
     Attempt, None
<1>9. CASE \E a \in Poller : Stores(a)
  BY <1>9 DEF TypeOK, Hidden, Stores, Alone, history, Poller, I!Store, Attempt, None
<1>10. CASE ProgressCancelled
  BY <1>10 DEF TypeOK, Hidden, ProgressCancelled, Alone, history, indicator, I!Told,
     Attempt, None
<1>11. CASE StopDownload
  BY <1>11 DEF TypeOK, Hidden, StopDownload, Alone, ReturnFalse, I!Stop, I!Forget, I!Down,
     I!Quiet, Attempt, None
<1>12. CASE Verified \/ NotVerified
  BY <1>12 DEF TypeOK, Hidden, Verified, NotVerified, Alone, Verify, history, indicator,
     I!Stop, I!Forget, I!Down, I!Quiet, Attempt, None
<1>13. CASE VerificationFailure
  BY <1>13 DEF TypeOK, Hidden, VerificationFailure, Alone, ReturnFalse, indicator,
     Attempt, None
<1>14. CASE Launch
  BY <1>14 DEF TypeOK, Hidden, Launch, Alone, indicator, Attempt, None
<1>15. CASE SetOnce
  BY <1>15 DEF TypeOK, Hidden, SetOnce, Alone, Throw, indicator, Attempt, None
<1>16. CASE LeaveMenu \/ Report
  BY <1>16 DEF TypeOK, Hidden, LeaveMenu, Report, Alone, history, indicator, Attempt, None
<1>17. CASE CleanTemp
  BY <1>17 DEF TypeOK, Hidden, CleanTemp, Removable, history, I!Stop, I!Forget, I!Down,
     I!Quiet, Attempt, None
<1>18. CASE \E a \in Attempt : Append(a)
  BY <1>18 DEF TypeOK, Hidden, Append, flow, history, indicator, Attempt, None
<1>19. CASE \E a \in Poller : Looks(a)
  BY <1>19 DEF TypeOK, Hidden, Looks, Alone, Poller, Overlapped, I!Look, I!Unsure,
     I!Overlaps, Attempt, None
<1>20. CASE \E a \in Attempt : Finish(a)
  BY <1>20 DEF TypeOK, Hidden, Finish, T!Finish, flow, history, indicator, Attempt, None
<1>21. CASE Cancel
  BY <1>21 DEF TypeOK, Hidden, Cancel, Alone, InTime, I!Button, I!Escape, Attempt, None
<1>22. CASE Quit \/ UNCHANGED vars
  BY <1>22 DEF TypeOK, Hidden, Quit, T!Quit, vars, flow, history, indicator, Attempt, None
  <1> QED   BY <1>1, <1>2, <1>3, <1>4, <1>5, <1>6, <1>7, <1>8, <1>9, <1>10, <1>11, <1>12,
     <1>13, <1>14, <1>15, <1>16, <1>17, <1>18, <1>19, <1>20, <1>21, <1>22, WhichStep

(* Every step keeps what is known of the polls. *)
LEMMA StepPolled ==
  ASSUME Inv, TypeOK', [Next]_vars
  PROVE  Polled'
<1> USE InstallAssumption DEF Inv
<1>1. CASE Press
  BY <1>1 DEF TypeOK, Polled, Hidden, Attempted, Installing, I!TypeOK, Press, Alone,
     history, indicator, Attempt, None
<1>2. CASE GetTargetName
  BY <1>2 DEF TypeOK, Polled, Hidden, Attempted, Installing, I!TypeOK, GetTargetName,
     Alone, history, indicator, Attempt, None
<1>3. CASE NoTargetName \/ VerifyThrows \/ LaunchThrows
  BY <1>3 DEF TypeOK, Polled, Hidden, Attempted, Installing, I!TypeOK, NoTargetName,
     VerifyThrows, LaunchThrows, Alone, Throw, indicator, Attempt, None
<1>4. CASE VerifyThrowsOpen
  BY <1>4 DEF TypeOK, Polled, Hidden, Attempted, Installing, I!TypeOK, VerifyThrowsOpen,
     Alone, Throw, indicator, Attempt, None
<1>5. CASE ShowDownload \/ ShowVerify
  BY <1>5 DEF TypeOK, Polled, Hidden, Attempted, Installing, I!TypeOK, ShowDownload,
     ShowVerify, Alone, history, I!Start, I!Down, Attempt, None
<1>6. CASE Get
  BY <1>6 DEF TypeOK, Polled, Hidden, Attempted, Installing, I!TypeOK, Get, T!Begin,
     T!Refuse, T!Turn, history, indicator, Attempt, None
<1>7. CASE Completion
  BY <1>7 DEF TypeOK, Polled, Hidden, Attempted, Installing, I!TypeOK, Completion,
     T!Settle, T!Turn, history, indicator, Attempt, None
<1>8. CASE Ask
  <2>1. attempt \in Attempt
    BY <1>8 DEF Ask, Attempted, Installing
  <2>2. CASE ~I!Unsure
    BY <1>8, <2>1, <2>2 DEF TypeOK, Polled, Hidden, Ask, Alone, Overlapped, I!Ask, I!Overlaps
  <2>3. CASE I!Unsure
    <3>1. /\ poll["client"] = "none" /\ poll'["client"] \in {"no", "yes"}
          /\ \A b \in Poller : b # "client" => poll'[b] = poll[b]
          /\ progress' = progress /\ ~key'
      BY <1>8, <2>3 DEF TypeOK, Ask, I!Ask, I!Look, I!TypeOK, Poller
    <3>2. raced'[attempt] = (raced[attempt] \/ \E b \in Poller \ {"client"} : poll[b] # "none")
      BY <1>8, <2>1, <2>3 DEF TypeOK, Ask, Overlapped, I!Overlaps
    <3>3. host' = host /\ attempt' = attempt
      BY <1>8 DEF Ask, Alone
    <3> QED
      BY <2>1, <2>3, <3>1, <3>2, <3>3 DEF Polled, I!Unsure
  <2> QED
    BY <2>2, <2>3
<1>9. CASE \E a \in Poller : Stores(a)
  BY <1>9 DEF TypeOK, Polled, Hidden, Attempted, Installing, I!TypeOK, Stores, Alone,
     history, Poller, I!Store, Attempt, None
<1>10. CASE ProgressCancelled
  BY <1>10 DEF TypeOK, Polled, Hidden, Attempted, Installing, I!TypeOK, ProgressCancelled,
     Alone, history, indicator, I!Told, Attempt, None
<1>11. CASE StopDownload
  BY <1>11 DEF TypeOK, Polled, Hidden, Attempted, Installing, I!TypeOK, StopDownload,
     Alone, ReturnFalse, I!Stop, I!Forget, I!Down, I!Quiet, Attempt, None
<1>12. CASE Verified \/ NotVerified
  BY <1>12 DEF TypeOK, Polled, Hidden, Attempted, Installing, I!TypeOK, Verified,
     NotVerified, Alone, Verify, history, indicator, I!Stop, I!Forget, I!Down, I!Quiet,
     Attempt, None
<1>13. CASE VerificationFailure
  BY <1>13 DEF TypeOK, Polled, Hidden, Attempted, Installing, I!TypeOK,
     VerificationFailure, Alone, ReturnFalse, indicator, Attempt, None
<1>14. CASE Launch
  BY <1>14 DEF TypeOK, Polled, Hidden, Attempted, Installing, I!TypeOK, Launch, Alone,
     indicator, Attempt, None
<1>15. CASE SetOnce
  BY <1>15 DEF TypeOK, Polled, Hidden, Attempted, Installing, I!TypeOK, SetOnce, Alone,
     Throw, indicator, Attempt, None
<1>16. CASE LeaveMenu \/ Report
  BY <1>16 DEF TypeOK, Polled, Hidden, Attempted, Installing, I!TypeOK, LeaveMenu, Report,
     Alone, history, indicator, Attempt, None
<1>17. CASE CleanTemp
  BY <1>17 DEF TypeOK, Polled, Hidden, Attempted, Installing, I!TypeOK, CleanTemp,
     Removable, history, I!Stop, I!Forget, I!Down, I!Quiet, Attempt, None
<1>18. CASE \E a \in Attempt : Append(a)
  BY <1>18 DEF TypeOK, Polled, Hidden, Attempted, Installing, I!TypeOK, Append, flow,
     history, indicator, Attempt, None
<1>19. CASE \E a \in Poller : Looks(a)
  BY <1>19 DEF TypeOK, Polled, Hidden, Attempted, Installing, I!TypeOK, Looks, Alone,
     Poller, Overlapped, I!Look, I!Unsure, I!Overlaps, Attempt, None
<1>20. CASE \E a \in Attempt : Finish(a)
  BY <1>20 DEF TypeOK, Polled, Hidden, Attempted, Installing, I!TypeOK, Finish, T!Finish,
     flow, history, indicator, Attempt, None
<1>21. CASE Cancel
  BY <1>21 DEF TypeOK, Polled, Hidden, Attempted, Installing, I!TypeOK, Cancel, Alone,
     InTime, I!Button, I!Escape, Attempt, None
<1>22. CASE Quit \/ UNCHANGED vars
  BY <1>22 DEF TypeOK, Polled, Hidden, Attempted, Installing, I!TypeOK, Quit, T!Quit,
     vars, flow, history, indicator, Attempt, None
  <1> QED   BY <1>1, <1>2, <1>3, <1>4, <1>5, <1>6, <1>7, <1>8, <1>9, <1>10, <1>11, <1>12,
     <1>13, <1>14, <1>15, <1>16, <1>17, <1>18, <1>19, <1>20, <1>21, <1>22, WhichStep

(* Every step keeps a cancel where InstallNow will find it. *)
LEMMA StepNoticed ==
  ASSUME Inv, TypeOK', [Next]_vars
  PROVE  Noticed'
<1> USE InstallAssumption DEF Inv
<1>1. CASE Press
  BY <1>1 DEF TypeOK, Noticed, Found, Asking, Polled, Hidden, Downloaded, Attempted,
     Installing, I!TypeOK, Press, Alone, history, indicator, Attempt, None
<1>2. CASE GetTargetName
  BY <1>2 DEF TypeOK, Noticed, Found, Asking, Polled, Hidden, Downloaded, Attempted,
     Installing, I!TypeOK, GetTargetName, Alone, history, indicator, Attempt, None
<1>3. CASE NoTargetName \/ VerifyThrows \/ LaunchThrows
  BY <1>3 DEF TypeOK, Noticed, Found, Asking, Polled, Hidden, Downloaded, Attempted,
     Installing, I!TypeOK, NoTargetName, VerifyThrows, LaunchThrows, Alone, Throw,
     indicator, Attempt, None
<1>4. CASE VerifyThrowsOpen
  BY <1>4 DEF TypeOK, Noticed, Found, Asking, Polled, Hidden, Downloaded, Attempted,
     Installing, I!TypeOK, VerifyThrowsOpen, Alone, Throw, indicator, Attempt, None
<1>5. CASE ShowDownload \/ ShowVerify
  BY <1>5 DEF TypeOK, Noticed, Found, Asking, Polled, Hidden, Downloaded, Attempted,
     Installing, I!TypeOK, ShowDownload, ShowVerify, Alone, history, I!Start, I!Down,
     Attempt, None
<1>6. CASE Get
  BY <1>6 DEF TypeOK, Noticed, Found, Asking, Polled, Hidden, Downloaded, Attempted,
     Installing, I!TypeOK, Get, T!Begin, T!Refuse, T!Turn, history, indicator, Attempt,
     None
<1>7. CASE Completion
  BY <1>7 DEF TypeOK, Noticed, Found, Asking, Polled, Hidden, Downloaded, Attempted,
     Installing, I!TypeOK, Completion, T!Settle, T!Turn, history, indicator, Attempt, None
<1>8. CASE Ask
  <2>1. attempt \in Attempt /\ pc = "ask" /\ pc' = "answer"
    BY <1>8 DEF Ask, Attempted, Installing
  <2>2. UNCHANGED <<progress, attempt, pressed>>
    BY <1>8 DEF Ask, I!Ask, I!Look
  <2>3. SUFFICES ASSUME pressed[attempt], ~raced'[attempt] PROVE Found("client")'
    BY <2>1, <2>2 DEF Noticed, Asking, Downloaded
  <2>4. ~raced[attempt] /\ ~I!Overlaps("client")
    BY <1>8, <2>1, <2>3 DEF TypeOK, Ask, Overlapped
  <2>5. progress.up /\ (key \/ \E a \in Poller : Found(a))
    BY <2>1, <2>3, <2>4 DEF Noticed, Asking
  <2>6. CASE progress.cancelled
    BY <2>2, <2>6 DEF Found
  <2>7. CASE ~progress.cancelled
    <3>1. I!Unsure
      BY <2>5, <2>7 DEF I!Unsure, Polled, Found
    <3>2. poll["client"] = "none" /\ poll'["client"] = IF key THEN "yes" ELSE "no"
      BY <1>8, <3>1 DEF TypeOK, Ask, I!Ask, I!Look, I!TypeOK, Poller
    <3>3. key
      BY <2>4, <2>5, <2>7, <3>1, <3>2 DEF I!Overlaps, Found, Poller
    <3> QED
      BY <3>2, <3>3 DEF Found
  <2> QED
    BY <2>6, <2>7
<1>9. CASE \E a \in Poller : Stores(a)
  BY <1>9 DEF TypeOK, Noticed, Found, Asking, Polled, Hidden, Downloaded, Attempted,
     Installing, I!TypeOK, Stores, Alone, history, Poller, I!Store, Attempt, None
<1>10. CASE ProgressCancelled
  BY <1>10 DEF TypeOK, Noticed, Found, Asking, Polled, Hidden, Downloaded, Attempted,
     Installing, I!TypeOK, ProgressCancelled, Alone, history, indicator, I!Told, Attempt,
     None
<1>11. CASE StopDownload
  BY <1>11 DEF TypeOK, Noticed, Found, Asking, Polled, Hidden, Downloaded, Attempted,
     Installing, I!TypeOK, StopDownload, Alone, ReturnFalse, I!Stop, I!Forget, I!Down,
     I!Quiet, Attempt, None
<1>12. CASE Verified \/ NotVerified
  BY <1>12 DEF TypeOK, Noticed, Found, Asking, Polled, Hidden, Downloaded, Attempted,
     Installing, I!TypeOK, Verified, NotVerified, Alone, Verify, history, indicator,
     I!Stop, I!Forget, I!Down, I!Quiet, Attempt, None
<1>13. CASE VerificationFailure
  BY <1>13 DEF TypeOK, Noticed, Found, Asking, Polled, Hidden, Downloaded, Attempted,
     Installing, I!TypeOK, VerificationFailure, Alone, ReturnFalse, indicator, Attempt,
     None
<1>14. CASE Launch
  BY <1>14 DEF TypeOK, Noticed, Found, Asking, Polled, Hidden, Downloaded, Attempted,
     Installing, I!TypeOK, Launch, Alone, indicator, Attempt, None
<1>15. CASE SetOnce
  BY <1>15 DEF TypeOK, Noticed, Found, Asking, Polled, Hidden, Downloaded, Attempted,
     Installing, I!TypeOK, SetOnce, Alone, Throw, indicator, Attempt, None
<1>16. CASE LeaveMenu \/ Report
  BY <1>16 DEF TypeOK, Noticed, Found, Asking, Polled, Hidden, Downloaded, Attempted,
     Installing, I!TypeOK, LeaveMenu, Report, Alone, history, indicator, Attempt, None
<1>17. CASE CleanTemp
  BY <1>17 DEF TypeOK, Noticed, Found, Asking, Polled, Hidden, Downloaded, Attempted,
     Installing, I!TypeOK, CleanTemp, Removable, history, I!Stop, I!Forget, I!Down,
     I!Quiet, Attempt, None
<1>18. CASE \E a \in Attempt : Append(a)
  BY <1>18 DEF TypeOK, Noticed, Found, Asking, Polled, Hidden, Downloaded, Attempted,
     Installing, I!TypeOK, Append, flow, history, indicator, Attempt, None
<1>19. CASE \E a \in Poller : Looks(a)
  BY <1>19 DEF TypeOK, Noticed, Found, Asking, Polled, Hidden, Downloaded, Attempted,
     Installing, I!TypeOK, Looks, Alone, Poller, Overlapped, I!Look, I!Unsure, I!Overlaps,
     Attempt, None
<1>20. CASE \E a \in Attempt : Finish(a)
  BY <1>20 DEF TypeOK, Noticed, Found, Asking, Polled, Hidden, Downloaded, Attempted,
     Installing, I!TypeOK, Finish, T!Finish, flow, history, indicator, Attempt, None
<1>21. CASE Cancel
  <2>1. progress' = IF I!Button THEN [progress EXCEPT !.cancelled = TRUE] ELSE progress
    BY <1>21 DEF Cancel, I!Button, I!Escape
  <2>2. UNCHANGED <<poll, pc, attempt, raced, wasCancelled>>
    BY <1>21 DEF Cancel, I!Button, I!Escape
  <2>3. \A a \in Poller : Found(a) => Found(a)'
    BY <2>1, <2>2 DEF TypeOK, I!TypeOK, Found
  <2>4. progress'.up = progress.up /\ (key => key')
    BY <1>21, <2>1 DEF TypeOK, I!TypeOK, Cancel, I!Button, I!Escape
  <2>5. pc \in Installing => (pressed'[attempt] <=> (pressed[attempt] \/ InTime))
    BY <1>21 DEF TypeOK, Cancel, Attempted
  <2>6. key' \/ \E a \in Poller : Found(a)'
    BY <1>21, <2>1 DEF TypeOK, I!TypeOK, Cancel, I!Button, I!Escape, Found, Poller
  <2> QED
    BY <2>2, <2>3, <2>4, <2>5, <2>6 DEF Noticed, InTime, Asking, Downloaded, Installing, Poller
<1>22. CASE Quit \/ UNCHANGED vars
  BY <1>22 DEF TypeOK, Noticed, Found, Asking, Polled, Hidden, Downloaded, Attempted,
     Installing, I!TypeOK, Quit, T!Quit, vars, flow, history, indicator, Attempt, None
  <1> QED   BY <1>1, <1>2, <1>3, <1>4, <1>5, <1>6, <1>7, <1>8, <1>9, <1>10, <1>11, <1>12,
     <1>13, <1>14, <1>15, <1>16, <1>17, <1>18, <1>19, <1>20, <1>21, <1>22, WhichStep

(* Every step keeps what is known of what will be reported. *)
LEMMA StepReported ==
  ASSUME Inv, TypeOK', [Next]_vars
  PROVE  Reported'
<1> USE InstallAssumption DEF Inv
<1>1. CASE Press
  BY <1>1 DEF TypeOK, Reported, Attempted, Installing, After, Press, Alone, history,
     Attempt, None
<1>2. CASE GetTargetName
  BY <1>2 DEF TypeOK, Reported, Attempted, Installing, After, GetTargetName, Alone,
     history, Attempt, None
<1>3. CASE NoTargetName \/ VerifyThrows \/ LaunchThrows
  BY <1>3 DEF TypeOK, Reported, Attempted, Installing, After, NoTargetName, VerifyThrows,
     LaunchThrows, Alone, Throw, Attempt, None
<1>4. CASE VerifyThrowsOpen
  BY <1>4 DEF TypeOK, Reported, Attempted, Installing, After, VerifyThrowsOpen, Alone,
     Throw, Attempt, None
<1>5. CASE ShowDownload \/ ShowVerify
  BY <1>5 DEF TypeOK, Reported, Attempted, Installing, After, ShowDownload, ShowVerify,
     Alone, history, Attempt, None
<1>6. CASE Get
  BY <1>6 DEF TypeOK, Reported, Attempted, Installing, After, Get, T!Begin, T!Refuse,
     T!Turn, history, Attempt, None
<1>7. CASE Completion
  BY <1>7 DEF TypeOK, Reported, Attempted, Installing, After, Completion, T!Settle,
     T!Turn, history, Attempt, None
<1>8. CASE Ask
  BY <1>8 DEF TypeOK, Reported, Attempted, Installing, After, Ask, Alone, Attempt, None
<1>9. CASE \E a \in Poller : Stores(a)
  BY <1>9 DEF TypeOK, Reported, Attempted, Installing, After, Stores, Alone, history,
     Poller, Attempt, None
<1>10. CASE ProgressCancelled
  BY <1>10 DEF TypeOK, Reported, Attempted, Installing, After, ProgressCancelled, Alone,
     history, Attempt, None
<1>11. CASE StopDownload
  BY <1>11 DEF TypeOK, Reported, Attempted, Installing, After, StopDownload, Alone,
     ReturnFalse, Attempt, None
<1>12. CASE Verified \/ NotVerified
  BY <1>12 DEF TypeOK, Reported, Attempted, Installing, After, Verified, NotVerified,
     Alone, Verify, history, Attempt, None
<1>13. CASE VerificationFailure
  BY <1>13 DEF TypeOK, Reported, Attempted, Installing, After, VerificationFailure, Alone,
     ReturnFalse, Attempt, None
<1>14. CASE Launch
  BY <1>14 DEF TypeOK, Reported, Attempted, Installing, After, Launch, Alone, Attempt,
     None
<1>15. CASE SetOnce
  BY <1>15 DEF TypeOK, Reported, Attempted, Installing, After, SetOnce, Alone, Throw,
     Attempt, None
<1>16. CASE LeaveMenu \/ Report
  BY <1>16 DEF TypeOK, Reported, Attempted, Installing, After, LeaveMenu, Report, Alone,
     history, Attempt, None
<1>17. CASE CleanTemp
  BY <1>17 DEF TypeOK, Reported, Attempted, Installing, After, CleanTemp, Removable,
     history, Attempt, None
<1>18. CASE \E a \in Attempt : Append(a)
  BY <1>18 DEF TypeOK, Reported, Attempted, Installing, After, Append, flow, history,
     Attempt, None
<1>19. CASE \E a \in Poller : Looks(a)
  BY <1>19 DEF TypeOK, Reported, Attempted, Installing, After, Looks, Alone, Poller,
     Attempt, None
<1>20. CASE \E a \in Attempt : Finish(a)
  BY <1>20 DEF TypeOK, Reported, Attempted, Installing, After, Finish, T!Finish, flow,
     history, Attempt, None
<1>21. CASE Cancel
  BY <1>21 DEF TypeOK, Reported, Attempted, Installing, After, Cancel, Alone, Attempt,
     None
<1>22. CASE Quit \/ UNCHANGED vars
  BY <1>22 DEF TypeOK, Reported, Attempted, Installing, After, Quit, T!Quit, vars, flow,
     history, Attempt, None
  <1> QED   BY <1>1, <1>2, <1>3, <1>4, <1>5, <1>6, <1>7, <1>8, <1>9, <1>10, <1>11, <1>12,
     <1>13, <1>14, <1>15, <1>16, <1>17, <1>18, <1>19, <1>20, <1>21, <1>22, WhichStep

LEMMA StepLaunchedIsVerified ==
  ASSUME Inv, TypeOK', [Next]_vars
  PROVE  LaunchedIsVerified'
<1> USE InstallAssumption DEF Inv
<1>1. CASE Press
  BY <1>1 DEF TypeOK, LaunchedIsVerified, Watched, Kept, Attempted, Installing, Named,
     Downloaded, Passes, After, Press, Alone, history, Attempt, None
<1>2. CASE GetTargetName
  BY <1>2 DEF TypeOK, LaunchedIsVerified, Watched, Kept, Attempted, Installing, Named,
     Downloaded, Passes, After, GetTargetName, Alone, history, Attempt, None
<1>3. CASE NoTargetName \/ VerifyThrows \/ LaunchThrows
  BY <1>3 DEF TypeOK, LaunchedIsVerified, Watched, Kept, Attempted, Installing, Named,
     Downloaded, Passes, After, NoTargetName, VerifyThrows, LaunchThrows, Alone, Throw,
     Attempt, None
<1>4. CASE VerifyThrowsOpen
  BY <1>4 DEF TypeOK, LaunchedIsVerified, Watched, Kept, Attempted, Installing, Named,
     Downloaded, Passes, After, VerifyThrowsOpen, Alone, Throw, Attempt, None
<1>5. CASE ShowDownload \/ ShowVerify
  BY <1>5 DEF TypeOK, LaunchedIsVerified, Watched, Kept, Attempted, Installing, Named,
     Downloaded, Passes, After, ShowDownload, ShowVerify, Alone, history, Attempt, None
<1>6. CASE Get
  BY <1>6 DEF TypeOK, LaunchedIsVerified, Watched, Kept, Attempted, Installing, Named,
     Downloaded, Passes, After, Get, T!Begin, T!Refuse, T!Turn, history, Attempt, None
<1>7. CASE Completion
  BY <1>7 DEF TypeOK, LaunchedIsVerified, Watched, Kept, Attempted, Installing, Named,
     Downloaded, Passes, After, Completion, T!Settle, T!Turn, history, Attempt, None
<1>8. CASE Ask
  BY <1>8 DEF TypeOK, LaunchedIsVerified, Watched, Kept, Attempted, Installing, Named,
     Downloaded, Passes, After, Ask, Alone, Attempt, None
<1>9. CASE \E a \in Poller : Stores(a)
  BY <1>9 DEF TypeOK, LaunchedIsVerified, Watched, Kept, Attempted, Installing, Named,
     Downloaded, Passes, After, Stores, Alone, history, Poller, Attempt, None
<1>10. CASE ProgressCancelled
  BY <1>10 DEF TypeOK, LaunchedIsVerified, Watched, Kept, Attempted, Installing, Named,
     Downloaded, Passes, After, ProgressCancelled, Alone, history, Attempt, None
<1>11. CASE StopDownload
  BY <1>11 DEF TypeOK, LaunchedIsVerified, Watched, Kept, Attempted, Installing, Named,
     Downloaded, Passes, After, StopDownload, Alone, ReturnFalse, Attempt, None
<1>12. CASE Verified \/ NotVerified
  BY <1>12 DEF TypeOK, LaunchedIsVerified, Watched, Kept, Attempted, Installing, Named,
     Downloaded, Passes, After, Verified, NotVerified, Alone, Verify, history, Attempt,
     None
<1>13. CASE VerificationFailure
  BY <1>13 DEF TypeOK, LaunchedIsVerified, Watched, Kept, Attempted, Installing, Named,
     Downloaded, Passes, After, VerificationFailure, Alone, ReturnFalse, Attempt, None
<1>14. CASE Launch
  BY <1>14 DEF TypeOK, LaunchedIsVerified, Watched, Kept, Attempted, Installing, Named,
     Downloaded, Passes, After, Launch, Alone, Attempt, None
<1>15. CASE SetOnce
  BY <1>15 DEF TypeOK, LaunchedIsVerified, Watched, Kept, Attempted, Installing, Named,
     Downloaded, Passes, After, SetOnce, Alone, Throw, Attempt, None
<1>16. CASE LeaveMenu \/ Report
  BY <1>16 DEF TypeOK, LaunchedIsVerified, Watched, Kept, Attempted, Installing, Named,
     Downloaded, Passes, After, LeaveMenu, Report, Alone, history, Attempt, None
<1>17. CASE CleanTemp
  BY <1>17 DEF TypeOK, LaunchedIsVerified, Watched, Kept, Attempted, Installing, Named,
     Downloaded, Passes, After, CleanTemp, Removable, history, Attempt, None
<1>18. CASE \E a \in Attempt : Append(a)
  <2>1. PICK a \in Attempt : Append(a)
    BY <1>18
  <2>2. \A b \in launched : image'[b] = image[b]
    BY <2>1 DEF TypeOK, LaunchedIsVerified, Append
  <2> QED
    BY <2>1, <2>2 DEF LaunchedIsVerified, Append, flow, history
<1>19. CASE \E a \in Poller : Looks(a)
  BY <1>19 DEF TypeOK, LaunchedIsVerified, Watched, Kept, Attempted, Installing, Named,
     Downloaded, Passes, After, Looks, Alone, Poller, Attempt, None
<1>20. CASE \E a \in Attempt : Finish(a)
  <2>1. PICK a \in Attempt : Finish(a)
    BY <1>20
  <2>2. \A b \in launched : image'[b] = image[b] /\ job'[b] = job[b]
    BY <2>1 DEF TypeOK, LaunchedIsVerified, Finish, T!Finish
  <2> QED
    BY <2>1, <2>2 DEF LaunchedIsVerified, Finish, flow, history
<1>21. CASE Cancel
  BY <1>21 DEF TypeOK, LaunchedIsVerified, Watched, Kept, Attempted, Installing, Named,
     Downloaded, Passes, After, Cancel, Alone, Attempt, None
<1>22. CASE Quit \/ UNCHANGED vars
  BY <1>22 DEF TypeOK, LaunchedIsVerified, Watched, Kept, Attempted, Installing, Named,
     Downloaded, Passes, After, Quit, T!Quit, vars, flow, history, Attempt, None
  <1> QED   BY <1>1, <1>2, <1>3, <1>4, <1>5, <1>6, <1>7, <1>8, <1>9, <1>10, <1>11, <1>12,
     <1>13, <1>14, <1>15, <1>16, <1>17, <1>18, <1>19, <1>20, <1>21, <1>22, WhichStep

LEMMA StepCancelIsFinal ==
  ASSUME Inv, TypeOK', [Next]_vars
  PROVE  CancelIsFinal'
<1> USE InstallAssumption DEF Inv
<1>1. CASE Press
  BY <1>1 DEF TypeOK, CancelIsFinal, Noticed, Attempted, Installing, Downloaded, After,
     Press, Alone, history, Attempt, None
<1>2. CASE GetTargetName
  BY <1>2 DEF TypeOK, CancelIsFinal, Noticed, Attempted, Installing, Downloaded, After,
     GetTargetName, Alone, history, Attempt, None
<1>3. CASE NoTargetName \/ VerifyThrows \/ LaunchThrows
  BY <1>3 DEF TypeOK, CancelIsFinal, Noticed, Attempted, Installing, Downloaded, After,
     NoTargetName, VerifyThrows, LaunchThrows, Alone, Throw, Attempt, None
<1>4. CASE VerifyThrowsOpen
  BY <1>4 DEF TypeOK, CancelIsFinal, Noticed, Attempted, Installing, Downloaded, After,
     VerifyThrowsOpen, Alone, Throw, Attempt, None
<1>5. CASE ShowDownload \/ ShowVerify
  BY <1>5 DEF TypeOK, CancelIsFinal, Noticed, Attempted, Installing, Downloaded, After,
     ShowDownload, ShowVerify, Alone, history, Attempt, None
<1>6. CASE Get
  BY <1>6 DEF TypeOK, CancelIsFinal, Noticed, Attempted, Installing, Downloaded, After,
     Get, T!Begin, T!Refuse, T!Turn, history, Attempt, None
<1>7. CASE Completion
  BY <1>7 DEF TypeOK, CancelIsFinal, Noticed, Attempted, Installing, Downloaded, After,
     Completion, T!Settle, T!Turn, history, Attempt, None
<1>8. CASE Ask
  <2>1. \A a \in Attempt : raced[a] => raced'[a]
    BY <1>8 DEF TypeOK, Ask, Overlapped
  <2> QED
    BY <1>8, <2>1 DEF TypeOK, CancelIsFinal, Ask, Alone
<1>9. CASE \E a \in Poller : Stores(a)
  BY <1>9 DEF TypeOK, CancelIsFinal, Noticed, Attempted, Installing, Downloaded, After,
     Stores, Alone, history, Poller, Attempt, None
<1>10. CASE ProgressCancelled
  BY <1>10 DEF TypeOK, CancelIsFinal, Noticed, Attempted, Installing, Downloaded, After,
     ProgressCancelled, Alone, history, Attempt, None
<1>11. CASE StopDownload
  BY <1>11 DEF TypeOK, CancelIsFinal, Noticed, Attempted, Installing, Downloaded, After,
     StopDownload, Alone, ReturnFalse, Attempt, None
<1>12. CASE Verified \/ NotVerified
  BY <1>12 DEF TypeOK, CancelIsFinal, Noticed, Attempted, Installing, Downloaded, After,
     Verified, NotVerified, Alone, Verify, history, Attempt, None
<1>13. CASE VerificationFailure
  BY <1>13 DEF TypeOK, CancelIsFinal, Noticed, Attempted, Installing, Downloaded, After,
     VerificationFailure, Alone, ReturnFalse, Attempt, None
<1>14. CASE Launch
  BY <1>14 DEF TypeOK, CancelIsFinal, Noticed, Attempted, Installing, Downloaded, After,
     Launch, Alone, Attempt, None
<1>15. CASE SetOnce
  BY <1>15 DEF TypeOK, CancelIsFinal, Noticed, Attempted, Installing, Downloaded, After,
     SetOnce, Alone, Throw, Attempt, None
<1>16. CASE LeaveMenu \/ Report
  BY <1>16 DEF TypeOK, CancelIsFinal, Noticed, Attempted, Installing, Downloaded, After,
     LeaveMenu, Report, Alone, history, Attempt, None
<1>17. CASE CleanTemp
  BY <1>17 DEF TypeOK, CancelIsFinal, Noticed, Attempted, Installing, Downloaded, After,
     CleanTemp, Removable, history, Attempt, None
<1>18. CASE \E a \in Attempt : Append(a)
  BY <1>18 DEF TypeOK, CancelIsFinal, Noticed, Attempted, Installing, Downloaded, After,
     Append, flow, history, Attempt, None
<1>19. CASE \E a \in Poller : Looks(a)
  <2>1. \A a \in Attempt : raced[a] => raced'[a]
    BY <1>19 DEF TypeOK, Looks, Overlapped
  <2> QED
    BY <1>19, <2>1 DEF TypeOK, CancelIsFinal, Looks, Alone
<1>20. CASE \E a \in Attempt : Finish(a)
  BY <1>20 DEF TypeOK, CancelIsFinal, Noticed, Attempted, Installing, Downloaded, After,
     Finish, T!Finish, flow, history, Attempt, None
<1>21. CASE Cancel
  <2>1. \A a \in Attempt : pressed'[a] => pressed[a] \/ (a = attempt /\ pc \in Asking)
    BY <1>21 DEF TypeOK, Cancel, InTime, Asking
  <2>2. pc \in Asking => attempt \notin launched \cup failed
    BY DEF Attempted, Asking, Installing, After
  <2> QED
    BY <1>21, <2>1, <2>2 DEF TypeOK, CancelIsFinal, Cancel, Alone
<1>22. CASE Quit \/ UNCHANGED vars
  BY <1>22 DEF TypeOK, CancelIsFinal, Noticed, Attempted, Installing, Downloaded, After,
     Quit, T!Quit, vars, flow, history, Attempt, None
  <1> QED   BY <1>1, <1>2, <1>3, <1>4, <1>5, <1>6, <1>7, <1>8, <1>9, <1>10, <1>11, <1>12,
     <1>13, <1>14, <1>15, <1>16, <1>17, <1>18, <1>19, <1>20, <1>21, <1>22, WhichStep

LEMMA StepTempIsSettled ==
  ASSUME Inv, TypeOK', [Next]_vars
  PROVE  TempIsSettled'
<1> USE InstallAssumption DEF Inv
<1>1. CASE Press
  BY <1>1 DEF TypeOK, TempIsSettled, Kept, Watched, Attempted, Installing, Named, After,
     Press, Alone, history, Attempt, None
<1>2. CASE GetTargetName
  BY <1>2 DEF TypeOK, TempIsSettled, Kept, Watched, Attempted, Installing, Named, After,
     GetTargetName, Alone, history, Attempt, None
<1>3. CASE NoTargetName \/ VerifyThrows \/ LaunchThrows
  BY <1>3 DEF TypeOK, TempIsSettled, Kept, Watched, Attempted, Installing, Named, After,
     NoTargetName, VerifyThrows, LaunchThrows, Alone, Throw, Attempt, None
<1>4. CASE VerifyThrowsOpen
  BY <1>4 DEF TypeOK, TempIsSettled, Kept, Watched, Attempted, Installing, Named, After,
     VerifyThrowsOpen, Alone, Throw, Attempt, None
<1>5. CASE ShowDownload \/ ShowVerify
  BY <1>5 DEF TypeOK, TempIsSettled, Kept, Watched, Attempted, Installing, Named, After,
     ShowDownload, ShowVerify, Alone, history, Attempt, None
<1>6. CASE Get
  BY <1>6 DEF TypeOK, TempIsSettled, Kept, Watched, Attempted, Installing, Named, After,
     Get, T!Begin, T!Refuse, T!Turn, history, Attempt, None
<1>7. CASE Completion
  BY <1>7 DEF TypeOK, TempIsSettled, Kept, Watched, Attempted, Installing, Named, After,
     Completion, T!Settle, T!Turn, history, Attempt, None
<1>8. CASE Ask
  BY <1>8 DEF TypeOK, TempIsSettled, Kept, Watched, Attempted, Installing, Named, After,
     Ask, Alone, Attempt, None
<1>9. CASE \E a \in Poller : Stores(a)
  BY <1>9 DEF TypeOK, TempIsSettled, Kept, Watched, Attempted, Installing, Named, After,
     Stores, Alone, history, Poller, Attempt, None
<1>10. CASE ProgressCancelled
  BY <1>10 DEF TypeOK, TempIsSettled, Kept, Watched, Attempted, Installing, Named, After,
     ProgressCancelled, Alone, history, Attempt, None
<1>11. CASE StopDownload
  BY <1>11 DEF TypeOK, TempIsSettled, Kept, Watched, Attempted, Installing, Named, After,
     StopDownload, Alone, ReturnFalse, Attempt, None
<1>12. CASE Verified \/ NotVerified
  BY <1>12 DEF TypeOK, TempIsSettled, Kept, Watched, Attempted, Installing, Named, After,
     Verified, NotVerified, Alone, Verify, history, Attempt, None
<1>13. CASE VerificationFailure
  BY <1>13 DEF TypeOK, TempIsSettled, Kept, Watched, Attempted, Installing, Named, After,
     VerificationFailure, Alone, ReturnFalse, Attempt, None
<1>14. CASE Launch
  BY <1>14 DEF TypeOK, TempIsSettled, Kept, Watched, Attempted, Installing, Named, After,
     Launch, Alone, Attempt, None
<1>15. CASE SetOnce
  BY <1>15 DEF TypeOK, TempIsSettled, Kept, Watched, Attempted, Installing, Named, After,
     SetOnce, Alone, Throw, Attempt, None
<1>16. CASE LeaveMenu \/ Report
  BY <1>16 DEF TypeOK, TempIsSettled, Kept, Watched, Attempted, Installing, Named, After,
     LeaveMenu, Report, Alone, history, Attempt, None
<1>17. CASE CleanTemp
  BY <1>17 DEF TypeOK, TempIsSettled, Kept, Watched, Attempted, Installing, Named, After,
     CleanTemp, Removable, history, Attempt, None
<1>18. CASE \E a \in Attempt : Append(a)
  BY <1>18 DEF TempIsSettled, Append, flow, history
<1>19. CASE \E a \in Poller : Looks(a)
  BY <1>19 DEF TypeOK, TempIsSettled, Kept, Watched, Attempted, Installing, Named, After,
     Looks, Alone, Poller, Attempt, None
<1>20. CASE \E a \in Attempt : Finish(a)
  BY <1>20 DEF TypeOK, TempIsSettled, Kept, Watched, Attempted, Installing, Named, After,
     Finish, T!Finish, flow, history, Attempt, None
<1>21. CASE Cancel
  BY <1>21 DEF TypeOK, TempIsSettled, Kept, Watched, Attempted, Installing, Named, After,
     Cancel, Alone, Attempt, None
<1>22. CASE Quit \/ UNCHANGED vars
  BY <1>22 DEF TypeOK, TempIsSettled, Kept, Watched, Attempted, Installing, Named, After,
     Quit, T!Quit, vars, flow, history, Attempt, None
  <1> QED   BY <1>1, <1>2, <1>3, <1>4, <1>5, <1>6, <1>7, <1>8, <1>9, <1>10, <1>11, <1>12,
     <1>13, <1>14, <1>15, <1>16, <1>17, <1>18, <1>19, <1>20, <1>21, <1>22, WhichStep

LEMMA StepLaunchIsReported ==
  ASSUME Inv, TypeOK', [Next]_vars
  PROVE  LaunchIsReported'
<1> USE InstallAssumption DEF Inv
<1>1. CASE Press
  BY <1>1 DEF TypeOK, LaunchIsReported, Reported, Attempted, After, Press, Alone, history,
     Attempt, None
<1>2. CASE GetTargetName
  BY <1>2 DEF TypeOK, LaunchIsReported, Reported, Attempted, After, GetTargetName, Alone,
     history, Attempt, None
<1>3. CASE NoTargetName \/ VerifyThrows \/ LaunchThrows
  BY <1>3 DEF TypeOK, LaunchIsReported, Reported, Attempted, After, NoTargetName,
     VerifyThrows, LaunchThrows, Alone, Throw, Attempt, None
<1>4. CASE VerifyThrowsOpen
  BY <1>4 DEF TypeOK, LaunchIsReported, Reported, Attempted, After, VerifyThrowsOpen,
     Alone, Throw, Attempt, None
<1>5. CASE ShowDownload \/ ShowVerify
  BY <1>5 DEF TypeOK, LaunchIsReported, Reported, Attempted, After, ShowDownload,
     ShowVerify, Alone, history, Attempt, None
<1>6. CASE Get
  BY <1>6 DEF TypeOK, LaunchIsReported, Reported, Attempted, After, Get, T!Begin,
     T!Refuse, T!Turn, history, Attempt, None
<1>7. CASE Completion
  BY <1>7 DEF TypeOK, LaunchIsReported, Reported, Attempted, After, Completion, T!Settle,
     T!Turn, history, Attempt, None
<1>8. CASE Ask
  BY <1>8 DEF TypeOK, LaunchIsReported, Reported, Attempted, After, Ask, Alone, Attempt,
     None
<1>9. CASE \E a \in Poller : Stores(a)
  BY <1>9 DEF TypeOK, LaunchIsReported, Reported, Attempted, After, Stores, Alone,
     history, Poller, Attempt, None
<1>10. CASE ProgressCancelled
  BY <1>10 DEF TypeOK, LaunchIsReported, Reported, Attempted, After, ProgressCancelled,
     Alone, history, Attempt, None
<1>11. CASE StopDownload
  BY <1>11 DEF TypeOK, LaunchIsReported, Reported, Attempted, After, StopDownload, Alone,
     ReturnFalse, Attempt, None
<1>12. CASE Verified \/ NotVerified
  BY <1>12 DEF TypeOK, LaunchIsReported, Reported, Attempted, After, Verified,
     NotVerified, Alone, Verify, history, Attempt, None
<1>13. CASE VerificationFailure
  BY <1>13 DEF TypeOK, LaunchIsReported, Reported, Attempted, After, VerificationFailure,
     Alone, ReturnFalse, Attempt, None
<1>14. CASE Launch
  BY <1>14 DEF TypeOK, LaunchIsReported, Reported, Attempted, After, Launch, Alone,
     Attempt, None
<1>15. CASE SetOnce
  BY <1>15 DEF TypeOK, LaunchIsReported, Reported, Attempted, After, SetOnce, Alone,
     Throw, Attempt, None
<1>16. CASE LeaveMenu \/ Report
  BY <1>16 DEF TypeOK, LaunchIsReported, Reported, Attempted, After, LeaveMenu, Report,
     Alone, history, Attempt, None
<1>17. CASE CleanTemp
  BY <1>17 DEF TypeOK, LaunchIsReported, Reported, Attempted, After, CleanTemp, Removable,
     history, Attempt, None
<1>18. CASE \E a \in Attempt : Append(a)
  BY <1>18 DEF TypeOK, LaunchIsReported, Reported, Attempted, After, Append, flow,
     history, Attempt, None
<1>19. CASE \E a \in Poller : Looks(a)
  BY <1>19 DEF TypeOK, LaunchIsReported, Reported, Attempted, After, Looks, Alone, Poller,
     Attempt, None
<1>20. CASE \E a \in Attempt : Finish(a)
  BY <1>20 DEF TypeOK, LaunchIsReported, Reported, Attempted, After, Finish, T!Finish,
     flow, history, Attempt, None
<1>21. CASE Cancel
  BY <1>21 DEF TypeOK, LaunchIsReported, Reported, Attempted, After, Cancel, Alone,
     Attempt, None
<1>22. CASE Quit \/ UNCHANGED vars
  BY <1>22 DEF TypeOK, LaunchIsReported, Reported, Attempted, After, Quit, T!Quit, vars,
     flow, history, Attempt, None
  <1> QED   BY <1>1, <1>2, <1>3, <1>4, <1>5, <1>6, <1>7, <1>8, <1>9, <1>10, <1>11, <1>12,
     <1>13, <1>14, <1>15, <1>16, <1>17, <1>18, <1>19, <1>20, <1>21, <1>22, WhichStep

-----------------------------------------------------------------------------
THEOREM InitInv == Init => Inv
<1> SUFFICES ASSUME Init PROVE Inv
  OBVIOUS
<1> USE InstallAssumption DEF Init, T!Init
<1>1. TypeOK
  <2>1. attempt \in 0..Attempts /\ tempfile \in Attempt \cup {None}
    OBVIOUS
  <2>2. dir \in [Attempt -> Dir] /\ image \in [Attempt -> Image]
    BY DEF Dir, Image
  <2>3. job \in [Attempt -> T!JobState] /\ answer \in [Attempt -> T!Answer]
    BY DEF T!JobState, T!Answer
  <2>4. /\ pressed \in [Attempt -> BOOLEAN] /\ raced \in [Attempt -> BOOLEAN]
        /\ pc \in Pc /\ ret \in {-1, 2, 3}
    BY DEF Pc
  <2>5. I!TypeOK
    BY DEF I!TypeOK, I!Init, I!Down, I!Quiet
  <2> QED
    BY <2>1, <2>2, <2>3, <2>4, <2>5 DEF TypeOK
<1>2. Attempted /\ Kept /\ Watched /\ Hidden /\ Reported
  BY DEF Attempted, Kept, Watched, Hidden, Reported, Installing, Named, Downloaded, I!Init,
     I!Down, None, Attempt
<1>3. Polled /\ Noticed
  BY DEF Polled, Noticed, Asking, Downloaded, I!Init, I!Down, I!Quiet
<1>4. LaunchedIsVerified /\ CancelIsFinal /\ TempIsSettled /\ LaunchIsReported
  BY DEF LaunchedIsVerified, CancelIsFinal, TempIsSettled, LaunchIsReported
<1> QED
  BY <1>1, <1>2, <1>3, <1>4 DEF Inv

THEOREM StepInv == Inv /\ [Next]_vars => Inv'
<1> SUFFICES ASSUME Inv, [Next]_vars PROVE Inv'
  OBVIOUS
<1>1. TypeOK'
  BY StepType
<1> QED
  BY <1>1, StepAttempted, StepKept, StepWatched, StepHidden, StepPolled, StepNoticed,
     StepReported, StepLaunchedIsVerified, StepCancelIsFinal, StepTempIsSettled,
     StepLaunchIsReported DEF Inv

THEOREM Invariance == Spec => []Inv
BY InitInv, StepInv, PTL DEF Spec

-----------------------------------------------------------------------------
(* Every variable of the installation stays in its domain. *)
THEOREM TypeCorrect == Spec => []TypeOK
<1>1. Inv => TypeOK
  BY DEF Inv
<1> QED
  BY <1>1, Invariance, PTL

(* However the user, the download and the application interleave over any    *)
(* number of attempts, what CreateProcess was given is a whole file of the   *)
(* length and digest of the manifest, signed when a key is there to check    *)
(* it; it stays where it is, and no worker writes to it.                      *)
THEOREM OnlyVerifiedIsLaunched == Spec => []LaunchedIsVerified
<1>1. Inv => LaunchedIsVerified
  BY DEF Inv
<1> QED
  BY <1>1, Invariance, PTL

(* A download cancelled before InstallNow asks is never installed, and is    *)
(* not reported as an error, whoever takes ESC from the console, unless two  *)
(* threads that look for it overlap. *)
THEOREM CancelledIsNotInstalled == Spec => []CancelIsFinal
<1>1. Inv => CancelIsFinal
  BY DEF Inv
<1> QED
  BY <1>1, Invariance, PTL

(* Execute leaves a temporary directory only to an installer that runs from  *)
(* it, to a worker that still writes there while the application quits, or   *)
(* because Verify left its file open or a later attempt forgot it. *)
THEOREM TemporaryFileIsSettled == Spec => []TempIsSettled
<1>1. Inv => TempIsSettled
  BY DEF Inv
<1> QED
  BY <1>1, Invariance, PTL

(* The user is never asked, nor Execute ended, under a progress indicator.   *)
THEOREM IndicatorIsStopped == Spec => []NoProgressLeft
<1>1. Inv => NoProgressLeft
  BY DEF Inv, Hidden, NoProgressLeft
<1> QED
  BY <1>1, Invariance, PTL

(* Execute tells of a started installer, or of what failed. *)
THEOREM LaunchIsTold == Spec => []LaunchIsReported
<1>1. Inv => LaunchIsReported
  BY DEF Inv
<1> QED
  BY <1>1, Invariance, PTL
=============================================================================

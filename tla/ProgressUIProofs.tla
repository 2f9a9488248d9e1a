--------------------------- MODULE ProgressUIProofs ---------------------------
(***************************************************************************)
(* The reference count of a progress indicator, for either interface, any   *)
(* number of indicators and any number of reports: nobody touches one that   *)
(* is deleted.                                                               *)
(***************************************************************************)
EXTENDS ProgressUI, TLAPS

(* Who owns a reference: the client from the creation to the release, and    *)
(* the indicator's thread, for ever if it lost its parameters.               *)
ClientHolds(s) == held = s \/ (client.pc = "pump" /\ client.show = s)
ThreadHolds(s) == thread[s] \notin {"none", "gone"}

Count(s) == (IF ClientHolds(s) THEN 1 ELSE 0) + (IF ThreadHolds(s) THEN 1 ELSE 0)

Counted(s) ==
  /\ object[s].life = "alive" => object[s].references = Count(s)
  /\ ClientHolds(s) \/ ThreadHolds(s) => object[s].life = "alive"
  /\ object[s].life = "unborn" => thread[s] = "none"

(* The client works on the indicator that the user interface holds. *)
ClientKeeps ==
  /\ client.pc \notin {"idle", "pump"} => client.show = held
  /\ client.pc = "pump" => held = None
  /\ client.pc \in {"pump", "answering", "deciding", "stop", "send", "join", "release"}
       => client.show \in Show

(* So does the worker, because the client waits for it, unless it quits.     *)
ReporterKeeps ==
  /\ reporter.pc \notin {"off", "idle", "lost"} => reporter.show \in Show
  /\ reporter.pc # "off" /\ ~quit => client.pc = "job"
  /\ reporter.pc \in {"update", "locked", "poll", "answering"} /\ ~quit => reporter.show = held
  /\ reporter.pc = "update" => object[reporter.show].value < Reports

(* The inductive invariant. *)
Inv ==
  /\ TypeOK
  /\ \A s \in Show : Counted(s)
  /\ ClientKeeps /\ ReporterKeeps

-----------------------------------------------------------------------------
(* What a step may do to the fields of an indicator. *)
LEMMA Updates ==
  ASSUME NEW x \in Object
  PROVE  /\ [x EXCEPT !.trigger = "closed"] \in Object
         /\ Triggered(x) \in Object
         /\ [x EXCEPT !.window = FALSE] \in Object
         /\ [x EXCEPT !.cancelled = TRUE] \in Object
         /\ [x EXCEPT !.dirty = FALSE] \in Object
         /\ \A b \in BOOLEAN : [x EXCEPT !.cancelled = b] \in Object
         /\ [x EXCEPT !.window = FALSE, !.running = FALSE] \in Object
         /\ [x EXCEPT !.window = TRUE, !.dirty = FALSE] \in Object
BY DEF Triggered, Object

LEMMA Reported ==
  ASSUME NEW x \in Object, x.value < Reports
  PROVE  [x EXCEPT !.value = @ + 1, !.dirty = TRUE] \in Object
<1>1. x.value + 1 \in 0..Reports
  BY ProgressAssumption DEF Object
<1> QED
  BY <1>1 DEF Object

LEMMA CreatedType ==
  ASSUME NEW threaded \in BOOLEAN
  PROVE  /\ Created(threaded) \in Object /\ Created(threaded).life = "alive"
         /\ Created(threaded).value = 0
         /\ Created(threaded).references = IF threaded THEN 2 ELSE 1
<1> DEFINE r == IF threaded THEN 2 ELSE 1
           w == ui = "bar" /\ threaded
<1>1. r \in 0..2 /\ w \in BOOLEAN /\ 0 \in 0..Reports
  BY ProgressAssumption
<1>2. Created(threaded) =
        [life |-> "alive", references |-> r, window |-> w, running |-> w, trigger |-> "unset",
         cancelled |-> FALSE, value |-> 0, dirty |-> FALSE]
  <2>1. Created(threaded) = [Blank EXCEPT !.life = "alive", !.references = r, !.window = w,
                                          !.running = w]
    BY DEF Created
  <2> HIDE DEF r, w
  <2> QED
    BY <2>1 DEF Blank
<1>3. r = IF threaded THEN 2 ELSE 1
  OBVIOUS
<1> HIDE DEF r, w
<1> QED
  BY <1>1, <1>2, <1>3 DEF Object

LEMMA ReleasedType ==
  ASSUME NEW x \in Object, x.references \in 1..2
  PROVE  /\ Released(x) \in Object
         /\ Released(x).value \in {0, x.value}
         /\ x.references = 1 => Released(x).life = "deleted"
         /\ x.references = 2 => Released(x).life = x.life /\ Released(x).references = 1
<1>1. CASE x.references = 1
  <2>1. Released(x) =
          [life |-> "deleted", references |-> 0, window |-> FALSE, running |-> FALSE,
           trigger |-> "closed", cancelled |-> FALSE, value |-> 0, dirty |-> FALSE]
    BY <1>1 DEF Released, Blank
  <2>2. 0 \in 0..Reports /\ 0 \in 0..2
    BY ProgressAssumption
  <2> QED
    BY <1>1, <2>1, <2>2 DEF Object
<1>2. CASE x.references = 2
  <2>1. Released(x) = [x EXCEPT !.references = 1]
    BY <1>2 DEF Released
  <2>2. 1 \in 0..2
    OBVIOUS
  <2> QED
    BY <1>2, <2>1, <2>2 DEF Object
<1> QED
  BY <1>1, <1>2

LEMMA SetFacts ==
  ASSUME NEW s \in Show, NEW r \in Object, object \in [Show -> Object], Set(s, r)
  PROVE  /\ object' \in [Show -> Object] /\ object'[s] = r
         /\ \A t \in Show : t # s => object'[t] = object[t]
BY DEF Set

LEMMA ToFacts ==
  ASSUME TypeOK
  PROVE  /\ \A l \in ClientPc : ClientTo(l) =>
              /\ client' \in [pc : ClientPc, show : Show \cup {None}]
              /\ client'.pc = l /\ client'.show = client.show
         /\ \A l \in ReporterPc : ReporterTo(l) =>
              /\ reporter' \in [pc : ReporterPc, show : Show \cup {None}, window : BOOLEAN]
              /\ reporter'.pc = l /\ reporter'.show = reporter.show
         /\ \A l \in ReporterPc : ReporterLeaves(l) =>
              /\ reporter' \in [pc : ReporterPc, show : Show \cup {None}, window : BOOLEAN]
              /\ reporter'.pc = l /\ reporter'.show = None
         /\ \A l \in ThreadPc, s \in Show : ThreadTo(s, l) =>
              /\ thread' \in [Show -> ThreadPc] /\ thread'[s] = l
              /\ \A t \in Show : t # s => thread'[t] = thread[t]
<1>1. ASSUME NEW l \in ClientPc, ClientTo(l)
      PROVE  /\ client' \in [pc : ClientPc, show : Show \cup {None}]
             /\ client'.pc = l /\ client'.show = client.show
  BY <1>1 DEF TypeOK, ClientTo
<1>2. ASSUME NEW l \in ReporterPc, ReporterTo(l)
      PROVE  /\ reporter' \in [pc : ReporterPc, show : Show \cup {None}, window : BOOLEAN]
             /\ reporter'.pc = l /\ reporter'.show = reporter.show
  BY <1>2 DEF TypeOK, ReporterTo
<1>3. ASSUME NEW l \in ReporterPc, ReporterLeaves(l)
      PROVE  /\ reporter' \in [pc : ReporterPc, show : Show \cup {None}, window : BOOLEAN]
             /\ reporter'.pc = l /\ reporter'.show = None
  BY <1>3 DEF ReporterLeaves
<1>4. ASSUME NEW l \in ThreadPc, NEW s \in Show, ThreadTo(s, l)
      PROVE  /\ thread' \in [Show -> ThreadPc] /\ thread'[s] = l
             /\ \A t \in Show : t # s => thread'[t] = thread[t]
  BY <1>4 DEF TypeOK, ThreadTo
<1> QED
  BY <1>1, <1>2, <1>3, <1>4

(* A poll of the bar, or a look at the dialog's flag, and what it stores.     *)
LEMMA LookType ==
  ASSUME TypeOK, NEW a \in Actor, NEW s \in Show, Look(a, s)
  PROVE  sample' \in [Actor -> BOOLEAN] /\ key' \in BOOLEAN /\ raced' \in [Show -> BOOLEAN]
<1>1. object[s].cancelled \in BOOLEAN
  BY DEF TypeOK, Object
<1>2. sample' \in [Actor -> BOOLEAN] /\ key' \in BOOLEAN
  BY <1>1 DEF TypeOK, Look
<1>3. raced' \in [Show -> BOOLEAN]
  BY DEF TypeOK, Look
<1> QED
  BY <1>2, <1>3

LEMMA StoresType ==
  ASSUME TypeOK, NEW a \in Actor, NEW s \in Show, Stores(a, s)
  PROVE  /\ sample' \in [Actor -> BOOLEAN] /\ object' \in [Show -> Object]
         /\ \A t \in Show : /\ object'[t].life = object[t].life
                            /\ object'[t].references = object[t].references
                            /\ object'[t].value = object[t].value
<1> DEFINE r == IF ui = "bar" THEN [object[s] EXCEPT !.cancelled = sample[a]] ELSE object[s]
<1>1. sample[a] \in BOOLEAN /\ object[s] \in Object
  BY DEF TypeOK
<1>2. /\ r \in Object
      /\ r.life = object[s].life /\ r.references = object[s].references
      /\ r.value = object[s].value
  <2>1. CASE ui = "bar"
    <3>1. [object[s] EXCEPT !.cancelled = sample[a]] \in Object
      BY <1>1, Updates
    <3> QED
      BY <1>1, <2>1, <3>1 DEF Object
  <2>2. CASE ui # "bar"
    BY <1>1, <2>2
  <2> QED
    BY <2>1, <2>2
<1>3. Set(s, r) /\ sample' = [sample EXCEPT ![a] = FALSE]
  BY DEF Stores
<1> HIDE DEF r
<1>4. sample' \in [Actor -> BOOLEAN]
  BY <1>3 DEF TypeOK
<1>5. object \in [Show -> Object]
  BY DEF TypeOK
<1>6. /\ object' \in [Show -> Object] /\ object'[s] = r
      /\ \A t \in Show : t # s => object'[t] = object[t]
  BY <1>2, <1>3, <1>5, SetFacts
<1> QED
  BY <1>2, <1>4, <1>6

-----------------------------------------------------------------------------
(* A reference that is given back was counted. *)
LEMMA CountedFacts ==
  ASSUME Inv, NEW s \in Show, ClientHolds(s) \/ ThreadHolds(s)
  PROVE  /\ object[s] \in Object /\ object[s].life = "alive"
         /\ object[s].references \in 1..2 /\ object[s].references = Count(s)
BY DEF Inv, TypeOK, Counted, Count

(* The indicators stay well-formed. *)
LEMMA ObjectType ==
  ASSUME Inv, Next
  PROVE  object' \in [Show -> Object]
<1>0. object \in [Show -> Object] /\ \A s \in Show : object[s] \in Object
  BY DEF Inv, TypeOK
<1>1. ASSUME NEW s \in Show, NEW r \in Object, Set(s, r)
      PROVE  object' \in [Show -> Object]
  BY <1>0, <1>1, SetFacts
<1>2. ASSUME NEW s \in Show, StartDialog(s) \/ StartBar(s)
      PROVE  object' \in [Show -> Object]
  <2>1. PICK threaded \in BOOLEAN : Set(s, Created(threaded))
    BY <1>2 DEF StartDialog, StartBar
  <2> QED
    BY <1>1, <2>1, CreatedType
<1>3. CASE Started \/ StopForgets \/ ClientReleases
  <2>1. client.show \in Show /\ object[client.show] \in Object
    BY <1>0, <1>3 DEF Started, StopForgets, ClientReleases, ClientAt, Inv, ClientKeeps
  <2>2. CASE Started
    BY <1>1, <2>1, <2>2, Updates DEF Started
  <2>3. CASE StopForgets
    BY <1>1, <2>1, <2>3, Updates DEF StopForgets
  <2>4. CASE ClientReleases
    <3>1. ClientHolds(client.show)
      BY <2>4 DEF ClientReleases, ClientAt, ClientHolds, Inv, ClientKeeps
    <3> QED
      BY <1>1, <2>1, <2>4, <3>1, CountedFacts, ReleasedType DEF ClientReleases
  <2> QED
    BY <1>3, <2>2, <2>3, <2>4
<1>4. CASE Answered \/ Decided
  <2>1. client.show \in Show /\ Stores("client", client.show)
    BY <1>4 DEF Answered, Decided, ClientAt, Inv, ClientKeeps
  <2> QED
    BY <2>1, StoresType DEF Actor, Inv
<1>5. CASE ReporterAnswered
  <2>1. reporter.show \in Show /\ Stores("reporter", reporter.show)
    BY <1>5 DEF ReporterAnswered, ReporterAt, Inv, ReporterKeeps
  <2> QED
    BY <2>1, StoresType DEF Actor, Inv
<1>6. CASE SetProgress
  <2>1. reporter.show \in Show /\ object[reporter.show].value < Reports
    BY <1>6 DEF SetProgress, ReporterAt, Inv, ReporterKeeps
  <2> QED
    BY <1>0, <1>1, <1>6, <2>1, Reported DEF SetProgress
<1>7. ASSUME NEW s \in Show, Thread(s) \/ HandleCancel(s)
      PROVE  object' \in [Show -> Object]
  <2>1. CASE CreateWindow(s)
    BY <1>0, <1>1, <2>1, Updates DEF CreateWindow
  <2>2. CASE SignalStart(s) \/ CreateFails(s)
    BY <1>0, <1>1, <2>2, Updates DEF SignalStart, CreateFails
  <2>3. CASE HandleUpdate(s)
    BY <1>0, <1>1, <2>3, Updates DEF HandleUpdate
  <2>4. CASE HandleDestroy(s)
    BY <1>0, <1>1, <2>4, Updates DEF HandleDestroy
  <2>5. CASE HandleCancel(s)
    BY <1>0, <1>1, <2>5, Updates DEF HandleCancel
  <2>6. CASE BarPaints(s)
    BY <2>6, StoresType DEF BarPaints, Actor, Inv
  <2>7. CASE ThreadReleases(s)
    <3>1. ThreadHolds(s)
      BY <2>7 DEF ThreadReleases, ThreadAt, ThreadHolds
    <3> QED
      BY <1>1, <2>7, <3>1, CountedFacts, ReleasedType DEF ThreadReleases
  <2>8. CASE CopyParams(s) \/ LeaveLoop(s) \/ BarWakes(s) \/ BarEnds(s)
    BY <1>0, <2>8 DEF CopyParams, LeaveLoop, BarWakes, BarEnds
  <2> QED
    BY <1>7, <2>1, <2>2, <2>3, <2>4, <2>5, <2>6, <2>7, <2>8 DEF Thread
<1>8. CASE \/ StartAgain \/ StartNothing \/ BeginJob \/ JobOver \/ NoJob \/ Throws \/ Destructor
           \/ Ask \/ NothingToStop \/ Decide \/ Joined
  BY <1>0, <1>8 DEF StartAgain, StartNothing, BeginJob, JobOver, NoJob, Throws, Destructor,
     Ask, NothingToStop, Decide, Joined
<1>9. CASE \/ ReportBegins \/ ReporterLost \/ Unlocked \/ ReporterSendFails \/ AskBegins
           \/ ReporterLooks \/ JobEnds \/ PressEscape \/ PostQuit \/ PostThreadMessage
  BY <1>0, <1>9 DEF ReportBegins, ReporterLost, Unlocked, ReporterSendFails, AskBegins,
     ReporterLooks, JobEnds, PressEscape, PostQuit, PostThreadMessage
<1> QED
  BY <1>2, <1>3, <1>4, <1>5, <1>6, <1>7, <1>8, <1>9 DEF Next, Client, Reporter, User

(* What Release leaves. *)
LEMMA ReleaseFacts ==
  ASSUME Inv, NEW s \in Show, ClientHolds(s) \/ ThreadHolds(s), Set(s, Released(object[s]))
  PROVE  /\ Count(s) = 1 => object'[s].life = "deleted"
         /\ Count(s) = 2 => object'[s].life = "alive" /\ object'[s].references = 1
         /\ Count(s) \in 1..2
         /\ object'[s].value \in {0, object[s].value}
         /\ \A t \in Show : t # s => object'[t] = object[t]
<1>1. object \in [Show -> Object]
  BY DEF Inv, TypeOK
<1>2. Released(object[s]) \in Object
  BY CountedFacts, ReleasedType
<1>3. object'[s] = Released(object[s]) /\ \A t \in Show : t # s => object'[t] = object[t]
  BY <1>1, <1>2, SetFacts
<1> QED
  BY <1>3, CountedFacts, ReleasedType

LEMMA StartFacts ==
  ASSUME Inv, NEW s \in Show, NEW threaded \in BOOLEAN, Set(s, Created(threaded))
  PROVE  /\ object'[s].life = "alive" /\ object'[s].value = 0
         /\ object'[s].references = IF threaded THEN 2 ELSE 1
         /\ \A t \in Show : t # s => object'[t] = object[t]
<1>1. object \in [Show -> Object]
  BY DEF Inv, TypeOK
<1>2. object'[s] = Created(threaded) /\ \A t \in Show : t # s => object'[t] = object[t]
  BY <1>1, CreatedType, SetFacts
<1> QED
  BY <1>2, CreatedType

LEMMA NoneIsNoShow == None \notin Show
BY ProgressAssumption DEF None, Show

LEMMA ClientKept ==
  ASSUME Inv, object' \in [Show -> Object], [Next]_vars
  PROVE  ClientKeeps'
<1> USE ProgressAssumption DEF Inv, None
<1>1. CASE StartAgain
  BY <1>1 DEF StartAgain, ClientAt, TypeOK, env, ghosts, ClientKeeps
<1>2. CASE StartNothing
  BY <1>2 DEF StartNothing, ClientAt, TypeOK, env, ghosts, ClientKeeps
<1>3. CASE Started
  BY <1>3 DEF Started, ClientAt, ClientTo, Set, TypeOK, env, ghosts, ClientKeeps
<1>4. CASE BeginJob
  BY <1>4 DEF BeginJob, ClientAt, ClientTo, ReporterAt, TypeOK, env, ghosts, ClientKeeps
<1>5. CASE JobOver
  BY <1>5 DEF JobOver, ClientAt, ClientTo, ReporterAt, TypeOK, env, ghosts, ClientKeeps
<1>6. CASE NoJob
  BY <1>6 DEF NoJob, ClientAt, ClientTo, TypeOK, env, ghosts, ClientKeeps
<1>7. CASE Throws
  BY <1>7 DEF Throws, ClientAt, TypeOK, env, ghosts, ClientKeeps
<1>8. CASE Destructor
  BY <1>8 DEF Destructor, ClientAt, TypeOK, env, ghosts, ClientKeeps
<1>9. CASE Ask
  BY <1>9 DEF Ask, ClientAt, ClientTo, TypeOK, env, ClientKeeps
<1>10. CASE Answered
  BY <1>10 DEF Answered, ClientAt, ClientTo, Set, TypeOK, env, ghosts, ClientKeeps
<1>11. CASE NothingToStop
  BY <1>11 DEF NothingToStop, ClientTo, TypeOK, env, ghosts, ClientKeeps
<1>12. CASE Decide
  BY <1>12 DEF Decide, ClientAt, ClientTo, TypeOK, env, ClientKeeps
<1>13. CASE Decided
  BY <1>13 DEF Decided, ClientAt, ClientTo, Set, TypeOK, env, ghosts, ClientKeeps
<1>14. CASE StopForgets
  BY <1>14 DEF StopForgets, ClientAt, ClientTo, Set, Free, TypeOK, env, ghosts, ClientKeeps
<1>15. CASE Joined
  BY <1>15 DEF Joined, ClientAt, ClientTo, ThreadAt, TypeOK, env, ghosts, ClientKeeps
<1>16. CASE ClientReleases
  BY <1>16 DEF ClientReleases, ClientAt, Set, TypeOK, env, ghosts, ClientKeeps
<1>17. CASE ReportBegins
  BY <1>17 DEF ReportBegins, ReporterAt, TypeOK, env, ghosts, ClientKeeps
<1>18. CASE ReporterLost
  BY <1>18 DEF ReporterLost, ReporterTo, TypeOK, env, ghosts, ClientKeeps
<1>19. CASE SetProgress
  BY <1>19 DEF SetProgress, ReporterAt, Set, Free, TypeOK, env, ghosts, ClientKeeps
<1>20. CASE Unlocked
  BY <1>20 DEF Unlocked, ReporterAt, ReporterTo, TypeOK, env, ghosts, ClientKeeps
<1>21. CASE ReporterSendFails
  BY <1>21 DEF ReporterSendFails, ReporterAt, ReporterTo, TypeOK, env, ghosts, ClientKeeps
<1>22. CASE AskBegins
  BY <1>22 DEF AskBegins, ReporterAt, ReporterLeaves, TypeOK, env, ghosts, ClientKeeps
<1>23. CASE ReporterLooks
  BY <1>23 DEF ReporterLooks, ReporterAt, ReporterTo, TypeOK, env, ClientKeeps
<1>24. CASE ReporterAnswered
  BY <1>24 DEF ReporterAnswered, ReporterAt, ReporterLeaves, Set, TypeOK, env, ghosts,
     ClientKeeps
<1>25. CASE JobEnds
  BY <1>25 DEF JobEnds, ReporterAt, ReporterTo, TypeOK, env, ghosts, ClientKeeps
<1>26. CASE PressEscape
  BY <1>26 DEF PressEscape, TypeOK, env, ClientKeeps
<1>27. CASE PostQuit
  BY <1>27 DEF PostQuit, TypeOK, ghosts, ClientKeeps
<1>28. CASE PostThreadMessage
  BY <1>28 DEF PostThreadMessage, TypeOK, ghosts, ClientKeeps
<1>29. ASSUME NEW s \in Show, StartDialog(s) PROVE ClientKeeps'
  BY <1>29 DEF StartDialog, ClientAt, ThreadTo, Set, TypeOK, env, ghosts, ClientKeeps
<1>30. ASSUME NEW s \in Show, StartBar(s) PROVE ClientKeeps'
  BY <1>30 DEF StartBar, ClientAt, Set, TypeOK, env, ghosts, ClientKeeps
<1>31. ASSUME NEW s \in Show, CopyParams(s) PROVE ClientKeeps'
  BY <1>31 DEF CopyParams, ThreadAt, ThreadTo, TypeOK, env, ghosts, ClientKeeps
<1>32. ASSUME NEW s \in Show, CreateWindow(s) PROVE ClientKeeps'
  BY <1>32 DEF CreateWindow, ThreadAt, ThreadTo, Set, TypeOK, env, ghosts, ClientKeeps
<1>33. ASSUME NEW s \in Show, SignalStart(s) PROVE ClientKeeps'
  BY <1>33 DEF SignalStart, ThreadAt, ThreadTo, Set, TypeOK, env, ghosts, ClientKeeps
<1>34. ASSUME NEW s \in Show, CreateFails(s) PROVE ClientKeeps'
  BY <1>34 DEF CreateFails, ThreadAt, ThreadTo, Set, TypeOK, env, ghosts, ClientKeeps
<1>35. ASSUME NEW s \in Show, HandleUpdate(s) PROVE ClientKeeps'
  BY <1>35 DEF HandleUpdate, ReporterAt, ReporterTo, ThreadAt, Set, Free, TypeOK, env,
     ghosts, ClientKeeps
<1>36. ASSUME NEW s \in Show, HandleDestroy(s) PROVE ClientKeeps'
  BY <1>36 DEF HandleDestroy, ClientAt, ClientTo, ThreadAt, ThreadTo, Set, TypeOK, env,
     ghosts, ClientKeeps
<1>37. ASSUME NEW s \in Show, LeaveLoop(s) PROVE ClientKeeps'
  BY <1>37 DEF LeaveLoop, ThreadAt, ThreadTo, TypeOK, env, ghosts, ClientKeeps
<1>38. ASSUME NEW s \in Show, BarWakes(s) PROVE ClientKeeps'
  BY <1>38 DEF BarWakes, ThreadAt, ThreadTo, Free, TypeOK, env, ClientKeeps
<1>39. ASSUME NEW s \in Show, BarPaints(s) PROVE ClientKeeps'
  BY <1>39 DEF BarPaints, ThreadAt, ThreadTo, Set, TypeOK, env, ghosts, ClientKeeps
<1>40. ASSUME NEW s \in Show, BarEnds(s) PROVE ClientKeeps'
  BY <1>40 DEF BarEnds, ThreadAt, ThreadTo, Free, TypeOK, env, ghosts, ClientKeeps
<1>41. ASSUME NEW s \in Show, ThreadReleases(s) PROVE ClientKeeps'
  BY <1>41 DEF ThreadReleases, ThreadAt, ThreadTo, Set, TypeOK, env, ghosts, ClientKeeps
<1>42. ASSUME NEW s \in Show, HandleCancel(s) PROVE ClientKeeps'
  BY <1>42 DEF HandleCancel, ThreadAt, Set, Free, TypeOK, env, ClientKeeps
<1>43. CASE UNCHANGED vars
  BY <1>43 DEF vars, TypeOK, ClientKeeps
<1> QED
  BY <1>1, <1>2, <1>3, <1>4, <1>5, <1>6, <1>7, <1>8, <1>9, <1>10, <1>11, <1>12, <1>13,
     <1>14, <1>15, <1>16, <1>17, <1>18, <1>19, <1>20, <1>21, <1>22, <1>23, <1>24, <1>25,
     <1>26, <1>27, <1>28, <1>29, <1>30, <1>31, <1>32, <1>33, <1>34, <1>35, <1>36, <1>37,
     <1>38, <1>39, <1>40, <1>41, <1>42, <1>43 DEF Next,
     Client, Reporter, User, Thread

LEMMA ReporterKept ==
  ASSUME Inv, object' \in [Show -> Object], [Next]_vars
  PROVE  ReporterKeeps'
<1> USE ProgressAssumption DEF Inv, None
<1>1. CASE StartAgain
  BY <1>1 DEF StartAgain, ClientAt, TypeOK, env, ghosts, ReporterKeeps, ClientKeeps
<1>2. CASE StartNothing
  BY <1>2 DEF StartNothing, ClientAt, TypeOK, env, ghosts, ReporterKeeps, ClientKeeps
<1>3. CASE Started
  BY <1>3 DEF Started, ClientAt, ClientTo, Set, TypeOK, env, ghosts, ReporterKeeps,
     ClientKeeps
<1>4. CASE BeginJob
  BY <1>4 DEF BeginJob, ClientAt, ClientTo, ReporterAt, TypeOK, env, ghosts, ReporterKeeps,
     ClientKeeps
<1>5. CASE JobOver
  BY <1>5 DEF JobOver, ClientAt, ClientTo, ReporterAt, TypeOK, env, ghosts, ReporterKeeps,
     ClientKeeps
<1>6. CASE NoJob
  BY <1>6 DEF NoJob, ClientAt, ClientTo, TypeOK, env, ghosts, ReporterKeeps, ClientKeeps
<1>7. CASE Throws
  BY <1>7 DEF Throws, ClientAt, TypeOK, env, ghosts, ReporterKeeps, ClientKeeps
<1>8. CASE Destructor
  BY <1>8 DEF Destructor, ClientAt, TypeOK, env, ghosts, ReporterKeeps, ClientKeeps
<1>9. CASE Ask
  BY <1>9 DEF Ask, ClientAt, ClientTo, TypeOK, env, ReporterKeeps, ClientKeeps
<1>10. CASE Answered
  <2>1. client.show \in Show /\ Stores("client", client.show)
    BY <1>10 DEF Answered, ClientAt, ClientKeeps
  <2>2. \A t \in Show : object'[t].value = object[t].value
    BY <2>1, StoresType DEF Actor
  <2> QED
    BY <1>10, <2>2 DEF Answered, ClientAt, ClientTo, env, ghosts, ReporterKeeps
<1>11. CASE NothingToStop
  BY <1>11 DEF NothingToStop, ClientTo, TypeOK, env, ghosts, ReporterKeeps, ClientKeeps
<1>12. CASE Decide
  BY <1>12 DEF Decide, ClientAt, ClientTo, TypeOK, env, ReporterKeeps, ClientKeeps
<1>13. CASE Decided
  <2>1. client.show \in Show /\ Stores("client", client.show)
    BY <1>13 DEF Decided, ClientAt, ClientKeeps
  <2>2. \A t \in Show : object'[t].value = object[t].value
    BY <2>1, StoresType DEF Actor
  <2> QED
    BY <1>13, <2>2 DEF Decided, ClientAt, ClientTo, env, ghosts, ReporterKeeps
<1>14. CASE StopForgets
  BY <1>14 DEF StopForgets, ClientAt, ClientTo, Set, Free, TypeOK, env, ghosts,
     ReporterKeeps, ClientKeeps
<1>15. CASE Joined
  BY <1>15 DEF Joined, ClientAt, ClientTo, ThreadAt, TypeOK, env, ghosts, ReporterKeeps,
     ClientKeeps
<1>16. CASE ClientReleases
  <2>1. client.show \in Show /\ ClientHolds(client.show) /\ client.pc = "release"
    BY <1>16 DEF ClientReleases, ClientAt, ClientHolds, ClientKeeps
  <2>2. \A t \in Show : object'[t].value \in {0, object[t].value}
    BY <1>16, <2>1, ReleaseFacts DEF ClientReleases
  <2>3. \A t \in Show : object[t].value \in Nat
    BY DEF TypeOK, Object
  <2> QED
    BY <1>16, <2>1, <2>2, <2>3 DEF ClientReleases, env, ghosts, ReporterKeeps
<1>17. CASE ReportBegins
  BY <1>17 DEF ReportBegins, ReporterAt, TypeOK, env, ghosts, ReporterKeeps, ClientKeeps
<1>18. CASE ReporterLost
  BY <1>18 DEF ReporterLost, ReporterTo, TypeOK, env, ghosts, ReporterKeeps, ClientKeeps,
     Alive
<1>19. CASE SetProgress
  BY <1>19 DEF SetProgress, ReporterAt, Set, Free, TypeOK, env, ghosts, ReporterKeeps,
     ClientKeeps, Alive
<1>20. CASE Unlocked
  BY <1>20 DEF Unlocked, ReporterAt, ReporterTo, TypeOK, env, ghosts, ReporterKeeps,
     ClientKeeps, Alive
<1>21. CASE ReporterSendFails
  BY <1>21 DEF ReporterSendFails, ReporterAt, ReporterTo, TypeOK, env, ghosts,
     ReporterKeeps, ClientKeeps
<1>22. CASE AskBegins
  BY <1>22 DEF AskBegins, ReporterAt, ReporterLeaves, TypeOK, env, ghosts, ReporterKeeps,
     ClientKeeps
<1>23. CASE ReporterLooks
  BY <1>23 DEF ReporterLooks, ReporterAt, ReporterTo, TypeOK, env, ReporterKeeps,
     ClientKeeps, Alive
<1>24. CASE ReporterAnswered
  BY <1>24 DEF ReporterAnswered, ReporterAt, ReporterLeaves, Set, TypeOK, env, ghosts,
     ReporterKeeps, ClientKeeps, Alive
<1>25. CASE JobEnds
  BY <1>25 DEF JobEnds, ReporterAt, ReporterTo, TypeOK, env, ghosts, ReporterKeeps,
     ClientKeeps
<1>26. CASE PressEscape
  BY <1>26 DEF PressEscape, TypeOK, env, ReporterKeeps, ClientKeeps, Alive
<1>27. CASE PostQuit
  BY <1>27 DEF PostQuit, TypeOK, ghosts, ReporterKeeps, ClientKeeps
<1>28. CASE PostThreadMessage
  BY <1>28 DEF PostThreadMessage, TypeOK, ghosts, ReporterKeeps, ClientKeeps
<1>29. ASSUME NEW s \in Show, StartDialog(s) PROVE ReporterKeeps'
  <2>1. PICK threaded \in BOOLEAN : Set(s, Created(threaded))
    BY <1>29 DEF StartDialog
  <2>2. \A t \in Show : object'[t].value \in {0, object[t].value}
    BY <2>1, StartFacts
  <2>3. \A t \in Show : object[t].value \in Nat
    BY DEF TypeOK, Object
  <2> QED
    BY <1>29, <2>2, <2>3 DEF StartDialog, ClientAt, env, ghosts, ReporterKeeps
<1>30. ASSUME NEW s \in Show, StartBar(s) PROVE ReporterKeeps'
  <2>1. PICK threaded \in BOOLEAN : Set(s, Created(threaded))
    BY <1>30 DEF StartBar
  <2>2. \A t \in Show : object'[t].value \in {0, object[t].value}
    BY <2>1, StartFacts
  <2>3. \A t \in Show : object[t].value \in Nat
    BY DEF TypeOK, Object
  <2> QED
    BY <1>30, <2>2, <2>3 DEF StartBar, ClientAt, env, ghosts, ReporterKeeps
<1>31. ASSUME NEW s \in Show, CopyParams(s) PROVE ReporterKeeps'
  BY <1>31 DEF CopyParams, ThreadAt, ThreadTo, TypeOK, env, ghosts, ReporterKeeps,
     ClientKeeps
<1>32. ASSUME NEW s \in Show, CreateWindow(s) PROVE ReporterKeeps'
  BY <1>32 DEF CreateWindow, ThreadAt, ThreadTo, Set, TypeOK, env, ghosts, ReporterKeeps,
     ClientKeeps
<1>33. ASSUME NEW s \in Show, SignalStart(s) PROVE ReporterKeeps'
  <2>1. Set(s, Triggered(object[s])) /\ Triggered(object[s]).value = object[s].value
    BY <1>33 DEF SignalStart, Triggered, TypeOK, Object
  <2>2. \A t \in Show : object'[t].value = object[t].value
    BY <2>1 DEF Set, TypeOK
  <2> QED
    BY <1>33, <2>2 DEF SignalStart, env, ghosts, ReporterKeeps
<1>34. ASSUME NEW s \in Show, CreateFails(s) PROVE ReporterKeeps'
  <2>1. Set(s, Triggered(object[s])) /\ Triggered(object[s]).value = object[s].value
    BY <1>34 DEF CreateFails, Triggered, TypeOK, Object
  <2>2. \A t \in Show : object'[t].value = object[t].value
    BY <2>1 DEF Set, TypeOK
  <2> QED
    BY <1>34, <2>2 DEF CreateFails, env, ghosts, ReporterKeeps
<1>35. ASSUME NEW s \in Show, HandleUpdate(s) PROVE ReporterKeeps'
  BY <1>35 DEF HandleUpdate, ReporterAt, ReporterTo, ThreadAt, Set, Free, TypeOK, env,
     ghosts, ReporterKeeps, ClientKeeps
<1>36. ASSUME NEW s \in Show, HandleDestroy(s) PROVE ReporterKeeps'
  BY <1>36 DEF HandleDestroy, ClientAt, ClientTo, ThreadAt, ThreadTo, Set, TypeOK, env,
     ghosts, ReporterKeeps, ClientKeeps
<1>37. ASSUME NEW s \in Show, LeaveLoop(s) PROVE ReporterKeeps'
  BY <1>37 DEF LeaveLoop, ThreadAt, ThreadTo, TypeOK, env, ghosts, ReporterKeeps,
     ClientKeeps
<1>38. ASSUME NEW s \in Show, BarWakes(s) PROVE ReporterKeeps'
  BY <1>38 DEF BarWakes, ThreadAt, ThreadTo, Free, TypeOK, env, ReporterKeeps, ClientKeeps
<1>39. ASSUME NEW s \in Show, BarPaints(s) PROVE ReporterKeeps'
  <2>1. \A t \in Show : object'[t].value = object[t].value
    BY <1>39, StoresType DEF Actor, BarPaints
  <2> QED
    BY <1>39, <2>1 DEF BarPaints, env, ghosts, ReporterKeeps
<1>40. ASSUME NEW s \in Show, BarEnds(s) PROVE ReporterKeeps'
  BY <1>40 DEF BarEnds, ThreadAt, ThreadTo, Free, TypeOK, env, ghosts, ReporterKeeps,
     ClientKeeps
<1>41. ASSUME NEW s \in Show, ThreadReleases(s) PROVE ReporterKeeps'
  <2>1. ThreadHolds(s)
    BY <1>41 DEF ThreadReleases, ThreadAt, ThreadHolds
  <2>2. \A t \in Show : object'[t].value \in {0, object[t].value}
    BY <1>41, <2>1, ReleaseFacts DEF ThreadReleases
  <2>3. \A t \in Show : object[t].value \in Nat
    BY DEF TypeOK, Object
  <2> QED
    BY <1>41, <2>2, <2>3 DEF ThreadReleases, env, ghosts, ReporterKeeps
<1>42. ASSUME NEW s \in Show, HandleCancel(s) PROVE ReporterKeeps'
  BY <1>42 DEF HandleCancel, ThreadAt, Set, Free, TypeOK, env, ReporterKeeps, ClientKeeps
<1>43. CASE UNCHANGED vars
  BY <1>43 DEF vars, TypeOK, ReporterKeeps, ClientKeeps
<1> QED
  BY <1>1, <1>2, <1>3, <1>4, <1>5, <1>6, <1>7, <1>8, <1>9, <1>10, <1>11, <1>12, <1>13,
     <1>14, <1>15, <1>16, <1>17, <1>18, <1>19, <1>20, <1>21, <1>22, <1>23, <1>24, <1>25,
     <1>26, <1>27, <1>28, <1>29, <1>30, <1>31, <1>32, <1>33, <1>34, <1>35, <1>36, <1>37,
     <1>38, <1>39, <1>40, <1>41, <1>42, <1>43 DEF Next,
     Client, Reporter, User, Thread

LEMMA CountKept ==
  ASSUME Inv, object' \in [Show -> Object], [Next]_vars
  PROVE  \A t \in Show : Counted(t)'
<1> USE ProgressAssumption DEF Inv, None
<1>1. CASE StartAgain
  BY <1>1 DEF StartAgain, ClientAt, TypeOK, env, ghosts, Counted, Count, ClientHolds,
     ThreadHolds, ClientKeeps
<1>2. CASE StartNothing
  BY <1>2 DEF StartNothing, ClientAt, TypeOK, env, ghosts, Counted, Count, ClientHolds,
     ThreadHolds, ClientKeeps
<1>3. CASE Started
  <2>1. \A t \in Show : /\ object'[t].life = object[t].life
                        /\ object'[t].references = object[t].references
    BY <1>3 DEF Started, Set, TypeOK
  <2>2. \A t \in Show : ClientHolds(t)' <=> ClientHolds(t)
    BY <1>3, NoneIsNoShow DEF Started, ClientAt, ClientTo, ClientHolds, ClientKeeps, TypeOK
  <2>3. \A t \in Show : thread'[t] = thread[t]
    BY <1>3 DEF Started
  <2> QED
    BY <2>1, <2>2, <2>3 DEF Counted, Count, ThreadHolds
<1>4. CASE BeginJob
  BY <1>4 DEF BeginJob, ClientAt, ClientTo, ReporterAt, TypeOK, env, ghosts, Counted, Count,
     ClientHolds, ThreadHolds, ClientKeeps
<1>5. CASE JobOver
  BY <1>5 DEF JobOver, ClientAt, ClientTo, ReporterAt, TypeOK, env, ghosts, Counted, Count,
     ClientHolds, ThreadHolds, ClientKeeps
<1>6. CASE NoJob
  BY <1>6 DEF NoJob, ClientAt, ClientTo, TypeOK, env, ghosts, Counted, Count, ClientHolds,
     ThreadHolds, ClientKeeps
<1>7. CASE Throws
  BY <1>7 DEF Throws, ClientAt, TypeOK, env, ghosts, Counted, Count, ClientHolds,
     ThreadHolds, ClientKeeps
<1>8. CASE Destructor
  BY <1>8 DEF Destructor, ClientAt, TypeOK, env, ghosts, Counted, Count, ClientHolds,
     ThreadHolds, ClientKeeps
<1>9. CASE Ask
  BY <1>9 DEF Ask, ClientAt, ClientTo, TypeOK, env, Counted, Count, ClientHolds,
     ThreadHolds, ClientKeeps
<1>10. CASE Answered
  BY <1>10 DEF Answered, ClientAt, ClientTo, Set, TypeOK, env, ghosts, Counted, Count,
     ClientHolds, ThreadHolds, ClientKeeps, Stores
<1>11. CASE NothingToStop
  BY <1>11 DEF NothingToStop, ClientTo, TypeOK, env, ghosts, Counted, Count, ClientHolds,
     ThreadHolds, ClientKeeps
<1>12. CASE Decide
  BY <1>12 DEF Decide, ClientAt, ClientTo, TypeOK, env, Counted, Count, ClientHolds,
     ThreadHolds, ClientKeeps
<1>13. CASE Decided
  BY <1>13 DEF Decided, ClientAt, ClientTo, Set, TypeOK, env, ghosts, Counted, Count,
     ClientHolds, ThreadHolds, ClientKeeps, Stores
<1>14. CASE StopForgets
  BY <1>14 DEF StopForgets, ClientAt, ClientTo, Set, Free, TypeOK, env, ghosts, Counted,
     Count, ClientHolds, ThreadHolds, ClientKeeps
<1>15. CASE Joined
  BY <1>15 DEF Joined, ClientAt, ClientTo, ThreadAt, TypeOK, env, ghosts, Counted, Count,
     ClientHolds, ThreadHolds, ClientKeeps
<1>16. CASE ClientReleases
  <2>1. PICK c \in Show : c = client.show /\ held = c /\ client.pc = "release"
    BY <1>16 DEF ClientReleases, ClientAt, ClientKeeps
  <2>2. ClientHolds(c) /\ Set(c, Released(object[c]))
    BY <1>16, <2>1 DEF ClientReleases, ClientHolds
  <2>3. \A t \in Show : ~ClientHolds(t)' /\ thread'[t] = thread[t]
    BY <1>16, NoneIsNoShow DEF ClientReleases, ClientHolds
  <2>4. \A t \in Show : t # c => ~ClientHolds(t)
    BY <2>1 DEF ClientHolds
  <2>5. Counted(c)'
    BY <2>1, <2>2, <2>3, ReleaseFacts DEF Counted, Count, ThreadHolds
  <2>6. ASSUME NEW t \in Show, t # c PROVE Counted(t)'
    BY <2>1, <2>2, <2>3, <2>4, <2>6, ReleaseFacts DEF Counted, Count, ThreadHolds
  <2> QED
    BY <2>5, <2>6
<1>17. CASE ReportBegins
  BY <1>17 DEF ReportBegins, ReporterAt, TypeOK, env, ghosts, Counted, Count, ClientHolds,
     ThreadHolds, ClientKeeps
<1>18. CASE ReporterLost
  BY <1>18 DEF ReporterLost, ReporterTo, TypeOK, env, ghosts, Counted, Count, ClientHolds,
     ThreadHolds, ClientKeeps
<1>19. CASE SetProgress
  BY <1>19 DEF SetProgress, ReporterAt, Set, Free, TypeOK, env, ghosts, Counted, Count,
     ClientHolds, ThreadHolds, ClientKeeps
<1>20. CASE Unlocked
  BY <1>20 DEF Unlocked, ReporterAt, ReporterTo, TypeOK, env, ghosts, Counted, Count,
     ClientHolds, ThreadHolds, ClientKeeps
<1>21. CASE ReporterSendFails
  BY <1>21 DEF ReporterSendFails, ReporterAt, ReporterTo, TypeOK, env, ghosts, Counted,
     Count, ClientHolds, ThreadHolds, ClientKeeps
<1>22. CASE AskBegins
  BY <1>22 DEF AskBegins, ReporterAt, ReporterLeaves, TypeOK, env, ghosts, Counted, Count,
     ClientHolds, ThreadHolds, ClientKeeps
<1>23. CASE ReporterLooks
  BY <1>23 DEF ReporterLooks, ReporterAt, ReporterTo, TypeOK, env, Counted, Count,
     ClientHolds, ThreadHolds, ClientKeeps
<1>24. CASE ReporterAnswered
  BY <1>24 DEF ReporterAnswered, ReporterAt, ReporterLeaves, Set, TypeOK, env, ghosts,
     Counted, Count, ClientHolds, ThreadHolds, ClientKeeps, Stores
<1>25. CASE JobEnds
  BY <1>25 DEF JobEnds, ReporterAt, ReporterTo, TypeOK, env, ghosts, Counted, Count,
     ClientHolds, ThreadHolds, ClientKeeps
<1>26. CASE PressEscape
  BY <1>26 DEF PressEscape, TypeOK, env, Counted, Count, ClientHolds, ThreadHolds,
     ClientKeeps
<1>27. CASE PostQuit
  BY <1>27 DEF PostQuit, TypeOK, ghosts, Counted, Count, ClientHolds, ThreadHolds,
     ClientKeeps
<1>28. CASE PostThreadMessage
  BY <1>28 DEF PostThreadMessage, TypeOK, ghosts, Counted, Count, ClientHolds, ThreadHolds,
     ClientKeeps
<1>29. ASSUME NEW s \in Show, StartDialog(s) PROVE \A t \in Show : Counted(t)'
  <2>1. PICK threaded \in BOOLEAN :
          /\ Set(s, Created(threaded))
          /\ threaded => thread' = [thread EXCEPT ![s] = "begin"]
          /\ ~threaded => thread' = thread
          /\ \/ held' = s /\ client'.pc = "up"
             \/ held' = held /\ client'.pc = "pump" /\ client'.show = s
    <3>1. PICK threaded \in BOOLEAN :
            /\ Set(s, Created(threaded))
            /\ IF threaded
                 THEN ThreadTo(s, "begin") /\ client' = [pc |-> "pump", show |-> s] /\ UNCHANGED held
                 ELSE client' = [pc |-> "up", show |-> s] /\ held' = s /\ UNCHANGED thread
      BY <1>29 DEF StartDialog
    <3>2. threaded => /\ thread' = [thread EXCEPT ![s] = "begin"]
                      /\ held' = held /\ client'.pc = "pump" /\ client'.show = s
      BY <3>1 DEF ThreadTo
    <3>3. ~threaded => thread' = thread /\ held' = s /\ client'.pc = "up"
      BY <3>1
    <3> QED
      BY <3>1, <3>2, <3>3
  <2>2. held = None /\ client.pc = "idle" /\ object[s].life = "unborn"
    BY <1>29 DEF StartDialog, ClientAt, Fresh, Show
  <2>3. thread[s] = "none" /\ ~ThreadHolds(s)
    BY <2>2 DEF Counted, ThreadHolds
  <2>4. \A t \in Show : ~ClientHolds(t) /\ (ClientHolds(t)' <=> t = s)
    BY <2>1, <2>2, NoneIsNoShow DEF ClientHolds
  <2>5. thread'[s] = IF threaded THEN "begin" ELSE "none"
    BY <2>1, <2>3 DEF TypeOK
  <2>6. \A t \in Show : t # s => thread'[t] = thread[t]
    BY <2>1 DEF TypeOK
  <2>7. Counted(s)'
    BY <2>1, <2>4, <2>5, StartFacts DEF Counted, Count, ThreadHolds
  <2>8. ASSUME NEW t \in Show, t # s PROVE Counted(t)'
    BY <2>1, <2>4, <2>6, <2>8, StartFacts DEF Counted, Count, ThreadHolds
  <2> QED
    BY <2>7, <2>8
<1>30. ASSUME NEW s \in Show, StartBar(s) PROVE \A t \in Show : Counted(t)'
  <2>1. PICK threaded \in BOOLEAN :
          /\ Set(s, Created(threaded))
          /\ threaded => thread' = [thread EXCEPT ![s] = "wait"]
          /\ ~threaded => thread' = thread
          /\ \/ held' = s /\ client'.pc = "up"
             \/ held' = held /\ client'.pc = "pump" /\ client'.show = s
    BY <1>30 DEF StartBar, ThreadTo, ClientAt, TypeOK, Show
  <2>2. held = None /\ client.pc = "idle" /\ object[s].life = "unborn"
    BY <1>30 DEF StartBar, ClientAt, Fresh, Show
  <2>3. thread[s] = "none" /\ ~ThreadHolds(s)
    BY <2>2 DEF Counted, ThreadHolds
  <2>4. \A t \in Show : ~ClientHolds(t) /\ (ClientHolds(t)' <=> t = s)
    BY <2>1, <2>2, NoneIsNoShow DEF ClientHolds
  <2>5. thread'[s] = IF threaded THEN "wait" ELSE "none"
    BY <2>1, <2>3 DEF TypeOK
  <2>6. \A t \in Show : t # s => thread'[t] = thread[t]
    BY <2>1 DEF TypeOK
  <2>7. Counted(s)'
    BY <2>1, <2>4, <2>5, StartFacts DEF Counted, Count, ThreadHolds
  <2>8. ASSUME NEW t \in Show, t # s PROVE Counted(t)'
    BY <2>1, <2>4, <2>6, <2>8, StartFacts DEF Counted, Count, ThreadHolds
  <2> QED
    BY <2>7, <2>8
<1>31. ASSUME NEW s \in Show, CopyParams(s) PROVE \A t \in Show : Counted(t)'
  BY <1>31 DEF CopyParams, ThreadAt, ThreadTo, TypeOK, env, ghosts, Counted, Count,
     ClientHolds, ThreadHolds, ClientKeeps
<1>32. ASSUME NEW s \in Show, CreateWindow(s) PROVE \A t \in Show : Counted(t)'
  BY <1>32 DEF CreateWindow, ThreadAt, ThreadTo, Set, TypeOK, env, ghosts, Counted, Count,
     ClientHolds, ThreadHolds, ClientKeeps
<1>33. ASSUME NEW s \in Show, SignalStart(s) PROVE \A t \in Show : Counted(t)'
  BY <1>33 DEF SignalStart, ThreadAt, ThreadTo, Set, TypeOK, env, ghosts, Counted, Count,
     ClientHolds, ThreadHolds, ClientKeeps, Triggered
<1>34. ASSUME NEW s \in Show, CreateFails(s) PROVE \A t \in Show : Counted(t)'
  BY <1>34 DEF CreateFails, ThreadAt, ThreadTo, Set, TypeOK, env, ghosts, Counted, Count,
     ClientHolds, ThreadHolds, ClientKeeps, Triggered
<1>35. ASSUME NEW s \in Show, HandleUpdate(s) PROVE \A t \in Show : Counted(t)'
  BY <1>35 DEF HandleUpdate, ReporterAt, ReporterTo, ThreadAt, Set, Free, TypeOK, env,
     ghosts, Counted, Count, ClientHolds, ThreadHolds, ClientKeeps
<1>36. ASSUME NEW s \in Show, HandleDestroy(s) PROVE \A t \in Show : Counted(t)'
  BY <1>36 DEF HandleDestroy, ClientAt, ClientTo, ThreadAt, ThreadTo, Set, TypeOK, env,
     ghosts, Counted, Count, ClientHolds, ThreadHolds, ClientKeeps
<1>37. ASSUME NEW s \in Show, LeaveLoop(s) PROVE \A t \in Show : Counted(t)'
  BY <1>37 DEF LeaveLoop, ThreadAt, ThreadTo, TypeOK, env, ghosts, Counted, Count,
     ClientHolds, ThreadHolds, ClientKeeps
<1>38. ASSUME NEW s \in Show, BarWakes(s) PROVE \A t \in Show : Counted(t)'
  BY <1>38 DEF BarWakes, ThreadAt, ThreadTo, Free, TypeOK, env, Counted, Count, ClientHolds,
     ThreadHolds, ClientKeeps
<1>39. ASSUME NEW s \in Show, BarPaints(s) PROVE \A t \in Show : Counted(t)'
  BY <1>39 DEF BarPaints, ThreadAt, ThreadTo, Set, TypeOK, env, ghosts, Counted, Count,
     ClientHolds, ThreadHolds, ClientKeeps, Stores
<1>40. ASSUME NEW s \in Show, BarEnds(s) PROVE \A t \in Show : Counted(t)'
  BY <1>40 DEF BarEnds, ThreadAt, ThreadTo, Free, TypeOK, env, ghosts, Counted, Count,
     ClientHolds, ThreadHolds, ClientKeeps
<1>41. ASSUME NEW s \in Show, ThreadReleases(s) PROVE \A t \in Show : Counted(t)'
  BY <1>41 DEF ThreadReleases, ThreadAt, ThreadTo, Set, TypeOK, env, ghosts, Counted, Count,
     ClientHolds, ThreadHolds, ClientKeeps, Released, Blank
<1>42. ASSUME NEW s \in Show, HandleCancel(s) PROVE \A t \in Show : Counted(t)'
  BY <1>42 DEF HandleCancel, ThreadAt, Set, Free, TypeOK, env, Counted, Count, ClientHolds,
     ThreadHolds, ClientKeeps
<1>43. CASE UNCHANGED vars
  BY <1>43 DEF vars, TypeOK, Counted, Count, ClientHolds, ThreadHolds, ClientKeeps
<1> QED
  BY <1>1, <1>2, <1>3, <1>4, <1>5, <1>6, <1>7, <1>8, <1>9, <1>10, <1>11, <1>12, <1>13,
     <1>14, <1>15, <1>16, <1>17, <1>18, <1>19, <1>20, <1>21, <1>22, <1>23, <1>24, <1>25,
     <1>26, <1>27, <1>28, <1>29, <1>30, <1>31, <1>32, <1>33, <1>34, <1>35, <1>36, <1>37,
     <1>38, <1>39, <1>40, <1>41, <1>42, <1>43 DEF Next,
     Client, Reporter, User, Thread

LEMMA TypeKept ==
  ASSUME Inv, object' \in [Show -> Object], [Next]_vars
  PROVE  TypeOK'
<1> USE ProgressAssumption DEF Inv, None
<1>1. CASE StartAgain
  BY <1>1 DEF StartAgain, ClientAt, TypeOK, env, ghosts, ClientPc, ReporterPc, ThreadPc
<1>2. CASE StartNothing
  BY <1>2 DEF StartNothing, ClientAt, TypeOK, env, ghosts, ClientPc, ReporterPc, ThreadPc
<1>3. CASE Started
  BY <1>3 DEF Started, ClientAt, ClientTo, TypeOK, env, ghosts, ClientPc, ReporterPc,
     ThreadPc
<1>4. CASE BeginJob
  BY <1>4 DEF BeginJob, ClientAt, ClientTo, ReporterAt, TypeOK, env, ghosts, ClientPc,
     ReporterPc, ThreadPc
<1>5. CASE JobOver
  BY <1>5 DEF JobOver, ClientAt, ClientTo, ReporterAt, TypeOK, env, ghosts, ClientPc,
     ReporterPc, ThreadPc
<1>6. CASE NoJob
  BY <1>6 DEF NoJob, ClientAt, ClientTo, TypeOK, env, ghosts, ClientPc, ReporterPc, ThreadPc
<1>7. CASE Throws
  BY <1>7 DEF Throws, ClientAt, TypeOK, env, ghosts, ClientPc, ReporterPc, ThreadPc
<1>8. CASE Destructor
  BY <1>8 DEF Destructor, ClientAt, TypeOK, env, ghosts, ClientPc, ReporterPc, ThreadPc
<1>9. CASE Ask
  <2>1. client.show \in Show /\ Look("client", client.show)
    BY <1>9 DEF Ask, TypeOK
  <2>2. sample' \in [Actor -> BOOLEAN] /\ key' \in BOOLEAN /\ raced' \in [Show -> BOOLEAN]
    BY <2>1, LookType DEF Actor
  <2>3. client' \in [pc : ClientPc, show : Show \cup {None}]
    BY <1>9, ToFacts DEF Ask, ClientPc
  <2> QED
    BY <1>9, <2>2, <2>3 DEF Ask, TypeOK, env
<1>10. CASE Answered
  <2>1. client.show \in Show /\ Stores("client", client.show)
    BY <1>10 DEF Answered, ClientAt, ClientKeeps
  <2>2. sample' \in [Actor -> BOOLEAN]
    BY <2>1, StoresType DEF Actor
  <2>3. client' \in [pc : ClientPc, show : Show \cup {None}]
    BY <1>10, ToFacts DEF Answered, ClientPc
  <2> QED
    BY <1>10, <2>2, <2>3 DEF Answered, TypeOK, env, ghosts
<1>11. CASE NothingToStop
  BY <1>11 DEF NothingToStop, ClientTo, TypeOK, env, ghosts, ClientPc, ReporterPc, ThreadPc
<1>12. CASE Decide
  <2>1. client.show \in Show /\ Look("client", client.show)
    BY <1>12 DEF Decide, TypeOK
  <2>2. sample' \in [Actor -> BOOLEAN] /\ key' \in BOOLEAN /\ raced' \in [Show -> BOOLEAN]
    BY <2>1, LookType DEF Actor
  <2>3. client' \in [pc : ClientPc, show : Show \cup {None}]
    BY <1>12, ToFacts DEF Decide, ClientPc
  <2>4. told' \in [Show -> {"none", "no", "yes"}]
    BY <1>12 DEF Decide, TypeOK
  <2> QED
    BY <1>12, <2>2, <2>3, <2>4 DEF Decide, TypeOK, env
<1>13. CASE Decided
  <2>1. client.show \in Show /\ Stores("client", client.show)
    BY <1>13 DEF Decided, ClientAt, ClientKeeps
  <2>2. sample' \in [Actor -> BOOLEAN]
    BY <2>1, StoresType DEF Actor
  <2>3. client' \in [pc : ClientPc, show : Show \cup {None}]
    BY <1>13, ToFacts DEF Decided, ClientPc
  <2> QED
    BY <1>13, <2>2, <2>3 DEF Decided, TypeOK, env, ghosts
<1>14. CASE StopForgets
  BY <1>14 DEF StopForgets, ClientAt, ClientTo, Free, TypeOK, env, ghosts, ClientPc,
     ReporterPc, ThreadPc
<1>15. CASE Joined
  BY <1>15 DEF Joined, ClientAt, ClientTo, ThreadAt, TypeOK, env, ghosts, ClientPc,
     ReporterPc, ThreadPc
<1>16. CASE ClientReleases
  BY <1>16 DEF ClientReleases, ClientAt, TypeOK, env, ghosts, ClientPc, ReporterPc, ThreadPc
<1>17. CASE ReportBegins
  BY <1>17 DEF ReportBegins, ReporterAt, TypeOK, env, ghosts, ClientPc, ReporterPc, ThreadPc
<1>18. CASE ReporterLost
  BY <1>18 DEF ReporterLost, ReporterTo, TypeOK, env, ghosts, ClientPc, ReporterPc, ThreadPc
<1>19. CASE SetProgress
  BY <1>19 DEF SetProgress, ReporterAt, Free, TypeOK, env, ghosts, ClientPc, ReporterPc,
     ThreadPc
<1>20. CASE Unlocked
  BY <1>20 DEF Unlocked, ReporterAt, ReporterTo, TypeOK, env, ghosts, ClientPc, ReporterPc,
     ThreadPc
<1>21. CASE ReporterSendFails
  BY <1>21 DEF ReporterSendFails, ReporterAt, ReporterTo, TypeOK, env, ghosts, ClientPc,
     ReporterPc, ThreadPc
<1>22. CASE AskBegins
  <2>1. reporter' \in [pc : ReporterPc, show : Show \cup {None}, window : BOOLEAN]
    <3>1. CASE held = None
      BY <1>22, <3>1, ToFacts DEF AskBegins, ReporterPc
    <3>2. CASE held # None
      <4>1. reporter' = [pc |-> "poll", show |-> held, window |-> FALSE]
        BY <1>22, <3>2 DEF AskBegins
      <4>2. held \in Show \cup {None} /\ "poll" \in ReporterPc
        BY DEF TypeOK, ReporterPc
      <4> QED
        BY <4>1, <4>2
    <3> QED
      BY <3>1, <3>2
  <2> QED
    BY <1>22, <2>1 DEF AskBegins, TypeOK, env, ghosts
<1>23. CASE ReporterLooks
  <2>1. reporter.show \in Show /\ Look("reporter", reporter.show)
    BY <1>23 DEF ReporterLooks, ReporterAt, ReporterKeeps
  <2>2. sample' \in [Actor -> BOOLEAN] /\ key' \in BOOLEAN /\ raced' \in [Show -> BOOLEAN]
    BY <2>1, LookType DEF Actor
  <2>3. reporter' \in [pc : ReporterPc, show : Show \cup {None}, window : BOOLEAN]
    BY <1>23, ToFacts DEF ReporterLooks, ReporterPc
  <2> QED
    BY <1>23, <2>2, <2>3 DEF ReporterLooks, TypeOK, env
<1>24. CASE ReporterAnswered
  <2>1. reporter.show \in Show /\ Stores("reporter", reporter.show)
    BY <1>24 DEF ReporterAnswered, ReporterAt, ReporterKeeps
  <2>2. sample' \in [Actor -> BOOLEAN]
    BY <2>1, StoresType DEF Actor
  <2>3. \E l \in ReporterPc : ReporterLeaves(l)
    BY <1>24 DEF ReporterAnswered, ReporterPc
  <2>4. reporter' \in [pc : ReporterPc, show : Show \cup {None}, window : BOOLEAN]
    BY <2>3, ToFacts
  <2> QED
    BY <1>24, <2>2, <2>4 DEF ReporterAnswered, TypeOK, env, ghosts
<1>25. CASE JobEnds
  BY <1>25 DEF JobEnds, ReporterAt, ReporterTo, TypeOK, env, ghosts, ClientPc, ReporterPc,
     ThreadPc
<1>26. CASE PressEscape
  BY <1>26 DEF PressEscape, TypeOK, env, ClientPc, ReporterPc, ThreadPc
<1>27. CASE PostQuit
  BY <1>27 DEF PostQuit, TypeOK, ghosts, ClientPc, ReporterPc, ThreadPc
<1>28. CASE PostThreadMessage
  BY <1>28 DEF PostThreadMessage, TypeOK, ghosts, ClientPc, ReporterPc, ThreadPc
<1>29. ASSUME NEW s \in Show, StartDialog(s) PROVE TypeOK'
  BY <1>29 DEF StartDialog, ClientAt, ThreadTo, TypeOK, env, ghosts, ClientPc, ReporterPc,
     ThreadPc
<1>30. ASSUME NEW s \in Show, StartBar(s) PROVE TypeOK'
  BY <1>30 DEF StartBar, ClientAt, TypeOK, env, ghosts, ClientPc, ReporterPc, ThreadPc
<1>31. ASSUME NEW s \in Show, CopyParams(s) PROVE TypeOK'
  <2>1. \E l \in ThreadPc : ThreadTo(s, l)
    BY <1>31 DEF CopyParams, ThreadPc
  <2>2. thread' \in [Show -> ThreadPc]
    BY <2>1, ToFacts
  <2> QED
    BY <1>31, <2>2 DEF CopyParams, TypeOK, env, ghosts
<1>32. ASSUME NEW s \in Show, CreateWindow(s) PROVE TypeOK'
  <2>1. object[s].value \in 0..Reports
    BY DEF TypeOK, Object
  <2>2. screen' \in [Show -> [window : {"none", "open", "closed"}, value : 0..Reports]]
    BY <1>32, <2>1 DEF CreateWindow, TypeOK
  <2>3. thread' \in [Show -> ThreadPc]
    BY <1>32, ToFacts DEF CreateWindow, ThreadPc
  <2> QED
    BY <1>32, <2>2, <2>3 DEF CreateWindow, TypeOK, env, ghosts
<1>33. ASSUME NEW s \in Show, SignalStart(s) PROVE TypeOK'
  BY <1>33 DEF SignalStart, ThreadAt, ThreadTo, TypeOK, env, ghosts, ClientPc, ReporterPc,
     ThreadPc
<1>34. ASSUME NEW s \in Show, CreateFails(s) PROVE TypeOK'
  BY <1>34 DEF CreateFails, ThreadAt, ThreadTo, TypeOK, env, ghosts, ClientPc, ReporterPc,
     ThreadPc
<1>35. ASSUME NEW s \in Show, HandleUpdate(s) PROVE TypeOK'
  <2>1. PICK v \in 0..Reports : screen' = [screen EXCEPT ![s] = [@ EXCEPT !.value = v]]
    <3>1. object[s].value \in 0..Reports /\ screen[s].value \in 0..Reports
      BY DEF TypeOK, Object
    <3>2. CASE object[s].dirty /\ ~object[s].cancelled
      BY <1>35, <3>1, <3>2 DEF HandleUpdate
    <3>3. CASE ~(object[s].dirty /\ ~object[s].cancelled)
      BY <1>35, <3>1, <3>3 DEF HandleUpdate
    <3> QED
      BY <3>2, <3>3
  <2>2. screen' \in [Show -> [window : {"none", "open", "closed"}, value : 0..Reports]]
    BY <2>1 DEF TypeOK
  <2>3. reporter' \in [pc : ReporterPc, show : Show \cup {None}, window : BOOLEAN]
    BY <1>35, ToFacts DEF HandleUpdate, ReporterPc
  <2> QED
    BY <1>35, <2>2, <2>3 DEF HandleUpdate, TypeOK, env, ghosts
<1>36. ASSUME NEW s \in Show, HandleDestroy(s) PROVE TypeOK'
  BY <1>36 DEF HandleDestroy, ClientAt, ClientTo, ThreadAt, ThreadTo, TypeOK, env, ghosts,
     ClientPc, ReporterPc, ThreadPc, Closed
<1>37. ASSUME NEW s \in Show, LeaveLoop(s) PROVE TypeOK'
  BY <1>37 DEF LeaveLoop, ThreadAt, ThreadTo, TypeOK, env, ghosts, ClientPc, ReporterPc,
     ThreadPc
<1>38. ASSUME NEW s \in Show, BarWakes(s) PROVE TypeOK'
  <2>1. Look("thread", s)
    BY <1>38 DEF BarWakes
  <2>2. sample' \in [Actor -> BOOLEAN] /\ key' \in BOOLEAN /\ raced' \in [Show -> BOOLEAN]
    BY <2>1, LookType DEF Actor
  <2>3. thread' \in [Show -> ThreadPc]
    BY <1>38, ToFacts DEF BarWakes, ThreadPc
  <2>4. lock' \in [Show -> {"free", "client", "reporter", "thread"}]
    BY <1>38 DEF BarWakes, TypeOK
  <2> QED
    BY <1>38, <2>2, <2>3, <2>4 DEF BarWakes, TypeOK, env
<1>39. ASSUME NEW s \in Show, BarPaints(s) PROVE TypeOK'
  <2>1. sample' \in [Actor -> BOOLEAN]
    BY <1>39, StoresType DEF BarPaints, Actor
  <2>2. PICK v \in 0..Reports : screen' = [screen EXCEPT ![s] = [window |-> "open", value |-> v]]
    <3>1. object[s].value \in 0..Reports /\ screen[s].value \in 0..Reports
      BY DEF TypeOK, Object
    <3>2. CASE sample["thread"]
      BY <1>39, <3>1, <3>2 DEF BarPaints
    <3>3. CASE ~sample["thread"]
      BY <1>39, <3>1, <3>3 DEF BarPaints
    <3> QED
      BY <3>2, <3>3
  <2>3. screen' \in [Show -> [window : {"none", "open", "closed"}, value : 0..Reports]]
    BY <2>2 DEF TypeOK
  <2>4. thread' \in [Show -> ThreadPc]
    BY <1>39, ToFacts DEF BarPaints, ThreadPc
  <2>5. lock' \in [Show -> {"free", "client", "reporter", "thread"}]
    BY <1>39 DEF BarPaints, TypeOK
  <2> QED
    BY <1>39, <2>1, <2>3, <2>4, <2>5 DEF BarPaints, TypeOK, env, ghosts
<1>40. ASSUME NEW s \in Show, BarEnds(s) PROVE TypeOK'
  BY <1>40 DEF BarEnds, ThreadAt, ThreadTo, Free, TypeOK, env, ghosts, ClientPc, ReporterPc,
     ThreadPc, Closed
<1>41. ASSUME NEW s \in Show, ThreadReleases(s) PROVE TypeOK'
  BY <1>41 DEF ThreadReleases, ThreadAt, ThreadTo, TypeOK, env, ghosts, ClientPc,
     ReporterPc, ThreadPc
<1>42. ASSUME NEW s \in Show, HandleCancel(s) PROVE TypeOK'
  BY <1>42 DEF HandleCancel, ThreadAt, Free, TypeOK, env, ClientPc, ReporterPc, ThreadPc
<1>43. CASE UNCHANGED vars
  BY <1>43 DEF vars, TypeOK, ClientPc, ReporterPc, ThreadPc
<1> QED
  BY <1>1, <1>2, <1>3, <1>4, <1>5, <1>6, <1>7, <1>8, <1>9, <1>10, <1>11, <1>12, <1>13,
     <1>14, <1>15, <1>16, <1>17, <1>18, <1>19, <1>20, <1>21, <1>22, <1>23, <1>24, <1>25,
     <1>26, <1>27, <1>28, <1>29, <1>30, <1>31, <1>32, <1>33, <1>34, <1>35, <1>36, <1>37,
     <1>38, <1>39, <1>40, <1>41, <1>42, <1>43 DEF Next,
     Client, Reporter, User, Thread

-----------------------------------------------------------------------------
THEOREM InitInv == Init => Inv
<1> SUFFICES ASSUME Init PROVE Inv
  OBVIOUS
<1>1. TypeOK
  <2>1. object \in [Show -> Object]
    BY ProgressAssumption DEF Init, Blank, Object
  <2>2. client \in [pc : ClientPc, show : Show \cup {None}]
        /\ reporter \in [pc : ReporterPc, show : Show \cup {None}, window : BOOLEAN]
    BY DEF Init, ClientPc, ReporterPc
  <2>3. screen \in [Show -> [window : {"none", "open", "closed"}, value : 0..Reports]]
    BY ProgressAssumption DEF Init
  <2> QED
    BY <2>1, <2>2, <2>3 DEF Init, TypeOK, ThreadPc
<1>2. \A s \in Show : Counted(s)
  BY NoneIsNoShow DEF Init, Counted, ClientHolds, ThreadHolds, Blank
<1>3. ClientKeeps /\ ReporterKeeps
  BY DEF Init, ClientKeeps, ReporterKeeps
<1> QED
  BY <1>1, <1>2, <1>3 DEF Inv

THEOREM StepInv == Inv /\ [Next]_vars => Inv'
<1> SUFFICES ASSUME Inv, [Next]_vars PROVE Inv'
  OBVIOUS
<1>1. object' \in [Show -> Object]
  <2>1. CASE UNCHANGED vars
    BY <2>1 DEF vars, Inv, TypeOK
  <2> QED
    BY <2>1, ObjectType
<1> QED
  BY <1>1, TypeKept, ClientKept, ReporterKept, CountKept DEF Inv

THEOREM Invariance == Spec => []Inv
BY InitInv, StepInv, PTL DEF Spec

-----------------------------------------------------------------------------
(* Every variable of the indicators stays in its domain; a reference count   *)
(* is 0, 1 or 2.                                                             *)
THEOREM TypeCorrect == Spec => []TypeOK
<1>1. Inv => TypeOK
  BY DEF Inv
<1> QED
  BY <1>1, Invariance, PTL

(* The client and an indicator's thread never touch it after it is deleted,  *)
(* nor does the worker, which owns no reference, unless the application      *)
(* quits: neither a start that fails, nor one that WM_QUIT ends early, nor   *)
(* an indicator that an exception left behind.                               *)
THEOREM NoUseAfterDelete == Spec => []UsedIsAlive
<1>1. Inv => UsedIsAlive
  <2> SUFFICES ASSUME Inv, NEW s \in Show,
                      ClientUses(s) \/ ThreadUses(s) \/ (ReporterUses(s) /\ ~quit)
               PROVE  Alive(s)
    BY DEF UsedIsAlive
  <2>1. ClientUses(s) => ClientHolds(s)
    BY DEF ClientUses, ClientHolds, Inv, ClientKeeps
  <2>2. ThreadUses(s) => ThreadHolds(s)
    BY DEF ThreadUses, ThreadHolds
  <2>3. ReporterUses(s) /\ ~quit => ClientHolds(s)
    BY DEF ReporterUses, ClientHolds, Inv, ReporterKeeps
  <2> QED
    BY <2>1, <2>2, <2>3 DEF Inv, Counted, Alive
<1> QED
  BY <1>1, Invariance, PTL

-----------------------------------------------------------------------------
(* What is on the screen: it goes when ProgressStop returns, and while it is  *)
(* there it is what the worker reported.                                      *)

(* An indicator that is off the screen and will not come back to it.          *)
Off(s) == thread[s] \in {"none", "woken", "release", "gone"}

StopAsked == {"deciding", "stop", "send", "join"}
Bound     == StopAsked \cup {"pump", "release"}

(* What is on the screen belongs to a thread that is still there; the client  *)
(* has the window, or is destroying it; and once ProgressStop has asked, it   *)
(* does not leave before the thread does.                                     *)
Visible(s) ==
  /\ screen[s].window = "open" => thread[s] \in {"created", "loop", "wait", "paint"}
  /\ ui = "dialog" => thread[s] \notin {"wait", "paint"}
  /\ ui = "bar" => thread[s] \in {"none", "wait", "paint", "release", "gone"}
  /\ thread[s] = "lost" => quit
  /\ thread[s] \in {"begin", "creating", "created"} =>
       quit \/ (client.pc = "pump" /\ client.show = s /\ object[s].trigger = "unset")
  /\ thread[s] \in {"created", "loop", "wait", "paint"} =>
       quit \/ object[s].window \/ (client.show = s /\ client.pc \in {"send", "join"})
  /\ object[s].life = "unborn" => told[s] = "none"
  /\ told[s] # "none" => quit \/ Off(s) \/ (client.show = s /\ client.pc \in StopAsked)

Stopping == client.pc \in StopAsked \cup {"release"} => told[client.show] # "none"

(* What the dialog shows is what it was given, or it is about to be told.     *)
Pictured(s) ==
  ui = "dialog" /\ object[s].window =>
    /\ screen[s].window = "open"
    /\ reporter.show = s /\ reporter.pc \in {"locked", "send", "asking"} /\ ~object[s].cancelled =>
         \/ screen[s].value = object[s].value
         \/ reporter.pc = "locked" /\ reporter.window /\ object[s].dirty
         \/ reporter.pc = "send" /\ object[s].dirty

Away == Inv /\ Stopping /\ \A s \in Show : Visible(s) /\ Pictured(s)

(* The fields of an indicator that Visible and Pictured speak of. *)
Seen(x, y)  == y.window = x.window /\ y.trigger = x.trigger /\ y.life = x.life
Drawn(x, y) == y.window = x.window /\ y.cancelled = x.cancelled /\ y.value = x.value
               /\ y.dirty = x.dirty

LEMMA Fields ==
  ASSUME NEW x \in Object
  PROVE  /\ Drawn(x, [x EXCEPT !.trigger = "closed"])
         /\ [x EXCEPT !.trigger = "closed"].life = x.life
         /\ Drawn(x, Triggered(x)) /\ Triggered(x).life = x.life
         /\ [x EXCEPT !.window = FALSE].window = FALSE
         /\ [x EXCEPT !.window = FALSE].trigger = x.trigger
         /\ [x EXCEPT !.window = FALSE].life = x.life
         /\ Seen(x, [x EXCEPT !.cancelled = TRUE]) /\ [x EXCEPT !.cancelled = TRUE].cancelled
         /\ Seen(x, [x EXCEPT !.dirty = FALSE])
         /\ [x EXCEPT !.dirty = FALSE].cancelled = x.cancelled
         /\ [x EXCEPT !.dirty = FALSE].value = x.value
         /\ \A b \in BOOLEAN : Seen(x, [x EXCEPT !.cancelled = b])
         /\ [x EXCEPT !.window = FALSE, !.running = FALSE].window = FALSE
         /\ [x EXCEPT !.window = FALSE, !.running = FALSE].trigger = x.trigger
         /\ [x EXCEPT !.window = FALSE, !.running = FALSE].life = x.life
         /\ [x EXCEPT !.window = TRUE, !.dirty = FALSE].window = TRUE
         /\ [x EXCEPT !.window = TRUE, !.dirty = FALSE].trigger = x.trigger
         /\ [x EXCEPT !.window = TRUE, !.dirty = FALSE].life = x.life
         /\ [x EXCEPT !.window = TRUE, !.dirty = FALSE].value = x.value
         /\ Seen(x, [x EXCEPT !.value = @ + 1, !.dirty = TRUE])
         /\ [x EXCEPT !.value = @ + 1, !.dirty = TRUE].dirty = TRUE
<1>1. /\ Drawn(x, [x EXCEPT !.trigger = "closed"])
      /\ [x EXCEPT !.trigger = "closed"].life = x.life
  BY DEF Object, Drawn
<1>2. Drawn(x, Triggered(x)) /\ Triggered(x).life = x.life
  BY DEF Object, Drawn, Triggered
<1>3. /\ [x EXCEPT !.window = FALSE].window = FALSE
      /\ [x EXCEPT !.window = FALSE].trigger = x.trigger
      /\ [x EXCEPT !.window = FALSE].life = x.life
  BY DEF Object
<1>4. Seen(x, [x EXCEPT !.cancelled = TRUE]) /\ [x EXCEPT !.cancelled = TRUE].cancelled
  BY DEF Object, Seen
<1>5. /\ Seen(x, [x EXCEPT !.dirty = FALSE])
      /\ [x EXCEPT !.dirty = FALSE].cancelled = x.cancelled
      /\ [x EXCEPT !.dirty = FALSE].value = x.value
  BY DEF Object, Seen
<1>6. \A b \in BOOLEAN : Seen(x, [x EXCEPT !.cancelled = b])
  BY DEF Object, Seen
<1>7. /\ [x EXCEPT !.window = FALSE, !.running = FALSE].window = FALSE
      /\ [x EXCEPT !.window = FALSE, !.running = FALSE].trigger = x.trigger
      /\ [x EXCEPT !.window = FALSE, !.running = FALSE].life = x.life
  BY DEF Object
<1>8. /\ [x EXCEPT !.window = TRUE, !.dirty = FALSE].window = TRUE
      /\ [x EXCEPT !.window = TRUE, !.dirty = FALSE].trigger = x.trigger
      /\ [x EXCEPT !.window = TRUE, !.dirty = FALSE].life = x.life
      /\ [x EXCEPT !.window = TRUE, !.dirty = FALSE].value = x.value
  BY DEF Object
<1>9. /\ Seen(x, [x EXCEPT !.value = @ + 1, !.dirty = TRUE])
      /\ [x EXCEPT !.value = @ + 1, !.dirty = TRUE].dirty = TRUE
  BY DEF Object, Seen
<1> QED
  BY <1>1, <1>2, <1>3, <1>4, <1>5, <1>6, <1>7, <1>8, <1>9

LEMMA ReleasedFields ==
  ASSUME NEW x \in Object, x.references \in 1..2
  PROVE  /\ x.references = 1 => Released(x).life = "deleted" /\ Released(x).window = FALSE
         /\ x.references = 2 => Seen(x, Released(x)) /\ Drawn(x, Released(x))
         /\ Drawn(x, Released(x)) \/ Released(x).window = FALSE
<1>1. ASSUME x.references = 1
      PROVE  Released(x).life = "deleted" /\ Released(x).window = FALSE
  BY <1>1 DEF Released, Blank
<1>2. ASSUME x.references = 2
      PROVE  Seen(x, Released(x)) /\ Drawn(x, Released(x))
  <2>1. Released(x) = [x EXCEPT !.references = 1]
    BY <1>2 DEF Released
  <2> QED
    BY <1>2, <2>1 DEF Object, Seen, Drawn
<1>3. x.references = 1 \/ x.references = 2
  OBVIOUS
<1> QED
  BY <1>1, <1>2, <1>3

LEMMA CreatedFields ==
  ASSUME NEW threaded \in BOOLEAN
  PROVE  /\ Created(threaded).window = (ui = "bar" /\ threaded)
         /\ Created(threaded).trigger = "unset"
<1> DEFINE r == IF threaded THEN 2 ELSE 1
           w == ui = "bar" /\ threaded
<1>1. Created(threaded) = [Blank EXCEPT !.life = "alive", !.references = r, !.window = w,
                                        !.running = w]
  BY DEF Created
<1>2. w = (ui = "bar" /\ threaded)
  OBVIOUS
<1> HIDE DEF r, w
<1> QED
  BY <1>1, <1>2 DEF Blank

LEMMA StoresFields ==
  ASSUME TypeOK, NEW a \in Actor, NEW s \in Show, Stores(a, s)
  PROVE  /\ \A t \in Show : Seen(object[t], object'[t])
         /\ ui = "dialog" => object' = object
<1>1. sample[a] \in BOOLEAN /\ object[s] \in Object /\ object \in [Show -> Object]
  BY DEF TypeOK
<1>2. CASE ui = "bar"
  <2> DEFINE r == [object[s] EXCEPT !.cancelled = sample[a]]
  <2>1. r \in Object /\ Seen(object[s], r) /\ Set(s, r)
    BY <1>1, <1>2, Updates, Fields DEF Stores
  <2> HIDE DEF r
  <2>2. object'[s] = r /\ \A t \in Show : t # s => object'[t] = object[t]
    BY <1>1, <2>1, SetFacts
  <2> QED
    BY <1>2, <2>1, <2>2 DEF Seen
<1>3. CASE ui # "bar"
  <2>1. Set(s, object[s])
    BY <1>3 DEF Stores
  <2>2. object' = object
    BY <1>1, <2>1 DEF Set
  <2> QED
    BY <2>2, <1>3 DEF Seen
<1> QED
  BY <1>2, <1>3

-----------------------------------------------------------------------------
LEMMA QuietVisible ==
  ASSUME Away, NEW s \in Show, ui' = ui, quit => quit', thread'[s] = thread[s],
         screen'[s].window = screen[s].window, Seen(object[s], object'[s]), told'[s] = told[s],
         client' = client \/ (client.pc \notin Bound /\ client'.pc \notin Bound)
  PROVE  Visible(s)'
BY DEF Away, Visible, Seen, Off, Bound, StopAsked

LEMMA QuietStops ==
  ASSUME Away, told' = told,
         client' = client \/ client'.pc \notin StopAsked \cup {"release"}
  PROVE  Stopping'
BY DEF Away, Stopping

LEMMA SameSeen == \A x : Seen(x, x)
BY DEF Seen

LEMMA AwayTypes ==
  ASSUME Away
  PROVE  /\ TypeOK /\ object \in [Show -> Object] /\ \A s \in Show : object[s] \in Object
         /\ thread \in [Show -> ThreadPc] /\ told \in [Show -> {"none", "no", "yes"}]
         /\ screen \in [Show -> [window : {"none", "open", "closed"}, value : 0..Reports]]
         /\ client \in [pc : ClientPc, show : Show \cup {None}] /\ quit \in BOOLEAN
         /\ \A s \in Show : Visible(s) /\ Pictured(s)
BY DEF Away, Inv, TypeOK

(* Steps that move no indicator and no client near one. *)
LEMMA OtherVisible ==
  ASSUME Away, \/ ReportBegins \/ ReporterLost \/ Unlocked \/ ReporterSendFails \/ AskBegins
               \/ ReporterLooks \/ JobEnds \/ PressEscape \/ PostQuit \/ PostThreadMessage
               \/ UNCHANGED vars
  PROVE  Stopping' /\ \A s \in Show : Visible(s)'
<1>1. /\ UNCHANGED <<ui, client, thread, screen, object, told>> /\ (quit => quit')
  BY DEF ReportBegins, ReporterLost, Unlocked, ReporterSendFails, AskBegins, ReporterLooks,
     JobEnds, PressEscape, PostQuit, PostThreadMessage, vars, env, ghosts
<1> QED
  BY <1>1, QuietVisible, QuietStops, SameSeen

LEMMA ReportVisible ==
  ASSUME Away, SetProgress \/ ReporterAnswered
  PROVE  Stopping' /\ \A s \in Show : Visible(s)'
<1>1. UNCHANGED <<ui, client, thread, screen, told, quit>> /\ reporter.show \in Show
  BY DEF SetProgress, ReporterAnswered, env, ghosts, ReporterAt, Away, Inv, ReporterKeeps
<1>2. \A s \in Show : Seen(object[s], object'[s])
  <2>1. CASE SetProgress
    <3> DEFINE x == object[reporter.show]
               r == [x EXCEPT !.value = @ + 1, !.dirty = TRUE]
    <3>1. x \in Object /\ x.value < Reports
      BY <1>1, <2>1, AwayTypes DEF SetProgress, ReporterAt, Away, Inv, ReporterKeeps
    <3>2. r \in Object /\ Seen(x, r)
      <4> HIDE DEF x
      <4> QED
        BY <3>1, Reported, Fields
    <3>3. Set(reporter.show, r)
      BY <2>1 DEF SetProgress
    <3> HIDE DEF r
    <3>4. object'[reporter.show] = r /\ \A t \in Show : t # reporter.show => object'[t] = object[t]
      BY <1>1, <3>2, <3>3, AwayTypes, SetFacts
    <3> QED
      BY <3>2, <3>4, SameSeen
  <2>2. CASE ReporterAnswered
    <3>1. Stores("reporter", reporter.show)
      BY <2>2 DEF ReporterAnswered
    <3> QED
      BY <1>1, <3>1, AwayTypes, StoresFields DEF Actor
  <2> QED
    BY <2>1, <2>2
<1> QED
  BY <1>1, <1>2, QuietVisible, QuietStops

LEMMA UpdateVisible ==
  ASSUME Away, NEW s \in Show, HandleUpdate(s) \/ HandleCancel(s)
  PROVE  Stopping' /\ \A t \in Show : Visible(t)'
<1>1. UNCHANGED <<ui, client, thread, told, quit>>
  BY DEF HandleUpdate, HandleCancel, env, ghosts
<1>2. \A t \in Show : screen'[t].window = screen[t].window
  <2>1. CASE HandleUpdate(s)
    <3>1. PICK v : screen' = [screen EXCEPT ![s].value = v]
      BY <2>1 DEF HandleUpdate
    <3> QED
      BY <3>1, AwayTypes
  <2>2. CASE HandleCancel(s)
    BY <2>2 DEF HandleCancel
  <2> QED
    BY <2>1, <2>2
<1>3. \A t \in Show : Seen(object[t], object'[t])
  <2> DEFINE x == object[s]
             r == IF HandleCancel(s) THEN [x EXCEPT !.cancelled = TRUE] ELSE [x EXCEPT !.dirty = FALSE]
  <2>1. x \in Object
    BY AwayTypes
  <2>2. r \in Object /\ Seen(x, r)
    <3> HIDE DEF x
    <3>1. [x EXCEPT !.cancelled = TRUE] \in Object /\ Seen(x, [x EXCEPT !.cancelled = TRUE])
          /\ [x EXCEPT !.dirty = FALSE] \in Object /\ Seen(x, [x EXCEPT !.dirty = FALSE])
      BY <2>1, Updates, Fields
    <3> QED
      BY <3>1
  <2>3. Set(s, r)
    BY DEF HandleUpdate, HandleCancel
  <2> HIDE DEF r
  <2>4. object'[s] = r /\ \A t \in Show : t # s => object'[t] = object[t]
    BY <2>2, <2>3, AwayTypes, SetFacts
  <2> QED
    BY <2>2, <2>4, SameSeen
<1> QED
  BY <1>1, <1>2, <1>3, QuietVisible, QuietStops

(* The client, but for ProgressStart's handshake and ProgressStop. *)
LEMMA RoamVisible ==
  ASSUME Away, \/ StartAgain \/ StartNothing \/ BeginJob \/ JobOver \/ NoJob \/ Throws \/ Destructor
               \/ Ask \/ Answered \/ NothingToStop
  PROVE  Stopping' /\ \A s \in Show : Visible(s)'
<1>1. UNCHANGED <<ui, thread, screen, told, quit>>
  BY DEF StartAgain, StartNothing, BeginJob, JobOver, NoJob, Throws, Destructor, Ask, Answered,
     NothingToStop, env, ghosts
<1>2. client.pc \notin Bound /\ client'.pc \notin Bound
  BY AwayTypes DEF StartAgain, StartNothing, BeginJob, JobOver, NoJob, Throws, Destructor, Ask,
     Answered, NothingToStop, ClientAt, ClientTo, Bound, StopAsked
<1>3. \A s \in Show : Seen(object[s], object'[s])
  <2>1. CASE Answered
    <3>1. Stores("client", client.show) /\ client.show \in Show
      BY <2>1 DEF Answered, ClientAt, Away, Inv, ClientKeeps
    <3> QED
      BY <3>1, AwayTypes, StoresFields DEF Actor
  <2>2. CASE ~Answered
    <3>1. object' = object
      BY <2>2 DEF StartAgain, StartNothing, BeginJob, JobOver, NoJob, Throws, Destructor, Ask,
         NothingToStop
    <3> QED
      BY <3>1, SameSeen
  <2> QED
    BY <2>1, <2>2
<1>4. client'.pc \notin StopAsked \cup {"release"}
  BY <1>2 DEF Bound
<1> QED
  BY <1>1, <1>2, <1>3, <1>4, QuietVisible, QuietStops

(* ProgressStop asks, and stores the answer. *)
LEMMA DecideVisible ==
  ASSUME Away, Decide \/ Decided
  PROVE  Stopping' /\ \A s \in Show : Visible(s)'
<1>1. UNCHANGED <<ui, thread, screen, quit>> /\ client.show \in Show /\ client'.show = client.show
      /\ client.pc \in {"verdict", "deciding"} /\ client'.pc \in {"deciding", "stop"}
  BY AwayTypes DEF Decide, Decided, ClientAt, ClientTo, env, Away, Inv, ClientKeeps
<1>2. \A s \in Show : Seen(object[s], object'[s])
  <2>1. CASE Decided
    <3>1. Stores("client", client.show)
      BY <2>1 DEF Decided
    <3> QED
      BY <1>1, <3>1, AwayTypes, StoresFields DEF Actor
  <2>2. CASE Decide
    BY <2>2, SameSeen DEF Decide
  <2> QED
    BY <2>1, <2>2
<1>3. /\ told'[client.show] # "none"
      /\ \A s \in Show : s # client.show => told'[s] = told[s]
  <2>1. CASE Decide
    <3>1. PICK v \in {"yes", "no"} : told' = [told EXCEPT ![client.show] = v]
      BY <2>1 DEF Decide
    <3> QED
      BY <1>1, <3>1, AwayTypes
  <2>2. CASE Decided
    <3>1. told' = told /\ client.pc = "deciding"
      BY <2>2 DEF Decided, ClientAt, ghosts
    <3> QED
      BY <3>1 DEF Away, Stopping, StopAsked
  <2> QED
    BY <2>1, <2>2
<1>4. object[client.show].life = "alive"
  <2>1. ClientHolds(client.show)
    BY <1>1 DEF ClientHolds, Away, Inv, ClientKeeps
  <2> QED
    BY <1>1, <2>1 DEF Away, Inv, Counted
<1>5. Stopping'
  BY <1>1, <1>3 DEF Stopping
<1>6. ASSUME NEW s \in Show PROVE Visible(s)'
  <2>1. Visible(s) /\ Seen(object[s], object'[s])
    BY <1>2, AwayTypes
  <2> QED
    BY <1>1, <1>3, <1>4, <2>1 DEF Visible, Seen, Off, StopAsked
<1> QED
  BY <1>5, <1>6

(* A new indicator has told nobody anything. *)
LEMMA StartVisible ==
  ASSUME Away, NEW s \in Show, StartDialog(s) \/ StartBar(s)
  PROVE  Stopping' /\ \A t \in Show : Visible(t)'
<1>1. PICK threaded \in BOOLEAN :
        /\ Set(s, Created(threaded))
        /\ client'.show = s /\ client'.pc \in {"pump", "up"}
        /\ ui = "dialog" /\ threaded => client'.pc = "pump"
        /\ \/ ui = "dialog" /\ threaded /\ ThreadTo(s, "begin")
           \/ ui = "bar" /\ threaded /\ thread' = [thread EXCEPT ![s] = "wait"]
           \/ ~threaded /\ thread' = [thread EXCEPT ![s] = thread[s]]
  BY AwayTypes DEF StartDialog, StartBar, ThreadTo
<1>2. UNCHANGED <<ui, screen, told, quit>> /\ client.pc = "idle"
      /\ object[s].life = "unborn" /\ thread[s] = "none" /\ s \in Nat
  BY DEF StartDialog, StartBar, env, ghosts, ClientAt, Fresh, Away, Inv, Counted, Show
<1>3. told[s] = "none" /\ screen[s].window # "open"
  BY <1>2, AwayTypes DEF Visible
<1>4. /\ object'[s] = Created(threaded) /\ \A t \in Show : t # s => object'[t] = object[t]
      /\ object'[s].life = "alive" /\ object'[s].trigger = "unset"
      /\ object'[s].window = (ui = "bar" /\ threaded)
  BY <1>1, AwayTypes, CreatedType, CreatedFields, SetFacts
<1>5. \A t \in Show : t # s => thread'[t] = thread[t]
  BY <1>1, AwayTypes DEF ThreadTo
<1>6. Stopping'
  BY <1>1 DEF Stopping, StopAsked
<1>7. ASSUME NEW t \in Show, t # s PROVE Visible(t)'
  <2>1. Visible(t)
    BY AwayTypes
  <2> QED
    BY <1>1, <1>2, <1>4, <1>5, <1>7, <2>1 DEF Visible, Off, StopAsked
<1>8. Visible(s)'
  <2>1. CASE ui = "dialog" /\ threaded /\ ThreadTo(s, "begin")
    <3>1. thread'[s] = "begin"
      BY <2>1, AwayTypes DEF ThreadTo
    <3> QED
      BY <1>1, <1>2, <1>3, <1>4, <2>1, <3>1 DEF Visible
  <2>2. CASE ui = "bar" /\ threaded /\ thread' = [thread EXCEPT ![s] = "wait"]
    <3>1. thread'[s] = "wait"
      BY <2>2, AwayTypes
    <3> QED
      BY <1>1, <1>2, <1>3, <1>4, <2>2, <3>1 DEF Visible
  <2>3. CASE ~threaded /\ thread' = [thread EXCEPT ![s] = thread[s]]
    <3>1. thread'[s] = "none"
      BY <1>2, <2>3, AwayTypes
    <3> QED
      BY <1>1, <1>2, <1>3, <1>4, <2>3, <3>1 DEF Visible
  <2> QED
    BY <1>1, <2>1, <2>2, <2>3
<1> QED
  BY <1>6, <1>7, <1>8

(* The handshake ends when the window is there, or cannot be, or on WM_QUIT. *)
LEMMA StartedVisible == ASSUME Away, Started PROVE Stopping' /\ \A s \in Show : Visible(s)'
<1> DEFINE c == client.show
           r == [object[c] EXCEPT !.trigger = "closed"]
<1>1. /\ c \in Show /\ client.pc = "pump" /\ client'.pc = "up" /\ client'.show = c
      /\ UNCHANGED <<ui, thread, screen, told, quit>>
      /\ object[c].trigger = "set" \/ quit
      /\ Set(c, r)
  BY AwayTypes DEF Started, ClientAt, ClientTo, env, ghosts, Away, Inv, ClientKeeps
<1>2. r \in Object /\ Drawn(object[c], r) /\ r.life = object[c].life
  BY <1>1, AwayTypes, Updates, Fields
<1> HIDE DEF r
<1>3. object'[c] = r /\ \A t \in Show : t # c => object'[t] = object[t]
  BY <1>1, <1>2, AwayTypes, SetFacts
<1>4. Stopping'
  BY <1>1 DEF Stopping, StopAsked
<1> HIDE DEF c
<1>5. ASSUME NEW s \in Show PROVE Visible(s)'
  <2>1. Visible(s) /\ object'[s].window = object[s].window /\ object'[s].life = object[s].life
    BY <1>2, <1>3, AwayTypes DEF Drawn
  <2>2. thread[s] \in {"begin", "creating", "created"} => quit
    <3>1. CASE s = c
      BY <1>1, <2>1, <3>1 DEF Visible
    <3>2. CASE s # c
      BY <1>1, <2>1, <3>2 DEF Visible, c
    <3> QED
      BY <3>1, <3>2
  <2> QED
    BY <1>1, <2>1, <2>2 DEF Visible, Off, StopAsked, c
<1> QED
  BY <1>4, <1>5

(* ProgressStop: the thread is told to go, and has gone when it returns. *)
LEMMA ForgetVisible == ASSUME Away, StopForgets PROVE Stopping' /\ \A s \in Show : Visible(s)'
<1> DEFINE c == client.show
           r == [object[c] EXCEPT !.window = FALSE, !.running = FALSE]
<1>1. /\ c \in Show /\ client.pc = "stop" /\ client'.show = c
      /\ object[c].window => client'.pc \in {"send", "join"}
      /\ ~object[c].window => client'.pc = "release"
      /\ client'.pc \in {"send", "join", "release"}
      /\ UNCHANGED <<ui, thread, screen, told, quit>>
      /\ Set(c, r)
  BY AwayTypes DEF StopForgets, ClientAt, ClientTo, env, ghosts, Away, Inv, ClientKeeps
<1>2. r \in Object /\ r.window = FALSE /\ r.trigger = object[c].trigger /\ r.life = object[c].life
  BY <1>1, AwayTypes, Updates, Fields
<1> HIDE DEF r
<1>3. object'[c] = r /\ \A t \in Show : t # c => object'[t] = object[t]
  BY <1>1, <1>2, AwayTypes, SetFacts
<1>4. Stopping'
  BY <1>1 DEF Away, Stopping, StopAsked
<1> HIDE DEF c
<1>5. ASSUME NEW s \in Show PROVE Visible(s)'
  <2>0. Visible(s) /\ thread[s] \in ThreadPc
    BY AwayTypes
  <2>1. CASE s # c
    BY <1>1, <1>3, <2>0, <2>1 DEF Visible, Off, StopAsked, c
  <2>2. CASE s = c
    <3>1. client'.pc = "release" => quit \/ Off(s)
      BY <1>1, <2>0, <2>2 DEF Visible, Off, ThreadPc
    <3> QED
      BY <1>1, <1>2, <1>3, <2>0, <2>2, <3>1 DEF Visible, Off, StopAsked
  <2> QED
    BY <2>1, <2>2
<1> QED
  BY <1>4, <1>5

LEMMA JoinVisible ==
  ASSUME Away, Joined \/ ClientReleases PROVE Stopping' /\ \A s \in Show : Visible(s)'
<1>1. /\ client.show \in Show /\ client.pc \in {"join", "release"}
      /\ UNCHANGED <<ui, thread, screen, told, quit>>
      /\ client.pc = "join" => thread[client.show] = "gone" /\ object' = object
                               /\ client'.show = client.show /\ client'.pc = "release"
      /\ client.pc = "release" => client'.pc = "idle"
                                  /\ Set(client.show, Released(object[client.show]))
  BY AwayTypes DEF Joined, ClientReleases, ClientAt, ClientTo, ThreadAt, env, ghosts, Away, Inv,
     ClientKeeps
<1>2. told[client.show] # "none"
  BY <1>1 DEF Away, Stopping, StopAsked
<1>3. Stopping'
  BY <1>1, <1>2 DEF Stopping, StopAsked
<1>4. quit \/ Off(client.show)
  <2>1. CASE client.pc = "join"
    BY <1>1, <2>1 DEF Off
  <2>2. CASE client.pc = "release"
    BY <1>1, <1>2, <2>2, AwayTypes DEF Visible, StopAsked
  <2> QED
    BY <1>1, <2>1, <2>2
<1>5. /\ \A t \in Show : t # client.show => object'[t] = object[t]
      /\ object'[client.show].life # "unborn"
  <2>0. ClientHolds(client.show)
    BY <1>1 DEF ClientHolds, Away, Inv, ClientKeeps
  <2>1. CASE client.pc = "join"
    BY <1>1, <2>0, <2>1 DEF Away, Inv, Counted
  <2>2. CASE client.pc = "release"
    BY <1>1, <2>0, <2>2, ReleaseFacts DEF Away
  <2> QED
    BY <1>1, <2>1, <2>2
<1>6. ASSUME NEW s \in Show PROVE Visible(s)'
  <2>0. Visible(s)
    BY AwayTypes
  <2>1. CASE s # client.show
    BY <1>1, <1>5, <2>0, <2>1 DEF Visible, Off, StopAsked
  <2>2. CASE s = client.show
    BY <1>1, <1>4, <1>5, <2>0, <2>2 DEF Visible, Off, StopAsked
  <2> QED
    BY <2>1, <2>2
<1> QED
  BY <1>3, <1>6

(* What a step of an indicator's thread does to the others' is nothing. *)
LEMMA ThreadAlone ==
  ASSUME Away, NEW s \in Show, NEW l \in ThreadPc, ThreadTo(s, l), NEW r \in Object, Set(s, r)
  PROVE  /\ thread'[s] = l /\ object'[s] = r
         /\ \A t \in Show : t # s => thread'[t] = thread[t] /\ object'[t] = object[t]
BY AwayTypes, ToFacts, SetFacts

LEMMA OthersVisible ==
  ASSUME Away, NEW t \in Show, thread'[t] = thread[t], screen'[t].window = screen[t].window,
         object'[t] = object[t], UNCHANGED <<ui, quit, told>>,
         client' = client \/ (client.show # t /\ client'.show # t)
  PROVE  Visible(t)'
BY AwayTypes DEF Visible, Off, StopAsked

(* The thread's own part, up to the loop. *)
LEMMA OpeningVisible ==
  ASSUME Away, NEW s \in Show, CopyParams(s) \/ CreateWindow(s) \/ SignalStart(s) \/ CreateFails(s)
  PROVE  Stopping' /\ \A t \in Show : Visible(t)'
<1>0. /\ UNCHANGED <<ui, quit, told, client>> /\ object[s] \in Object
      /\ Visible(s) /\ thread[s] \in {"begin", "creating", "created"}
      /\ object[s].life = "alive"
  BY AwayTypes DEF CopyParams, CreateWindow, SignalStart, CreateFails, ThreadAt, env, ghosts, Away,
     Inv, Counted, ThreadHolds
<1>1. Stopping'
  BY <1>0, QuietStops
<1>2. CASE CopyParams(s)
  <2>1. /\ UNCHANGED <<object, screen>> /\ thread[s] = "begin"
        /\ ThreadTo(s, "creating") \/ (ThreadTo(s, "lost") /\ ~(client.pc = "pump" /\ client.show = s))
    BY <1>2 DEF CopyParams, ThreadAt
  <2>2. /\ \A t \in Show : t # s => thread'[t] = thread[t]
        /\ thread'[s] \in {"creating", "lost"}
        /\ thread'[s] = "lost" => ~(client.pc = "pump" /\ client.show = s)
    BY <2>1, AwayTypes DEF ThreadTo
  <2>3. Visible(s)'
    BY <1>0, <2>1, <2>2 DEF Visible, Off, StopAsked
  <2>4. ASSUME NEW t \in Show, t # s PROVE Visible(t)'
    BY <1>0, <2>1, <2>2, <2>4, OthersVisible
  <2> QED
    BY <1>1, <2>3, <2>4
<1>3. CASE CreateWindow(s)
  <2> DEFINE r == [object[s] EXCEPT !.window = TRUE, !.dirty = FALSE]
  <2>1. /\ thread[s] = "creating" /\ ThreadTo(s, "created") /\ Set(s, r) /\ r \in Object
        /\ r.window = TRUE /\ r.trigger = object[s].trigger /\ r.life = object[s].life
    BY <1>0, <1>3, Updates, Fields DEF CreateWindow, ThreadAt
  <2>2. screen'[s].window = "open" /\ \A t \in Show : t # s => screen'[t] = screen[t]
    BY <1>3, AwayTypes DEF CreateWindow
  <2> HIDE DEF r
  <2>3. /\ thread'[s] = "created" /\ object'[s] = r
        /\ \A t \in Show : t # s => thread'[t] = thread[t] /\ object'[t] = object[t]
    BY <2>1, ThreadAlone DEF ThreadPc
  <2>4. Visible(s)'
    BY <1>0, <2>1, <2>2, <2>3 DEF Visible, Off, StopAsked
  <2>5. ASSUME NEW t \in Show, t # s PROVE Visible(t)'
    BY <1>0, <2>2, <2>3, <2>5, OthersVisible
  <2> QED
    BY <1>1, <2>4, <2>5
<1>4. CASE SignalStart(s) \/ CreateFails(s)
  <2> DEFINE r == Triggered(object[s])
  <2>1. /\ Set(s, r) /\ r \in Object /\ screen' = screen
        /\ Drawn(object[s], r) /\ r.life = object[s].life
        /\ \/ thread[s] = "created" /\ ThreadTo(s, "loop")
           \/ thread[s] = "creating" /\ ThreadTo(s, "release")
    BY <1>0, <1>4, Updates, Fields DEF SignalStart, CreateFails, ThreadAt
  <2> HIDE DEF r
  <2>2. /\ object'[s] = r
        /\ \/ thread[s] = "created" /\ thread'[s] = "loop"
           \/ thread[s] = "creating" /\ thread'[s] = "release"
        /\ \A t \in Show : t # s => thread'[t] = thread[t] /\ object'[t] = object[t]
    BY <2>1, ThreadAlone DEF ThreadPc
  <2>3. Visible(s)'
    BY <1>0, <2>1, <2>2 DEF Visible, Off, StopAsked, Drawn
  <2>4. ASSUME NEW t \in Show, t # s PROVE Visible(t)'
    BY <1>0, <2>1, <2>2, <2>4, OthersVisible
  <2> QED
    BY <1>1, <2>3, <2>4
<1> QED
  BY <1>2, <1>3, <1>4

(* The thread's end, and the bar's rounds. *)
LEMMA ClosingVisible ==
  ASSUME Away, NEW s \in Show, HandleDestroy(s) \/ LeaveLoop(s) \/ ThreadReleases(s)
  PROVE  Stopping' /\ \A t \in Show : Visible(t)'
<1>0. /\ UNCHANGED <<ui, quit, told>> /\ object[s] \in Object /\ Visible(s)
      /\ thread[s] \in {"loop", "woken", "release"} /\ object[s].life = "alive"
  BY AwayTypes DEF HandleDestroy, LeaveLoop, ThreadReleases, ThreadAt, env, ghosts, Away,
     Inv, Counted, ThreadHolds
<1>1. CASE HandleDestroy(s)
  <2> DEFINE r == [object[s] EXCEPT !.window = FALSE]
  <2>1. /\ ThreadTo(s, "woken") /\ Set(s, r) /\ r \in Object
        /\ r.window = FALSE /\ r.life = object[s].life
        /\ client.show = s /\ client'.show = s /\ client.pc = "send" /\ client'.pc = "release"
        /\ thread[s] = "loop"
    BY <1>0, <1>1, Updates, Fields, AwayTypes DEF HandleDestroy, ClientAt, ClientTo, ThreadAt
  <2>2. screen'[s].window = "closed" /\ \A t \in Show : t # s => screen'[t] = screen[t]
    BY <1>1, AwayTypes DEF HandleDestroy, Closed
  <2> HIDE DEF r
  <2>3. /\ thread'[s] = "woken" /\ object'[s] = r
        /\ \A t \in Show : t # s => thread'[t] = thread[t] /\ object'[t] = object[t]
    BY <2>1, ThreadAlone DEF ThreadPc
  <2>4. Visible(s)'
    BY <1>0, <2>1, <2>2, <2>3 DEF Visible, Off
  <2>5. ASSUME NEW t \in Show, t # s PROVE Visible(t)'
    BY <1>0, <2>1, <2>2, <2>3, <2>5, OthersVisible
  <2>6. Stopping'
    BY <1>0, <2>1 DEF Away, Stopping, StopAsked
  <2> QED
    BY <2>4, <2>5, <2>6
<1>2. CASE LeaveLoop(s)
  <2>1. /\ UNCHANGED <<object, screen, client>> /\ thread[s] = "woken" /\ thread'[s] = "release"
        /\ \A t \in Show : t # s => thread'[t] = thread[t]
    BY <1>2, AwayTypes DEF LeaveLoop, ThreadAt, ThreadTo
  <2>2. Visible(s)'
    BY <1>0, <2>1 DEF Visible, Off
  <2>3. ASSUME NEW t \in Show, t # s PROVE Visible(t)'
    BY <1>0, <2>1, <2>3, OthersVisible
  <2> QED
    BY <1>0, <2>1, <2>2, <2>3, QuietStops
<1>3. CASE ThreadReleases(s)
  <2>1. /\ UNCHANGED <<screen, client>> /\ thread[s] = "release" /\ thread'[s] = "gone"
        /\ \A t \in Show : t # s => thread'[t] = thread[t]
        /\ Set(s, Released(object[s]))
    BY <1>3, AwayTypes DEF ThreadReleases, ThreadAt, ThreadTo
  <2>2. /\ object'[s].life # "unborn"
        /\ \A t \in Show : t # s => object'[t] = object[t]
    <3>1. ThreadHolds(s)
      BY <2>1 DEF ThreadHolds
    <3> QED
      BY <2>1, <3>1, ReleaseFacts DEF Away
  <2>3. Visible(s)'
    BY <1>0, <2>1, <2>2 DEF Visible, Off
  <2>4. ASSUME NEW t \in Show, t # s PROVE Visible(t)'
    BY <1>0, <2>1, <2>2, <2>4, OthersVisible
  <2> QED
    BY <1>0, <2>1, <2>3, <2>4, QuietStops
<1> QED
  BY <1>1, <1>2, <1>3

LEMMA BarVisible ==
  ASSUME Away, NEW s \in Show, BarWakes(s) \/ BarPaints(s) \/ BarEnds(s)
  PROVE  Stopping' /\ \A t \in Show : Visible(t)'
<1>0. /\ UNCHANGED <<ui, quit, told, client>> /\ Visible(s)
      /\ thread[s] \in {"wait", "paint"}
  BY AwayTypes DEF BarWakes, BarPaints, BarEnds, ThreadAt, env, ghosts
<1>1. \A t \in Show : Seen(object[t], object'[t])
  <2>1. CASE BarPaints(s)
    BY <2>1, AwayTypes, StoresFields DEF BarPaints, Actor
  <2>2. CASE BarWakes(s) \/ BarEnds(s)
    BY <2>2, SameSeen DEF BarWakes, BarEnds
  <2> QED
    BY <2>1, <2>2
<1>2. /\ \A t \in Show : t # s => thread'[t] = thread[t] /\ screen'[t].window = screen[t].window
      /\ \/ thread'[s] \in {"wait", "paint"}
         \/ thread'[s] = "release" /\ screen'[s].window = "closed"
  <2>1. CASE BarWakes(s)
    BY <2>1, AwayTypes DEF BarWakes, ThreadTo
  <2>2. CASE BarPaints(s)
    <3>1. PICK v : screen' = [screen EXCEPT ![s] = v]
      BY <2>2 DEF BarPaints
    <3> QED
      BY <2>2, <3>1, AwayTypes DEF BarPaints, ThreadTo
  <2>3. CASE BarEnds(s)
    BY <2>3, AwayTypes DEF BarEnds, ThreadTo, Closed
  <2> QED
    BY <2>1, <2>2, <2>3
<1>3. Visible(s)'
  BY <1>0, <1>1, <1>2 DEF Visible, Off, StopAsked, Seen
<1>4. ASSUME NEW t \in Show, t # s PROVE Visible(t)'
  <2>1. Visible(t) /\ Seen(object[t], object'[t])
    BY <1>1, AwayTypes
  <2> QED
    BY <1>0, <1>2, <1>4, <2>1 DEF Visible, Off, StopAsked, Seen
<1> QED
  BY <1>0, <1>3, <1>4, QuietStops

LEMMA NextVisible ==
  ASSUME Away, [Next]_vars PROVE Stopping' /\ \A s \in Show : Visible(s)'
BY OtherVisible, ReportVisible, UpdateVisible, RoamVisible, DecideVisible, StartVisible,
   StartedVisible, ForgetVisible, JoinVisible, OpeningVisible, ClosingVisible, BarVisible
   DEF Next, Client, Reporter, User, Thread

-----------------------------------------------------------------------------
LEMMA QuietPicture ==
  ASSUME Away, NEW s \in Show, ui' = ui, screen'[s] = screen[s], Drawn(object[s], object'[s]),
         \/ reporter' = reporter
         \/ reporter'.pc \notin {"locked", "send", "asking"}
         \/ reporter'.show # s
  PROVE  Pictured(s)'
BY AwayTypes DEF Pictured, Drawn

LEMMA NoWindowNoPicture ==
  ASSUME NEW s \in Show, object'[s].window = FALSE PROVE Pictured(s)'
BY DEF Pictured

LEMMA SameDrawn == \A x : Drawn(x, x)
BY DEF Drawn

(* Only the dialog is pictured. *)
LEMMA BarPictured ==
  ASSUME ui = "bar", ui' = ui, NEW s PROVE Pictured(s)'
BY DEF Pictured

(* Steps that do not touch an indicator, nor the report of its progress. *)
LEMMA OtherPictures ==
  ASSUME Away, \/ ReportBegins \/ ReporterLost \/ AskBegins \/ ReporterLooks \/ JobEnds
               \/ PressEscape \/ PostQuit \/ PostThreadMessage
               \/ StartAgain \/ StartNothing \/ BeginJob \/ JobOver \/ NoJob \/ Throws \/ Destructor
               \/ Ask \/ NothingToStop \/ Decide \/ Joined
               \/ (\E s \in Show : CopyParams(s) \/ LeaveLoop(s))
               \/ UNCHANGED vars
  PROVE  \A s \in Show : Pictured(s)'
<1>1. UNCHANGED <<ui, object, screen>>
  BY DEF ReportBegins, ReporterLost, AskBegins, ReporterLooks, JobEnds, PressEscape, PostQuit,
     PostThreadMessage, StartAgain, StartNothing, BeginJob, JobOver, NoJob, Throws, Destructor,
     Ask, NothingToStop, Decide, Joined, CopyParams, LeaveLoop, vars, env
<1>2. reporter' = reporter \/ reporter'.pc \notin {"locked", "send", "asking"}
  <2>0. reporter \in [pc : ReporterPc, show : Show \cup {None}, window : BOOLEAN]
    BY AwayTypes DEF TypeOK
  <2>1. CASE ReportBegins
    BY <2>0, <2>1 DEF ReportBegins
  <2>2. CASE ReporterLost \/ ReporterLooks \/ JobEnds
    BY <2>0, <2>2 DEF ReporterLost, ReporterLooks, JobEnds, ReporterTo
  <2>3. CASE AskBegins
    BY <2>3 DEF AskBegins, ReporterLeaves
  <2>4. CASE BeginJob
    BY <2>4 DEF BeginJob
  <2>5. CASE ~(ReportBegins \/ ReporterLost \/ ReporterLooks \/ JobEnds \/ AskBegins \/ BeginJob)
    BY <2>5 DEF PressEscape, PostQuit, PostThreadMessage, StartAgain, StartNothing, JobOver, NoJob,
       Throws, Destructor, Ask, NothingToStop, Decide, Joined, CopyParams, LeaveLoop, vars
  <2> QED
    BY <2>1, <2>2, <2>3, <2>4, <2>5
<1> QED
  BY <1>1, <1>2, QuietPicture, SameDrawn

(* What the bar's thread does is not about a dialog, and an answer stores     *)
(* nothing in one.                                                            *)
LEMMA AnsweredPictures ==
  ASSUME Away, \/ Answered \/ Decided \/ ReporterAnswered
               \/ (\E s \in Show : BarWakes(s) \/ BarPaints(s) \/ BarEnds(s))
  PROVE  \A s \in Show : Pictured(s)'
<1>0. ui' = ui /\ ui \in {"dialog", "bar"}
  BY AwayTypes, ProgressAssumption DEF Answered, Decided, ReporterAnswered, BarWakes, BarPaints,
     BarEnds, env, TypeOK
<1>1. CASE ui = "bar"
  BY <1>0, <1>1, BarPictured
<1>2. CASE ui = "dialog"
  <2>1. ~ \E s \in Show : BarWakes(s) \/ BarPaints(s) \/ BarEnds(s)
    BY <1>2, AwayTypes DEF BarWakes, BarPaints, BarEnds, ThreadAt, Visible
  <2>2. \E a \in Actor, s \in Show : Stores(a, s)
    BY <2>1 DEF Answered, Decided, ReporterAnswered, ClientAt, ReporterAt, Away, Inv, ClientKeeps,
       ReporterKeeps, Actor
  <2>3. object' = object
    BY <1>2, <2>2, AwayTypes, StoresFields
  <2>4. screen' = screen /\ (reporter' = reporter \/ reporter'.pc \notin {"locked", "send", "asking"})
    BY <2>1 DEF Answered, Decided, ReporterAnswered, ReporterLeaves
  <2> QED
    BY <1>0, <2>3, <2>4, QuietPicture, SameDrawn
<1> QED
  BY <1>0, <1>1, <1>2

(* The client opens and closes. *)
LEMMA ClientPictures ==
  ASSUME Away, \/ (\E s \in Show : StartDialog(s) \/ StartBar(s))
               \/ Started \/ StopForgets \/ ClientReleases
  PROVE  \A s \in Show : Pictured(s)'
<1>0. UNCHANGED <<ui, screen, reporter>>
  BY DEF StartDialog, StartBar, Started, StopForgets, ClientReleases, env
<1>1. ASSUME NEW s \in Show, StartDialog(s) \/ StartBar(s) PROVE \A t \in Show : Pictured(t)'
  <2>1. CASE StartBar(s)
    BY <1>0, <2>1, BarPictured DEF StartBar
  <2>2. CASE StartDialog(s)
    <3>1. PICK threaded \in BOOLEAN : Set(s, Created(threaded))
      BY <2>2 DEF StartDialog
    <3>2. ui = "dialog"
      BY <2>2 DEF StartDialog
    <3>3. object'[s].window = FALSE /\ \A t \in Show : t # s => object'[t] = object[t]
      BY <3>1, <3>2, AwayTypes, CreatedType, CreatedFields, SetFacts
    <3> QED
      BY <1>0, <3>3, QuietPicture, NoWindowNoPicture, SameDrawn
  <2> QED
    BY <1>1, <2>1, <2>2
<1>2. CASE Started \/ StopForgets
  <2> DEFINE c == client.show
             r == IF Started THEN [object[c] EXCEPT !.trigger = "closed"]
                  ELSE [object[c] EXCEPT !.window = FALSE, !.running = FALSE]
  <2>1. c \in Show
    BY <1>2 DEF Started, StopForgets, ClientAt, Away, Inv, ClientKeeps
  <2>2. r \in Object /\ (Drawn(object[c], r) \/ r.window = FALSE)
    <3>1. object[c] \in Object
      BY <2>1, AwayTypes
    <3>2. CASE Started
      BY <3>1, <3>2, Updates, Fields
    <3>3. CASE ~Started
      BY <3>1, <3>3, Updates, Fields
    <3> QED
      BY <3>2, <3>3
  <2>3. Set(c, r)
    BY <1>2 DEF Started, StopForgets
  <2> HIDE DEF c, r
  <2>4. object'[c] = r /\ \A t \in Show : t # c => object'[t] = object[t]
    BY <2>1, <2>2, <2>3, AwayTypes, SetFacts
  <2> QED
    BY <1>0, <2>1, <2>2, <2>4, QuietPicture, NoWindowNoPicture, SameDrawn
<1>3. CASE ClientReleases
  <2> DEFINE c == client.show
  <2>1. c \in Show /\ ClientHolds(c) /\ Set(c, Released(object[c]))
    BY <1>3 DEF ClientReleases, ClientAt, ClientHolds, Away, Inv, ClientKeeps
  <2>2. object[c] \in Object /\ object[c].references \in 1..2
    BY <2>1, CountedFacts DEF Away
  <2>3. Drawn(object[c], Released(object[c])) \/ Released(object[c]).window = FALSE
    BY <2>2, ReleasedFields
  <2> HIDE DEF c
  <2>4. object'[c] = Released(object[c]) /\ \A t \in Show : t # c => object'[t] = object[t]
    BY <2>1, <2>2, AwayTypes, ReleasedType, SetFacts
  <2> QED
    BY <1>0, <2>1, <2>3, <2>4, QuietPicture, NoWindowNoPicture, SameDrawn
<1> QED
  BY <1>1, <1>2, <1>3

(* The dialog's thread opens, closes, and takes a cancel. *)
LEMMA ThreadPictures ==
  ASSUME Away, NEW s \in Show, \/ CreateWindow(s) \/ SignalStart(s) \/ CreateFails(s)
                               \/ HandleDestroy(s) \/ HandleCancel(s) \/ ThreadReleases(s)
  PROVE  \A t \in Show : Pictured(t)'
<1>0. UNCHANGED <<ui, reporter>> /\ object[s] \in Object
  BY AwayTypes DEF CreateWindow, SignalStart, CreateFails, HandleDestroy, HandleCancel,
     ThreadReleases, env
<1>1. CASE CreateWindow(s)
  <2> DEFINE r == [object[s] EXCEPT !.window = TRUE, !.dirty = FALSE]
  <2>1. r \in Object /\ r.value = object[s].value /\ Set(s, r)
    BY <1>0, <1>1, Updates, Fields DEF CreateWindow
  <2> HIDE DEF r
  <2>2. object'[s] = r /\ \A t \in Show : t # s => object'[t] = object[t]
    BY <2>1, AwayTypes, SetFacts
  <2>3. /\ screen'[s].window = "open" /\ screen'[s].value = object[s].value
        /\ \A t \in Show : t # s => screen'[t] = screen[t]
    BY <1>1, AwayTypes DEF CreateWindow
  <2>4. Pictured(s)'
    BY <2>1, <2>2, <2>3 DEF Pictured
  <2> QED
    BY <1>0, <2>2, <2>3, <2>4, QuietPicture, SameDrawn
<1>2. CASE SignalStart(s) \/ CreateFails(s)
  <2> DEFINE r == Triggered(object[s])
  <2>1. r \in Object /\ Drawn(object[s], r) /\ Set(s, r) /\ screen' = screen
    BY <1>0, <1>2, Updates, Fields DEF SignalStart, CreateFails
  <2> HIDE DEF r
  <2>2. object'[s] = r /\ \A t \in Show : t # s => object'[t] = object[t]
    BY <2>1, AwayTypes, SetFacts
  <2> QED
    BY <1>0, <2>1, <2>2, QuietPicture, SameDrawn
<1>3. CASE HandleDestroy(s)
  <2> DEFINE r == [object[s] EXCEPT !.window = FALSE]
  <2>1. r \in Object /\ r.window = FALSE /\ Set(s, r)
    BY <1>0, <1>3, Updates, Fields DEF HandleDestroy
  <2> HIDE DEF r
  <2>2. object'[s] = r /\ \A t \in Show : t # s => object'[t] = object[t]
    BY <2>1, AwayTypes, SetFacts
  <2>3. \A t \in Show : t # s => screen'[t] = screen[t]
    BY <1>3, AwayTypes DEF HandleDestroy
  <2> QED
    BY <1>0, <2>1, <2>2, <2>3, QuietPicture, NoWindowNoPicture, SameDrawn
<1>4. CASE HandleCancel(s)
  <2> DEFINE r == [object[s] EXCEPT !.cancelled = TRUE]
  <2>1. r \in Object /\ Seen(object[s], r) /\ r.cancelled /\ Set(s, r) /\ screen' = screen
    BY <1>0, <1>4, Updates, Fields DEF HandleCancel
  <2> HIDE DEF r
  <2>2. object'[s] = r /\ \A t \in Show : t # s => object'[t] = object[t]
    BY <2>1, AwayTypes, SetFacts
  <2>3. Pictured(s)'
    BY <1>0, <2>1, <2>2, AwayTypes DEF Pictured, Seen
  <2> QED
    BY <1>0, <2>1, <2>2, <2>3, QuietPicture, SameDrawn
<1>5. CASE ThreadReleases(s)
  <2>1. ThreadHolds(s) /\ Set(s, Released(object[s])) /\ screen' = screen
    BY <1>5 DEF ThreadReleases, ThreadAt, ThreadHolds
  <2>2. object[s].references \in 1..2
    BY <2>1, CountedFacts DEF Away
  <2>3. Drawn(object[s], Released(object[s])) \/ Released(object[s]).window = FALSE
    BY <1>0, <2>2, ReleasedFields
  <2>4. object'[s] = Released(object[s]) /\ \A t \in Show : t # s => object'[t] = object[t]
    BY <1>0, <2>1, <2>2, AwayTypes, ReleasedType, SetFacts
  <2> QED
    BY <1>0, <2>1, <2>3, <2>4, QuietPicture, NoWindowNoPicture, SameDrawn
<1> QED
  BY <1>1, <1>2, <1>3, <1>4, <1>5

(* A report: the value is stored, the message is sent, the window is painted. *)
LEMMA ReportPictures ==
  ASSUME Away, \/ SetProgress \/ Unlocked \/ ReporterSendFails
               \/ (\E s \in Show : HandleUpdate(s))
  PROVE  \A t \in Show : Pictured(t)'
<1>s. PICK s \in Show : s = reporter.show
  BY DEF SetProgress, Unlocked, ReporterSendFails, HandleUpdate, ReporterAt, Away, Inv,
     ReporterKeeps
<1>0. /\ ui' = ui /\ s \in Show /\ object[s] \in Object /\ reporter'.show = s
      /\ reporter \in [pc : ReporterPc, show : Show \cup {None}, window : BOOLEAN]
  BY <1>s, AwayTypes DEF SetProgress, Unlocked, ReporterSendFails, HandleUpdate, ReporterAt, ReporterTo,
     env, Away, Inv, ReporterKeeps, TypeOK
<1>1. CASE SetProgress
  <2> DEFINE r == [object[s] EXCEPT !.value = @ + 1, !.dirty = TRUE]
  <2>1. object[s].value < Reports
    BY <1>s, <1>1 DEF SetProgress, ReporterAt, Away, Inv, ReporterKeeps
  <2>2. r \in Object /\ Seen(object[s], r) /\ r.dirty = TRUE
    BY <1>s, <1>0, <2>1, Reported, Fields
  <2>3. Set(s, r) /\ screen' = screen
    BY <1>s, <1>1 DEF SetProgress
  <2>4. reporter'.pc = "locked" /\ reporter'.window = (ui = "dialog" /\ object[s].window)
    BY <1>s, <1>0, <1>1 DEF SetProgress
  <2> HIDE DEF r
  <2>5. object'[s] = r /\ \A t \in Show : t # s => object'[t] = object[t]
    BY <1>s, <1>0, <2>2, <2>3, AwayTypes, SetFacts
  <2>6. Pictured(s)'
    BY <1>s, <1>0, <2>2, <2>3, <2>4, <2>5, AwayTypes DEF Pictured, Seen
  <2> QED
    BY <1>s, <1>0, <2>3, <2>5, <2>6, QuietPicture, SameDrawn
<1>2. CASE Unlocked \/ ReporterSendFails
  <2>1. UNCHANGED <<object, screen>>
        /\ \/ reporter.pc = "locked" /\ reporter.window /\ reporter'.pc = "send"
           \/ reporter.pc = "locked" /\ ~reporter.window /\ reporter'.pc = "asking"
           \/ reporter.pc = "send" /\ screen[s].window # "open"
    BY <1>s, <1>0, <1>2 DEF Unlocked, ReporterSendFails, ReporterAt, ReporterTo, Unanswered
  <2>2. Pictured(s)'
    BY <1>s, <1>0, <2>1, AwayTypes DEF Pictured
  <2> QED
    BY <1>s, <1>0, <2>1, <2>2, QuietPicture, SameDrawn
<1>3. CASE \E t \in Show : HandleUpdate(t)
  <2>1. HandleUpdate(s) /\ reporter.pc = "send"
    BY <1>s, <1>3 DEF HandleUpdate, ReporterAt
  <2> DEFINE r == [object[s] EXCEPT !.dirty = FALSE]
             v == IF object[s].dirty /\ ~object[s].cancelled THEN object[s].value ELSE screen[s].value
  <2>2. /\ r \in Object /\ Seen(object[s], r) /\ r.cancelled = object[s].cancelled
        /\ r.value = object[s].value /\ Set(s, r)
    BY <1>s, <1>0, <2>1, Updates, Fields DEF HandleUpdate
  <2>3. screen' = [screen EXCEPT ![s].value = v]
    BY <1>s, <2>1 DEF HandleUpdate
  <2> HIDE DEF r
  <2>4. object'[s] = r /\ \A t \in Show : t # s => object'[t] = object[t]
    BY <1>s, <1>0, <2>2, AwayTypes, SetFacts
  <2>5. /\ screen'[s].value = v /\ screen'[s].window = screen[s].window
        /\ \A t \in Show : t # s => screen'[t] = screen[t]
    <3> HIDE DEF v
    <3> QED
      BY <1>s, <1>0, <2>3, AwayTypes
  <2>6. Pictured(s)'
    BY <1>s, <1>0, <2>1, <2>2, <2>4, <2>5, AwayTypes DEF Pictured, Seen
  <2> QED
    BY <1>s, <1>0, <2>4, <2>5, <2>6, QuietPicture, SameDrawn
<1> QED
  BY <1>1, <1>2, <1>3

LEMMA NextPictures ==
  ASSUME Away, [Next]_vars PROVE \A s \in Show : Pictured(s)'
BY OtherPictures, AnsweredPictures, ClientPictures, ThreadPictures, ReportPictures
   DEF Next, Client, Reporter, User, Thread

LEMMA InitAway == Init => Away
<1> SUFFICES ASSUME Init PROVE Away
  OBVIOUS
<1>1. Inv
  BY InitInv
<1>2. Stopping
  BY DEF Init, Stopping, StopAsked
<1>3. \A s \in Show : Visible(s) /\ Pictured(s)
  BY DEF Init, Visible, Pictured, Blank
<1> QED
  BY <1>1, <1>2, <1>3 DEF Away

LEMMA StepAway == Away /\ [Next]_vars => Away'
<1> SUFFICES ASSUME Away, [Next]_vars PROVE Away'
  OBVIOUS
<1>1. Inv'
  BY StepInv DEF Away
<1> QED
  BY <1>1, NextVisible, NextPictures DEF Away

LEMMA AwayAlways == Spec => []Away
BY InitAway, StepAway, PTL DEF Spec

(* Once ProgressStop has returned, nothing of the indicator is on the screen *)
(* and its thread paints no more, unless the application quits: for either   *)
(* interface, and whenever the window came.                                  *)
(* CProgressDialog.cpp:207-221, 407-414, TProgressBar.cpp:242-259.           *)
THEOREM StoppedIsPutAway == Spec => []PutAway
<1>1. Away => PutAway
  <2> SUFFICES ASSUME Away, NEW s \in Show, told[s] # "none", ~ClientUses(s), ~quit
               PROVE  screen[s].window # "open" /\ Off(s)
    BY DEF PutAway, Off
  <2>1. Off(s)
    BY AwayTypes DEF Visible, ClientUses, StopAsked
  <2> QED
    BY <2>1, AwayTypes DEF Visible, Off
<1> QED
  BY <1>1, AwayAlways, PTL

(* A report that has returned is on the screen, unless the dialog is         *)
(* cancelled: no value that the worker gave is left behind, whoever handled  *)
(* the message, or found no window to send it to.                            *)
(* CProgressDialog.cpp:190-204, 271-303, 401-405.                            *)
THEOREM ShownIsReported == Spec => []ShownIsCurrent
<1>1. Away => ShownIsCurrent
  <2> SUFFICES ASSUME Away, ui = "dialog", reporter.pc = "asking",
                      object[reporter.show].window, ~object[reporter.show].cancelled
               PROVE  screen[reporter.show].value = object[reporter.show].value
    BY DEF ShownIsCurrent
  <2>1. reporter.show \in Show
    BY DEF Away, Inv, ReporterKeeps
  <2> QED
    BY <2>1, AwayTypes DEF Pictured
<1> QED
  BY <1>1, AwayAlways, PTL

-----------------------------------------------------------------------------
(* A cancel is told: from the key or the button to ProgressStop's answer it   *)
(* is in the flag, in the console's buffer, or in the hands of the one thread *)
(* that has just looked.                                                      *)

(* Nobody has to do with an indicator before it is created; and the bar, which*)
(* waits for its thread, has one indicator at a time.                         *)
Owned(s) ==
  /\ object[s].life = "unborn" => ~pressed[s] /\ ~(reporter.pc = "answering" /\ reporter.show = s)
  /\ ui = "bar" =>
       /\ Alive(s) => held = s
       /\ thread[s] \notin {"none", "gone"} =>
            object[s].window \/ (client.pc = "join" /\ client.show = s)
       /\ client.pc = "release" /\ client.show = s => thread[s] \in {"none", "gone"}
       /\ client.pc # "pump"

(* ProgressStop has still to answer for it, and no two polls have overlapped. *)
Pending(s) == told[s] = "none" /\ ~raced[s] /\ ClientHolds(s)

(* Then one thread at a time polls the bar, and does not unsay the flag.      *)
OnePoll(s) ==
  ui = "bar" /\ Pending(s) =>
    \A a \in Actor : Polling(a, s) =>
      /\ \A b \in Actor : Polling(b, s) => b = a
      /\ object[s].cancelled => sample[a]

Caught(s) ==
  pressed[s] /\ Pending(s) =>
    \/ object[s].cancelled
    \/ ui = "bar" /\ (key \/ \E a \in Actor : Polling(a, s) /\ sample[a])

Heard == Away /\ \A s \in Show : Owned(s) /\ OnePoll(s) /\ Caught(s)

LEMMA HeardTypes ==
  ASSUME Heard
  PROVE  /\ Away /\ Inv /\ TypeOK /\ ui \in {"dialog", "bar"}
         /\ object \in [Show -> Object] /\ \A s \in Show : object[s] \in Object
         /\ thread \in [Show -> ThreadPc] /\ told \in [Show -> {"none", "no", "yes"}]
         /\ client \in [pc : ClientPc, show : Show \cup {None}]
         /\ reporter \in [pc : ReporterPc, show : Show \cup {None}, window : BOOLEAN]
         /\ sample \in [Actor -> BOOLEAN] /\ raced \in [Show -> BOOLEAN]
         /\ pressed \in [Show -> BOOLEAN]
         /\ \A s \in Show : Visible(s) /\ Owned(s) /\ OnePoll(s) /\ Caught(s)
         /\ \A s \in Show : ClientHolds(s) \/ ThreadHolds(s) => object[s].life = "alive"
BY ProgressAssumption DEF Heard, Away, Inv, TypeOK, Counted

LEMMA KeepsCancelled ==
  ASSUME NEW x \in Object
  PROVE  /\ [x EXCEPT !.window = FALSE].cancelled = x.cancelled
         /\ [x EXCEPT !.window = FALSE, !.running = FALSE].cancelled = x.cancelled
         /\ [x EXCEPT !.window = TRUE, !.dirty = FALSE].cancelled = x.cancelled
         /\ [x EXCEPT !.value = @ + 1, !.dirty = TRUE].cancelled = x.cancelled
BY DEF Object

(* What a step leaves of an indicator's flag, and of its life. *)
Kept(s) == object'[s].cancelled = object[s].cancelled /\ object'[s].life = object[s].life

LEMMA SetKept ==
  ASSUME Heard, NEW c \in Show, NEW r \in Object, Set(c, r),
         r.cancelled = object[c].cancelled, r.life = object[c].life
  PROVE  \A s \in Show : Kept(s)
BY HeardTypes, SetFacts DEF Kept

(* The steps that change an indicator, and neither its flag nor its life. *)
LEMMA QuietKept ==
  ASSUME Heard, \/ Started \/ StopForgets \/ SetProgress
                \/ \E s \in Show : \/ CreateWindow(s) \/ SignalStart(s) \/ CreateFails(s)
                                   \/ HandleUpdate(s) \/ HandleDestroy(s)
  PROVE  \A s \in Show : Kept(s)
<1>1. CASE Started \/ StopForgets
  <2>1. client.show \in Show /\ object[client.show] \in Object
    BY <1>1, HeardTypes DEF Started, StopForgets, ClientAt, Inv, ClientKeeps
  <2>2. CASE Started
    BY <2>1, <2>2, SetKept, Updates, Fields DEF Started, Drawn
  <2>3. CASE StopForgets
    BY <2>1, <2>3, SetKept, Updates, Fields, KeepsCancelled DEF StopForgets
  <2> QED
    BY <1>1, <2>2, <2>3
<1>2. CASE SetProgress
  <2>1. reporter.show \in Show /\ object[reporter.show].value < Reports
    BY <1>2, HeardTypes DEF SetProgress, ReporterAt, Inv, ReporterKeeps
  <2> DEFINE x == object[reporter.show]
             r == [x EXCEPT !.value = @ + 1, !.dirty = TRUE]
  <2>2. x \in Object
    BY <2>1, HeardTypes
  <2>3. Set(reporter.show, r)
    BY <1>2 DEF SetProgress
  <2>4. r \in Object /\ r.cancelled = x.cancelled /\ r.life = x.life
    <3> HIDE DEF x
    <3> QED
      BY <2>1, <2>2, Reported, Fields, KeepsCancelled DEF Seen, x
  <2> HIDE DEF r
  <2> QED
    BY <2>1, <2>3, <2>4, SetKept
<1>3. ASSUME NEW s \in Show, \/ CreateWindow(s) \/ SignalStart(s) \/ CreateFails(s)
                             \/ HandleUpdate(s) \/ HandleDestroy(s)
      PROVE  \A t \in Show : Kept(t)
  <2>0. object[s] \in Object
    BY HeardTypes
  <2>1. CASE CreateWindow(s)
    BY <2>0, <2>1, SetKept, Updates, Fields, KeepsCancelled DEF CreateWindow
  <2>2. CASE SignalStart(s) \/ CreateFails(s)
    BY <2>0, <2>2, SetKept, Updates, Fields DEF SignalStart, CreateFails, Drawn
  <2>3. CASE HandleUpdate(s)
    BY <2>0, <2>3, SetKept, Updates, Fields DEF HandleUpdate, Seen
  <2>4. CASE HandleDestroy(s)
    BY <2>0, <2>4, SetKept, Updates, Fields, KeepsCancelled DEF HandleDestroy
  <2> QED
    BY <1>3, <2>1, <2>2, <2>3, <2>4
<1> QED
  BY <1>1, <1>2, <1>3

(* A step with no part in the polls of an indicator. *)
Still(s) ==
  /\ UNCHANGED <<ui, key, sample, pressed, raced>> /\ told'[s] = told[s]
  /\ Kept(s) /\ (ClientHolds(s)' => ClientHolds(s))
  /\ client' = client \/ (/\ client.pc \notin {"answering", "deciding"}
                          /\ client'.pc \notin {"answering", "deciding"})
  /\ reporter' = reporter \/ (reporter.pc # "answering" /\ reporter'.pc # "answering")
  /\ thread[s] = "paint" <=> thread'[s] = "paint"

LEMMA StillHeard ==
  ASSUME Heard, NEW s \in Show, Still(s)
  PROVE  OnePoll(s)' /\ Caught(s)'
<1>1. OnePoll(s) /\ Caught(s)
  BY DEF Heard
<1>2. \A a : Polling(a, s)' <=> Polling(a, s)
  BY DEF Still, Polling
<1>3. Pending(s)' => Pending(s)
  BY DEF Still, Pending
<1> QED
  BY <1>1, <1>2, <1>3 DEF Still, Kept, OnePoll, Caught

LEMMA LetGo ==
  ASSUME NEW s, ~ClientHolds(s)'
  PROVE  OnePoll(s)' /\ Caught(s)'
BY DEF OnePoll, Caught, Pending

(* The indicator of a bar that somebody touches is the one that is held. *)
LEMMA BarHeld ==
  ASSUME Heard, ui = "bar", NEW c \in Show, Alive(c), NEW s \in Show, s # c
  PROVE  ~ClientHolds(s)
BY HeardTypes DEF Owned, ClientHolds

(* A poll: the flag, or else the buffer, goes into one pair of hands.        *)
LEMMA LookHeard ==
  ASSUME Heard, NEW a \in Actor, NEW c \in Show, Look(a, c), Alive(c), NEW s \in Show,
         UNCHANGED <<ui, object, pressed>>, told'[s] = told[s] \/ told'[s] # "none",
         ClientHolds(s)' <=> ClientHolds(s),
         ~Polling(a, s), Polling(a, s)' <=> s = c,
         \A b \in Actor \ {a} : Polling(b, s)' <=> Polling(b, s)
  PROVE  OnePoll(s)' /\ Caught(s)'
<1>0. /\ OnePoll(s) /\ Caught(s) /\ sample \in [Actor -> BOOLEAN] /\ raced \in [Show -> BOOLEAN]
      /\ object[s].cancelled \in BOOLEAN
  BY HeardTypes DEF Object
<1>1. CASE ui = "dialog"
  <2>1. raced'[s] = raced[s] \/ raced'[s]
    BY <1>0 DEF Look
  <2>2. Pending(s)' => Pending(s)
    <3>1. raced[s] => raced'[s]
      BY <1>0 DEF Look
    <3> QED
      BY <3>1 DEF Pending
  <2> QED
    BY <1>0, <1>1, <2>2 DEF OnePoll, Caught
<1>2. CASE ui = "bar"
  <2>1. CASE s # c
    BY <1>2, <2>1, BarHeld, LetGo
  <2>2. CASE s = c
    <3> SUFFICES ASSUME Pending(s)' PROVE OnePoll(s)' /\ Caught(s)'
      BY DEF OnePoll, Caught
    <3>1. raced' = [raced EXCEPT ![s] = raced[s] \/ (told[s] = "none"
                                        /\ \E b \in Actor \ {a} : Polling(b, s))]
      BY <1>2, <2>2 DEF Look
    <3>2. told[s] = "none" /\ ~raced[s] /\ ClientHolds(s)
          /\ \A b \in Actor \ {a} : ~Polling(b, s)
      BY <1>0, <3>1 DEF Pending
    <3>3. /\ \A b \in Actor : Polling(b, s)' => b = a
          /\ \A b \in Actor : ~Polling(b, s)
      BY <3>2
    <3>4. /\ object[s].cancelled => sample'[a]
          /\ ~object[s].cancelled => sample'[a] = key
      BY <1>0, <1>2, <2>2 DEF Look
    <3>5. OnePoll(s)'
      BY <3>3, <3>4 DEF OnePoll
    <3>6. Caught(s)'
      <4> SUFFICES ASSUME pressed[s] PROVE object[s].cancelled \/ (Polling(a, s)' /\ sample'[a])
        BY <1>2 DEF Caught
      <4>1. object[s].cancelled \/ key
        BY <1>0, <3>2, <3>3 DEF Caught, Pending
      <4> QED
        BY <2>2, <3>4, <4>1
    <3> QED
      BY <3>5, <3>6
  <2> QED
    BY <2>1, <2>2
<1> QED
  BY <1>1, <1>2, HeardTypes

(* What a poll found is stored: whoever looked alone keeps what was there.   *)
LEMMA StoresHeard ==
  ASSUME Heard, NEW a \in Actor, NEW c \in Show, Stores(a, c), Polling(a, c), Alive(c),
         NEW s \in Show, UNCHANGED <<ui, key, pressed, raced>>, told'[s] = told[s],
         ClientHolds(s)' <=> ClientHolds(s),
         ~Polling(a, s)', \A b \in Actor \ {a} : Polling(b, s)' <=> Polling(b, s)
  PROVE  OnePoll(s)' /\ Caught(s)'
<1>0. /\ OnePoll(s) /\ Caught(s) /\ sample \in [Actor -> BOOLEAN] /\ object[c] \in Object
      /\ object \in [Show -> Object]
  BY HeardTypes
<1>1. Pending(s)' => Pending(s)
  BY DEF Pending
<1>2. CASE ui = "dialog"
  <2>1. object' = object
    BY <1>2, HeardTypes, StoresFields
  <2> QED
    BY <1>0, <1>1, <1>2, <2>1 DEF OnePoll, Caught
<1>3. CASE ui = "bar"
  <2>1. CASE s # c
    BY <1>3, <2>1, BarHeld, LetGo
  <2>2. CASE s = c
    <3> SUFFICES ASSUME Pending(s)' PROVE OnePoll(s)' /\ Caught(s)'
      BY DEF OnePoll, Caught
    <3>1. /\ \A b \in Actor : Polling(b, s) => b = a
          /\ object[s].cancelled => sample[a]
      BY <1>0, <1>1, <1>3, <2>2 DEF OnePoll
    <3>2. \A b \in Actor : ~Polling(b, s)'
      BY <3>1
    <3>3. object'[s].cancelled = sample[a]
      <4> DEFINE r == [object[c] EXCEPT !.cancelled = sample[a]]
      <4>1. Set(c, r)
        BY <1>3 DEF Stores
      <4>2. sample[a] \in BOOLEAN
        BY <1>0
      <4>3. r \in Object
        BY <1>0, <4>2, Updates
      <4>4. r.cancelled = sample[a]
        BY <1>0 DEF Object
      <4> HIDE DEF r
      <4> QED
        BY <1>0, <2>2, <4>1, <4>3, <4>4, SetFacts
    <3>4. pressed[s] => sample[a] \/ key
      BY <1>0, <1>1, <3>1 DEF Caught
    <3> QED
      BY <1>3, <3>2, <3>3, <3>4 DEF OnePoll, Caught
  <2> QED
    BY <2>1, <2>2
<1> QED
  BY <1>2, <1>3, HeardTypes

(* Steps of the client and of the worker between the polls. *)
LEMMA RoamHeard ==
  ASSUME Heard, NEW s \in Show,
         \/ StartAgain \/ StartNothing \/ BeginJob \/ JobOver \/ NoJob \/ Throws \/ Destructor
         \/ NothingToStop \/ Started \/ StopForgets \/ Joined
         \/ ReportBegins \/ SetProgress \/ Unlocked \/ ReporterSendFails \/ AskBegins \/ JobEnds
         \/ PostQuit \/ PostThreadMessage \/ UNCHANGED vars
  PROVE  OnePoll(s)' /\ Caught(s)'
<1>1. UNCHANGED <<ui, key, sample, pressed, raced, told, thread>>
  BY DEF StartAgain, StartNothing, BeginJob, JobOver, NoJob, Throws, Destructor, NothingToStop,
     Started, StopForgets, Joined, ReportBegins, SetProgress, Unlocked, ReporterSendFails,
     AskBegins, JobEnds, PostQuit, PostThreadMessage, vars, env, ghosts
<1>2. Kept(s)
  <2>1. CASE Started \/ StopForgets \/ SetProgress
    BY <2>1, QuietKept
  <2>2. CASE ~(Started \/ StopForgets \/ SetProgress)
    BY <2>2 DEF StartAgain, StartNothing, BeginJob, JobOver, NoJob, Throws, Destructor,
       NothingToStop, Joined, ReportBegins, Unlocked, ReporterSendFails,
       AskBegins, JobEnds, PostQuit, PostThreadMessage, vars, Kept
  <2> QED
    BY <2>1, <2>2
<1>3. ClientHolds(s)' => ClientHolds(s)
  <2>1. CASE Started
    BY <2>1 DEF Started, ClientAt, ClientTo, ClientHolds
  <2>2. CASE ~Started
    <3>1. held' = held
      BY <2>2 DEF StartAgain, StartNothing, BeginJob, JobOver, NoJob, Throws, Destructor,
         NothingToStop, StopForgets, Joined, ReportBegins, SetProgress, Unlocked,
         ReporterSendFails, AskBegins, JobEnds, PostQuit, PostThreadMessage, vars
    <3>2. client' = client \/ client'.pc # "pump"
      BY <2>2, HeardTypes DEF StartAgain, StartNothing, BeginJob, JobOver, NoJob, Throws,
         Destructor, NothingToStop, StopForgets, Joined, ReportBegins, SetProgress, Unlocked,
         ReporterSendFails, AskBegins, JobEnds, PostQuit, PostThreadMessage, vars, ClientTo
    <3> QED
      BY <3>1, <3>2 DEF ClientHolds
  <2> QED
    BY <2>1, <2>2
<1>4. client' = client \/ (/\ client.pc \notin {"answering", "deciding"}
                           /\ client'.pc \notin {"answering", "deciding"})
  <2>1. CASE StartAgain \/ StartNothing \/ BeginJob \/ JobOver \/ NoJob \/ Throws \/ Destructor
    BY <2>1, HeardTypes DEF StartAgain, StartNothing, BeginJob, JobOver, NoJob, Throws,
       Destructor, ClientAt, ClientTo
  <2>2. CASE NothingToStop \/ Started \/ StopForgets \/ Joined
    BY <2>2, HeardTypes DEF NothingToStop, Started, StopForgets, Joined, ClientAt, ClientTo
  <2>3. CASE \/ ReportBegins \/ SetProgress \/ Unlocked \/ ReporterSendFails \/ AskBegins
             \/ JobEnds \/ PostQuit \/ PostThreadMessage \/ UNCHANGED vars
    BY <2>3 DEF ReportBegins, SetProgress, Unlocked, ReporterSendFails, AskBegins, JobEnds,
       PostQuit, PostThreadMessage, vars
  <2> QED
    BY <2>1, <2>2, <2>3
<1>5. reporter' = reporter \/ (reporter.pc # "answering" /\ reporter'.pc # "answering")
  <2>1. CASE ReportBegins \/ SetProgress \/ BeginJob
    <3>1. CASE ReportBegins
      BY <3>1, HeardTypes DEF ReportBegins, ReporterAt
    <3>2. CASE SetProgress
      <4>1. PICK w : reporter' = [reporter EXCEPT !.pc = "locked", !.window = w]
        BY <3>2 DEF SetProgress
      <4> QED
        BY <3>2, <4>1, HeardTypes DEF SetProgress, ReporterAt
    <3>3. CASE BeginJob
      BY <3>3 DEF BeginJob, ReporterAt
    <3> QED
      BY <2>1, <3>1, <3>2, <3>3
  <2>4. CASE Unlocked \/ ReporterSendFails \/ JobEnds
    <3>1. /\ reporter.pc \in {"locked", "send", "idle"}
          /\ \E l \in {"send", "asking", "off"} : ReporterTo(l)
      BY <2>4 DEF Unlocked, ReporterSendFails, JobEnds, ReporterAt
    <3> QED
      BY <3>1, HeardTypes DEF ReporterTo
  <2>2. CASE AskBegins
    BY <2>2 DEF AskBegins, ReporterAt, ReporterLeaves
  <2>3. CASE \/ StartAgain \/ StartNothing \/ JobOver \/ NoJob \/ Throws \/ Destructor
             \/ NothingToStop \/ Started \/ StopForgets \/ Joined
             \/ PostQuit \/ PostThreadMessage \/ UNCHANGED vars
    BY <2>3 DEF StartAgain, StartNothing, JobOver, NoJob, Throws, Destructor, NothingToStop,
       Started, StopForgets, Joined, PostQuit, PostThreadMessage, vars
  <2> QED
    BY <2>1, <2>2, <2>3, <2>4
<1> QED
  BY <1>1, <1>2, <1>3, <1>4, <1>5, StillHeard DEF Still

(* A lost worker had nothing to do with an indicator that is still held. *)
LEMMA LostHeard ==
  ASSUME Heard, NEW s \in Show, ReporterLost
  PROVE  OnePoll(s)' /\ Caught(s)'
<1> SUFFICES ASSUME ClientHolds(s)' PROVE OnePoll(s)' /\ Caught(s)'
  BY LetGo
<1>1. UNCHANGED <<ui, key, sample, pressed, raced, told, thread, object, client, held>>
  BY DEF ReporterLost, env, ghosts
<1>2. reporter.show # s
  BY <1>1, HeardTypes DEF ReporterLost, ClientHolds, Alive
<1>3. reporter'.show = reporter.show
  BY HeardTypes DEF ReporterLost, ReporterTo
<1>4. \A a : Polling(a, s)' <=> Polling(a, s)
  BY <1>1, <1>2, <1>3 DEF Polling
<1>5. OnePoll(s) /\ Caught(s) /\ (Pending(s)' <=> Pending(s))
  BY <1>1, HeardTypes DEF Pending, ClientHolds
<1> QED
  BY <1>1, <1>4, <1>5 DEF OnePoll, Caught

(* ProgressStop has answered for what the client releases. *)
LEMMA ReleaseHeard ==
  ASSUME Heard, NEW s \in Show, ClientReleases
  PROVE  OnePoll(s)' /\ Caught(s)'
<1>1. ~ClientHolds(s)'
  BY NoneIsNoShow DEF ClientReleases, ClientHolds
<1> QED
  BY <1>1, LetGo

(* A new indicator has been asked by nobody, and no other is held. *)
LEMMA StartHeard ==
  ASSUME Heard, NEW c \in Show, StartDialog(c) \/ StartBar(c), NEW s \in Show
  PROVE  OnePoll(s)' /\ Caught(s)'
<1>1. /\ object[c].life = "unborn" /\ thread[c] = "none" /\ held = None
      /\ UNCHANGED <<ui, pressed, reporter>> /\ client'.show = c /\ client'.pc \in {"pump", "up"}
      /\ held' \in {None, c}
  BY HeardTypes DEF StartDialog, StartBar, env, ghosts, Fresh, Inv, Counted, Show
<1>2. CASE s # c
  BY <1>1, <1>2, NoneIsNoShow, LetGo DEF ClientHolds
<1>3. CASE s = c
  <2>1. ~pressed[s] /\ ~(reporter.pc = "answering" /\ reporter.show = s)
    BY <1>1, <1>3, HeardTypes DEF Owned
  <2>2. thread'[s] # "paint"
    <3>1. \E l \in {"begin", "wait", "none"} : thread' = [thread EXCEPT ![c] = l]
      BY <1>1, HeardTypes DEF StartDialog, StartBar, ThreadTo
    <3> QED
      BY <1>3, <3>1, HeardTypes
  <2>3. \A a : ~Polling(a, s)'
    BY <1>1, <2>1, <2>2 DEF Polling
  <2> QED
    BY <1>1, <2>1, <2>3 DEF OnePoll, Caught
<1> QED
  BY <1>2, <1>3

(* The thread of an indicator, between the polls. *)
LEMMA ThreadHeard ==
  ASSUME Heard, NEW c \in Show, NEW s \in Show,
         \/ CopyParams(c) \/ CreateWindow(c) \/ SignalStart(c) \/ CreateFails(c)
         \/ HandleUpdate(c) \/ HandleDestroy(c) \/ LeaveLoop(c) \/ BarEnds(c)
  PROVE  OnePoll(s)' /\ Caught(s)'
<1>1. UNCHANGED <<ui, key, sample, pressed, raced, told, held>>
  BY DEF CopyParams, CreateWindow, SignalStart, CreateFails, HandleUpdate, HandleDestroy,
     LeaveLoop, BarEnds, env, ghosts
<1>2. Kept(s)
  <2>1. CASE CreateWindow(c) \/ SignalStart(c) \/ CreateFails(c) \/ HandleUpdate(c) \/ HandleDestroy(c)
    BY <2>1, QuietKept
  <2>2. CASE CopyParams(c) \/ LeaveLoop(c) \/ BarEnds(c)
    BY <2>2 DEF CopyParams, LeaveLoop, BarEnds, Kept
  <2> QED
    BY <2>1, <2>2
<1>3. client' = client \/ (client.pc = "send" /\ client'.pc = "release")
  BY HeardTypes DEF CopyParams, CreateWindow, SignalStart, CreateFails, HandleUpdate,
     HandleDestroy, LeaveLoop, BarEnds, ClientAt, ClientTo
<1>4. reporter' = reporter \/ (reporter.pc = "send" /\ reporter'.pc = "asking")
  BY HeardTypes DEF CopyParams, CreateWindow, SignalStart, CreateFails, HandleUpdate,
     HandleDestroy, LeaveLoop, BarEnds, ReporterAt, ReporterTo
<1>5. thread[s] = "paint" <=> thread'[s] = "paint"
  <2>1. thread' = thread \/ \E l \in ThreadPc \ {"paint"} : ThreadTo(c, l) /\ thread[c] # "paint"
    BY DEF CopyParams, CreateWindow, SignalStart, CreateFails, HandleUpdate, HandleDestroy,
       LeaveLoop, BarEnds, ThreadAt, ThreadPc
  <2> QED
    BY <2>1, HeardTypes DEF ThreadTo
<1>6. ClientHolds(s)' => ClientHolds(s)
  BY <1>1, <1>3 DEF ClientHolds
<1> QED
  BY <1>1, <1>2, <1>3, <1>4, <1>5, <1>6, StillHeard DEF Still

LEMMA ThreadReleaseHeard ==
  ASSUME Heard, NEW c \in Show, NEW s \in Show, ThreadReleases(c)
  PROVE  OnePoll(s)' /\ Caught(s)'
<1> SUFFICES ASSUME ClientHolds(s)' PROVE OnePoll(s)' /\ Caught(s)'
  BY LetGo
<1>1. /\ UNCHANGED <<ui, key, sample, pressed, raced, told, held, client, reporter>>
      /\ Set(c, Released(object[c])) /\ ThreadTo(c, "gone") /\ thread[c] = "release"
  BY DEF ThreadReleases, ThreadAt, env, ghosts
<1>2. ClientHolds(s)
  BY <1>1 DEF ClientHolds
<1>3. Kept(s)
  <2>1. /\ object[c] \in Object /\ object[c].references \in 1..2
        /\ object[c].references = Count(c) /\ ThreadHolds(c)
    BY <1>1, HeardTypes, CountedFacts DEF ThreadHolds
  <2>2. object'[c] = Released(object[c]) /\ \A t \in Show : t # c => object'[t] = object[t]
    BY <1>1, <2>1, HeardTypes, ReleasedType, SetFacts
  <2>3. CASE s = c
    <3>1. object[c].references = 2
      BY <1>2, <2>1, <2>3 DEF Count
    <3> QED
      BY <2>1, <2>2, <2>3, <3>1, ReleasedFields DEF Kept, Seen, Drawn
  <2> QED
    BY <2>2, <2>3 DEF Kept
<1>4. thread[s] = "paint" <=> thread'[s] = "paint"
  BY <1>1, HeardTypes DEF ThreadTo
<1> QED
  BY <1>1, <1>2, <1>3, <1>4, StillHeard DEF Still

(* The user cancels. *)
LEMMA PressHeard ==
  ASSUME Heard, NEW s \in Show, PressEscape \/ \E c \in Show : HandleCancel(c)
  PROVE  OnePoll(s)' /\ Caught(s)'
<1>0. OnePoll(s) /\ Caught(s) /\ pressed \in [Show -> BOOLEAN]
  BY HeardTypes
<1>1. /\ UNCHANGED <<ui, sample, raced, told, held, client, reporter, thread>>
      /\ Pending(s)' <=> Pending(s)
      /\ \A a : Polling(a, s)' <=> Polling(a, s)
  BY DEF PressEscape, HandleCancel, env, ghosts, Pending, ClientHolds, Polling
<1>2. CASE PressEscape
  <2>1. ui = "bar" /\ key' = TRUE /\ object' = object
    BY <1>2 DEF PressEscape
  <2> QED
    BY <1>0, <1>1, <2>1 DEF OnePoll, Caught
<1>3. ASSUME NEW c \in Show, HandleCancel(c) PROVE OnePoll(s)' /\ Caught(s)'
  <2> DEFINE r == [object[c] EXCEPT !.cancelled = TRUE]
  <2>1. ui = "dialog"
    BY <1>3, HeardTypes DEF HandleCancel, ThreadAt, Visible
  <2>2. r \in Object /\ r.cancelled /\ Set(c, r)
    BY <1>3, HeardTypes, Updates, Fields DEF HandleCancel
  <2>3. key' = key /\ (s # c => pressed'[s] = pressed[s])
    BY <1>0, <1>3 DEF HandleCancel
  <2> HIDE DEF r
  <2>4. object'[c].cancelled /\ (s # c => object'[s] = object[s])
    BY <2>2, HeardTypes, SetFacts
  <2> QED
    BY <1>0, <1>1, <2>1, <2>3, <2>4 DEF OnePoll, Caught
<1> QED
  BY <1>2, <1>3

(* The polls themselves. *)
LEMMA PollHeard ==
  ASSUME Heard, NEW s \in Show,
         Ask \/ Decide \/ ReporterLooks \/ \E c \in Show : BarWakes(c)
  PROVE  OnePoll(s)' /\ Caught(s)'
<1>1. CASE Ask \/ Decide
  <2> DEFINE c == client.show
  <2>1. /\ c \in Show /\ held = c /\ client.pc \in {"asking", "verdict"}
        /\ client'.show = c /\ client'.pc \in {"answering", "deciding"}
        /\ Look("client", c)
        /\ UNCHANGED <<ui, object, pressed, held, reporter, thread>>
    BY <1>1, HeardTypes DEF Ask, Decide, ClientAt, ClientTo, Inv, ClientKeeps, env
  <2>2. Alive(c)
    BY <2>1, HeardTypes DEF ClientHolds, Alive
  <2>3. told'[s] = told[s] \/ told'[s] # "none"
    <3>1. told' = told \/ \E v \in {"yes", "no"} : told' = [told EXCEPT ![c] = v]
      BY <1>1 DEF Ask, Decide
    <3> QED
      BY <2>1, <3>1, HeardTypes
  <2>4. /\ ~Polling("client", s) /\ (Polling("client", s)' <=> s = c)
        /\ \A b \in Actor \ {"client"} : Polling(b, s)' <=> Polling(b, s)
        /\ ClientHolds(s)' <=> ClientHolds(s)
    BY <2>1 DEF Polling, ClientHolds
  <2> QED
    BY <2>1, <2>2, <2>3, <2>4, LookHeard DEF Actor
<1>2. CASE ReporterLooks
  <2> DEFINE c == reporter.show
  <2>1. /\ c \in Show /\ reporter.pc = "poll" /\ reporter'.show = c
        /\ reporter'.pc = "answering" /\ Look("reporter", c) /\ Alive(c)
        /\ UNCHANGED <<ui, object, pressed, held, client, thread, told>>
    BY <1>2, HeardTypes DEF ReporterLooks, ReporterAt, ReporterTo, Inv, ReporterKeeps, env
  <2>2. /\ ~Polling("reporter", s) /\ (Polling("reporter", s)' <=> s = c)
        /\ \A b \in Actor \ {"reporter"} : Polling(b, s)' <=> Polling(b, s)
        /\ ClientHolds(s)' <=> ClientHolds(s)
    BY <2>1 DEF Polling, ClientHolds
  <2> QED
    BY <2>1, <2>2, LookHeard DEF Actor
<1>3. ASSUME NEW c \in Show, BarWakes(c) PROVE OnePoll(s)' /\ Caught(s)'
  <2>1. /\ thread[c] = "wait" /\ ThreadTo(c, "paint") /\ Look("thread", c) /\ Alive(c)
        /\ UNCHANGED <<ui, object, pressed, held, client, reporter, told>> /\ ui = "bar"
    BY <1>3, HeardTypes DEF BarWakes, ThreadAt, env, ThreadHolds, Alive, Visible
  <2>2. CASE s # c
    <3>1. ~ClientHolds(s)'
      BY <2>1, <2>2, BarHeld DEF ClientHolds
    <3> QED
      BY <3>1, LetGo
  <2>3. CASE s = c
    <3>1. thread'[s] = "paint"
      BY <2>1, <2>3, HeardTypes DEF ThreadTo
    <3>2. /\ ~Polling("thread", s) /\ Polling("thread", s)'
          /\ \A b \in Actor \ {"thread"} : Polling(b, s)' <=> Polling(b, s)
          /\ ClientHolds(s)' <=> ClientHolds(s)
      BY <2>1, <2>3, <3>1 DEF Polling, ClientHolds
    <3> QED
      BY <2>1, <2>3, <3>2, LookHeard DEF Actor
  <2> QED
    BY <2>2, <2>3
<1> QED
  BY <1>1, <1>2, <1>3

LEMMA AnswerHeard ==
  ASSUME Heard, NEW s \in Show,
         Answered \/ Decided \/ ReporterAnswered \/ \E c \in Show : BarPaints(c)
  PROVE  OnePoll(s)' /\ Caught(s)'
<1>1. CASE Answered \/ Decided
  <2> DEFINE c == client.show
  <2>1. /\ c \in Show /\ held = c /\ client.pc \in {"answering", "deciding"}
        /\ client'.pc \in {"verdict", "stop"} /\ Stores("client", c)
        /\ UNCHANGED <<ui, key, pressed, raced, told, held, reporter, thread>>
    BY <1>1, HeardTypes DEF Answered, Decided, ClientAt, ClientTo, Inv, ClientKeeps, env, ghosts
  <2>2. Alive(c)
    BY <2>1, HeardTypes DEF ClientHolds, Alive
  <2>3. /\ Polling("client", c) /\ ~Polling("client", s)'
        /\ \A b \in Actor \ {"client"} : Polling(b, s)' <=> Polling(b, s)
        /\ ClientHolds(s)' <=> ClientHolds(s)
    BY <2>1 DEF Polling, ClientHolds
  <2> QED
    BY <2>1, <2>2, <2>3, StoresHeard DEF Actor
<1>2. CASE ReporterAnswered
  <2> DEFINE c == reporter.show
  <2>1. /\ c \in Show /\ reporter.pc = "answering" /\ reporter'.pc \in {"off", "idle"}
        /\ Stores("reporter", c) /\ Alive(c)
        /\ UNCHANGED <<ui, key, pressed, raced, told, held, client, thread>>
    BY <1>2, HeardTypes DEF ReporterAnswered, ReporterAt, ReporterLeaves, Inv, ReporterKeeps, env,
       ghosts
  <2>2. /\ Polling("reporter", c) /\ ~Polling("reporter", s)'
        /\ \A b \in Actor \ {"reporter"} : Polling(b, s)' <=> Polling(b, s)
        /\ ClientHolds(s)' <=> ClientHolds(s)
    BY <2>1 DEF Polling, ClientHolds
  <2> QED
    BY <2>1, <2>2, StoresHeard DEF Actor
<1>3. ASSUME NEW c \in Show, BarPaints(c) PROVE OnePoll(s)' /\ Caught(s)'
  <2>1. /\ thread[c] = "paint" /\ ThreadTo(c, "wait") /\ Stores("thread", c) /\ Alive(c)
        /\ UNCHANGED <<ui, key, pressed, raced, told, held, client, reporter>> /\ ui = "bar"
    BY <1>3, HeardTypes DEF BarPaints, ThreadAt, env, ghosts, ThreadHolds, Alive, Visible
  <2>2. CASE s # c
    <3>1. ~ClientHolds(s)'
      BY <2>1, <2>2, BarHeld DEF ClientHolds
    <3> QED
      BY <3>1, LetGo
  <2>3. CASE s = c
    <3>1. thread'[s] = "wait"
      BY <2>1, <2>3, HeardTypes DEF ThreadTo
    <3>2. /\ Polling("thread", c) /\ ~Polling("thread", s)'
          /\ \A b \in Actor \ {"thread"} : Polling(b, s)' <=> Polling(b, s)
          /\ ClientHolds(s)' <=> ClientHolds(s)
      BY <2>1, <2>3, <3>1 DEF Polling, ClientHolds
    <3> QED
      BY <2>1, <2>3, <3>2, StoresHeard DEF Actor
  <2> QED
    BY <2>2, <2>3
<1> QED
  BY <1>1, <1>2, <1>3

LEMMA NextHeard ==
  ASSUME Heard, [Next]_vars PROVE \A s \in Show : OnePoll(s)' /\ Caught(s)'
BY RoamHeard, LostHeard, ReleaseHeard, StartHeard, ThreadHeard, ThreadReleaseHeard, PressHeard,
   PollHeard, AnswerHeard DEF Next, Client, Reporter, User, Thread

(* Who owns what is kept by the steps that move no window and no release.     *)
LEMMA QuietOwned ==
  ASSUME Heard, NEW s \in Show, UNCHANGED <<ui, held, thread>>, pressed'[s] = pressed[s],
         Seen(object[s], object'[s]),
         reporter' = reporter \/ reporter'.pc # "answering",
         client' = client \/ (client.pc # "join" /\ client'.pc \notin {"release", "pump"})
  PROVE  Owned(s)'
BY HeardTypes DEF Owned, Seen, Alive

LEMMA RoamOwned ==
  ASSUME Heard, NEW s \in Show,
         \/ StartAgain \/ StartNothing \/ BeginJob \/ JobOver \/ NoJob \/ Throws \/ Destructor
         \/ NothingToStop \/ Ask \/ Answered \/ Decide \/ Decided
         \/ ReportBegins \/ ReporterLost \/ SetProgress \/ Unlocked \/ ReporterSendFails
         \/ AskBegins \/ ReporterAnswered \/ JobEnds
         \/ PostQuit \/ PostThreadMessage \/ UNCHANGED vars
         \/ \E c \in Show : HandleUpdate(c)
  PROVE  Owned(s)'
<1>1. UNCHANGED <<ui, held, thread, pressed>>
  BY DEF StartAgain, StartNothing, BeginJob, JobOver, NoJob, Throws, Destructor, NothingToStop, Ask,
     Answered, Decide, Decided, ReportBegins, ReporterLost, SetProgress, Unlocked,
     ReporterSendFails, AskBegins, ReporterAnswered, JobEnds, PostQuit, PostThreadMessage,
     HandleUpdate, vars, env, ghosts
<1>2. Seen(object[s], object'[s])
  <2>1. CASE Answered \/ Decided \/ ReporterAnswered
    <3>1. \E a \in Actor, c \in Show : Stores(a, c)
      BY <2>1, HeardTypes DEF Answered, Decided, ReporterAnswered, ClientAt, ReporterAt, Inv,
         ClientKeeps, ReporterKeeps, Actor
    <3> QED
      BY <3>1, HeardTypes, StoresFields
  <2>2. CASE SetProgress
    <3> DEFINE x == object[reporter.show]
               r == [x EXCEPT !.value = @ + 1, !.dirty = TRUE]
    <3>1. /\ reporter.show \in Show /\ x \in Object /\ x.value < Reports
          /\ Set(reporter.show, r)
      BY <2>2, HeardTypes DEF SetProgress, ReporterAt, Inv, ReporterKeeps
    <3>2. r \in Object /\ Seen(x, r)
      <4> HIDE DEF x
      <4> QED
        BY <3>1, Reported, Fields
    <3> HIDE DEF r
    <3> QED
      BY <3>1, <3>2, HeardTypes, SetFacts, SameSeen
  <2>3. ASSUME NEW c \in Show, HandleUpdate(c) PROVE Seen(object[s], object'[s])
    <3> DEFINE r == [object[c] EXCEPT !.dirty = FALSE]
    <3>1. r \in Object /\ Seen(object[c], r) /\ Set(c, r)
      BY <2>3, HeardTypes, Updates, Fields DEF HandleUpdate
    <3> HIDE DEF r
    <3> QED
      BY <3>1, HeardTypes, SetFacts, SameSeen
  <2>4. CASE object' = object
    BY <2>4, SameSeen
  <2> QED
    BY <2>1, <2>2, <2>3, <2>4 DEF StartAgain, StartNothing, BeginJob, JobOver, NoJob, Throws,
       Destructor, NothingToStop, Ask, Decide, ReportBegins, ReporterLost, Unlocked,
       ReporterSendFails, AskBegins, JobEnds, PostQuit, PostThreadMessage, vars
<1>3. reporter' = reporter \/ reporter'.pc # "answering"
  <2>1. CASE \/ ReportBegins \/ ReporterLost \/ SetProgress \/ Unlocked \/ ReporterSendFails
             \/ AskBegins \/ ReporterAnswered \/ JobEnds \/ BeginJob
             \/ \E c \in Show : HandleUpdate(c)
    <3>1. CASE ReporterLost \/ Unlocked \/ ReporterSendFails \/ JobEnds \/ \E c \in Show : HandleUpdate(c)
      <4>1. \E l \in {"lost", "send", "asking", "off"} : ReporterTo(l)
        BY <3>1 DEF ReporterLost, Unlocked, ReporterSendFails, JobEnds, HandleUpdate
      <4> QED
        BY <4>1, HeardTypes DEF ReporterTo
    <3>2. CASE AskBegins \/ ReporterAnswered \/ BeginJob
      BY <3>2 DEF AskBegins, ReporterAnswered, BeginJob, ReporterLeaves
    <3>3. CASE ReportBegins
      BY <3>3, HeardTypes DEF ReportBegins
    <3>4. CASE SetProgress
      <4>1. PICK w : reporter' = [reporter EXCEPT !.pc = "locked", !.window = w]
        BY <3>4 DEF SetProgress
      <4> QED
        BY <4>1, HeardTypes
    <3> QED
      BY <2>1, <3>1, <3>2, <3>3, <3>4
  <2> QED
    BY <2>1 DEF StartAgain, StartNothing, JobOver, NoJob, Throws, Destructor, NothingToStop, Ask,
       Answered, Decide, Decided, PostQuit, PostThreadMessage, vars
<1>4. client' = client \/ (client.pc # "join" /\ client'.pc \notin {"release", "pump"})
  <2>1. CASE \/ StartAgain \/ StartNothing \/ BeginJob \/ JobOver \/ NoJob \/ Throws \/ Destructor
             \/ NothingToStop \/ Ask \/ Answered \/ Decide \/ Decided
    <3>1. /\ client.pc # "join"
          /\ \/ \E l \in ClientPc \ {"release", "pump"} : ClientTo(l)
             \/ \E l \in ClientPc \ {"release", "pump"} : \E c : client' = [pc |-> l, show |-> c]
      BY <2>1 DEF StartAgain, StartNothing, BeginJob, JobOver, NoJob, Throws, Destructor,
         NothingToStop, Ask, Answered, Decide, Decided, ClientAt, ClientPc
    <3> QED
      BY <3>1, HeardTypes DEF ClientTo
  <2> QED
    BY <2>1 DEF ReportBegins, ReporterLost, SetProgress, Unlocked, ReporterSendFails, AskBegins,
       ReporterAnswered, JobEnds, PostQuit, PostThreadMessage, HandleUpdate, vars
<1> QED
  BY <1>1, <1>2, <1>3, <1>4, QuietOwned

LEMMA DialogOwned ==
  ASSUME Heard, NEW s \in Show, ui = "dialog", UNCHANGED <<ui, reporter>>,
         pressed'[s] = pressed[s] \/ object[s].life = "alive",
         object'[s].life = "unborn" => object[s].life = "unborn"
  PROVE  Owned(s)'
BY HeardTypes DEF Owned

(* The steps that only a dialog takes. *)
LEMMA DialogStepOwned ==
  ASSUME Heard, NEW s \in Show,
         \/ Started
         \/ \E c \in Show : \/ StartDialog(c) \/ CopyParams(c) \/ CreateWindow(c) \/ SignalStart(c)
                            \/ CreateFails(c) \/ HandleDestroy(c) \/ LeaveLoop(c) \/ HandleCancel(c)
  PROVE  Owned(s)'
<1>1. CASE Started
  <2>1. ui = "dialog" /\ UNCHANGED <<ui, reporter, pressed>>
    BY <1>1, HeardTypes DEF Started, ClientAt, Owned, env, ghosts
  <2> QED
    BY <1>1, <2>1, QuietKept, DialogOwned DEF Kept
<1>2. ASSUME NEW c \in Show, StartDialog(c) PROVE Owned(s)'
  <2>1. PICK threaded \in BOOLEAN : Set(c, Created(threaded))
    BY <1>2 DEF StartDialog
  <2>2. object'[c].life = "alive" /\ \A t \in Show : t # c => object'[t] = object[t]
    BY <2>1, HeardTypes, StartFacts
  <2>3. ui = "dialog" /\ UNCHANGED <<ui, reporter, pressed>>
    BY <1>2 DEF StartDialog, env, ghosts
  <2> QED
    BY <2>2, <2>3, DialogOwned
<1>3. ASSUME NEW c \in Show,
             \/ CopyParams(c) \/ CreateWindow(c) \/ SignalStart(c) \/ CreateFails(c)
             \/ HandleDestroy(c) \/ LeaveLoop(c)
      PROVE  Owned(s)'
  <2>1. ui = "dialog"
    <3>1. thread[c] \in {"begin", "creating", "created", "loop", "woken"}
      BY <1>3 DEF CopyParams, CreateWindow, SignalStart, CreateFails, HandleDestroy, LeaveLoop, ThreadAt
    <3> QED
      BY <3>1, HeardTypes DEF Visible
  <2>2. UNCHANGED <<ui, reporter, pressed>>
    BY <1>3 DEF CopyParams, CreateWindow, SignalStart, CreateFails, HandleDestroy, LeaveLoop, env, ghosts
  <2>3. object'[s].life = object[s].life
    <3>1. CASE CopyParams(c) \/ LeaveLoop(c)
      BY <3>1 DEF CopyParams, LeaveLoop
    <3>2. CASE CreateWindow(c) \/ SignalStart(c) \/ CreateFails(c) \/ HandleDestroy(c)
      BY <3>2, QuietKept DEF Kept
    <3> QED
      BY <1>3, <3>1, <3>2
  <2> QED
    BY <2>1, <2>2, <2>3, DialogOwned
<1>4. ASSUME NEW c \in Show, HandleCancel(c) PROVE Owned(s)'
  <2> DEFINE r == [object[c] EXCEPT !.cancelled = TRUE]
  <2>1. /\ ui = "dialog" /\ UNCHANGED <<ui, reporter>> /\ object[c].life = "alive"
        /\ s # c => pressed'[s] = pressed[s]
    BY <1>4, HeardTypes DEF HandleCancel, ThreadAt, Visible, ThreadHolds, env
  <2>2. r \in Object /\ Seen(object[c], r) /\ Set(c, r)
    BY <1>4, HeardTypes, Updates, Fields DEF HandleCancel
  <2> HIDE DEF r
  <2>3. object'[s].life = object[s].life
    BY <2>2, HeardTypes, SetFacts DEF Seen
  <2> QED
    BY <2>1, <2>3, DialogOwned
<1> QED
  BY <1>1, <1>2, <1>3, <1>4

(* A new bar, in use from the start. *)
LEMMA StartBarOwned ==
  ASSUME Heard, NEW c \in Show, StartBar(c), NEW s \in Show
  PROVE  Owned(s)'
<1>1. PICK threaded \in BOOLEAN :
        /\ Set(c, Created(threaded))
        /\ thread' = [thread EXCEPT ![c] = IF threaded THEN "wait" ELSE thread[c]]
  BY DEF StartBar
<1>2. /\ ui = "bar" /\ held = None /\ held' = c /\ client'.pc = "up" /\ client.pc = "idle"
      /\ object[c].life = "unborn" /\ thread[c] = "none"
      /\ UNCHANGED <<ui, reporter, pressed>>
  BY HeardTypes DEF StartBar, ClientAt, Fresh, Inv, Counted, env, ghosts, Show
<1>3. /\ object'[c].life = "alive" /\ object'[c].window = threaded
      /\ \A t \in Show : t # c => object'[t] = object[t]
  BY <1>1, <1>2, HeardTypes, CreatedType, CreatedFields, SetFacts
<1>4. /\ threaded => thread'[c] = "wait"
      /\ ~threaded => thread'[c] = "none"
      /\ \A t \in Show : t # c => thread'[t] = thread[t]
  BY <1>1, <1>2, HeardTypes
<1>5. CASE s = c
  BY <1>2, <1>3, <1>4, <1>5 DEF Owned, Alive
<1>6. CASE s # c
  <2>1. ~Alive(s)
    BY <1>2, NoneIsNoShow, HeardTypes DEF Owned
  <2> QED
    BY <1>2, <1>3, <1>4, <1>6, <2>1, HeardTypes DEF Owned, Alive
<1> QED
  BY <1>5, <1>6

(* Stop forgets the window, and releases when the thread has gone. *)
LEMMA StopOwned ==
  ASSUME Heard, NEW s \in Show, StopForgets \/ Joined \/ ClientReleases
  PROVE  Owned(s)'
<1> DEFINE c == client.show
<1>0. /\ c \in Show /\ held = c /\ client.pc \in {"stop", "join", "release"}
      /\ UNCHANGED <<ui, reporter, pressed, thread>> /\ object[c].life = "alive"
  BY HeardTypes DEF StopForgets, Joined, ClientReleases, ClientAt, Inv, ClientKeeps, ClientHolds,
     env, ghosts
<1>1. CASE StopForgets
  <2> DEFINE r == [object[c] EXCEPT !.window = FALSE, !.running = FALSE]
  <2>1. Set(c, r) /\ client.pc = "stop" /\ held' = held
        /\ client' = [client EXCEPT !.pc = IF ~object[c].window THEN "release"
                                           ELSE IF ui = "bar" THEN "join" ELSE "send"]
    BY <1>1 DEF StopForgets, ClientAt, ClientTo
  <2>2. r \in Object /\ r.life = object[c].life
    BY <1>0, HeardTypes, Updates, Fields
  <2> HIDE DEF r
  <2>3. object'[c].life = object[c].life /\ \A t \in Show : t # c => object'[t] = object[t]
    BY <1>0, <2>1, <2>2, HeardTypes, SetFacts
  <2>4. /\ client'.show = c
        /\ client'.pc = IF ~object[c].window THEN "release" ELSE IF ui = "bar" THEN "join" ELSE "send"
    BY <2>1, HeardTypes
  <2> HIDE DEF c
  <2>5. Owned(s) /\ c = client.show
    BY HeardTypes DEF c
  <2> QED
    BY <1>0, <2>1, <2>3, <2>4, <2>5 DEF Owned, Alive
<1>2. CASE Joined
  <2>1. /\ client' = [client EXCEPT !.pc = "release"] /\ thread[c] = "gone"
        /\ UNCHANGED <<object, held>>
    BY <1>2 DEF Joined, ClientTo, ThreadAt
  <2>2. client'.show = c /\ client'.pc = "release"
    BY <2>1, HeardTypes
  <2> HIDE DEF c
  <2>3. Owned(s) /\ c = client.show
    BY HeardTypes DEF c
  <2> QED
    BY <1>0, <2>1, <2>2, <2>3 DEF Owned, Alive
<1>3. CASE ClientReleases
  <2>1. /\ Set(c, Released(object[c])) /\ client'.pc = "idle" /\ held' = None
        /\ client.pc = "release"
    BY <1>3 DEF ClientReleases, ClientAt
  <2>2. /\ Count(c) = 1 => object'[c].life = "deleted"
        /\ Count(c) \in 1..2 /\ object'[c].life # "unborn"
        /\ \A t \in Show : t # c => object'[t] = object[t]
    BY <1>0, <2>1, HeardTypes, ReleaseFacts DEF ClientHolds
  <2> HIDE DEF c
  <2>3. CASE ui = "dialog"
    BY <1>0, <2>2, <2>3, DialogOwned
  <2>4. CASE ui = "bar"
    <3>1. thread[c] \in {"none", "gone"}
      BY <1>0, <2>1, <2>4, HeardTypes DEF Owned, c
    <3>2. object'[c].life = "deleted"
      BY <1>0, <2>2, <3>1 DEF Count, ClientHolds, ThreadHolds
    <3>3. Owned(s)
      BY HeardTypes
    <3>4. CASE s = c
      BY <1>0, <2>1, <3>1, <3>2, <3>4 DEF Owned, Alive
    <3>5. CASE s # c
      <4>1. ~Alive(s)
        BY <1>0, <2>4, <3>3, <3>5 DEF Owned
      <4>2. thread[s] \in {"none", "gone"}
        BY <4>1, HeardTypes DEF ThreadHolds, Alive
      <4> QED
        BY <1>0, <2>1, <2>2, <3>3, <3>5, <4>1, <4>2 DEF Owned, Alive
    <3> QED
      BY <3>4, <3>5
  <2> QED
    BY <2>3, <2>4, HeardTypes
<1> QED
  BY <1>1, <1>2, <1>3

(* The bar's rounds, the end of a thread, a look, and ESC. *)
LEMMA RoundOwned ==
  ASSUME Heard, NEW s \in Show,
         \E c \in Show : BarWakes(c) \/ BarPaints(c) \/ BarEnds(c) \/ ThreadReleases(c)
  PROVE  Owned(s)'
<1>0. PICK c \in Show : BarWakes(c) \/ BarPaints(c) \/ BarEnds(c) \/ ThreadReleases(c)
  OBVIOUS
<1>1. /\ UNCHANGED <<ui, reporter, pressed, held, client>>
      /\ thread[c] \in {"wait", "paint", "release"}
      /\ \E l \in {"wait", "paint", "release", "gone"} : ThreadTo(c, l)
  BY <1>0 DEF BarWakes, BarPaints, BarEnds, ThreadReleases, ThreadAt, env, ghosts
<1>2. \A t \in Show : Seen(object[t], object'[t]) \/ (t = c /\ object'[t].life = "deleted"
                                                     /\ thread'[c] = "gone")
  <2>1. CASE BarPaints(c)
    BY <2>1, HeardTypes, StoresFields DEF BarPaints, Actor
  <2>2. CASE BarWakes(c) \/ BarEnds(c)
    BY <2>2, SameSeen DEF BarWakes, BarEnds
  <2>3. CASE ThreadReleases(c)
    <3>1. /\ Set(c, Released(object[c])) /\ thread'[c] = "gone" /\ ThreadHolds(c)
      BY <2>3, HeardTypes DEF ThreadReleases, ThreadAt, ThreadTo, ThreadHolds
    <3>2. object[c] \in Object /\ object[c].references \in 1..2
      BY <3>1, HeardTypes, CountedFacts
    <3>3. object'[c] = Released(object[c]) /\ \A t \in Show : t # c => object'[t] = object[t]
      BY <3>1, <3>2, HeardTypes, ReleasedType, SetFacts
    <3>4. \/ Released(object[c]).life = "deleted"
          \/ Seen(object[c], Released(object[c]))
      <4>1. object[c].references = 1 \/ object[c].references = 2
        BY <3>2
      <4> QED
        BY <3>2, <4>1, ReleasedFields
    <3> QED
      BY <3>1, <3>3, <3>4, SameSeen
  <2> QED
    BY <1>0, <2>1, <2>2, <2>3
<1>3. /\ thread'[c] \in {"wait", "paint", "release", "gone"}
      /\ \A t \in Show : t # c => thread'[t] = thread[t]
  BY <1>1, HeardTypes DEF ThreadTo
<1>4. Owned(s) /\ (Seen(object[s], object'[s]) \/ (s = c /\ object'[s].life = "deleted"
                                                   /\ thread'[c] = "gone"))
  BY <1>2, HeardTypes
<1>5. CASE Seen(object[s], object'[s])
  BY <1>1, <1>3, <1>4, <1>5 DEF Owned, Alive, Seen
<1>6. CASE s = c /\ object'[s].life = "deleted" /\ thread'[c] = "gone"
  BY <1>1, <1>4, <1>6 DEF Owned, Alive
<1> QED
  BY <1>4, <1>5, <1>6

LEMMA LookOwned ==
  ASSUME Heard, NEW s \in Show, ReporterLooks \/ PressEscape
  PROVE  Owned(s)'
<1>1. UNCHANGED <<ui, object, held, client, thread>>
  BY DEF ReporterLooks, PressEscape, env
<1>2. object[s].life = "unborn" =>
        pressed'[s] = pressed[s] /\ ~(reporter'.pc = "answering" /\ reporter'.show = s)
  <2>1. CASE ReporterLooks
    BY <2>1, HeardTypes DEF ReporterLooks, ReporterTo, Alive
  <2>2. CASE PressEscape
    <3>1. pressed'[s] = (pressed[s] \/ (held = s /\ Alive(s) /\ told[s] = "none"))
          /\ reporter' = reporter
      BY <2>2 DEF PressEscape
    <3> QED
      BY <3>1, HeardTypes DEF Owned, Alive
  <2> QED
    BY <2>1, <2>2
<1>3. Owned(s)
  BY HeardTypes
<1> QED
  BY <1>1, <1>2, <1>3 DEF Owned, Alive

LEMMA NextOwned ==
  ASSUME Heard, [Next]_vars PROVE \A s \in Show : Owned(s)'
BY RoamOwned, DialogStepOwned, StartBarOwned, StopOwned, RoundOwned, LookOwned
   DEF Next, Client, Reporter, User, Thread

LEMMA HeardAlways == Spec => []Heard
<1>1. Init => Heard
  <2> SUFFICES ASSUME Init PROVE Heard
    OBVIOUS
  <2>1. Away
    BY InitAway
  <2>2. \A s \in Show : Owned(s) /\ OnePoll(s) /\ Caught(s)
    BY DEF Init, Owned, OnePoll, Caught, Blank, Alive, Polling
  <2> QED
    BY <2>1, <2>2 DEF Heard
<1>2. Heard /\ [Next]_vars => Heard'
  <2> SUFFICES ASSUME Heard, [Next]_vars PROVE Heard'
    OBVIOUS
  <2>1. Away'
    BY StepAway DEF Heard
  <2> QED
    BY <2>1, NextOwned, NextHeard DEF Heard
<1> QED
  BY <1>1, <1>2, PTL DEF Spec

(* A cancel made before ProgressStop asks is what it answers, for either     *)
(* interface, unless two threads look for ESC at the same time: neither the  *)
(* worker's polls, nor the bar's own, nor a stop take it away.               *)
(* CProgressDialog.cpp:416-426, TProgressBar.cpp:221-227.                    *)
THEOREM CancelIsTold == Spec => CancelTold
<1>1. Heard /\ [Next]_vars
        => [\A s \in Show : told'[s] = "no" /\ told[s] = "none" => ~pressed[s] \/ raced'[s]]_vars
  <2> SUFFICES ASSUME Heard, Next, NEW s \in Show, told'[s] = "no", told[s] = "none",
                      pressed[s], ~raced'[s]
               PROVE  FALSE
    BY DEF vars
  <2>1. Decide
    BY DEF Next, Client, Reporter, User, Thread, StartAgain, StartNothing, StartDialog, StartBar,
       Started, BeginJob, JobOver, NoJob, Throws, Destructor, Ask, Answered, NothingToStop, Decided,
       StopForgets, Joined, ClientReleases, ReportBegins, ReporterLost, SetProgress, Unlocked,
       ReporterSendFails, AskBegins, ReporterLooks, ReporterAnswered, JobEnds, PressEscape,
       HandleCancel, CopyParams, CreateWindow, SignalStart, CreateFails, HandleUpdate,
       HandleDestroy, LeaveLoop, BarWakes, BarPaints, BarEnds, ThreadReleases, PostQuit,
       PostThreadMessage, ghosts
  <2>2. /\ client.pc = "verdict" /\ client.show \in Show /\ held = client.show
        /\ Look("client", client.show)
        /\ told' = [told EXCEPT ![client.show] = IF sample'["client"] THEN "yes" ELSE "no"]
    BY <2>1, HeardTypes DEF Decide, ClientAt, Inv, ClientKeeps
  <2>3. s = client.show /\ ~sample'["client"]
    BY <2>2, HeardTypes
  <2>4. raced'[s] = (raced[s] \/ (ui = "bar" /\ \E b \in Actor \ {"client"} : Polling(b, s)))
    BY <2>2, <2>3, HeardTypes DEF Look
  <2>5. Caught(s) /\ Pending(s)
    BY <2>2, <2>3, <2>4, HeardTypes DEF Pending, ClientHolds
  <2>6. ~Polling("client", s)
    BY <2>2 DEF Polling
  <2>7. object[s].cancelled \/ (ui = "bar" /\ key)
    BY <2>4, <2>5, <2>6 DEF Caught
  <2>8. sample'["client"]
    <3>1. CASE object[s].cancelled
      <4>1. sample' = [sample EXCEPT !["client"] = object[s].cancelled]
        BY <2>2, <2>3, <3>1 DEF Look
      <4> QED
        BY <3>1, <4>1, HeardTypes DEF Actor
    <3>2. CASE ui = "bar" /\ key /\ ~object[s].cancelled
      <4>1. sample' = [sample EXCEPT !["client"] = key]
        BY <2>2, <2>3, <3>2 DEF Look
      <4> QED
        BY <3>2, <4>1, HeardTypes DEF Actor
    <3> QED
      BY <2>7, <3>1, <3>2
  <2> QED
    BY <2>3, <2>8
<1> QED
  BY <1>1, HeardAlways, PTL DEF Spec, CancelTold

=============================================================================

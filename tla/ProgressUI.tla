----------------------------- MODULE ProgressUI -----------------------------
(***************************************************************************)
(* The progress indicator of both user interfaces: ProgressStart, Update,   *)
(* Cancelled and Stop of AutoDialogUI over CProgressDialog, and the same    *)
(* calls of AutoConsoleUI over TProgressBar.  Three threads meet in it: the *)
(* client that starts and stops an indicator, the download worker that      *)
(* reports to it and asks whether the user cancelled, and the thread that   *)
(* every indicator runs for itself.                                         *)
(*                                                                         *)
(* Windows is external.  A sent message is handled by the thread that owns  *)
(* the window while the sender waits; a message to a window that is gone    *)
(* returns at once.  Creating and destroying the window is taken to need    *)
(* nothing from the client's thread.                                        *)
(***************************************************************************)
EXTENDS Naturals

CONSTANTS
  Interface,  \* the interfaces a host may use: "dialog", "bar"
  Shows,      \* bound: how many indicators are ever created
  Reports     \* bound: the progress values reported to one indicator

Show == 1..Shows
None == 0

ASSUME ProgressAssumption ==
  /\ Interface \subseteq {"dialog", "bar"} /\ Interface # {}
  /\ Shows \in Nat /\ Reports \in Nat

VARIABLES
  ui,        \* the interface in use; never changes
  held,      \* progress_ of the user interface: an indicator, or None
  client,    \* the thread that starts and stops, and its indicator
  reporter,  \* the worker that reports, and the indicator it has read from progress_
  object,    \* the fields of each CProgressDialog or TProgressBar
  lock,      \* who holds its critical section
  thread,    \* where the indicator's own thread is
  screen,    \* what the user sees of it: its window, and the progress in its text
  key,       \* ESC is in the console's input buffer
  sample,    \* what a poll of the console found and has not stored yet
  quit,      \* WM_QUIT is in the client's message queue
  posted,    \* a message for the client's thread, and no window, is in that queue
  \* history, read by the properties only; of what happened before ProgressStop asked:
  pressed,   \* the user cancelled
  raced,     \* two polls of the console overlapped
  told       \* what ProgressStop answered

ghosts == <<pressed, raced, told>>
env    == <<ui, quit, posted>>
vars   == <<ui, held, client, reporter, object, lock, thread, screen, key, sample,
            quit, posted, pressed, raced, told>>

-----------------------------------------------------------------------------
(* window: d_hWnd, or thread_.  trigger: the start event of the dialog, the  *)
(* stop event of the bar.                                                   *)
Object == [life : {"unborn", "alive", "deleted"}, references : 0..2,
           window : BOOLEAN, running : BOOLEAN, trigger : {"unset", "set", "closed"},
           cancelled : BOOLEAN, value : 0..Reports, dirty : BOOLEAN]

Closed == [window |-> "closed", value |-> 0]

Blank == [life |-> "unborn", references |-> 0, window |-> FALSE, running |-> FALSE,
          trigger |-> "unset", cancelled |-> FALSE, value |-> 0, dirty |-> FALSE]

Actor == {"client", "reporter", "thread"}

ClientPc   == {"idle", "pump", "up", "job", "asking", "answering", "verdict", "deciding",
               "stop", "send", "join", "release"}
ReporterPc == {"off", "idle", "update", "locked", "send", "asking", "poll", "answering", "lost"}
ThreadPc   == {"none", "begin", "creating", "created", "loop", "woken",
               "wait", "paint", "release", "gone", "lost"}

Init ==
  /\ ui \in Interface
  /\ held = None
  /\ client = [pc |-> "idle", show |-> None]
  /\ reporter = [pc |-> "off", show |-> None, window |-> FALSE]
  /\ object = [s \in Show |-> Blank]
  /\ lock = [s \in Show |-> "free"]
  /\ thread = [s \in Show |-> "none"]
  /\ screen = [s \in Show |-> [window |-> "none", value |-> 0]]
  /\ key = FALSE
  /\ sample = [a \in Actor |-> FALSE]
  /\ quit = FALSE /\ posted = FALSE
  /\ pressed = [s \in Show |-> FALSE]
  /\ raced = [s \in Show |-> FALSE]
  /\ told = [s \in Show |-> "none"]

ClientAt(pc)    == client.pc = pc
ClientTo(pc)    == client' = [client EXCEPT !.pc = pc]
ReporterAt(pc)  == reporter.pc = pc
ReporterTo(pc)  == reporter' = [reporter EXCEPT !.pc = pc]
ReporterLeaves(pc) == reporter' = [pc |-> pc, show |-> None, window |-> FALSE]
ThreadAt(s, pc) == thread[s] = pc
ThreadTo(s, pc) == thread' = [thread EXCEPT ![s] = pc]
Set(s, r)       == object' = [object EXCEPT ![s] = r]
Free(s)         == lock[s] = "free"

(* Release: the last one out deletes. *)
Released(x) == IF x.references = 1
                 THEN [Blank EXCEPT !.life = "deleted", !.trigger = "closed"]
                 ELSE [x EXCEPT !.references = @ - 1]

(* Indicators are numbered in the order of their creation. *)
Fresh(s) == \A t \in Show : object[t].life = "unborn" <=> t >= s

-----------------------------------------------------------------------------
(* HasUserCancelled.  The dialog's thread has set a flag.  Whoever asks the  *)
(* bar looks at the flag, takes ESC out of the console's buffer, and stores  *)
(* what it found; nothing orders two askers.                                 *)

Polling(a, s) ==
  \/ a = "client"   /\ client.pc \in {"answering", "deciding"} /\ client.show = s
  \/ a = "reporter" /\ reporter.pc = "answering" /\ reporter.show = s
  \/ a = "thread"   /\ thread[s] = "paint"

LookAtFlag(a, s) ==
  /\ sample' = [sample EXCEPT ![a] = object[s].cancelled]
  /\ UNCHANGED <<key, raced>>

Look(a, s) ==
  /\ IF ui = "dialog" \/ object[s].cancelled
       THEN sample' = [sample EXCEPT ![a] = object[s].cancelled] /\ UNCHANGED key
       ELSE sample' = [sample EXCEPT ![a] = key] /\ key' = FALSE
  /\ raced' = [raced EXCEPT ![s] = @ \/ (ui = "bar" /\ told[s] = "none" /\ \E b \in Actor \ {a} : Polling(b, s))]

Stores(a, s) ==
  /\ Set(s, IF ui = "bar" THEN [object[s] EXCEPT !.cancelled = sample[a]] ELSE object[s])
  /\ sample' = [sample EXCEPT ![a] = FALSE]

-----------------------------------------------------------------------------
(* ProgressStart. *)

(* An earlier call was left by an exception: its indicator is still there.  *)
StartAgain ==
  /\ ClientAt("idle") /\ held # None
  /\ client' = [pc |-> "up", show |-> held]
  /\ UNCHANGED <<held, reporter, object, lock, thread, screen, key, sample, env, ghosts>>

(* No memory: the calls that follow find no indicator. *)
StartNothing ==
  /\ ClientAt("idle") /\ held = None
  /\ client' = [pc |-> "up", show |-> None]
  /\ UNCHANGED <<held, reporter, object, lock, thread, screen, key, sample, env, ghosts>>

CreatedUncounted(threaded) ==
  [Blank EXCEPT !.life = "alive", !.references = 1,
                !.window = ui = "bar" /\ threaded, !.running = ui = "bar" /\ threaded]

CreatedCountedTwice(threaded) ==
  [Blank EXCEPT !.life = "alive", !.references = IF threaded THEN 3 ELSE 1,
                !.window = ui = "bar" /\ threaded, !.running = ui = "bar" /\ threaded]

(* A new object, and its thread or none: a thread owns a reference.          *)
Created(threaded) ==
  [Blank EXCEPT !.life = "alive", !.references = IF threaded THEN 2 ELSE 1,
                !.window = ui = "bar" /\ threaded, !.running = ui = "bar" /\ threaded]

StartDialog(s) ==
  /\ ui = "dialog"
  /\ ClientAt("idle") /\ held = None /\ Fresh(s)
  /\ \E threaded \in BOOLEAN :
       /\ Set(s, Created(threaded))
       /\ IF threaded
            THEN ThreadTo(s, "begin") /\ client' = [pc |-> "pump", show |-> s] /\ UNCHANGED held
            ELSE client' = [pc |-> "up", show |-> s] /\ held' = s /\ UNCHANGED thread
  /\ UNCHANGED <<reporter, lock, screen, key, sample, env, ghosts>>

StartWithoutWaiting ==
  /\ ClientAt("pump")
  /\ Set(client.show, [object[client.show] EXCEPT !.trigger = "closed"])
  /\ held' = client.show
  /\ ClientTo("up")
  /\ UNCHANGED <<reporter, lock, thread, screen, key, sample, env, ghosts>>

(* The handshake: until the window is there, or WM_QUIT.  The pump looks for *)
(* thread messages and removes none, so one of them keeps it for ever.       *)
Started ==
  /\ ClientAt("pump")
  /\ object[client.show].trigger = "set" \/ quit
  /\ ~posted
  /\ Set(client.show, [object[client.show] EXCEPT !.trigger = "closed"])
  /\ held' = client.show
  /\ ClientTo("up")
  /\ UNCHANGED <<reporter, lock, thread, screen, key, sample, env, ghosts>>

StartBar(s) ==
  /\ ui = "bar"
  /\ ClientAt("idle") /\ held = None /\ Fresh(s)
  /\ \E threaded \in BOOLEAN :
       /\ Set(s, Created(threaded))
       /\ thread' = [thread EXCEPT ![s] = IF threaded THEN "wait" ELSE @]
  /\ held' = s
  /\ client' = [pc |-> "up", show |-> s]
  /\ UNCHANGED <<reporter, lock, screen, key, sample, env, ghosts>>

(* A download: its worker reports until it is done; completion waits for it, *)
(* unless the application quits.                                             *)
BeginJob ==
  /\ ClientAt("up") /\ ReporterAt("off")
  /\ reporter' = [pc |-> "idle", show |-> None, window |-> FALSE]
  /\ ClientTo("job")
  /\ UNCHANGED <<held, object, lock, thread, screen, key, sample, env, ghosts>>

JobOver ==
  /\ ClientAt("job")
  /\ ReporterAt("off") \/ quit
  /\ ClientTo("asking")
  /\ UNCHANGED <<held, reporter, object, lock, thread, screen, key, sample, env, ghosts>>

(* No download under this indicator: Verify, which ends or throws. *)
NoJob ==
  /\ ClientAt("up")
  /\ ClientTo("verdict")
  /\ UNCHANGED <<held, reporter, object, lock, thread, screen, key, sample, env, ghosts>>

Throws ==
  /\ ClientAt("up")
  /\ client' = [pc |-> "idle", show |-> None]
  /\ UNCHANGED <<held, reporter, object, lock, thread, screen, key, sample, env, ghosts>>

(* The destructor of the user interface stops what is left. *)
Destructor ==
  /\ ClientAt("idle") /\ held # None
  /\ client' = [pc |-> "verdict", show |-> held]
  /\ UNCHANGED <<held, reporter, object, lock, thread, screen, key, sample, env, ghosts>>

-----------------------------------------------------------------------------
(* ProgressCancelled, and ProgressStop. *)

Ask ==
  /\ ClientAt("asking") /\ client.show # None
  /\ Look("client", client.show)
  /\ ClientTo("answering")
  /\ UNCHANGED <<held, reporter, object, lock, thread, screen, env, pressed, told>>

Answered ==
  /\ ClientAt("answering")
  /\ Stores("client", client.show)
  /\ ClientTo("verdict")
  /\ UNCHANGED <<held, reporter, lock, thread, screen, key, env, ghosts>>

NothingToStop ==
  /\ client.pc \in {"asking", "verdict"} /\ client.show = None
  /\ ClientTo("idle")
  /\ UNCHANGED <<held, reporter, object, lock, thread, screen, key, sample, env, ghosts>>

Decide ==
  /\ ClientAt("verdict") /\ client.show # None
  /\ Look("client", client.show)
  /\ told' = [told EXCEPT ![client.show] = IF sample'["client"] THEN "yes" ELSE "no"]
  /\ ClientTo("deciding")
  /\ UNCHANGED <<held, reporter, object, lock, thread, screen, env, pressed>>

Decided ==
  /\ ClientAt("deciding")
  /\ Stores("client", client.show)
  /\ ClientTo("stop")
  /\ UNCHANGED <<held, reporter, lock, thread, screen, key, env, ghosts>>

(* StopProgressDialog forgets the window and tells it to destroy itself;     *)
(* TProgressBar::Stop forgets the thread and waits for its end.              *)
StopForgets ==
  /\ ClientAt("stop") /\ Free(client.show)
  /\ LET x == object[client.show]
     IN /\ Set(client.show, [x EXCEPT !.window = FALSE, !.running = FALSE])
        /\ ClientTo(IF ~x.window THEN "release" ELSE IF ui = "bar" THEN "join" ELSE "send")
  /\ UNCHANGED <<held, reporter, lock, thread, screen, key, sample, env, ghosts>>

Joined ==
  /\ ClientAt("join")
  /\ ThreadAt(client.show, "gone")
  /\ ClientTo("release")
  /\ UNCHANGED <<held, reporter, object, lock, thread, screen, key, sample, env, ghosts>>

ClientReleases ==
  /\ ClientAt("release")
  /\ Set(client.show, Released(object[client.show]))
  /\ held' = None
  /\ client' = [pc |-> "idle", show |-> None]
  /\ UNCHANGED <<reporter, lock, thread, screen, key, sample, env, ghosts>>

-----------------------------------------------------------------------------
(* The worker, between two blocks: ProgressUpdate, then ProgressCancelled.   *)

(* progress_ is read without a lock, and used a step later. *)
ReportBegins ==
  /\ ReporterAt("idle") /\ held # None
  /\ object[held].value < Reports
  /\ reporter' = [reporter EXCEPT !.pc = "update", !.show = held]
  /\ UNCHANGED <<held, client, object, lock, thread, screen, key, sample, env, ghosts>>

Alive(s) == object[s].life = "alive"

(* What a thread does with a deleted object is anybody's guess. *)
ReporterLost ==
  /\ reporter.pc \in {"update", "locked", "poll", "answering"}
  /\ ~Alive(reporter.show)
  /\ ReporterTo("lost")
  /\ UNCHANGED <<held, client, object, lock, thread, screen, key, sample, env, ghosts>>

SetProgress ==
  /\ ReporterAt("update") /\ Alive(reporter.show) /\ Free(reporter.show)
  /\ LET x == object[reporter.show]
     IN /\ Set(reporter.show, [x EXCEPT !.value = @ + 1, !.dirty = TRUE])
        /\ reporter' = [reporter EXCEPT !.pc = "locked", !.window = ui = "dialog" /\ x.window]
  /\ lock' = [lock EXCEPT ![reporter.show] = "reporter"]
  /\ UNCHANGED <<held, client, thread, screen, key, sample, env, ghosts>>

SendHolding ==
  /\ ReporterAt("locked") /\ Alive(reporter.show)
  /\ lock' = IF reporter.window THEN lock ELSE [lock EXCEPT ![reporter.show] = "free"]
  /\ ReporterTo(IF reporter.window THEN "send" ELSE "asking")
  /\ UNCHANGED <<held, client, object, thread, screen, key, sample, env, ghosts>>

PostUpdate ==
  /\ ReporterAt("locked") /\ Alive(reporter.show)
  /\ lock' = [lock EXCEPT ![reporter.show] = "free"]
  /\ ReporterTo("asking")
  /\ UNCHANGED <<held, client, object, thread, screen, key, sample, env, ghosts>>

(* The lock is left before the message is sent. *)
Unlocked ==
  /\ ReporterAt("locked") /\ Alive(reporter.show)
  /\ lock' = [lock EXCEPT ![reporter.show] = "free"]
  /\ ReporterTo(IF reporter.window THEN "send" ELSE "asking")
  /\ UNCHANGED <<held, client, object, thread, screen, key, sample, env, ghosts>>

AskBegins ==
  /\ ReporterAt("asking")
  /\ IF held = None THEN ReporterLeaves("idle")
       ELSE reporter' = [pc |-> "poll", show |-> held, window |-> FALSE]
  /\ UNCHANGED <<held, client, object, lock, thread, screen, key, sample, env, ghosts>>

ReporterLooks ==
  /\ ReporterAt("poll") /\ Alive(reporter.show)
  /\ Look("reporter", reporter.show)
  /\ ReporterTo("answering")
  /\ UNCHANGED <<held, client, object, lock, thread, screen, env, pressed, told>>

(* A cancelled download is closed. *)
ReporterAnswered ==
  /\ ReporterAt("answering") /\ Alive(reporter.show)
  /\ Stores("reporter", reporter.show)
  /\ ReporterLeaves(IF sample["reporter"] THEN "off" ELSE "idle")
  /\ UNCHANGED <<held, client, lock, thread, screen, key, env, ghosts>>

JobEnds ==
  /\ ReporterAt("idle")
  /\ ReporterTo("off")
  /\ UNCHANGED <<held, client, object, lock, thread, screen, key, sample, env, ghosts>>

(* A window that is gone answers at once.  Only the client destroys it. *)
Unanswered(s) == screen[s].window # "open"

ReporterSendFails ==
  /\ ReporterAt("send") /\ Unanswered(reporter.show)
  /\ ReporterTo("asking")
  /\ UNCHANGED <<held, client, object, lock, thread, screen, key, sample, env, ghosts>>

-----------------------------------------------------------------------------
(* dialog_thread and dialog_proc. *)

(* The parameters are on the stack of StartProgressDialog: after WM_QUIT     *)
(* they may be gone before they are copied.                                  *)
CopyParams(s) ==
  /\ ThreadAt(s, "begin")
  /\ \/ ThreadTo(s, "creating")
     \/ ~(client.pc = "pump" /\ client.show = s) /\ ThreadTo(s, "lost")
  /\ UNCHANGED <<held, client, reporter, object, lock, screen, key, sample, env, ghosts>>

(* WM_INITDIALOG stores the window without the lock, and paints everything. *)
CreateWindow(s) ==
  /\ ThreadAt(s, "creating")
  /\ Set(s, [object[s] EXCEPT !.window = TRUE, !.dirty = FALSE])
  /\ screen' = [screen EXCEPT ![s] = [window |-> "open", value |-> object[s].value]]
  /\ ThreadTo(s, "created")
  /\ UNCHANGED <<held, client, reporter, lock, key, sample, env, ghosts>>

Triggered(x) == [x EXCEPT !.trigger = IF @ = "unset" THEN "set" ELSE @]

SignalStart(s) ==
  /\ ThreadAt(s, "created")
  /\ Set(s, Triggered(object[s]))
  /\ ThreadTo(s, "loop")
  /\ UNCHANGED <<held, client, reporter, lock, screen, key, sample, env, ghosts>>

CreateFails(s) ==
  /\ ThreadAt(s, "creating")
  /\ Set(s, Triggered(object[s]))
  /\ ThreadTo(s, "release")
  /\ UNCHANGED <<held, client, reporter, lock, screen, key, sample, env, ghosts>>

(* WM_DLG_UPDATE paints what changed, but no progress after a cancel. *)
HandleUpdate(s) ==
  /\ ThreadAt(s, "loop") /\ Free(s)
  /\ ReporterAt("send") /\ reporter.show = s
  /\ LET x == object[s]
     IN /\ screen' = [screen EXCEPT ![s].value = IF x.dirty /\ ~x.cancelled THEN x.value ELSE @]
        /\ Set(s, [x EXCEPT !.dirty = FALSE])
  /\ ReporterTo("asking")
  /\ UNCHANGED <<held, client, lock, thread, key, sample, env, ghosts>>

(* WM_CLOSE, or the cancel button. *)
HandleCancel(s) ==
  /\ ThreadAt(s, "loop") /\ Free(s)
  /\ Set(s, [object[s] EXCEPT !.cancelled = TRUE])
  /\ pressed' = [pressed EXCEPT ![s] = @ \/ told[s] = "none"]
  /\ UNCHANGED <<held, client, reporter, lock, thread, screen, key, sample, env, raced, told>>

HandleDestroyQuietly(s) ==
  /\ ThreadAt(s, "loop")
  /\ ClientAt("send") /\ client.show = s
  /\ screen' = [screen EXCEPT ![s] = Closed]
  /\ Set(s, [object[s] EXCEPT !.window = FALSE])
  /\ ClientTo("release")
  /\ UNCHANGED <<held, reporter, lock, thread, key, sample, env, ghosts>>

(* WM_DLG_DESTROY.  Handling a sent message does not end GetMessage: the     *)
(* message posted here does.                                                 *)
HandleDestroy(s) ==
  /\ ThreadAt(s, "loop")
  /\ ClientAt("send") /\ client.show = s
  /\ screen' = [screen EXCEPT ![s] = Closed]
  /\ Set(s, [object[s] EXCEPT !.window = FALSE])
  /\ ThreadTo(s, "woken")
  /\ ClientTo("release")
  /\ UNCHANGED <<held, reporter, lock, key, sample, env, ghosts>>

LeaveLoop(s) ==
  /\ ThreadAt(s, "woken")
  /\ ThreadTo(s, "release")
  /\ UNCHANGED <<held, client, reporter, object, lock, screen, key, sample, env, ghosts>>

-----------------------------------------------------------------------------
(* progress_thread and TProgressBar::Update: wait, then under the lock leave,*)
(* or look for ESC and paint.                                                *)

BarWakes(s) ==
  /\ ThreadAt(s, "wait") /\ Free(s)
  /\ object[s].running
  /\ Look("thread", s)
  /\ lock' = [lock EXCEPT ![s] = "thread"]
  /\ ThreadTo(s, "paint")
  /\ UNCHANGED <<held, client, reporter, object, screen, env, pressed, told>>

BarPaints(s) ==
  /\ ThreadAt(s, "paint")
  /\ Stores("thread", s)
  /\ screen' = [screen EXCEPT ![s] = [window |-> "open",
                  value |-> IF sample["thread"] THEN @.value ELSE object[s].value]]
  /\ lock' = [lock EXCEPT ![s] = "free"]
  /\ ThreadTo(s, "wait")
  /\ UNCHANGED <<held, client, reporter, key, env, ghosts>>

(* The line is wiped. *)
BarEnds(s) ==
  /\ ThreadAt(s, "wait") /\ Free(s)
  /\ ~object[s].running
  /\ screen' = [screen EXCEPT ![s] = Closed]
  /\ ThreadTo(s, "release")
  /\ UNCHANGED <<held, client, reporter, object, lock, key, sample, env, ghosts>>

ThreadReleases(s) ==
  /\ ThreadAt(s, "release")
  /\ Set(s, Released(object[s]))
  /\ ThreadTo(s, "gone")
  /\ UNCHANGED <<held, client, reporter, lock, screen, key, sample, env, ghosts>>

-----------------------------------------------------------------------------
(* The user of the console, and the application. *)

PressEscape ==
  /\ ui = "bar" /\ ~key
  /\ key' = TRUE
  /\ pressed' = [s \in Show |-> pressed[s] \/ (held = s /\ Alive(s) /\ told[s] = "none")]
  /\ UNCHANGED <<held, client, reporter, object, lock, thread, screen, sample, env, raced, told>>

PostQuit ==
  /\ ~quit /\ quit' = TRUE
  /\ UNCHANGED <<ui, posted, held, client, reporter, object, lock, thread, screen, key,
                 sample, ghosts>>

PostThreadMessage ==
  /\ ui = "dialog" /\ ~posted /\ posted' = TRUE
  /\ UNCHANGED <<ui, quit, held, client, reporter, object, lock, thread, screen, key,
                 sample, ghosts>>

Client ==
  \/ StartAgain \/ StartNothing \/ \E s \in Show : StartDialog(s) \/ StartBar(s)
  \/ Started \/ BeginJob \/ JobOver \/ NoJob \/ Throws \/ Destructor
  \/ Ask \/ Answered \/ NothingToStop \/ Decide \/ Decided
  \/ StopForgets \/ Joined \/ ClientReleases

Reporter ==
  \/ ReportBegins \/ ReporterLost \/ SetProgress \/ Unlocked \/ ReporterSendFails
  \/ AskBegins \/ ReporterLooks \/ ReporterAnswered \/ JobEnds

Thread(s) ==
  \/ CopyParams(s) \/ CreateWindow(s) \/ SignalStart(s) \/ CreateFails(s)
  \/ HandleUpdate(s) \/ HandleDestroy(s) \/ LeaveLoop(s)
  \/ BarWakes(s) \/ BarPaints(s) \/ BarEnds(s)
  \/ ThreadReleases(s)

User == PressEscape \/ \E s \in Show : HandleCancel(s)

Next ==
  \/ Client \/ Reporter \/ User
  \/ \E s \in Show : Thread(s)
  \/ PostQuit \/ PostThreadMessage

Spec == Init /\ [][Next]_vars

(* What ends a call of ProgressStart or ProgressStop. *)
ClientFinishes ==
  \/ Started \/ JobOver \/ Destructor \/ Ask \/ Answered \/ NothingToStop
  \/ Decide \/ Decided \/ StopForgets \/ Joined \/ ClientReleases

(* The three threads are scheduled.  A region under the lock is short and    *)
(* the bar sleeps between two of them, so whoever wants it gets it.          *)
FairSpec ==
  /\ Spec
  /\ WF_vars(ClientFinishes) /\ SF_vars(StopForgets)
  /\ WF_vars(Reporter) /\ SF_vars(SetProgress)
  /\ \A s \in Show : WF_vars(Thread(s))

-----------------------------------------------------------------------------
(* Properties. *)

(* Every variable stays in its domain. *)
TypeOK ==
  /\ ui \in Interface
  /\ held \in Show \cup {None}
  /\ client \in [pc : ClientPc, show : Show \cup {None}]
  /\ reporter \in [pc : ReporterPc, show : Show \cup {None}, window : BOOLEAN]
  /\ object \in [Show -> Object]
  /\ lock \in [Show -> {"free", "client", "reporter", "thread"}]
  /\ thread \in [Show -> ThreadPc]
  /\ screen \in [Show -> [window : {"none", "open", "closed"}, value : 0..Reports]]
  /\ key \in BOOLEAN /\ quit \in BOOLEAN /\ posted \in BOOLEAN
  /\ sample \in [Actor -> BOOLEAN]
  /\ pressed \in [Show -> BOOLEAN] /\ raced \in [Show -> BOOLEAN]
  /\ told \in [Show -> {"none", "no", "yes"}]

ClientUses(s)   == client.show = s /\ client.pc \notin {"idle"}
ThreadUses(s)   == thread[s] \notin {"none", "gone", "lost"}
ReporterUses(s) == reporter.show = s /\ reporter.pc \in {"update", "locked", "poll", "answering"}

(* An indicator is in memory as long as a thread may touch it; the worker,   *)
(* which owns no reference, is safe unless the application quits under it.   *)
(* CProgressDialog.cpp:231-242, TProgressBar.cpp:153-164, 198-218.           *)
UsedIsAlive ==
  \A s \in Show :
    ClientUses(s) \/ ThreadUses(s) \/ (ReporterUses(s) /\ ~quit) => Alive(s)

(* Once ProgressStop has answered and returned, the indicator is off the     *)
(* screen and its thread paints no more, unless the application quits.       *)
(* CProgressDialog.cpp:207-221, 407-414, TProgressBar.cpp:242-259.           *)
PutAway ==
  \A s \in Show :
    told[s] # "none" /\ ~ClientUses(s) /\ ~quit =>
      /\ screen[s].window # "open"
      /\ thread[s] \in {"none", "woken", "release", "gone"}

(* A cancel made before ProgressStop asks is what it answers, unless two     *)
(* threads look for ESC at the same time.  CProgressDialog.cpp:416-426,      *)
(* TProgressBar.cpp:221-227, AutoDialog.cpp:180-192.                         *)
CancelTold ==
  [][\A s \in Show : told'[s] = "no" /\ told[s] = "none" => ~pressed[s] \/ raced'[s]]_vars

(* When SetProgress has returned the dialog shows the value it was given,    *)
(* and a cancelled dialog shows no progress.  CProgressDialog.cpp:190-204,   *)
(* 271-303, 401-405.                                                         *)
ShownIsCurrent ==
  ui = "dialog" /\ reporter.pc = "asking" =>
    LET s == reporter.show
    IN object[s].window /\ ~object[s].cancelled => screen[s].value = object[s].value

(* ProgressStart and ProgressStop return: no thread waits for one that waits *)
(* for it.  A message posted to the thread and not to a window is excepted,  *)
(* because the pump of StartProgressDialog does not remove it.               *)
(* CProgressDialog.cpp:168-186, 207-221, TProgressBar.cpp:242-259.           *)
StopReturns ==
  client.pc \notin {"idle", "up"} ~> client.pc \in {"idle", "up"} \/ posted

(* Every indicator that was stopped is deleted, unless the application quits.*)
(* CProgressDialog.cpp:231-242, 318-334, 407-414, TProgressBar.cpp:47-54.    *)
StoppedIsDeleted ==
  \A s \in Show : told[s] # "none" ~> object[s].life = "deleted" \/ quit
=============================================================================

------------------------------ MODULE Download ------------------------------
(***************************************************************************)
(* Download, DownloadContext and the worker thread of each download, driven *)
(* the way AutoUpdater drives them: a sink and a Download on the stack, get,*)
(* completion, and the end of their scope.  A step is what a thread does    *)
(* between two places where the other can see a difference; the regions     *)
(* under DownloadContext::lock are one step.                                *)
(*                                                                         *)
(* WinINet and the file system are external: they deliver the Blocks blocks *)
(* of the resource, or fail at any call.  WinINet is used synchronously,    *)
(* its callback runs in the worker inside the call that causes it.          *)
(***************************************************************************)
EXTENDS Naturals

CONSTANTS
  Contexts,   \* bound: how many contexts are ever created
  Blocks,     \* bound: the blocks of a resource
  Kind        \* kinds of url the client asks for: "local" and "remote"

Ctx  == 1..Contexts
None == 0

ASSUME DownloadAssumption ==
  /\ Contexts \in Nat /\ Blocks \in Nat
  /\ Kind \subseteq {"local", "remote"}

VARIABLES
  client,    \* the thread that calls get and completion, and its context
  owner,     \* Download::context_
  context,   \* the fields of each DownloadContext
  worker,    \* where its worker thread is
  sink,      \* the IDownloadSink its client gave it
  quit,      \* WM_QUIT is in the message queue of the client's thread
  answer     \* what completion returned

vars == <<client, owner, context, worker, sink, quit, answer>>

-----------------------------------------------------------------------------
(* life: not yet created, in memory, deleted.  trigger: completion_trigger. *)
(* session, request: the INETHandles; "stale" is a handle value that is     *)
(* stored but was closed.                                                   *)
Context == [kind : Kind \cup {"none"}, life : {"unborn", "alive", "deleted"}, references : 0..2,
            success : BOOLEAN, trigger : {"unset", "set", "closed"},
            session : {"none", "open", "closed"},
            request : {"none", "open", "closed", "stale"}]

Sink == [alive : BOOLEAN, open : BOOLEAN, stored : 0..Blocks, cancelled : BOOLEAN]

ClientPc == {"idle", "begun", "counted", "got", "wait", "settle", "release", "leave"}

(* Where execute may throw, or the worker is still to call the sink. *)
Executing == {"begin", "request", "reply", "status", "sink", "read", "append", "poll",
              "close", "return"}
WorkerPc  == Executing \cup {"none", "signal", "shutdown", "release", "gone"}

Init ==
  /\ client = [pc |-> "idle", ctx |-> None]
  /\ owner = None
  /\ context = [c \in Ctx |-> [kind |-> "none", life |-> "unborn", references |-> 0,
                               success |-> FALSE, trigger |-> "unset",
                               session |-> "none", request |-> "none"]]
  /\ worker = [c \in Ctx |-> "none"]
  /\ sink = [c \in Ctx |-> [alive |-> FALSE, open |-> FALSE, stored |-> 0,
                            cancelled |-> FALSE]]
  /\ quit = FALSE
  /\ answer = [c \in Ctx |-> "none"]

(* Field updates of one context. *)
Set(c, r) == context' = [context EXCEPT ![c] = r]

ClientAt(pc)     == client.pc = pc
ClientTo(pc)     == client' = [client EXCEPT !.pc = pc]
WorkerAt(c, pc)  == worker[c] = pc
WorkerTo(c, pc)  == worker' = [worker EXCEPT ![c] = pc]
Tell(c, a)       == answer' = [answer EXCEPT ![c] = a]

(* What is left of a context: the result is kept for the properties. *)
Deleted(x) == [kind |-> "none", life |-> "deleted", references |-> 0,
               success |-> x.success, trigger |-> "closed",
               session |-> "closed", request |-> "closed"]

(* DownloadContext::release: the last one out deletes. *)
Released(x) == IF x.references = 1 THEN Deleted(x) ELSE [x EXCEPT !.references = @ - 1]

(* DownloadContext::shutdown: nothing to do without a session. *)
ShutDown(x) ==
  IF x.session # "open" THEN x
  ELSE [x EXCEPT !.session = "closed",
                 !.request = IF @ = "open" THEN "closed" ELSE @]

(* The sink is destroyed: a FileDownloadSink closes its file. *)
EndOfScope(c) == sink' = [sink EXCEPT ![c] = [@ EXCEPT !.alive = FALSE, !.open = FALSE]]

-----------------------------------------------------------------------------
(* Download::get: the context, its events and a suspended thread. *)

(* Contexts are numbered in the order of their creation. *)
Fresh(c) == \A d \in Ctx : context[d].life = "unborn" <=> d >= c

Get(c) ==
  /\ ClientAt("idle") /\ owner = None
  /\ Fresh(c)
  /\ \E k \in Kind :
       Set(c, [context[c] EXCEPT !.kind = k, !.life = "alive", !.references = 1])
  /\ sink' = [sink EXCEPT ![c].alive = TRUE]
  /\ client' = [pc |-> "begun", ctx |-> c]
  /\ UNCHANGED <<owner, worker, quit, answer>>

(* An event or the thread cannot be created: get returns false. *)
GetFails(c) ==
  /\ ClientAt("idle") /\ owner = None
  /\ Fresh(c)
  /\ Set(c, Deleted(context[c]))
  /\ Tell(c, "no")
  /\ UNCHANGED <<client, owner, worker, sink, quit>>

ReferenceForgotten ==
  /\ ClientAt("begun")
  /\ ClientTo("counted")
  /\ UNCHANGED <<owner, context, worker, sink, quit, answer>>

(* The reference the thread will own, taken before the thread runs. *)
Reference ==
  /\ ClientAt("begun")
  /\ LET c == client.ctx IN Set(c, [context[c] EXCEPT !.references = @ + 1])
  /\ ClientTo("counted")
  /\ UNCHANGED <<owner, worker, sink, quit, answer>>

Resume ==
  /\ ClientAt("counted")
  /\ WorkerTo(client.ctx, "begin")
  /\ owner' = client.ctx
  /\ ClientTo("got")
  /\ UNCHANGED <<context, sink, quit, answer>>

(* Download::completion, up to its loop. *)
Completion ==
  /\ ClientAt("got")
  /\ owner' = None
  /\ ClientTo("wait")
  /\ UNCHANGED <<context, worker, sink, quit, answer>>

(* Download::cancel: the context is told to stop, and forgotten. *)
Cancel ==
  /\ ClientAt("got")
  /\ owner' = None
  /\ Set(client.ctx, ShutDown(context[client.ctx]))
  /\ Tell(client.ctx, "withdrawn")
  /\ ClientTo("leave")
  /\ UNCHANGED <<worker, sink, quit>>

WaitGivesUp ==
  /\ ClientAt("wait")
  /\ ClientTo("settle")
  /\ UNCHANGED <<owner, context, worker, sink, quit, answer>>

(* The loop of completion ends when the worker signals ... *)
WaitEnds ==
  /\ ClientAt("wait")
  /\ context[client.ctx].trigger = "set"
  /\ Set(client.ctx, [context[client.ctx] EXCEPT !.trigger = "closed"])
  /\ ClientTo("settle")
  /\ UNCHANGED <<owner, worker, sink, quit, answer>>

(* ... or when the pump sees WM_QUIT, which it leaves in the queue. *)
WaitQuits ==
  /\ ClientAt("wait")
  /\ quit
  /\ ClientTo("settle")
  /\ UNCHANGED <<owner, context, worker, sink, quit, answer>>

ReadSuccess ==
  /\ ClientAt("settle")
  /\ Tell(client.ctx, IF context[client.ctx].success THEN "yes" ELSE "no")
  /\ ClientTo("release")
  /\ UNCHANGED <<owner, context, worker, sink, quit>>

ClientForgets ==
  /\ ClientAt("release")
  /\ ClientTo("leave")
  /\ UNCHANGED <<owner, context, worker, sink, quit, answer>>

ClientReleases ==
  /\ ClientAt("release")
  /\ Set(client.ctx, Released(context[client.ctx]))
  /\ ClientTo("leave")
  /\ UNCHANGED <<owner, worker, sink, quit, answer>>

(* The scope of the Download and its sink ends. *)
Leave ==
  /\ ClientAt("leave")
  /\ EndOfScope(client.ctx)
  /\ client' = [pc |-> "idle", ctx |-> None]
  /\ UNCHANGED <<owner, context, worker, quit, answer>>

(* The same while a context is held: ~Download only shuts it down. *)
Destroy ==
  /\ ClientAt("got")
  /\ owner' = None
  /\ Set(client.ctx, ShutDown(context[client.ctx]))
  /\ Tell(client.ctx, "withdrawn")
  /\ EndOfScope(client.ctx)
  /\ client' = [pc |-> "idle", ctx |-> None]
  /\ UNCHANGED <<worker, quit>>

-----------------------------------------------------------------------------
(* The worker: threadproc, and execute for both kinds of url. *)

Local(c) == context[c].kind = "local"

(* The local file, or the WinINet session, is opened. *)
OpenSource(c) ==
  /\ WorkerAt(c, "begin")
  /\ IF Local(c)
       THEN WorkerTo(c, "sink") /\ UNCHANGED context
       ELSE WorkerTo(c, "request") /\ Set(c, [context[c] EXCEPT !.session = "open"])
  /\ UNCHANGED <<client, owner, sink, quit, answer>>

(* InternetOpenUrl: the callback stores the new handle at once ... *)
RequestCreated(c) ==
  /\ WorkerAt(c, "request")
  /\ context[c].session = "open"
  /\ Set(c, [context[c] EXCEPT !.request = "open"])
  /\ WorkerTo(c, "reply")
  /\ UNCHANGED <<client, owner, sink, quit, answer>>

(* ... and execute stores it again, closed or not, when the call returns. *)
RequestReturns(c) ==
  /\ WorkerAt(c, "reply")
  /\ Set(c, [context[c] EXCEPT !.request = IF @ = "closed" THEN "stale" ELSE @])
  /\ WorkerTo(c, "status")
  /\ UNCHANGED <<client, owner, sink, quit, answer>>

(* The status is below 400 and the sink is told the size. *)
QueryStatus(c) ==
  /\ WorkerAt(c, "status")
  /\ context[c].request = "open"
  /\ WorkerTo(c, "sink")
  /\ UNCHANGED <<client, owner, context, sink, quit, answer>>

(* A sink that does not open is not an error: execute returns true. *)
OpenSink(c) ==
  /\ WorkerAt(c, "sink")
  /\ \/ sink' = [sink EXCEPT ![c].open = TRUE] /\ WorkerTo(c, "read")
     \/ UNCHANGED sink /\ WorkerTo(c, "return")
  /\ UNCHANGED <<client, owner, context, quit, answer>>

Read(c) ==
  /\ WorkerAt(c, "read")
  /\ Local(c) \/ context[c].request = "open"
  /\ WorkerTo(c, IF sink[c].stored = Blocks THEN "close" ELSE "append")
  /\ UNCHANGED <<client, owner, context, sink, quit, answer>>

(* Only the loop of a remote url looks for a cancel. *)
Append(c) ==
  /\ WorkerAt(c, "append")
  /\ sink' = [sink EXCEPT ![c].stored = @ + 1]
  /\ WorkerTo(c, IF Local(c) THEN "read" ELSE "poll")
  /\ UNCHANGED <<client, owner, context, quit, answer>>

Poll(c) ==
  /\ WorkerAt(c, "poll")
  /\ WorkerTo(c, IF sink[c].cancelled THEN "close" ELSE "read")
  /\ UNCHANGED <<client, owner, context, sink, quit, answer>>

CloseSink(c) ==
  /\ WorkerAt(c, "close")
  /\ sink' = [sink EXCEPT ![c].open = FALSE]
  /\ WorkerTo(c, "return")
  /\ UNCHANGED <<client, owner, context, quit, answer>>

Return(c) ==
  /\ WorkerAt(c, "return")
  /\ Set(c, [context[c] EXCEPT !.success = TRUE])
  /\ WorkerTo(c, "signal")
  /\ UNCHANGED <<client, owner, sink, quit, answer>>

ReadErrorEnds(c) ==
  /\ worker[c] \in {"begin", "request", "reply", "status", "read", "append"}
  /\ WorkerTo(c, IF worker[c] = "read" THEN "close" ELSE "signal")
  /\ UNCHANGED <<client, owner, context, sink, quit, answer>>

(* A call of WinINet or of the sink fails, and threadproc catches it. *)
Throws(c) ==
  /\ worker[c] \in {"begin", "request", "reply", "status", "read", "append"}
  /\ WorkerTo(c, "signal")
  /\ UNCHANGED <<client, owner, context, sink, quit, answer>>

SignalSuccess(c) ==
  /\ WorkerAt(c, "signal")
  /\ Set(c, [context[c] EXCEPT !.trigger = IF @ = "unset" /\ context[c].success
                                             THEN "set" ELSE @])
  /\ WorkerTo(c, "shutdown")
  /\ UNCHANGED <<client, owner, sink, quit, answer>>

Signal(c) ==
  /\ WorkerAt(c, "signal")
  /\ Set(c, [context[c] EXCEPT !.trigger = IF @ = "unset" THEN "set" ELSE @])
  /\ WorkerTo(c, "shutdown")
  /\ UNCHANGED <<client, owner, sink, quit, answer>>

WorkerShutsDown(c) ==
  /\ WorkerAt(c, "shutdown")
  /\ Set(c, ShutDown(context[c]))
  /\ WorkerTo(c, "release")
  /\ UNCHANGED <<client, owner, sink, quit, answer>>

WorkerReleases(c) ==
  /\ WorkerAt(c, "release")
  /\ Set(c, Released(context[c]))
  /\ WorkerTo(c, "gone")
  /\ UNCHANGED <<client, owner, sink, quit, answer>>

-----------------------------------------------------------------------------
(* The user, and the application. *)

UserCancels(c) ==
  /\ sink[c].alive /\ ~sink[c].cancelled
  /\ sink' = [sink EXCEPT ![c].cancelled = TRUE]
  /\ UNCHANGED <<client, owner, context, worker, quit, answer>>

PostQuit ==
  /\ ~quit
  /\ quit' = TRUE
  /\ UNCHANGED <<client, owner, context, worker, sink, answer>>

Client ==
  \/ \E c \in Ctx : Get(c) \/ GetFails(c)
  \/ Reference \/ Resume \/ Completion \/ Cancel \/ Destroy
  \/ WaitEnds \/ WaitQuits \/ ReadSuccess \/ ClientReleases \/ Leave

Worker(c) ==
  \/ OpenSource(c) \/ RequestCreated(c) \/ RequestReturns(c) \/ QueryStatus(c)
  \/ OpenSink(c) \/ Read(c) \/ Append(c) \/ Poll(c) \/ CloseSink(c)
  \/ Return(c) \/ Throws(c)
  \/ Signal(c) \/ WorkerShutsDown(c) \/ WorkerReleases(c)

Next ==
  \/ Client
  \/ \E c \in Ctx : Worker(c) \/ UserCancels(c)
  \/ PostQuit

Spec == Init /\ [][Next]_vars

(* Both threads are scheduled, and WinINet has timeouts. *)
FairSpec == Spec /\ WF_vars(Client) /\ \A c \in Ctx : WF_vars(Worker(c))

-----------------------------------------------------------------------------
(* Properties. *)

(* Every variable stays in its domain. *)
TypeOK ==
  /\ client \in [pc : ClientPc, ctx : Ctx \cup {None}]
  /\ owner \in Ctx \cup {None}
  /\ context \in [Ctx -> Context]
  /\ worker \in [Ctx -> WorkerPc]
  /\ sink \in [Ctx -> Sink]
  /\ quit \in BOOLEAN
  /\ answer \in [Ctx -> {"none", "yes", "no", "withdrawn"}]

ClientUses(c) == client.ctx = c /\ client.pc \notin {"idle", "leave"}
WorkerUses(c) == worker[c] \notin {"none", "gone"}

(* A context is in memory as long as a thread may touch it, whichever of    *)
(* the two is the last to leave.  AutoDownLoad.cpp:302, 383-393, 428-429.   *)
UsedIsAlive ==
  \A c \in Ctx : ClientUses(c) \/ WorkerUses(c) => context[c].life = "alive"

(* Unless the application quits or gives a download up, the sink outlives   *)
(* every call the worker makes to it.  AutoDownLoad.cpp:332-358, 463-481,   *)
(* 631-673.                                                                 *)
SinkOutlivesWorker ==
  \A c \in Ctx : worker[c] \in Executing /\ ~quit /\ answer[c] # "withdrawn" => sink[c].alive

(* When completion returns true, the sink has been given the whole resource *)
(* and been closed, or the user cancelled, or the sink never opened.        *)
(* AutoDownLoad.cpp:465, 659-676.                                           *)
YesIsWhole ==
  \A c \in Ctx : answer[c] = "yes" =>
    /\ ~sink[c].open
    /\ sink[c].stored = Blocks \/ sink[c].cancelled \/ sink[c].stored = 0

(* Every context is deleted in the end, quit or not, unless its client gave *)
(* it up.  AutoDownLoad.cpp:360-362, 424-429.                               *)
NothingLeaks ==
  \A c \in Ctx : context[c].life = "alive"
                   ~> context[c].life = "deleted" \/ answer[c] = "withdrawn"

(* Download keeps the promise of Transfer: one answer for each job, in      *)
(* order, true only when the worker is done (AnswersTruly), and never       *)
(* missing (AnswersAlways).  AutoDownLoad.cpp:317-363, 410-432.             *)
JobOf(c) ==
  CASE worker[c] = "none"    -> IF answer[c] = "no" THEN "failed" ELSE "new"
    [] worker[c] \in Executing -> "running"
    [] OTHER                 -> IF context[c].success THEN "done" ELSE "failed"

T == INSTANCE Transfer WITH
       Job <- Ctx, job <- [c \in Ctx |-> JobOf(c)], answer <- answer, quitting <- quit

AnswersTruly == T!Spec
AnswersAlways == T!FairSpec
=============================================================================

---------------------------- MODULE TransferProofs ---------------------------
(***************************************************************************)
(* Download keeps the promise of Transfer, for every number of downloads     *)
(* and every size of resource: the sink outlives its worker, a yes is        *)
(* honest, and every step of the code is a step of Transfer or none.         *)
(***************************************************************************)
EXTENDS DownloadProofs

(* The client has made the context and will start its worker; has started it *)
(* and not answered. *)
Starting(c) == client.ctx = c /\ client.pc \in {"begun", "counted"}
Waiting(c)  == client.ctx = c /\ client.pc \in {"got", "wait", "settle"}

(* Who waits for whom: the client answers only after the worker has set the  *)
(* event, unless it quits or gives up. *)
Answered(c) ==
  /\ client.ctx = c /\ client.pc # "idle" => sink[c].alive
  /\ Starting(c) \/ Waiting(c) => answer[c] = "none"
  /\ Waiting(c) => worker[c] # "none"
  /\ context[c].life # "unborn" /\ answer[c] = "none" => Starting(c) \/ Waiting(c)
  /\ context[c].life = "unborn" => answer[c] = "none"
  /\ context[c].trigger = "set" => worker[c] \notin Executing \cup {"none", "signal"}
  /\ worker[c] \in Executing /\ ~quit /\ answer[c] # "withdrawn" =>
       client.ctx = c /\ client.pc \in {"got", "wait"}

(* What the sink was given by the time its worker is where it is. *)
Whole(c) ==
  /\ ~sink[c].open
  /\ sink[c].stored = Blocks \/ sink[c].cancelled \/ sink[c].stored = 0

Stored(c) ==
  /\ worker[c] \in {"none", "begin", "request", "reply", "status", "sink"} =>
       ~sink[c].open /\ sink[c].stored = 0
  /\ worker[c] = "close" => sink[c].stored = Blocks \/ sink[c].cancelled
  /\ worker[c] = "return" \/ context[c].success => Whole(c)
  /\ context[c].success => worker[c] \notin Executing \cup {"none"}
  /\ answer[c] = "yes" => context[c].success

(* Contexts are made in order. *)
InOrder == \A c, d \in Ctx : d < c /\ context[c].life # "unborn" => context[d].life # "unborn"

(* The inductive invariant. *)
Promise ==
  /\ Inv
  /\ \A c \in Ctx : Answered(c) /\ Stored(c)
  /\ InOrder

-----------------------------------------------------------------------------
LEMMA Types ==
  ASSUME Promise
  PROVE  /\ Inv
         /\ context \in [Ctx -> Context] /\ worker \in [Ctx -> WorkerPc]
         /\ sink \in [Ctx -> Sink] /\ answer \in [Ctx -> {"none", "yes", "no", "withdrawn"}]
         /\ client \in [pc : ClientPc, ctx : Ctx \cup {None}]
         /\ client.pc # "idle" => client.ctx \in Ctx
         /\ \A c \in Ctx : /\ context[c] \in Context /\ sink[c] \in Sink
                           /\ Counted(c) /\ Answered(c) /\ Stored(c)
         /\ None \notin Ctx
BY ClientTypes DEF Promise

(* The fields that matter here, and what becomes of them. *)
Like(x, y) == x.life = y.life /\ x.trigger = y.trigger /\ x.success = y.success

LikeSink(x, y) == /\ x.alive = y.alive /\ x.open = y.open
                  /\ x.stored = y.stored /\ x.cancelled = y.cancelled

LEMMA ReleasedFields ==
  ASSUME NEW x \in Context, x.references \in 1..2
  PROVE  /\ Released(x) \in Context /\ Released(x).success = x.success
         /\ Released(x).trigger \in {x.trigger, "closed"}
         /\ Released(x).life \in {x.life, "deleted"}
<1>1. CASE x.references = 1
  BY <1>1 DEF Released, Deleted, Context
<1>2. CASE x.references = 2
  <2>1. 1 \in 0..2
    OBVIOUS
  <2>2. Released(x) = [x EXCEPT !.references = 1]
    BY <1>2 DEF Released, Context
  <2> QED
    BY <2>1, <2>2 DEF Context
<1> QED
  BY <1>1, <1>2

LEMMA ShutDownFields ==
  ASSUME NEW x \in Context
  PROVE  ShutDown(x) \in Context /\ Like(ShutDown(x), x)
<1>1. CASE x.session # "open"
  BY <1>1 DEF ShutDown, Like
<1>2. CASE x.session = "open"
  <2> DEFINE q == IF x.request = "open" THEN "closed" ELSE x.request
  <2>1. q \in {"none", "open", "closed", "stale"}
    BY DEF Context
  <2>2. ShutDown(x) = [x EXCEPT !.session = "closed", !.request = q]
    BY <1>2 DEF ShutDown
  <2> HIDE DEF q
  <2> QED
    BY <2>1, <2>2 DEF Context, Like
<1> QED
  BY <1>1, <1>2

(* A step that sets one context leaves the others as they are. *)
LEMMA SetLike ==
  ASSUME NEW c \in Ctx, NEW x \in Context, context \in [Ctx -> Context], Set(c, x)
  PROVE  /\ Like(context'[c], x)
         /\ \A d \in Ctx : d # c => Like(context'[d], context[d])
BY SetFacts DEF Like

(* Steps that leave those fields of every context alone. *)
LEMMA ContextKept ==
  ASSUME Promise, NEW d \in Ctx,
         \/ Reference \/ Cancel \/ Destroy
         \/ \E c \in Ctx : OpenSource(c) \/ RequestCreated(c) \/ RequestReturns(c)
                             \/ WorkerShutsDown(c)
  PROVE  Like(context'[d], context[d])
<1>1. ASSUME NEW c \in Ctx, NEW x \in Context, Set(c, x), Like(x, context[c])
      PROVE  Like(context'[d], context[d])
  BY <1>1, Types, SetLike DEF Like
<1>2. CASE Reference
  <2> DEFINE n == context[client.ctx].references + 1
             x == [context[client.ctx] EXCEPT !.references = n]
  <2>1. client.ctx \in Ctx /\ client.pc = "begun" /\ ClientUses(client.ctx)
    BY <1>2, Types DEF Reference, ClientAt, ClientUses
  <2>2. context[client.ctx].references = 1
    BY <2>1, Types DEF Counted, Count, ClientHolds, WorkerHolds, WorkerUses
  <2>3. n \in 0..2
    BY <2>2
  <2>4. Set(client.ctx, x)
    BY <1>2 DEF Reference
  <2>5. context[client.ctx] \in Context
    BY <2>1, Types
  <2> HIDE DEF n
  <2>6. x \in Context /\ Like(x, context[client.ctx])
    BY <2>3, <2>5 DEF Context, Like
  <2> HIDE DEF x
  <2> QED
    BY <1>1, <2>1, <2>4, <2>6
<1>3. CASE Cancel \/ Destroy
  <2>1. client.ctx \in Ctx /\ Set(client.ctx, ShutDown(context[client.ctx]))
    BY <1>3, Types DEF Cancel, Destroy, ClientAt
  <2> QED
    BY <1>1, <2>1, Types, ShutDownFields
<1>4. ASSUME NEW c \in Ctx, OpenSource(c) PROVE Like(context'[d], context[d])
  <2>1. context[c] \in Context
    BY Types
  <2> DEFINE x == [context[c] EXCEPT !.session = "open"]
  <2>2. UNCHANGED context \/ Set(c, x)
    BY <1>4 DEF OpenSource
  <2>3. x \in Context /\ Like(x, context[c])
    BY <2>1 DEF Context, Like
  <2> HIDE DEF x
  <2> QED
    BY <1>1, <2>2, <2>3 DEF Like
<1>5. ASSUME NEW c \in Ctx, RequestCreated(c) PROVE Like(context'[d], context[d])
  <2>1. context[c] \in Context
    BY Types
  <2> DEFINE x == [context[c] EXCEPT !.request = "open"]
  <2>2. Set(c, x)
    BY <1>5 DEF RequestCreated
  <2>3. x \in Context /\ Like(x, context[c])
    BY <2>1 DEF Context, Like
  <2> HIDE DEF x
  <2> QED
    BY <1>1, <2>2, <2>3
<1>6. ASSUME NEW c \in Ctx, RequestReturns(c) PROVE Like(context'[d], context[d])
  <2> DEFINE q == IF context[c].request = "closed" THEN "stale" ELSE context[c].request
             x == [context[c] EXCEPT !.request = q]
  <2>1. context[c] \in Context
    BY Types
  <2>2. Set(c, x)
    BY <1>6 DEF RequestReturns
  <2>3. q \in {"none", "open", "closed", "stale"}
    BY <2>1 DEF Context
  <2> HIDE DEF q
  <2>4. x \in Context /\ Like(x, context[c])
    BY <2>1, <2>3 DEF Context, Like
  <2> HIDE DEF x
  <2> QED
    BY <1>1, <2>2, <2>4
<1>7. ASSUME NEW c \in Ctx, WorkerShutsDown(c) PROVE Like(context'[d], context[d])
  <2>1. Set(c, ShutDown(context[c]))
    BY <1>7 DEF WorkerShutsDown
  <2> QED
    BY <1>1, <2>1, Types, ShutDownFields
<1> QED
  BY <1>2, <1>3, <1>4, <1>5, <1>6, <1>7

(* Steps that do not. *)
LEMMA ReturnFields ==
  ASSUME Promise, NEW c \in Ctx, Return(c)
  PROVE  /\ context'[c].life = context[c].life /\ context'[c].trigger = context[c].trigger
         /\ context'[c].success = TRUE
         /\ \A d \in Ctx : d # c => Like(context'[d], context[d])
<1> DEFINE x == [context[c] EXCEPT !.success = TRUE]
<1>1. context[c] \in Context
  BY Types
<1>2. Set(c, x)
  BY DEF Return
<1>3. /\ x \in Context /\ x.life = context[c].life /\ x.trigger = context[c].trigger
      /\ x.success = TRUE
  BY <1>1 DEF Context
<1> HIDE DEF x
<1> QED
  BY <1>2, <1>3, Types, SetLike DEF Like

LEMMA TriggerFields ==
  ASSUME Promise, NEW c \in Ctx, NEW t \in {"unset", "set", "closed"},
         Set(c, [context[c] EXCEPT !.trigger = t])
  PROVE  /\ context'[c].life = context[c].life /\ context'[c].trigger = t
         /\ context'[c].success = context[c].success
         /\ \A d \in Ctx : d # c => Like(context'[d], context[d])
<1> DEFINE x == [context[c] EXCEPT !.trigger = t]
<1>1. context[c] \in Context
  BY Types
<1>2. /\ x \in Context /\ x.life = context[c].life /\ x.trigger = t
      /\ x.success = context[c].success
  BY <1>1 DEF Context
<1>3. Set(c, x)
  OBVIOUS
<1> HIDE DEF x
<1> QED
  BY <1>3, <1>2, Types, SetLike DEF Like

LEMMA SignalFields ==
  ASSUME Promise, NEW c \in Ctx, Signal(c)
  PROVE  /\ context'[c].life = context[c].life
         /\ context'[c].success = context[c].success
         /\ \A d \in Ctx : d # c => Like(context'[d], context[d])
<1> DEFINE t == IF context[c].trigger = "unset" THEN "set" ELSE context[c].trigger
<1>1. Set(c, [context[c] EXCEPT !.trigger = t])
  BY DEF Signal
<1>2. t \in {"unset", "set", "closed"}
  BY Types DEF Context
<1> HIDE DEF t
<1> QED
  BY <1>1, <1>2, TriggerFields

LEMMA ReleaseFields ==
  ASSUME Promise, NEW c \in Ctx, Set(c, Released(context[c])), ClientUses(c) \/ WorkerUses(c)
  PROVE  /\ context'[c].life \in {context[c].life, "deleted"}
         /\ context'[c].trigger \in {context[c].trigger, "closed"}
         /\ context'[c].success = context[c].success
         /\ \A d \in Ctx : d # c => Like(context'[d], context[d])
<1>1. context[c].references \in 1..2
  BY Types DEF Counted, Count, ClientHolds, WorkerHolds
<1> QED
  BY <1>1, Types, ReleasedFields, SetLike DEF Like

LEMMA GetFields ==
  ASSUME Promise, NEW c \in Ctx, Get(c)
  PROVE  /\ context'[c].life = "alive" /\ context'[c].trigger = context[c].trigger
         /\ context'[c].success = context[c].success
         /\ \A d \in Ctx : d # c => Like(context'[d], context[d])
<1>1. PICK k \in Kind :
        Set(c, [context[c] EXCEPT !.kind = k, !.life = "alive", !.references = 1])
  BY DEF Get
<1> DEFINE x == [context[c] EXCEPT !.kind = k, !.life = "alive", !.references = 1]
<1>2. context[c] \in Context /\ 1 \in 0..2 /\ k \in Kind \cup {"none"}
  BY Types
<1>3. x \in Context /\ x.life = "alive" /\ x.trigger = context[c].trigger
      /\ x.success = context[c].success
  BY <1>2 DEF Context
<1>4. Set(c, x)
  BY <1>1
<1> HIDE DEF x
<1> QED
  BY <1>3, <1>4, Types, SetLike DEF Like

LEMMA GetFailsFields ==
  ASSUME Promise, NEW c \in Ctx, GetFails(c)
  PROVE  /\ context'[c].life = "deleted" /\ context'[c].trigger = "closed"
         /\ context'[c].success = context[c].success
         /\ \A d \in Ctx : d # c => Like(context'[d], context[d])
<1> DEFINE x == Deleted(context[c])
<1>1. context[c] \in Context
  BY Types
<1>2. x \in Context /\ x.life = "deleted" /\ x.trigger = "closed" /\ x.success = context[c].success
  BY <1>1 DEF Deleted, Context
<1>3. Set(c, x)
  BY DEF GetFails
<1> HIDE DEF x
<1> QED
  BY <1>2, <1>3, Types, SetLike DEF Like

(* The same for the sinks, and what each step that sets one does to it. *)
LEMMA SinkIs ==
  ASSUME Promise, NEW c \in Ctx, NEW x \in Sink, sink' = [sink EXCEPT ![c] = x]
  PROVE  LikeSink(sink'[c], x) /\ \A d \in Ctx : d # c => LikeSink(sink'[d], sink[d])
BY Types DEF LikeSink

LEMMA AppendFields ==
  ASSUME Promise, NEW c \in Ctx, Append(c)
  PROVE  /\ sink'[c].alive = sink[c].alive /\ \A d \in Ctx : d # c => LikeSink(sink'[d], sink[d])
<1> DEFINE n == sink[c].stored + 1
           x == [sink[c] EXCEPT !.stored = n]
<1>1. sink[c] \in Sink /\ sink[c].stored < Blocks
  BY Types DEF Append, WorkerAt, Counted
<1>2. n \in 0..Blocks
  BY <1>1, DownloadAssumption DEF Sink
<1>3. sink' = [sink EXCEPT ![c] = x]
  BY DEF Append
<1> HIDE DEF n
<1>4. x \in Sink /\ x.alive = sink[c].alive
  BY <1>1, <1>2 DEF Sink
<1> HIDE DEF x
<1> QED
  BY <1>3, <1>4, SinkIs DEF LikeSink

LEMMA OpenFields ==
  ASSUME Promise, NEW c \in Ctx, NEW b \in BOOLEAN, sink' = [sink EXCEPT ![c].open = b]
  PROVE  /\ sink'[c].alive = sink[c].alive /\ sink'[c].open = b
         /\ sink'[c].stored = sink[c].stored /\ sink'[c].cancelled = sink[c].cancelled
         /\ \A d \in Ctx : d # c => LikeSink(sink'[d], sink[d])
<1> DEFINE x == [sink[c] EXCEPT !.open = b]
<1>1. sink[c] \in Sink
  BY Types
<1>2. sink' = [sink EXCEPT ![c] = x]
  OBVIOUS
<1>3. x \in Sink /\ x.alive = sink[c].alive /\ x.open = b /\ x.stored = sink[c].stored
      /\ x.cancelled = sink[c].cancelled
  BY <1>1 DEF Sink
<1> HIDE DEF x
<1> QED
  BY <1>2, <1>3, SinkIs DEF LikeSink

LEMMA CancelledFields ==
  ASSUME Promise, NEW c \in Ctx, UserCancels(c)
  PROVE  /\ sink'[c].alive = sink[c].alive /\ sink'[c].open = sink[c].open
         /\ sink'[c].stored = sink[c].stored /\ sink'[c].cancelled
         /\ \A d \in Ctx : d # c => LikeSink(sink'[d], sink[d])
<1> DEFINE x == [sink[c] EXCEPT !.cancelled = TRUE]
<1>1. sink[c] \in Sink
  BY Types
<1>2. sink' = [sink EXCEPT ![c] = x]
  BY DEF UserCancels
<1>3. x \in Sink /\ x.alive = sink[c].alive /\ x.open = sink[c].open
      /\ x.stored = sink[c].stored /\ x.cancelled = TRUE
  BY <1>1 DEF Sink
<1> HIDE DEF x
<1> QED
  BY <1>2, <1>3, SinkIs DEF LikeSink

LEMMA GetSinkFields ==
  ASSUME Promise, NEW c \in Ctx, Get(c)
  PROVE  /\ sink'[c].alive /\ sink'[c].open = sink[c].open
         /\ sink'[c].stored = sink[c].stored /\ sink'[c].cancelled = sink[c].cancelled
         /\ \A d \in Ctx : d # c => LikeSink(sink'[d], sink[d])
<1> DEFINE x == [sink[c] EXCEPT !.alive = TRUE]
<1>1. sink[c] \in Sink
  BY Types
<1>2. sink' = [sink EXCEPT ![c] = x]
  BY DEF Get
<1>3. x \in Sink /\ x.alive = TRUE /\ x.open = sink[c].open
      /\ x.stored = sink[c].stored /\ x.cancelled = sink[c].cancelled
  BY <1>1 DEF Sink
<1> HIDE DEF x
<1> QED
  BY <1>2, <1>3, SinkIs DEF LikeSink

LEMMA ScopeFields ==
  ASSUME Promise, NEW c \in Ctx, EndOfScope(c)
  PROVE  /\ ~sink'[c].open
         /\ sink'[c].stored = sink[c].stored /\ sink'[c].cancelled = sink[c].cancelled
         /\ \A d \in Ctx : d # c => LikeSink(sink'[d], sink[d])
<1> DEFINE x == [sink[c] EXCEPT !.alive = FALSE, !.open = FALSE]
<1>1. sink[c] \in Sink
  BY Types
<1>2. sink' = [sink EXCEPT ![c] = x]
  BY DEF EndOfScope
<1>3. x \in Sink /\ x.open = FALSE
      /\ x.stored = sink[c].stored /\ x.cancelled = sink[c].cancelled
  BY <1>1 DEF Sink
<1> HIDE DEF x
<1> QED
  BY <1>2, <1>3, SinkIs DEF LikeSink

-----------------------------------------------------------------------------
(* The worker: each of its steps keeps Answered and Stored of every context.  *)
LEMMA OpenSourceKeeps ==
  ASSUME Promise, NEW c \in Ctx, OpenSource(c), NEW d \in Ctx
  PROVE  Answered(d)' /\ Stored(d)'
<1>1. UNCHANGED <<client, owner, quit, answer, sink>>
  BY DEF OpenSource
<1>2. d # c => worker'[d] = worker[d]
  BY Types DEF OpenSource, WorkerTo
<1>3. Like(context'[d], context[d])
  BY ContextKept
<1>4. Answered(d)'
  BY <1>1, <1>2, <1>3, Types DEF OpenSource, WorkerAt, WorkerTo, Answered, Starting,
     Waiting, Executing, Like
<1>5. Stored(d)'
  BY <1>1, <1>2, <1>3, Types DEF OpenSource, WorkerAt, WorkerTo, WorkerPc, Stored, Whole, Like
<1> QED
  BY <1>4, <1>5

LEMMA RequestCreatedKeeps ==
  ASSUME Promise, NEW c \in Ctx, RequestCreated(c), NEW d \in Ctx
  PROVE  Answered(d)' /\ Stored(d)'
<1>1. UNCHANGED <<client, owner, quit, answer, sink>>
  BY DEF RequestCreated
<1>2. d # c => worker'[d] = worker[d]
  BY Types DEF RequestCreated, WorkerTo
<1>3. Like(context'[d], context[d])
  BY ContextKept
<1>4. Answered(d)'
  BY <1>1, <1>2, <1>3, Types DEF RequestCreated, WorkerAt, WorkerTo, Answered, Starting,
     Waiting, Executing, Like
<1>5. Stored(d)'
  BY <1>1, <1>2, <1>3, Types DEF RequestCreated, WorkerAt, WorkerTo, WorkerPc, Stored,
     Whole, Like
<1> QED
  BY <1>4, <1>5

LEMMA RequestReturnsKeeps ==
  ASSUME Promise, NEW c \in Ctx, RequestReturns(c), NEW d \in Ctx
  PROVE  Answered(d)' /\ Stored(d)'
<1>1. UNCHANGED <<client, owner, quit, answer, sink>>
  BY DEF RequestReturns
<1>2. d # c => worker'[d] = worker[d]
  BY Types DEF RequestReturns, WorkerTo
<1>3. Like(context'[d], context[d])
  BY ContextKept
<1>4. Answered(d)'
  BY <1>1, <1>2, <1>3, Types DEF RequestReturns, WorkerAt, WorkerTo, Answered, Starting,
     Waiting, Executing, Like
<1>5. Stored(d)'
  BY <1>1, <1>2, <1>3, Types DEF RequestReturns, WorkerAt, WorkerTo, WorkerPc, Stored,
     Whole, Like
<1> QED
  BY <1>4, <1>5

LEMMA QueryStatusKeeps ==
  ASSUME Promise, NEW c \in Ctx, QueryStatus(c), NEW d \in Ctx
  PROVE  Answered(d)' /\ Stored(d)'
<1>1. UNCHANGED <<client, owner, quit, answer, context, sink>>
  BY DEF QueryStatus
<1>2. d # c => worker'[d] = worker[d]
  BY Types DEF QueryStatus, WorkerTo
<1>3. Answered(d)'
  BY <1>1, <1>2, Types DEF QueryStatus, WorkerAt, WorkerTo, Answered, Starting, Waiting,
     Executing
<1>4. Stored(d)'
  BY <1>1, <1>2, Types DEF QueryStatus, WorkerAt, WorkerTo, WorkerPc, Stored, Whole
<1> QED
  BY <1>3, <1>4

LEMMA OpenSinkKeeps ==
  ASSUME Promise, NEW c \in Ctx, OpenSink(c), NEW d \in Ctx
  PROVE  Answered(d)' /\ Stored(d)'
<1>1. /\ UNCHANGED <<client, owner, quit, answer, context>>
      /\ UNCHANGED sink \/ sink' = [sink EXCEPT ![c].open = TRUE]
  BY DEF OpenSink
<1>2. d # c => worker'[d] = worker[d]
  BY Types DEF OpenSink, WorkerTo
<1>3. /\ sink'[c].alive = sink[c].alive
      /\ UNCHANGED sink \/ sink'[c].open = TRUE
      /\ sink'[c].stored = sink[c].stored /\ sink'[c].cancelled = sink[c].cancelled
      /\ \A e \in Ctx : e # c => LikeSink(sink'[e], sink[e])
  <2>1. CASE UNCHANGED sink
    BY <2>1 DEF LikeSink
  <2>2. CASE sink' = [sink EXCEPT ![c].open = TRUE]
    BY <2>2, OpenFields
  <2> QED
    BY <1>1, <2>1, <2>2
<1>4. Answered(d)'
  BY <1>1, <1>2, <1>3, Types DEF OpenSink, WorkerAt, WorkerTo, Answered, Starting, Waiting,
     Executing
<1>5. Stored(d)'
  BY <1>1, <1>2, <1>3, Types DEF OpenSink, WorkerAt, WorkerTo, WorkerPc, Stored, Whole
<1> QED
  BY <1>4, <1>5

LEMMA ReadKeeps ==
  ASSUME Promise, NEW c \in Ctx, Read(c), NEW d \in Ctx
  PROVE  Answered(d)' /\ Stored(d)'
<1>1. UNCHANGED <<client, owner, quit, answer, context, sink>>
  BY DEF Read
<1>2. d # c => worker'[d] = worker[d]
  BY Types DEF Read, WorkerTo
<1>3. Answered(d)'
  BY <1>1, <1>2, Types DEF Read, WorkerAt, WorkerTo, Answered, Starting, Waiting, Executing
<1>4. Stored(d)'
  BY <1>1, <1>2, Types DEF Read, WorkerAt, WorkerTo, WorkerPc, Stored, Whole
<1> QED
  BY <1>3, <1>4

LEMMA AppendKeeps ==
  ASSUME Promise, NEW c \in Ctx, Append(c), NEW d \in Ctx
  PROVE  Answered(d)' /\ Stored(d)'
<1>1. UNCHANGED <<client, owner, quit, answer, context>>
  BY DEF Append
<1>2. d # c => worker'[d] = worker[d]
  BY Types DEF Append, WorkerTo
<1>3. Answered(d)'
  BY <1>1, <1>2, AppendFields, Types DEF Append, WorkerAt, WorkerTo, Answered, Starting,
     Waiting, Executing
<1>4. Stored(d)'
  BY <1>1, <1>2, AppendFields, Types DEF Append, WorkerAt, WorkerTo, WorkerPc, Stored, Whole
<1> QED
  BY <1>3, <1>4

LEMMA PollKeeps ==
  ASSUME Promise, NEW c \in Ctx, Poll(c), NEW d \in Ctx
  PROVE  Answered(d)' /\ Stored(d)'
<1>1. UNCHANGED <<client, owner, quit, answer, context, sink>>
  BY DEF Poll
<1>2. d # c => worker'[d] = worker[d]
  BY Types DEF Poll, WorkerTo
<1>3. Answered(d)'
  BY <1>1, <1>2, Types DEF Poll, WorkerAt, WorkerTo, Answered, Starting, Waiting, Executing
<1>4. Stored(d)'
  BY <1>1, <1>2, Types DEF Poll, WorkerAt, WorkerTo, WorkerPc, Stored, Whole
<1> QED
  BY <1>3, <1>4

LEMMA CloseSinkKeeps ==
  ASSUME Promise, NEW c \in Ctx, CloseSink(c), NEW d \in Ctx
  PROVE  Answered(d)' /\ Stored(d)'
<1>1. UNCHANGED <<client, owner, quit, answer, context>>
  BY DEF CloseSink
<1>2. d # c => worker'[d] = worker[d]
  BY Types DEF CloseSink, WorkerTo
<1>3. sink' = [sink EXCEPT ![c].open = FALSE]
  BY DEF CloseSink
<1>4. /\ sink'[c].alive = sink[c].alive /\ sink'[c].open = FALSE
      /\ sink'[c].stored = sink[c].stored /\ sink'[c].cancelled = sink[c].cancelled
      /\ \A e \in Ctx : e # c => LikeSink(sink'[e], sink[e])
  BY <1>3, OpenFields
<1>5. Answered(d)'
  BY <1>1, <1>2, <1>4, Types DEF CloseSink, WorkerAt, WorkerTo, Answered, Starting, Waiting,
     Executing
<1>6. Stored(d)'
  BY <1>1, <1>2, <1>4, Types DEF CloseSink, WorkerAt, WorkerTo, WorkerPc, Stored, Whole
<1> QED
  BY <1>5, <1>6

LEMMA ReturnKeeps ==
  ASSUME Promise, NEW c \in Ctx, Return(c), NEW d \in Ctx
  PROVE  Answered(d)' /\ Stored(d)'
<1>1. /\ worker[c] = "return" /\ worker'[c] = "signal"
      /\ UNCHANGED <<client, owner, quit, answer, sink>>
  BY Types DEF Return, WorkerAt, WorkerTo
<1>2. d # c => worker'[d] = worker[d]
  BY Types DEF Return, WorkerTo
<1>3. /\ context'[c].life = context[c].life
      /\ context'[c].trigger = context[c].trigger /\ context'[c].success = TRUE
      /\ \A e \in Ctx : e # c => Like(context'[e], context[e])
  BY ReturnFields
<1>4. Answered(d)'
  BY <1>1, <1>2, <1>3, Types DEF Answered, Starting, Waiting, Executing, Like
<1>5. Stored(d)'
  BY <1>1, <1>2, <1>3, Types DEF Stored, Whole, Executing, Like
<1> QED
  BY <1>4, <1>5

LEMMA ThrowsKeeps ==
  ASSUME Promise, NEW c \in Ctx, Throws(c), NEW d \in Ctx
  PROVE  Answered(d)' /\ Stored(d)'
<1>1. UNCHANGED <<client, owner, quit, answer, context, sink>>
  BY DEF Throws
<1>2. d # c => worker'[d] = worker[d]
  BY Types DEF Throws, WorkerTo
<1>3. Answered(d)'
  BY <1>1, <1>2, Types DEF Throws, WorkerTo, Answered, Starting, Waiting, Executing
<1>4. Stored(d)'
  BY <1>1, <1>2, Types DEF Throws, WorkerTo, WorkerPc, Stored, Whole
<1> QED
  BY <1>3, <1>4

LEMMA SignalKeeps ==
  ASSUME Promise, NEW c \in Ctx, Signal(c), NEW d \in Ctx
  PROVE  Answered(d)' /\ Stored(d)'
<1>1. /\ worker[c] = "signal" /\ worker'[c] = "shutdown"
      /\ UNCHANGED <<client, owner, quit, answer, sink>>
  BY Types DEF Signal, WorkerAt, WorkerTo
<1>2. d # c => worker'[d] = worker[d]
  BY Types DEF Signal, WorkerTo
<1>3. /\ context'[c].life = context[c].life
      /\ context'[c].success = context[c].success
      /\ \A e \in Ctx : e # c => Like(context'[e], context[e])
  BY SignalFields
<1>4. Answered(d)'
  BY <1>1, <1>2, <1>3, Types DEF Answered, Starting, Waiting, Executing, Like
<1>5. Stored(d)'
  BY <1>1, <1>2, <1>3, Types DEF Stored, Whole, Executing, Like
<1> QED
  BY <1>4, <1>5

LEMMA WorkerShutsDownKeeps ==
  ASSUME Promise, NEW c \in Ctx, WorkerShutsDown(c), NEW d \in Ctx
  PROVE  Answered(d)' /\ Stored(d)'
<1>1. UNCHANGED <<client, owner, quit, answer, sink>>
  BY DEF WorkerShutsDown
<1>2. d # c => worker'[d] = worker[d]
  BY Types DEF WorkerShutsDown, WorkerTo
<1>3. Like(context'[d], context[d])
  BY ContextKept
<1>4. Answered(d)'
  BY <1>1, <1>2, <1>3, Types DEF WorkerShutsDown, WorkerTo, Answered, Starting, Waiting,
     Executing, Like
<1>5. Stored(d)'
  BY <1>1, <1>2, <1>3, Types DEF WorkerShutsDown, WorkerTo, Stored, Whole, Executing, Like
<1> QED
  BY <1>4, <1>5

LEMMA WorkerReleasesKeeps ==
  ASSUME Promise, NEW c \in Ctx, WorkerReleases(c), NEW d \in Ctx
  PROVE  Answered(d)' /\ Stored(d)'
<1>1. /\ worker[c] = "release" /\ worker'[c] = "gone"
      /\ UNCHANGED <<client, owner, quit, answer, sink>>
  BY Types DEF WorkerReleases, WorkerAt, WorkerTo
<1>2. d # c => worker'[d] = worker[d]
  BY Types DEF WorkerReleases, WorkerTo
<1>3. Set(c, Released(context[c])) /\ WorkerUses(c) /\ context[c].life = "alive"
  BY Types DEF WorkerReleases, WorkerAt, WorkerUses, Counted
<1>4. /\ context'[c].life \in {context[c].life, "deleted"}
      /\ context'[c].trigger \in {context[c].trigger, "closed"}
      /\ context'[c].success = context[c].success
      /\ \A e \in Ctx : e # c => Like(context'[e], context[e])
  BY <1>3, ReleaseFields
<1>5. Answered(d)'
  BY <1>1, <1>2, <1>3, <1>4, Types DEF Answered, Starting, Waiting, Executing, Like
<1>6. Stored(d)'
  <2>1. context'[d].success = context[d].success
    BY <1>4 DEF Like
  <2>2. d = c => worker'[d] = "gone"
    BY <1>1
  <2>3. UNCHANGED <<sink, answer>> /\ Stored(d)
    BY <1>1, Types
  <2> QED
    BY <1>1, <1>2, <2>1, <2>2, <2>3 DEF Stored, Whole, Executing
<1> QED
  BY <1>5, <1>6

-----------------------------------------------------------------------------
(* The client, the user and the application: the same.                      *)
LEMMA GetKeeps ==
  ASSUME Promise, NEW c \in Ctx, Get(c), NEW d \in Ctx
  PROVE  Answered(d)' /\ Stored(d)'
<1>1. /\ client.pc = "idle" /\ client' = [pc |-> "begun", ctx |-> c]
      /\ UNCHANGED <<owner, worker, quit, answer>>
      /\ context[c].life = "unborn"
  BY DEF Get, ClientAt, Fresh, Ctx
<1>2. /\ context'[c].life = "alive" /\ context'[c].trigger = context[c].trigger
      /\ context'[c].success = context[c].success
      /\ \A e \in Ctx : e # c => Like(context'[e], context[e])
  BY GetFields
<1>3. /\ sink'[c].alive /\ sink'[c].open = sink[c].open
      /\ sink'[c].stored = sink[c].stored /\ sink'[c].cancelled = sink[c].cancelled
      /\ \A e \in Ctx : e # c => LikeSink(sink'[e], sink[e])
  BY GetSinkFields
<1>4. worker[c] = "none" /\ answer[c] = "none"
  BY <1>1, Types DEF Counted, Answered
<1>5. client'.pc = "begun" /\ client'.ctx = c
  BY <1>1
<1>6. Answered(d)'
  BY <1>1, <1>2, <1>3, <1>4, <1>5, Types DEF Answered, Starting, Waiting, Like
<1>7. Stored(d)'
  BY <1>1, <1>2, <1>3, <1>4, Types DEF Stored, Whole, Like, LikeSink
<1> QED
  BY <1>6, <1>7

LEMMA GetFailsKeeps ==
  ASSUME Promise, NEW c \in Ctx, GetFails(c), NEW d \in Ctx
  PROVE  Answered(d)' /\ Stored(d)'
<1>1. /\ client.pc = "idle" /\ answer' = [answer EXCEPT ![c] = "no"]
      /\ UNCHANGED <<client, owner, worker, sink, quit>>
      /\ context[c].life = "unborn"
  BY DEF GetFails, ClientAt, Fresh, Ctx, Tell
<1>2. /\ context'[c].life = "deleted" /\ context'[c].trigger = "closed"
      /\ context'[c].success = context[c].success
      /\ \A e \in Ctx : e # c => Like(context'[e], context[e])
  BY GetFailsFields
<1>3. answer'[c] = "no" /\ \A e \in Ctx : e # c => answer'[e] = answer[e]
  BY <1>1, Types
<1>4. worker[c] = "none"
  BY <1>1, Types DEF Counted
<1>5. Answered(d)'
  BY <1>1, <1>2, <1>3, <1>4, Types DEF Answered, Starting, Waiting, Like
<1>6. Stored(d)'
  BY <1>1, <1>2, <1>3, Types DEF Stored, Whole, Like
<1> QED
  BY <1>5, <1>6

LEMMA ReferenceKeeps ==
  ASSUME Promise, Reference, NEW d \in Ctx
  PROVE  Answered(d)' /\ Stored(d)'
<1>1. /\ client.pc = "begun" /\ client'.pc = "counted" /\ client'.ctx = client.ctx
      /\ UNCHANGED <<owner, worker, sink, quit, answer>>
  BY Types DEF Reference, ClientAt, ClientTo
<1>2. Like(context'[d], context[d])
  BY ContextKept
<1>3. Answered(d)'
  BY <1>1, <1>2, Types DEF Answered, Starting, Waiting, Like
<1>4. Stored(d)'
  BY <1>1, <1>2, Types DEF Stored, Whole, Like
<1> QED
  BY <1>3, <1>4

LEMMA ResumeKeeps ==
  ASSUME Promise, Resume, NEW d \in Ctx
  PROVE  Answered(d)' /\ Stored(d)'
<1>1. /\ client.pc = "counted" /\ client'.pc = "got" /\ client'.ctx = client.ctx
      /\ client.ctx \in Ctx /\ worker[client.ctx] = "none"
      /\ worker'[client.ctx] = "begin"
      /\ \A e \in Ctx : e # client.ctx => worker'[e] = worker[e]
      /\ UNCHANGED <<context, sink, quit, answer>>
  BY Types DEF Resume, ClientAt, ClientTo, WorkerTo, Counted
<1>2. Answered(d)'
  BY <1>1, Types DEF Answered, Starting, Waiting
<1>3. Stored(d)'
  BY <1>1, Types DEF Stored, Whole
<1> QED
  BY <1>2, <1>3

LEMMA CompletionKeeps ==
  ASSUME Promise, Completion \/ WaitQuits, NEW d \in Ctx
  PROVE  Answered(d)' /\ Stored(d)'
<1>1. /\ client'.ctx = client.ctx /\ UNCHANGED <<context, worker, sink, quit, answer>>
      /\ \/ client.pc = "got" /\ client'.pc = "wait"
         \/ client.pc = "wait" /\ client'.pc = "settle" /\ quit
  BY Types DEF Completion, WaitQuits, ClientAt, ClientTo
<1>2. Answered(d)'
  BY <1>1, Types DEF Answered, Starting, Waiting
<1>3. Stored(d)'
  BY <1>1, Types DEF Stored, Whole
<1> QED
  BY <1>2, <1>3

LEMMA WaitEndsKeeps ==
  ASSUME Promise, WaitEnds, NEW d \in Ctx
  PROVE  Answered(d)' /\ Stored(d)'
<1>1. /\ client.pc = "wait" /\ client'.pc = "settle" /\ client'.ctx = client.ctx
      /\ client.ctx \in Ctx /\ context[client.ctx].trigger = "set"
      /\ UNCHANGED <<owner, worker, sink, quit, answer>>
      /\ Set(client.ctx, [context[client.ctx] EXCEPT !.trigger = "closed"])
  BY Types DEF WaitEnds, ClientAt, ClientTo
<1>2. /\ context'[client.ctx].life = context[client.ctx].life
      /\ context'[client.ctx].trigger = "closed"
      /\ context'[client.ctx].success = context[client.ctx].success
      /\ \A e \in Ctx : e # client.ctx => Like(context'[e], context[e])
  BY <1>1, TriggerFields
<1>3. /\ client.pc = "wait" /\ client'.pc = "settle" /\ client'.ctx = client.ctx
      /\ client.ctx \in Ctx /\ context[client.ctx].trigger = "set"
      /\ UNCHANGED <<owner, worker, sink, quit, answer>>
  BY <1>1
<1>4. Answered(d)'
  BY <1>2, <1>3, Types DEF Answered, Starting, Waiting, Like
<1>5. Stored(d)'
  BY <1>2, <1>3, Types DEF Stored, Whole, Like
<1> QED
  BY <1>4, <1>5

LEMMA ReadSuccessKeeps ==
  ASSUME Promise, ReadSuccess, NEW d \in Ctx
  PROVE  Answered(d)' /\ Stored(d)'
<1>1. /\ client.pc = "settle" /\ client'.pc = "release" /\ client'.ctx = client.ctx
      /\ client.ctx \in Ctx /\ UNCHANGED <<owner, context, worker, sink, quit>>
      /\ answer'[client.ctx] = IF context[client.ctx].success THEN "yes" ELSE "no"
      /\ \A e \in Ctx : e # client.ctx => answer'[e] = answer[e]
  BY Types DEF ReadSuccess, ClientAt, ClientTo, Tell
<1>2. Answered(d)'
  <2>1. CASE d = client.ctx
    <3>1. answer'[d] # "none" /\ answer'[d] # "withdrawn" /\ context[d].life # "unborn"
      BY <1>1, <2>1, Types DEF Counted, ClientUses
    <3>2. Answered(d)
      BY Types
    <3> QED
      BY <1>1, <2>1, <3>1, <3>2 DEF Answered, Starting, Waiting
  <2>2. CASE d # client.ctx
    BY <1>1, <2>2, Types DEF Answered, Starting, Waiting, Like, LikeSink
  <2> QED
    BY <2>1, <2>2
<1>3. Stored(d)'
  BY <1>1, Types DEF Stored, Whole
<1> QED
  BY <1>2, <1>3

LEMMA ClientReleasesKeeps ==
  ASSUME Promise, ClientReleases, NEW d \in Ctx
  PROVE  Answered(d)' /\ Stored(d)'
<1>1. /\ client.pc = "release" /\ client'.pc = "leave" /\ client'.ctx = client.ctx
      /\ client.ctx \in Ctx /\ UNCHANGED <<owner, worker, sink, quit, answer>>
      /\ ClientUses(client.ctx) /\ context[client.ctx].life = "alive"
  BY Types DEF ClientReleases, ClientAt, ClientTo, Counted, ClientUses
<1>2. Set(client.ctx, Released(context[client.ctx]))
  BY DEF ClientReleases
<1>3. /\ context'[client.ctx].life \in {context[client.ctx].life, "deleted"}
      /\ context'[client.ctx].trigger \in {context[client.ctx].trigger, "closed"}
      /\ context'[client.ctx].success = context[client.ctx].success
      /\ \A e \in Ctx : e # client.ctx => Like(context'[e], context[e])
  BY <1>1, <1>2, ReleaseFields
<1>4. Answered(d)'
  BY <1>1, <1>3, Types DEF Answered, Starting, Waiting, Like
<1>5. Stored(d)'
  BY <1>1, <1>3, Types DEF Stored, Whole, Like
<1> QED
  BY <1>4, <1>5

LEMMA LeaveKeeps ==
  ASSUME Promise, Leave, NEW d \in Ctx
  PROVE  Answered(d)' /\ Stored(d)'
<1>1. /\ client.pc = "leave" /\ client'.pc = "idle" /\ client'.ctx = None
      /\ client.ctx \in Ctx /\ UNCHANGED <<owner, context, worker, quit, answer>>
      /\ EndOfScope(client.ctx)
  BY Types DEF Leave, ClientAt
<1>2. /\ ~sink'[client.ctx].open
      /\ sink'[client.ctx].stored = sink[client.ctx].stored
      /\ sink'[client.ctx].cancelled = sink[client.ctx].cancelled
      /\ \A e \in Ctx : e # client.ctx => LikeSink(sink'[e], sink[e])
  BY <1>1, ScopeFields
<1>3. Answered(d)'
  BY <1>1, <1>2, Types DEF Answered, Starting, Waiting
<1>4. Stored(d)'
  BY <1>1, <1>2, Types DEF Stored, Whole, LikeSink
<1> QED
  BY <1>3, <1>4

LEMMA GiveUpKeeps ==
  ASSUME Promise, Cancel \/ Destroy, NEW d \in Ctx
  PROVE  Answered(d)' /\ Stored(d)'
<1>1. /\ client.pc = "got" /\ client.ctx \in Ctx
      /\ \/ client'.pc = "leave" /\ client'.ctx = client.ctx /\ UNCHANGED sink
         \/ client'.pc = "idle" /\ client'.ctx = None /\ EndOfScope(client.ctx)
      /\ UNCHANGED <<worker, quit>>
      /\ answer'[client.ctx] = "withdrawn"
      /\ \A e \in Ctx : e # client.ctx => answer'[e] = answer[e]
  BY Types DEF Cancel, Destroy, ClientAt, ClientTo, Tell
<1>2. Like(context'[d], context[d])
  BY ContextKept
<1>3. /\ sink'[client.ctx].open => sink[client.ctx].open
      /\ client'.pc = "leave" => sink'[client.ctx].alive = sink[client.ctx].alive
      /\ sink'[client.ctx].stored = sink[client.ctx].stored
      /\ sink'[client.ctx].cancelled = sink[client.ctx].cancelled
      /\ \A e \in Ctx : e # client.ctx => LikeSink(sink'[e], sink[e])
  BY <1>1, ScopeFields DEF LikeSink
<1>4. Answered(d)'
  <2>1. CASE d = client.ctx
    <3>1. answer'[d] = "withdrawn" /\ answer[d] = "none" /\ context[d].life # "unborn"
      BY <1>1, <2>1, Types DEF Answered, Waiting, Counted, ClientUses
    <3>2. Answered(d)
      BY Types
    <3>3. ~Starting(d)' /\ ~Waiting(d)'
      BY <1>1, <2>1, Types DEF Starting, Waiting
    <3>4. client'.ctx = d /\ client'.pc # "idle" => sink'[d].alive
      BY <1>1, <1>3, <2>1, <3>2 DEF Answered
    <3> QED
      BY <1>1, <1>2, <2>1, <3>1, <3>2, <3>3, <3>4 DEF Answered, Like
  <2>2. CASE d # client.ctx
    BY <1>1, <1>2, <1>3, <2>2, Types DEF Answered, Starting, Waiting, Like, LikeSink
  <2> QED
    BY <2>1, <2>2
<1>5. Stored(d)'
  BY <1>1, <1>2, <1>3, Types DEF Stored, Whole, Like, LikeSink
<1> QED
  BY <1>4, <1>5

LEMMA EnvironmentKeeps ==
  ASSUME Promise, PostQuit \/ \E c \in Ctx : UserCancels(c), NEW d \in Ctx
  PROVE  Answered(d)' /\ Stored(d)'
<1>1. CASE PostQuit
  <2>1. UNCHANGED <<client, owner, context, worker, sink, answer>> /\ quit' = TRUE
    BY <1>1 DEF PostQuit
  <2> QED
    BY <2>1, Types DEF Answered, Stored, Whole, Starting, Waiting
<1>2. ASSUME NEW c \in Ctx, UserCancels(c) PROVE Answered(d)' /\ Stored(d)'
  <2>1. UNCHANGED <<client, owner, context, worker, quit, answer>>
    BY <1>2 DEF UserCancels
  <2>2. /\ sink'[d].alive = sink[d].alive /\ sink'[d].open = sink[d].open
        /\ sink'[d].stored = sink[d].stored /\ (sink[d].cancelled => sink'[d].cancelled)
    BY <1>2, CancelledFields DEF LikeSink
  <2> QED
    BY <2>1, <2>2, Types DEF Answered, Stored, Whole, Starting, Waiting
<1> QED
  BY <1>1, <1>2

(* Only get makes a context, and it takes the first that is not made. *)
LEMMA OrderKept ==
  ASSUME Promise, [Next]_vars
  PROVE  InOrder'
<1>1. ASSUME NEW e \in Ctx,
             context'[e].life # "unborn" <=> context[e].life # "unborn",
             \A d \in Ctx : d # e => Like(context'[d], context[d])
      PROVE  InOrder'
  BY <1>1 DEF Promise, InOrder, Like
<1>2. ASSUME \A d \in Ctx : Like(context'[d], context[d])
      PROVE  InOrder'
  BY <1>2 DEF Promise, InOrder, Like
<1>3. ASSUME NEW c \in Ctx, Get(c) \/ GetFails(c) PROVE InOrder'
  <2>1. context'[c].life # "unborn" /\ \A d \in Ctx : d # c => Like(context'[d], context[d])
    BY <1>3, GetFields, GetFailsFields
  <2>2. Fresh(c)
    BY <1>3 DEF Get, GetFails
  <2> QED
    BY <2>1, <2>2 DEF Promise, InOrder, Like, Fresh, Ctx
<1>4. CASE \/ Reference \/ Cancel \/ Destroy
           \/ \E c \in Ctx : OpenSource(c) \/ RequestCreated(c) \/ RequestReturns(c)
                               \/ WorkerShutsDown(c)
  BY <1>2, <1>4, ContextKept
<1>5. CASE WaitEnds
  <2>1. client.ctx \in Ctx
        /\ Set(client.ctx, [context[client.ctx] EXCEPT !.trigger = "closed"])
    BY <1>5, Types DEF WaitEnds, ClientAt
  <2> QED
    BY <1>1, <2>1, TriggerFields
<1>6. CASE ClientReleases
  <2>1. client.ctx \in Ctx /\ Set(client.ctx, Released(context[client.ctx]))
        /\ ClientUses(client.ctx) /\ context[client.ctx].life = "alive"
    BY <1>6, Types DEF ClientReleases, ClientAt, ClientUses, Counted
  <2>2. /\ context'[client.ctx].life \in {context[client.ctx].life, "deleted"}
        /\ \A d \in Ctx : d # client.ctx => Like(context'[d], context[d])
    BY <2>1, ReleaseFields
  <2> QED
    BY <1>1, <2>1, <2>2
<1>7. ASSUME NEW c \in Ctx, WorkerReleases(c) PROVE InOrder'
  <2>1. Set(c, Released(context[c])) /\ WorkerUses(c) /\ context[c].life = "alive"
    BY <1>7, Types DEF WorkerReleases, WorkerAt, WorkerUses, Counted
  <2>2. /\ context'[c].life \in {context[c].life, "deleted"}
        /\ \A d \in Ctx : d # c => Like(context'[d], context[d])
    BY <2>1, ReleaseFields
  <2> QED
    BY <1>1, <2>1, <2>2
<1>8. ASSUME NEW c \in Ctx, Return(c) PROVE InOrder'
  BY <1>1, <1>8, ReturnFields
<1>9. ASSUME NEW c \in Ctx, Signal(c) PROVE InOrder'
  BY <1>1, <1>9, SignalFields
<1>10. CASE UNCHANGED context
  BY <1>2, <1>10 DEF Like
<1>11. ASSUME NEW c \in Ctx, Worker(c) PROVE InOrder'
  <2>1. CASE QueryStatus(c) \/ OpenSink(c) \/ Read(c) \/ Append(c) \/ Poll(c) \/ CloseSink(c)
             \/ Throws(c)
    BY <1>10, <2>1 DEF QueryStatus, OpenSink, Read, Append, Poll, CloseSink, Throws
  <2> QED
    BY <1>4, <1>7, <1>8, <1>9, <1>11, <2>1 DEF Worker
<1>12. CASE Client
  <2>1. CASE Resume \/ Completion \/ WaitQuits \/ ReadSuccess \/ Leave
    BY <1>10, <2>1 DEF Resume, Completion, WaitQuits, ReadSuccess, Leave
  <2> QED
    BY <1>3, <1>4, <1>5, <1>6, <1>12, <2>1 DEF Client
<1>13. CASE PostQuit \/ \E c \in Ctx : UserCancels(c)
  BY <1>10, <1>13 DEF PostQuit, UserCancels
<1> QED
  BY <1>10, <1>11, <1>12, <1>13 DEF Next, vars

-----------------------------------------------------------------------------
LEMMA InitPromise == Init => Promise
<1> SUFFICES ASSUME Init PROVE Promise
  OBVIOUS
<1>1. Inv
  BY InitInv
<1>2. \A c \in Ctx : Answered(c) /\ Stored(c)
  BY DEF Init, Answered, Stored, Whole, Starting, Waiting, Executing
<1>3. InOrder
  BY DEF Init, InOrder
<1> QED
  BY <1>1, <1>2, <1>3 DEF Promise

LEMMA StepPromise == Promise /\ [Next]_vars => Promise'
<1> SUFFICES ASSUME Promise, [Next]_vars PROVE Promise'
  OBVIOUS
<1>1. Inv'
  BY NextInv DEF Promise
<1>2. ASSUME NEW d \in Ctx PROVE Answered(d)' /\ Stored(d)'
  <2>1. CASE Client
    BY <2>1, GetKeeps, GetFailsKeeps, ReferenceKeeps, ResumeKeeps, CompletionKeeps, GiveUpKeeps,
       WaitEndsKeeps, ReadSuccessKeeps, ClientReleasesKeeps, LeaveKeeps DEF Client
  <2>2. ASSUME NEW c \in Ctx, Worker(c) PROVE Answered(d)' /\ Stored(d)'
    BY <2>2, OpenSourceKeeps, RequestCreatedKeeps, RequestReturnsKeeps, QueryStatusKeeps,
       OpenSinkKeeps, ReadKeeps, AppendKeeps, PollKeeps, CloseSinkKeeps, ReturnKeeps,
       ThrowsKeeps, SignalKeeps, WorkerShutsDownKeeps, WorkerReleasesKeeps DEF Worker
  <2>3. CASE UNCHANGED vars
    BY <2>3, Types DEF vars, Answered, Stored, Whole, Starting, Waiting
  <2> QED
    BY <2>1, <2>2, <2>3, EnvironmentKeeps DEF Next
<1>3. InOrder'
  BY OrderKept
<1> QED
  BY <1>1, <1>2, <1>3 DEF Promise

LEMMA PromiseAlways == Spec => []Promise
BY InitPromise, StepPromise, PTL DEF Spec

(* No worker ever writes to a sink that left the client's stack, in any      *)
(* number of downloads, unless the application quits or gives one up.        *)
THEOREM SinkIsAlive == Spec => []SinkOutlivesWorker
<1>1. Promise => SinkOutlivesWorker
  BY Types DEF SinkOutlivesWorker, Answered, Stored, Executing
<1> QED
  BY <1>1, PromiseAlways, PTL

(* completion answers yes only for a sink that is closed and was given all   *)
(* of the resource, but for the two exceptions of the code, whatever the     *)
(* size of the resource.                                                     *)
THEOREM YesIsTrue == Spec => []YesIsWhole
<1>1. Promise => YesIsWhole
  BY Types DEF YesIsWhole, Stored, Whole
<1> QED
  BY <1>1, PromiseAlways, PTL

-----------------------------------------------------------------------------
(* The refinement: what a step does to the jobs of Transfer.                 *)
Jobs == [c \in Ctx |-> JobOf(c)]

LEMMA OneJob ==
  ASSUME NEW c \in Ctx, \A d \in Ctx : d # c => JobOf(d)' = JobOf(d)
  PROVE  Jobs' = [Jobs EXCEPT ![c] = JobOf(c)']
BY DEF Jobs

LEMMA NoJob ==
  ASSUME \A d \in Ctx : JobOf(d)' = JobOf(d), UNCHANGED <<answer, quit>>
  PROVE  UNCHANGED T!vars
<1>1. Jobs' = Jobs
  BY DEF Jobs
<1> QED
  BY <1>1 DEF Jobs, T!vars

(* A job depends on where its worker is, how it ended, and a refusal. *)
LEMMA JobDepends ==
  ASSUME NEW d \in Ctx, worker'[d] = worker[d],
         context'[d].success = context[d].success,
         answer'[d] = answer[d] \/ worker[d] # "none"
  PROVE  JobOf(d)' = JobOf(d)
<1>1. CASE worker[d] = "none"
  BY <1>1 DEF JobOf
<1>2. CASE worker[d] \in Executing
  BY <1>2 DEF JobOf, Executing
<1>3. CASE worker[d] # "none" /\ worker[d] \notin Executing
  BY <1>3 DEF JobOf
<1> QED
  BY <1>1, <1>2, <1>3

(* A step of a worker ends its job, or leaves all jobs as they are. *)
LEMMA WorkerOf ==
  ASSUME Promise, NEW c \in Ctx, Worker(c)
  PROVE  /\ UNCHANGED <<answer, quit>> /\ worker[c] # "none"
         /\ \A d \in Ctx : d # c => JobOf(d)' = JobOf(d)
         /\ JobOf(c)' = JobOf(c) \/ (JobOf(c) = "running" /\ JobOf(c)' \in {"done", "failed"})
<1>1. UNCHANGED <<answer, quit>>
  BY DEF Worker, OpenSource, RequestCreated, RequestReturns, QueryStatus, OpenSink, Read,
     Append, Poll, CloseSink, Return, Throws, Signal, WorkerShutsDown, WorkerReleases
<1>2. \A d \in Ctx : d # c => worker'[d] = worker[d]
  BY Types DEF Worker, OpenSource, RequestCreated, RequestReturns, QueryStatus, OpenSink, Read,
     Append, Poll, CloseSink, Return, Throws, Signal, WorkerShutsDown, WorkerReleases, WorkerTo
<1>3. CASE OpenSource(c) \/ RequestCreated(c) \/ RequestReturns(c) \/ QueryStatus(c)
           \/ OpenSink(c) \/ Read(c) \/ Append(c) \/ Poll(c) \/ CloseSink(c)
  <2>1. worker[c] \in Executing /\ worker'[c] \in Executing
    BY <1>3, Types DEF OpenSource, RequestCreated, RequestReturns, QueryStatus, OpenSink, Read,
       Append, Poll, CloseSink, WorkerTo, WorkerAt, Executing
  <2>2. \A d \in Ctx : context'[d].success = context[d].success
    <3>1. CASE OpenSource(c) \/ RequestCreated(c) \/ RequestReturns(c)
      BY <3>1, ContextKept DEF Like
    <3>2. CASE QueryStatus(c) \/ OpenSink(c) \/ Read(c) \/ Append(c) \/ Poll(c) \/ CloseSink(c)
      BY <3>2 DEF QueryStatus, OpenSink, Read, Append, Poll, CloseSink
    <3> QED
      BY <1>3, <3>1, <3>2
  <2>3. JobOf(c) = "running" /\ JobOf(c)' = "running" /\ worker[c] # "none"
    BY <2>1 DEF JobOf, Executing
  <2> QED
    BY <1>1, <1>2, <2>2, <2>3, JobDepends
<1>4. CASE Return(c)
  <2>1. worker[c] = "return" /\ worker'[c] = "signal"
    BY <1>4, Types DEF Return, WorkerTo, WorkerAt
  <2>2. \A d \in Ctx : d # c => context'[d].success = context[d].success
    BY <1>4, ReturnFields DEF Like
  <2>3. context'[c].success = TRUE
    BY <1>4, ReturnFields
  <2>4. JobOf(c) = "running" /\ JobOf(c)' = "done"
    BY <2>1, <2>3 DEF JobOf, Executing
  <2> QED
    BY <1>1, <1>2, <2>1, <2>2, <2>4, JobDepends
<1>5. CASE Throws(c)
  <2>1. worker[c] \in Executing /\ worker'[c] = "signal" /\ context' = context
    BY <1>5, Types DEF Throws, WorkerTo, Executing
  <2>2. JobOf(c) = "running" /\ JobOf(c)' \in {"done", "failed"} /\ worker[c] # "none"
    BY <2>1 DEF JobOf, Executing
  <2> QED
    BY <1>1, <1>2, <2>1, <2>2, JobDepends
<1>6. CASE Signal(c) \/ WorkerShutsDown(c) \/ WorkerReleases(c)
  <2>1. /\ worker[c] \in {"signal", "shutdown", "release"}
        /\ worker'[c] \in {"shutdown", "release", "gone"}
    BY <1>6, Types DEF Signal, WorkerShutsDown, WorkerReleases, WorkerTo, WorkerAt
  <2>2. \A d \in Ctx : context'[d].success = context[d].success
    <3>1. CASE Signal(c)
      BY <3>1, SignalFields DEF Like
    <3>2. CASE WorkerShutsDown(c)
      BY <3>2, ContextKept DEF Like
    <3>3. CASE WorkerReleases(c)
      <4>1. Set(c, Released(context[c])) /\ WorkerUses(c)
        BY <3>3 DEF WorkerReleases, WorkerAt, WorkerUses
      <4>2. /\ context'[c].success = context[c].success
            /\ \A e \in Ctx : e # c => Like(context'[e], context[e])
        BY <4>1, ReleaseFields
      <4> QED
        BY <4>2 DEF Like
    <3> QED
      BY <1>6, <3>1, <3>2, <3>3
  <2>3. JobOf(c)' = JobOf(c) /\ worker[c] # "none"
    BY <2>1, <2>2 DEF JobOf, Executing
  <2> QED
    BY <1>1, <1>2, <2>2, <2>3, JobDepends
<1> QED
  BY <1>3, <1>4, <1>5, <1>6 DEF Worker

LEMMA WorkerMaps ==
  ASSUME Promise, NEW c \in Ctx, Worker(c)
  PROVE  T!Finish(c) \/ UNCHANGED T!vars
<1>1. CASE JobOf(c)' = JobOf(c)
  BY <1>1, WorkerOf, NoJob
<1>2. CASE JobOf(c) = "running" /\ JobOf(c)' \in {"done", "failed"}
  <2>1. Jobs' = [Jobs EXCEPT ![c] = JobOf(c)'] /\ Jobs[c] = "running"
    BY <1>2, WorkerOf, OneJob DEF Jobs
  <2> QED
    BY <1>2, <2>1, WorkerOf DEF T!Finish, Jobs
<1> QED
  BY <1>1, <1>2, WorkerOf

(* Contexts before the client's have all been answered. *)
LEMMA ItsTurn ==
  ASSUME Promise, NEW c \in Ctx, answer[c] = "none",
         Starting(c) \/ Waiting(c) \/ (client.pc = "idle" /\ Fresh(c))
  PROVE  T!Turn(c)
<1>1. ASSUME NEW d \in Ctx, d < c PROVE context[d].life # "unborn"
  <2>1. CASE Starting(c) \/ Waiting(c)
    <3>1. context[c].life = "alive"
      BY <2>1, Types DEF Counted, ClientUses, Starting, Waiting
    <3> QED
      BY <1>1, <3>1 DEF Promise, InOrder
  <2>2. CASE Fresh(c)
    BY <1>1, <2>2 DEF Fresh, Ctx
  <2> QED
    BY <2>1, <2>2
<1>2. ASSUME NEW d \in Ctx, d < c PROVE answer[d] # "none"
  <2>1. ~Starting(d) /\ ~Waiting(d)
    BY <1>2 DEF Starting, Waiting, Ctx
  <2> QED
    BY <1>1, <1>2, <2>1, Types DEF Answered
<1> QED
  BY <1>2 DEF T!Turn

(* get that fails refuses a job, and the thread that is resumed begins it.   *)
LEMMA RefuseMaps ==
  ASSUME Promise, NEW c \in Ctx, GetFails(c)
  PROVE  T!Refuse(c)
<1>1. /\ client.pc = "idle" /\ Fresh(c) /\ answer' = [answer EXCEPT ![c] = "no"]
      /\ UNCHANGED <<worker, quit>> /\ context[c].life = "unborn"
  BY DEF GetFails, ClientAt, Fresh, Ctx, Tell
<1>2. worker[c] = "none" /\ answer[c] = "none"
  BY <1>1, Types DEF Counted, Answered
<1>3. \A d \in Ctx : d # c => JobOf(d)' = JobOf(d)
  <2>1. \A d \in Ctx : d # c => context'[d].success = context[d].success
    BY GetFailsFields DEF Like
  <2>2. \A d \in Ctx : d # c => answer'[d] = answer[d]
    BY <1>1, Types
  <2> QED
    BY <1>1, <2>1, <2>2, JobDepends
<1>4. JobOf(c) = "new" /\ JobOf(c)' = "failed"
  <2>1. worker'[c] = "none" /\ answer'[c] = "no"
    BY <1>1, <1>2, Types
  <2>2. JobOf(c) = "new"
    BY <1>2 DEF JobOf, Executing
  <2>3. JobOf(c)' = "failed"
    BY <2>1 DEF JobOf, Executing
  <2> QED
    BY <2>2, <2>3
<1>5. Jobs[c] = "new" /\ Jobs' = [Jobs EXCEPT ![c] = "failed"]
  <2>1. Jobs' = [Jobs EXCEPT ![c] = JobOf(c)']
    BY <1>3, OneJob
  <2> QED
    BY <1>4, <2>1 DEF Jobs
<1>6. T!Turn(c)
  BY <1>1, <1>2, ItsTurn
<1> QED
  BY <1>1, <1>5, <1>6 DEF T!Refuse, Jobs

LEMMA BeginMaps == ASSUME Promise, Resume PROVE T!Begin(client.ctx)
<1>1. /\ client.ctx \in Ctx /\ Starting(client.ctx) /\ worker[client.ctx] = "none"
      /\ worker'[client.ctx] = "begin"
      /\ \A d \in Ctx : d # client.ctx => worker'[d] = worker[d]
      /\ UNCHANGED <<context, quit, answer>>
  BY Types DEF Resume, ClientAt, WorkerTo, Counted, Starting
<1>2. answer[client.ctx] = "none"
  BY <1>1, Types DEF Answered
<1>3. \A d \in Ctx : d # client.ctx => JobOf(d)' = JobOf(d)
  BY <1>1, JobDepends
<1>4. PICK c \in Ctx : c = client.ctx
  BY <1>1
<1>5. JobOf(c) = "new" /\ JobOf(c)' = "running"
  BY <1>1, <1>2, <1>4 DEF JobOf, Executing
<1>6. Jobs[c] = "new" /\ Jobs' = [Jobs EXCEPT ![c] = "running"]
  <2>1. Jobs' = [Jobs EXCEPT ![c] = JobOf(c)']
    BY <1>3, <1>4, OneJob
  <2> QED
    BY <1>5, <2>1 DEF Jobs
<1>7. T!Turn(c)
  BY <1>1, <1>2, <1>4, ItsTurn
<1> QED
  BY <1>1, <1>4, <1>6, <1>7 DEF T!Begin, Jobs

(* An answer, true or withdrawn, to a job that was begun. *)
LEMMA AnswerMaps ==
  ASSUME Promise, ReadSuccess \/ Cancel \/ Destroy
  PROVE  T!Settle(client.ctx) \/ T!Withdraw(client.ctx)
<1>1. PICK c \in Ctx : c = client.ctx
  BY Types DEF ReadSuccess, Cancel, Destroy, ClientAt
<1>2. /\ Waiting(c) /\ UNCHANGED <<worker, quit>>
      /\ ReadSuccess \/ answer' = [answer EXCEPT ![c] = "withdrawn"]
      /\ \A d \in Ctx : d # c => answer'[d] = answer[d]
  BY <1>1, Types DEF ReadSuccess, Cancel, Destroy, ClientAt, Waiting, Tell
<1>3. worker[c] # "none" /\ answer[c] = "none"
  BY <1>2, Types DEF Answered
<1>4. \A d \in Ctx : context'[d].success = context[d].success
  <2>1. CASE ReadSuccess
    BY <2>1 DEF ReadSuccess
  <2>2. CASE Cancel \/ Destroy
    BY <2>2, ContextKept DEF Like
  <2> QED
    BY <2>1, <2>2
<1>5. \A d \in Ctx : JobOf(d)' = JobOf(d)
  BY <1>2, <1>3, <1>4, JobDepends
<1>6. Jobs' = Jobs
  BY <1>5 DEF Jobs
<1>7. T!Turn(c)
  BY <1>2, <1>3, ItsTurn
<1>8. JobOf(c) # "new" /\ Jobs[c] = JobOf(c)
  BY <1>3 DEF JobOf, Jobs
<1>9. CASE ReadSuccess
  <2>1. /\ client.pc = "settle"
        /\ answer' = [answer EXCEPT ![c] = IF context[c].success THEN "yes" ELSE "no"]
    BY <1>1, <1>9 DEF ReadSuccess, ClientAt, Tell
  <2>2. JobOf(c) = "running" => quit
    <3>1. JobOf(c) = "running" => worker[c] \in Executing
      BY <1>3 DEF JobOf
    <3> QED
      BY <1>3, <2>1, <3>1, Types DEF Answered
  <2>3. JobOf(c) = "done" <=> context[c].success
    <3>1. CASE worker[c] \in Executing
      BY <1>3, <3>1, Types DEF JobOf, Stored
    <3>2. CASE worker[c] \notin Executing
      BY <1>3, <3>2 DEF JobOf
    <3> QED
      BY <3>1, <3>2
  <2>4. answer' = [answer EXCEPT ![c] = IF Jobs[c] = "done" THEN "yes" ELSE "no"]
    BY <1>8, <2>1, <2>3
  <2>5. T!Settle(c)
    BY <1>2, <1>6, <1>7, <1>8, <2>2, <2>4 DEF T!Settle, Jobs
  <2> QED
    BY <1>1, <2>5
<1>10. CASE ~ReadSuccess
  <2>1. T!Withdraw(c)
    BY <1>2, <1>6, <1>7, <1>8, <1>10 DEF T!Withdraw, Jobs
  <2> QED
    BY <1>1, <2>1
<1> QED
  BY <1>9, <1>10

(* Everything else is out of Transfer's sight. *)
LEMMA QuietMaps ==
  ASSUME Promise,
         \/ Reference \/ Completion \/ WaitEnds \/ WaitQuits \/ ClientReleases \/ Leave
         \/ \E c \in Ctx : Get(c) \/ UserCancels(c)
  PROVE  UNCHANGED T!vars
<1>1. UNCHANGED <<worker, answer, quit>>
  BY DEF Reference, Completion, WaitEnds, WaitQuits, ClientReleases, Leave, Get, UserCancels
<1>2. \A d \in Ctx : context'[d].success = context[d].success
  <2>1. CASE Reference
    BY <2>1, ContextKept DEF Like
  <2>2. CASE Completion \/ WaitQuits \/ Leave \/ \E c \in Ctx : UserCancels(c)
    BY <2>2 DEF Completion, WaitQuits, Leave, UserCancels
  <2>3. CASE WaitEnds
    <3>1. client.ctx \in Ctx
          /\ Set(client.ctx, [context[client.ctx] EXCEPT !.trigger = "closed"])
      BY <2>3, Types DEF WaitEnds, ClientAt
    <3> QED
      BY <3>1, TriggerFields DEF Like
  <2>4. CASE ClientReleases
    <3>1. client.ctx \in Ctx /\ Set(client.ctx, Released(context[client.ctx]))
          /\ ClientUses(client.ctx)
      BY <2>4, Types DEF ClientReleases, ClientAt, ClientUses
    <3>2. /\ context'[client.ctx].success = context[client.ctx].success
          /\ \A d \in Ctx : d # client.ctx => Like(context'[d], context[d])
      BY <3>1, ReleaseFields
    <3> QED
      BY <3>2 DEF Like
  <2>5. ASSUME NEW c \in Ctx, Get(c), NEW d \in Ctx
        PROVE  context'[d].success = context[d].success
    <3>1. /\ context'[c].success = context[c].success
          /\ \A e \in Ctx : e # c => Like(context'[e], context[e])
      BY <2>5, GetFields
    <3> QED
      BY <3>1 DEF Like
  <2> QED
    BY <2>1, <2>2, <2>3, <2>4, <2>5
<1>3. \A d \in Ctx : JobOf(d)' = JobOf(d)
  BY <1>1, <1>2, JobDepends
<1> QED
  BY <1>1, <1>3, NoJob

LEMMA QuitMaps == ASSUME PostQuit PROVE T!Quit
<1>1. UNCHANGED <<worker, context, answer>> /\ quit' = TRUE
  BY DEF PostQuit
<1>2. \A d \in Ctx : JobOf(d)' = JobOf(d)
  BY <1>1, JobDepends
<1>3. Jobs' = Jobs
  BY <1>2 DEF Jobs
<1> QED
  BY <1>1, <1>3 DEF T!Quit, Jobs

LEMMA InitMaps == Init => T!Init
<1> SUFFICES ASSUME Init PROVE T!Init
  OBVIOUS
<1>1. /\ \A c \in Ctx : worker[c] = "none" /\ answer[c] = "none"
      /\ answer = [c \in Ctx |-> "none"] /\ quit = FALSE
  BY DEF Init
<1>2. \A c \in Ctx : JobOf(c) = "new"
  BY <1>1 DEF JobOf, Executing
<1> QED
  BY <1>1, <1>2 DEF T!Init

LEMMA StepMaps == Promise /\ [Next]_vars => [T!Next]_(T!vars)
<1> SUFFICES ASSUME Promise, [Next]_vars PROVE T!Next \/ UNCHANGED T!vars
  OBVIOUS
<1>1. CASE Client
  <2>1. CASE Resume
    <3>1. client.ctx \in Ctx
      BY <2>1, Types DEF Resume, ClientAt
    <3> QED
      BY <2>1, <3>1, BeginMaps DEF T!Next
  <2>2. CASE ReadSuccess \/ Cancel \/ Destroy
    <3>1. client.ctx \in Ctx
      BY <2>2, Types DEF ReadSuccess, Cancel, Destroy, ClientAt
    <3> QED
      BY <2>2, <3>1, AnswerMaps DEF T!Next
  <2>3. ASSUME NEW c \in Ctx, GetFails(c) PROVE T!Next
    BY <2>3, RefuseMaps DEF T!Next
  <2> QED
    BY <1>1, <2>1, <2>2, <2>3, QuietMaps DEF Client
<1>2. ASSUME NEW c \in Ctx, Worker(c) PROVE T!Next \/ UNCHANGED T!vars
  BY <1>2, WorkerMaps DEF T!Next
<1>3. CASE PostQuit
  BY <1>3, QuitMaps DEF T!Next
<1>4. CASE UNCHANGED vars
  <2>1. UNCHANGED <<worker, context, answer, quit>>
    BY <1>4 DEF vars
  <2>2. \A d \in Ctx : JobOf(d)' = JobOf(d)
    BY <2>1, JobDepends
  <2> QED
    BY <2>1, <2>2, NoJob
<1> QED
  BY <1>1, <1>2, <1>3, <1>4, QuietMaps DEF Next

(* Download implements Transfer, for any number of downloads: each job is    *)
(* begun in its turn and answered once, with how its worker ended, and never *)
(* before that unless the application quits or gives it up.                  *)
THEOREM ImplementsTransfer == Spec => AnswersTruly
BY InitMaps, StepMaps, PromiseAlways, PTL DEF Spec, AnswersTruly, T!Spec
=============================================================================

---------------------------- MODULE DownloadProofs ----------------------------
(***************************************************************************)
(* The reference count of a download's context, for every number of         *)
(* downloads and every size of resource.                                     *)
(***************************************************************************)
EXTENDS Download, TLAPS

(* Who holds a reference: the client until it releases it, for ever when it *)
(* gave the download up, and the worker from before it is started.          *)
ClientHolds(c) == ClientUses(c) \/ answer[c] = "withdrawn"
WorkerHolds(c) == WorkerUses(c) \/ (client.ctx = c /\ client.pc = "counted")

Count(c) == (IF ClientHolds(c) THEN 1 ELSE 0) + (IF WorkerHolds(c) THEN 1 ELSE 0)

Counted(c) ==
  /\ context[c].life = "alive" => context[c].references = Count(c)
  /\ ClientUses(c) \/ WorkerUses(c) => context[c].life = "alive"
  /\ context[c].life = "unborn" => answer[c] # "withdrawn" /\ worker[c] = "none"
  /\ ClientUses(c) => answer[c] # "withdrawn"
  /\ client.ctx = c /\ client.pc \in {"begun", "counted"} => worker[c] = "none"
  /\ worker[c] = "append" => sink[c].stored < Blocks

(* The inductive invariant. *)
Inv ==
  /\ TypeOK
  /\ client.pc # "idle" => client.ctx \in Ctx
  /\ \A c \in Ctx : Counted(c)

-----------------------------------------------------------------------------
THEOREM InitInv == Init => Inv
<1> SUFFICES ASSUME Init PROVE Inv
  OBVIOUS
<1>1. TypeOK
  <2>1. context \in [Ctx -> Context]
    BY DEF Init, Context
  <2>2. sink \in [Ctx -> Sink]
    BY DownloadAssumption DEF Init, Sink
  <2>3. client \in [pc : ClientPc, ctx : Ctx \cup {None}]
    BY DEF Init, ClientPc
  <2> QED
    BY <2>1, <2>2, <2>3 DEF Init, TypeOK, WorkerPc
<1>2. \A c \in Ctx : Counted(c)
  BY DEF Init, Counted, ClientUses, WorkerUses
<1> QED
  BY <1>1, <1>2 DEF Init, Inv

-----------------------------------------------------------------------------
(* Both ways to change a context keep its type. *)
LEMMA ShutDownType ==
  ASSUME NEW x \in Context
  PROVE  /\ ShutDown(x) \in Context
         /\ ShutDown(x).life = x.life
         /\ ShutDown(x).references = x.references
BY DEF ShutDown, Context

LEMMA ReleasedType ==
  ASSUME NEW x \in Context, x.references \in 1..2
  PROVE  /\ Released(x) \in Context
         /\ x.references = 1 => Released(x).life = "deleted"
         /\ x.references = 2 => Released(x).life = x.life /\ Released(x).references = 1
<1>1. CASE x.references = 1
  BY <1>1 DEF Released, Deleted, Context
<1>2. CASE x.references = 2
  <2>1. 1 \in 0..2
    OBVIOUS
  <2>2. Released(x) = [x EXCEPT !.references = 1]
    BY <1>2 DEF Released, Context
  <2> QED
    BY <1>2, <2>1, <2>2 DEF Context
<1> QED
  BY <1>1, <1>2

(* A worker's step that neither changes who holds the context nor, but for   *)
(* the type, what is in it.                                                  *)
LEMMA WorkerStep ==
  ASSUME Inv, NEW c \in Ctx, WorkerUses(c),
         NEW l \in WorkerPc \ {"none", "gone"}, WorkerTo(c, l),
         context' \in [Ctx -> Context], sink' \in [Ctx -> Sink],
         \A d \in Ctx : /\ context'[d].life = context[d].life
                        /\ context'[d].references = context[d].references
                        /\ d # c => sink'[d] = sink[d],
         l = "append" => sink'[c].stored < Blocks,
         UNCHANGED <<client, owner, quit, answer>>
  PROVE  Inv'
<1>1. worker' \in [Ctx -> WorkerPc] /\ worker'[c] = l
      /\ \A d \in Ctx : d # c => worker'[d] = worker[d]
  BY DEF WorkerTo, Inv, TypeOK
<1>2. TypeOK'
  BY <1>1 DEF Inv, TypeOK
<1>3. \A d \in Ctx : (ClientUses(d)' <=> ClientUses(d)) /\ (WorkerUses(d)' <=> WorkerUses(d))
  BY <1>1 DEF ClientUses, WorkerUses
<1>4. \A d \in Ctx : (ClientHolds(d)' <=> ClientHolds(d)) /\ (WorkerHolds(d)' <=> WorkerHolds(d))
  BY <1>3 DEF ClientHolds, WorkerHolds
<1>5. \A d \in Ctx : Count(d)' = Count(d)
  BY <1>4 DEF Count
<1>6. worker[c] # "none"
  BY DEF WorkerUses
<1>7. ASSUME NEW d \in Ctx PROVE Counted(d)'
  BY <1>1, <1>3, <1>5, <1>6 DEF Inv, Counted
<1> QED
  BY <1>2, <1>7 DEF Inv

LEMMA SetFacts ==
  ASSUME NEW c \in Ctx, NEW x \in Context, context \in [Ctx -> Context], Set(c, x)
  PROVE  /\ context' \in [Ctx -> Context]
         /\ context'[c] = x
         /\ \A d \in Ctx : d # c => context'[d] = context[d]
BY DEF Set

(* The steps of the worker up to its release. *)
LEMMA WorkerInv ==
  ASSUME Inv, NEW c \in Ctx, Worker(c), ~WorkerReleases(c)
  PROVE  Inv'
<1>0. context \in [Ctx -> Context] /\ sink \in [Ctx -> Sink] /\ context[c] \in Context
      /\ sink[c] \in Sink
  BY DEF Inv, TypeOK
<1>1. CASE OpenSource(c) \/ RequestCreated(c) \/ RequestReturns(c) \/ Return(c) \/ Signal(c)
           \/ WorkerShutsDown(c)
  <2>1. WorkerUses(c)
    BY <1>1 DEF OpenSource, RequestCreated, RequestReturns, Return, Signal, WorkerShutsDown,
       WorkerAt, WorkerUses
  <2>2. \E l \in WorkerPc \ {"none", "gone", "append"} : WorkerTo(c, l)
    BY <1>1 DEF OpenSource, RequestCreated, RequestReturns, Return, Signal, WorkerShutsDown,
       WorkerPc, Executing
  <2>3. UNCHANGED <<client, owner, quit, answer, sink>>
    BY <1>1 DEF OpenSource, RequestCreated, RequestReturns, Return, Signal, WorkerShutsDown
  <2>4. \/ UNCHANGED context
        \/ \E x \in Context : /\ Set(c, x)
                              /\ x.life = context[c].life
                              /\ x.references = context[c].references
    <3>1. CASE OpenSource(c)
      BY <1>0, <3>1 DEF OpenSource, Context
    <3>2. CASE RequestCreated(c)
      BY <1>0, <3>2 DEF RequestCreated, Context
    <3>3. CASE RequestReturns(c)
      <4> DEFINE r == IF context[c].request = "closed" THEN "stale" ELSE context[c].request
                 x == [context[c] EXCEPT !.request = r]
      <4>1. r \in {"none", "open", "closed", "stale"}
        BY <1>0 DEF Context
      <4>2. Set(c, x)
        BY <3>3 DEF RequestReturns
      <4> HIDE DEF r
      <4>3. x \in Context /\ x.life = context[c].life /\ x.references = context[c].references
        BY <1>0, <4>1 DEF Context
      <4> HIDE DEF x
      <4> QED
        BY <4>2, <4>3
    <3>4. CASE Return(c)
      <4> DEFINE x == [context[c] EXCEPT !.success = TRUE]
      <4>1. x \in Context /\ x.life = context[c].life /\ x.references = context[c].references
        BY <1>0 DEF Context
      <4>2. Set(c, x)
        BY <3>4 DEF Return
      <4> HIDE DEF x
      <4> QED
        BY <4>1, <4>2
    <3>5. CASE Signal(c)
      <4> DEFINE t == IF context[c].trigger = "unset" THEN "set" ELSE context[c].trigger
                 x == [context[c] EXCEPT !.trigger = t]
      <4>1. t \in {"unset", "set", "closed"}
        BY <1>0 DEF Context
      <4>2. Set(c, x)
        BY <3>5 DEF Signal
      <4> HIDE DEF t
      <4>3. x \in Context /\ x.life = context[c].life /\ x.references = context[c].references
        BY <1>0, <4>1 DEF Context
      <4> HIDE DEF x
      <4> QED
        BY <4>2, <4>3
    <3>6. CASE WorkerShutsDown(c)
      BY <1>0, <3>6, ShutDownType DEF WorkerShutsDown
    <3> QED
      BY <1>1, <3>1, <3>2, <3>3, <3>4, <3>5, <3>6
  <2>5. context' \in [Ctx -> Context]
        /\ \A d \in Ctx : /\ context'[d].life = context[d].life
                          /\ context'[d].references = context[d].references
    BY <1>0, <2>4, SetFacts
  <2> QED
    BY <1>0, <2>1, <2>2, <2>3, <2>5, WorkerStep
<1>2. CASE QueryStatus(c) \/ Read(c) \/ Poll(c) \/ Throws(c)
  <2>1. WorkerUses(c)
    BY <1>2 DEF QueryStatus, Read, Poll, Throws, WorkerAt, WorkerUses
  <2>2. UNCHANGED <<client, owner, quit, answer, sink, context>>
    BY <1>2 DEF QueryStatus, Read, Poll, Throws
  <2>3. \E l \in WorkerPc \ {"none", "gone"} :
          WorkerTo(c, l) /\ (l = "append" => sink[c].stored # Blocks)
    BY <1>2 DEF QueryStatus, Read, Poll, Throws, WorkerPc, Executing
  <2>4. sink[c].stored # Blocks => sink[c].stored < Blocks
    BY <1>0, DownloadAssumption DEF Sink
  <2> QED
    BY <1>0, <2>1, <2>2, <2>3, <2>4, WorkerStep
<1>3. CASE OpenSink(c) \/ Append(c) \/ CloseSink(c)
  <2>1. WorkerUses(c)
    BY <1>3 DEF OpenSink, Append, CloseSink, WorkerAt, WorkerUses
  <2>2. UNCHANGED <<client, owner, quit, answer, context>>
    BY <1>3 DEF OpenSink, Append, CloseSink
  <2>3. \E l \in WorkerPc \ {"none", "gone", "append"} : WorkerTo(c, l)
    BY <1>3 DEF OpenSink, Append, CloseSink, WorkerPc, Executing
  <2>4. sink' \in [Ctx -> Sink] /\ \A d \in Ctx : d # c => sink'[d] = sink[d]
    <3>1. CASE OpenSink(c)
      BY <1>0, <3>1 DEF OpenSink, Sink
    <3>2. CASE Append(c)
      <4>1. sink[c].stored < Blocks
        BY <3>2 DEF Append, WorkerAt, Inv, Counted
      <4>2. sink[c].stored + 1 \in 0..Blocks
        BY <1>0, <4>1, DownloadAssumption DEF Sink
      <4>3. [sink[c] EXCEPT !.stored = sink[c].stored + 1] \in Sink
        BY <1>0, <4>2 DEF Sink
      <4> QED
        BY <1>0, <3>2, <4>3 DEF Append
    <3>3. CASE CloseSink(c)
      BY <1>0, <3>3 DEF CloseSink, Sink
    <3> QED
      BY <1>3, <3>1, <3>2, <3>3
  <2> QED
    BY <1>0, <2>1, <2>2, <2>3, <2>4, WorkerStep
<1> QED
  BY <1>1, <1>2, <1>3 DEF Worker

LEMMA WorkerReleasesInv ==
  ASSUME Inv, NEW c \in Ctx, WorkerReleases(c)
  PROVE  Inv'
<1>0. context \in [Ctx -> Context] /\ context[c] \in Context /\ WorkerUses(c)
      /\ UNCHANGED <<client, owner, sink, quit, answer>>
  BY DEF Inv, TypeOK, WorkerReleases, WorkerUses, WorkerAt
<1>1. worker' \in [Ctx -> WorkerPc] /\ worker'[c] = "gone"
      /\ \A d \in Ctx : d # c => worker'[d] = worker[d]
  BY DEF WorkerTo, WorkerPc, WorkerReleases, Inv, TypeOK
<1>2. /\ context[c].life = "alive" /\ context[c].references = Count(c)
      /\ WorkerHolds(c) /\ Count(c) \in 1..2
      /\ Count(c) = 1 <=> ~ClientHolds(c)
  BY <1>0 DEF Inv, Counted, Count, WorkerHolds
<1>3. Set(c, Released(context[c]))
  BY DEF WorkerReleases
<1>4. /\ context' \in [Ctx -> Context]
      /\ context'[c] = Released(context[c])
      /\ \A d \in Ctx : d # c => context'[d] = context[d]
  BY <1>0, <1>2, <1>3, ReleasedType, SetFacts
<1>5. TypeOK'
  BY <1>0, <1>1, <1>4 DEF Inv, TypeOK
<1>6. ~(client.ctx = c /\ client.pc = "counted")
  BY <1>0 DEF Inv, Counted, WorkerUses
<1>7. ASSUME NEW d \in Ctx PROVE Counted(d)'
  <2>1. ClientHolds(d)' <=> ClientHolds(d)
    BY <1>0 DEF ClientHolds, ClientUses
  <2>2. CASE d # c
    BY <1>0, <1>1, <1>4, <2>1, <2>2
       DEF Inv, Counted, Count, WorkerHolds, WorkerUses, ClientHolds, ClientUses
  <2>3. CASE d = c
    <3>1. ~WorkerUses(c)' /\ ~WorkerHolds(c)'
      BY <1>0, <1>1, <1>6 DEF WorkerUses, WorkerHolds
    <3>2. CASE ClientHolds(c)
      <4>1. context'[c].life = "alive" /\ context'[c].references = 1
        <5>1. context[c].references = 2
          BY <1>2, <3>2
        <5> QED
          BY <1>0, <1>2, <1>4, <5>1, ReleasedType
      <4> QED
        BY <1>0, <1>1, <2>1, <2>3, <3>1, <3>2, <4>1
           DEF Inv, Counted, Count, ClientHolds, ClientUses, WorkerUses
    <3>3. CASE ~ClientHolds(c)
      <4>1. context'[c].life = "deleted"
        BY <1>0, <1>2, <1>4, <3>3, ReleasedType
      <4> QED
        BY <1>0, <1>1, <2>1, <2>3, <3>1, <3>3, <4>1
           DEF Inv, Counted, ClientHolds, ClientUses, WorkerUses
    <3> QED
      BY <3>2, <3>3
  <2> QED
    BY <2>2, <2>3
<1> QED
  BY <1>0, <1>5, <1>7 DEF Inv

(* A step of the client on its context c, after which it is at place l of    *)
(* the same download or has left it: every other context keeps its facts.    *)
LEMMA ClientStep ==
  ASSUME Inv, NEW c \in Ctx, UNCHANGED <<quit>>,
         client' \in [pc : ClientPc, ctx : Ctx \cup {None}],
         client.ctx = c \/ client.pc = "idle",
         client'.ctx = c \/ client'.pc = "idle",
         owner' \in Ctx \cup {None},
         context' \in [Ctx -> Context], worker' \in [Ctx -> WorkerPc],
         sink' \in [Ctx -> Sink], answer' \in [Ctx -> {"none", "yes", "no", "withdrawn"}],
         \A d \in Ctx : d # c => /\ context'[d] = context[d] /\ worker'[d] = worker[d]
                                 /\ sink'[d] = sink[d] /\ answer'[d] = answer[d],
         Counted(c)'
  PROVE  Inv'
<1>1. TypeOK'
  BY DEF Inv, TypeOK
<1>2. client'.pc # "idle" => client'.ctx \in Ctx
  OBVIOUS
<1>3. ASSUME NEW d \in Ctx, d # c PROVE Counted(d)'
  <2>1. ~ClientUses(d) /\ ~ClientUses(d)'
    BY <1>3 DEF ClientUses
  <2>2. /\ ~(client.ctx = d /\ client.pc \in {"begun", "counted"})
        /\ ~(client'.ctx = d /\ client'.pc \in {"begun", "counted"})
    BY <1>3
  <2>3. Count(d)' = Count(d)
    BY <1>3, <2>1, <2>2 DEF Count, ClientHolds, WorkerHolds, WorkerUses
  <2> QED
    BY <1>3, <2>1, <2>2, <2>3 DEF Inv, Counted, WorkerUses
<1> QED
  BY <1>1, <1>2, <1>3 DEF Inv

LEMMA ClientTypes ==
  ASSUME Inv
  PROVE  /\ context \in [Ctx -> Context] /\ worker \in [Ctx -> WorkerPc]
         /\ sink \in [Ctx -> Sink] /\ owner \in Ctx \cup {None}
         /\ answer \in [Ctx -> {"none", "yes", "no", "withdrawn"}]
         /\ client \in [pc : ClientPc, ctx : Ctx \cup {None}]
         /\ client.pc # "idle" => client.ctx \in Ctx
         /\ \A c \in Ctx : Counted(c)
         /\ None \notin Ctx
BY DownloadAssumption DEF Inv, TypeOK, Ctx, None

(* get: the context is made, then counted, then its thread runs. *)
LEMMA GetInv ==
  ASSUME Inv, NEW c \in Ctx, Get(c)
  PROVE  Inv'
<1>1. PICK k \in Kind :
        Set(c, [context[c] EXCEPT !.kind = k, !.life = "alive", !.references = 1])
  BY DEF Get
<1> DEFINE x == [context[c] EXCEPT !.kind = k, !.life = "alive", !.references = 1]
<1>2. x \in Context /\ x.life = "alive" /\ x.references = 1
  <2>1. context[c] \in Context /\ 1 \in 0..2 /\ k \in Kind \cup {"none"}
    BY ClientTypes
  <2> HIDE DEF x
  <2>2. x = [context[c] EXCEPT !.kind = k, !.life = "alive", !.references = 1]
    BY DEF x
  <2> QED
    BY <2>1, <2>2 DEF Context
<1> HIDE DEF x
<1>3. /\ context' \in [Ctx -> Context] /\ context'[c] = x
      /\ \A d \in Ctx : d # c => context'[d] = context[d]
  BY <1>1, <1>2, ClientTypes, SetFacts DEF x
<1>4. /\ client' = [pc |-> "begun", ctx |-> c] /\ client.pc = "idle"
      /\ UNCHANGED <<owner, worker, quit, answer>>
      /\ context[c].life = "unborn"
  BY DEF Get, ClientAt, Fresh, Ctx
<1>5. sink' \in [Ctx -> Sink] /\ \A d \in Ctx : d # c => sink'[d] = sink[d]
  BY ClientTypes DEF Get, Sink
<1>6. ~WorkerUses(c) /\ answer[c] # "withdrawn"
  BY <1>4 DEF Inv, Counted
<1>7. Counted(c)'
  <2>1. ClientUses(c)' /\ ~WorkerHolds(c)' /\ ~WorkerUses(c)'
    BY <1>4, <1>6 DEF ClientUses, WorkerHolds, WorkerUses
  <2>2. worker[c] = "none"
    BY <1>4 DEF Inv, Counted
  <2> QED
    BY <1>2, <1>3, <1>4, <1>6, <2>1, <2>2 DEF Counted, Count, ClientHolds
<1>8. client' \in [pc : ClientPc, ctx : Ctx \cup {None}]
  BY <1>4 DEF ClientPc
<1> QED
  BY <1>3, <1>4, <1>5, <1>7, <1>8, ClientTypes, ClientStep

LEMMA GetFailsInv ==
  ASSUME Inv, NEW c \in Ctx, GetFails(c)
  PROVE  Inv'
<1>1. /\ Set(c, Deleted(context[c])) /\ answer' = [answer EXCEPT ![c] = "no"]
      /\ UNCHANGED <<client, owner, worker, sink, quit>> /\ client.pc = "idle"
      /\ context[c].life = "unborn"
  BY DEF GetFails, Tell, ClientAt, Fresh, Ctx
<1>2. Deleted(context[c]) \in Context /\ Deleted(context[c]).life = "deleted"
  BY ClientTypes DEF Deleted, Context
<1>3. /\ context' \in [Ctx -> Context] /\ context'[c].life = "deleted"
      /\ \A d \in Ctx : d # c => context'[d] = context[d]
  BY <1>1, <1>2, ClientTypes, SetFacts
<1>4. /\ answer' \in [Ctx -> {"none", "yes", "no", "withdrawn"}]
      /\ \A d \in Ctx : d # c => answer'[d] = answer[d]
  BY <1>1, ClientTypes
<1>5. Counted(c)'
  BY <1>1, <1>3 DEF Inv, Counted, ClientUses, WorkerUses
<1> QED
  BY <1>1, <1>3, <1>4, <1>5, ClientTypes, ClientStep

LEMMA ReferenceInv == ASSUME Inv, Reference PROVE Inv'
<1> DEFINE c == client.ctx
           x == [context[c] EXCEPT !.references = context[c].references + 1]
<1>1. /\ client.pc = "begun" /\ client' = [client EXCEPT !.pc = "counted"]
      /\ Set(c, x) /\ UNCHANGED <<owner, worker, sink, quit, answer>>
  BY DEF Reference, ClientAt, ClientTo
<1>2. c \in Ctx /\ worker[c] = "none" /\ context[c].life = "alive" /\ answer[c] # "withdrawn"
      /\ context[c].references = Count(c) /\ ClientUses(c)
  BY <1>1 DEF Inv, Counted, ClientUses
<1>3. context[c].references = 1
  BY <1>1, <1>2 DEF Count, ClientHolds, WorkerHolds, WorkerUses
<1>4. x \in Context /\ x.life = "alive" /\ x.references = 2
  <2>1. context[c] \in Context /\ context[c].references + 1 = 2 /\ 2 \in 0..2
    BY <1>2, <1>3, ClientTypes
  <2> QED
    BY <1>2, <2>1 DEF Context
<1> HIDE DEF x
<1>5. /\ context' \in [Ctx -> Context] /\ context'[c] = x
      /\ \A d \in Ctx : d # c => context'[d] = context[d]
  BY <1>1, <1>2, <1>4, ClientTypes, SetFacts
<1>6. /\ client' \in [pc : ClientPc, ctx : Ctx \cup {None}]
      /\ client'.pc = "counted" /\ client'.ctx = c
  BY <1>1, ClientTypes DEF ClientPc
<1>7. Counted(c)'
  BY <1>1, <1>2, <1>4, <1>5, <1>6
     DEF Counted, Count, ClientHolds, WorkerHolds, ClientUses, WorkerUses
<1> QED
  BY <1>1, <1>2, <1>5, <1>6, <1>7, ClientTypes, ClientStep

LEMMA ResumeInv == ASSUME Inv, Resume PROVE Inv'
<1> DEFINE c == client.ctx
<1>1. /\ client.pc = "counted" /\ client' = [client EXCEPT !.pc = "got"] /\ owner' = c
      /\ worker' = [worker EXCEPT ![c] = "begin"]
      /\ UNCHANGED <<context, sink, quit, answer>>
  BY DEF Resume, ClientAt, ClientTo, WorkerTo
<1>2. c \in Ctx /\ ClientUses(c)
  BY <1>1, ClientTypes DEF ClientUses
<1>3. /\ worker' \in [Ctx -> WorkerPc] /\ worker'[c] = "begin"
      /\ \A d \in Ctx : d # c => worker'[d] = worker[d]
  BY <1>1, <1>2, ClientTypes DEF WorkerPc, Executing
<1>4. /\ client' \in [pc : ClientPc, ctx : Ctx \cup {None}]
      /\ client'.pc = "got" /\ client'.ctx = c
  BY <1>1, ClientTypes DEF ClientPc
<1>5. Counted(c)'
  BY <1>1, <1>2, <1>3, <1>4
     DEF Inv, Counted, Count, ClientHolds, WorkerHolds, ClientUses, WorkerUses
<1> QED
  BY <1>1, <1>2, <1>3, <1>4, <1>5, ClientTypes, ClientStep

(* completion: the wait, its two ends, and the reading of the result. *)
LEMMA WaitInv ==
  ASSUME Inv, Completion \/ WaitEnds \/ WaitQuits \/ ReadSuccess
  PROVE  Inv'
<1> DEFINE c == client.ctx
<1>1. /\ client.pc \in {"got", "wait", "settle"} /\ c \in Ctx
      /\ UNCHANGED <<worker, sink, quit>> /\ owner' \in {owner, None}
  BY ClientTypes DEF Completion, WaitEnds, WaitQuits, ReadSuccess, ClientAt
<1>2. /\ client' \in [pc : ClientPc, ctx : Ctx \cup {None}]
      /\ client'.pc \in {"wait", "settle", "release"} /\ client'.ctx = c
  BY ClientTypes DEF ClientPc, Completion, WaitEnds, WaitQuits, ReadSuccess, ClientTo
<1>3. /\ answer' \in [Ctx -> {"none", "yes", "no", "withdrawn"}]
      /\ answer[c] # "withdrawn" /\ answer'[c] # "withdrawn"
      /\ \A d \in Ctx : d # c => answer'[d] = answer[d]
  <2>1. answer[c] # "withdrawn"
    BY <1>1 DEF Inv, Counted, ClientUses
  <2>2. UNCHANGED answer \/ \E a \in {"yes", "no"} : answer' = [answer EXCEPT ![c] = a]
    BY DEF Completion, WaitEnds, WaitQuits, ReadSuccess, Tell
  <2> QED
    BY <1>1, <2>1, <2>2, ClientTypes
<1>4. /\ context' \in [Ctx -> Context]
      /\ context'[c].life = context[c].life /\ context'[c].references = context[c].references
      /\ \A d \in Ctx : d # c => context'[d] = context[d]
  <2>1. CASE WaitEnds
    <3> DEFINE x == [context[c] EXCEPT !.trigger = "closed"]
    <3>1. x \in Context /\ x.life = context[c].life /\ x.references = context[c].references
      BY <1>1, ClientTypes DEF Context
    <3>2. Set(c, x)
      BY <2>1 DEF WaitEnds
    <3> HIDE DEF x
    <3> QED
      BY <1>1, <3>1, <3>2, ClientTypes, SetFacts
  <2>2. CASE UNCHANGED context
    BY <2>2, ClientTypes
  <2> QED
    BY <2>1, <2>2 DEF Completion, WaitQuits, ReadSuccess
<1>5. Counted(c)'
  BY <1>1, <1>2, <1>3, <1>4
     DEF Inv, Counted, Count, ClientHolds, WorkerHolds, ClientUses, WorkerUses
<1> QED
  BY <1>1, <1>2, <1>3, <1>4, <1>5, ClientTypes, ClientStep

LEMMA EndOfScopeFacts ==
  ASSUME Inv, NEW c \in Ctx, EndOfScope(c)
  PROVE  /\ sink' \in [Ctx -> Sink] /\ sink'[c].stored = sink[c].stored
         /\ \A d \in Ctx : d # c => sink'[d] = sink[d]
<1> DEFINE x == [sink[c] EXCEPT !.alive = FALSE, !.open = FALSE]
<1>1. sink[c] \in Sink
  BY ClientTypes
<1>2. x \in Sink /\ x.stored = sink[c].stored
  BY <1>1 DEF Sink
<1>3. sink' = [sink EXCEPT ![c] = x]
  BY DEF EndOfScope
<1> HIDE DEF x
<1> QED
  BY <1>2, <1>3, ClientTypes

(* A download given up keeps the client's reference for ever. *)
LEMMA GiveUpInv == ASSUME Inv, Cancel \/ Destroy PROVE Inv'
<1>0. PICK c \in Ctx : c = client.ctx
  BY ClientTypes DEF Cancel, Destroy, Leave, ClientAt
<1>1. /\ client.pc = "got" /\ c \in Ctx /\ ClientUses(c) /\ worker' = worker
      /\ UNCHANGED quit /\ owner' = None
      /\ answer' = [answer EXCEPT ![c] = "withdrawn"]
      /\ Set(c, ShutDown(context[c]))
  BY <1>0, ClientTypes DEF Cancel, Destroy, ClientAt, ClientUses, Tell
<1>2. /\ client' \in [pc : ClientPc, ctx : Ctx \cup {None}]
      /\ client'.pc \in {"leave", "idle"}
      /\ client'.ctx = c \/ client'.pc = "idle"
  BY <1>0, ClientTypes DEF ClientPc, Cancel, Destroy, ClientTo
<1>3. /\ context' \in [Ctx -> Context]
      /\ context'[c].life = context[c].life /\ context'[c].references = context[c].references
      /\ \A d \in Ctx : d # c => context'[d] = context[d]
  <2>1. context[c] \in Context
    BY <1>1, ClientTypes
  <2> QED
    BY <1>1, <2>1, ShutDownType, ClientTypes, SetFacts
<1>4. /\ answer' \in [Ctx -> {"none", "yes", "no", "withdrawn"}] /\ answer'[c] = "withdrawn"
      /\ \A d \in Ctx : d # c => answer'[d] = answer[d]
  BY <1>1, ClientTypes
<1>5. sink' \in [Ctx -> Sink] /\ sink'[c].stored = sink[c].stored
      /\ \A d \in Ctx : d # c => sink'[d] = sink[d]
  <2>1. CASE Cancel
    BY <1>1, <2>1, ClientTypes DEF Cancel
  <2>2. CASE Destroy
    BY <1>0, <1>1, <2>2, EndOfScopeFacts DEF Destroy
  <2> QED
    BY <2>1, <2>2
<1>6. ~ClientUses(c)' /\ ClientHolds(c)' /\ ClientHolds(c)
  BY <1>1, <1>2, <1>4 DEF ClientUses, ClientHolds
<1>7. (WorkerHolds(c)' <=> WorkerHolds(c)) /\ (WorkerUses(c)' <=> WorkerUses(c))
  BY <1>1, <1>2 DEF WorkerHolds, WorkerUses
<1>8. Counted(c)'
  BY <1>1, <1>2, <1>3, <1>5, <1>6, <1>7 DEF Inv, Counted, Count
<1> QED
  BY <1>0, <1>1, <1>2, <1>3, <1>4, <1>5, <1>8, ClientTypes, ClientStep

LEMMA ClientReleasesInv == ASSUME Inv, ClientReleases PROVE Inv'
<1> DEFINE c == client.ctx
<1>1. /\ client.pc = "release" /\ c \in Ctx /\ ClientUses(c)
      /\ UNCHANGED <<owner, worker, sink, quit, answer>>
      /\ Set(c, Released(context[c])) /\ client' = [client EXCEPT !.pc = "leave"]
  BY ClientTypes DEF ClientReleases, ClientAt, ClientUses, ClientTo
<1>2. /\ client' \in [pc : ClientPc, ctx : Ctx \cup {None}]
      /\ client'.pc = "leave" /\ client'.ctx = c
  BY <1>1, ClientTypes DEF ClientPc
<1>3. /\ context[c].life = "alive" /\ context[c].references = Count(c)
      /\ answer[c] # "withdrawn" /\ context[c] \in Context
      /\ Count(c) = IF WorkerUses(c) THEN 2 ELSE 1
  BY <1>1, ClientTypes DEF Counted, Count, ClientHolds, WorkerHolds
<1>4. /\ context' \in [Ctx -> Context] /\ context'[c] = Released(context[c])
      /\ \A d \in Ctx : d # c => context'[d] = context[d]
  BY <1>1, <1>3, ReleasedType, ClientTypes, SetFacts
<1>5. ~ClientUses(c)' /\ ~ClientHolds(c)' /\ (WorkerUses(c)' <=> WorkerUses(c))
      /\ (WorkerHolds(c)' <=> WorkerUses(c))
  BY <1>1, <1>2, <1>3 DEF ClientUses, ClientHolds, WorkerUses, WorkerHolds
<1>6. Counted(c)'
  <2>1. CASE WorkerUses(c)
    <3>1. context'[c].life = "alive" /\ context'[c].references = 1
      <4>1. context[c].references = 2
        BY <1>3, <2>1
      <4> QED
        BY <1>3, <1>4, <4>1, ReleasedType
    <3> QED
      BY <1>1, <1>2, <1>3, <1>5, <2>1, <3>1, ClientTypes DEF Counted, Count, ClientUses
  <2>2. CASE ~WorkerUses(c)
    <3>1. context'[c].life = "deleted"
      <4>1. context[c].references = 1
        BY <1>3, <2>2
      <4> QED
        BY <1>3, <1>4, <4>1, ReleasedType
    <3> QED
      BY <1>1, <1>2, <1>3, <1>5, <2>2, <3>1, ClientTypes DEF Counted, ClientUses, WorkerUses
  <2> QED
    BY <2>1, <2>2
<1> QED
  BY <1>1, <1>2, <1>4, <1>6, ClientTypes, ClientStep

LEMMA LeaveInv == ASSUME Inv, Leave PROVE Inv'
<1>0. PICK c \in Ctx : c = client.ctx
  BY ClientTypes DEF Cancel, Destroy, Leave, ClientAt
<1>1. /\ client.pc = "leave" /\ c \in Ctx
      /\ UNCHANGED <<owner, worker, context, quit, answer>>
      /\ client' = [pc |-> "idle", ctx |-> None]
  BY <1>0, ClientTypes DEF Leave, ClientAt
<1>2. client' \in [pc : ClientPc, ctx : Ctx \cup {None}] /\ client'.pc = "idle"
  BY <1>0, <1>1 DEF ClientPc
<1>3. sink' \in [Ctx -> Sink] /\ sink'[c].stored = sink[c].stored
      /\ \A d \in Ctx : d # c => sink'[d] = sink[d]
  BY <1>0, <1>1, EndOfScopeFacts DEF Leave
<1>4. Counted(c)'
  BY <1>1, <1>2, <1>3, ClientTypes
     DEF Counted, Count, ClientHolds, WorkerHolds, ClientUses, WorkerUses
<1> QED
  BY <1>0, <1>1, <1>2, <1>3, <1>4, ClientTypes, ClientStep

LEMMA EnvironmentInv ==
  ASSUME Inv, PostQuit \/ \E c \in Ctx : UserCancels(c)
  PROVE  Inv'
<1>1. UNCHANGED <<client, owner, context, worker, answer>> /\ quit' \in BOOLEAN
  BY DEF PostQuit, UserCancels, Inv, TypeOK
<1>2. sink' \in [Ctx -> Sink] /\ \A d \in Ctx : sink'[d].stored = sink[d].stored
  <2>1. CASE PostQuit
    BY <2>1, ClientTypes DEF PostQuit
  <2>2. ASSUME NEW c \in Ctx, UserCancels(c)
        PROVE  sink' \in [Ctx -> Sink] /\ \A d \in Ctx : sink'[d].stored = sink[d].stored
    <3> DEFINE x == [sink[c] EXCEPT !.cancelled = TRUE]
    <3>1. sink[c] \in Sink
      BY ClientTypes
    <3>2. x \in Sink /\ x.stored = sink[c].stored
      BY <3>1 DEF Sink
    <3>3. sink' = [sink EXCEPT ![c] = x]
      BY <2>2 DEF UserCancels
    <3> HIDE DEF x
    <3> QED
      BY <3>2, <3>3, ClientTypes
  <2> QED
    BY <2>1, <2>2
<1>3. TypeOK'
  BY <1>1, <1>2 DEF Inv, TypeOK
<1>4. ASSUME NEW d \in Ctx PROVE Counted(d)'
  BY <1>1, <1>2, ClientTypes
     DEF Counted, Count, ClientHolds, WorkerHolds, ClientUses, WorkerUses
<1> QED
  BY <1>1, <1>3, <1>4 DEF Inv

(* The invariant is inductive. *)
THEOREM NextInv == Inv /\ [Next]_vars => Inv'
<1> SUFFICES ASSUME Inv, [Next]_vars PROVE Inv'
  OBVIOUS
<1>1. CASE Client
  BY <1>1, GetInv, GetFailsInv, ReferenceInv, ResumeInv, WaitInv, GiveUpInv,
     ClientReleasesInv, LeaveInv DEF Client
<1>2. CASE \E c \in Ctx : Worker(c)
  BY <1>2, WorkerInv, WorkerReleasesInv
<1>3. CASE UNCHANGED vars
  BY <1>3 DEF Inv, TypeOK, Counted, Count, ClientHolds, WorkerHolds, ClientUses, WorkerUses,
     vars
<1> QED
  BY <1>1, <1>2, <1>3, EnvironmentInv DEF Next

-----------------------------------------------------------------------------
LEMMA InvAlways == Spec => []Inv
BY InitInv, NextInv, PTL DEF Spec

(* Every variable stays in its domain: no reference count leaves 0..2, so    *)
(* the assertions on it (AutoDownLoad.cpp:323, 387, 398, 413, 716) hold, and *)
(* no sink is given more than the resource.                                  *)
THEOREM TypeCorrect == Spec => []TypeOK
<1>1. Inv => TypeOK
  BY DEF Inv
<1> QED
  BY <1>1, InvAlways, PTL

(* A context is in memory whenever the client or its worker may touch it:    *)
(* neither a quitting pump nor a cancel nor a destroyed Download deletes it  *)
(* under the worker, nor the worker under the client.                        *)
THEOREM NoUseAfterDelete == Spec => []UsedIsAlive
<1>1. Inv => UsedIsAlive
  BY DEF Inv, Counted, UsedIsAlive
<1> QED
  BY <1>1, InvAlways, PTL

=============================================================================

------------------------- MODULE UpdateSessionProofs -------------------------
(***************************************************************************)
(* What UpdateSession guarantees for every number of copies, every feed,    *)
(* every registry setting, and any number of deaths and failed calls.       *)
(***************************************************************************)
EXTENDS UpdateSession, TLAPS

(* A call that has, or is about to return to, a release on offer. *)
OnOffer(r) ==
  \/ r.pc \in {"skip.version", "skip.time", "unskip.version", "unskip.time",
               "install", "later.last", "later.version", "later.time",
               "skipreq.version", "skipreq.time"}
  \/ r.pc \in {"auto.check", "auto.last"} /\ r.then = "install"

(* What is true of the locals of every call: Reset's loop index is an index *)
(* of ConfigKeys, what is on offer is a release, and a call that found a    *)
(* request for it in the registry, or is about to write one, was asked to   *)
(* skip it by someone, when a is the set of all versions ever asked for.    *)
Good(r, a) ==
  /\ r \in Session
  /\ r.pc = "reset" => r.arg \in 1..7
  /\ OnOffer(r) => r.offered \in Version
  /\ r.pc \in {"skip.time", "skipreq.version"} => r.offered \in a

(* The inductive invariant. *)
RefusalStored == refused => user["AutoCheck"] = 0
SkipStored    == user["SkipVersion"] \in Int => user["SkipVersion"] \in asked

Inv ==
  /\ TypeOK
  /\ \A p \in Proc : Good(session[p], asked)
  /\ RefusalStored
  /\ SkipStored

-----------------------------------------------------------------------------
LEMMA KeyFacts ==
  /\ Len(ConfigKeys) = 7
  /\ \A i \in 1..7 : ConfigKeys[i] \in Key
BY DEF ConfigKeys, Key

LEMMA MachineKeepsTunablesOnly ==
  ASSUME TypeOK
  PROVE  /\ host.machine \in [Key -> Value]
         /\ \A k \in Key \ Tunable : host.machine[k] = NoValue
BY HostAssumption DEF TypeOK

(* The new local state of one copy keeps the others'. *)
LEMMA BecomeType ==
  ASSUME NEW p \in Proc, NEW r, Become(p, r), session \in [Proc -> Session], r \in Session
  PROVE  /\ session' \in [Proc -> Session]
         /\ session'[p] = r
         /\ \A q \in Proc : q # p => session'[q] = session[q]
BY DEF Become

LEMMA WriteType ==
  ASSUME NEW k \in Key, NEW v \in Value, user \in [Key -> Value], Write(k, v)
  PROVE  /\ user' \in [Key -> Value]
         /\ user'[k] = v
         /\ \A j \in Key : j # k => user'[j] = user[j]
BY DEF Write

LEMMA NoSessionFacts ==
  /\ \A a : Good(NoSession, a)
  /\ NoSession.pc = "idle" /\ NoSession.launched = FALSE
<1>1. NoSession.pc = "idle" /\ NoSession.launched = FALSE
  BY DEF NoSession
<1>2. NoSession \in Session
  BY DEF NoSession, Session, Pc
<1> QED
  BY <1>1, <1>2 DEF Good, OnOffer

THEOREM InitInv == Init => Inv
<1> SUFFICES ASSUME Init PROVE Inv
  OBVIOUS
<1>1. user \in [Key -> Value]
  BY HostAssumption DEF Init
<1>2. \A p \in Proc : Good(session[p], asked)
  BY NoSessionFacts DEF Init
<1>3. session \in [Proc -> Session]
  BY NoSessionFacts DEF Init, Good
<1>4. TypeOK
  <2>1. faults \in 0..MaxFaults
    BY BoundAssumption DEF Init
  <2>2. promise \in {NoValue} \cup [version : Version, at : Nat]
    BY DEF Init
  <2>3. host \in Host /\ now \in Nat \ {0} /\ feed \in Version
    BY DEF Init
  <2>4. asked \subseteq Version /\ refused \in BOOLEAN /\ lastAuto \in Nat
    BY DEF Init
  <2> QED
    BY <1>1, <1>3, <2>1, <2>2, <2>3, <2>4, Zenon DEF TypeOK
<1>5. user["SkipVersion"] = NoValue
  BY HostAssumption DEF Init, Key, Tunable
<1>6. RefusalStored /\ SkipStored
  BY <1>5, SentinelAssumption DEF Init, RefusalStored, SkipStored
<1> QED
  BY <1>2, <1>4, <1>6 DEF Inv

-----------------------------------------------------------------------------
PromiseType == {NoValue} \cup [version : Version, at : Nat]

(* A step of one call that leaves the registry alone. *)
LEMMA LocalStep ==
  ASSUME Inv, UNCHANGED <<env, user, refused>>,
         promise' \in PromiseType, lastAuto' \in Nat,
         asked \subseteq asked', asked' \subseteq Version,
         NEW p \in Proc, NEW r, Become(p, r), Good(r, asked')
  PROVE  Inv'
<1>1. session' \in [Proc -> Session] /\ \A q \in Proc : Good(session'[q], asked')
  <2>1. r \in Session /\ session \in [Proc -> Session]
    BY DEF Good, Inv, TypeOK
  <2>2. \A q \in Proc : Good(session[q], asked')
    BY DEF Inv, Good
  <2> QED
    BY <2>1, <2>2, BecomeType
<1> QED
  BY <1>1 DEF Inv, TypeOK, env, RefusalStored, SkipStored, PromiseType

(* The same when the history does not change either. *)
LEMMA QuietStep ==
  ASSUME Inv, UNCHANGED <<env, user, history>>,
         NEW p \in Proc, NEW r, Become(p, r), Good(r, asked)
  PROVE  Inv'
BY LocalStep DEF Inv, TypeOK, history, PromiseType

(* A step of one call that writes a value no conjunct of Inv speaks of, or   *)
(* that clears SkipVersion.                                                  *)
LEMMA WriteStep ==
  ASSUME Inv, UNCHANGED <<env, asked, refused, lastAuto>>, promise' \in PromiseType,
         NEW k \in Key \ {"AutoCheck"}, NEW v \in Value, Write(k, v),
         k = "SkipVersion" => v \notin Int \/ v \in asked,
         NEW p \in Proc, NEW r, Become(p, r), Good(r, asked)
  PROVE  Inv'
<1>1. session' \in [Proc -> Session] /\ \A q \in Proc : Good(session'[q], asked)
  <2>1. r \in Session /\ session \in [Proc -> Session]
    BY DEF Good, Inv, TypeOK
  <2> QED
    BY <2>1, BecomeType DEF Inv
<1>2. /\ user' \in [Key -> Value]
      /\ user'["AutoCheck"] = user["AutoCheck"]
      /\ \/ user'["SkipVersion"] = user["SkipVersion"]
         \/ k = "SkipVersion" /\ user'[k] = v
  BY WriteType DEF Inv, TypeOK, Key
<1>3. TypeOK'
  BY <1>1, <1>2 DEF Inv, TypeOK, env, PromiseType
<1>4. RefusalStored'
  BY <1>2 DEF Inv, RefusalStored
<1>5. SkipStored'
  BY <1>2 DEF Inv, SkipStored
<1> QED
  BY <1>1, <1>3, <1>4, <1>5 DEF Inv

(* The locals a call ends with are Good; so are those of a call that goes to *)
(* a place that asks nothing new of them.                                    *)
LEMMA EndGood ==
  ASSUME Inv, NEW p \in Proc, NEW ret \in -1..3
  PROVE  Good([NoSession EXCEPT !.ret = ret, !.launched = session[p].launched], asked)
<1>1. session[p].launched \in BOOLEAN /\ NoSession \in Session /\ NoSession.pc = "idle"
  BY NoSessionFacts DEF Inv, Good, Session
<1> QED
  BY <1>1 DEF Good, OnOffer, Session

LEMMA GotoGood ==
  ASSUME Inv, NEW p \in Proc, NEW l \in Pc \ {"reset", "skip.time", "skipreq.version"},
         OnOffer(session[p]) \/ l \in {"status.check", "prompt", "report", "setonce"}
  PROVE  Good([session[p] EXCEPT !.pc = l], asked)
BY DEF Inv, Good, OnOffer, Session, Pc
LEMMA EndStep ==
  ASSUME Inv, UNCHANGED <<env, user, history>>, NEW p \in Proc, NEW ret \in -1..3, End(p, ret)
  PROVE  Inv'
BY EndGood, QuietStep DEF End

LEMMA GotoStep ==
  ASSUME Inv, UNCHANGED <<env, user, history>>, NEW p \in Proc,
         NEW l \in Pc \ {"reset", "skip.time", "skipreq.version"}, Goto(p, l),
         OnOffer(session[p]) \/ l \in {"status.check", "prompt", "report", "setonce"}
  PROVE  Inv'
BY GotoGood, QuietStep DEF Goto

-----------------------------------------------------------------------------
(* Every action of a call preserves Inv. *)

LEMMA MachineHive ==
  ASSUME Inv
  PROVE  /\ host.machine \in [Key -> Value]
         /\ host.machine["SkipVersion"] = NoValue
BY HostAssumption DEF Inv, TypeOK, Key, Tunable

LEMMA StoredType ==
  ASSUME Inv, NEW k \in Key
  PROVE  Stored(k) \in Value
BY MachineHive DEF Stored, Inv, TypeOK

(* Updates of several locals of a call at once keep it a Session. *)
LEMMA Updates ==
  ASSUME NEW s \in Session, NEW l \in Pc, NEW a \in Int, NEW t \in {"idle", "avail", "install"},
         NEW n \in -1..3
  PROVE  /\ [s EXCEPT !.pc = l, !.arg = a, !.then = t] \in Session
         /\ \A v \in Version : [s EXCEPT !.pc = l, !.offered = v, !.ret = n] \in Session
         /\ [s EXCEPT !.ret = n, !.pc = l] \in Session
         /\ [s EXCEPT !.pc = l, !.ret = n] \in Session
<1>1. [s EXCEPT !.pc = l, !.arg = a, !.then = t] \in Session
  <2> DEFINE r == [s EXCEPT !.pc = l, !.arg = a, !.then = t]
  <2>1. r = [s EXCEPT !.pc = l, !.arg = a, !.then = t]
    OBVIOUS
  <2> HIDE DEF r
  <2>2. r \in Session
    BY <2>1 DEF Session
  <2> QED
    BY <2>2 DEF r
<1>3. ASSUME NEW v \in Version
      PROVE  [s EXCEPT !.pc = l, !.offered = v, !.ret = n] \in Session
  <2> DEFINE r == [s EXCEPT !.pc = l, !.offered = v, !.ret = n]
  <2>1. r = [s EXCEPT !.pc = l, !.offered = v, !.ret = n]
    OBVIOUS
  <2> HIDE DEF r
  <2>2. r \in Session
    BY <2>1 DEF Session
  <2> QED
    BY <2>2 DEF r
<1>4. [s EXCEPT !.ret = n, !.pc = l] \in Session
  <2> DEFINE r == [s EXCEPT !.ret = n, !.pc = l]
  <2>1. r = [s EXCEPT !.ret = n, !.pc = l]
    OBVIOUS
  <2> HIDE DEF r
  <2>2. r \in Session
    BY <2>1 DEF Session
  <2> QED
    BY <2>2 DEF r
<1>5. [s EXCEPT !.pc = l, !.ret = n] \in Session
  <2> DEFINE r == [s EXCEPT !.pc = l, !.ret = n]
  <2>1. r = [s EXCEPT !.pc = l, !.ret = n]
    OBVIOUS
  <2> HIDE DEF r
  <2>2. r \in Session
    BY <2>1 DEF Session
  <2> QED
    BY <2>2 DEF r
<1> QED
  BY <1>1, <1>3, <1>4, <1>5

LEMMA StartGood ==
  ASSUME NEW s \in Session,
         NEW m \in Mode, NEW a \in {0, 1}, NEW t \in {"idle", "avail"},
         NEW l \in {"reset", "auto.check", "status.last", "status.check", "prompt"},
         l = "reset" => a = 1
  PROVE  Good([s EXCEPT !.pc = l, !.mode = m, !.arg = a, !.then = t],
              asked)
<1> DEFINE r == [s EXCEPT !.pc = l, !.mode = m, !.arg = a, !.then = t]
<1>1. l \in Pc /\ m \in Mode \cup {"none"} /\ a \in Int /\ t \in {"idle", "avail", "install"}
  BY DEF Pc
<1>2. r \in Session
  <2> HIDE DEF r
  <2>1. /\ r = [s EXCEPT !.pc = l, !.mode = m, !.arg = a, !.then = t]
    BY DEF r
  <2> QED
    BY <1>1, <2>1 DEF Session
<1>3. r.pc = l /\ r.arg = a /\ r.then = t
  BY DEF Session
<1> HIDE DEF r
<1>4. Good(r, asked)
  BY <1>2, <1>3 DEF Good, OnOffer
<1> QED
  BY <1>4 DEF r

LEMMA StartStep == ASSUME Inv, NEW p \in Proc, Start(p) PROVE Inv'
<1>0. NoSession \in Session
  BY NoSessionFacts DEF Good
<1>1. PICK m \in Mode :
        Become(p, [NoSession EXCEPT !.pc = Entry(m), !.mode = m,
                     !.arg = IF m \in {"Reset", "Enable"} THEN 1 ELSE 0,
                     !.then = IF m = "Enable" THEN "avail" ELSE "idle"])
  BY DEF Start
<1>2. /\ Entry(m) \in {"reset", "auto.check", "status.last", "status.check", "prompt"}
      /\ Entry(m) = "reset" => m = "Reset"
  BY DEF Entry
<1> DEFINE a == IF m \in {"Reset", "Enable"} THEN 1 ELSE 0
           t == IF m = "Enable" THEN "avail" ELSE "idle"
<1>3. a \in {0, 1} /\ t \in {"idle", "avail"} /\ (Entry(m) = "reset" => a = 1)
  BY <1>2
<1> HIDE DEF a, t
<1>4. Good([NoSession EXCEPT !.pc = Entry(m), !.mode = m, !.arg = a, !.then = t],
           asked)
  BY <1>0, <1>2, <1>3, StartGood
<1>5. Become(p, [NoSession EXCEPT !.pc = Entry(m), !.mode = m,
                    !.arg = a, !.then = t])
  BY <1>1 DEF a, t
<1>6. UNCHANGED <<env, user, history>>
  BY DEF Start
<1> QED
  BY <1>4, <1>5, <1>6, QuietStep

LEMMA StatusSteps ==
  ASSUME Inv, NEW p \in Proc,
         StatusInterval(p) \/ StatusStamp(p) \/ StatusCheck(p) \/ ReadOnce(p)
  PROVE  Inv'
<1>0. session[p] \in Session /\ now \in Nat /\ now \in Value
  BY DEF Inv, Good, TypeOK, Value
<1>1. CASE StatusInterval(p)
  <2> DEFINE r(l) == [session[p] EXCEPT !.began = now, !.pc = l]
  <2>1. \A l \in {"status.check", "status.stamp"} : Good(r(l), asked)
    BY <1>0 DEF Good, OnOffer, Session, Pc
  <2>2. /\ UNCHANGED <<env, user, history>>
        /\ \/ End(p, 0)
           \/ \E l \in {"status.check", "status.stamp"} : Become(p, r(l))
    BY <1>1 DEF StatusInterval
  <2>3. CASE End(p, 0)
    BY <2>2, <2>3, EndStep
  <2>4. CASE \E l \in {"status.check", "status.stamp"} : Become(p, r(l))
    BY <2>1, <2>2, <2>4, QuietStep
  <2> QED
    BY <2>2, <2>3, <2>4
<1>2. CASE StatusStamp(p)
  BY <1>0, <1>2, GotoGood, WriteStep DEF StatusStamp, Goto, Pc, Key, Inv, TypeOK,
     PromiseType, history
<1>3. CASE StatusCheck(p)
  <2> DEFINE r(l) == [session[p] EXCEPT !.pc = l, !.began = 0]
  <2>1. \A l \in {"avail", "prompt", "once"} : Good(r(l), asked)
    BY <1>0 DEF Good, OnOffer, Session, Pc
  <2>2. /\ UNCHANGED <<env, user, promise, asked, refused>>
        /\ lastAuto' = session[p].began \/ lastAuto' = lastAuto
        /\ \/ End(p, 0)
           \/ \E l \in {"avail", "prompt", "once"} : Become(p, r(l))
    BY <1>3 DEF StatusCheck
  <2>3. lastAuto' \in Nat /\ promise' \in PromiseType /\ asked' \subseteq Version
    BY <2>2, <1>0 DEF Session, Inv, TypeOK, PromiseType
  <2>4. asked' = asked /\ UNCHANGED <<env, user, refused>>
    BY <2>2
  <2>5. ASSUME NEW new, Become(p, new), Good(new, asked) PROVE Inv'
    BY <2>3, <2>4, <2>5, LocalStep
  <2>6. CASE End(p, 0)
    <3> DEFINE e == [NoSession EXCEPT !.ret = 0, !.launched = session[p].launched]
    <3>1. Good(e, asked)
      <4>1. 0 \in -1..3
        OBVIOUS
      <4> QED
        BY <4>1, EndGood, Zenon
    <3>2. Become(p, e)
      BY <2>6 DEF End
    <3> HIDE DEF e
    <3> QED
      BY <2>5, <3>1, <3>2
  <2>7. CASE \E l \in {"avail", "prompt", "once"} : Become(p, r(l))
    BY <2>1, <2>5, <2>7
  <2> QED
    BY <2>2, <2>6, <2>7
<1>4. CASE ReadOnce(p)
  <2>1. CASE End(p, 0)
    BY <1>4, <2>1, EndStep DEF ReadOnce
  <2>2. CASE Goto(p, "prompt")
    BY <1>4, <2>2, GotoStep DEF ReadOnce, Pc
  <2> QED
    BY <1>4, <2>1, <2>2 DEF ReadOnce
<1> QED
  BY <1>1, <1>2, <1>3, <1>4

(* A write after which the call ends, or goes on somewhere else. *)
LEMMA WriteEnd ==
  ASSUME Inv, UNCHANGED <<env, asked, refused, lastAuto>>, promise' \in PromiseType,
         NEW k \in Key \ {"AutoCheck", "SkipVersion"}, NEW v \in Value, Write(k, v),
         NEW p \in Proc, End(p, 0)
  PROVE  Inv'
<1> DEFINE e == [NoSession EXCEPT !.ret = 0, !.launched = session[p].launched]
<1>1. Good(e, asked)
  <2>1. 0 \in -1..3
    OBVIOUS
  <2> QED
    BY <2>1, EndGood, Zenon
<1>2. Become(p, e)
  BY DEF End
<1> HIDE DEF e
<1> QED
  BY <1>1, <1>2, WriteStep

LEMMA WriteGoto ==
  ASSUME Inv, UNCHANGED <<env, asked, refused, lastAuto>>, promise' \in PromiseType,
         NEW k \in Key \ {"AutoCheck"}, NEW v \in Value, Write(k, v),
         k = "SkipVersion" => v \notin Int \/ v \in asked,
         NEW p \in Proc,
         NEW l \in Pc \ {"reset", "skip.time", "skipreq.version"}, Goto(p, l),
         OnOffer(session[p]) \/ l \in {"status.check", "prompt", "report", "setonce"}
  PROVE  Inv'
BY GotoGood, WriteStep DEF Goto

LEMMA ValueFacts ==
  ASSUME Inv
  PROVE  /\ now \in Value /\ 0 \in Value /\ 1 \in Value /\ Empty \in Value
         /\ Version \subseteq Value
         /\ promise \in PromiseType /\ NoValue \in PromiseType
         /\ Empty \notin Int
BY ReleaseAssumption, SentinelAssumption DEF Inv, TypeOK, Value, PromiseType

LEMMA AutoSteps ==
  ASSUME Inv, NEW p \in Proc, WriteAutoCheck(p) \/ WriteAutoLast(p)
  PROVE  Inv'
<1>0. session[p] \in Session /\ session[p].arg \in Value
  BY DEF Inv, Good, Session, Value
<1>1. CASE WriteAutoCheck(p)
  <2>1. Good([session[p] EXCEPT !.pc = "auto.last"], asked)
    BY <1>0, <1>1 DEF Inv, Good, OnOffer, Session, Pc, WriteAutoCheck, At
  <2>2. session' \in [Proc -> Session] /\ \A q \in Proc : Good(session'[q], asked)
    <3>1. /\ Become(p, [session[p] EXCEPT !.pc = "auto.last"])
          /\ [session[p] EXCEPT !.pc = "auto.last"] \in Session
      BY <1>1, <2>1 DEF WriteAutoCheck, Goto, Good
    <3>2. session \in [Proc -> Session]
      BY DEF Inv, TypeOK
    <3> QED
      BY <2>1, <3>1, <3>2, BecomeType DEF Inv
  <2>3. /\ user' \in [Key -> Value]
        /\ user'["AutoCheck"] = session[p].arg
        /\ user'["SkipVersion"] = user["SkipVersion"]
    BY <1>0, <1>1, WriteType DEF WriteAutoCheck, Inv, TypeOK, Key
  <2>4. refused' = (session[p].arg = 0) /\ UNCHANGED <<env, promise, asked, lastAuto>>
    BY <1>1 DEF WriteAutoCheck
  <2>5. TypeOK'
    BY <2>2, <2>3, <2>4 DEF Inv, TypeOK, env
  <2>6. RefusalStored' /\ SkipStored'
    BY <2>3, <2>4 DEF Inv, RefusalStored, SkipStored
  <2> QED
    BY <2>2, <2>4, <2>5, <2>6 DEF Inv
<1>2. CASE WriteAutoLast(p)
  <2>1. /\ Write("AutoLast", IF session[p].arg = 1 THEN now ELSE 0)
        /\ UNCHANGED <<env, asked, refused, lastAuto, promise>>
    BY <1>2 DEF WriteAutoLast, history
  <2>2. (IF session[p].arg = 1 THEN now ELSE 0) \in Value /\ promise' \in PromiseType
    BY <2>1, ValueFacts
  <2>3. "AutoLast" \in Key \ {"AutoCheck", "SkipVersion"}
    BY DEF Key
  <2>4. CASE End(p, 0)
    BY <2>1, <2>2, <2>3, <2>4, WriteEnd
  <2> DEFINE r == [session[p] EXCEPT !.pc = session[p].then, !.arg = 0, !.then = "idle"]
  <2>5. CASE session[p].then # "idle" /\ Become(p, r)
    <3>2. session[p].then \in {"avail", "install"}
      BY <1>0, <2>5 DEF Session
    <3>1. r \in Session /\ r.pc = session[p].then /\ r.offered = session[p].offered
      <4>1. session[p].then \in Pc /\ 0 \in Int /\ 0 \in -1..3 /\ "idle" \in {"idle", "avail", "install"}
        BY <3>2 DEF Pc
      <4>2. r \in Session
        BY <1>0, <4>1, Updates, Zenon
      <4>3. r.pc = session[p].then /\ r.offered = session[p].offered
        BY <1>0 DEF Session
      <4> QED
        BY <4>2, <4>3
    <3>3. r.pc = "install" => session[p].offered \in Version
      BY <1>2, <3>1 DEF Inv, Good, OnOffer, WriteAutoLast, At
    <3> HIDE DEF r
    <3>4. OnOffer(r) => r.offered \in Version
      BY <3>1, <3>2, <3>3 DEF OnOffer
    <3>5. Good(r, asked)
      BY <3>1, <3>2, <3>4 DEF Good
    <3> QED
      BY <2>1, <2>2, <2>3, <2>5, <3>5, WriteStep
  <2> QED
    BY <1>2, <2>4, <2>5 DEF WriteAutoLast, SetAutoReturns
<1> QED
  BY <1>1, <1>2

LEMMA ResetStep == ASSUME Inv, NEW p \in Proc, Reset(p) PROVE Inv'
<1> DEFINE i     == session[p].arg
           k     == ConfigKeys[i]
           wiped == Wipes
<1>1. session[p] \in Session /\ i \in 1..7 /\ k \in Key
  BY KeyFacts DEF Reset, At, Inv, Good
<1>2. /\ IF wiped THEN Write(k, Empty) ELSE UNCHANGED user
      /\ refused' = (refused /\ ~(wiped /\ k = "AutoCheck"))
      /\ promise' = NoValue \/ promise' = promise
      /\ \/ \E ret \in {-1, 0} : End(p, ret)
         \/ i # 7 /\ Become(p, [session[p] EXCEPT !.arg = i + 1])
      /\ UNCHANGED <<env, asked, lastAuto>>
      /\ session[p].pc = "reset"
  BY KeyFacts DEF Reset, At
<1>3. session' \in [Proc -> Session] /\ \A q \in Proc : Good(session'[q], asked)
  <2>1. ASSUME NEW r, Become(p, r), Good(r, asked)
        PROVE  session' \in [Proc -> Session] /\ \A q \in Proc : Good(session'[q], asked)
    BY <2>1, BecomeType DEF Inv, TypeOK, Good
  <2>2. CASE \E ret \in {-1, 0} : End(p, ret)
    <3>1. PICK ret \in {-1, 0} : End(p, ret)
      BY <2>2
    <3>2. ret \in -1..3
      OBVIOUS
    <3> DEFINE e == [NoSession EXCEPT !.ret = ret, !.launched = session[p].launched]
    <3>3. Good(e, asked)
      BY <3>2, EndGood, Zenon
    <3>4. Become(p, e)
      BY <3>1 DEF End
    <3> HIDE DEF e
    <3> QED
      BY <2>1, <3>3, <3>4
  <2>3. CASE i # 7 /\ Become(p, [session[p] EXCEPT !.arg = i + 1])
    <3>1. Good([session[p] EXCEPT !.arg = i + 1], asked)
      BY <1>1, <1>2, <2>3 DEF Good, OnOffer, Session, Pc
    <3> QED
      BY <2>1, <2>3, <3>1
  <2> QED
    BY <1>2, <2>2, <2>3
<1> HIDE DEF i, k, wiped
<1>4. /\ user' \in [Key -> Value]
      /\ \/ user' = user
         \/ wiped /\ user'[k] = Empty /\ \A j \in Key : j # k => user'[j] = user[j]
  BY <1>1, <1>2, ValueFacts, WriteType DEF Inv, TypeOK
<1>5. TypeOK'
  <2>1. promise' \in PromiseType /\ refused' \in BOOLEAN
    BY <1>2, ValueFacts
  <2> QED
    BY <1>2, <1>3, <1>4, <2>1 DEF Inv, TypeOK, env, PromiseType
<1>6. RefusalStored'
  BY <1>2, <1>4 DEF Inv, RefusalStored, Key
<1>7. SkipStored'
  BY <1>2, <1>4, ValueFacts DEF Inv, SkipStored, Key
<1> QED
  BY <1>2, <1>3, <1>5, <1>6, <1>7 DEF Inv

LEMMA PromptSteps ==
  ASSUME Inv, NEW p \in Proc,
         PromptAuto(p) \/ PromptOnce(p) \/ PromptNo(p) \/ PromptCancel(p)
  PROVE  Inv'
<1>0. session[p] \in Session /\ UNCHANGED <<env, user, history>>
  BY DEF Inv, Good, PromptAuto, PromptOnce, PromptNo, PromptCancel
<1>1. CASE PromptAuto(p) \/ PromptNo(p)
  <2>1. PICK on \in {0, 1}, t \in {"avail", "idle"} : CallSetAuto(p, on, t)
    BY <1>1 DEF PromptAuto, PromptNo
  <2> DEFINE r == [session[p] EXCEPT !.pc = "auto.check", !.arg = on, !.then = t]
  <2>2. /\ "auto.check" \in Pc /\ on \in Int /\ t \in {"idle", "avail", "install"}
        /\ 0 \in -1..3
    BY DEF Pc
  <2>3. r \in Session
    BY <1>0, <2>2, Updates, Zenon
  <2>4. r.pc = "auto.check" /\ r.then = t
    BY <1>0 DEF Session
  <2>5. Become(p, r)
    BY <2>1 DEF CallSetAuto
  <2> HIDE DEF r
  <2>6. Good(r, asked)
    BY <2>3, <2>4 DEF Good, OnOffer
  <2> QED
    BY <1>0, <2>5, <2>6, QuietStep
<1>2. CASE PromptOnce(p)
  <2>1. Good([session[p] EXCEPT !.pc = "avail"], asked)
    BY <1>0 DEF Good, OnOffer, Session, Pc
  <2> QED
    BY <1>0, <1>2, <2>1, QuietStep DEF PromptOnce, Goto
<1>3. CASE PromptCancel(p)
  BY <1>3, EndStep DEF PromptCancel
<1> QED
  BY <1>1, <1>2, <1>3

LEMMA CheckSteps ==
  ASSUME Inv, NEW p \in Proc,
         CheckNewer(p) \/ CheckUptodate(p) \/ CheckFails(p)
  PROVE  Inv'
<1>0. session[p] \in Session /\ feed \in Version
  BY DEF Inv, Good, TypeOK
<1>1. CASE CheckNewer(p)
  <2> DEFINE r == [session[p] EXCEPT !.pc = "skip.version", !.offered = feed]
  <2>1. Good(r, asked)
    BY <1>0 DEF Good, OnOffer, Session, Pc
  <2>2. Become(p, r) /\ UNCHANGED <<env, user, history>>
    BY <1>1 DEF CheckNewer
  <2> HIDE DEF r
  <2> QED
    BY <2>1, <2>2, QuietStep
<1>2. CASE CheckUptodate(p)
  <2> DEFINE r == [session[p] EXCEPT !.pc = "report", !.offered = feed, !.ret = 1]
  <2>1. Good(r, asked)
    <3>0. "report" \in Pc /\ 0 \in Int /\ 1 \in Int /\ 1 \in -1..3 /\ "idle" \in {"idle", "avail", "install"}
      BY DEF Pc
    <3>1. r \in Session
      BY <1>0, <3>0, Updates, Zenon
    <3>2. r.pc = "report"
      BY <1>0 DEF Session
    <3> HIDE DEF r
    <3> QED
      BY <3>1, <3>2 DEF Good, OnOffer
  <2>2. Become(p, r) /\ UNCHANGED <<env, user, history>>
    BY <1>2 DEF CheckUptodate
  <2> HIDE DEF r
  <2> QED
    BY <2>1, <2>2, QuietStep
<1>3. CASE CheckFails(p)
  <2> DEFINE r(e) == [session[p] EXCEPT !.pc = "report", !.lastError = e]
  <2>1. \A e \in BOOLEAN : Good(r(e), asked)
    BY <1>0 DEF Good, OnOffer, Session, Pc
  <2>2. PICK e \in BOOLEAN : Become(p, r(e)) /\ UNCHANGED <<env, user, history>>
    BY <1>3 DEF CheckFails
  <2> HIDE DEF r
  <2> QED
    BY <2>1, <2>2, QuietStep
<1> QED
  BY <1>1, <1>2, <1>3

(* IsSkipped goes on to the install dialog or to the report. *)
LEMMA AfterSkipGood ==
  ASSUME Inv, NEW p \in Proc, NEW skipped \in BOOLEAN, AfterSkip(p, skipped),
         OnOffer(session[p])
  PROVE  \E r : Become(p, r) /\ Good(r, asked)
<1> DEFINE r(l) == [session[p] EXCEPT !.ret = 3, !.pc = l]
<1>1. \A l \in {"install", "report"} : Good(r(l), asked)
  <2> TAKE l \in {"install", "report"}
  <2>1. session[p] \in Session /\ session[p].offered \in Version
    BY DEF Inv, Good
  <2>2. r(l) \in Session
    <3>1. l \in Pc /\ 3 \in -1..3 /\ 0 \in Int /\ "idle" \in {"idle", "avail", "install"}
      BY DEF Pc
    <3> QED
      BY <2>1, <3>1, Updates, Zenon
  <2>3. r(l).pc = l /\ r(l).offered = session[p].offered
    BY <2>1 DEF Session
  <2> HIDE DEF r
  <2> QED
    BY <2>1, <2>2, <2>3 DEF Good, OnOffer
<1>2. \E l \in {"install", "report"} : Become(p, r(l))
  BY DEF AfterSkip
<1> HIDE DEF r
<1> QED
  BY <1>1, <1>2

(* SkipVersion is the user's: no machine's hive holds one. *)
LEMMA SkipVersionAsked ==
  ASSUME Inv, Present("SkipVersion")
  PROVE  Stored("SkipVersion") \in asked
BY MachineHive, SentinelAssumption DEF Present, Stored, Inv, SkipStored

LEMMA IsSkippedSteps ==
  ASSUME Inv, NEW p \in Proc, IsSkippedVersion(p) \/ IsSkippedTime(p)
  PROVE  Inv'
<1>0. OnOffer(session[p]) /\ session[p] \in Session
  BY DEF OnOffer, IsSkippedVersion, IsSkippedTime, At, Inv, Good
<1>1. UNCHANGED <<env, user, asked, refused, lastAuto>> /\ promise' \in PromiseType
  BY ValueFacts DEF IsSkippedVersion, IsSkippedTime, history
<1>2. ASSUME NEW r, Become(p, r), Good(r, asked)
      PROVE  Inv'
  BY <1>1, <1>2, LocalStep DEF Inv, TypeOK
<1>3. CASE \E skipped \in BOOLEAN : AfterSkip(p, skipped)
  BY <1>0, <1>2, <1>3, AfterSkipGood
<1>4. CASE Goto(p, "unskip.version")
  <2>1. "unskip.version" \in Pc \ {"reset", "skip.time", "skipreq.version"}
    BY DEF Pc
  <2> QED
    BY <1>0, <1>2, <1>4, <2>1, GotoGood DEF Goto
<1>5. CASE Present("SkipVersion") /\ Stored("SkipVersion") = session[p].offered
           /\ Goto(p, "skip.time")
  <2>1. session[p].offered \in asked
    BY <1>5, SkipVersionAsked
  <2>2. Good([session[p] EXCEPT !.pc = "skip.time"], asked)
    BY <1>0, <2>1 DEF Inv, TypeOK, Good, OnOffer, Session, Pc
  <2> QED
    BY <1>2, <1>5, <2>2 DEF Goto
<1> QED
  BY <1>3, <1>4, <1>5 DEF IsSkippedVersion, IsSkippedTime

(* The dialog ends: AutoOnce is recorded or the call reports. *)
LEMMA EndsDialogGoto ==
  ASSUME NEW p \in Proc, NEW answer \in {-1, 0, 1}, EndsDialog(p, answer)
  PROVE  Goto(p, "setonce") \/ Goto(p, "report")
BY DEF EndsDialog

LEMMA Places ==
  \A l \in {"unskip.time", "later.last", "later.version", "later.time", "skipreq.time",
            "install", "report", "setonce"} :
    l \in Pc \ {"reset", "skip.time", "skipreq.version"}
BY DEF Pc

LEMMA UnskipSteps ==
  ASSUME Inv, NEW p \in Proc, UnskipVersion(p) \/ UnskipTime(p)
  PROVE  Inv'
<1>0. OnOffer(session[p]) /\ UNCHANGED <<env, asked, refused, lastAuto>>
      /\ promise' \in PromiseType
  BY ValueFacts DEF OnOffer, UnskipVersion, UnskipTime, At, history
<1>1. CASE UnskipVersion(p)
  BY <1>0, <1>1, ValueFacts, Places, WriteGoto DEF UnskipVersion, Key
<1>2. CASE UnskipTime(p)
  <2>1. PICK r : Become(p, r) /\ Good(r, asked)
    BY <1>0, <1>2, AfterSkipGood DEF UnskipTime
  <2>2. Write("SkipTime", 0) /\ "SkipTime" \in Key \ {"AutoCheck"}
    BY <1>2 DEF UnskipTime, Key
  <2> QED
    BY <1>0, <2>1, <2>2, ValueFacts, WriteStep
<1> QED
  BY <1>1, <1>2

LEMMA DialogSteps ==
  ASSUME Inv, NEW p \in Proc,
         \/ DialogAuto(p) \/ DialogCancel(p) \/ DialogClose(p)
         \/ InstallLaunches(p) \/ InstallFails(p) \/ InstallThrows(p)
  PROVE  Inv'
<1>0. /\ session[p] \in Session /\ OnOffer(session[p]) /\ session[p].offered \in Version
      /\ UNCHANGED <<env, user, history>>
  BY DEF DialogAuto, DialogCancel, DialogClose, InstallLaunches, InstallFails, InstallThrows,
         At, Inv, Good, OnOffer
<1>1. CASE DialogAuto(p)
  <2>1. PICK on \in 0..1 : CallSetAuto(p, on, "install")
    BY <1>1 DEF DialogAuto
  <2> DEFINE r == [session[p] EXCEPT !.pc = "auto.check", !.arg = on, !.then = "install"]
  <2>2. /\ "auto.check" \in Pc /\ on \in Int /\ 0 \in -1..3
        /\ "install" \in {"idle", "avail", "install"}
    BY DEF Pc
  <2>3. r \in Session
    BY <1>0, <2>2, Updates, Zenon
  <2>4. r.pc = "auto.check" /\ r.offered = session[p].offered
    BY <1>0 DEF Session
  <2>5. Become(p, r)
    BY <2>1 DEF CallSetAuto
  <2> HIDE DEF r
  <2>6. Good(r, asked)
    BY <1>0, <2>3, <2>4 DEF Good
  <2> QED
    BY <1>0, <2>5, <2>6, QuietStep
<1>2. CASE DialogCancel(p) \/ DialogClose(p)
  <2>1. Goto(p, "setonce") \/ Goto(p, "report")
    BY <1>2, EndsDialogGoto DEF DialogCancel, DialogClose
  <2> QED
    BY <1>0, <2>1, Places, GotoStep
<1>3. CASE InstallLaunches(p)
  <2> DEFINE r == [session[p] EXCEPT !.pc = "setonce", !.launched = TRUE]
  <2>1. Good(r, asked)
    BY <1>0 DEF Good, OnOffer, Session, Pc
  <2>2. Become(p, r)
    BY <1>3 DEF InstallLaunches
  <2> HIDE DEF r
  <2> QED
    BY <1>0, <2>1, <2>2, QuietStep
<1>4. CASE InstallFails(p)
  <2> DEFINE r(e, l) == [session[p] EXCEPT !.lastError = e, !.pc = l]
  <2>1. \A e \in BOOLEAN, l \in {"report", "install"} : Good(r(e, l), asked)
    BY <1>0 DEF Good, OnOffer, Session, Pc
  <2>2. \E e \in BOOLEAN, l \in {"report", "install"} : Become(p, r(e, l))
    <3>1. PICK error \in BOOLEAN :
            Become(p, r(session[p].lastError \/ error,
                        IF host.console THEN "report" ELSE "install"))
      BY <1>4 DEF InstallFails
    <3>2. session[p].lastError \/ error \in BOOLEAN
      BY <1>0 DEF Session
    <3> HIDE DEF r
    <3> QED
      BY <3>1, <3>2
  <2> HIDE DEF r
  <2> QED
    BY <1>0, <2>1, <2>2, QuietStep
<1>5. CASE InstallThrows(p)
  <2>1. -1 \in -1..3
    OBVIOUS
  <2>2. End(p, -1)
    BY <1>5 DEF InstallThrows
  <2> QED
    BY <1>0, <2>1, <2>2, EndStep, Zenon
<1> QED
  BY <1>1, <1>2, <1>3, <1>4, <1>5

LEMMA LaterSteps ==
  ASSUME Inv, NEW p \in Proc,
         ChooseLater(p) \/ LaterLast(p) \/ LaterVersion(p) \/ LaterTime(p)
  PROVE  Inv'
<1>0. OnOffer(session[p]) /\ UNCHANGED <<env, asked, refused, lastAuto>>
      /\ promise' \in PromiseType
  BY ValueFacts DEF OnOffer, ChooseLater, LaterLast, LaterVersion, LaterTime, At, history
<1>1. CASE ChooseLater(p)
  <2>1. Good([session[p] EXCEPT !.pc = "later.last"], asked)
    BY <1>0, Places, GotoGood
  <2> QED
    BY <1>0, <1>1, <2>1, LocalStep DEF ChooseLater, Goto, Inv, TypeOK
<1>2. CASE LaterLast(p)
  BY <1>0, <1>2, ValueFacts, Places, WriteGoto DEF LaterLast, Key
<1>3. CASE LaterVersion(p)
  BY <1>0, <1>3, ValueFacts, Places, WriteGoto DEF LaterVersion, Key
<1>4. CASE LaterTime(p)
  <2>1. Goto(p, "setonce") \/ Goto(p, "report")
    BY <1>4, EndsDialogGoto DEF LaterTime, PutOffAnswer
  <2>2. Write("SkipTime", 0) /\ "SkipTime" \in Key \ {"AutoCheck"}
    BY <1>4 DEF LaterTime, Key
  <2> QED
    BY <1>0, <2>1, <2>2, ValueFacts, Places, WriteGoto
<1> QED
  BY <1>1, <1>2, <1>3, <1>4

LEMMA SkipReqSteps ==
  ASSUME Inv, NEW p \in Proc, ChooseSkip(p) \/ SkipReqVersion(p) \/ SkipReqTime(p)
  PROVE  Inv'
<1>0. session[p] \in Session /\ OnOffer(session[p]) /\ session[p].offered \in Version
  BY DEF OnOffer, ChooseSkip, SkipReqVersion, SkipReqTime, At, Inv, Good
<1>1. CASE ChooseSkip(p)
  <2>1. /\ Become(p, [session[p] EXCEPT !.pc = "skipreq.version"])
        /\ UNCHANGED <<env, user, refused>> /\ promise' \in PromiseType /\ lastAuto' \in Nat
        /\ asked' = asked \cup {session[p].offered}
        /\ asked' \subseteq Version
    BY <1>0, <1>1, ValueFacts DEF ChooseSkip, Goto, Inv, TypeOK
  <2>2. Good([session[p] EXCEPT !.pc = "skipreq.version"], asked')
    BY <1>0, <2>1 DEF Good, Session, Pc
  <2> QED
    BY <2>1, <2>2, LocalStep
<1>2. CASE SkipReqVersion(p)
  <2>1. session[p].offered \in asked /\ session[p].offered \in Value
    BY <1>0, <1>2, ValueFacts DEF SkipReqVersion, At, Inv, Good
  <2>2. promise' \in PromiseType
    BY <1>2, ValueFacts DEF SkipReqVersion, history
  <2>3. Write("SkipVersion", session[p].offered) /\ "SkipVersion" \in Key \ {"AutoCheck"}
    BY <1>2 DEF SkipReqVersion, Key
  <2>4. Goto(p, "skipreq.time") /\ UNCHANGED <<env, asked, refused, lastAuto>>
    BY <1>2 DEF SkipReqVersion, history
  <2> QED
    BY <1>0, <2>1, <2>2, <2>3, <2>4, Places, WriteGoto
<1>3. CASE SkipReqTime(p)
  <2>1. Goto(p, "setonce") \/ Goto(p, "report")
    BY <1>3, EndsDialogGoto DEF SkipReqTime, PutOffAnswer
  <2>2. /\ Write("SkipTime", now) /\ "SkipTime" \in Key \ {"AutoCheck"}
        /\ UNCHANGED <<env, asked, refused, lastAuto>>
    BY <1>3 DEF SkipReqTime, Key
  <2>3. promise' \in PromiseType
    BY <1>0, <1>3 DEF SkipReqTime, PromiseType, Inv, TypeOK
  <2> QED
    BY <1>0, <2>1, <2>2, <2>3, ValueFacts, Places, WriteGoto
<1> QED
  BY <1>1, <1>2, <1>3

LEMMA FinalSteps ==
  ASSUME Inv, NEW p \in Proc, SetOnce(p) \/ Report(p)
  PROVE  Inv'
<1>0. session[p] \in Session
  BY DEF Inv, Good
<1>1. CASE SetOnce(p)
  <2> DEFINE r == [session[p] EXCEPT !.pc = "report", !.ret = 2]
  <2>1. Good(r, asked)
    <3>1. "report" \in Pc /\ 2 \in -1..3 /\ 0 \in Int /\ "idle" \in {"idle", "avail", "install"}
      BY DEF Pc
    <3>2. r \in Session
      BY <1>0, <3>1, Updates, Zenon
    <3>3. r.pc = "report"
      BY <1>0 DEF Session
    <3> HIDE DEF r
    <3> QED
      BY <3>2, <3>3 DEF Good, OnOffer
  <2>2. Become(p, r) /\ UNCHANGED <<env, asked, refused, lastAuto, promise>>
    BY <1>1 DEF SetOnce, history
  <2>3. Write("AutoOnce", 1) /\ "AutoOnce" \in Key \ {"AutoCheck"} /\ promise' \in PromiseType
    BY <1>1, <2>2, ValueFacts DEF SetOnce, Key
  <2> HIDE DEF r
  <2> QED
    BY <2>1, <2>2, <2>3, ValueFacts, WriteStep
<1>2. CASE Report(p)
  <2>1. (IF session[p].lastError THEN -1 ELSE session[p].ret) \in -1..3
    BY <1>0 DEF Session
  <2>2. PICK ret : ret = IF session[p].lastError THEN -1 ELSE session[p].ret
    OBVIOUS
  <2>3. End(p, ret) /\ UNCHANGED <<env, user, history>>
    BY <1>2, <2>2 DEF Report
  <2> QED
    BY <2>1, <2>2, <2>3, EndStep
<1> QED
  BY <1>1, <1>2

LEMMA FaultSteps ==
  ASSUME Inv, NEW p \in Proc, RegistryThrows(p) \/ Crash(p)
  PROVE  Inv'
<1>1. faults' \in 0..MaxFaults /\ UNCHANGED <<host, user, now, feed, history>>
  BY BoundAssumption DEF RegistryThrows, Crash, Inv, TypeOK
<1>2. \E r : Become(p, r) /\ Good(r, asked)
  <2>1. CASE RegistryThrows(p)
    <3> DEFINE e == [NoSession EXCEPT !.ret = -1, !.launched = session[p].launched]
    <3>1. -1 \in -1..3
      OBVIOUS
    <3>2. Good(e, asked)
      BY <3>1, EndGood, Zenon
    <3>3. Become(p, e)
      BY <2>1 DEF RegistryThrows, End
    <3> HIDE DEF e
    <3> QED
      BY <3>2, <3>3
  <2>2. CASE Crash(p)
    BY <2>2, NoSessionFacts DEF Crash
  <2> QED
    BY <2>1, <2>2
<1>3. session' \in [Proc -> Session] /\ \A q \in Proc : Good(session'[q], asked)
  <2>1. PICK r : Become(p, r) /\ Good(r, asked)
    BY <1>2
  <2> QED
    BY <2>1, BecomeType DEF Inv, TypeOK, Good
<1> QED
  BY <1>1, <1>3 DEF Inv, TypeOK, RefusalStored, SkipStored, history

LEMMA EnvironmentSteps ==
  ASSUME Inv, Tick \/ Publish
  PROVE  Inv'
BY DEF Inv, TypeOK, Tick, Publish, RefusalStored, SkipStored, history

(* The invariant is inductive. *)
THEOREM NextInv == Inv /\ [Next]_vars => Inv'
<1> SUFFICES ASSUME Inv, [Next]_vars PROVE Inv'
  OBVIOUS
<1>1. ASSUME NEW p \in Proc, Start(p) \/ Program(p) \/ Choice(p) \/ RegistryThrows(p) \/ Crash(p)
      PROVE  Inv'
  <2>1. CASE Start(p)
    BY <2>1, StartStep
  <2>2. CASE Program(p)
    BY <2>2, ResetStep, AutoSteps, StatusSteps, CheckSteps, IsSkippedSteps, UnskipSteps,
       LaterSteps, SkipReqSteps, FinalSteps DEF Program
  <2>3. CASE Choice(p)
    BY <2>3, PromptSteps, DialogSteps, LaterSteps, SkipReqSteps DEF Choice
  <2>4. CASE RegistryThrows(p) \/ Crash(p)
    BY <2>4, FaultSteps
  <2> QED
    BY <1>1, <2>1, <2>2, <2>3, <2>4
<1>2. CASE UNCHANGED vars
  BY <1>2 DEF Inv, TypeOK, vars, RefusalStored, SkipStored
<1> QED
  BY <1>1, <1>2, EnvironmentSteps DEF Next

-----------------------------------------------------------------------------
(* What the specification promises. *)

LEMMA InvAlways == Spec => []Inv
BY InitInv, NextInv, PTL DEF Spec

(* Type correctness: every reachable state keeps every variable in its       *)
(* domain; in particular every result reported is one of -1..3.              *)
THEOREM TypeCorrect == Spec => []TypeOK
<1>1. Inv => TypeOK
  BY DEF Inv
<1> QED
  BY <1>1, InvAlways, PTL

(* A step of one copy's call leaves the other copies' calls alone. *)
OthersWait(q) == \A p \in Proc : p # q => session'[p] = session[p]

LEMMA BecomeWait ==
  ASSUME NEW q \in Proc, session \in [Proc -> Session]
  PROVE  /\ \A r : Become(q, r) => OthersWait(q)
         /\ \A l : Goto(q, l) => OthersWait(q)
         /\ \A ret : End(q, ret) => OthersWait(q)
         /\ \A answer : EndsDialog(q, answer) => OthersWait(q)
         /\ \A skipped : AfterSkip(q, skipped) => OthersWait(q)
         /\ SetAutoReturns(q) => OthersWait(q)
         /\ \A on, then : CallSetAuto(q, on, then) => OthersWait(q)
<1>1. ASSUME NEW r, Become(q, r) PROVE OthersWait(q)
  BY <1>1 DEF Become, OthersWait
<1> QED
  BY <1>1 DEF Goto, End, EndsDialog, AfterSkip, SetAutoReturns, CallSetAuto

LEMMA OneCopyMoves ==
  ASSUME NEW q \in Proc, session \in [Proc -> Session],
         Start(q) \/ Program(q) \/ Choice(q) \/ RegistryThrows(q) \/ Crash(q)
  PROVE  OthersWait(q)
<1>1. CASE Start(q) \/ RegistryThrows(q) \/ Crash(q)
  BY <1>1, BecomeWait DEF Start, RegistryThrows, Crash
<1>2. CASE Reset(q) \/ WriteAutoCheck(q) \/ WriteAutoLast(q) \/ StatusInterval(q)
           \/ StatusStamp(q) \/ StatusCheck(q) \/ ReadOnce(q)
  BY <1>2, BecomeWait DEF Reset, WriteAutoCheck, WriteAutoLast, StatusInterval,
     StatusStamp, StatusCheck, ReadOnce
<1>3. CASE CheckNewer(q) \/ CheckUptodate(q) \/ CheckFails(q)
           \/ IsSkippedVersion(q) \/ IsSkippedTime(q) \/ UnskipVersion(q) \/ UnskipTime(q)
  BY <1>3, BecomeWait DEF CheckNewer, CheckUptodate, CheckFails,
     IsSkippedVersion, IsSkippedTime, UnskipVersion, UnskipTime
<1>4. CASE LaterLast(q) \/ LaterVersion(q) \/ LaterTime(q) \/ SkipReqVersion(q)
           \/ SkipReqTime(q) \/ SetOnce(q) \/ Report(q)
  BY <1>4, BecomeWait DEF LaterLast, LaterVersion, LaterTime, SkipReqVersion,
     SkipReqTime, SetOnce, Report
<1>5. CASE Choice(q)
  BY <1>5, BecomeWait DEF Choice, PromptAuto, PromptOnce, PromptNo, PromptCancel,
     DialogAuto, DialogCancel, DialogClose, InstallLaunches, InstallFails, InstallThrows,
     ChooseLater, ChooseSkip
<1> QED
  BY <1>1, <1>2, <1>3, <1>4, <1>5 DEF Program

(* Only Status decides on a silent check. *)
LEMMA SilentCheckByStatus ==
  ASSUME Inv, Next, NEW p \in Proc, SilentCheck(p)
  PROVE  StatusCheck(p)
<1>0. session[p].pc = "status.check" /\ session'[p].pc = "avail"
      /\ session \in [Proc -> Session]
  BY DEF SilentCheck, At, Inv, TypeOK
<1>1. PICK q \in Proc :
        Start(q) \/ Program(q) \/ Choice(q) \/ RegistryThrows(q) \/ Crash(q)
  BY <1>0 DEF Next, Tick, Publish
<1>2. q = p
  BY <1>0, <1>1, OneCopyMoves DEF OthersWait
<1>3. ~ Start(p) /\ ~ Choice(p)
  BY <1>0 DEF Start, At, Choice, PromptAuto, PromptOnce, PromptNo, PromptCancel,
     DialogAuto, DialogCancel, DialogClose, InstallLaunches, InstallFails, InstallThrows,
     ChooseLater, ChooseSkip
<1>4. ~ RegistryThrows(p) /\ ~ Crash(p)
  BY <1>0, NoSessionFacts DEF RegistryThrows, Crash, End, Become, NoSession
<1> QED
  BY <1>0, <1>1, <1>2, <1>3, <1>4 DEF Program, At, Reset, WriteAutoCheck, WriteAutoLast,
     StatusInterval, StatusStamp, ReadOnce, CheckNewer, CheckUptodate, CheckFails, IsSkippedVersion, IsSkippedTime, UnskipVersion, UnskipTime, LaterLast,
     LaterVersion, LaterTime, SkipReqVersion, SkipReqTime, SetOnce, Report

(* No copy ever checks silently after a refusal (Status and SetAuto): a      *)
(* refusal is in the user's hive, which the machine's cannot override, until *)
(* the moment it is withdrawn.                                               *)
THEOREM RefusalIsKept == Spec => RefusalSticks
<1>1. Inv /\ [Next]_vars => [\A p \in Proc : SilentCheck(p) => ~refused]_vars
  <2> SUFFICES ASSUME Inv, Next, NEW p \in Proc, SilentCheck(p), refused PROVE FALSE
    BY DEF vars
  <2>1. user["AutoCheck"] = 0 /\ session[p] \in Session /\ session \in [Proc -> Session]
    BY DEF Inv, RefusalStored, Good, TypeOK
  <2>2. Read("AutoCheck", 0) # 1
    BY <2>1, SentinelAssumption DEF Read, Stored, Present
  <2>3. StatusCheck(p) /\ session'[p].pc = "avail"
    BY SilentCheckByStatus DEF SilentCheck
  <2> DEFINE r(l) == [session[p] EXCEPT !.pc = l, !.began = 0]
  <2>4. End(p, 0) \/ \E l \in {"prompt", "once"} : Become(p, r(l))
    BY <2>2, <2>3 DEF StatusCheck
  <2>5. session'[p].pc # "avail"
    <3>1. CASE End(p, 0)
      <4>1. NoSession \in Session /\ NoSession.pc = "idle"
        BY NoSessionFacts DEF Good
      <4> QED
        BY <2>1, <3>1, <4>1 DEF End, Become, Session
    <3>2. CASE \E l \in {"prompt", "once"} : Become(p, r(l))
      <4>1. PICK l \in {"prompt", "once"} : Become(p, r(l))
        BY <3>2
      <4>2. session'[p] = r(l)
        BY <2>1, <4>1 DEF Become
      <4>3. r(l).pc = l
        BY <2>1 DEF Session
      <4> QED
        BY <4>2, <4>3
    <3> QED
      BY <2>4, <3>1, <3>2
  <2> QED
    BY <2>3, <2>5
<1> QED
  BY <1>1, InvAlways, PTL DEF Spec, RefusalSticks

(* IsSkipped never invents a skip-request: what any copy withholds, some     *)
(* user of some copy asked to skip, whatever the copies did to the two       *)
(* values of the request and wherever they died.                             *)
THEOREM SkipIsAsked == Spec => SkipWasAsked
<1>1. Inv => [\A p \in Proc : Withhold(p) => session[p].offered \in asked]_vars
  BY DEF Inv, Good, Withhold, At
<1> QED
  BY <1>1, InvAlways, PTL DEF SkipWasAsked

-----------------------------------------------------------------------------
(* The console: a call that has launched an installer goes straight to its   *)
(* end, and nothing else says "installed".                                   *)

Unlaunched(r) ==
  /\ ~r.launched /\ r.ret # 2 /\ r.pc # "setonce"
  /\ r.lastError => r.pc \in {"report", "idle"}

Launched(r) ==
  /\ r.launched
  /\ \/ r.pc = "setonce" /\ ~r.lastError
     \/ r.pc = "report" /\ r.ret = 2 /\ ~r.lastError
     \/ r.pc = "idle" /\ (faults = 0 => r.ret = 2)

Tells == host.console => \A p \in Proc : Unlaunched(session[p]) \/ Launched(session[p])

(* What the helpers do to the three fields that count. *)
LEMMA Effects ==
  ASSUME NEW p \in Proc, session \in [Proc -> Session]
  PROVE  /\ \A l : Goto(p, l) =>
              /\ session'[p].pc = l /\ session'[p].ret = session[p].ret
              /\ session'[p].launched = session[p].launched
              /\ session'[p].lastError = session[p].lastError
         /\ \A ret : End(p, ret) =>
              /\ session'[p].pc = "idle" /\ session'[p].ret = ret
              /\ session'[p].launched = session[p].launched
              /\ ~session'[p].lastError
<1>1. session[p] \in Session
  OBVIOUS
<1>2. ASSUME NEW l, Goto(p, l)
      PROVE  /\ session'[p].pc = l /\ session'[p].ret = session[p].ret
             /\ session'[p].launched = session[p].launched
             /\ session'[p].lastError = session[p].lastError
  BY <1>1, <1>2 DEF Goto, Become, Session
<1>3. ASSUME NEW ret, End(p, ret)
      PROVE  /\ session'[p].pc = "idle" /\ session'[p].ret = ret
             /\ session'[p].launched = session[p].launched
             /\ ~session'[p].lastError
  BY <1>1, <1>3 DEF End, Become, NoSession
<1> QED
  BY <1>2, <1>3

(* A step after which the call is as much launched as before. *)
Keeps(p) ==
  /\ session[p].pc \notin {"setonce", "report", "idle"}
  /\ session'[p].launched = session[p].launched
  /\ session'[p].ret \in {session[p].ret, -1, 0, 1, 3}
  /\ session'[p].pc # "setonce"
  /\ session'[p].lastError => session[p].lastError \/ session'[p].pc = "report"

LEMMA BecomeKeeps ==
  ASSUME NEW p \in Proc, session \in [Proc -> Session], session[p].pc \notin {"setonce", "report", "idle"}
  PROVE  /\ \A l : Goto(p, l) /\ l # "setonce" => Keeps(p)
         /\ \A ret \in {-1, 0, 1, 3} : End(p, ret) => Keeps(p)
         /\ \A on, then : CallSetAuto(p, on, then) => Keeps(p)
         /\ \A skipped : AfterSkip(p, skipped) => Keeps(p)
         /\ session[p].then \in {"idle", "avail", "install"} /\ SetAutoReturns(p) => Keeps(p)
<1>0. session[p] \in Session
  OBVIOUS
<1>1. ASSUME NEW l, Goto(p, l), l # "setonce" PROVE Keeps(p)
  BY <1>1, Effects DEF Keeps
<1>2. ASSUME NEW ret \in {-1, 0, 1, 3}, End(p, ret) PROVE Keeps(p)
  BY <1>2, Effects DEF Keeps
<1>3. ASSUME NEW on, NEW then, CallSetAuto(p, on, then) PROVE Keeps(p)
  BY <1>0, <1>3 DEF CallSetAuto, Become, Session, Keeps
<1>4. ASSUME NEW skipped, AfterSkip(p, skipped) PROVE Keeps(p)
  BY <1>0, <1>4 DEF AfterSkip, Become, Session, Keeps
<1>5. ASSUME session[p].then \in {"idle", "avail", "install"}, SetAutoReturns(p) PROVE Keeps(p)
  <2>1. CASE session[p].then = "idle"
    BY <1>2, <1>5, <2>1 DEF SetAutoReturns
  <2>2. CASE session[p].then # "idle"
    <3>1. Become(p, [session[p] EXCEPT !.pc = session[p].then, !.arg = 0, !.then = "idle"])
      BY <1>5, <2>2 DEF SetAutoReturns
    <3>2. /\ session'[p].pc = session[p].then /\ session'[p].ret = session[p].ret
          /\ session'[p].launched = session[p].launched
          /\ session'[p].lastError = session[p].lastError
      BY <1>0, <3>1 DEF Become, Session
    <3> QED
      BY <1>5, <3>2 DEF Keeps
  <2> QED
    BY <2>1, <2>2
<1> QED
  BY <1>1, <1>2, <1>3, <1>4, <1>5

(* Nearly every step of a call on the console is such a step. *)
LEMMA AskingKeeps ==
  ASSUME NEW p \in Proc, session \in [Proc -> Session], host.console,
         Reset(p) \/ WriteAutoCheck(p) \/ WriteAutoLast(p) \/ StatusInterval(p)
         \/ StatusStamp(p) \/ StatusCheck(p) \/ ReadOnce(p) \/ PromptAuto(p)
         \/ PromptOnce(p) \/ PromptNo(p) \/ PromptCancel(p)
  PROVE  Keeps(p)
<1>0. session[p] \in Session
  OBVIOUS
<1>1. CASE Reset(p)
  <2>1. session[p].pc = "reset"
    BY <1>1 DEF Reset, At
  <2>2. End(p, -1) \/ End(p, 0) \/ Become(p, [session[p] EXCEPT !.arg = session[p].arg + 1])
    BY <1>1 DEF Reset
  <2>3. CASE Become(p, [session[p] EXCEPT !.arg = session[p].arg + 1])
    BY <1>0, <2>1, <2>3 DEF Become, Session, Keeps
  <2> QED
    BY <2>1, <2>2, <2>3, BecomeKeeps
<1>2. CASE WriteAutoCheck(p) \/ PromptOnce(p) \/ StatusStamp(p)
  BY <1>2, BecomeKeeps DEF WriteAutoCheck, PromptOnce, StatusStamp, At
<1>3. CASE WriteAutoLast(p)
  <2>1. session[p].then \in {"idle", "avail", "install"}
    BY <1>0 DEF Session
  <2> QED
    BY <1>3, <2>1, BecomeKeeps DEF WriteAutoLast, At
<1>4. CASE StatusInterval(p)
  <2>1. session[p].pc = "status.last"
    BY <1>4 DEF StatusInterval, At
  <2>2. End(p, 0) \/ \E l \in {"status.check", "status.stamp"} :
                      Become(p, [session[p] EXCEPT !.began = now, !.pc = l])
    BY <1>4 DEF StatusInterval
  <2>3. CASE \E l \in {"status.check", "status.stamp"} :
               Become(p, [session[p] EXCEPT !.began = now, !.pc = l])
    BY <1>0, <2>1, <2>3 DEF Become, Session, Keeps
  <2> QED
    BY <2>1, <2>2, <2>3, BecomeKeeps
<1>5. CASE StatusCheck(p)
  <2>1. session[p].pc = "status.check"
    BY <1>5 DEF StatusCheck, At
  <2>2. End(p, 0) \/ \E l \in {"avail", "prompt", "once"} :
                      Become(p, [session[p] EXCEPT !.pc = l, !.began = 0])
    BY <1>5 DEF StatusCheck
  <2>3. CASE \E l \in {"avail", "prompt", "once"} :
               Become(p, [session[p] EXCEPT !.pc = l, !.began = 0])
    BY <1>0, <2>1, <2>3 DEF Become, Session, Keeps
  <2> QED
    BY <2>1, <2>2, <2>3, BecomeKeeps
<1>6. CASE ReadOnce(p) \/ PromptAuto(p) \/ PromptNo(p) \/ PromptCancel(p)
  BY <1>6, BecomeKeeps DEF ReadOnce, PromptAuto, PromptNo, PromptCancel, At
<1> QED
  BY <1>1, <1>2, <1>3, <1>4, <1>5, <1>6

LEMMA OfferingKeeps ==
  ASSUME NEW p \in Proc, session \in [Proc -> Session], host.console,
         CheckNewer(p) \/ CheckUptodate(p) \/ CheckFails(p)
         \/ IsSkippedVersion(p) \/ IsSkippedTime(p) \/ UnskipVersion(p) \/ UnskipTime(p)
         \/ LaterLast(p) \/ LaterVersion(p) \/ LaterTime(p) \/ SkipReqVersion(p)
         \/ SkipReqTime(p) \/ DialogAuto(p) \/ DialogCancel(p) \/ DialogClose(p)
         \/ InstallFails(p) \/ InstallThrows(p) \/ ChooseLater(p) \/ ChooseSkip(p)
  PROVE  Keeps(p)
<1>0. session[p] \in Session
  OBVIOUS
<1>1. CASE CheckNewer(p) \/ CheckUptodate(p)
  <2>1. session[p].pc = "avail"
    BY <1>1 DEF CheckNewer, CheckUptodate, At
  <2>2. CASE Become(p, [session[p] EXCEPT !.pc = "skip.version", !.offered = feed])
    BY <1>0, <2>1, <2>2 DEF Become, Session, Keeps
  <2>3. CASE Become(p, [session[p] EXCEPT !.pc = "report", !.offered = feed, !.ret = 1])
    BY <1>0, <2>1, <2>3 DEF Become, Session, Keeps
  <2> QED
    BY <1>1, <2>2, <2>3 DEF CheckNewer, CheckUptodate
<1>2. CASE CheckFails(p)
  <2>1. PICK error \in BOOLEAN :
          Become(p, [session[p] EXCEPT !.pc = "report", !.lastError = error])
    BY <1>2 DEF CheckFails
  <2>2. session[p].pc = "avail"
    BY <1>2 DEF CheckFails, At
  <2> QED
    BY <1>0, <2>1, <2>2 DEF Become, Session, Keeps
<1>3. CASE IsSkippedVersion(p) \/ IsSkippedTime(p) \/ UnskipVersion(p) \/ UnskipTime(p)
  BY <1>3, BecomeKeeps DEF IsSkippedVersion, IsSkippedTime, UnskipVersion, UnskipTime, At
<1>4. CASE LaterLast(p) \/ LaterVersion(p) \/ SkipReqVersion(p) \/ ChooseLater(p) \/ ChooseSkip(p)
  BY <1>4, BecomeKeeps DEF LaterLast, LaterVersion, SkipReqVersion, ChooseLater, ChooseSkip, At
<1>5. CASE LaterTime(p) \/ SkipReqTime(p)
  BY <1>5, BecomeKeeps DEF LaterTime, SkipReqTime, At, PutOffAnswer, EndsDialog
<1>6. CASE DialogAuto(p) \/ DialogCancel(p) \/ DialogClose(p) \/ InstallThrows(p)
  BY <1>6, BecomeKeeps DEF DialogAuto, DialogCancel, DialogClose, InstallThrows, At, EndsDialog
<1>7. CASE InstallFails(p)
  <2>1. session[p].pc = "install"
    BY <1>7 DEF InstallFails, At
  <2>2. \E error \in BOOLEAN :
          Become(p, [session[p] EXCEPT !.lastError = @ \/ error, !.pc = "report"])
    BY <1>7 DEF InstallFails
  <2> QED
    BY <1>0, <2>1, <2>2 DEF Become, Session, Keeps
<1> QED
  BY <1>1, <1>2, <1>3, <1>4, <1>5, <1>6, <1>7

LEMMA KeepsTells ==
  ASSUME NEW p \in Proc, Keeps(p), Unlaunched(session[p]) \/ Launched(session[p])
  PROVE  Unlaunched(session'[p])
BY DEF Keeps, Unlaunched, Launched

(* The others begin a call, launch an installer, record it, report or fail. *)
LEMMA OtherSteps ==
  ASSUME NEW p \in Proc, session \in [Proc -> Session], faults \in Nat,
         Unlaunched(session[p]) \/ Launched(session[p]),
         Start(p) \/ InstallLaunches(p) \/ SetOnce(p) \/ Report(p) \/ RegistryThrows(p) \/ Crash(p)
  PROVE  Unlaunched(session'[p]) \/ Launched(session[p])'
<1>0. session[p] \in Session
  OBVIOUS
<1>1. CASE Start(p)
  <2>1. session'[p].launched = FALSE /\ session'[p].ret = 0 /\ session'[p].lastError = FALSE
    BY <1>1 DEF Start, Become, NoSession
  <2>2. \E m \in Mode : session'[p].pc = Entry(m)
    BY <1>1 DEF Start, Become, NoSession
  <2>3. \A m \in Mode : Entry(m) # "setonce"
    BY DEF Entry
  <2> QED
    BY <2>1, <2>2, <2>3 DEF Unlaunched
<1>2. CASE InstallLaunches(p)
  <2>1. session[p].pc = "install" /\ Become(p, [session[p] EXCEPT !.pc = "setonce", !.launched = TRUE])
    BY <1>2 DEF InstallLaunches, At
  <2>2. session'[p].pc = "setonce" /\ session'[p].launched
        /\ session'[p].lastError = session[p].lastError
    BY <1>0, <2>1 DEF Become, Session
  <2> QED
    BY <2>1, <2>2 DEF Unlaunched, Launched
<1>3. CASE SetOnce(p)
  <2>1. session[p].pc = "setonce" /\ Become(p, [session[p] EXCEPT !.pc = "report", !.ret = 2])
    BY <1>3 DEF SetOnce, At
  <2>2. /\ session'[p].pc = "report" /\ session'[p].ret = 2
        /\ session'[p].launched = session[p].launched
        /\ session'[p].lastError = session[p].lastError
    BY <1>0, <2>1 DEF Become, Session
  <2> QED
    BY <2>1, <2>2 DEF Unlaunched, Launched
<1>4. CASE Report(p)
  <2>1. session[p].pc = "report" /\ End(p, IF session[p].lastError THEN -1 ELSE session[p].ret)
    BY <1>4 DEF Report, At
  <2>2. /\ session'[p].pc = "idle" /\ session'[p].launched = session[p].launched
        /\ session'[p].ret = (IF session[p].lastError THEN -1 ELSE session[p].ret)
        /\ ~session'[p].lastError
    BY <2>1, Effects
  <2>3. CASE Unlaunched(session[p])
    BY <2>2, <2>3 DEF Unlaunched
  <2>4. CASE Launched(session[p])
    <3>1. session[p].launched /\ session[p].ret = 2 /\ ~session[p].lastError
      BY <2>1, <2>4 DEF Launched
    <3> QED
      BY <2>2, <3>1 DEF Launched
  <2> QED
    BY <2>3, <2>4
<1>5. CASE RegistryThrows(p)
  <2>1. End(p, -1) /\ faults' = faults + 1
    BY <1>5 DEF RegistryThrows
  <2>2. /\ session'[p].pc = "idle" /\ session'[p].launched = session[p].launched
        /\ session'[p].ret = -1 /\ ~session'[p].lastError /\ faults' # 0
    BY <2>1, Effects
  <2> QED
    BY <2>2 DEF Unlaunched, Launched
<1>6. CASE Crash(p)
  BY <1>6 DEF Crash, Become, NoSession, Unlaunched
<1> QED
  BY <1>1, <1>2, <1>3, <1>4, <1>5, <1>6

(* The host stays as it is, and faults are never taken back. *)
LEMMA FaultsGrow ==
  ASSUME NEW q \in Proc, Start(q) \/ Program(q) \/ Choice(q) \/ RegistryThrows(q) \/ Crash(q)
  PROVE  host' = host /\ faults' \in {faults, faults + 1}
<1>1. CASE Start(q) \/ RegistryThrows(q) \/ Crash(q)
  BY <1>1 DEF Start, RegistryThrows, Crash, env
<1>2. CASE Reset(q) \/ WriteAutoCheck(q) \/ WriteAutoLast(q) \/ StatusInterval(q)
           \/ StatusStamp(q) \/ StatusCheck(q) \/ ReadOnce(q)
  BY <1>2 DEF Reset, WriteAutoCheck, WriteAutoLast, StatusInterval, StatusStamp,
     StatusCheck, ReadOnce, env
<1>3. CASE CheckNewer(q) \/ CheckUptodate(q) \/ CheckFails(q)
           \/ IsSkippedVersion(q) \/ IsSkippedTime(q) \/ UnskipVersion(q) \/ UnskipTime(q)
  BY <1>3 DEF CheckNewer, CheckUptodate, CheckFails, IsSkippedVersion, IsSkippedTime,
     UnskipVersion, UnskipTime, env
<1>4. CASE LaterLast(q) \/ LaterVersion(q) \/ LaterTime(q) \/ SkipReqVersion(q)
           \/ SkipReqTime(q) \/ SetOnce(q) \/ Report(q)
  BY <1>4 DEF LaterLast, LaterVersion, LaterTime, SkipReqVersion, SkipReqTime, SetOnce,
     Report, env
<1>5. CASE Choice(q)
  BY <1>5 DEF Choice, PromptAuto, PromptOnce, PromptNo, PromptCancel, DialogAuto,
     DialogCancel, DialogClose, InstallLaunches, InstallFails, InstallThrows, ChooseLater,
     ChooseSkip, env
<1> QED
  BY <1>1, <1>2, <1>3, <1>4, <1>5 DEF Program

LEMMA TellsNext == Inv /\ Tells /\ [Next]_vars => Tells'
<1> SUFFICES ASSUME Inv, Tells, [Next]_vars, host'.console PROVE Tells'
  BY DEF Tells
<1>0. session \in [Proc -> Session] /\ faults \in Nat /\ host' = host
  BY FaultsGrow, BoundAssumption DEF Inv, TypeOK, vars, Next, Tick, Publish
<1>1. host.console /\ \A p \in Proc : Unlaunched(session[p]) \/ Launched(session[p])
  BY <1>0 DEF Tells
<1>2. ASSUME NEW q \in Proc, Start(q) \/ Program(q) \/ Choice(q) \/ RegistryThrows(q) \/ Crash(q)
      PROVE  Tells'
  <2>1. OthersWait(q)
    BY <1>0, <1>2, OneCopyMoves
  <2>2. faults' = 0 => faults = 0
    BY <1>0, <1>2, FaultsGrow
  <2>3. Unlaunched(session'[q]) \/ Launched(session[q])'
    <3>1. Keeps(q) \/ Start(q) \/ InstallLaunches(q) \/ SetOnce(q) \/ Report(q)
          \/ RegistryThrows(q) \/ Crash(q)
      BY <1>0, <1>1, <1>2, AskingKeeps, OfferingKeeps DEF Program, Choice
    <3> QED
      BY <1>0, <1>1, <3>1, KeepsTells, OtherSteps
  <2>4. ASSUME NEW p \in Proc, p # q PROVE Unlaunched(session'[p]) \/ Launched(session[p])'
    BY <1>1, <2>1, <2>2, <2>4 DEF OthersWait, Unlaunched, Launched
  <2> QED
    BY <2>3, <2>4 DEF Tells, Unlaunched
<1>3. CASE Tick \/ Publish \/ UNCHANGED vars
  <2>1. session' = session /\ faults' = faults
    BY <1>3 DEF Tick, Publish, vars
  <2> QED
    BY <1>1, <2>1 DEF Tells, Unlaunched, Launched
<1> QED
  BY <1>2, <1>3 DEF Next

(* On the console Execute's "2=installed" is the truth, for any number of    *)
(* copies: it is returned only by a call that launched an installer, and,    *)
(* while no registry call fails, by every such call.  AutoUpdater.cpp:379.   *)
THEOREM ConsoleTellsInstalled == Spec => []InstalledIsInstalledOnConsole
<1>1. Init => Tells
  <2>1. Unlaunched(NoSession)
    BY DEF Unlaunched, NoSession
  <2> QED
    BY <2>1 DEF Init, Tells
<1>2. Inv /\ Tells => InstalledIsInstalledOnConsole
  BY DEF Tells, Unlaunched, Launched, InstalledIsInstalledOnConsole, At
<1> QED
  BY <1>1, <1>2, TellsNext, InvAlways, PTL DEF Spec

-----------------------------------------------------------------------------
(* One copy on its own: what is in the registry is what its user asked for,  *)
(* but for the steps in which a request is being written or cleared.         *)

SkipKeys == {"SkipVersion", "SkipTime", "SkipInterval"}
Fading   == {"later.last", "later.version", "later.time", "skipreq.version", "skipreq.time"}
Clearing == {"unskip.version", "unskip.time"}

(* The skip-request the user is owed has run its days, or is in the registry. *)
Expired == ~Forever /\ promise.at + SkipDays <= now
Written == user["SkipVersion"] = promise.version /\ user["SkipTime"] = promise.at

Requests(r) ==
  /\ promise # NoValue => promise.at > 0 /\ (Written \/ Expired)
  /\ r.pc \in Fading => promise = NoValue
  /\ r.pc \in Clearing => promise = NoValue \/ Expired
  /\ r.pc = "reset" /\ r.arg > 5 /\ Wipes => promise = NoValue /\ user["SkipVersion"] = Empty
  /\ r.pc \in {"skip.time", "skipreq.time"} => user["SkipVersion"] = r.offered
  /\ r.pc \in {"later.time", "unskip.time"} => user["SkipVersion"] = Empty
  /\ faults = 0 /\ r.pc \notin Fading \cup {"unskip.version"} /\ user["SkipVersion"] \in Int =>
       promise # NoValue /\ Written

(* What a step leaves in the locals of a call. *)
LEMMA Locals ==
  ASSUME NEW p \in Proc, session \in [Proc -> Session]
  PROVE  /\ \A l : Goto(p, l) =>
              /\ session'[p].pc = l /\ session'[p].mode = session[p].mode
              /\ session'[p].offered = session[p].offered
              /\ session'[p].arg = session[p].arg /\ session'[p].began = session[p].began
         /\ \A ret : End(p, ret) => session'[p].pc = "idle"
         /\ \A on, then : CallSetAuto(p, on, then) => session'[p].pc = "auto.check"
         /\ \A skipped : AfterSkip(p, skipped) =>
              session'[p].pc = IF Override(p) \/ ~skipped THEN "install" ELSE "report"
         /\ SetAutoReturns(p) => session'[p].pc \in {"idle", "avail", "install"}
<1>0. session[p] \in Session
  OBVIOUS
<1>1. ASSUME NEW l, Goto(p, l)
      PROVE  /\ session'[p].pc = l /\ session'[p].mode = session[p].mode
             /\ session'[p].offered = session[p].offered
             /\ session'[p].arg = session[p].arg /\ session'[p].began = session[p].began
  BY <1>0, <1>1 DEF Goto, Become, Session
<1>2. ASSUME NEW ret, End(p, ret) PROVE session'[p].pc = "idle"
  BY <1>2, Effects
<1>3. ASSUME NEW on, NEW then, CallSetAuto(p, on, then) PROVE session'[p].pc = "auto.check"
  BY <1>0, <1>3 DEF CallSetAuto, Become, Session
<1>4. ASSUME NEW skipped, AfterSkip(p, skipped)
      PROVE  session'[p].pc = IF Override(p) \/ ~skipped THEN "install" ELSE "report"
  BY <1>0, <1>4 DEF AfterSkip, Become, Session
<1>5. ASSUME SetAutoReturns(p) PROVE session'[p].pc \in {"idle", "avail", "install"}
  <2>1. CASE session[p].then = "idle"
    BY <1>2, <1>5, <2>1 DEF SetAutoReturns
  <2>2. CASE session[p].then # "idle"
    <3>1. Become(p, [session[p] EXCEPT !.pc = session[p].then, !.arg = 0, !.then = "idle"])
      BY <1>5, <2>2 DEF SetAutoReturns
    <3>2. session'[p].pc = session[p].then
      BY <1>0, <3>1 DEF Become, Session
    <3> QED
      BY <1>0, <3>2 DEF Session
  <2> QED
    BY <2>1, <2>2
<1> QED
  BY <1>1, <1>2, <1>3, <1>4, <1>5

(* How long a request lasts depends on one value only. *)
LEMMA SameDays ==
  ASSUME host' = host, user'["SkipInterval"] = user["SkipInterval"]
  PROVE  (Forever' <=> Forever) /\ SkipDays' = SkipDays
BY DEF Forever, SkipDays, Read, Present, Stored

LEMMA DaysType == SkipDays \in Nat /\ CheckDays \in Nat
<1>1. \A d : (IF d \in 1..180 THEN d ELSE 14) \in Nat /\ (IF d \in 1..60 THEN d ELSE 2) \in Nat
  OBVIOUS
<1> QED
  BY <1>1 DEF SkipDays, CheckDays

(* A step with no part in a skip-request. *)
Passes(c) ==
  /\ UNCHANGED <<host, now, promise>> /\ (faults' = 0 => faults = 0)
  /\ \A k \in SkipKeys : user'[k] = user[k]
  /\ session[c].pc \notin Fading \cup {"unskip.version"} \/ faults' # 0
  /\ session'[c].pc \notin Fading \cup Clearing \cup {"skip.time"}
  /\ session'[c].pc = "reset" => session'[c].arg = 1

LEMMA PassesRequests ==
  ASSUME NEW c, Requests(session[c]), Passes(c)
  PROVE  Requests(session[c])'
<1>1. (Forever' <=> Forever) /\ SkipDays' = SkipDays /\ promise' = promise /\ now' = now
  BY SameDays DEF Passes, SkipKeys
<1>2. (Expired' <=> Expired) /\ (Written' <=> Written)
  BY <1>1 DEF Expired, Written, Passes, SkipKeys
<1>3. user'["SkipVersion"] = user["SkipVersion"]
  BY DEF Passes, SkipKeys
<1> QED
  BY <1>1, <1>2, <1>3 DEF Requests, Passes, Fading, Clearing

(* The steps that ask, check, answer or launch have no part in one. *)
LEMMA AskingPasses ==
  ASSUME NEW p \in Proc, session \in [Proc -> Session], user \in [Key -> Value],
         \/ Start(p) \/ WriteAutoCheck(p) \/ WriteAutoLast(p) \/ StatusInterval(p)
         \/ StatusStamp(p) \/ StatusCheck(p) \/ ReadOnce(p) \/ PromptAuto(p)
         \/ PromptOnce(p) \/ PromptNo(p) \/ PromptCancel(p)
  PROVE  Passes(p)
<1>0. session[p] \in Session
  OBVIOUS
<1>1. /\ UNCHANGED <<host, now, promise, faults>>
      /\ session[p].pc \notin Fading \cup {"unskip.version"}
  BY DEF Start, WriteAutoCheck, WriteAutoLast, StatusInterval, StatusStamp, StatusCheck, ReadOnce,
     PromptAuto, PromptOnce, PromptNo, PromptCancel, env, history, At, Fading
<1>2. \A k \in SkipKeys : user'[k] = user[k]
  BY DEF Start, WriteAutoCheck, WriteAutoLast, StatusInterval, StatusStamp, StatusCheck, ReadOnce,
     PromptAuto, PromptOnce, PromptNo, PromptCancel, Write, SkipKeys, Key
<1>3. /\ session'[p].pc \notin Fading \cup Clearing \cup {"skip.time"}
      /\ session'[p].pc = "reset" => session'[p].arg = 1
  <2>1. CASE Start(p)
    <3>1. PICK m \in Mode :
            Become(p, [NoSession EXCEPT !.pc = Entry(m), !.mode = m,
                         !.arg = IF m \in {"Reset", "Enable"} THEN 1 ELSE 0,
                         !.then = IF m = "Enable" THEN "avail" ELSE "idle"])
      BY <2>1 DEF Start
    <3>2. session'[p].pc = Entry(m) /\ (m = "Reset" => session'[p].arg = 1)
      BY <3>1 DEF Become, NoSession
    <3>3. /\ Entry(m) \in {"reset", "auto.check", "status.last", "status.check", "prompt"}
          /\ Entry(m) = "reset" => m = "Reset"
      BY DEF Entry
    <3> QED
      BY <3>2, <3>3 DEF Fading, Clearing
  <2>2. CASE WriteAutoCheck(p) \/ WriteAutoLast(p) \/ StatusStamp(p) \/ ReadOnce(p)
             \/ PromptAuto(p) \/ PromptOnce(p) \/ PromptNo(p) \/ PromptCancel(p)
    BY <2>2, Locals DEF WriteAutoCheck, WriteAutoLast, StatusStamp, ReadOnce, PromptAuto,
       PromptOnce, PromptNo, PromptCancel, Fading, Clearing
  <2>3. CASE StatusInterval(p)
    <3>1. End(p, 0) \/ \E l \in {"status.check", "status.stamp"} :
                        Become(p, [session[p] EXCEPT !.began = now, !.pc = l])
      BY <2>3 DEF StatusInterval
    <3>2. session'[p].pc \in {"idle", "status.check", "status.stamp"}
      BY <1>0, <3>1, Locals DEF Become, Session
    <3> QED
      BY <3>2 DEF Fading, Clearing
  <2>4. CASE StatusCheck(p)
    <3>1. End(p, 0) \/ \E l \in {"avail", "prompt", "once"} :
                        Become(p, [session[p] EXCEPT !.pc = l, !.began = 0])
      BY <2>4 DEF StatusCheck
    <3>2. session'[p].pc \in {"idle", "avail", "prompt", "once"}
      BY <1>0, <3>1, Locals DEF Become, Session
    <3> QED
      BY <3>2 DEF Fading, Clearing
  <2> QED
    BY <2>1, <2>2, <2>3, <2>4
<1> QED
  BY <1>1, <1>2, <1>3 DEF Passes

LEMMA OfferingGoes ==
  ASSUME NEW p \in Proc, session \in [Proc -> Session],
         \/ CheckNewer(p) \/ CheckUptodate(p) \/ CheckFails(p) \/ DialogAuto(p)
         \/ DialogCancel(p) \/ DialogClose(p) \/ InstallLaunches(p) \/ InstallFails(p)
         \/ InstallThrows(p) \/ SetOnce(p) \/ Report(p)
  PROVE  session'[p].pc \in {"skip.version", "report", "install", "setonce", "auto.check", "idle"}
<1>0. session[p] \in Session
  OBVIOUS
<1>1. CASE CheckNewer(p) \/ CheckUptodate(p) \/ SetOnce(p) \/ InstallLaunches(p)
  BY <1>0, <1>1 DEF CheckNewer, CheckUptodate, SetOnce, InstallLaunches, Become, Session
<1>2. CASE CheckFails(p)
  <2>1. PICK error \in BOOLEAN :
          Become(p, [session[p] EXCEPT !.pc = "report", !.lastError = error])
    BY <1>2 DEF CheckFails
  <2> QED
    BY <1>0, <2>1 DEF Become, Session
<1>3. CASE InstallFails(p)
  <2>1. PICK error \in BOOLEAN :
          Become(p, [session[p] EXCEPT !.lastError = @ \/ error,
                                       !.pc = IF host.console THEN "report" ELSE "install"])
    BY <1>3 DEF InstallFails
  <2> QED
    BY <1>0, <2>1 DEF Become, Session
<1>4. CASE DialogAuto(p) \/ DialogCancel(p) \/ DialogClose(p) \/ InstallThrows(p) \/ Report(p)
  BY <1>4, Locals DEF DialogAuto, DialogCancel, DialogClose, InstallThrows, Report, EndsDialog
<1> QED
  BY <1>1, <1>2, <1>3, <1>4

LEMMA OfferingPasses ==
  ASSUME NEW p \in Proc, session \in [Proc -> Session], user \in [Key -> Value],
         \/ CheckNewer(p) \/ CheckUptodate(p) \/ CheckFails(p) \/ DialogAuto(p)
         \/ DialogCancel(p) \/ DialogClose(p) \/ InstallLaunches(p) \/ InstallFails(p)
         \/ InstallThrows(p) \/ SetOnce(p) \/ Report(p)
  PROVE  Passes(p)
<1>1. /\ UNCHANGED <<host, now, promise, faults>>
      /\ session[p].pc \notin Fading \cup {"unskip.version"}
  BY DEF CheckNewer, CheckUptodate, CheckFails, DialogAuto, DialogCancel, DialogClose,
     InstallLaunches, InstallFails, InstallThrows, SetOnce, Report, env, history, At, Fading
<1>2. \A k \in SkipKeys : user'[k] = user[k]
  BY DEF CheckNewer, CheckUptodate, CheckFails, DialogAuto, DialogCancel, DialogClose,
     InstallLaunches, InstallFails, InstallThrows, SetOnce, Report, Write, SkipKeys, Key
<1>3. session'[p].pc \in {"skip.version", "report", "install", "setonce", "auto.check", "idle"}
  BY OfferingGoes
<1> QED
  BY <1>1, <1>2, <1>3 DEF Passes, Fading, Clearing

LEMMA FaultPasses ==
  ASSUME NEW p \in Proc, session \in [Proc -> Session], faults \in Nat,
         RegistryThrows(p) \/ Crash(p)
  PROVE  Passes(p)
<1>1. /\ UNCHANGED <<host, now, promise, user>> /\ faults' = faults + 1
  BY DEF RegistryThrows, Crash, history
<1>2. session'[p].pc = "idle"
  BY Locals, NoSessionFacts DEF RegistryThrows, Crash, Become
<1> QED
  BY <1>1, <1>2 DEF Passes, Fading, Clearing

(* Settings only the library writes are in the user's hive or nowhere. *)
LEMMA OwnHive == ASSUME TypeOK PROVE \A k \in Key \ Tunable : Stored(k) = user[k]
BY MachineKeepsTunablesOnly DEF Stored

LEMMA IsSkippedRequests ==
  ASSUME NEW p \in Proc, Inv, Requests(session[p]), IsSkippedVersion(p) \/ IsSkippedTime(p)
  PROVE  Requests(session[p])'
<1>0. /\ session \in [Proc -> Session] /\ user \in [Key -> Value] /\ SkipDays \in Nat
      /\ Stored("SkipVersion") = user["SkipVersion"] /\ Stored("SkipTime") = user["SkipTime"]
      /\ UNCHANGED <<host, now, user, faults>>
  BY OwnHive, DaysType DEF Inv, TypeOK, Key, Tunable, IsSkippedVersion, IsSkippedTime, env
<1>1. /\ (Forever' <=> Forever) /\ SkipDays' = SkipDays
  BY <1>0, SameDays
<1>2. CASE /\ session[p].pc \in {"skip.version", "skip.time"} /\ promise' = promise
           /\ \E skipped : AfterSkip(p, skipped)
  <2>1. session'[p].pc \in {"install", "report"}
    BY <1>0, <1>2, Locals
  <2>2. Passes(p)
    BY <1>0, <1>2, <2>1 DEF Passes, Fading, Clearing
  <2> QED
    BY <2>2, PassesRequests
<1>3. CASE /\ session[p].pc = "skip.version" /\ promise' = promise
           /\ Stored("SkipVersion") = session[p].offered /\ Goto(p, "skip.time")
  <2>1. session'[p].pc = "skip.time" /\ user'["SkipVersion"] = session'[p].offered
    BY <1>0, <1>3, Locals
  <2> QED
    BY <1>0, <1>1, <1>3, <2>1 DEF Requests, Fading, Clearing, Expired, Written
<1>4. CASE session[p].pc = "skip.version" /\ promise' = NoValue /\ Goto(p, "unskip.version")
  <2>1. session'[p].pc = "unskip.version"
    BY <1>0, <1>4, Locals
  <2> QED
    BY <1>4, <2>1 DEF Requests, Fading
<1>5. CASE /\ session[p].pc = "skip.time" /\ promise' = promise /\ Goto(p, "unskip.version")
           /\ Read("SkipTime", 0) > 0 /\ ~Forever /\ Read("SkipTime", 0) + SkipDays <= now
  <2>1. session'[p].pc = "unskip.version"
    BY <1>0, <1>5, Locals
  <2>2. promise # NoValue => Expired
    <3> SUFFICES ASSUME promise # NoValue, Written PROVE Expired
      BY DEF Requests
    <3>1. promise.at \in Nat /\ user["SkipTime"] = promise.at
      BY DEF Inv, TypeOK, Written
    <3>2. Read("SkipTime", 0) = promise.at
      BY <1>0, <3>1 DEF Read, Present
    <3> QED
      BY <1>5, <3>2 DEF Expired
  <2>3. promise' # NoValue => promise'.at > 0 /\ Expired'
    BY <1>0, <1>1, <1>5, <2>2 DEF Requests, Expired
  <2> QED
    BY <2>1, <2>3 DEF Requests, Fading
<1>6. CASE IsSkippedVersion(p)
  <2>1. session[p].pc = "skip.version" /\ ~Present("SkipVersion") =>
          promise' = promise /\ \E skipped : AfterSkip(p, skipped)
    BY <1>6 DEF IsSkippedVersion
  <2> QED
    BY <1>2, <1>3, <1>4, <1>6, <2>1 DEF IsSkippedVersion, At
<1>7. CASE IsSkippedTime(p)
  <2>1. session[p].pc = "skip.time" /\ promise' = promise
    BY <1>7 DEF IsSkippedTime, At, history
  <2> QED
    BY <1>2, <1>5, <1>7, <2>1 DEF IsSkippedTime
<1> QED
  BY <1>6, <1>7

LEMMA UnskipRequests ==
  ASSUME NEW p \in Proc, Inv, Requests(session[p]), UnskipVersion(p) \/ UnskipTime(p)
  PROVE  Requests(session[p])'
<1>0. /\ session \in [Proc -> Session] /\ user \in [Key -> Value]
      /\ UNCHANGED <<host, now, promise, faults>>
  BY DEF Inv, TypeOK, UnskipVersion, UnskipTime, env, history
<1>1. /\ user'["SkipInterval"] = user["SkipInterval"] /\ user'["SkipVersion"] = Empty
      /\ session[p].pc \in Clearing
      /\ session'[p].pc \in {"unskip.time", "install"}
  <2>1. CASE UnskipVersion(p)
    BY <1>0, <2>1, Locals DEF UnskipVersion, Write, Key, At, Clearing
  <2>2. CASE UnskipTime(p)
    <3>1. user["SkipVersion"] = Empty
      BY <2>2 DEF UnskipTime, At, Requests
    <3> QED
      BY <1>0, <2>2, <3>1, Locals DEF UnskipTime, Write, Key, At, Clearing
  <2> QED
    BY <2>1, <2>2
<1>2. (Forever' <=> Forever) /\ SkipDays' = SkipDays
  BY <1>0, <1>1, SameDays
<1>3. promise' # NoValue => promise'.at > 0 /\ Expired'
  BY <1>0, <1>1, <1>2 DEF Requests, Expired
<1> QED
  BY <1>1, <1>3, SentinelAssumption DEF Requests, Fading

LEMMA LaterRequests ==
  ASSUME NEW p \in Proc, Inv, Requests(session[p]),
         ChooseLater(p) \/ LaterLast(p) \/ LaterVersion(p) \/ LaterTime(p)
  PROVE  Requests(session[p])'
<1>0. session \in [Proc -> Session] /\ user \in [Key -> Value]
  BY DEF Inv, TypeOK
<1>1. promise' = NoValue
  BY DEF ChooseLater, LaterLast, LaterVersion, LaterTime, history, At, Requests, Fading
<1>2. session'[p].pc \in {"later.last", "later.version", "later.time", "setonce", "report"}
  BY <1>0, Locals DEF ChooseLater, LaterLast, LaterVersion, LaterTime, EndsDialog
<1>3. session'[p].pc \in {"later.time", "setonce", "report"} => user'["SkipVersion"] = Empty
  <2>1. CASE ChooseLater(p) \/ LaterLast(p)
    BY <1>0, <2>1, Locals DEF ChooseLater, LaterLast
  <2>2. CASE LaterVersion(p)
    BY <1>0, <2>2 DEF LaterVersion, Write, Key
  <2>3. CASE LaterTime(p)
    BY <1>0, <2>3 DEF LaterTime, Write, Key, At, Requests
  <2> QED
    BY <2>1, <2>2, <2>3
<1> QED
  BY <1>1, <1>2, <1>3, SentinelAssumption DEF Requests, Fading

LEMMA SkipReqRequests ==
  ASSUME NEW p \in Proc, Inv, Requests(session[p]),
         ChooseSkip(p) \/ SkipReqVersion(p) \/ SkipReqTime(p)
  PROVE  Requests(session[p])'
<1>0. session \in [Proc -> Session] /\ user \in [Key -> Value] /\ now \in Nat \ {0}
  BY DEF Inv, TypeOK
<1>1. CASE ChooseSkip(p)
  <2>1. session'[p].pc = "skipreq.version" /\ promise' = NoValue
    BY <1>0, <1>1, Locals DEF ChooseSkip
  <2> QED
    BY <2>1 DEF Requests, Fading
<1>2. CASE SkipReqVersion(p)
  <2>1. /\ session'[p].pc = "skipreq.time" /\ promise' = NoValue
        /\ user'["SkipVersion"] = session'[p].offered
    BY <1>0, <1>2, Locals DEF SkipReqVersion, Write, Key, history, At, Requests, Fading
  <2> QED
    BY <2>1 DEF Requests, Fading
<1>3. CASE SkipReqTime(p)
  <2>1. /\ session'[p].pc \in {"setonce", "report"}
        /\ promise' = [version |-> session[p].offered, at |-> now]
    BY <1>0, <1>3, Locals DEF SkipReqTime, EndsDialog
  <2>2. user'["SkipVersion"] = session[p].offered /\ user'["SkipTime"] = now
    BY <1>0, <1>3 DEF SkipReqTime, Write, Key, At, Requests
  <2>3. promise' # NoValue /\ promise'.at > 0 /\ Written'
    <3>1. promise'.version = session[p].offered /\ promise'.at = now
      BY <2>1
    <3>2. session[p].offered \in Version
      BY <1>3 DEF Inv, Good, OnOffer, SkipReqTime, At
    <3>3. promise' # NoValue
      BY <1>0, <2>1, <3>2, SentinelAssumption
    <3> QED
      BY <1>0, <2>2, <3>1, <3>3 DEF Written
  <2> QED
    BY <2>1, <2>3 DEF Requests, Fading, Clearing
<1> QED
  BY <1>1, <1>2, <1>3

LEMMA ResetGoes ==
  ASSUME NEW p \in Proc, session \in [Proc -> Session], Reset(p)
  PROVE  /\ session'[p].pc \in {"reset", "idle"}
         /\ session'[p].pc = "reset" => session'[p].arg = session[p].arg + 1
<1>0. session[p] \in Session /\ session[p].pc = "reset"
  BY DEF Reset, At
<1>1. End(p, -1) \/ End(p, 0) \/ Become(p, [session[p] EXCEPT !.arg = session[p].arg + 1])
  BY DEF Reset
<1>2. CASE Become(p, [session[p] EXCEPT !.arg = session[p].arg + 1])
  BY <1>0, <1>2 DEF Become, Session
<1>3. CASE End(p, -1) \/ End(p, 0)
  BY <1>3, Locals
<1> QED
  BY <1>1, <1>2, <1>3

(* Reset wipes SkipVersion before what says how long a request lasts. *)
LEMMA ResetRequests ==
  ASSUME NEW p \in Proc, Inv, Requests(session[p]), Reset(p)
  PROVE  Requests(session[p])'
<1> DEFINE i == session[p].arg
           k == ConfigKeys[i]
<1>0. /\ session \in [Proc -> Session] /\ user \in [Key -> Value] /\ i \in 1..7 /\ k \in Key
      /\ UNCHANGED <<host, now, faults>> /\ session[p].pc = "reset"
  BY KeyFacts DEF Inv, TypeOK, Good, Reset, At, env
<1>1. /\ session'[p].pc \in {"reset", "idle"}
      /\ session'[p].pc = "reset" => session'[p].arg = i + 1
  BY <1>0, ResetGoes
<1>2. CASE ~Wipes
  <2>1. user' = user /\ promise' = promise
    BY <1>2 DEF Reset
  <2>2. ~Wipes' /\ (Forever' <=> Forever) /\ SkipDays' = SkipDays
    BY <1>0, <1>2, <2>1, SameDays DEF Wipes, UserKeyExists
  <2> QED
    BY <1>0, <1>1, <2>1, <2>2 DEF Requests, Expired, Written, Fading, Clearing
<1>3. CASE Wipes
  <2>1. /\ user' = [user EXCEPT ![k] = Empty]
        /\ promise' = IF k \in {"SkipVersion", "SkipTime"} THEN NoValue ELSE promise
    BY <1>3 DEF Reset, Write
  <2>2. /\ i <= 4 => k \in {"AutoInterval", "AutoCheck", "AutoOnce", "AutoLast"}
        /\ i = 5 => k = "SkipVersion"
        /\ i > 5 => k \in {"SkipTime", "SkipInterval"}
    BY <1>0 DEF ConfigKeys
  <2> HIDE DEF i, k
  <2>3. CASE i <= 4
    <3>1. user'["SkipVersion"] = user["SkipVersion"] /\ user'["SkipTime"] = user["SkipTime"]
          /\ user'["SkipInterval"] = user["SkipInterval"] /\ promise' = promise
      BY <1>0, <2>1, <2>2, <2>3 DEF Key
    <3>2. (Forever' <=> Forever) /\ SkipDays' = SkipDays
      BY <1>0, <3>1, SameDays
    <3>3. session'[p].pc = "reset" => ~(session'[p].arg > 5)
      BY <1>0, <1>1, <2>3
    <3> QED
      BY <1>0, <1>1, <3>1, <3>2, <3>3 DEF Requests, Expired, Written, Fading, Clearing
  <2>4. CASE i > 4
    <3>1. promise' = NoValue /\ user'["SkipVersion"] = Empty
      <4>1. CASE i = 5
        BY <1>0, <2>1, <2>2, <4>1 DEF Key
      <4>2. CASE i > 5
        <5>1. promise = NoValue /\ user["SkipVersion"] = Empty
          BY <1>0, <1>3, <4>2 DEF Requests, i
        <5> QED
          BY <1>0, <2>1, <2>2, <4>2, <5>1 DEF Key
      <4> QED
        BY <1>0, <2>4, <4>1, <4>2
    <3> QED
      BY <1>1, <3>1, SentinelAssumption DEF Requests, Fading
  <2> QED
    BY <1>0, <2>3, <2>4
<1> QED
  BY <1>2, <1>3

(* A day goes by. *)
LEMMA TickRequests ==
  ASSUME NEW r, Inv, Requests(r), Tick
  PROVE  Requests(r)'
<1>1. /\ UNCHANGED <<host, user, promise, faults>> /\ now' = now + 1 /\ now \in Nat
  BY DEF Tick, history, Inv, TypeOK
<1>2. (Forever' <=> Forever) /\ SkipDays' = SkipDays /\ SkipDays \in Nat
  BY <1>1, SameDays, DaysType
<1>3. promise # NoValue => promise.at \in Nat
  BY DEF Inv, TypeOK
<1>4. promise # NoValue /\ Expired => Expired'
  BY <1>1, <1>2, <1>3 DEF Expired
<1>5. Written' <=> Written
  BY <1>1 DEF Written
<1> QED
  BY <1>1, <1>4, <1>5 DEF Requests, Wipes, UserKeyExists

LEMMA RequestsNext ==
  ASSUME NEW c, Proc = {c}, Inv, Requests(session[c]), [Next]_vars
  PROVE  Requests(session[c])'
<1>0. /\ session \in [Proc -> Session] /\ user \in [Key -> Value] /\ faults \in Nat
      /\ c \in Proc
  BY BoundAssumption DEF Inv, TypeOK
<1>1. CASE Start(c) \/ Program(c) \/ Choice(c) \/ RegistryThrows(c) \/ Crash(c)
  <2>1. CASE Passes(c)
    BY <2>1, PassesRequests
  <2>2. CASE ~Passes(c)
    BY <1>0, <1>1, <2>2, AskingPasses, OfferingPasses, FaultPasses, IsSkippedRequests,
       UnskipRequests, LaterRequests, SkipReqRequests, ResetRequests DEF Program, Choice
  <2> QED
    BY <2>1, <2>2
<1>2. CASE Tick
  <2>1. session'[c] = session[c]
    BY <1>2 DEF Tick
  <2> QED
    BY <1>2, <2>1, TickRequests
<1>3. CASE Publish \/ UNCHANGED vars
  <2>1. UNCHANGED <<host, user, now, session, faults, promise>>
    BY <1>3 DEF Publish, history, vars
  <2> QED
    BY <2>1 DEF Requests, Expired, Written, Forever, SkipDays, Read, Present, Stored, Wipes,
       UserKeyExists
<1> QED
  BY <1>0, <1>1, <1>2, <1>3 DEF Next

LEMMA RequestsAlways ==
  ASSUME NEW c, Proc = {c}
  PROVE  Spec => []Requests(session[c])
<1>1. Init => Requests(session[c])
  BY HostAssumption, SentinelAssumption, NoSessionFacts
  DEF Init, Requests, Fading, Clearing, Key, Tunable
<1>2. Inv /\ Requests(session[c]) /\ [Next]_vars => Requests(session[c])'
  BY RequestsNext
<1> QED
  BY <1>1, <1>2, InvAlways, PTL DEF Spec

(* Only IsSkipped withholds a release or lets it through. *)
LEMMA DecidedBySkip ==
  ASSUME Inv, Next, NEW p \in Proc, Offer(p) \/ Withhold(p)
  PROVE  IsSkippedVersion(p) \/ IsSkippedTime(p) \/ UnskipTime(p)
<1>0. /\ session[p].pc \in {"skip.version", "skip.time", "unskip.time"}
      /\ session'[p].pc \in {"install", "report"}
      /\ session \in [Proc -> Session]
  BY DEF Offer, Withhold, At, Inv, TypeOK
<1>1. PICK q \in Proc :
        Start(q) \/ Program(q) \/ Choice(q) \/ RegistryThrows(q) \/ Crash(q)
  BY <1>0 DEF Next, Tick, Publish
<1>2. q = p
  BY <1>0, <1>1, OneCopyMoves DEF OthersWait
<1>3. ~ Start(p) /\ ~ Choice(p)
  BY <1>0 DEF Start, At, Choice, PromptAuto, PromptOnce, PromptNo, PromptCancel,
     DialogAuto, DialogCancel, DialogClose, InstallLaunches, InstallFails, InstallThrows,
     ChooseLater, ChooseSkip
<1>4. ~ RegistryThrows(p) /\ ~ Crash(p)
  BY <1>0, Locals, NoSessionFacts DEF RegistryThrows, Crash, Become
<1> QED
  BY <1>0, <1>1, <1>2, <1>3, <1>4 DEF Program, At, Reset, WriteAutoCheck, WriteAutoLast,
     StatusInterval, StatusStamp, StatusCheck, ReadOnce, CheckNewer, CheckUptodate, CheckFails,
     UnskipVersion, LaterLast, LaterVersion, LaterTime, SkipReqVersion, SkipReqTime, SetOnce,
     Report

(* With one copy, a completed request is honoured for its days by every call *)
(* that is not told to ignore it, whatever fails and whenever the copy dies: *)
(* IsSkipped clears a request only when its days have run or it is for       *)
(* another release.  AutoUpdater.cpp:693-740.                                *)
THEOREM SkipIsHonoured ==
  ASSUME NEW c, Proc = {c}
  PROVE  Spec => SkipHonoured
<1>1. Inv /\ Requests(session[c]) /\ [Next]_vars
        => [\A p \in Proc : Offer(p) /\ ~Override(p) => ~Owed(session[p].offered)]_vars
  <2> SUFFICES ASSUME Inv, Requests(session[c]), Next, Offer(c), ~Override(c),
                      Owed(session[c].offered)
               PROVE  FALSE
    BY DEF vars
  <2>1. /\ c \in Proc /\ session \in [Proc -> Session]
        /\ Stored("SkipVersion") = user["SkipVersion"] /\ Stored("SkipTime") = user["SkipTime"]
        /\ promise \in {NoValue} \cup [version : Version, at : Nat] /\ now \in Nat
    BY OwnHive DEF Inv, TypeOK, Key, Tunable
  <2>2. promise # NoValue /\ promise.version = session[c].offered /\ promise.version \in Int
    BY <2>1, ReleaseAssumption DEF Owed
  <2>3. ~Expired
    BY <2>1, <2>2, DaysType DEF Owed, Expired
  <2>4. Written /\ session[c].pc # "unskip.time"
    BY <2>2, <2>3 DEF Requests, Clearing
  <2>5. session'[c].pc = "install"
    BY DEF Offer
  <2>6. CASE IsSkippedVersion(c)
    <3>1. Present("SkipVersion") /\ Stored("SkipVersion") = session[c].offered
      BY <2>1, <2>2, <2>4 DEF Present, Written
    <3>2. Goto(c, "skip.time")
      BY <2>6, <3>1 DEF IsSkippedVersion
    <3> QED
      BY <2>1, <2>5, <3>2, Locals
  <2>7. CASE IsSkippedTime(c)
    <3>1. Goto(c, "unskip.version") \/ AfterSkip(c, TRUE)
      BY <2>7 DEF IsSkippedTime
    <3>2. session'[c].pc \in {"unskip.version", "report"}
      <4>1. CASE AfterSkip(c, TRUE)
        BY <2>1, <4>1 DEF AfterSkip, Become, Session
      <4> QED
        BY <2>1, <3>1, <4>1, Locals
    <3> QED
      BY <2>5, <3>2
  <2>8. CASE UnskipTime(c)
    BY <2>4, <2>8 DEF UnskipTime, At
  <2> QED
    BY <2>1, <2>6, <2>7, <2>8, DecidedBySkip
<1> QED
  BY <1>1, InvAlways, RequestsAlways, PTL DEF Spec, SkipHonoured

(* With one copy and no failure, a release is withheld only while a request  *)
(* for it is owed: the silence ends.  AutoUpdater.cpp:21, 693-740.           *)
THEOREM SkipDoesLapse ==
  ASSUME NEW c, Proc = {c}
  PROVE  Spec => SkipLapses
<1>1. Inv /\ Requests(session[c]) /\ [Next]_vars
        => [\A p \in Proc : Withhold(p) /\ faults = 0 => Owed(session[p].offered)]_vars
  <2> SUFFICES ASSUME Inv, Requests(session[c]), Next, Withhold(c), faults = 0
               PROVE  Owed(session[c].offered)
    BY DEF vars
  <2>1. /\ c \in Proc /\ session \in [Proc -> Session] /\ Good(session[c], asked)
        /\ Stored("SkipTime") = user["SkipTime"]
        /\ promise \in {NoValue} \cup [version : Version, at : Nat] /\ now \in Nat
    BY OwnHive DEF Inv, TypeOK, Key, Tunable
  <2>2. session[c].pc = "skip.time" /\ session'[c].pc = "report"
    BY DEF Withhold, At
  <2>3. user["SkipVersion"] = session[c].offered /\ session[c].offered \in Int
    BY <2>1, <2>2, ReleaseAssumption DEF Requests, Good, OnOffer
  <2>4. promise # NoValue /\ Written /\ promise.at > 0 /\ promise.at \in Nat
    BY <2>1, <2>2, <2>3 DEF Requests, Fading
  <2>5. Read("SkipTime", 0) = promise.at
    BY <2>1, <2>4 DEF Read, Present, Written
  <2>6. IsSkippedTime(c)
    BY <2>1, <2>2, DecidedBySkip DEF IsSkippedVersion, UnskipTime, At
  <2>7. ~Goto(c, "unskip.version")
    BY <2>1, <2>2, Locals
  <2>8. Forever \/ ~(promise.at + SkipDays <= now)
    BY <2>4, <2>5, <2>6, <2>7 DEF IsSkippedTime
  <2> QED
    BY <2>1, <2>3, <2>4, <2>8, DaysType DEF Owed, Written
<1> QED
  BY <1>1, InvAlways, RequestsAlways, PTL DEF Spec, SkipLapses

-----------------------------------------------------------------------------
(* One copy, nothing fails, and the library's own AutoCheck: the stamp in    *)
(* the registry is never older than the last automatic check.                *)

CheckKeys == {"AutoInterval", "AutoCheck", "AutoLast"}

Spaced(r) ==
  /\ lastAuto <= now
  /\ user["AutoCheck"] = 1 /\ r.pc # "auto.last" =>
       user["AutoLast"] \in Nat \ {0} /\ user["AutoLast"] >= lastAuto
  /\ r.pc = "auto.last" => user["AutoCheck"] = r.arg
  /\ r.pc = "reset" /\ r.arg > 2 /\ Wipes => user["AutoCheck"] # 1
  /\ r.pc \in {"status.stamp", "status.check"} => r.began <= now
  /\ r.pc \in {"status.stamp", "status.check"} /\ r.mode = "Auto" /\ user["AutoCheck"] = 1 =>
       r.began >= lastAuto + CheckDays
  /\ r.pc = "status.check" /\ r.mode = "Auto" /\ user["AutoCheck"] = 1 =>
       user["AutoLast"] >= r.began

SpacedUnlessFault(r) == faults = 0 /\ host.machine["AutoCheck"] = NoValue => Spaced(r)

(* A step with no part in when the next check is due. *)
Steady(c) ==
  /\ UNCHANGED <<host, now, lastAuto>>
  /\ \A k \in CheckKeys : user'[k] = user[k]
  /\ session[c].pc # "auto.last"
  /\ session'[c].pc \notin {"auto.last", "status.stamp"}
  /\ session'[c].pc = "status.check" => session'[c].mode # "Auto" /\ session'[c].began = 0
  /\ session'[c].pc = "reset" => session'[c].arg = 1

LEMMA SteadySpaced ==
  ASSUME NEW c, now \in Nat, Spaced(session[c]), Steady(c)
  PROVE  Spaced(session[c])'
BY DEF Spaced, Steady, CheckKeys

LEMMA AskingSteady ==
  ASSUME NEW p \in Proc, session \in [Proc -> Session], user \in [Key -> Value],
         \/ Start(p) \/ ReadOnce(p) \/ PromptAuto(p) \/ PromptOnce(p) \/ PromptNo(p)
         \/ PromptCancel(p)
  PROVE  Steady(p)
<1>1. /\ UNCHANGED <<host, now, user, lastAuto>>
      /\ session[p].pc # "auto.last"
  BY DEF Start, ReadOnce, PromptAuto, PromptOnce, PromptNo, PromptCancel, env, history, At
<1>2. CASE Start(p)
  <2>1. PICK m \in Mode :
          Become(p, [NoSession EXCEPT !.pc = Entry(m), !.mode = m,
                       !.arg = IF m \in {"Reset", "Enable"} THEN 1 ELSE 0,
                       !.then = IF m = "Enable" THEN "avail" ELSE "idle"])
    BY <1>2 DEF Start
  <2>2. /\ session'[p].pc = Entry(m) /\ session'[p].mode = m /\ session'[p].began = 0
        /\ m = "Reset" => session'[p].arg = 1
    BY <2>1 DEF Become, NoSession
  <2>3. /\ Entry(m) \in {"reset", "auto.check", "status.last", "status.check", "prompt"}
        /\ Entry(m) = "reset" => m = "Reset"
        /\ Entry(m) = "status.check" => m # "Auto"
    BY DEF Entry
  <2> QED
    BY <1>1, <2>2, <2>3 DEF Steady
<1>3. CASE ~Start(p)
  <2>1. session'[p].pc \in {"idle", "prompt", "avail", "auto.check"}
    BY <1>3, Locals DEF ReadOnce, PromptAuto, PromptOnce, PromptNo, PromptCancel
  <2> QED
    BY <1>1, <2>1 DEF Steady
<1> QED
  BY <1>2, <1>3

LEMMA OfferingSteady ==
  ASSUME NEW p \in Proc, session \in [Proc -> Session], user \in [Key -> Value],
         \/ CheckNewer(p) \/ CheckUptodate(p) \/ CheckFails(p) \/ DialogAuto(p)
         \/ DialogCancel(p) \/ DialogClose(p) \/ InstallLaunches(p) \/ InstallFails(p)
         \/ InstallThrows(p) \/ SetOnce(p) \/ Report(p)
  PROVE  Steady(p)
<1>1. /\ UNCHANGED <<host, now, lastAuto>> /\ session[p].pc # "auto.last"
  BY DEF CheckNewer, CheckUptodate, CheckFails, DialogAuto, DialogCancel, DialogClose,
     InstallLaunches, InstallFails, InstallThrows, SetOnce, Report, env, history, At
<1>2. \A k \in CheckKeys : user'[k] = user[k]
  BY DEF CheckNewer, CheckUptodate, CheckFails, DialogAuto, DialogCancel, DialogClose,
     InstallLaunches, InstallFails, InstallThrows, SetOnce, Report, Write, CheckKeys, Key
<1>3. session'[p].pc \in {"skip.version", "report", "install", "setonce", "auto.check", "idle"}
  BY OfferingGoes
<1> QED
  BY <1>1, <1>2, <1>3 DEF Steady

LEMMA SkippingSteady ==
  ASSUME NEW p \in Proc, session \in [Proc -> Session], user \in [Key -> Value],
         \/ IsSkippedVersion(p) \/ IsSkippedTime(p) \/ UnskipVersion(p) \/ UnskipTime(p)
         \/ ChooseLater(p) \/ LaterVersion(p) \/ LaterTime(p)
         \/ ChooseSkip(p) \/ SkipReqVersion(p) \/ SkipReqTime(p)
  PROVE  Steady(p)
<1>1. /\ UNCHANGED <<host, now, lastAuto>> /\ session[p].pc # "auto.last"
  BY DEF IsSkippedVersion, IsSkippedTime, UnskipVersion, UnskipTime, ChooseLater, LaterVersion,
     LaterTime, ChooseSkip, SkipReqVersion, SkipReqTime, env, history, At
<1>2. \A k \in CheckKeys : user'[k] = user[k]
  BY DEF IsSkippedVersion, IsSkippedTime, UnskipVersion, UnskipTime, ChooseLater, LaterVersion,
     LaterTime, ChooseSkip, SkipReqVersion, SkipReqTime, Write, CheckKeys, Key
<1>3. session'[p].pc \notin {"auto.last", "status.stamp", "status.check", "reset"}
  <2>0. session[p] \in Session
    OBVIOUS
  <2>1. ASSUME NEW skipped, AfterSkip(p, skipped)
        PROVE  session'[p].pc \in {"install", "report"}
    BY <2>0, <2>1 DEF AfterSkip, Become, Session
  <2>2. CASE IsSkippedVersion(p) \/ IsSkippedTime(p)
    <3>1. \/ \E skipped : AfterSkip(p, skipped)
          \/ \E l \in {"skip.time", "unskip.version"} : Goto(p, l)
      BY <2>2 DEF IsSkippedVersion, IsSkippedTime
    <3> QED
      BY <2>1, <3>1, Locals
  <2>3. CASE UnskipVersion(p) \/ UnskipTime(p)
    <3>1. Goto(p, "unskip.time") \/ AfterSkip(p, FALSE)
      BY <2>3 DEF UnskipVersion, UnskipTime
    <3>2. CASE Goto(p, "unskip.time")
      BY <3>2, Locals
    <3> QED
      BY <2>1, <3>1, <3>2
  <2>4. CASE ~(IsSkippedVersion(p) \/ IsSkippedTime(p) \/ UnskipVersion(p) \/ UnskipTime(p))
    BY <2>4, Locals DEF ChooseLater, LaterVersion, LaterTime, ChooseSkip, SkipReqVersion,
       SkipReqTime, EndsDialog
  <2> QED
    BY <2>2, <2>3, <2>4
<1> QED
  BY <1>1, <1>2, <1>3 DEF Steady

LEMMA SetAutoSpaced ==
  ASSUME NEW p \in Proc, Inv, Spaced(session[p]), WriteAutoCheck(p) \/ WriteAutoLast(p)
  PROVE  Spaced(session[p])'
<1>0. /\ session \in [Proc -> Session] /\ user \in [Key -> Value] /\ now \in Nat \ {0}
      /\ lastAuto \in Nat /\ UNCHANGED <<host, now, lastAuto>>
  BY DEF Inv, TypeOK, WriteAutoCheck, WriteAutoLast, env, history
<1>1. CASE WriteAutoCheck(p)
  <2>1. session'[p].pc = "auto.last" /\ session'[p].arg = session[p].arg
    BY <1>0, <1>1, Locals DEF WriteAutoCheck
  <2>2. user'["AutoCheck"] = session[p].arg
    BY <1>0, <1>1 DEF WriteAutoCheck, Write, Key
  <2> QED
    BY <1>0, <2>1, <2>2 DEF Spaced
<1>2. CASE WriteAutoLast(p)
  <2>1. session'[p].pc \in {"idle", "avail", "install"}
    BY <1>0, <1>2, Locals DEF WriteAutoLast
  <2>2. /\ user'["AutoCheck"] = session[p].arg
        /\ session[p].arg = 1 => user'["AutoLast"] = now
    BY <1>0, <1>2 DEF WriteAutoLast, Write, Key, At, Spaced
  <2> QED
    BY <1>0, <2>1, <2>2 DEF Spaced
<1> QED
  BY <1>1, <1>2

(* Nothing but Reset changes how long a check lasts. *)
LEMMA SameCheckDays ==
  ASSUME host' = host, user'["AutoInterval"] = user["AutoInterval"]
  PROVE  CheckDays' = CheckDays
BY DEF CheckDays, Read, Present, Stored

LEMMA StatusSpaced ==
  ASSUME NEW p \in Proc, Inv, host.machine["AutoCheck"] = NoValue, Spaced(session[p]),
         StatusInterval(p) \/ StatusStamp(p) \/ StatusCheck(p) \/ LaterLast(p)
  PROVE  Spaced(session[p])'
<1>0. /\ session \in [Proc -> Session] /\ user \in [Key -> Value] /\ now \in Nat \ {0}
      /\ lastAuto \in Nat /\ UNCHANGED <<host, now>> /\ CheckDays \in Nat
      /\ session[p] \in Session
      /\ Stored("AutoLast") = user["AutoLast"]
  BY OwnHive, DaysType DEF Inv, TypeOK, Good, Key, Tunable, StatusInterval, StatusStamp,
     StatusCheck, LaterLast, env
<1>1. user'["AutoInterval"] = user["AutoInterval"] /\ user'["AutoCheck"] = user["AutoCheck"]
  BY <1>0 DEF StatusInterval, StatusStamp, StatusCheck, LaterLast, Write, Key
<1>2. CheckDays' = CheckDays
  BY <1>0, <1>1, SameCheckDays
<1>3. CASE StatusInterval(p)
  <2>1. /\ UNCHANGED <<user, lastAuto>> /\ session[p].pc = "status.last"
        /\ \/ End(p, 0)
           \/ \E l \in {"status.check", "status.stamp"} :
                /\ Become(p, [session[p] EXCEPT !.began = now, !.pc = l])
                /\ Read("AutoLast", 0) = 0 \/ Read("AutoLast", 0) + CheckDays <= now
                /\ l = "status.check" => Read("AutoLast", 0) = 0
    BY <1>3 DEF StatusInterval, Due, At, history
  <2>2. user["AutoCheck"] = 1 =>
          /\ Read("AutoLast", 0) = user["AutoLast"] /\ user["AutoLast"] \in Nat \ {0}
          /\ user["AutoLast"] >= lastAuto
    BY <1>0, <2>1 DEF Read, Present, Spaced
  <2>3. CASE End(p, 0)
    BY <1>0, <2>1, <2>2, <2>3, Locals DEF Spaced
  <2>4. CASE \E l \in {"status.check", "status.stamp"} :
                /\ Become(p, [session[p] EXCEPT !.began = now, !.pc = l])
                /\ Read("AutoLast", 0) = 0 \/ Read("AutoLast", 0) + CheckDays <= now
                /\ l = "status.check" => Read("AutoLast", 0) = 0
    <3>1. /\ session'[p].pc \in {"status.check", "status.stamp"} /\ session'[p].began = now
          /\ Read("AutoLast", 0) = 0 \/ Read("AutoLast", 0) + CheckDays <= now
          /\ session'[p].pc = "status.check" => Read("AutoLast", 0) = 0
      BY <1>0, <2>4 DEF Become, Session
    <3>2. user["AutoCheck"] = 1 =>
            session'[p].pc = "status.stamp" /\ now >= lastAuto + CheckDays
      BY <1>0, <2>2, <3>1
    <3> QED
      BY <1>0, <1>2, <2>1, <2>2, <3>1, <3>2 DEF Spaced
  <2> QED
    BY <2>1, <2>3, <2>4
<1>4. CASE StatusStamp(p)
  <2>1. /\ session'[p].pc = "status.check" /\ session[p].pc = "status.stamp"
        /\ session'[p].mode = session[p].mode /\ session'[p].began = session[p].began
    BY <1>0, <1>4, Locals DEF StatusStamp, At
  <2>2. user'["AutoLast"] = now /\ lastAuto' = lastAuto
    BY <1>0, <1>4 DEF StatusStamp, Write, Key, history
  <2> QED
    BY <1>0, <1>1, <1>2, <2>1, <2>2 DEF Spaced
<1>5. CASE StatusCheck(p)
  <2>1. /\ UNCHANGED user /\ session[p].pc = "status.check"
        /\ \/ lastAuto' = lastAuto
           \/ /\ session[p].mode = "Auto" /\ Read("AutoCheck", 0) = 1
              /\ lastAuto' = session[p].began
    BY <1>5 DEF StatusCheck, At
  <2>2. session'[p].pc \in {"idle", "avail", "prompt", "once"}
    <3>1. End(p, 0) \/ \E l \in {"avail", "prompt", "once"} :
                        Become(p, [session[p] EXCEPT !.pc = l, !.began = 0])
      BY <1>5 DEF StatusCheck
    <3>2. CASE End(p, 0)
      BY <1>0, <3>2, Locals
    <3>3. CASE \E l \in {"avail", "prompt", "once"} :
                 Become(p, [session[p] EXCEPT !.pc = l, !.began = 0])
      BY <1>0, <3>3 DEF Become, Session
    <3> QED
      BY <3>1, <3>2, <3>3
  <2>3. Read("AutoCheck", 0) = 1 => user["AutoCheck"] = 1
    BY SentinelAssumption DEF Read, Present, Stored
  <2>4. /\ lastAuto' <= now
        /\ user["AutoCheck"] = 1 => user["AutoLast"] \in Nat \ {0} /\ user["AutoLast"] >= lastAuto'
    BY <1>0, <2>1, <2>3 DEF Spaced, Session
  <2> QED
    BY <1>0, <2>1, <2>2, <2>4 DEF Spaced
<1>6. CASE LaterLast(p)
  <2>1. session'[p].pc = "later.version" /\ user'["AutoLast"] = now /\ lastAuto' = lastAuto
    BY <1>0, <1>6, Locals DEF LaterLast, Write, Key, history
  <2> QED
    BY <1>0, <2>1 DEF Spaced
<1> QED
  BY <1>3, <1>4, <1>5, <1>6

(* Reset wipes AutoCheck before AutoLast. *)
LEMMA ResetSpaced ==
  ASSUME NEW p \in Proc, Inv, Spaced(session[p]), Reset(p)
  PROVE  Spaced(session[p])'
<1> DEFINE i == session[p].arg
           k == ConfigKeys[i]
<1>0. /\ session \in [Proc -> Session] /\ user \in [Key -> Value] /\ i \in 1..7 /\ k \in Key
      /\ UNCHANGED <<host, now, lastAuto>> /\ session[p].pc = "reset"
  BY KeyFacts DEF Inv, TypeOK, Good, Reset, At, env
<1>1. /\ session'[p].pc \in {"reset", "idle"}
      /\ session'[p].pc = "reset" => session'[p].arg = i + 1
  BY <1>0, ResetGoes
<1>2. CASE ~Wipes
  <2>1. user' = user
    BY <1>2 DEF Reset
  <2>2. ~Wipes'
    BY <1>0, <1>2, <2>1 DEF Wipes, UserKeyExists
  <2> QED
    BY <1>0, <1>1, <2>1, <2>2 DEF Spaced
<1>3. CASE Wipes
  <2>1. user' = [user EXCEPT ![k] = Empty]
    BY <1>3 DEF Reset, Write
  <2>2. (i = 2 => k = "AutoCheck") /\ (i \in {1, 3} => k # "AutoLast")
    BY DEF ConfigKeys
  <2>3. i > 2 => user["AutoCheck"] # 1
    BY <1>0, <1>3 DEF Spaced
  <2> HIDE DEF i, k
  <2>4. user'["AutoCheck"] = user["AutoCheck"] \/ user'["AutoCheck"] = Empty
    BY <1>0, <2>1 DEF Key
  <2>5. i > 1 => user'["AutoCheck"] # 1
    <3>1. CASE i = 2
      BY <1>0, <2>1, <2>2, <3>1, SentinelAssumption DEF Key
    <3>2. CASE i > 2
      BY <2>3, <2>4, <3>2, SentinelAssumption
    <3> QED
      BY <1>0, <3>1, <3>2
  <2>6. user'["AutoCheck"] = 1 => user["AutoCheck"] = 1 /\ user'["AutoLast"] = user["AutoLast"]
    BY <1>0, <2>1, <2>2, <2>4, <2>5, SentinelAssumption DEF Key
  <2>7. session'[p].pc = "reset" /\ session'[p].arg > 2 => user'["AutoCheck"] # 1
    BY <1>0, <1>1, <2>5
  <2> QED
    BY <1>0, <1>1, <2>6, <2>7 DEF Spaced
<1> QED
  BY <1>2, <1>3

LEMMA SpacedNext ==
  ASSUME NEW c, Proc = {c}, Inv, SpacedUnlessFault(session[c]), [Next]_vars
  PROVE  SpacedUnlessFault(session[c])'
<1> SUFFICES ASSUME faults' = 0, host'.machine["AutoCheck"] = NoValue
             PROVE  Spaced(session[c])'
  BY DEF SpacedUnlessFault
<1>0. /\ session \in [Proc -> Session] /\ user \in [Key -> Value] /\ now \in Nat
      /\ c \in Proc /\ faults \in Nat /\ lastAuto \in Nat
  BY BoundAssumption DEF Inv, TypeOK
<1>1. faults = 0 /\ host' = host
  BY <1>0, FaultsGrow DEF Next, Tick, Publish, vars
<1>2. Spaced(session[c]) /\ host.machine["AutoCheck"] = NoValue
  BY <1>1 DEF SpacedUnlessFault
<1>3. CASE Start(c) \/ Program(c) \/ Choice(c) \/ RegistryThrows(c) \/ Crash(c)
  <2>1. CASE Steady(c)
    BY <1>0, <1>2, <2>1, SteadySpaced
  <2>2. ~RegistryThrows(c) /\ ~Crash(c)
    BY <1>1 DEF RegistryThrows, Crash
  <2>3. CASE ~Steady(c)
    BY <1>0, <1>2, <1>3, <2>2, <2>3, AskingSteady, OfferingSteady, SkippingSteady, SetAutoSpaced,
       StatusSpaced, ResetSpaced DEF Program, Choice
  <2> QED
    BY <2>1, <2>3
<1>4. CASE Tick
  <2>1. UNCHANGED <<host, user, session, lastAuto>> /\ now' = now + 1
    BY <1>4 DEF Tick, history
  <2>2. CheckDays' = CheckDays
    BY <2>1, SameCheckDays
  <2>3. session[c].pc \in {"status.stamp", "status.check"} => session[c].began \in Nat
    BY <1>0 DEF Session
  <2> QED
    BY <1>0, <1>2, <2>1, <2>2, <2>3 DEF Spaced, Wipes, UserKeyExists
<1>5. CASE Publish \/ UNCHANGED vars
  <2>1. UNCHANGED <<host, user, session, lastAuto, now>>
    BY <1>5 DEF Publish, history, vars
  <2> QED
    BY <1>2, <2>1 DEF Spaced, Wipes, UserKeyExists, CheckDays, Read, Present, Stored
<1> QED
  BY <1>0, <1>3, <1>4, <1>5 DEF Next

(* With one copy, while nothing fails, two automatic checks are decided at   *)
(* least the configured interval apart, when the switch that allows them is  *)
(* the one SetAuto writes, stamp and all: neither an administrator's nor a   *)
(* hand-made one, which carry no stamp.  AutoUpdater.cpp:18-19, 456-484.     *)
THEOREM ChecksAreSpaced ==
  ASSUME NEW c, Proc = {c}, \A h \in Configured : h["AutoCheck"] # 1
  PROVE  Spec => ChecksSpacedUnlessFault
<1>1. Init => SpacedUnlessFault(session[c])
  BY NoSessionFacts DEF Init, SpacedUnlessFault, Spaced
<1>2. Inv /\ SpacedUnlessFault(session[c]) /\ [Next]_vars => SpacedUnlessFault(session[c])'
  BY SpacedNext
<1>3. Inv /\ SpacedUnlessFault(session[c]) /\ [Next]_vars
        => [\A p \in Proc : faults = 0 /\ host.machine["AutoCheck"] = NoValue => SpacedCheck(p)]_vars
  <2> SUFFICES ASSUME Inv, Spaced(session[c]), Next, SilentCheck(c), session[c].mode = "Auto",
                      host.machine["AutoCheck"] = NoValue
               PROVE  session[c].began >= lastAuto + CheckDays
    BY DEF vars, SpacedUnlessFault, SpacedCheck
  <2>1. StatusCheck(c) /\ session[c].pc = "status.check" /\ session'[c].pc = "avail"
        /\ session \in [Proc -> Session] /\ c \in Proc
    BY SilentCheckByStatus DEF SilentCheck, At, Inv, TypeOK
  <2>2. Read("AutoCheck", 0) = 1
    <3> SUFFICES ASSUME Read("AutoCheck", 0) # 1 PROVE FALSE
      OBVIOUS
    <3>1. End(c, 0) \/ \E l \in {"prompt", "once"} :
                        Become(c, [session[c] EXCEPT !.pc = l, !.began = 0])
      BY <2>1 DEF StatusCheck
    <3>2. CASE End(c, 0)
      BY <2>1, <3>2, Locals
    <3>3. CASE \E l \in {"prompt", "once"} :
                 Become(c, [session[c] EXCEPT !.pc = l, !.began = 0])
      BY <2>1, <3>3 DEF Become, Session
    <3> QED
      BY <3>1, <3>2, <3>3
  <2>3. user["AutoCheck"] = 1
    BY <2>2, SentinelAssumption DEF Read, Present, Stored
  <2> QED
    BY <2>1, <2>3 DEF Spaced
<1> QED
  BY <1>1, <1>2, <1>3, InvAlways, PTL DEF Spec, ChecksSpacedUnlessFault

=============================================================================

----------------------------- MODULE LoggerProofs -----------------------------
(***************************************************************************)
(* The table of the threads' buffers, for any number of ids and slots, and  *)
(* however often Windows gives an id to a new thread.                       *)
(***************************************************************************)
EXTENDS Logger, FiniteSetTheorems, TLAPS

Row     == [tid : Tid, data : Buffer \cup {NoData}]
Holding == {"compose", "end.find", "end.write", "close.write"}
Making  == {"log.make", "end.make", "close.make"}
Bare    == Pc \ (Holding \cup {"crashed"})

TypeOK ==
  /\ pc \in [Tid -> Pc]
  /\ self \in [Tid -> Buffer \cup {NoData, Stray}]
  /\ table \in Seq(Row) /\ Len(table) <= Slots

(* An id has one slot, and no buffer is in two. *)
Distinct(rows) ==
  \A i, j \in DOMAIN rows :
    rows[i].tid = rows[j].tid \/ (rows[i].data = rows[j].data /\ rows[i].data # NoData) => i = j

InSlot(rows, t, b) == \E i \in DOMAIN rows : rows[i].tid = t /\ rows[i].data = b

(* Where a thread's buffer is when it has one, that there was no room when   *)
(* it has a stray one, and that it makes one only when it has none.          *)
Housed(t) ==
  /\ self[t] \in Buffer => InSlot(table, t, self[t])
  /\ self[t] = Stray => Len(table) = Slots /\ \A i \in DOMAIN table : table[i].tid # t
  /\ pc[t] \in Holding => self[t] # NoData
  /\ pc[t] \in Bare => self[t] = NoData
  /\ pc[t] \in Making => \A i \in DOMAIN table : table[i].tid = t => table[i].data = NoData

Allocated == buffers = {b \in Buffer : \E i \in DOMAIN table : table[i].data = b}

(* The inductive invariant. *)
Inv ==
  /\ TypeOK
  /\ Distinct(table) /\ Allocated
  /\ \A t \in Tid : Housed(t)

-----------------------------------------------------------------------------
LEMMA Values ==
  /\ NoData \notin Buffer /\ Stray \notin Buffer /\ NoData # Stray
  /\ Buffer \subseteq Nat
BY LoggerAssumption DEF NoData, Stray, Buffer

(* The slot of an id is the one row that has it. *)
LEMMA SlotFacts ==
  ASSUME TypeOK, Distinct(table), NEW t \in Tid
  PROVE  /\ Slot(t) = 0 => \A i \in DOMAIN table : table[i].tid # t
         /\ Slot(t) # 0 => Slot(t) \in DOMAIN table /\ table[Slot(t)].tid = t
         /\ \A i \in DOMAIN table : table[i].tid = t => Slot(t) = i
<1>0. DOMAIN table = 1..Len(table) /\ Len(table) \in Nat
  BY DEF TypeOK
<1> DEFINE I == {i \in 1..Len(table) : table[i].tid = t}
<1>1. Slot(t) = IF I # {} THEN Min(I) ELSE 0
  BY DEF Slot, SelectInSeq
<1>2. ASSUME NEW i \in DOMAIN table, table[i].tid = t
      PROVE  Slot(t) = i
  <2>1. I = {i} /\ i \in Nat
    BY <1>0, <1>2 DEF Distinct
  <2> HIDE DEF I
  <2>2. Min(I) = i
    BY <2>1 DEF Min
  <2> QED
    BY <1>1, <2>1, <2>2
<1>3. ASSUME Slot(t) # 0
      PROVE  Slot(t) \in DOMAIN table /\ table[Slot(t)].tid = t
  <2>1. PICK i \in DOMAIN table : table[i].tid = t
    BY <1>0, <1>1, <1>3
  <2> QED
    BY <1>2, <2>1
<1>4. Slot(t) = 0 => \A i \in DOMAIN table : table[i].tid # t
  <2>1. \A i \in DOMAIN table : i # 0
    BY <1>0
  <2> QED
    BY <1>2, <2>1
<1> QED
  BY <1>2, <1>3, <1>4

(* There is always a buffer to allocate: one more than there are slots. *)
LEMMA FreshBuffer ==
  ASSUME Inv
  PROVE  \E b \in Buffer : b \notin buffers
<1> SUFFICES ASSUME \A b \in Buffer : b \in buffers PROVE FALSE
  OBVIOUS
<1>1. DOMAIN table = 1..Len(table) /\ Len(table) \in Nat /\ Len(table) <= Slots /\ Slots \in Nat
  BY LoggerAssumption DEF Inv, TypeOK
<1> DEFINE f == [b \in Buffer |-> CHOOSE i \in DOMAIN table : table[i].data = b]
<1>2. \A b \in Buffer : f[b] \in DOMAIN table /\ table[f[b]].data = b
  BY DEF Inv, Allocated
<1>3. f \in [Buffer -> 1..Len(table)]
  BY <1>1, <1>2
<1>4. IsFiniteSet(Buffer) /\ Cardinality(Buffer) = Slots + 1
  BY <1>1, FS_Interval DEF Buffer
<1>5. IsFiniteSet(1..Len(table)) /\ Cardinality(1..Len(table)) = Len(table)
  <2>1. ASSUME NEW n \in Nat PROVE IsFiniteSet(1..n) /\ Cardinality(1..n) = n
    <3>1. 1 \in Int /\ n \in Int
      OBVIOUS
    <3>2. IsFiniteSet(1..n) /\ Cardinality(1..n) = IF 1 > n THEN 0 ELSE n - 1 + 1
      BY <3>1, FS_Interval, Zenon
    <3> QED
      BY <3>2
  <2> QED
    BY <1>1, <2>1
<1>6. Cardinality(1..Len(table)) < Cardinality(Buffer)
  BY <1>1, <1>4, <1>5
<1> HIDE DEF f
<1>7. \E x, y \in Buffer : x # y /\ f[x] = f[y]
  BY <1>3, <1>4, <1>5, <1>6, FS_PigeonHole
<1> QED
  BY <1>2, <1>7

-----------------------------------------------------------------------------
(* A step that leaves the table and what the threads found in it. *)
LEMMA MoveInv ==
  ASSUME Inv, UNCHANGED <<table, buffers, self>>, pc' \in [Tid -> Pc],
         \A t \in Tid : \/ pc'[t] = "crashed"
                        \/ /\ pc'[t] \in Holding => pc[t] \in Holding
                           /\ pc'[t] \in Bare => pc[t] \in Bare
                           /\ pc'[t] \in Making => pc[t] \in Making
  PROVE  Inv'
<1>1. TypeOK' /\ Distinct(table)' /\ Allocated'
  BY DEF Inv, TypeOK, Distinct, Allocated
<1>2. ASSUME NEW t \in Tid PROVE Housed(t)'
  BY DEF Inv, Housed, InSlot, Holding, Bare, Making
<1> QED
  BY <1>1, <1>2 DEF Inv

(* A thread's step changes where it is, and no other thread. *)
LEMMA AtFacts ==
  ASSUME Inv, NEW t \in Tid, NEW here, NEW next \in Pc, At(t, here, next)
  PROVE  /\ pc' \in [Tid -> Pc] /\ pc[t] = here /\ pc'[t] = next
         /\ \A u \in Tid : u # t => pc'[u] = pc[u]
BY DEF At, Inv, TypeOK

LEMMA MovesInv ==
  ASSUME Inv, NEW t \in Tid,
         \/ Log(t) \/ Compose(t) \/ OpenInstance \/ ReleaseInstance \/ ThreadStarts(t)
         \/ DetachEnters(t) \/ CallStarts \/ CallEnds
  PROVE  Inv'
<1>1. UNCHANGED <<table, buffers, self>>
  BY DEF Log, Compose, GetInstance, OpenInstance, ReleaseInstance, ThreadStarts, DetachEnters,
     CallStarts, CallEnds
<1>2. ASSUME NEW u \in Tid, NEW here, NEW next \in Pc, At(u, here, next),
             next \in Holding => here \in Holding, next \in Bare => here \in Bare,
             next \notin Making
      PROVE  Inv'
  <2>1. \A v \in Tid : /\ pc'[v] \in Holding => pc[v] \in Holding
                       /\ pc'[v] \in Bare => pc[v] \in Bare
                       /\ pc'[v] \in Making => pc[v] \in Making
    BY <1>2, AtFacts
  <2> QED
    BY <1>1, <1>2, <2>1, AtFacts, MoveInv
<1> USE DEF Pc, Holding, Bare, Making
<1>3. Client \in Tid
  BY DEF Tid
<1>4. CASE Log(t)
  <2>1. At(t, "idle", "log.find")
    BY <1>4 DEF Log, GetInstance
  <2> QED
    BY <1>2, <2>1
<1>5. CASE Compose(t)
  <2>1. At(t, "compose", "end.find")
    BY <1>5 DEF Compose, GetInstance
  <2> QED
    BY <1>2, <2>1
<1>6. CASE OpenInstance
  <2>1. At(Client, "open", "idle")
    BY <1>6 DEF OpenInstance
  <2> QED
    BY <1>2, <1>3, <2>1
<1>7. CASE ReleaseInstance
  <2>1. At(Client, "release", "idle") \/ At(Client, "release", "close.find")
    BY <1>7 DEF ReleaseInstance
  <2> QED
    BY <1>2, <1>3, <2>1
<1>8. CASE ThreadStarts(t)
  <2>1. At(t, "dead", "idle")
    BY <1>8 DEF ThreadStarts
  <2> QED
    BY <1>2, <2>1
<1>9. CASE DetachEnters(t)
  <2>1. At(t, "idle", "detach")
    BY <1>9 DEF DetachEnters
  <2> QED
    BY <1>2, <2>1
<1>10. CASE CallStarts \/ CallEnds
  <2>1. At(Client, "idle", "open") \/ At(Client, "idle", "release")
    BY <1>10 DEF CallStarts, CallEnds
  <2> QED
    BY <1>2, <1>3, <2>1
<1> QED
  BY <1>4, <1>5, <1>6, <1>7, <1>8, <1>9, <1>10

LEMMA CrashInv ==
  ASSUME Inv, NEW t \in Tid, Crash(t)
  PROVE  Inv'
<1>1. pc' \in [Tid -> Pc] /\ \A u \in Tid : pc'[u] = "crashed"
  BY DEF Crash, Pc
<1>2. UNCHANGED <<table, buffers, self>>
  BY DEF Crash
<1> QED
  BY <1>1, <1>2, MoveInv

-----------------------------------------------------------------------------
(* A step of one thread that keeps the table. *)
LEMMA SelfInv ==
  ASSUME Inv, NEW t \in Tid, NEW here, NEW next \in Pc, At(t, here, next),
         UNCHANGED <<table, buffers>>,
         NEW b \in Buffer \cup {NoData}, self' = [self EXCEPT ![t] = b],
         b \in Buffer => InSlot(table, t, b),
         next \in Holding => b # NoData, next \in Bare => b = NoData,
         next \in Making => \A i \in DOMAIN table : table[i].tid = t => table[i].data = NoData
  PROVE  Inv'
<1>1. self' \in [Tid -> Buffer \cup {NoData, Stray}] /\ self'[t] = b
      /\ \A u \in Tid : u # t => self'[u] = self[u]
  BY DEF Inv, TypeOK
<1>2. TypeOK' /\ Distinct(table)' /\ Allocated'
  BY <1>1, AtFacts DEF Inv, TypeOK, Distinct, Allocated
<1>3. ASSUME NEW u \in Tid PROVE Housed(u)'
  <2>1. CASE u = t
    BY <1>1, <2>1, AtFacts, Values DEF Housed, InSlot
  <2>2. CASE u # t
    BY <1>1, <2>2, AtFacts DEF Inv, Housed, InSlot
  <2> QED
    BY <2>1, <2>2
<1> QED
  BY <1>2, <1>3 DEF Inv

(* Get and Flush find the buffer that is in the thread's slot. *)
LEMMA FindInv ==
  ASSUME Inv, NEW t \in Tid, NEW here, NEW found \in Pc, NEW make \in Pc,
         Find(t, here, found, make), found \notin Bare \cup Making, make \notin Holding
  PROVE  Inv'
<1> DEFINE data == IF Slot(t) = 0 THEN NoData ELSE table[Slot(t)].data
           next == IF data = NoData THEN make ELSE found
<1>1. data \in Buffer \cup {NoData} /\ (data # NoData => InSlot(table, t, data))
  <2>1. CASE Slot(t) = 0
    BY <2>1
  <2>2. CASE Slot(t) # 0
    <3>1. Slot(t) \in DOMAIN table /\ table[Slot(t)].tid = t
      BY <2>2, SlotFacts DEF Inv
    <3>2. table[Slot(t)] \in Row
      BY <3>1 DEF Inv, TypeOK
    <3> QED
      BY <2>2, <3>1, <3>2 DEF InSlot, Row
  <2> QED
    BY <2>1, <2>2
<1>2. At(t, here, next) /\ self' = [self EXCEPT ![t] = data] /\ UNCHANGED <<table, buffers>>
  BY DEF Find
<1>3. next \in Pc /\ (next \in Holding => data # NoData) /\ (next \in Bare => data = NoData)
  OBVIOUS
<1>5. data = NoData => \A i \in DOMAIN table : table[i].tid = t => table[i].data = NoData
  BY SlotFacts DEF Inv
<1>6. next \in Making => data = NoData
  OBVIOUS
<1> HIDE DEF data, next
<1>4. data \in Buffer => InSlot(table, t, data)
  BY <1>1, Values
<1> QED
  BY <1>1, <1>2, <1>3, <1>4, <1>5, <1>6, SelfInv

(* A line is out, or the Logger is. *)
LEMMA FlushInv ==
  ASSUME Inv, NEW t \in Tid, Write(t) \/ (t = Client /\ Deleted)
  PROVE  Inv'
<1>1. \E here \in Pc : At(t, here, "idle")
  BY DEF Write, Deleted, Pc
<1>2. self' = [self EXCEPT ![t] = NoData] /\ UNCHANGED <<table, buffers>>
  BY DEF Write, Deleted
<1>3. "idle" \in Pc /\ "idle" \notin Holding /\ "idle" \notin Making
  BY DEF Pc, Holding, Making
<1> QED
  BY <1>1, <1>2, <1>3, SelfInv, Values

-----------------------------------------------------------------------------
(* A thread makes a buffer. *)
LEMMA MakeInv ==
  ASSUME Inv, NEW t \in Tid, NEW here \in Making, NEW made \in Holding, Make(t, here, made)
  PROVE  Inv'
<1> DEFINE fresh == CHOOSE b \in Buffer : b \notin buffers
<1>1. fresh \in Buffer /\ fresh \notin buffers
  BY FreshBuffer
<1>2. At(t, here, made) /\ made \in Pc /\ made \notin Bare /\ made \notin Making
  BY DEF Make, Holding, Pc, Bare, Making
<1>3. pc' \in [Tid -> Pc] /\ pc[t] = here /\ pc'[t] = made
      /\ \A u \in Tid : u # t => pc'[u] = pc[u]
  BY <1>2, AtFacts
<1>4. table \in Seq(Row) /\ DOMAIN table = 1..Len(table) /\ Len(table) \in Nat
      /\ Slots \in Nat /\ Len(table) <= Slots
  BY LoggerAssumption DEF Inv, TypeOK
<1>5. \A i \in DOMAIN table : table[i] \in Row /\ table[i].data # fresh
  BY <1>1, <1>4 DEF Inv, Allocated
<1>6. ASSUME NEW b \in Buffer \cup {Stray}, self' = [self EXCEPT ![t] = b]
      PROVE  /\ self' \in [Tid -> Buffer \cup {NoData, Stray}] /\ self'[t] = b
             /\ \A u \in Tid : u # t => self'[u] = self[u]
  BY <1>6 DEF Inv, TypeOK
<1>7. CASE Slot(t) = 0 /\ Len(table) = Slots
  <2>1. self' = [self EXCEPT ![t] = Stray] /\ UNCHANGED <<table, buffers>>
    BY <1>7 DEF Make
  <2>2. TypeOK' /\ Distinct(table)' /\ Allocated'
    BY <1>3, <1>6, <2>1 DEF Inv, TypeOK, Distinct, Allocated
  <2>3. \A i \in DOMAIN table : table[i].tid # t
    BY <1>7, SlotFacts DEF Inv
  <2>4. ASSUME NEW u \in Tid PROVE Housed(u)'
    <3>1. CASE u = t
      BY <1>2, <1>3, <1>6, <1>7, <2>1, <2>3, <3>1, Values DEF Housed
    <3>2. CASE u # t
      BY <1>3, <1>6, <2>1, <3>2 DEF Inv, Housed, InSlot
    <3> QED
      BY <3>1, <3>2
  <2> QED
    BY <2>2, <2>4 DEF Inv
<1>8. CASE Slot(t) = 0 /\ Len(table) # Slots
  <2> DEFINE row == [tid |-> t, data |-> fresh]
  <2>1. self' = [self EXCEPT ![t] = fresh] /\ buffers' = buffers \cup {fresh}
        /\ table' = Append(table, row)
    BY <1>8 DEF Make
  <2>2. \A i \in DOMAIN table : table[i].tid # t
    BY <1>8, SlotFacts DEF Inv
  <2>3. row \in Row /\ row.tid = t /\ row.data = fresh
    BY <1>1 DEF Row
  <2> HIDE DEF fresh, row
  <2>4. /\ table' \in Seq(Row) /\ Len(table') = Len(table) + 1 /\ DOMAIN table' = 1..Len(table')
        /\ \A i \in DOMAIN table : i \in DOMAIN table' /\ table'[i] = table[i]
        /\ Len(table') \in DOMAIN table' /\ table'[Len(table')] = row
        /\ \A i \in DOMAIN table' : i \in DOMAIN table \/ i = Len(table')
    BY <1>4, <2>1, <2>3
  <2>5. TypeOK'
    <3>1. Len(table') <= Slots
      <4>1. ASSUME NEW n \in Nat, n <= Slots, n # Slots PROVE n + 1 <= Slots
        BY <1>4, <4>1
      <4>2. Len(table) + 1 <= Slots
        BY <1>4, <1>8, <4>1
      <4> QED
        BY <2>4, <4>2
    <3>2. self' \in [Tid -> Buffer \cup {NoData, Stray}]
      BY <1>1, <1>6, <2>1
    <3> QED
      BY <1>3, <2>4, <3>1, <3>2 DEF TypeOK
  <2>6. Distinct(table')
    BY <1>5, <2>2, <2>3, <2>4 DEF Inv, Distinct
  <2>7. Allocated'
    BY <1>1, <2>1, <2>3, <2>4 DEF Inv, Allocated
  <2>8. ASSUME NEW u \in Tid PROVE Housed(u)'
    <3>1. CASE u = t
      BY <1>1, <1>2, <1>3, <1>6, <2>1, <2>3, <2>4, <3>1, Values DEF Housed, InSlot
    <3>2. CASE u # t
      <4>1. self[u] # Stray
        BY <1>4, <1>8 DEF Inv, Housed
      <4> QED
        BY <1>1, <1>3, <1>6, <2>1, <2>3, <2>4, <3>2, <4>1 DEF Inv, Housed, InSlot
    <3> QED
      BY <3>1, <3>2
  <2> QED
    BY <2>5, <2>6, <2>7, <2>8 DEF Inv, Distinct
<1>9. CASE Slot(t) # 0
  <2> DEFINE k == Slot(t)
             row == [table[k] EXCEPT !.data = fresh]
  <2>1. self' = [self EXCEPT ![t] = fresh] /\ buffers' = buffers \cup {fresh}
        /\ table' = [table EXCEPT ![k] = row]
    BY <1>9 DEF Make
  <2>2. k \in DOMAIN table /\ table[k].tid = t /\ table[k].data = NoData
    BY <1>3, <1>9, SlotFacts DEF Inv, Housed
  <2>3. row \in Row /\ row.tid = t /\ row.data = fresh
    BY <1>1, <1>5, <2>2 DEF Row
  <2> HIDE DEF fresh, k, row
  <2>4. /\ table' \in Seq(Row) /\ Len(table') = Len(table) /\ DOMAIN table' = DOMAIN table
        /\ table'[k] = row
        /\ \A i \in DOMAIN table : i # k => table'[i] = table[i]
    BY <1>4, <2>1, <2>2, <2>3
  <2>5. TypeOK'
    BY <1>1, <1>3, <1>4, <1>6, <2>1, <2>4 DEF TypeOK
  <2>6. Distinct(table')
    BY <1>5, <2>2, <2>3, <2>4 DEF Inv, Distinct
  <2>7. Allocated'
    BY <1>1, <2>1, <2>2, <2>3, <2>4, Values DEF Inv, Allocated
  <2>8. ASSUME NEW u \in Tid PROVE Housed(u)'
    <3>1. CASE u = t
      BY <1>1, <1>2, <1>3, <1>6, <2>1, <2>2, <2>3, <2>4, <3>1, Values DEF Housed, InSlot
    <3>2. CASE u # t
      BY <1>1, <1>3, <1>6, <2>1, <2>2, <2>3, <2>4, <3>2, Values DEF Inv, Housed, InSlot
    <3> QED
      BY <3>1, <3>2
  <2> QED
    BY <2>5, <2>6, <2>7, <2>8 DEF Inv, Distinct
<1> QED
  BY <1>7, <1>8, <1>9

(* A thread ends: its buffer is deleted, and its id keeps the slot. *)
LEMMA DetachInv ==
  ASSUME Inv, NEW t \in Tid, DetachDestroys(t)
  PROVE  Inv'
<1>1. At(t, "detach", "dead") /\ self' = self
  BY DEF DetachDestroys
<1>2. pc' \in [Tid -> Pc] /\ pc[t] = "detach" /\ pc'[t] = "dead"
      /\ \A u \in Tid : u # t => pc'[u] = pc[u]
  BY <1>1, AtFacts DEF Pc
<1>3. "detach" \in Bare /\ "dead" \notin Holding \cup Making
  BY DEF Bare, Holding, Making, Pc
<1>4. table \in Seq(Row) /\ DOMAIN table = 1..Len(table)
  BY DEF Inv, TypeOK
<1>5. CASE Slot(t) = 0
  <2>1. UNCHANGED <<table, buffers, self>>
    BY <1>5 DEF DetachDestroys
  <2>2. \A u \in Tid : /\ pc'[u] \in Holding => pc[u] \in Holding
                       /\ pc'[u] \in Bare => pc[u] \in Bare
                       /\ pc'[u] \in Making => pc[u] \in Making
    BY <1>2, <1>3
  <2> QED
    BY <1>2, <2>1, <2>2, MoveInv
<1>6. CASE Slot(t) # 0
  <2> DEFINE k == Slot(t)
             row == [table[k] EXCEPT !.data = NoData]
             gone == table[k].data
  <2>1. buffers' = buffers \ {gone} /\ table' = [table EXCEPT ![k] = row]
    BY <1>6 DEF DetachDestroys
  <2>2. k \in DOMAIN table /\ table[k].tid = t /\ table[k].data = gone
    BY <1>6, SlotFacts DEF Inv
  <2>3. row \in Row /\ row.tid = t /\ row.data = NoData
    <3>1. table[k] \in Row
      BY <1>4, <2>2
    <3> QED
      BY <2>2, <3>1 DEF Row
  <2> HIDE DEF k, row, gone
  <2>4. /\ table' \in Seq(Row) /\ Len(table') = Len(table) /\ DOMAIN table' = DOMAIN table
        /\ table'[k] = row
        /\ \A i \in DOMAIN table : i # k => table'[i] = table[i]
    BY <1>4, <2>1, <2>2, <2>3
  <2>5. TypeOK'
    BY <1>1, <1>2, <2>4 DEF Inv, TypeOK
  <2>6. Distinct(table')
    BY <2>2, <2>3, <2>4 DEF Inv, Distinct
  <2>7. Allocated'
    BY <2>1, <2>2, <2>3, <2>4, Values DEF Inv, Allocated, Distinct
  <2>8. ASSUME NEW u \in Tid PROVE Housed(u)'
    <3>1. CASE u = t
      <4>1. self'[t] = NoData
        BY <1>1, <1>2, <1>3 DEF Inv, Housed
      <4> QED
        BY <1>2, <1>3, <3>1, <4>1, Values DEF Housed
    <3>2. CASE u # t
      BY <1>1, <1>2, <2>2, <2>3, <2>4, <3>2 DEF Inv, Housed, InSlot
    <3> QED
      BY <3>1, <3>2
  <2> QED
    BY <2>5, <2>6, <2>7, <2>8 DEF Inv, Distinct
<1> QED
  BY <1>5, <1>6

-----------------------------------------------------------------------------
THEOREM InitInv == Init => Inv
<1> SUFFICES ASSUME Init PROVE Inv
  OBVIOUS
<1>1. TypeOK
  <2>1. pc \in [Tid -> Pc]
    BY DEF Init, Pc
  <2> QED
    BY <2>1, LoggerAssumption DEF Init, TypeOK
<1>2. Distinct(table) /\ Allocated
  BY DEF Init, Distinct, Allocated
<1>3. ASSUME NEW t \in Tid PROVE Housed(t)
  BY Values DEF Init, Housed, Holding, Making
<1> QED
  BY <1>1, <1>2, <1>3 DEF Inv

THEOREM StepInv == Inv /\ [Next]_vars => Inv'
<1> SUFFICES ASSUME Inv, [Next]_vars PROVE Inv'
  OBVIOUS
<1> USE DEF Pc, Holding, Making, Bare
<1>1. ASSUME NEW t \in Tid, Proceeds(t) PROVE Inv'
  <2>1. CASE Find(t, "log.find", "compose", "log.make")
    BY <2>1, FindInv
  <2>2. CASE Find(t, "end.find", "end.write", "end.make")
    BY <2>2, FindInv
  <2>3. CASE Find(t, "close.find", "close.write", "close.make")
    BY <2>3, FindInv
  <2>4. CASE Make(t, "log.make", "compose")
    BY <2>4, MakeInv
  <2>5. CASE Make(t, "end.make", "end.write")
    BY <2>5, MakeInv
  <2>6. CASE Make(t, "close.make", "close.write")
    BY <2>6, MakeInv
  <2>7. CASE Compose(t) \/ (t = Client /\ (OpenInstance \/ ReleaseInstance))
    BY <2>7, MovesInv
  <2>8. CASE Write(t) \/ (t = Client /\ Deleted)
    BY <2>8, FlushInv
  <2>9. CASE Crash(t)
    BY <2>9, CrashInv
  <2>10. CASE DetachDestroys(t)
    BY <2>10, DetachInv
  <2> QED
    BY <1>1, <2>1, <2>2, <2>3, <2>4, <2>5, <2>6, <2>7, <2>8, <2>9, <2>10 DEF Proceeds
<1>2. ASSUME NEW t \in Tid, Log(t) \/ ThreadStarts(t) \/ DetachEnters(t) \/ CallStarts \/ CallEnds
      PROVE  Inv'
  BY <1>2, MovesInv
<1>3. Client \in Tid
  BY DEF Tid
<1>4. CASE UNCHANGED vars
  <2>1. UNCHANGED <<table, buffers, self, pc>>
    BY <1>4 DEF vars
  <2> QED
    BY <2>1, MoveInv DEF Inv, TypeOK
<1> QED
  BY <1>1, <1>2, <1>3, <1>4 DEF Next

THEOREM Invariance == Spec => []Inv
BY InitInv, StepInv, PTL DEF Spec

-----------------------------------------------------------------------------
(* However often ids come back, and whatever other threads log meanwhile, a  *)
(* thread composes its line in a buffer that is allocated, is in the slot of *)
(* its id and is no other thread's.                                          *)
THEOREM BufferIsOwn == Spec => []OwnBuffer
<1>1. Inv => OwnBuffer
  <2> SUFFICES ASSUME Inv, NEW t \in Tid, pc[t] \in {"compose", "end.find", "end.write"},
                      self[t] # Stray
               PROVE  /\ self[t] \in buffers
                      /\ Slot(t) # 0 /\ table[Slot(t)].data = self[t]
                      /\ \A u \in Tid \ {t} : self[u] # self[t]
    BY DEF OwnBuffer
  <2>1. self[t] \in Buffer /\ self[t] # NoData /\ InSlot(table, t, self[t])
    BY Values DEF Inv, TypeOK, Housed, Holding
  <2>2. PICK i \in DOMAIN table : table[i].tid = t /\ table[i].data = self[t]
    BY <2>1 DEF InSlot
  <2>3. Slot(t) = i /\ i # 0
    <3>1. DOMAIN table = 1..Len(table)
      BY DEF Inv, TypeOK
    <3> QED
      BY <2>2, <3>1, SlotFacts DEF Inv
  <2>4. self[t] \in buffers
    BY <2>1, <2>2 DEF Inv, Allocated
  <2>5. ASSUME NEW u \in Tid \ {t}, self[u] = self[t] PROVE FALSE
    <3>1. PICK j \in DOMAIN table : table[j].tid = u /\ table[j].data = self[u]
      BY <2>1, <2>5 DEF Inv, Housed, InSlot
    <3> QED
      BY <2>1, <2>2, <2>5, <3>1 DEF Inv, Distinct
  <2> QED
    BY <2>2, <2>3, <2>4, <2>5
<1> QED
  BY <1>1, Invariance, PTL

(* A line is lost only when every slot is taken by another id. *)
THEOREM SlotsAreEnough == Spec => []SlotsSuffice
<1>1. Inv => SlotsSuffice
  <2> SUFFICES ASSUME Inv, NEW t \in Tid, self[t] = Stray
               PROVE  /\ Len(table) = Slots
                      /\ {table[i].tid : i \in DOMAIN table} \subseteq Tid \ {t}
                      /\ \A i, j \in DOMAIN table : table[i].tid = table[j].tid => i = j
    BY DEF SlotsSuffice
  <2>1. Len(table) = Slots /\ \A i \in DOMAIN table : table[i].tid # t
    BY DEF Inv, Housed
  <2>2. \A i \in DOMAIN table : table[i].tid \in Tid
    <3>1. \A i \in DOMAIN table : table[i] \in Row
      BY DEF Inv, TypeOK
    <3> QED
      BY <3>1 DEF Row
  <2>3. \A i, j \in DOMAIN table : table[i].tid = table[j].tid => i = j
    BY DEF Inv, Distinct
  <2> QED
    BY <2>1, <2>2, <2>3
<1> QED
  BY <1>1, Invariance, PTL
=============================================================================

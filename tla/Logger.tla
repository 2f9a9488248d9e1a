------------------------------- MODULE Logger -------------------------------
(***************************************************************************)
(* The diagnostic log of libautoupdater.  A thread composes a line in a     *)
(* buffer of its own, found by its thread id in a table of the DLL, and     *)
(* flushes it to the one Logger, which the client opens and deletes with    *)
(* each call.  lock_ guards the Logger, tls_lock the table; the threads are *)
(* the client's, the workers and callbacks of the downloads, and the        *)
(* progress dialog's, and Windows gives the id of a dead thread to a new    *)
(* one.                                                                     *)
(***************************************************************************)
EXTENDS Integers, Sequences, SequencesExt

CONSTANTS
  Client,   \* the id of the application's thread
  Worker,   \* the ids of the others
  Slots,    \* the length of tls_values
  Calls,    \* bound: calls of the client
  Lives     \* bound: threads that have the same id

Tid == Worker \cup {Client}

ASSUME LoggerAssumption ==
  /\ Client \notin Worker
  /\ Slots \in Nat \ {0} /\ Calls \in Nat /\ Lives \in Nat

VARIABLES
  lock, tlsLock,  \* who holds the critical sections
  table,          \* tls_values up to its first free slot
  buffers,        \* the thread_instances that are allocated and in the table
  instance,       \* global_instance_: there is none, or its file is closed, or open
  pc, ref, self,  \* of each thread: where it is, its Logger, its buffer
  lives,          \* how many threads have had an id
  calls, busy     \* how many calls there were; the client is in one

vars == <<lock, tlsLock, table, buffers, instance, pc, ref, self, lives, calls, busy>>

-----------------------------------------------------------------------------
Nobody == "nobody"   \* no thread
NoData == 0          \* NULL
Stray  == -1         \* a buffer that is in no slot, and is lost
Buffer == 1..(Slots + 1)

Pc == {"dead", "idle", "log.find", "log.make", "compose",
       "end.find", "end.make", "end.write", "open", "release", "close.find",
       "close.make", "close.write", "detach", "crashed"}

Init ==
  /\ lock = Nobody /\ tlsLock = Nobody
  /\ table = <<>> /\ buffers = {}
  /\ instance = "none"
  /\ pc = [t \in Tid |-> IF t = Client THEN "idle" ELSE "dead"]
  /\ ref = [t \in Tid |-> "none"] /\ self = [t \in Tid |-> NoData]
  /\ lives = [t \in Tid |-> 0] /\ calls = 0 /\ busy = FALSE

At(t, here, next) == pc[t] = here /\ pc' = [pc EXCEPT ![t] = next]

Slot(t) == SelectInSeq(table, LAMBDA v : v.tid = t)

-----------------------------------------------------------------------------
(* The Logger. *)

Exists == IF instance = "none" THEN "closed" ELSE instance

(* get_instance, of LOG and of LOG_ENDL: a released Logger is made anew, with *)
(* no file. *)
GetInstance(t, here, next) ==
  /\ At(t, here, next)
  /\ lock = Nobody
  /\ instance' = Exists
  /\ ref' = [ref EXCEPT ![t] = "live"]
  /\ UNCHANGED <<lock, tlsLock, table, buffers, self, lives, calls, busy>>

(* open_instance, at the start of a call; the file may fail to open. *)
OpenInstance ==
  /\ At(Client, "open", "idle")
  /\ lock = Nobody
  /\ instance' \in {Exists, "open"}
  /\ UNCHANGED <<lock, tlsLock, table, buffers, ref, self, lives, calls, busy>>

(* release_instance, at its end, deletes the Logger with lock_ held; its      *)
(* destructor flushes. *)
ReleaseInstance ==
  /\ lock = Nobody
  /\ IF instance = "none"
       THEN At(Client, "release", "idle") /\ UNCHANGED lock
       ELSE At(Client, "release", "close.find") /\ lock' = Client
  /\ UNCHANGED <<tlsLock, table, buffers, instance, ref, self, lives, calls, busy>>

Deleted ==
  /\ At(Client, "close.write", "idle")
  /\ lock' = Nobody
  /\ instance' = "none"
  /\ ref' = [t \in Tid |-> IF ref[t] = "live" /\ t # Client THEN "dead" ELSE "none"]
  /\ self' = [self EXCEPT ![Client] = NoData]
  /\ UNCHANGED <<tlsLock, table, buffers, lives, calls, busy>>

-----------------------------------------------------------------------------
(* The buffer of a thread: instance(), of Get and of Flush. *)

(* A Logger that was deleted is used all the same: its memory still says that *)
(* the file is closed, or the process crashes. *)
Survives(t) == ref[t] # "dead"

Crash(t) ==
  /\ ~Survives(t)
  /\ pc[t] \in {"log.find", "end.find", "end.write"}
  /\ pc' = [u \in Tid |-> "crashed"]
  /\ UNCHANGED <<lock, tlsLock, table, buffers, instance, ref, self, lives, calls, busy>>

(* LoggerTlsGetValue. *)
Find(t, here, found, make) ==
  LET data == IF Slot(t) = 0 THEN NoData ELSE table[Slot(t)].data
  IN /\ At(t, here, IF data = NoData THEN make ELSE found)
     /\ tlsLock = Nobody
     /\ self' = [self EXCEPT ![t] = data]
     /\ UNCHANGED <<lock, tlsLock, table, buffers, instance, ref, lives, calls, busy>>

MakeNewSlot(t, here, made) ==
  /\ At(t, here, made)
  /\ tlsLock = Nobody
  /\ LET fresh == CHOOSE b \in Buffer : b \notin buffers
     IN IF Len(table) = Slots
          THEN /\ self' = [self EXCEPT ![t] = Stray]
               /\ UNCHANGED <<table, buffers>>
          ELSE /\ self' = [self EXCEPT ![t] = fresh]
               /\ buffers' = buffers \cup {fresh}
               /\ table' = Append(table, [tid |-> t, data |-> fresh])
  /\ UNCHANGED <<lock, tlsLock, instance, ref, lives, calls, busy>>

(* LoggerTlsSetValue: the slot of the id, or the first free one, or none. *)
Make(t, here, made) ==
  /\ At(t, here, made)
  /\ tlsLock = Nobody
  /\ LET fresh == CHOOSE b \in Buffer : b \notin buffers
     IN IF Slot(t) = 0 /\ Len(table) = Slots
          THEN /\ self' = [self EXCEPT ![t] = Stray]
               /\ UNCHANGED <<table, buffers>>
          ELSE /\ self' = [self EXCEPT ![t] = fresh]
               /\ buffers' = buffers \cup {fresh}
               /\ table' = IF Slot(t) = 0 THEN Append(table, [tid |-> t, data |-> fresh])
                           ELSE [table EXCEPT ![Slot(t)].data = fresh]
  /\ UNCHANGED <<lock, tlsLock, instance, ref, lives, calls, busy>>

-----------------------------------------------------------------------------
(* LOG<level>() << ... << LOG_ENDL: get_instance twice.  Flush writes under   *)
(* lock_. *)

Log(t)     == GetInstance(t, "idle", "log.find")
Compose(t) == GetInstance(t, "compose", "end.find")

Write(t) ==
  /\ At(t, "end.write", "idle")
  /\ lock = Nobody
  /\ ref' = [ref EXCEPT ![t] = "none"]
  /\ self' = [self EXCEPT ![t] = NoData]
  /\ UNCHANGED <<lock, tlsLock, table, buffers, instance, lives, calls, busy>>

-----------------------------------------------------------------------------
(* Threads and calls. *)

ThreadStarts(t) ==
  /\ At(t, "dead", "idle")
  /\ lives[t] < Lives
  /\ lives' = [lives EXCEPT ![t] = @ + 1]
  /\ UNCHANGED <<lock, tlsLock, table, buffers, instance, ref, self, calls, busy>>

(* DLL_THREAD_DETACH: the buffer is deleted, the slot stays the id's. *)
DetachEnters(t) ==
  /\ At(t, "idle", "detach")
  /\ t # Client
  /\ tlsLock = Nobody
  /\ tlsLock' = t
  /\ UNCHANGED <<lock, table, buffers, instance, ref, self, lives, calls, busy>>

DetachForgetsNothing(t) ==
  /\ At(t, "detach", "dead")
  /\ tlsLock' = Nobody
  /\ buffers' = IF Slot(t) = 0 THEN buffers ELSE buffers \ {table[Slot(t)].data}
  /\ UNCHANGED <<lock, table, instance, ref, self, lives, calls, busy>>

DetachFlushes(t) ==
  /\ At(t, "detach", "dead")
  /\ lock = Nobody
  /\ tlsLock' = Nobody
  /\ IF Slot(t) = 0 THEN UNCHANGED <<table, buffers>>
     ELSE /\ buffers' = buffers \ {table[Slot(t)].data}
          /\ table' = [table EXCEPT ![Slot(t)].data = NoData]
  /\ UNCHANGED <<lock, instance, ref, self, lives, calls, busy>>

DetachDestroys(t) ==
  /\ At(t, "detach", "dead")
  /\ tlsLock' = Nobody
  /\ IF Slot(t) = 0 THEN UNCHANGED <<table, buffers>>
     ELSE /\ buffers' = buffers \ {table[Slot(t)].data}
          /\ table' = [table EXCEPT ![Slot(t)].data = NoData]
  /\ UNCHANGED <<lock, instance, ref, self, lives, calls, busy>>

CallStarts ==
  /\ ~busy /\ calls < Calls
  /\ At(Client, "idle", "open")
  /\ busy' = TRUE /\ calls' = calls + 1
  /\ UNCHANGED <<lock, tlsLock, table, buffers, instance, ref, self, lives>>

CallEnds ==
  /\ busy
  /\ At(Client, "idle", "release")
  /\ busy' = FALSE
  /\ UNCHANGED <<lock, tlsLock, table, buffers, instance, ref, self, lives, calls>>

(* What a thread does once it has begun; a line or a call it need not begin.  *)
Proceeds(t) ==
  \/ Find(t, "log.find", "compose", "log.make")
  \/ Make(t, "log.make", "compose")
  \/ Compose(t)
  \/ Find(t, "end.find", "end.write", "end.make")
  \/ Make(t, "end.make", "end.write")
  \/ Write(t)
  \/ Crash(t)
  \/ DetachDestroys(t)
  \/ /\ t = Client
     /\ \/ OpenInstance \/ ReleaseInstance \/ Deleted
        \/ Find(t, "close.find", "close.write", "close.make")
        \/ Make(t, "close.make", "close.write")

Next ==
  \/ \E t \in Tid : Proceeds(t) \/ Log(t) \/ ThreadStarts(t) \/ DetachEnters(t)
  \/ CallStarts \/ CallEnds

Spec == Init /\ [][Next]_vars

(* A thread that waits for a critical section others hold and leave gets it.  *)
FairSpec == Spec /\ \A t \in Tid : SF_vars(Proceeds(t))

-----------------------------------------------------------------------------
(* Properties. *)

(* A line is composed in a buffer that is allocated, in the slot of its       *)
(* thread's id, and no other thread's, though ids come back.                  *)
(* libautoupdater.cpp:111-128, 158-198, AutoLogger.cpp:181-191.               *)
OwnBuffer ==
  \A t \in Tid : pc[t] \in {"compose", "end.find", "end.write"} /\ self[t] # Stray =>
    /\ self[t] \in buffers
    /\ Slot(t) # 0 /\ table[Slot(t)].data = self[t]
    /\ \A u \in Tid \ {t} : self[u] # self[t]

(* A thread is left without a slot, and its lines are lost, only when as many *)
(* ids as there are slots have logged, however many threads had them, and     *)
(* one that had a slot keeps it.  libautoupdater.cpp:167-175.                 *)
SlotsSuffice ==
  \A t \in Tid : self[t] = Stray =>
    /\ Len(table) = Slots
    /\ {table[i].tid : i \in DOMAIN table} \subseteq Tid \ {t}
    /\ \A i, j \in DOMAIN table : table[i].tid = table[j].tid => i = j

(* A thread that logs, opens or releases the Logger, or ends, gets through:   *)
(* lock_ and tls_lock are taken in one order only.  AutoLogger.cpp:149-155,   *)
(* 208-245, libautoupdater.cpp:111-128.                                       *)
ThreadsGetThrough ==
  \A t \in Tid : pc[t] \notin {"idle", "dead", "crashed"} ~> pc[t] \in {"idle", "dead", "crashed"}
=============================================================================

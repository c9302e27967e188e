----------------------------- MODULE SharedData -----------------------------
(***************************************************************************)
(* The resolver and the TLS configuration all connections share            *)
(* (src/env.rs): one global copy behind an async lock that is held across  *)
(* the awaits of its creation, a copy per thread in a OnceCell, and        *)
(* free_data.  Tasks of several threads call get_data and free_data; tasks *)
(* of one thread interleave where they await.                              *)
(*                                                                         *)
(* A copy is the number of the creation that made it; 0 stands for None.   *)
(* The lock is xx_core's: whether a panic under it poisons it is left      *)
(* open.                                                                   *)
(***************************************************************************)
EXTENDS Naturals

CONSTANTS
  Tasks,
  Threads,
  ThreadOf,   \* the thread a task runs on
  NoTask,     \* nobody holds the lock
  MaxFrees    \* bound: calls of free_data

ASSUME TasksAssumption ==
  ThreadOf \in [Tasks -> Threads] /\ NoTask \notin Tasks /\ MaxFrees \in Nat

VARIABLES
  global,     \* GLOBAL_DATA
  holder,     \* who holds its lock
  poisoned,   \* its holder panicked, and the lock remembers
  local,      \* THREAD_LOCAL_DATA of each thread
  pc,         \* where a task awaits
  data,       \* what get_data last returned to a task
  made,       \* history: how many copies were created
  taken,      \* history: how many free_data took away
  frees       \* calls of free_data

vars == << global, holder, poisoned, local, pc, data, made, taken, frees >>

Init ==
  /\ global = 0 /\ holder = NoTask /\ poisoned = FALSE
  /\ local = [h \in Threads |-> 0]
  /\ pc = [t \in Tasks |-> "Idle"] /\ data = [t \in Tasks |-> 0]
  /\ made = 0 /\ taken = 0 /\ frees = 0

\* the lock is free for a task that may take it
Unlocked == holder = NoTask

\* OnceCell::set: an earlier value stays
SetLocal(t, copy) ==
  local' = IF local[ThreadOf[t]] = 0 THEN [local EXCEPT ![ThreadOf[t]] = copy] ELSE local

Return(t, copy) ==
  /\ pc' = [pc EXCEPT ![t] = "Idle"] /\ data' = [data EXCEPT ![t] = copy]

-----------------------------------------------------------------------------
(* get_data: the thread's copy, or wait for the lock.                      *)
Get(t) ==
  /\ pc[t] = "Idle"
  /\ IF local[ThreadOf[t]] # 0
     THEN Return(t, local[ThreadOf[t]])
     ELSE pc' = [pc EXCEPT ![t] = "Lock"] /\ data' = data
  /\ UNCHANGED << global, holder, poisoned, local, made, taken, frees >>

\* get_global_data with the lock: a copy is there
GetGlobal(t) ==
  /\ pc[t] = "Lock" /\ Unlocked /\ ~poisoned /\ global # 0
  /\ Return(t, global) /\ SetLocal(t, global)
  /\ UNCHANGED << global, holder, poisoned, made, taken, frees >>

\* mutant: the lock is given up while the copy is created
Keeps_Nothing(t) == NoTask

\* who holds the lock while t awaits create_global_data
Keeps(t) == t

\* ... or it is created, with the lock held
StartCreate(t) ==
  /\ pc[t] = "Lock" /\ Unlocked /\ ~poisoned /\ global = 0
  /\ pc' = [pc EXCEPT ![t] = "Create"] /\ holder' = Keeps(t)
  /\ UNCHANGED << global, poisoned, local, data, made, taken, frees >>

\* the copy is stored, the lock given up, the thread's copy set
Created(t) ==
  /\ pc[t] = "Create"
  /\ made' = made + 1 /\ global' = made + 1 /\ holder' = NoTask
  /\ Return(t, made + 1) /\ SetLocal(t, made + 1)
  /\ UNCHANGED << poisoned, taken, frees >>

\* mutant: the lock stays held by the task that panicked
Released_Never == holder

Released == NoTask

\* "Failed to load certs", "Failed to initialize DNS resolver"
CreatePanics(t) ==
  /\ pc[t] = "Create"
  /\ pc' = [pc EXCEPT ![t] = "Panicked"] /\ holder' = Released
  /\ poisoned' \in BOOLEAN
  /\ UNCHANGED << global, local, data, made, taken, frees >>

Free(t) ==
  /\ pc[t] = "Idle" /\ frees < MaxFrees
  /\ pc' = [pc EXCEPT ![t] = "Free"] /\ frees' = frees + 1
  /\ UNCHANGED << global, holder, poisoned, local, data, made, taken >>

\* free_data takes the global copy; the threads keep theirs
TakeGlobal(t) ==
  /\ pc[t] = "Free" /\ Unlocked /\ ~poisoned
  /\ pc' = [pc EXCEPT ![t] = "Idle"]
  /\ global' = 0 /\ taken' = IF global # 0 THEN taken + 1 ELSE taken
  /\ UNCHANGED << holder, poisoned, local, data, made, frees >>

\* lock().await.unwrap(): the lock is poisoned, or the wait was interrupted
LockPanics(t) ==
  /\ pc[t] \in {"Lock", "Free"}
  /\ pc' = [pc EXCEPT ![t] = "Panicked"]
  /\ UNCHANGED << global, holder, poisoned, local, data, made, taken, frees >>

-----------------------------------------------------------------------------
Locked(t) == GetGlobal(t) \/ StartCreate(t) \/ TakeGlobal(t) \/ (poisoned /\ LockPanics(t))

Next == \E t \in Tasks :
  Get(t) \/ Free(t) \/ Locked(t) \/ Created(t) \/ CreatePanics(t) \/ LockPanics(t)

(* Files are read and the lock wakes those who wait for it.                *)
Fairness == \A t \in Tasks : WF_vars(Locked(t)) /\ WF_vars(Created(t) \/ CreatePanics(t))

Spec == Init /\ [][Next]_vars /\ Fairness

-----------------------------------------------------------------------------
(* Properties.                                                             *)

TypeOK ==
  /\ global \in Nat /\ made \in Nat /\ taken \in Nat /\ frees \in Nat
  /\ holder \in Tasks \cup {NoTask} /\ poisoned \in BOOLEAN
  /\ local \in [Threads -> Nat] /\ data \in [Tasks -> Nat]
  /\ pc \in [Tasks -> {"Idle", "Lock", "Create", "Free", "Panicked"}]

(* However many tasks of however many threads ask at once, a copy is made  *)
(* only when there is none, and once: one more than were freed at most;    *)
(* and until the first is freed all tasks and threads share it.  (And the  *)
(* types hold.)                                                            *)
CreatedOnce ==
  /\ TypeOK
  /\ made <= taken + 1
  /\ taken = 0 => /\ \A t, u \in Tasks : data[t] # 0 /\ data[u] # 0 => data[t] = data[u]
                  /\ \A t \in Tasks, h \in Threads :
                       data[t] # 0 /\ local[h] # 0 => data[t] = local[h]

(* Every get_data and free_data returns or panics: nobody keeps the lock,  *)
(* a task whose creation failed neither.                                   *)
CallsEnd ==
  \A t \in Tasks : pc[t] \in {"Lock", "Create", "Free"} ~> pc[t] \in {"Idle", "Panicked"}
=============================================================================

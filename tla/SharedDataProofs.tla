-------------------------- MODULE SharedDataProofs --------------------------
(***************************************************************************)
(* The shared data of src/env.rs is created once, for any number of tasks  *)
(* and threads and whoever panics.  CreatedOnce alone is not inductive: it *)
(* rests on the task that creates a copy holding the lock until there is   *)
(* one, and on every copy in use having been made.                         *)
(***************************************************************************)
EXTENDS SharedData, TLAPS

\* who creates a copy holds the lock, and there is none yet
CreatorHolds == \A t \in Tasks : pc[t] = "Create" => holder = t /\ global = 0

\* every copy but the one that is there was taken away
MadeAndTaken == made = taken + (IF global # 0 THEN 1 ELSE 0)

\* what a task or a thread has was made
CopiesMade ==
  /\ global \in 0 .. made
  /\ \A t \in Tasks : data[t] \in 0 .. made
  /\ \A h \in Threads : local[h] \in 0 .. made

IInv == TypeOK /\ CreatorHolds /\ MadeAndTaken /\ CopiesMade

(* SetLocal keeps a thread's copy among those made.                        *)
LEMMA SetLocalKeeps ==
  ASSUME NEW t \in Tasks, NEW m \in Nat, NEW copy \in 0 .. m,
         local \in [Threads -> Nat], \A h \in Threads : local[h] \in 0 .. m,
         SetLocal(t, copy)
  PROVE  local' \in [Threads -> Nat] /\ \A h \in Threads : local'[h] \in 0 .. m
BY TasksAssumption DEF SetLocal

(* Return keeps a task's data among the copies made, and nobody creates    *)
(* who did not before.                                                     *)
LEMMA ReturnKeeps ==
  ASSUME NEW t \in Tasks, NEW m \in Nat, NEW copy \in 0 .. m,
         TypeOK, \A u \in Tasks : data[u] \in 0 .. m,
         Return(t, copy)
  PROVE  /\ data' \in [Tasks -> Nat] /\ \A u \in Tasks : data'[u] \in 0 .. m
         /\ pc' \in [Tasks -> {"Idle", "Lock", "Create", "Free", "Panicked"}]
         /\ pc'[t] = "Idle" /\ \A u \in Tasks \ {t} : pc'[u] = pc[u]
<1>1. copy \in Nat
  OBVIOUS
<1>2. /\ data' = [data EXCEPT ![t] = copy] /\ data \in [Tasks -> Nat]
      /\ pc' = [pc EXCEPT ![t] = "Idle"]
      /\ pc \in [Tasks -> {"Idle", "Lock", "Create", "Free", "Panicked"}]
  BY DEF Return, TypeOK
<1>3. data' \in [Tasks -> Nat] /\ \A u \in Tasks : data'[u] \in 0 .. m
  BY <1>1, <1>2
<1> QED BY <1>2, <1>3

LEMMA InitIInv == Init => IInv
<1> SUFFICES ASSUME Init PROVE IInv
  OBVIOUS
<1>1. TypeOK
  BY DEF Init, TypeOK
<1>2. CreatorHolds
  BY DEF Init, CreatorHolds
<1>3. MadeAndTaken
  BY DEF Init, MadeAndTaken
<1>4. CopiesMade
  BY DEF Init, CopiesMade
<1> QED BY <1>1, <1>2, <1>3, <1>4 DEF IInv

(* The task that holds the lock while it creates is the only one.          *)
LEMMA OneCreator ==
  ASSUME IInv, NEW t \in Tasks, NEW u \in Tasks, pc[t] = "Create", pc[u] = "Create"
  PROVE  t = u
BY DEF IInv, CreatorHolds

(* Whoever finds the lock free finds nobody creating.                      *)
LEMMA NobodyCreates ==
  ASSUME IInv, Unlocked, NEW u \in Tasks
  PROVE  pc[u] # "Create"
BY TasksAssumption DEF IInv, CreatorHolds, Unlocked

(* Every step of every task keeps the invariant.                           *)
LEMMA StepKeepsIInv ==
  ASSUME IInv, [Next]_vars
  PROVE  IInv'
<1> USE DEF IInv
<1>1. ASSUME NEW t \in Tasks, Get(t) PROVE IInv'
  <2>1. CASE local[ThreadOf[t]] # 0
    <3>1. local[ThreadOf[t]] \in 0 .. made /\ Return(t, local[ThreadOf[t]])
      BY <1>1, <2>1, TasksAssumption DEF Get, CopiesMade
    <3>2. made \in Nat BY DEF TypeOK
    <3> QED BY <1>1, <3>1, <3>2, ReturnKeeps
            DEF Get, TypeOK, CreatorHolds, MadeAndTaken, CopiesMade
  <2>2. CASE local[ThreadOf[t]] = 0
    BY <1>1, <2>2 DEF Get, TypeOK, CreatorHolds, MadeAndTaken, CopiesMade
  <2> QED BY <2>1, <2>2
<1>2. ASSUME NEW t \in Tasks, GetGlobal(t) PROVE IInv'
  <2>1. made \in Nat /\ global \in 0 .. made /\ Return(t, global) /\ SetLocal(t, global)
    BY <1>2 DEF GetGlobal, TypeOK, CopiesMade
  <2>2. /\ local' \in [Threads -> Nat]
        /\ \A h \in Threads : local'[h] \in 0 .. made
    BY <2>1, SetLocalKeeps DEF TypeOK, CopiesMade
  <2> QED BY <1>2, <2>1, <2>2, ReturnKeeps
          DEF GetGlobal, TypeOK, CreatorHolds, MadeAndTaken, CopiesMade
<1>3. ASSUME NEW t \in Tasks, StartCreate(t) PROVE IInv'
  <2>1. \A u \in Tasks : pc[u] # "Create"
    BY <1>3, NobodyCreates DEF StartCreate
  <2> QED BY <1>3, <2>1
          DEF StartCreate, Keeps, TypeOK, CreatorHolds, MadeAndTaken, CopiesMade
<1>4. ASSUME NEW t \in Tasks, Created(t) PROVE IInv'
  <2>1. /\ made + 1 \in Nat /\ made + 1 \in 0 .. made + 1
        /\ \A u \in Tasks : data[u] \in 0 .. made + 1
        /\ local \in [Threads -> Nat] /\ \A h \in Threads : local[h] \in 0 .. made + 1
        /\ Return(t, made + 1) /\ SetLocal(t, made + 1)
    BY <1>4 DEF Created, TypeOK, CopiesMade
  <2>2. /\ local' \in [Threads -> Nat]
        /\ \A h \in Threads : local'[h] \in 0 .. made + 1
    BY <2>1, SetLocalKeeps
  <2>3. \A u \in Tasks : pc'[u] # "Create"
    BY <1>4, <2>1, OneCreator, ReturnKeeps DEF Created
  <2>4. made = taken
    BY <1>4 DEF Created, CreatorHolds, MadeAndTaken, TypeOK
  <2>5. TypeOK' /\ CopiesMade'
    BY <1>4, <2>1, <2>2, ReturnKeeps DEF Created, TypeOK, CopiesMade
  <2>6. MadeAndTaken'
    BY <1>4, <2>4 DEF Created, MadeAndTaken, TypeOK
  <2> QED BY <2>3, <2>5, <2>6 DEF CreatorHolds
<1>5. ASSUME NEW t \in Tasks, CreatePanics(t) PROVE IInv'
  <2>1. \A u \in Tasks : pc'[u] # "Create"
    BY <1>5, OneCreator DEF CreatePanics, TypeOK
  <2> QED BY <1>5, <2>1
          DEF CreatePanics, Released, TypeOK, CreatorHolds, MadeAndTaken, CopiesMade
<1>6. ASSUME NEW t \in Tasks, Free(t) PROVE IInv'
  BY <1>6 DEF Free, TypeOK, CreatorHolds, MadeAndTaken, CopiesMade
<1>7. ASSUME NEW t \in Tasks, TakeGlobal(t) PROVE IInv'
  <2>1. \A u \in Tasks : pc[u] # "Create"
    BY <1>7, NobodyCreates DEF TakeGlobal
  <2> QED BY <1>7, <2>1
          DEF TakeGlobal, TypeOK, CreatorHolds, MadeAndTaken, CopiesMade
<1>8. ASSUME NEW t \in Tasks, LockPanics(t) PROVE IInv'
  BY <1>8 DEF LockPanics, TypeOK, CreatorHolds, MadeAndTaken, CopiesMade
<1>9. CASE UNCHANGED vars
  BY <1>9 DEF vars, TypeOK, CreatorHolds, MadeAndTaken, CopiesMade
<1> QED BY <1>1, <1>2, <1>3, <1>4, <1>5, <1>6, <1>7, <1>8, <1>9 DEF Next, Locked

(* The invariant says what CreatedOnce does: with none taken away at most  *)
(* one copy was made, and whoever has one has that one.                    *)
LEMMA IInvOnce == IInv => CreatedOnce
BY DEF IInv, TypeOK, MadeAndTaken, CopiesMade, CreatedOnce

(* However many tasks and threads ask for the data, free it or panic while *)
(* they create it, get_global_data makes a copy only when there is none,   *)
(* and until one is freed all share the first.                             *)
THEOREM SharedDataOnce == Spec => []CreatedOnce
<1>1. Spec => []IInv
  BY InitIInv, StepKeepsIInv, PTL DEF Spec
<1> QED BY <1>1, IInvOnce, PTL

(* The lock excludes: two tasks never create a copy at once, and one that  *)
(* panics leaves the lock to the others (env.rs:61, the lock is held across*)
(* the awaits of create_global_data).                                      *)
THEOREM CreatorsExclude ==
  Spec => [](\A t, u \in Tasks : pc[t] = "Create" /\ pc[u] = "Create" => t = u)
<1>1. Spec => []IInv
  BY InitIInv, StepKeepsIInv, PTL DEF Spec
<1>2. IInv => \A t, u \in Tasks : pc[t] = "Create" /\ pc[u] = "Create" => t = u
  BY OneCreator
<1> QED BY <1>1, <1>2, PTL
=============================================================================

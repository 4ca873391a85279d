--------------------------- MODULE CanaryRecorder ---------------------------
(***************************************************************************)
(* The runtime of the canary recorder (CanaryRecorder.cpp): the hooks the  *)
(* record transformer (Transformer4CanaryRecord.cpp) inserts around the    *)
(* loads, stores, atomics, pthread_create, pthread_mutex_init and          *)
(* pthread_mutex_lock of a multi-threaded program, and the exit hook.     *)
(*                                                                         *)
(* Each thread runs a fixed program, a sequence of operations.  The hooks  *)
(* are plain C++ functions run by the calling thread with no lock of their *)
(* own unless the code takes one, so every hook is split at the points     *)
(* where another thread's step can change what it reads: an unlocked       *)
(* read-modify-write is a read into the thread's tmp and a later write.    *)
(*                                                                         *)
(* The logs themselves are left out: a hook that only appends to a         *)
(* thread-local log changes no state the properties read.  A shared        *)
(* variable's value is abstracted to the version OnPreStore gave the store *)
(* that wrote it (Unversioned for a store made while recording was off).   *)
(***************************************************************************)
EXTENDS Integers, FiniteSets, Sequences

CONSTANTS
    Threads,    \* the program's threads
    Main,       \* the thread running main, registered by OnInit
    SVs,        \* the shared variable groups (svId)
    Mutexes,    \* the program's mutexes
    Program,    \* thread -> its sequence of operations
    Race,       \* the race argument the transformer passes to the fork and mutex-init hooks
    NoOwner     \* an unheld lock

Unversioned == -1

(* An operation of a thread's program. *)
Ops == [op : {"fork"}, arg : Threads] \cup [op : {"init", "lock", "unlock", "wait"}, arg : Mutexes]
       \cup [op : {"load", "store", "rmw", "cas"}, arg : SVs] \cup [op : {"exit"}, arg : Threads]

VARIABLES
    born,            \* the threads pthread_create has started
    st,              \* thread -> what OnMethodStart returned: "none" before it ran, "null" or "rec"
    pc,              \* thread -> index of its current operation
    phase,           \* thread -> how far the current operation has got
    tmp,             \* thread -> a value read by a hook and used by its next step
    thread_ht,       \* the threads with a canary_thread_t in thread_ht
    tid,             \* thread -> the tid of its canary_thread_t
    forking,         \* the static flag forking
    start,           \* the static flag start
    fork_lock,       \* owner of fork_lock
    mutex_init_lock, \* owner of mutex_init_lock
    write_versions,  \* svId -> write_versions[svId]
    mem,             \* svId -> version of the store the variable holds
    locks,           \* svId -> owner of locks[svId]
    mutexOwner,      \* mutex -> owner of the program's mutex
    mutexState,      \* mutex -> "none", "inited" (pthread_mutex_init done), "ready" (returned to the program)
    mutex_ht,        \* mutex -> its id in mutex_ht, or -1
    mutex_id,        \* the static counter mutex_id
    llogCount,       \* llogs.size()
    lastRead,        \* thread -> [val, ver] of its last load as OnLoad logged it
    casFailed,       \* svId -> versions taken by a cmpxchg that did not write (history)
    dead,            \* the threads whose canary_thread_t OnExit has deleted
    exited,          \* the process has exited
    bugExit          \* it exited through OnLock's "mutex is not initialized" error

vars == <<born, st, pc, phase, tmp, thread_ht, tid, forking, start, fork_lock,
          mutex_init_lock, write_versions, mem, locks, mutexOwner, mutexState,
          mutex_ht, mutex_id, llogCount, lastRead, casFailed, dead, exited, bugExit>>

threadVars == <<born, st, thread_ht, tid, forking, start, fork_lock>>
mutexVars == <<mutexOwner, mutexState, mutex_ht, mutex_id, llogCount, mutex_init_lock>>
memVars == <<write_versions, mem, locks, lastRead, casFailed>>
endVars == <<dead, exited, bugExit>>

Cur(t) == Program[t][pc[t]]
Rec(t) == st[t] = "rec"
Running(t, op, ph) ==
    /\ ~exited /\ born[t] /\ st[t] /= "none"
    /\ pc[t] <= Len(Program[t]) /\ Cur(t).op = op /\ phase[t] = ph
Goto(t, ph) == phase' = [phase EXCEPT ![t] = ph] /\ UNCHANGED pc
Advance(t) == pc' = [pc EXCEPT ![t] = @ + 1] /\ phase' = [phase EXCEPT ![t] = "idle"]

(* OnInit has run in main: main is registered with tid 0 and main_started *)
(* is set; main's own OnMethodStart then returns its record.               *)
Init ==
    /\ born = [t \in Threads |-> t = Main]
    /\ st = [t \in Threads |-> IF t = Main THEN "rec" ELSE "none"]
    /\ pc = [t \in Threads |-> 1]
    /\ phase = [t \in Threads |-> "idle"]
    /\ tmp = [t \in Threads |-> 0]
    /\ thread_ht = {Main}
    /\ tid = [t \in Threads |-> IF t = Main THEN 0 ELSE -1]
    /\ forking = FALSE /\ start = FALSE
    /\ fork_lock = NoOwner /\ mutex_init_lock = NoOwner
    /\ write_versions = [x \in SVs |-> 0]
    /\ mem = [x \in SVs |-> Unversioned]
    /\ locks = [x \in SVs |-> NoOwner]
    /\ mutexOwner = [m \in Mutexes |-> NoOwner]
    /\ mutexState = [m \in Mutexes |-> "none"]
    /\ mutex_ht = [m \in Mutexes |-> -1]
    /\ mutex_id = 0 /\ llogCount = 0
    /\ lastRead = [t \in Threads |-> [val |-> Unversioned, ver |-> 0]]
    /\ casFailed = [x \in SVs |-> {}]
    /\ dead = {} /\ exited = FALSE /\ bugExit = FALSE

OnMethodStart(t) ==
    /\ ~exited /\ born[t] /\ st[t] = "none"
    /\ t \in thread_ht \/ ~forking
    /\ st' = [st EXCEPT ![t] = IF t \in thread_ht THEN "rec" ELSE "null"]
    /\ UNCHANGED <<born, pc, phase, tmp, thread_ht, tid, forking, start, fork_lock,
                   mutexVars, memVars, endVars>>

(***************************************************************************)
(* pthread_create: OnPreFork, the call, OnFork.  OnPreFork of a recorded   *)
(* thread turns recording on, takes fork_lock when race is set, and sets   *)
(* forking.  OnFork reads thread_ht (count and size) and then inserts the  *)
(* child with tid = the size it read, clears forking and, with race,       *)
(* releases fork_lock.                                                     *)
(***************************************************************************)
OnPreFork(t) ==
    /\ Running(t, "fork", "idle")
    /\ IF Rec(t)
       THEN /\ start' = TRUE
            /\ forking' = TRUE
            /\ IF Race THEN fork_lock = NoOwner /\ fork_lock' = t
                       ELSE UNCHANGED fork_lock
       ELSE UNCHANGED <<start, forking, fork_lock>>
    /\ Goto(t, "create")
    /\ UNCHANGED <<born, st, tmp, thread_ht, tid, mutexVars, memVars, endVars>>

PthreadCreate(t) ==
    /\ Running(t, "fork", "create")
    /\ born' = [born EXCEPT ![Cur(t).arg] = TRUE]
    /\ Goto(t, "onfork")
    /\ UNCHANGED <<st, tmp, thread_ht, tid, forking, start, fork_lock,
                   mutexVars, memVars, endVars>>

OnForkLookup(t) ==
    /\ Running(t, "fork", "onfork")
    /\ IF Rec(t)
       THEN /\ tmp' = [tmp EXCEPT ![t] =
                         IF Cur(t).arg \in thread_ht THEN -1 ELSE Cardinality(thread_ht)]
            /\ Goto(t, "insert")
       ELSE /\ Advance(t) /\ UNCHANGED tmp
    /\ UNCHANGED <<threadVars, mutexVars, memVars, endVars>>

OnForkInsert(t) ==
    /\ Running(t, "fork", "insert")
    /\ IF tmp[t] >= 0
       THEN /\ thread_ht' = thread_ht \cup {Cur(t).arg}
            /\ tid' = [tid EXCEPT ![Cur(t).arg] = tmp[t]]
       ELSE UNCHANGED <<thread_ht, tid>>
    /\ forking' = FALSE
    /\ fork_lock' = IF Race THEN NoOwner ELSE fork_lock
    /\ Advance(t)
    /\ UNCHANGED <<born, st, tmp, start, mutexVars, memVars, endVars>>

(***************************************************************************)
(* pthread_mutex_init: OnPreMutexInit takes mutex_init_lock for a          *)
(* recorded thread when race is set; after the call, OnMutexInit of a      *)
(* recorded thread does mutex_ht[m] = mutex_id++ (a read, then the         *)
(* writes) and llogs.push_back, then releases the lock.                    *)
(***************************************************************************)
OnPreMutexInit(t) ==
    /\ Running(t, "init", "idle")
    /\ IF Rec(t) /\ Race
       THEN mutex_init_lock = NoOwner /\ mutex_init_lock' = t
       ELSE UNCHANGED mutex_init_lock
    /\ Goto(t, "call")
    /\ UNCHANGED <<threadVars, tmp, mutexOwner, mutexState, mutex_ht, mutex_id, llogCount,
                   memVars, endVars>>

PthreadMutexInit(t) ==
    /\ Running(t, "init", "call")
    /\ mutexState' = [mutexState EXCEPT ![Cur(t).arg] = "inited"]
    /\ Goto(t, "hook")
    /\ UNCHANGED <<threadVars, tmp, mutexOwner, mutex_ht, mutex_id, llogCount,
                   mutex_init_lock, memVars, endVars>>

OnMutexInitRead(t) ==
    /\ Running(t, "init", "hook")
    /\ IF Rec(t)
       THEN /\ tmp' = [tmp EXCEPT ![t] = mutex_id]
            /\ Goto(t, "assign")
            /\ UNCHANGED mutexState
       ELSE /\ mutexState' = [mutexState EXCEPT ![Cur(t).arg] = "ready"]
            /\ Advance(t) /\ UNCHANGED tmp
    /\ UNCHANGED <<threadVars, mutexOwner, mutex_ht, mutex_id, llogCount,
                   mutex_init_lock, memVars, endVars>>

OnMutexInitAssign_PreIncrement(t) ==
    /\ Running(t, "init", "assign")
    /\ mutex_ht' = [mutex_ht EXCEPT ![Cur(t).arg] = tmp[t] + 1]
    /\ mutex_id' = tmp[t] + 1
    /\ Goto(t, "push")
    /\ UNCHANGED <<threadVars, tmp, mutexOwner, mutexState, llogCount,
                   mutex_init_lock, memVars, endVars>>

OnMutexInitAssign(t) ==
    /\ Running(t, "init", "assign")
    /\ mutex_ht' = [mutex_ht EXCEPT ![Cur(t).arg] = tmp[t]]
    /\ mutex_id' = tmp[t] + 1
    /\ Goto(t, "push")
    /\ UNCHANGED <<threadVars, tmp, mutexOwner, mutexState, llogCount,
                   mutex_init_lock, memVars, endVars>>

OnMutexInitPush(t) ==
    /\ Running(t, "init", "push")
    /\ llogCount' = llogCount + 1
    /\ mutex_init_lock' = IF Race THEN NoOwner ELSE mutex_init_lock
    /\ mutexState' = [mutexState EXCEPT ![Cur(t).arg] = "ready"]
    /\ Advance(t)
    /\ UNCHANGED <<threadVars, tmp, mutexOwner, mutex_ht, mutex_id, memVars, endVars>>

(***************************************************************************)
(* pthread_mutex_lock, then OnLock: with recording on and a record, a     *)
(* mutex missing from mutex_ht ends the process through OnExit and exit(1) *)
(* ("Program bug"); otherwise it logs into llogs[mutex_ht[m]].  A program *)
(* locks a mutex only after its pthread_mutex_init has returned.           *)
(* pthread_mutex_unlock has no hook.                                       *)
(***************************************************************************)
PthreadMutexLock(t) ==
    /\ Running(t, "lock", "idle")
    /\ mutexState[Cur(t).arg] = "ready" /\ mutexOwner[Cur(t).arg] = NoOwner
    /\ mutexOwner' = [mutexOwner EXCEPT ![Cur(t).arg] = t]
    /\ Goto(t, "onlock")
    /\ UNCHANGED <<threadVars, tmp, mutexState, mutex_ht, mutex_id, llogCount,
                   mutex_init_lock, memVars, endVars>>

(* OnExit's effect on the recorder's state, taken in one step where OnExit *)
(* is followed at once by exit(1): recording off, every record in          *)
(* thread_ht deleted, thread_ht cleared.                                   *)
OnExitEffect ==
    /\ start' = FALSE
    /\ dead' = dead \cup thread_ht
    /\ thread_ht' = {}

(* The body shared by OnLock and OnWait: with recording on and a record,  *)
(* a mutex missing from mutex_ht ends the process; otherwise the thread's *)
(* tid is logged into llogs[mutex_ht[m]].                                  *)
LockHook(t) ==
    /\ IF start /\ Rec(t) /\ mutex_ht[Cur(t).arg] = -1
       THEN /\ OnExitEffect /\ exited' = TRUE /\ bugExit' = TRUE
            /\ UNCHANGED <<pc, phase>>
       ELSE /\ Advance(t) /\ UNCHANGED <<start, dead, thread_ht, exited, bugExit>>
    /\ UNCHANGED <<born, st, tmp, tid, forking, fork_lock, mutexVars, memVars>>

OnLock(t) == Running(t, "lock", "onlock") /\ LockHook(t)

PthreadMutexUnlock(t) ==
    /\ Running(t, "unlock", "idle")
    /\ mutexOwner[Cur(t).arg] = t
    /\ mutexOwner' = [mutexOwner EXCEPT ![Cur(t).arg] = NoOwner]
    /\ Advance(t)
    /\ UNCHANGED <<threadVars, tmp, mutexState, mutex_ht, mutex_id, llogCount,
                   mutex_init_lock, memVars, endVars>>

(***************************************************************************)
(* pthread_cond_wait (or pthread_cond_timedwait) on a mutex the thread     *)
(* holds, with OnWait inserted after it: the call releases the mutex and   *)
(* blocks; it returns, on a signal or a timeout the model does not tell    *)
(* apart, once it has the mutex back; OnWait then logs like OnLock.        *)
(***************************************************************************)
PthreadCondWait(t) ==
    /\ Running(t, "wait", "idle")
    /\ mutexOwner[Cur(t).arg] = t
    /\ mutexOwner' = [mutexOwner EXCEPT ![Cur(t).arg] = NoOwner]
    /\ Goto(t, "waiting")
    /\ UNCHANGED <<threadVars, tmp, mutexState, mutex_ht, mutex_id, llogCount,
                   mutex_init_lock, memVars, endVars>>

PthreadCondWakeup(t) ==
    /\ Running(t, "wait", "waiting")
    /\ mutexOwner[Cur(t).arg] = NoOwner
    /\ mutexOwner' = [mutexOwner EXCEPT ![Cur(t).arg] = t]
    /\ Goto(t, "onwait")
    /\ UNCHANGED <<threadVars, tmp, mutexState, mutex_ht, mutex_id, llogCount,
                   mutex_init_lock, memVars, endVars>>

OnWait(t) == Running(t, "wait", "onwait") /\ LockHook(t)

(***************************************************************************)
(* A load of a shared variable, with OnLoad inserted after it: the value  *)
(* is read first, and OnLoad then logs the value with the variable's       *)
(* write_versions entry, read without a lock.                              *)
(***************************************************************************)
LoadValue(t) ==
    /\ Running(t, "load", "idle")
    /\ tmp' = [tmp EXCEPT ![t] = mem[Cur(t).arg]]
    /\ Goto(t, "onload")
    /\ UNCHANGED <<threadVars, mutexVars, memVars, endVars>>

OnLoad(t) ==
    /\ Running(t, "load", "onload")
    /\ lastRead' = IF Rec(t)
                   THEN [lastRead EXCEPT ![t] = [val |-> tmp[t],
                                                 ver |-> write_versions[Cur(t).arg]]]
                   ELSE lastRead
    /\ Advance(t)
    /\ UNCHANGED <<threadVars, tmp, mutexVars, write_versions, mem, locks, casFailed, endVars>>

Load_HookBefore(t) ==
    \/ /\ Running(t, "load", "idle")
       /\ tmp' = [tmp EXCEPT ![t] = write_versions[Cur(t).arg]]
       /\ Goto(t, "onload")
       /\ UNCHANGED <<threadVars, mutexVars, memVars, endVars>>
    \/ /\ Running(t, "load", "onload")
       /\ lastRead' = IF Rec(t)
                      THEN [lastRead EXCEPT ![t] = [val |-> mem[Cur(t).arg], ver |-> tmp[t]]]
                      ELSE lastRead
       /\ Advance(t)
       /\ UNCHANGED <<threadVars, tmp, mutexVars, write_versions, mem, locks, casFailed, endVars>>

Load(t) == LoadValue(t) \/ OnLoad(t)

(***************************************************************************)
(* A store: OnPreStore before it, OnStore after it.  With recording on and *)
(* a record, OnPreStore locks the variable's lock and takes the next       *)
(* version; OnStore, if recording is still on, unlocks.  The transformer   *)
(* wraps an atomicrmw and a cmpxchg of a shared variable the same way (its *)
(* OnStore gets the value -1, which OnStore does not log).                 *)
(***************************************************************************)
Writes == {"store", "rmw", "cas"}
WriteRunning(t, ph) == \E w \in Writes : Running(t, w, ph)

OnPreStore_NoLock(t) ==
    /\ WriteRunning(t, "idle")
    /\ LET x == Cur(t).arg IN
       IF start /\ Rec(t)
       THEN /\ tmp' = [tmp EXCEPT ![t] = write_versions[x]]
            /\ write_versions' = [write_versions EXCEPT ![x] = @ + 1]
       ELSE /\ tmp' = [tmp EXCEPT ![t] = Unversioned]
            /\ UNCHANGED write_versions
    /\ Goto(t, "store")
    /\ UNCHANGED <<threadVars, mutexVars, mem, locks, lastRead, casFailed, endVars>>

OnPreStore(t) ==
    /\ WriteRunning(t, "idle")
    /\ LET x == Cur(t).arg IN
       IF start /\ Rec(t)
       THEN /\ locks[x] = NoOwner
            /\ locks' = [locks EXCEPT ![x] = t]
            /\ tmp' = [tmp EXCEPT ![t] = write_versions[x]]
            /\ write_versions' = [write_versions EXCEPT ![x] = @ + 1]
       ELSE /\ tmp' = [tmp EXCEPT ![t] = Unversioned]
            /\ UNCHANGED <<locks, write_versions>>
    /\ Goto(t, "store")
    /\ UNCHANGED <<threadVars, mutexVars, mem, lastRead, casFailed, endVars>>

StoreValue(t) ==
    /\ Running(t, "store", "store")
    /\ mem' = [mem EXCEPT ![Cur(t).arg] = tmp[t]]
    /\ Goto(t, "onstore")
    /\ UNCHANGED <<threadVars, tmp, mutexVars, write_versions, locks, lastRead, casFailed, endVars>>

(* atomicrmw always writes. *)
AtomicRMW(t) ==
    /\ Running(t, "rmw", "store")
    /\ mem' = [mem EXCEPT ![Cur(t).arg] = tmp[t]]
    /\ Goto(t, "onstore")
    /\ UNCHANGED <<threadVars, tmp, mutexVars, write_versions, locks, lastRead, casFailed, endVars>>

(* cmpxchg writes only if the variable holds the expected value, which is *)
(* program data: either outcome.  A failed one still took its version.    *)
AtomicCmpXchg(t) ==
    /\ Running(t, "cas", "store")
    /\ LET x == Cur(t).arg IN
       \/ /\ mem' = [mem EXCEPT ![x] = tmp[t]]
          /\ UNCHANGED casFailed
       \/ /\ casFailed' = [casFailed EXCEPT ![x] = @ \cup ({tmp[t]} \ {Unversioned})]
          /\ UNCHANGED mem
    /\ Goto(t, "onstore")
    /\ UNCHANGED <<threadVars, tmp, mutexVars, write_versions, locks, lastRead, endVars>>

OnStore(t) ==
    /\ WriteRunning(t, "onstore")
    /\ locks' = IF start /\ Rec(t) THEN [locks EXCEPT ![Cur(t).arg] = NoOwner] ELSE locks
    /\ Advance(t)
    /\ UNCHANGED <<threadVars, tmp, mutexVars, write_versions, mem, lastRead, casFailed, endVars>>

(***************************************************************************)
(* The end of main, or a call of exit() in any thread: OnExit runs first. *)
(* It turns recording off, dumps the logs and deletes every record it     *)
(* finds in thread_ht, and only then clears thread_ht; the process exits  *)
(* after it.  Other threads run on until the exit, and nothing keeps two  *)
(* threads out of OnExit together.                                         *)
(***************************************************************************)
OnExit(t) ==
    /\ Running(t, "exit", "idle")
    /\ start' = FALSE
    /\ dead' = dead \cup thread_ht
    /\ Goto(t, "clear")
    /\ UNCHANGED <<born, st, tmp, thread_ht, tid, forking, fork_lock, mutexVars, memVars,
                   exited, bugExit>>

OnExitClear(t) ==
    /\ Running(t, "exit", "clear")
    /\ thread_ht' = {}
    /\ Goto(t, "return")
    /\ UNCHANGED <<born, st, tmp, tid, forking, start, fork_lock, mutexVars, memVars, endVars>>

ProcessExit(t) ==
    /\ Running(t, "exit", "return")
    /\ exited' = TRUE
    /\ Advance(t)
    /\ UNCHANGED <<threadVars, tmp, mutexVars, memVars, dead, bugExit>>

(* After the exit nothing runs. *)
Terminated == exited /\ UNCHANGED vars

Next ==
    \/ \E t \in Threads :
          \/ OnMethodStart(t)
          \/ OnPreFork(t) \/ PthreadCreate(t) \/ OnForkLookup(t) \/ OnForkInsert(t)
          \/ OnPreMutexInit(t) \/ PthreadMutexInit(t) \/ OnMutexInitRead(t)
          \/ OnMutexInitAssign(t) \/ OnMutexInitPush(t)
          \/ PthreadMutexLock(t) \/ OnLock(t) \/ PthreadMutexUnlock(t)
          \/ PthreadCondWait(t) \/ PthreadCondWakeup(t) \/ OnWait(t)
          \/ Load(t)
          \/ OnPreStore(t) \/ StoreValue(t) \/ AtomicRMW(t) \/ AtomicCmpXchg(t) \/ OnStore(t)
          \/ OnExit(t) \/ OnExitClear(t) \/ ProcessExit(t)
    \/ Terminated

Spec == Init /\ [][Next]_vars

-----------------------------------------------------------------------------
Owners == Threads \cup {NoOwner}

TypeOK ==
    /\ born \in [Threads -> BOOLEAN]
    /\ st \in [Threads -> {"none", "null", "rec"}]
    /\ \A t \in Threads : pc[t] \in 1 .. Len(Program[t]) + 1
    /\ thread_ht \subseteq Threads
    /\ tid \in [Threads -> -1 .. Cardinality(Threads) - 1]
    /\ forking \in BOOLEAN /\ start \in BOOLEAN
    /\ fork_lock \in Owners /\ mutex_init_lock \in Owners
    /\ write_versions \in [SVs -> Nat]
    /\ mem \in [SVs -> {Unversioned} \cup Nat]
    /\ casFailed \in [SVs -> SUBSET Nat]
    /\ locks \in [SVs -> Owners] /\ mutexOwner \in [Mutexes -> Owners]
    /\ mutexState \in [Mutexes -> {"none", "inited", "ready"}]
    /\ mutex_ht \in [Mutexes -> -1 .. Cardinality(Mutexes) - 1]
    /\ llogCount \in 0 .. Cardinality(Mutexes)
    /\ dead \subseteq Threads /\ exited \in BOOLEAN /\ bugExit \in BOOLEAN

(* The thread whose program creates c. *)
ParentOf(c) == CHOOSE t \in Threads : \E i \in 1 .. Len(Program[t]) :
                   Program[t][i] = [op |-> "fork", arg |-> c]

DistinctTids ==
    \A a, b \in thread_ht : a /= b => tid[a] /= tid[b]

(* When OnLock or OnWait logs into llogs[mutex_ht[m]], that log exists: a *)
(* thread about to run either hook on a registered mutex finds its index   *)
(* below llogs.size().                                                     *)
LockLogExists ==
    \A t \in Threads :
        (/\ ~exited /\ pc[t] <= Len(Program[t]) /\ phase[t] \in {"onlock", "onwait"}
         /\ start /\ Rec(t) /\ mutex_ht[Cur(t).arg] /= -1)
        => mutex_ht[Cur(t).arg] < llogCount

(* OnLock's "Program bug" exit is never taken for a program that locks a  *)
(* mutex only after pthread_mutex_init returned.                           *)
NoSpuriousBugExit == ~bugExit

(* The per-variable lock held from OnPreStore to OnStore orders the writes *)
(* as their versions: while recording and with no write in flight, the     *)
(* value of a variable was written by a version already handed out, and   *)
(* every later version went to a cmpxchg that did not write.               *)
MemHoldsLatestVersion ==
    \A x \in SVs :
        (start /\ locks[x] = NoOwner /\ mem[x] /= Unversioned)
        => /\ mem[x] < write_versions[x]
           /\ \A v \in mem[x] + 1 .. write_versions[x] - 1 : v \in casFailed[x]

(* The version OnLoad logs never names a point before the store whose     *)
(* value the load returned: replay, which orders a read after the writes   *)
(* below its logged version, then has the value's write before the read.   *)
ReadVersionCoversValue ==
    \A t \in Threads : lastRead[t].ver > lastRead[t].val

(* OnExit's deletion of the records is safe only if nothing touches a     *)
(* deleted record again: no OnLoad of a thread runs on its record after    *)
(* it was deleted, and no OnExit deletes a record a first OnExit already   *)
(* deleted.                                                                *)
NoHookAfterDelete ==
    [][\A t \in Threads :
          /\ t \in dead /\ Rec(t) => ~OnLoad(t)
          /\ OnExit(t) => thread_ht \cap dead = {}]_vars

====

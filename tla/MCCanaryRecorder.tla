-------------------------- MODULE MCCanaryRecorder --------------------------
(***************************************************************************)
(* Small programs for the recorder.  Threads, shared variables and        *)
(* mutexes are model values; each configuration picks one program.        *)
(***************************************************************************)
EXTENDS CanaryRecorder

CONSTANTS t1, t2, t3, x, m1, m2

Fork(c) == [op |-> "fork", arg |-> c]
MInit(m) == [op |-> "init", arg |-> m]
MLock(m) == [op |-> "lock", arg |-> m]
MUnlock(m) == [op |-> "unlock", arg |-> m]
Ld(v) == [op |-> "load", arg |-> v]
Sto(v) == [op |-> "store", arg |-> v]
Rmw(v) == [op |-> "rmw", arg |-> v]
Cas(v) == [op |-> "cas", arg |-> v]
Wait(m) == [op |-> "wait", arg |-> m]
Exit == [op |-> "exit", arg |-> Main]

(* The transformer passes race = 0, so main is the only thread that      *)
(* forks: two forkers under race 0 break the fork protocol, which          *)
(* ForkRaceProgram shows.  Two mutex initialisers each lock the other's   *)
(* mutex, t1 waits on m1, and two threads write x (a store, a cmpxchg and  *)
(* an atomicrmw) and load it.                                              *)
ConcurrentProgram ==
    [t \in {Main, t1, t2} |->
        CASE t = Main -> <<Fork(t1), Fork(t2), MInit(m1), Sto(x), MLock(m2), MUnlock(m2), Exit>>
          [] t = t1   -> <<MInit(m2), MLock(m1), Wait(m1), MUnlock(m1), Sto(x)>>
          [] t = t2   -> <<Ld(x), Cas(x), Rmw(x), Ld(x)>>]

(* t2, created by t1 while main forks t3, initialises the mutex main locks. *)
ForkRaceProgram ==
    [t \in {Main, t1, t2, t3} |->
        CASE t = Main -> <<Fork(t1), Fork(t3), MLock(m1), MUnlock(m1), Exit>>
          [] t = t1   -> <<Fork(t2)>>
          [] t = t2   -> <<MInit(m1)>>
          [] OTHER    -> <<>>]

(* main exits while t1 still has a load to do. *)
ExitRaceProgram ==
    [t \in {Main, t1} |->
        CASE t = Main -> <<Fork(t1), Exit>>
          [] OTHER    -> <<Ld(x)>>]

====

----------------------------- MODULE ThreadPool -----------------------------
(***************************************************************************)
(* The thread pool of thread.c, and the callers it has: the main thread    *)
(* creates jobs and waits for each, except that it may pass the handle of  *)
(* one job to a later job, which then waits for it (check_thread.c).       *)
(*                                                                         *)
(* A thread's status is written under its mutex by Thread_Create and by    *)
(* the thread itself, but read, and reset, without it by Thread_Wait.      *)
(* The pool's own mutex is only ever taken by the main thread and never    *)
(* contended; what counts is that its being NULL tells the threads to end. *)
(***************************************************************************)
EXTENDS Integers

CONSTANTS
  NumThreads,  \* thread_pool.num_threads.
  Jobs,        \* The jobs the program creates, each once.
  NoJob,       \* NULL for a job.
  MaxInits     \* Bound: how often the pool is initialized.

ASSUME ThreadPoolAssumption ==
  /\ NumThreads \in Nat
  /\ NoJob \notin Jobs
  /\ MaxInits \in Nat \ {0}

Threads == 1 .. NumThreads

(* The main thread, which is no thread_t: a handle that is NULL stands for  *)
(* a job that the main thread has run itself.                               *)
Main == 0

VARIABLES
  pool,      \* Whether thread_pool.mutex is there.
  status,    \* t->status.
  Run,       \* t->Run and t->data.
  mutex,     \* Who holds t->mutex.
  pc,        \* Where each thread is.
  scan,      \* The thread Thread_Create or Thread_Shutdown_ has got to.
  job,       \* The job the main thread creates or waits for.
  handle,    \* What Thread_Create returned for each job.
  waits,     \* The job whose handle each job was given to wait for.
  inits,     \* Calls of Thread_Init so far.
  created,   \* History, as in JobService: jobs given to Thread_Create,
  runs,      \* how often each was run,
  collected  \* and those a Thread_Wait has returned for.

vars == <<pool, status, Run, mutex, pc, scan, job, handle, waits, inits,
          created, runs, collected>>

(* Where a thread is in Thread_Run, and the main thread in its calls. *)
JobPC == {"run", "waiting", "work"}
ThreadPC == {"loop", "lock", "test", "ran", "asleep", "woken", "exited"}
MainPC == {"ready", "scan", "locking", "dispatch", "signal", "collecting",
           "draining", "waking", "joining", "stopped"}

TypeOK ==
  /\ pool \in BOOLEAN
  /\ status \in [Threads -> {"idle", "running", "wait"}]
  /\ Run \in [Threads -> Jobs \cup {NoJob}]
  /\ mutex \in [Threads -> {"free", "main", "thread"}]
  /\ pc \in [Threads \cup {Main} -> JobPC \cup ThreadPC \cup MainPC]
  /\ pc[Main] \in JobPC \cup MainPC
  /\ \A t \in Threads : pc[t] \in JobPC \cup ThreadPC
  /\ scan \in 1 .. NumThreads + 1
  /\ job \in Jobs \cup {NoJob}
  /\ handle \in [Jobs -> Threads \cup {Main}]
  /\ waits \in [Jobs -> Jobs \cup {NoJob}]
  /\ inits \in 1 .. MaxInits
  /\ created \subseteq Jobs
  /\ runs \in [Jobs -> Nat]
  /\ collected \subseteq created

-----------------------------------------------------------------------------
(* Thread_Init at the start of the program. *)
Init ==
  /\ pool = TRUE
  /\ status = [t \in Threads |-> "idle"]
  /\ Run = [t \in Threads |-> NoJob]
  /\ mutex = [t \in Threads |-> "free"]
  /\ pc = [t \in Threads \cup {Main} |-> IF t = Main THEN "ready" ELSE "loop"]
  /\ scan = 1
  /\ job = NoJob
  /\ handle = [j \in Jobs |-> Main]
  /\ waits = [j \in Jobs |-> NoJob]
  /\ inits = 1
  /\ created = {}
  /\ runs = [j \in Jobs |-> 0]
  /\ collected = {}

Goto(t, next) == pc' = [pc EXCEPT ![t] = next]

(* SDL_CondSignal by the main thread: a thread that is not asleep misses it. *)
Signal(t, next) ==
  pc' = [pc EXCEPT ![Main] = next,
                   ![t] = IF @ = "asleep" THEN "woken" ELSE @]

(* Mutant of Available: a thread that has finished will do as well. *)
AvailableToo(t) == status[t] # "running"

Available(t) == status[t] = "idle"

(* Mutant of Finished: anything but an idle thread. *)
FinishedEarly(t) == status[t] # "idle"

Finished(t) == status[t] = "wait"

(* Thread_Wait returns at once for NULL and for an idle thread. *)
NothingToWaitFor(t) == IF t = Main THEN TRUE ELSE Available(t)

-----------------------------------------------------------------------------
(* The function of a job, in whichever thread runs it. *)
Doing(t) == IF t = Main THEN job ELSE Run[t]

(* The job that the one t runs waits for, if any. *)
Awaited(t) == waits[Doing(t)]

MustWait(t) ==
  IF Awaited(t) = NoJob THEN FALSE ELSE ~NothingToWaitFor(handle[Awaited(t)])

(* Thread_Wait in a job, when it need not wait. *)
BeginRun(t) ==
  /\ pc[t] = "run"
  /\ ~MustWait(t)
  /\ Goto(t, "work")
  /\ collected' = collected \cup ({Awaited(t)} \ {NoJob})
  /\ UNCHANGED <<pool, status, Run, mutex, scan, job, handle, waits, inits,
                 created, runs>>

(* Thread_Wait in a job, when it must. *)
BeginWait(t) ==
  /\ pc[t] = "run"
  /\ MustWait(t)
  /\ Goto(t, "waiting")
  /\ UNCHANGED <<pool, status, Run, mutex, scan, job, handle, waits, inits,
                 created, runs, collected>>

(* Thread_Wait in a job, at its end. *)
EndWait(t) ==
  /\ pc[t] = "waiting"
  /\ Finished(handle[Awaited(t)])
  /\ status' = [status EXCEPT ![handle[Awaited(t)]] = "idle"]
  /\ collected' = collected \cup {Awaited(t)}
  /\ Goto(t, "work")
  /\ UNCHANGED <<pool, Run, mutex, scan, job, handle, waits, inits, created,
                 runs>>

(* Mutant of AfterJob: wherever the job ran. *)
AfterJobAlways(t) == "ran"

(* The main thread returns from Thread_Create, another from t->Run. *)
AfterJob(t) == IF t = Main THEN "ready" ELSE "ran"

(* The rest of the job. *)
Work(t) ==
  /\ pc[t] = "work"
  /\ runs' = [runs EXCEPT ![Doing(t)] = @ + 1]
  /\ Goto(t, AfterJob(t))
  /\ UNCHANGED <<pool, status, Run, mutex, scan, job, handle, waits, inits,
                 created, collected>>

-----------------------------------------------------------------------------
(* Thread_Run: while (thread_pool.mutex), which nothing protects. *)
Loop(t) ==
  /\ pc[t] = "loop"
  /\ Goto(t, IF pool THEN "lock" ELSE "exited")
  /\ UNCHANGED <<pool, status, Run, mutex, scan, job, handle, waits, inits,
                 created, runs, collected>>

(* SDL_mutexP, and the same at the end of SDL_CondWait, which SDL_mutexV    *)
(* follows.                                                                 *)
Lock(t) ==
  /\ pc[t] \in {"lock", "woken"} /\ mutex[t] = "free"
  /\ IF pc[t] = "lock"
       THEN Goto(t, "test") /\ mutex' = [mutex EXCEPT ![t] = "thread"]
       ELSE Goto(t, "loop") /\ UNCHANGED mutex
  /\ UNCHANGED <<pool, status, Run, scan, job, handle, waits, inits, created,
                 runs, collected>>

(* The thread has got work, or goes to sleep in SDL_CondWait. *)
Test(t) ==
  /\ pc[t] = "test"
  /\ IF status[t] = "running"
       THEN Goto(t, "run") /\ UNCHANGED mutex
       ELSE Goto(t, "asleep") /\ mutex' = [mutex EXCEPT ![t] = "free"]
  /\ UNCHANGED <<pool, status, Run, scan, job, handle, waits, inits, created,
                 runs, collected>>

(* A condition may also wake up for no reason. *)
WakeSpuriously(t) ==
  /\ pc[t] = "asleep"
  /\ Goto(t, "woken")
  /\ UNCHANGED <<pool, status, Run, mutex, scan, job, handle, waits, inits,
                 created, runs, collected>>

(* The job is forgotten and the status published.  Without a barrier in     *)
(* between, the compiler may order the two stores either way.               *)
Forget(t) ==
  /\ pc[t] = "ran" /\ Run[t] # NoJob
  /\ Run' = [Run EXCEPT ![t] = NoJob]
  /\ UNCHANGED <<pool, status, mutex, pc, scan, job, handle, waits, inits,
                 created, runs, collected>>

Publish(t) ==
  /\ pc[t] = "ran" /\ status[t] = "running"
  /\ status' = [status EXCEPT ![t] = "wait"]
  /\ UNCHANGED <<pool, Run, mutex, pc, scan, job, handle, waits, inits,
                 created, runs, collected>>

(* SDL_mutexV. *)
Unlock(t) ==
  /\ pc[t] = "ran" /\ Run[t] = NoJob /\ status[t] # "running"
  /\ mutex' = [mutex EXCEPT ![t] = "free"]
  /\ Goto(t, "loop")
  /\ UNCHANGED <<pool, status, Run, scan, job, handle, waits, inits, created,
                 runs, collected>>

-----------------------------------------------------------------------------
(* Handles the main thread has and has neither waited for nor passed on. *)
Held == created \ (collected \cup {waits[j] : j \in Jobs})

(* Thread_Create, for a job that is given the handle of w, if any. *)
Create(j, w) ==
  /\ pc[Main] = "ready" /\ j \notin created
  /\ created' = created \cup {j}
  /\ waits' = [waits EXCEPT ![j] = w]
  /\ job' = j
  /\ scan' = 1
  /\ Goto(Main, "scan")
  /\ UNCHANGED <<pool, status, Run, mutex, handle, inits, runs, collected>>

(* The next thread, if it appears idle; with none left, run(data). *)
Scan ==
  /\ pc[Main] = "scan"
  /\ \/ scan > NumThreads /\ Goto(Main, "run") /\ UNCHANGED scan
     \/ scan <= NumThreads /\ Available(scan) /\ Goto(Main, "locking") /\ UNCHANGED scan
     \/ scan <= NumThreads /\ ~Available(scan) /\ scan' = scan + 1 /\ UNCHANGED pc
  /\ UNCHANGED <<pool, status, Run, mutex, job, handle, waits, inits, created,
                 runs, collected>>

LockIdle ==
  /\ pc[Main] = "locking" /\ mutex[scan] = "free"
  /\ mutex' = [mutex EXCEPT ![scan] = "main"]
  /\ Goto(Main, "dispatch")
  /\ UNCHANGED <<pool, status, Run, scan, job, handle, waits, inits, created,
                 runs, collected>>

(* The thread is checked again, given the job, and unlocked. *)
Dispatch ==
  /\ pc[Main] = "dispatch"
  /\ mutex' = [mutex EXCEPT ![scan] = "free"]
  /\ IF Available(scan)
       THEN /\ Run' = [Run EXCEPT ![scan] = job]
            /\ status' = [status EXCEPT ![scan] = "running"]
            /\ handle' = [handle EXCEPT ![job] = scan]
            /\ Goto(Main, "signal")
            /\ UNCHANGED scan
       ELSE /\ scan' = scan + 1
            /\ Goto(Main, "scan")
            /\ UNCHANGED <<Run, status, handle>>
  /\ UNCHANGED <<pool, job, waits, inits, created, runs, collected>>

(* Mutant of SignalThread: the thread finds its work by itself. *)
SignalForgotten ==
  /\ pc[Main] = "signal"
  /\ Goto(Main, "ready")
  /\ UNCHANGED <<pool, status, Run, mutex, scan, job, handle, waits, inits,
                 created, runs, collected>>

SignalThread ==
  /\ pc[Main] = "signal"
  /\ Signal(scan, "ready")
  /\ UNCHANGED <<pool, status, Run, mutex, scan, job, handle, waits, inits,
                 created, runs, collected>>

(* Thread_Wait in the main thread: it returns at once, or polls. *)
Wait(j) ==
  /\ pc[Main] = "ready" /\ j \in Held
  /\ job' = j
  /\ IF NothingToWaitFor(handle[j])
       THEN collected' = collected \cup {j} /\ UNCHANGED pc
       ELSE Goto(Main, "collecting") /\ UNCHANGED collected
  /\ UNCHANGED <<pool, status, Run, mutex, scan, handle, waits, inits, created,
                 runs>>

Collect ==
  /\ pc[Main] = "collecting"
  /\ Finished(handle[job])
  /\ status' = [status EXCEPT ![handle[job]] = "idle"]
  /\ collected' = collected \cup {job}
  /\ Goto(Main, "ready")
  /\ UNCHANGED <<pool, Run, mutex, scan, job, handle, waits, inits, created,
                 runs>>

-----------------------------------------------------------------------------
(* Thread_Shutdown.  The program has waited for all of its jobs by then. *)
Shutdown ==
  /\ pc[Main] = "ready" /\ created = collected
  /\ pool' = FALSE
  /\ scan' = 1
  /\ Goto(Main, "draining")
  /\ UNCHANGED <<status, Run, mutex, job, handle, waits, inits, created, runs,
                 collected>>

(* Thread_Wait in Thread_Shutdown_, for the next thread. *)
Drain ==
  /\ pc[Main] = "draining"
  /\ IF scan > NumThreads
       THEN Goto(Main, "stopped") /\ UNCHANGED status
       ELSE /\ status[scan] # "running"
            /\ status' = [status EXCEPT ![scan] = "idle"]
            /\ Goto(Main, "waking")
  /\ UNCHANGED <<pool, Run, mutex, scan, job, handle, waits, inits, created,
                 runs, collected>>

(* SDL_CondSignal, for which the thread's mutex is not taken. *)
WakeThread ==
  /\ pc[Main] = "waking"
  /\ Signal(scan, "joining")
  /\ UNCHANGED <<pool, status, Run, mutex, scan, job, handle, waits, inits,
                 created, runs, collected>>

(* SDL_WaitThread. *)
Join ==
  /\ pc[Main] = "joining" /\ pc[scan] = "exited"
  /\ scan' = scan + 1
  /\ Goto(Main, "draining")
  /\ UNCHANGED <<pool, status, Run, mutex, job, handle, waits, inits, created,
                 runs, collected>>

(* Thread_Init again, in the frame that finds the threads cvar modified. *)
Reinit ==
  /\ pc[Main] = "stopped" /\ inits < MaxInits
  /\ inits' = inits + 1
  /\ pool' = TRUE
  /\ status' = [t \in Threads |-> "idle"]
  /\ Run' = [t \in Threads |-> NoJob]
  /\ mutex' = [t \in Threads |-> "free"]
  /\ pc' = [t \in Threads \cup {Main} |-> IF t = Main THEN "ready" ELSE "loop"]
  /\ UNCHANGED <<scan, job, handle, waits, created, runs, collected>>

-----------------------------------------------------------------------------
JobStep(t) == BeginRun(t) \/ BeginWait(t) \/ EndWait(t) \/ Work(t)

ThreadStep(t) ==
  JobStep(t) \/ Loop(t) \/ Lock(t) \/ Test(t) \/ Forget(t) \/ Publish(t) \/ Unlock(t)

(* The calls of the main thread, once begun. *)
MainStep ==
  \/ JobStep(Main) \/ Scan \/ LockIdle \/ Dispatch \/ SignalThread \/ Collect
  \/ Drain \/ WakeThread \/ Join

Next ==
  \/ \E t \in Threads : ThreadStep(t) \/ WakeSpuriously(t)
  \/ MainStep
  \/ \E j \in Jobs : \E w \in Held \cup {NoJob} : Create(j, w)
  \/ \E j \in Jobs : Wait(j)
  \/ Shutdown
  \/ Reinit

Spec == Init /\ [][Next]_vars

(* Every thread is scheduled again and again, and a mutex that is free      *)
(* again and again is obtained, though a thread that keeps waking up takes  *)
(* it in between.  Which calls the main thread makes is up to the program.  *)
Fairness ==
  /\ WF_vars(MainStep) /\ SF_vars(LockIdle)
  /\ \A t \in Threads : WF_vars(ThreadStep(t))

FairSpec == Spec /\ Fairness

-----------------------------------------------------------------------------
(* A thread has at most one job that has not been waited for, and until     *)
(* that has been run, the thread is busy with it: it is neither given away  *)
(* again nor reset while the handle is in use.                              *)
HandlesExclusive ==
  \A i, j \in created \ collected :
    handle[i] # Main =>
      /\ i # j => handle[i] # handle[j]
      /\ runs[i] = 0 => status[handle[i]] = "running" /\ Run[handle[i]] = i

(* Jobs run once, and no Thread_Wait returns before: the test of the pool   *)
(* (check_thread.c), for any number of threads and any interleaving.        *)
Service == INSTANCE JobService
JobsServed == Service!Spec

(* Every job is run, and every Thread_Wait returns. *)
EveryJobRuns == \A j \in Jobs : j \in created ~> runs[j] = 1
EveryWaitReturns ==
  /\ pc[Main] = "collecting" ~> pc[Main] # "collecting"
  /\ \A t \in Threads \cup {Main} : pc[t] = "waiting" ~> pc[t] # "waiting"

(* Thread_Shutdown, once called, shuts the pool down (thread.c). *)
ShutdownCompletes == pc[Main] = "draining" ~> pc[Main] = "stopped"
=============================================================================

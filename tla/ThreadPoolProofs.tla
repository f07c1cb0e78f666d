-------------------------- MODULE ThreadPoolProofs --------------------------
(***************************************************************************)
(* The thread pool runs every job once and lets no wait return before, for *)
(* any number of threads and jobs and however often it is started over.    *)
(***************************************************************************)
EXTENDS ThreadPool, TLAPS

(* Jobs that somebody may still wait for. *)
Open == created \ collected

(* The main thread is in Thread_Create, before the job has been given away *)
(* or run; and past the end of its life with the pool.                     *)
Creating == pc[Main] \in {"scan", "locking", "dispatch"} \cup JobPC
Stopping == pc[Main] \in {"draining", "waking", "joining", "stopped"}

(* Places where a thread holds its own mutex. *)
Holding == {"test", "ran"} \cup JobPC

(* The part of the program that runs job j is past the wait j begins with. *)
Begun(j) == runs[j] = 1 \/ (pc[handle[j]] = "work" /\ Doing(handle[j]) = j)

(* What is known of a job at each point of its life. *)
JobLife(j) ==
  /\ runs[j] \in {0, 1}
  /\ j \notin created => runs[j] = 0 /\ handle[j] = Main /\ waits[j] = NoJob
  /\ j \in collected => runs[j] = 1

(* A handle is passed on once, to a later job, and is not waited for by     *)
(* anybody before that job begins.                                          *)
PassedOn(j) ==
  waits[j] # NoJob =>
    /\ waits[j] \in created /\ waits[j] # j
    /\ \A i \in Jobs : waits[i] = waits[j] => i = j
    /\ waits[j] \in collected => Begun(j)

(* The job that the main thread has begun to create is its own. *)
MainBusy ==
  /\ Creating => /\ job \in Open /\ handle[job] = Main /\ runs[job] = 0
                 /\ \A j \in Jobs : waits[j] # job
  /\ pc[Main] \in {"locking", "dispatch", "signal", "waking", "joining"} => scan \in Threads
  /\ pc[Main] = "collecting" => /\ job \in Open /\ handle[job] \in Threads
                                /\ \A j \in Jobs : waits[j] # job
  /\ Stopping => created = collected

(* What the mutex of thread t protects: nobody is given to it while it      *)
(* finishes a job, and nobody else may find it finished before.             *)
Locked(t) ==
  /\ mutex[t] = "thread" <=> pc[t] \in Holding
  /\ mutex[t] = "main" <=> pc[Main] = "dispatch" /\ scan = t
  /\ pc[t] \in JobPC => status[t] = "running"

(* A running thread has a job of its own, until that has been run. *)
OwnJob(t) ==
  status[t] = "running" /\ pc[t] # "ran" =>
    Run[t] \in Open /\ handle[Run[t]] = t /\ runs[Run[t]] = 0

(* Who waits for a job waits for one a thread was given. *)
WaitsForThread(t) ==
  pc[t] = "waiting" => Awaited(t) # NoJob /\ handle[Awaited(t)] \in Threads

(* A job given to a thread and not waited for keeps the thread: it is the   *)
(* only one, is being run until it has been, and the thread is not idle.    *)
KeptBusy(j) ==
  j \in Open =>
    IF handle[j] = Main
    THEN runs[j] = 0 => Creating /\ job = j
    ELSE /\ status[handle[j]] # "idle"
         /\ \A i \in Open : handle[i] = handle[j] => i = j
         /\ runs[j] = 0 => /\ status[handle[j]] = "running"
                           /\ Run[handle[j]] = j
                           /\ pc[handle[j]] # "ran"

PoolInv ==
  /\ TypeOK
  /\ \A j \in Jobs : JobLife(j) /\ PassedOn(j) /\ KeptBusy(j)
  /\ MainBusy
  /\ \A t \in Threads : Locked(t) /\ OwnJob(t)
  /\ \A t \in Threads \cup {Main} : WaitsForThread(t)

-----------------------------------------------------------------------------
(* What TypeOK says of where everybody is. *)
PlacesOK ==
  /\ pc \in [Threads \cup {Main} -> JobPC \cup ThreadPC \cup MainPC]
  /\ pc[Main] \in JobPC \cup MainPC
  /\ \A t \in Threads : pc[t] \in JobPC \cup ThreadPC

(* Zero is the handle of no thread. *)
LEMMA MainIsNoThread == Main \notin Threads
BY ThreadPoolAssumption DEF Main, Threads

(* Going to a place of one's own keeps everybody in theirs. *)
LEMMA GotoPlace ==
  ASSUME TypeOK, NEW t \in Threads \cup {Main}, NEW p, Goto(t, p),
         p \in JobPC \cup (IF t = Main THEN MainPC ELSE ThreadPC)
  PROVE  /\ PlacesOK'
         /\ pc'[t] = p
         /\ \A u \in (Threads \cup {Main}) \ {t} : pc'[u] = pc[u]
<1>1. PlacesOK
  BY DEF TypeOK, PlacesOK
<1>2. pc' = [pc EXCEPT ![t] = p]
  BY DEF Goto
<1> QED
  BY <1>1, <1>2, MainIsNoThread DEF PlacesOK

(* A thread that moves on, with or without its mutex, without touching its  *)
(* status or its job, disturbs nothing, if it has run its job when it       *)
(* leaves it and does not wait for anything but a thread.                   *)
LEMMA ThreadMoves ==
  ASSUME PoolInv, NEW t \in Threads, NEW p \in JobPC \cup ThreadPC, Goto(t, p),
         UNCHANGED <<pool, status, Run, scan, job, handle, waits, inits,
                     created, runs, collected>>,
         mutex' \in [Threads -> {"free", "main", "thread"}],
         \A u \in Threads \ {t} : mutex'[u] = mutex[u],
         mutex'[t] = "thread" <=> p \in Holding,
         mutex'[t] = "main" <=> mutex[t] = "main",
         pc[t] # "work", pc[t] = "ran" => status[t] # "running", p # "ran",
         p \in JobPC => status[t] = "running",
         p = "waiting" => Awaited(t) # NoJob /\ handle[Awaited(t)] \in Threads
  PROVE  PoolInv'
<1>1. /\ PlacesOK' /\ pc'[t] = p
      /\ \A u \in (Threads \cup {Main}) \ {t} : pc'[u] = pc[u]
  BY GotoPlace, MainIsNoThread DEF PoolInv
<1>2. pc'[Main] = pc[Main]
  BY <1>1, MainIsNoThread
<1>3. TypeOK'
  BY <1>1 DEF TypeOK, PlacesOK, PoolInv
<1>4. ASSUME NEW i \in Jobs PROVE JobLife(i)'
  BY DEF JobLife, PoolInv
<1>5. ASSUME NEW i \in Jobs PROVE PassedOn(i)'
  <2>1. handle[i] \in Threads \cup {Main}
    BY DEF PoolInv, TypeOK
  <2>2. Begun(i) => Begun(i)'
    BY <1>1, <2>1 DEF Begun, Doing
  <2> QED
    BY <2>2 DEF PassedOn, PoolInv
<1>6. ASSUME NEW i \in Jobs PROVE KeptBusy(i)'
  <2>1. handle[i] \in Threads \cup {Main}
    BY DEF PoolInv, TypeOK
  <2> QED
    BY <1>1, <1>2, <2>1 DEF KeptBusy, PoolInv, Open, Creating
<1>7. MainBusy'
  BY <1>2 DEF MainBusy, PoolInv, Creating, Stopping, Open
<1>8. ASSUME NEW u \in Threads PROVE Locked(u)' /\ OwnJob(u)'
  BY <1>1, <1>2 DEF Locked, OwnJob, PoolInv, Open
<1>9. ASSUME NEW u \in Threads \cup {Main} PROVE WaitsForThread(u)'
  BY <1>1 DEF WaitsForThread, PoolInv, Awaited, Doing
<1> QED
  BY <1>3, <1>4, <1>5, <1>6, <1>7, <1>8, <1>9 DEF PoolInv

(* The same for the main thread, which may wake a thread at that: it goes   *)
(* on with the job it creates, or has none, and only then takes up another. *)
LEMMA MainMoves ==
  ASSUME PoolInv, NEW p, PlacesOK', pc'[Main] = p,
         \A t \in Threads : pc'[t] = pc[t] \/ (pc[t] = "asleep" /\ pc'[t] = "woken"),
         UNCHANGED <<status, Run, handle, waits, inits, created, runs, collected>>,
         pool' \in BOOLEAN, scan' \in 1 .. NumThreads + 1, job' \in Jobs \cup {NoJob},
         mutex' \in [Threads -> {"free", "main", "thread"}],
         \A t \in Threads : /\ mutex'[t] = "thread" <=> mutex[t] = "thread"
                            /\ mutex'[t] = "main" <=> p = "dispatch" /\ scan' = t,
         pc[Main] # "work", Creating' <=> Creating, Creating => job' = job,
         p = "waiting" => Awaited(Main) # NoJob /\ handle[Awaited(Main)] \in Threads,
         MainBusy'
  PROVE  PoolInv'
<1>1. ASSUME NEW t \in Threads \cup {Main}, pc'[t] # pc[t]
      PROVE  t = Main \/ (pc[t] = "asleep" /\ pc'[t] = "woken")
  BY <1>1
<1>2. TypeOK'
  BY DEF TypeOK, PlacesOK, PoolInv
<1>3. ASSUME NEW i \in Jobs PROVE JobLife(i)'
  BY DEF JobLife, PoolInv
<1>4. ASSUME NEW i \in Jobs PROVE PassedOn(i)'
  <2>1. handle[i] \in Threads \cup {Main}
    BY DEF PoolInv, TypeOK
  <2>2. Begun(i) => Begun(i)'
    BY <1>1, <2>1, MainIsNoThread DEF Begun, Doing
  <2> QED
    BY <2>2 DEF PassedOn, PoolInv
<1>5. ASSUME NEW i \in Jobs PROVE KeptBusy(i)'
  <2>1. handle[i] \in Threads \cup {Main}
    BY DEF PoolInv, TypeOK
  <2> QED
    BY <1>1, <2>1, MainIsNoThread DEF KeptBusy, PoolInv, Open
<1>6. ASSUME NEW u \in Threads PROVE Locked(u)' /\ OwnJob(u)'
  BY DEF Locked, OwnJob, PoolInv, Open, Holding, JobPC
<1>7. ASSUME NEW u \in Threads \cup {Main} PROVE WaitsForThread(u)'
  <2>1. CASE u = Main
    BY <2>1 DEF WaitsForThread, PoolInv, Awaited, Doing, Creating, JobPC
  <2>2. CASE u \in Threads
    BY <2>2, MainIsNoThread DEF WaitsForThread, PoolInv, Awaited, Doing
  <2> QED
    BY <2>1, <2>2
<1> QED
  BY <1>2, <1>3, <1>4, <1>5, <1>6, <1>7 DEF PoolInv

-----------------------------------------------------------------------------
(* The steps that only move a thread. *)
LEMMA LoopStep ==
  ASSUME PoolInv, NEW t \in Threads, Loop(t) \/ WakeSpuriously(t)
  PROVE  PoolInv'
<1> DEFINE p == IF Loop(t) THEN IF pool THEN "lock" ELSE "exited" ELSE "woken"
<1>1. /\ p \in ThreadPC /\ p \notin Holding \cup JobPC
      /\ pc[t] \in {"loop", "asleep"} /\ Goto(t, p)
      /\ UNCHANGED <<pool, status, Run, scan, job, handle, waits, inits,
                     created, runs, collected, mutex>>
  BY DEF Loop, WakeSpuriously, ThreadPC, Holding, JobPC
<1>2. mutex[t] # "thread" /\ mutex \in [Threads -> {"free", "main", "thread"}]
  BY <1>1 DEF PoolInv, Locked, Holding, JobPC, TypeOK
<1> HIDE DEF p
<1> QED
  BY <1>1, <1>2, ThreadMoves DEF Holding, JobPC

LEMMA LockStep ==
  ASSUME PoolInv, NEW t \in Threads, Lock(t)
  PROVE  PoolInv'
<1>1. /\ mutex[t] = "free" /\ mutex \in [Threads -> {"free", "main", "thread"}]
      /\ UNCHANGED <<pool, status, Run, scan, job, handle, waits, inits,
                     created, runs, collected>>
  BY DEF Lock, PoolInv, TypeOK
<1>2. CASE pc[t] = "lock"
  <2>1. Goto(t, "test") /\ mutex' = [mutex EXCEPT ![t] = "thread"]
    BY <1>2 DEF Lock
  <2> QED
    BY <1>1, <1>2, <2>1, ThreadMoves DEF Holding, JobPC, ThreadPC
<1>3. CASE pc[t] = "woken"
  <2>1. Goto(t, "loop") /\ mutex' = mutex
    BY <1>3 DEF Lock
  <2> QED
    BY <1>1, <1>3, <2>1, ThreadMoves DEF Holding, JobPC, ThreadPC
<1> QED
  BY <1>2, <1>3 DEF Lock

LEMMA TestStep ==
  ASSUME PoolInv, NEW t \in Threads, Test(t)
  PROVE  PoolInv'
<1>1. /\ pc[t] = "test" /\ mutex \in [Threads -> {"free", "main", "thread"}]
      /\ UNCHANGED <<pool, status, Run, scan, job, handle, waits, inits,
                     created, runs, collected>>
  BY DEF Test, PoolInv, TypeOK
<1>2. mutex[t] = "thread"
  BY <1>1 DEF PoolInv, Locked, Holding
<1>3. CASE status[t] = "running"
  <2>1. Goto(t, "run") /\ mutex' = mutex
    BY <1>3 DEF Test
  <2> QED
    BY <1>1, <1>2, <1>3, <2>1, ThreadMoves DEF Holding, JobPC, ThreadPC
<1>4. CASE status[t] # "running"
  <2>1. Goto(t, "asleep") /\ mutex' = [mutex EXCEPT ![t] = "free"]
    BY <1>4 DEF Test
  <2> QED
    BY <1>1, <1>2, <2>1, ThreadMoves DEF Holding, JobPC, ThreadPC
<1> QED
  BY <1>3, <1>4

LEMMA UnlockStep ==
  ASSUME PoolInv, NEW t \in Threads, Unlock(t)
  PROVE  PoolInv'
<1>1. /\ pc[t] = "ran" /\ status[t] # "running" /\ Goto(t, "loop")
      /\ mutex' = [mutex EXCEPT ![t] = "free"]
      /\ UNCHANGED <<pool, status, Run, scan, job, handle, waits, inits,
                     created, runs, collected>>
  BY DEF Unlock
<1>2. mutex[t] = "thread" /\ mutex \in [Threads -> {"free", "main", "thread"}]
  BY <1>1 DEF PoolInv, Locked, Holding, TypeOK
<1> QED
  BY <1>1, <1>2, ThreadMoves DEF Holding, JobPC, ThreadPC

-----------------------------------------------------------------------------
(* The steps that only move the main thread. *)
LEMMA BeginWaitStep ==
  ASSUME PoolInv, NEW t \in Threads \cup {Main}, BeginWait(t)
  PROVE  PoolInv'
<1>1. /\ pc[t] = "run" /\ Goto(t, "waiting")
      /\ UNCHANGED <<pool, status, Run, mutex, scan, job, handle, waits, inits,
                     created, runs, collected>>
      /\ mutex \in [Threads -> {"free", "main", "thread"}]
  BY DEF BeginWait, PoolInv, TypeOK
<1>2. Awaited(t) # NoJob /\ handle[Awaited(t)] # Main
  BY DEF BeginWait, MustWait, NothingToWaitFor
<1>3. handle[Awaited(t)] \in Threads
  <2>1. Doing(t) \in Jobs
    BY <1>1, MainIsNoThread
       DEF PoolInv, Doing, MainBusy, Creating, Locked, OwnJob, JobPC, Open, TypeOK
  <2>2. Awaited(t) \in Jobs
    BY <1>2, <2>1 DEF PoolInv, TypeOK, Awaited
  <2> QED
    BY <1>2, <2>2 DEF PoolInv, TypeOK
<1>4. CASE t \in Threads
  <2>1. mutex[t] = "thread" /\ status[t] = "running"
    BY <1>1, <1>4 DEF PoolInv, Locked, Holding, JobPC
  <2> QED
    BY <1>1, <1>2, <1>3, <1>4, <2>1, ThreadMoves DEF Holding, JobPC, ThreadPC
<1>5. CASE t = Main
  <2>1. PlacesOK' /\ pc'[Main] = "waiting" /\ \A u \in Threads : pc'[u] = pc[u]
    BY <1>1, <1>5, GotoPlace, MainIsNoThread DEF JobPC, PoolInv
  <2>2. Creating /\ Creating'
    BY <1>1, <1>5, <2>1 DEF Creating, JobPC
  <2>3. MainBusy'
    BY <1>1, <2>1, <2>2 DEF MainBusy, PoolInv, Stopping, Open, JobPC
  <2>4. \A u \in Threads : mutex[u] # "main"
    BY <1>1, <1>5 DEF PoolInv, Locked
  <2> QED
    BY <1>1, <1>2, <1>3, <1>5, <2>1, <2>2, <2>3, <2>4, MainMoves DEF PoolInv, TypeOK
<1> QED
  BY <1>4, <1>5

LEMMA ScanStep ==
  ASSUME PoolInv, Scan
  PROVE  PoolInv'
<1>1. /\ pc[Main] = "scan" /\ mutex' = mutex
      /\ UNCHANGED <<pool, status, Run, job, handle, waits, inits, created,
                     runs, collected>>
      /\ mutex \in [Threads -> {"free", "main", "thread"}]
      /\ scan \in 1 .. NumThreads + 1 /\ NumThreads \in Nat
  BY ThreadPoolAssumption DEF Scan, PoolInv, TypeOK
<1>2. PICK p \in {"run", "locking", "scan"} :
        /\ PlacesOK' /\ pc'[Main] = p /\ \A u \in Threads : pc'[u] = pc[u]
        /\ p = "locking" => scan' \in Threads
        /\ scan' \in 1 .. NumThreads + 1
  <2>1. ASSUME NEW p \in {"run", "locking"}, Goto(Main, p), scan' = scan,
               p = "locking" => scan <= NumThreads
        PROVE  /\ PlacesOK' /\ pc'[Main] = p /\ \A u \in Threads : pc'[u] = pc[u]
               /\ p = "locking" => scan' \in Threads
               /\ scan' \in 1 .. NumThreads + 1
    <3>1. p \in JobPC \cup MainPC /\ Main \in Threads \cup {Main}
      BY DEF JobPC, MainPC
    <3>2. /\ PlacesOK' /\ pc'[Main] = p
          /\ \A u \in (Threads \cup {Main}) \ {Main} : pc'[u] = pc[u]
      BY <2>1, <3>1, GotoPlace DEF PoolInv
    <3> QED
      BY <1>1, <2>1, <3>2, MainIsNoThread DEF Threads
  <2>2. CASE scan <= NumThreads /\ scan' = scan + 1 /\ pc' = pc
    BY <1>1, <2>2 DEF PoolInv, TypeOK, PlacesOK
  <2> QED
    BY <2>1, <2>2 DEF Scan
<1>3. Creating /\ Creating'
  BY <1>1, <1>2 DEF Creating, JobPC
<1>4. MainBusy'
  BY <1>1, <1>2, <1>3 DEF MainBusy, PoolInv, Stopping, Open
<1>5. \A u \in Threads : mutex[u] # "main"
  BY <1>1 DEF PoolInv, Locked
<1> QED
  BY <1>1, <1>2, <1>3, <1>4, <1>5, MainMoves DEF PoolInv, TypeOK

LEMMA LockIdleStep ==
  ASSUME PoolInv, LockIdle
  PROVE  PoolInv'
<1>1. /\ pc[Main] = "locking" /\ mutex[scan] = "free"
      /\ mutex' = [mutex EXCEPT ![scan] = "main"] /\ Goto(Main, "dispatch")
      /\ UNCHANGED <<pool, status, Run, scan, job, handle, waits, inits, created,
                     runs, collected>>
      /\ mutex \in [Threads -> {"free", "main", "thread"}]
  BY DEF LockIdle, PoolInv, TypeOK
<1>2. PlacesOK' /\ pc'[Main] = "dispatch" /\ \A u \in Threads : pc'[u] = pc[u]
  BY <1>1, GotoPlace, MainIsNoThread DEF MainPC, PoolInv
<1>3. Creating /\ Creating' /\ scan \in Threads
  BY <1>1, <1>2 DEF Creating, MainBusy, PoolInv
<1>4. MainBusy'
  BY <1>1, <1>2, <1>3 DEF MainBusy, PoolInv, Stopping, Open
<1>5. \A u \in Threads : mutex[u] # "main"
  BY <1>1 DEF PoolInv, Locked
<1> QED
  BY <1>1, <1>2, <1>3, <1>4, <1>5, MainMoves DEF PoolInv, TypeOK

(* SDL_CondSignal: at the end of Thread_Create, and of Thread_Wait in       *)
(* Thread_Shutdown_.                                                        *)
LEMMA SignalStep ==
  ASSUME PoolInv, SignalThread \/ WakeThread
  PROVE  PoolInv'
<1> DEFINE p == IF SignalThread THEN "ready" ELSE "joining"
<1>1. /\ pc[Main] \in {"signal", "waking"} /\ Signal(scan, p)
      /\ p = "joining" => pc[Main] = "waking"
      /\ UNCHANGED <<pool, status, Run, mutex, scan, job, handle, waits, inits,
                     created, runs, collected>>
      /\ mutex \in [Threads -> {"free", "main", "thread"}]
      /\ p \in {"ready", "joining"}
  BY DEF SignalThread, WakeThread, PoolInv, TypeOK
<1> HIDE DEF p
<1>2. scan \in Threads
  BY <1>1 DEF PoolInv, MainBusy
<1>3. /\ pc' = [pc EXCEPT ![Main] = p, ![scan] = IF @ = "asleep" THEN "woken" ELSE @]
      /\ pc'[Main] = p
      /\ \A t \in Threads : pc'[t] = pc[t] \/ (pc[t] = "asleep" /\ pc'[t] = "woken")
  BY <1>1, <1>2, MainIsNoThread DEF Signal, PoolInv, TypeOK
<1>4. PlacesOK'
  <2>1. p \in MainPC /\ "woken" \in ThreadPC
    BY <1>1 DEF MainPC, ThreadPC
  <2> QED
    BY <1>2, <1>3, <2>1, MainIsNoThread DEF PlacesOK, PoolInv, TypeOK
<1>5. ~Creating /\ ~Creating'
  BY <1>1, <1>3 DEF Creating, JobPC
<1>6. MainBusy'
  BY <1>1, <1>2, <1>3, <1>5 DEF MainBusy, PoolInv, Stopping, Open
<1>7. \A u \in Threads : mutex[u] # "main"
  BY <1>1 DEF PoolInv, Locked
<1> QED
  BY <1>1, <1>3, <1>4, <1>5, <1>6, <1>7, MainMoves DEF PoolInv, TypeOK

(* Thread_Shutdown begins, has joined a thread, and is done. *)
LEMMA ShutdownStep ==
  ASSUME PoolInv, Shutdown \/ Join \/ (Drain /\ scan > NumThreads)
  PROVE  PoolInv'
<1> DEFINE p == IF pc[Main] = "draining" THEN "stopped" ELSE "draining"
<1>1. /\ pc[Main] \in {"ready", "joining", "draining"} /\ Goto(Main, p)
      /\ pc[Main] = "ready" => created = collected
      /\ p \in {"stopped", "draining"}
      /\ UNCHANGED <<status, Run, mutex, job, handle, waits, inits, created,
                     runs, collected>>
      /\ mutex \in [Threads -> {"free", "main", "thread"}]
      /\ pool' \in BOOLEAN
      /\ scan' \in {1, scan, IF pc[Main] = "joining" THEN scan + 1 ELSE scan}
  BY DEF Shutdown, Join, Drain, PoolInv, TypeOK
<1> HIDE DEF p
<1>2. scan' \in 1 .. NumThreads + 1
  BY <1>1, ThreadPoolAssumption DEF PoolInv, TypeOK, MainBusy, Threads
<1>3. PlacesOK' /\ pc'[Main] = p /\ \A u \in Threads : pc'[u] = pc[u]
  BY <1>1, GotoPlace, MainIsNoThread DEF MainPC, PoolInv
<1>4. ~Creating /\ ~Creating'
  BY <1>1, <1>3 DEF Creating, JobPC
<1>5. MainBusy'
  BY <1>1, <1>3, <1>4 DEF MainBusy, PoolInv, Stopping, Open
<1>6. \A u \in Threads : mutex[u] # "main"
  BY <1>1 DEF PoolInv, Locked
<1> QED
  BY <1>1, <1>2, <1>3, <1>4, <1>5, <1>6, MainMoves DEF PoolInv, TypeOK

(* Thread_Create finds the thread taken, and Thread_Wait must poll. *)
LEMMA DispatchFailsStep ==
  ASSUME PoolInv, Dispatch, ~Available(scan)
  PROVE  PoolInv'
<1>1. /\ pc[Main] = "dispatch" /\ scan' = scan + 1
      /\ mutex' = [mutex EXCEPT ![scan] = "free"] /\ Goto(Main, "scan")
      /\ UNCHANGED <<pool, status, Run, job, handle, waits, inits, created,
                     runs, collected>>
      /\ mutex \in [Threads -> {"free", "main", "thread"}]
  BY DEF Dispatch, PoolInv, TypeOK
<1>2. PlacesOK' /\ pc'[Main] = "scan" /\ \A u \in Threads : pc'[u] = pc[u]
  BY <1>1, GotoPlace, MainIsNoThread DEF MainPC, PoolInv
<1>3. scan \in Threads /\ scan' \in 1 .. NumThreads + 1
  BY <1>1, ThreadPoolAssumption DEF PoolInv, MainBusy, Threads
<1>4. Creating /\ Creating'
  BY <1>1, <1>2 DEF Creating
<1>5. MainBusy'
  BY <1>1, <1>2, <1>4 DEF MainBusy, PoolInv, Stopping, Open
<1>6. \A u \in Threads : mutex[u] = "main" <=> u = scan
  BY <1>1 DEF PoolInv, Locked
<1>7. \A u \in Threads : /\ mutex'[u] = "thread" <=> mutex[u] = "thread"
                         /\ mutex'[u] # "main"
  BY <1>1, <1>3, <1>6
<1>8. mutex' \in [Threads -> {"free", "main", "thread"}]
  BY <1>1
<1> QED
  BY <1>1, <1>2, <1>3, <1>4, <1>5, <1>7, <1>8, MainMoves DEF PoolInv, TypeOK

LEMMA WaitPollsStep ==
  ASSUME PoolInv, NEW j \in Jobs, Wait(j), ~NothingToWaitFor(handle[j])
  PROVE  PoolInv'
<1>1. /\ pc[Main] = "ready" /\ job' = j /\ j \in Held /\ handle[j] # Main
      /\ Goto(Main, "collecting")
      /\ UNCHANGED <<pool, status, Run, mutex, scan, handle, waits, inits, created,
                     runs, collected>>
      /\ mutex \in [Threads -> {"free", "main", "thread"}]
  BY DEF Wait, NothingToWaitFor, PoolInv, TypeOK
<1>2. PlacesOK' /\ pc'[Main] = "collecting" /\ \A u \in Threads : pc'[u] = pc[u]
  BY <1>1, GotoPlace, MainIsNoThread DEF MainPC, PoolInv
<1>3. ~Creating /\ ~Creating'
  BY <1>1, <1>2 DEF Creating, JobPC
<1>4. j \in Open /\ handle[j] \in Threads /\ \A i \in Jobs : waits[i] # j
  BY <1>1 DEF Held, Open, PoolInv, TypeOK
<1>5. MainBusy'
  BY <1>1, <1>2, <1>3, <1>4 DEF MainBusy, Stopping, Open
<1>6. \A u \in Threads : mutex[u] # "main"
  BY <1>1 DEF PoolInv, Locked
<1> QED
  BY <1>1, <1>2, <1>3, <1>5, <1>6, MainMoves DEF PoolInv, TypeOK

-----------------------------------------------------------------------------
(* Whoever runs a job runs one that was given to it, and that nobody else   *)
(* has run or waited for.                                                   *)
LEMMA DoingOwn ==
  ASSUME PoolInv, NEW t \in Threads \cup {Main}, pc[t] \in JobPC
  PROVE  Doing(t) \in Open /\ handle[Doing(t)] = t /\ runs[Doing(t)] = 0
<1>1. CASE t = Main
  BY <1>1 DEF PoolInv, MainBusy, Creating, Doing
<1>2. CASE t # Main
  <2>1. status[t] = "running" /\ pc[t] # "ran"
    BY <1>2 DEF PoolInv, Locked, JobPC
  <2> QED
    BY <1>2, <2>1 DEF PoolInv, OwnJob, Doing
<1> QED
  BY <1>1, <1>2

(* A job that waits first is the only one that does, and it waits for one   *)
(* that was created before and that nobody has waited for.                  *)
LEMMA AwaitedOpen ==
  ASSUME PoolInv, NEW t \in Threads \cup {Main}, pc[t] \in {"run", "waiting"},
         Awaited(t) # NoJob
  PROVE  /\ Awaited(t) \in Open /\ Awaited(t) # Doing(t)
         /\ Creating => Awaited(t) # job
         /\ pc[Main] = "collecting" => Awaited(t) # job
         /\ \A i \in Jobs : waits[i] = Awaited(t) => i = Doing(t)
<1>1. Doing(t) \in Open /\ handle[Doing(t)] = t /\ runs[Doing(t)] = 0
  BY DoingOwn DEF JobPC
<1>2. Doing(t) \in Jobs
  BY <1>1 DEF PoolInv, TypeOK, Open
<1>3. ~Begun(Doing(t))
  BY <1>1 DEF Begun
<1> QED
  BY <1>1, <1>2, <1>3 DEF PoolInv, PassedOn, Awaited, Open, MainBusy

(* A job whose thread is finished or idle, or that the main thread has run  *)
(* itself, has been run.                                                    *)
LEMMA RunBefore ==
  ASSUME PoolInv, NEW j \in Open, Creating => j # job,
         handle[j] = Main \/ status[handle[j]] # "running"
  PROVE  runs[j] = 1
<1>1. j \in Jobs /\ runs[j] \in {0, 1}
  BY DEF PoolInv, TypeOK, Open, JobLife
<1> QED
  BY <1>1 DEF PoolInv, KeptBusy

(* Every wait, in whichever thread, ends the same way: the job w counts as  *)
(* waited for, and its thread may be idle again.  It is the one wait there  *)
(* is for w, and nobody else's job is touched.                              *)
LEMMA WaitEnds ==
  ASSUME PoolInv, NEW w \in Open, runs[w] = 1, Creating => w # job,
         NEW t \in Threads \cup {Main}, NEW p, PlacesOK', pc'[t] = p,
         \A u \in (Threads \cup {Main}) \ {t} : pc'[u] = pc[u],
         \/ /\ pc[t] \in {"run", "waiting"} /\ p = "work" /\ job' = job
            /\ \A i \in Jobs : waits[i] = w => i = Doing(t)
            /\ pc[Main] = "collecting" => w # job
         \/ /\ t = Main /\ pc[t] \in {"ready", "collecting"} /\ p = "ready"
            /\ job' \in Jobs
            /\ \A i \in Jobs : waits[i] # w,
         status' \in [Threads -> {"idle", "running", "wait"}],
         \A u \in Threads :
           \/ status'[u] = status[u]
           \/ u = handle[w] /\ status[u] = "wait" /\ status'[u] = "idle",
         collected' = collected \cup {w},
         UNCHANGED <<pool, Run, mutex, scan, handle, waits, inits, created, runs>>
  PROVE  PoolInv'
<1>1. /\ Open' = Open \ {w} /\ w \in Jobs /\ w \in created /\ w \notin collected
      /\ Open \subseteq Jobs
  BY DEF Open, PoolInv, TypeOK
<1>2. \A u \in Threads \cup {Main} :
        /\ pc'[u] = "ran" <=> pc[u] = "ran"
        /\ pc[u] = "work" => pc'[u] = "work"
        /\ pc'[u] \in {"run", "waiting"} => pc'[u] = pc[u]
        /\ pc'[u] \in JobPC <=> pc[u] \in JobPC
        /\ u # Main => (pc'[u] \in Holding <=> pc[u] \in Holding)
  BY DEF JobPC, Holding
<1>3. /\ Creating' <=> Creating
      /\ \A q \in MainPC \ {"ready"} : pc'[Main] = q => pc[Main] = q
      /\ pc'[Main] = "dispatch" <=> pc[Main] = "dispatch"
      /\ Creating => job' = job
      /\ pc'[Main] = "collecting" => job' = job
  BY <1>2 DEF Creating, JobPC, MainPC
<1>4. TypeOK'
  BY <1>1 DEF PoolInv, TypeOK, PlacesOK
<1>5. ASSUME NEW i \in Jobs PROVE JobLife(i)'
  BY <1>1 DEF PoolInv, JobLife
<1>6. ASSUME NEW i \in Jobs PROVE PassedOn(i)'
  <2>1. PassedOn(i) /\ handle[i] \in Threads \cup {Main}
    BY DEF PoolInv, TypeOK
  <2>2. Begun(i) => Begun(i)'
    BY <1>2, <1>3, <2>1 DEF Begun, Doing, Creating, JobPC
  <2>3. ASSUME waits[i] = w PROVE Begun(i)'
    <3>1. pc[t] \in JobPC /\ i = Doing(t) /\ p = "work" /\ job' = job
      BY <2>3 DEF JobPC
    <3>2. handle[i] = t
      BY <3>1, DoingOwn
    <3> QED
      BY <3>1, <3>2 DEF Begun, Doing
  <2> QED
    BY <2>1, <2>2, <2>3 DEF PassedOn
<1>7. ASSUME NEW i \in Jobs PROVE KeptBusy(i)'
  <2>1. KeptBusy(i) /\ handle[i] \in Threads \cup {Main}
    BY DEF PoolInv, TypeOK
  <2> QED
    BY <1>1, <1>2, <1>3, <2>1, MainIsNoThread DEF KeptBusy
<1>8. MainBusy'
  <2>1. MainBusy
    BY DEF PoolInv
  <2>2. ~Stopping
    BY <1>1, <2>1 DEF MainBusy
  <2>3. ~Stopping'
    BY <1>3, <2>2 DEF Stopping, MainPC
  <2> QED
    BY <1>1, <1>3, <2>1, <2>3 DEF MainBusy, MainPC
<1>9. ASSUME NEW u \in Threads PROVE Locked(u)' /\ OwnJob(u)'
  <2>1. Locked(u) /\ OwnJob(u) /\ u # Main
    BY MainIsNoThread DEF PoolInv
  <2>2. status'[u] = "running" <=> status[u] = "running"
    OBVIOUS
  <2> QED
    BY <1>1, <1>2, <1>3, <2>1, <2>2 DEF Locked, OwnJob
<1>10. ASSUME NEW u \in Threads \cup {Main} PROVE WaitsForThread(u)'
  BY <1>2, <1>3 DEF PoolInv, WaitsForThread, Awaited, Doing, Creating, JobPC
<1> QED
  BY <1>4, <1>5, <1>6, <1>7, <1>8, <1>9, <1>10 DEF PoolInv

LEMMA BeginRunStep ==
  ASSUME PoolInv, NEW t \in Threads \cup {Main}, BeginRun(t)
  PROVE  PoolInv'
<1> DEFINE w == Awaited(t)
<1>1. /\ pc[t] = "run" /\ Goto(t, "work") /\ ~MustWait(t)
      /\ collected' = collected \cup ({w} \ {NoJob})
      /\ UNCHANGED <<pool, status, Run, mutex, scan, job, handle, waits, inits,
                     created, runs>>
  BY DEF BeginRun
<1>2. /\ PlacesOK' /\ pc'[t] = "work"
      /\ \A u \in (Threads \cup {Main}) \ {t} : pc'[u] = pc[u]
  BY <1>1, GotoPlace DEF JobPC, PoolInv
<1>3. /\ mutex \in [Threads -> {"free", "main", "thread"}]
      /\ status \in [Threads -> {"idle", "running", "wait"}]
  BY DEF PoolInv, TypeOK
<1>4. CASE w # NoJob
  <2>1. /\ w \in Open /\ (Creating => w # job)
        /\ pc[Main] = "collecting" => w # job
        /\ \A i \in Jobs : waits[i] = w => i = Doing(t)
    BY <1>1, <1>4, AwaitedOpen
  <2>2. runs[w] = 1
    BY <1>1, <1>4, <2>1, RunBefore DEF MustWait, NothingToWaitFor, Available
  <2>3. collected' = collected \cup {w}
    BY <1>1, <1>4
  <2> HIDE DEF w
  <2> QED
    BY <1>1, <1>2, <1>3, <2>1, <2>2, <2>3, WaitEnds
<1>5. CASE w = NoJob /\ t \in Threads
  <2>1. mutex[t] = "thread" /\ status[t] = "running"
    BY <1>1, <1>5 DEF PoolInv, Locked, Holding, JobPC
  <2>2. collected' = collected
    BY <1>1, <1>5
  <2> QED
    BY <1>1, <1>3, <1>5, <2>1, <2>2, ThreadMoves DEF Holding, JobPC
<1>6. CASE w = NoJob /\ t = Main
  <2>1. Creating /\ Creating' /\ collected' = collected
    BY <1>1, <1>2, <1>6 DEF Creating, JobPC
  <2>2. MainBusy'
    BY <1>1, <1>2, <1>6, <2>1 DEF MainBusy, PoolInv, Stopping, Open, JobPC
  <2>3. \A u \in Threads : mutex[u] # "main" /\ pc'[u] = pc[u]
    BY <1>1, <1>2, <1>6, MainIsNoThread DEF PoolInv, Locked
  <2> QED
    BY <1>1, <1>2, <1>3, <1>6, <2>1, <2>2, <2>3, MainMoves DEF PoolInv, TypeOK
<1> QED
  BY <1>4, <1>5, <1>6

LEMMA EndWaitStep ==
  ASSUME PoolInv, NEW t \in Threads \cup {Main}, EndWait(t)
  PROVE  PoolInv'
<1> DEFINE w == Awaited(t)
<1>1. /\ pc[t] = "waiting" /\ Goto(t, "work") /\ status[handle[w]] = "wait"
      /\ status' = [status EXCEPT ![handle[w]] = "idle"]
      /\ collected' = collected \cup {w}
      /\ UNCHANGED <<pool, Run, mutex, scan, job, handle, waits, inits, created,
                     runs>>
  BY DEF EndWait, Finished
<1>2. /\ PlacesOK' /\ pc'[t] = "work"
      /\ \A u \in (Threads \cup {Main}) \ {t} : pc'[u] = pc[u]
  BY <1>1, GotoPlace DEF JobPC, PoolInv
<1>3. w # NoJob /\ handle[w] \in Threads
  BY <1>1 DEF PoolInv, WaitsForThread
<1>4. /\ w \in Open /\ (Creating => w # job)
      /\ pc[Main] = "collecting" => w # job
      /\ \A i \in Jobs : waits[i] = w => i = Doing(t)
  BY <1>1, <1>3, AwaitedOpen
<1>5. runs[w] = 1
  BY <1>1, <1>4, RunBefore
<1>6. /\ status' \in [Threads -> {"idle", "running", "wait"}]
      /\ \A u \in Threads :
           \/ status'[u] = status[u]
           \/ u = handle[w] /\ status[u] = "wait" /\ status'[u] = "idle"
  BY <1>1, <1>3 DEF PoolInv, TypeOK
<1> HIDE DEF w
<1> QED
  BY <1>1, <1>2, <1>4, <1>5, <1>6, WaitEnds

LEMMA WaitReturnsStep ==
  ASSUME PoolInv, NEW j \in Jobs, Wait(j), NothingToWaitFor(handle[j])
  PROVE  PoolInv'
<1>1. /\ pc[Main] = "ready" /\ job' = j /\ collected' = collected \cup {j} /\ pc' = pc
      /\ UNCHANGED <<pool, status, Run, mutex, scan, handle, waits, inits,
                     created, runs>>
      /\ status \in [Threads -> {"idle", "running", "wait"}]
  BY DEF Wait, PoolInv, TypeOK
<1>2. PlacesOK' /\ ~Creating
  BY <1>1 DEF PlacesOK, PoolInv, TypeOK, Creating, JobPC
<1>3. j \in Open /\ \A i \in Jobs : waits[i] # j
  BY DEF Wait, Held, Open, PoolInv, TypeOK
<1>4. runs[j] = 1
  BY <1>2, <1>3, RunBefore DEF NothingToWaitFor, Available
<1> QED
  BY <1>1, <1>2, <1>3, <1>4, WaitEnds

LEMMA CollectStep ==
  ASSUME PoolInv, Collect
  PROVE  PoolInv'
<1>1. /\ pc[Main] = "collecting" /\ Goto(Main, "ready") /\ status[handle[job]] = "wait"
      /\ status' = [status EXCEPT ![handle[job]] = "idle"]
      /\ collected' = collected \cup {job}
      /\ UNCHANGED <<pool, Run, mutex, scan, job, handle, waits, inits, created,
                     runs>>
  BY DEF Collect, Finished
<1>2. /\ PlacesOK' /\ pc'[Main] = "ready"
      /\ \A u \in (Threads \cup {Main}) \ {Main} : pc'[u] = pc[u]
  BY <1>1, GotoPlace DEF MainPC, PoolInv
<1>3. /\ job \in Open /\ handle[job] \in Threads
      /\ \A i \in Jobs : waits[i] # job
  BY <1>1 DEF PoolInv, MainBusy
<1>4. ~Creating /\ job \in Jobs
  BY <1>1, <1>3 DEF Creating, JobPC, PoolInv, TypeOK, Open
<1>5. runs[job] = 1
  BY <1>1, <1>3, <1>4, RunBefore
<1>6. /\ status' \in [Threads -> {"idle", "running", "wait"}]
      /\ \A u \in Threads :
           \/ status'[u] = status[u]
           \/ u = handle[job] /\ status[u] = "wait" /\ status'[u] = "idle"
  BY <1>1, <1>3 DEF PoolInv, TypeOK
<1> QED
  BY <1>1, <1>2, <1>3, <1>4, <1>5, <1>6, WaitEnds

-----------------------------------------------------------------------------
(* A job is run by the one that has it, and by nobody else. *)
LEMMA WorkStep ==
  ASSUME PoolInv, NEW t \in Threads \cup {Main}, Work(t)
  PROVE  PoolInv'
<1> DEFINE k == Doing(t)
<1>1. /\ pc[t] = "work" /\ Goto(t, AfterJob(t))
      /\ runs' = [runs EXCEPT ![k] = @ + 1]
      /\ UNCHANGED <<pool, status, Run, mutex, scan, job, handle, waits, inits,
                     created, collected>>
  BY DEF Work
<1>2. /\ PlacesOK' /\ pc'[t] = IF t = Main THEN "ready" ELSE "ran"
      /\ \A u \in (Threads \cup {Main}) \ {t} : pc'[u] = pc[u]
  BY <1>1, GotoPlace DEF AfterJob, MainPC, ThreadPC, PoolInv
<1>3. k \in Open /\ handle[k] = t /\ runs[k] = 0 /\ k \in Jobs
  <2>1. k \in Open /\ handle[k] = t /\ runs[k] = 0
    BY <1>1, DoingOwn DEF JobPC
  <2> QED
    BY <2>1 DEF PoolInv, TypeOK, Open
<1>4. /\ runs' \in [Jobs -> Nat] /\ runs'[k] = 1
      /\ \A i \in Jobs \ {k} : runs'[i] = runs[i]
  BY <1>1, <1>3 DEF PoolInv, TypeOK
<1>5. /\ t = Main <=> handle[k] = Main
      /\ t # Main => pc'[Main] = pc[Main]
      /\ t = Main => k = job
      /\ \A i \in Jobs : i \in Open /\ handle[i] = t /\ t # Main => i = k
  <2>1. KeptBusy(k)
    BY <1>3 DEF PoolInv
  <2> QED
    BY <1>2, <1>3, <2>1 DEF KeptBusy, Doing
<1>6. \A u \in Threads \cup {Main} : u # t => Doing(u)' = Doing(u)
  BY <1>1 DEF Doing
<1> HIDE DEF k
<1>7. TypeOK'
  BY <1>1, <1>2, <1>4 DEF PoolInv, TypeOK, PlacesOK
<1>8. ASSUME NEW i \in Jobs PROVE JobLife(i)'
  BY <1>1, <1>3, <1>4 DEF PoolInv, JobLife, Open
<1>9. ASSUME NEW i \in Jobs PROVE PassedOn(i)'
  <2>1. PassedOn(i) /\ handle[i] \in Threads \cup {Main}
    BY DEF PoolInv, TypeOK
  <2>2. Begun(i) => Begun(i)'
    <3>1. CASE i = k
      BY <1>4, <3>1 DEF Begun
    <3>2. CASE i # k
      BY <1>1, <1>2, <1>4, <1>6, <2>1, <3>2 DEF Begun, k
    <3> QED
      BY <3>1, <3>2
  <2> QED
    BY <1>1, <2>1, <2>2 DEF PassedOn
<1>10. ASSUME NEW i \in Jobs PROVE KeptBusy(i)'
  <2>1. KeptBusy(i) /\ handle[i] \in Threads \cup {Main}
    BY DEF PoolInv, TypeOK
  <2> QED
    BY <1>1, <1>2, <1>3, <1>4, <1>5, <2>1 DEF KeptBusy, Open, Creating
<1>11. MainBusy'
  <2>1. MainBusy
    BY DEF PoolInv
  <2>2. CASE t = Main
    BY <1>2, <2>2 DEF MainBusy, Creating, Stopping, JobPC
  <2>3. CASE t # Main
    BY <1>1, <1>3, <1>4, <1>5, <2>1, <2>3 DEF MainBusy, Creating, Stopping, Open
  <2> QED
    BY <2>2, <2>3
<1>12. ASSUME NEW u \in Threads PROVE Locked(u)' /\ OwnJob(u)'
  <2>1. Locked(u) /\ OwnJob(u) /\ u # Main
    BY MainIsNoThread DEF PoolInv
  <2>2. Locked(u)'
    BY <1>1, <1>2, <2>1 DEF Locked, Holding, JobPC
  <2>3. OwnJob(u)'
    BY <1>1, <1>2, <1>3, <1>4, <2>1 DEF OwnJob, Open
  <2> QED
    BY <2>2, <2>3
<1>13. ASSUME NEW u \in Threads \cup {Main} PROVE WaitsForThread(u)'
  BY <1>1, <1>2, <1>6 DEF PoolInv, WaitsForThread, Awaited
<1> QED
  BY <1>7, <1>8, <1>9, <1>10, <1>11, <1>12, <1>13 DEF PoolInv

(* A thread that has run its job forgets it and publishes its new status:   *)
(* nobody relies on either before.                                          *)
LEMMA FinishStep ==
  ASSUME PoolInv, NEW t \in Threads, Forget(t) \/ Publish(t)
  PROVE  PoolInv'
<1>1. /\ pc[t] = "ran"
      /\ UNCHANGED <<pool, mutex, pc, scan, job, handle, waits, inits, created,
                     runs, collected>>
      /\ Run' \in [Threads -> Jobs \cup {NoJob}]
      /\ status' \in [Threads -> {"idle", "running", "wait"}]
      /\ \A u \in Threads \ {t} : Run'[u] = Run[u] /\ status'[u] = status[u]
      /\ status'[t] = status[t] \/ status'[t] = "wait"
  BY DEF Forget, Publish, PoolInv, TypeOK
<1>2. \A u \in Threads \cup {Main} : u # t => Doing(u)' = Doing(u)
  BY <1>1 DEF Doing
<1>3. TypeOK'
  BY <1>1 DEF PoolInv, TypeOK
<1>4. ASSUME NEW i \in Jobs PROVE JobLife(i)' /\ PassedOn(i)'
  <2>1. JobLife(i) /\ PassedOn(i) /\ handle[i] \in Threads \cup {Main}
    BY DEF PoolInv, TypeOK
  <2>2. Begun(i) => Begun(i)'
    BY <1>1, <1>2, <2>1 DEF Begun
  <2> QED
    BY <1>1, <2>1, <2>2 DEF JobLife, PassedOn
<1>5. ASSUME NEW i \in Jobs PROVE KeptBusy(i)'
  <2>1. KeptBusy(i) /\ handle[i] \in Threads \cup {Main}
    BY DEF PoolInv, TypeOK
  <2> QED
    BY <1>1, <2>1 DEF KeptBusy, Open, Creating
<1>6. MainBusy'
  BY <1>1 DEF PoolInv, MainBusy, Creating, Stopping, Open
<1>7. ASSUME NEW u \in Threads PROVE Locked(u)' /\ OwnJob(u)'
  BY <1>1 DEF PoolInv, Locked, OwnJob, Open, Holding, JobPC
<1>8. ASSUME NEW u \in Threads \cup {Main} PROVE WaitsForThread(u)'
  BY <1>1, <1>2 DEF PoolInv, WaitsForThread, Awaited
<1> QED
  BY <1>3, <1>4, <1>5, <1>6, <1>7, <1>8 DEF PoolInv

(* A job that is new is known to nobody, and takes over a handle that       *)
(* nobody else waits for.                                                   *)
LEMMA CreateStep ==
  ASSUME PoolInv, NEW j \in Jobs, NEW w \in Held \cup {NoJob}, Create(j, w)
  PROVE  PoolInv'
<1>1. /\ pc[Main] = "ready" /\ Goto(Main, "scan") /\ j \notin created
      /\ created' = created \cup {j} /\ job' = j /\ scan' = 1
      /\ waits' = [waits EXCEPT ![j] = w]
      /\ UNCHANGED <<pool, status, Run, mutex, handle, inits, runs, collected>>
  BY DEF Create
<1>2. /\ PlacesOK' /\ pc'[Main] = "scan"
      /\ \A u \in (Threads \cup {Main}) \ {Main} : pc'[u] = pc[u]
  BY <1>1, GotoPlace DEF MainPC, PoolInv
<1>3. /\ runs[j] = 0 /\ handle[j] = Main /\ waits[j] = NoJob
      /\ NoJob \notin Jobs /\ created \subseteq Jobs /\ collected \subseteq created
  BY <1>1, ThreadPoolAssumption DEF PoolInv, JobLife, TypeOK
<1>4. /\ w # NoJob => w \in Open /\ \A i \in Jobs : waits[i] # w
      /\ w \in Jobs \cup {NoJob} /\ w # j
  BY <1>1, <1>3 DEF Held, Open
<1>5. Open' = Open \cup {j} /\ ~Creating /\ Creating' /\ ~Stopping'
  BY <1>1, <1>2, <1>3 DEF Open, Creating, Stopping, JobPC
<1>6. /\ waits' \in [Jobs -> Jobs \cup {NoJob}] /\ waits'[j] = w
      /\ \A i \in Jobs \ {j} : waits'[i] = waits[i]
  BY <1>1, <1>4 DEF PoolInv, TypeOK
<1>7. TypeOK'
  BY <1>1, <1>2, <1>6, ThreadPoolAssumption DEF PoolInv, TypeOK, PlacesOK
<1>8. ASSUME NEW i \in Jobs PROVE JobLife(i)'
  BY <1>1, <1>3, <1>6 DEF PoolInv, JobLife
<1>9. ASSUME NEW i \in Jobs PROVE PassedOn(i)'
  <2>1. PassedOn(i) /\ handle[i] \in Threads \cup {Main}
    BY DEF PoolInv, TypeOK
  <2>2. Begun(i) => Begun(i)'
    BY <1>1, <1>2, <2>1, MainIsNoThread DEF Begun, Doing
  <2>3. CASE i = j
    BY <1>1, <1>4, <1>6, <2>3 DEF PassedOn, Open
  <2>4. CASE i # j
    BY <1>1, <1>4, <1>6, <2>1, <2>2, <2>4 DEF PassedOn
  <2> QED
    BY <2>3, <2>4
<1>10. ASSUME NEW i \in Jobs PROVE KeptBusy(i)'
  <2>1. KeptBusy(i) /\ handle[i] \in Threads \cup {Main}
    BY DEF PoolInv, TypeOK
  <2> QED
    BY <1>1, <1>2, <1>3, <1>5, <2>1, MainIsNoThread DEF KeptBusy
<1>11. MainBusy'
  <2>1. \A i \in Jobs : waits'[i] # j
    BY <1>1, <1>3, <1>4, <1>6 DEF PoolInv, PassedOn
  <2> QED
    BY <1>1, <1>2, <1>3, <1>5, <2>1 DEF MainBusy
<1>12. ASSUME NEW u \in Threads PROVE Locked(u)' /\ OwnJob(u)'
  BY <1>1, <1>2, <1>5, MainIsNoThread DEF PoolInv, Locked, OwnJob
<1>13. ASSUME NEW u \in Threads \cup {Main} PROVE WaitsForThread(u)'
  <2>1. CASE u = Main
    BY <1>2, <2>1 DEF WaitsForThread
  <2>2. CASE u \in Threads /\ pc[u] = "waiting"
    <3>1. Doing(u) \in Open /\ Doing(u)' = Doing(u)
      BY <1>1, <2>2, DoingOwn, MainIsNoThread DEF JobPC, Doing
    <3>2. Doing(u) # j /\ Doing(u) \in Jobs
      BY <1>1, <1>3, <3>1 DEF Open
    <3> QED
      BY <1>1, <1>6, <2>2, <3>1, <3>2 DEF PoolInv, WaitsForThread, Awaited
  <2>3. CASE u \in Threads /\ pc[u] # "waiting"
    BY <1>2, <2>3, MainIsNoThread DEF WaitsForThread
  <2> QED
    BY <2>1, <2>2, <2>3
<1> QED
  BY <1>7, <1>8, <1>9, <1>10, <1>11, <1>12, <1>13 DEF PoolInv

(* An idle thread whose mutex the main thread holds is doing nothing, and   *)
(* nobody holds a handle to it: it may be given the job.                    *)
LEMMA DispatchStep ==
  ASSUME PoolInv, Dispatch, Available(scan)
  PROVE  PoolInv'
<1>1. /\ pc[Main] = "dispatch" /\ Goto(Main, "signal")
      /\ mutex' = [mutex EXCEPT ![scan] = "free"]
      /\ Run' = [Run EXCEPT ![scan] = job]
      /\ status' = [status EXCEPT ![scan] = "running"]
      /\ handle' = [handle EXCEPT ![job] = scan]
      /\ UNCHANGED <<pool, scan, job, waits, inits, created, runs, collected>>
      /\ status[scan] = "idle"
  BY DEF Dispatch, Available
<1>2. /\ PlacesOK' /\ pc'[Main] = "signal"
      /\ \A u \in (Threads \cup {Main}) \ {Main} : pc'[u] = pc[u]
  BY <1>1, GotoPlace DEF MainPC, PoolInv
<1>3. /\ scan \in Threads /\ scan # Main /\ job \in Open /\ job \in Jobs
      /\ handle[job] = Main /\ runs[job] = 0
      /\ Creating /\ ~Creating' /\ ~Stopping'
  BY <1>1, <1>2, MainIsNoThread
     DEF PoolInv, TypeOK, MainBusy, Creating, Stopping, Open, JobPC
<1>4. mutex[scan] = "main" /\ pc[scan] \notin Holding
  <2>1. Locked(scan)
    BY <1>3 DEF PoolInv
  <2> QED
    BY <1>1, <2>1 DEF Locked
<1>5. /\ \A u \in Threads \ {scan} : /\ Run'[u] = Run[u] /\ status'[u] = status[u]
                                     /\ mutex'[u] = mutex[u]
      /\ Run'[scan] = job /\ status'[scan] = "running" /\ mutex'[scan] = "free"
      /\ handle'[job] = scan /\ \A i \in Jobs \ {job} : handle'[i] = handle[i]
  BY <1>1, <1>3 DEF PoolInv, TypeOK
<1>6. \A i \in Open : handle[i] # scan
  BY <1>1, <1>3 DEF PoolInv, KeptBusy, TypeOK, Open
<1>7. \A u \in Threads \ {scan} : Doing(u)' = Doing(u)
  BY <1>1, <1>5, MainIsNoThread DEF Doing
<1>8. TypeOK'
  BY <1>1, <1>2, <1>3 DEF PoolInv, TypeOK, PlacesOK
<1>9. ASSUME NEW i \in Jobs PROVE JobLife(i)' /\ PassedOn(i)'
  <2>1. JobLife(i) /\ PassedOn(i) /\ handle[i] \in Threads \cup {Main}
    BY DEF PoolInv, TypeOK
  <2>2. Begun(i) => Begun(i)'
    <3>1. CASE runs[i] = 1
      BY <1>1, <3>1 DEF Begun
    <3>2. CASE pc[handle[i]] = "work" /\ Doing(handle[i]) = i
      <4>1. handle[i] \in Threads \ {scan}
        BY <1>1, <1>4, <2>1, <3>2 DEF Holding, JobPC
      <4>2. i # job
        BY <1>3, <4>1, MainIsNoThread
      <4> QED
        BY <1>2, <1>5, <1>7, <3>2, <4>1, <4>2, MainIsNoThread DEF Begun
    <3> QED
      BY <3>1, <3>2 DEF Begun
  <2>3. JobLife(i)'
    BY <1>1, <1>3, <1>5, <2>1 DEF JobLife, Open
  <2> QED
    BY <1>1, <2>1, <2>2, <2>3 DEF PassedOn
<1>10. ASSUME NEW i \in Jobs PROVE KeptBusy(i)'
  <2>1. KeptBusy(i) /\ handle[i] \in Threads \cup {Main} /\ Open' = Open /\ Open \subseteq Jobs
    BY <1>1 DEF PoolInv, TypeOK, Open
  <2>2. CASE i = job
    <3>1. /\ status'[handle'[i]] = "running" /\ Run'[handle'[i]] = i /\ handle'[i] # Main
          /\ \A k \in Open : handle'[k] = handle'[i] => i = k
      BY <1>3, <1>5, <1>6, <2>1, <2>2
    <3>2. pc'[handle'[i]] # "ran"
      BY <1>2, <1>3, <1>4, <1>5, <2>2 DEF Holding
    <3> QED
      BY <2>1, <3>1, <3>2 DEF KeptBusy
  <2>3. CASE i # job
    BY <1>1, <1>2, <1>3, <1>5, <1>6, <2>1, <2>3, MainIsNoThread DEF KeptBusy
  <2> QED
    BY <2>2, <2>3
<1>11. MainBusy'
  BY <1>1, <1>2, <1>3 DEF MainBusy
<1>12. ASSUME NEW u \in Threads PROVE Locked(u)' /\ OwnJob(u)'
  <2>1. Locked(u) /\ OwnJob(u) /\ Open' = Open /\ Open \subseteq Jobs /\ u # Main
    BY <1>1, MainIsNoThread DEF PoolInv, TypeOK, Open
  <2>2. CASE u = scan
    BY <1>1, <1>2, <1>3, <1>4, <1>5, <2>1, <2>2 DEF Locked, OwnJob, Holding
  <2>3. CASE u # scan
    BY <1>1, <1>2, <1>3, <1>5, <2>1, <2>3 DEF Locked, OwnJob
  <2> QED
    BY <2>2, <2>3
<1>13. ASSUME NEW u \in Threads \cup {Main}, pc'[u] = "waiting"
       PROVE  WaitsForThread(u)'
  <2>1. u \in Threads \ {scan} /\ u # Main /\ pc[u] = "waiting"
    BY <1>2, <1>4, <1>13, MainIsNoThread DEF Holding, JobPC
  <2>2. Awaited(u) # NoJob /\ handle[Awaited(u)] \in Threads /\ Awaited(u)' = Awaited(u)
    BY <1>1, <1>7, <2>1 DEF PoolInv, WaitsForThread, Awaited
  <2>3. Awaited(u) \in Jobs
    <3>1. Doing(u) \in Jobs
      BY <2>1, DoingOwn DEF JobPC, Open, PoolInv, TypeOK
    <3> QED
      BY <2>2, <3>1 DEF Awaited, PoolInv, TypeOK
  <2> QED
    BY <1>3, <1>5, <2>2, <2>3 DEF WaitsForThread
<1> QED
  BY <1>8, <1>9, <1>10, <1>11, <1>12, <1>13 DEF PoolInv, WaitsForThread

-----------------------------------------------------------------------------
(* Thread_Shutdown begins when no handle is left, and the threads it resets *)
(* and starts over have none either.                                        *)
LEMMA DrainStep ==
  ASSUME PoolInv, Drain, scan <= NumThreads
  PROVE  PoolInv'
<1>1. /\ pc[Main] = "draining" /\ Goto(Main, "waking") /\ status[scan] # "running"
      /\ status' = [status EXCEPT ![scan] = "idle"]
      /\ UNCHANGED <<pool, Run, mutex, scan, job, handle, waits, inits, created,
                     runs, collected>>
      /\ scan \in Threads
  BY ThreadPoolAssumption DEF Drain, PoolInv, TypeOK, Threads
<1>2. /\ PlacesOK' /\ pc'[Main] = "waking"
      /\ \A u \in (Threads \cup {Main}) \ {Main} : pc'[u] = pc[u]
  BY <1>1, GotoPlace DEF MainPC, PoolInv
<1>3. created = collected /\ Open = {} /\ Open' = {}
  BY <1>1 DEF PoolInv, MainBusy, Stopping, Open
<1>4. TypeOK'
  BY <1>1, <1>2 DEF PoolInv, TypeOK, PlacesOK
<1>5. ASSUME NEW i \in Jobs PROVE JobLife(i)' /\ PassedOn(i)'
  <2>1. JobLife(i) /\ PassedOn(i) /\ handle[i] \in Threads \cup {Main}
    BY DEF PoolInv, TypeOK
  <2>2. Begun(i) => Begun(i)'
    BY <1>1, <1>2, <2>1, MainIsNoThread DEF Begun, Doing
  <2> QED
    BY <1>1, <2>1, <2>2 DEF JobLife, PassedOn
<1>6. ASSUME NEW i \in Jobs PROVE KeptBusy(i)'
  BY <1>3 DEF KeptBusy
<1>7. MainBusy'
  BY <1>1, <1>2, <1>3 DEF MainBusy, Creating, JobPC
<1>8. ASSUME NEW u \in Threads PROVE Locked(u)' /\ OwnJob(u)'
  <2>1. Locked(u) /\ OwnJob(u) /\ u # Main
    BY MainIsNoThread DEF PoolInv
  <2>2. status'[u] = "running" <=> status[u] = "running"
    BY <1>1 DEF PoolInv, TypeOK
  <2> QED
    BY <1>1, <1>2, <1>3, <2>1, <2>2 DEF Locked, OwnJob
<1>9. ASSUME NEW u \in Threads \cup {Main} PROVE WaitsForThread(u)'
  BY <1>1, <1>2, MainIsNoThread DEF PoolInv, WaitsForThread, Awaited, Doing
<1> QED
  BY <1>4, <1>5, <1>6, <1>7, <1>8, <1>9 DEF PoolInv

LEMMA ReinitStep ==
  ASSUME PoolInv, Reinit
  PROVE  PoolInv'
<1>1. /\ created = collected /\ Open' = {}
      /\ UNCHANGED <<scan, job, handle, waits, created, runs, collected>>
  BY DEF Reinit, PoolInv, MainBusy, Stopping, Open
<1>2. /\ pc'[Main] = "ready" /\ ~Creating' /\ ~Stopping'
      /\ \A t \in Threads : /\ pc'[t] = "loop" /\ status'[t] = "idle"
                            /\ mutex'[t] = "free"
  BY MainIsNoThread DEF Reinit, Creating, Stopping, JobPC
<1>3. TypeOK'
  <2>1. PlacesOK'
    BY MainIsNoThread DEF Reinit, PlacesOK, ThreadPC, MainPC
  <2>2. inits' \in 1 .. MaxInits
    BY ThreadPoolAssumption DEF Reinit, PoolInv, TypeOK
  <2> QED
    BY <1>1, <2>1, <2>2 DEF Reinit, PoolInv, TypeOK, PlacesOK
<1>4. ASSUME NEW i \in Jobs PROVE JobLife(i)' /\ PassedOn(i)'
  <2>1. JobLife(i) /\ PassedOn(i)
    BY DEF PoolInv
  <2>2. waits[i] # NoJob => runs'[i] = 1
    BY <1>1, <2>1 DEF JobLife
  <2> QED
    BY <1>1, <2>1, <2>2 DEF JobLife, PassedOn, Begun
<1>5. ASSUME NEW i \in Jobs PROVE KeptBusy(i)'
  BY <1>1 DEF KeptBusy
<1>6. MainBusy'
  BY <1>2 DEF MainBusy
<1>7. ASSUME NEW u \in Threads PROVE Locked(u)' /\ OwnJob(u)'
  BY <1>2 DEF Locked, OwnJob, Holding, JobPC
<1>8. ASSUME NEW u \in Threads \cup {Main} PROVE WaitsForThread(u)'
  BY <1>2 DEF WaitsForThread
<1> QED
  BY <1>3, <1>4, <1>5, <1>6, <1>7, <1>8 DEF PoolInv

-----------------------------------------------------------------------------
LEMMA InitPool == Init => PoolInv
<1> SUFFICES ASSUME Init PROVE PoolInv
  OBVIOUS
<1>1. TypeOK
  <2>1. pc \in [Threads \cup {Main} -> JobPC \cup ThreadPC \cup MainPC]
    BY DEF Init, ThreadPC, MainPC
  <2>2. pc[Main] \in MainPC /\ \A t \in Threads : pc[t] \in ThreadPC
    BY MainIsNoThread DEF Init, ThreadPC, MainPC
  <2> QED
    BY <2>1, <2>2, ThreadPoolAssumption DEF Init, TypeOK
<1>2. pc[Main] = "ready" /\ Open = {} /\ \A t \in Threads : pc[t] = "loop"
  BY MainIsNoThread DEF Init, Open
<1>3. \A j \in Jobs : JobLife(j) /\ PassedOn(j) /\ KeptBusy(j)
  BY <1>2 DEF Init, JobLife, PassedOn, KeptBusy
<1>4. MainBusy
  BY <1>2 DEF MainBusy, Creating, Stopping, JobPC
<1>5. \A t \in Threads : Locked(t) /\ OwnJob(t)
  BY <1>2 DEF Init, Locked, OwnJob, Holding, JobPC
<1>6. \A t \in Threads \cup {Main} : WaitsForThread(t)
  BY <1>2 DEF WaitsForThread
<1> QED
  BY <1>1, <1>3, <1>4, <1>5, <1>6 DEF PoolInv

LEMMA ThreadStepKeeps ==
  ASSUME PoolInv, NEW t \in Threads, ThreadStep(t) \/ WakeSpuriously(t)
  PROVE  PoolInv'
<1>1. CASE JobStep(t)
  BY <1>1, BeginRunStep, BeginWaitStep, EndWaitStep, WorkStep DEF JobStep
<1> QED
  BY <1>1, LoopStep, LockStep, TestStep, FinishStep, UnlockStep DEF ThreadStep

LEMMA MainStepKeeps ==
  ASSUME PoolInv, MainStep
  PROVE  PoolInv'
<1>1. CASE JobStep(Main)
  BY <1>1, BeginRunStep, BeginWaitStep, EndWaitStep, WorkStep DEF JobStep
<1>2. CASE Dispatch
  BY <1>2, DispatchStep, DispatchFailsStep
<1>3. CASE Drain
  <2>1. scan \in Int /\ NumThreads \in Int
    BY ThreadPoolAssumption DEF PoolInv, TypeOK
  <2> QED
    BY <1>3, <2>1, DrainStep, ShutdownStep
<1> QED
  BY <1>1, <1>2, <1>3, ScanStep, LockIdleStep, SignalStep, CollectStep, ShutdownStep
     DEF MainStep

LEMMA NextKeeps == PoolInv /\ [Next]_vars => PoolInv'
<1> SUFFICES ASSUME PoolInv, [Next]_vars PROVE PoolInv'
  OBVIOUS
<1>1. CASE \E t \in Threads : ThreadStep(t) \/ WakeSpuriously(t)
  BY <1>1, ThreadStepKeeps
<1>2. CASE MainStep
  BY <1>2, MainStepKeeps
<1>3. CASE \E j \in Jobs : \E w \in Held \cup {NoJob} : Create(j, w)
  BY <1>3, CreateStep
<1>4. CASE \E j \in Jobs : Wait(j)
  BY <1>4, WaitReturnsStep, WaitPollsStep
<1>5. CASE Shutdown
  BY <1>5, ShutdownStep
<1>6. CASE Reinit
  BY <1>6, ReinitStep
<1>7. CASE UNCHANGED vars
  BY <1>7 DEF vars, PoolInv, TypeOK, JobLife, PassedOn, KeptBusy, MainBusy, Locked,
              OwnJob, WaitsForThread, Open, Creating, Stopping, Begun, Doing, Awaited
<1> QED
  BY <1>1, <1>2, <1>3, <1>4, <1>5, <1>6, <1>7 DEF Next

LEMMA PoolInvariant == Spec => []PoolInv
BY InitPool, NextKeeps, PTL DEF Spec

-----------------------------------------------------------------------------
(* Every variable keeps its type; in particular Thread_Create leaves its    *)
(* search of the threads at the end of the array.                           *)
THEOREM TypeCorrect == Spec => []TypeOK
<1>1. PoolInv => TypeOK
  BY DEF PoolInv
<1> QED
  BY <1>1, PoolInvariant, PTL

(* A handle that is still to be waited for is nobody else's, and until its  *)
(* job has been run, its thread has that job and is not reset.              *)
THEOREM HandlesStayExclusive == Spec => []HandlesExclusive
<1>1. PoolInv => HandlesExclusive
  <2> SUFFICES ASSUME PoolInv, NEW i \in Open, NEW j \in Open, handle[i] # Main
               PROVE  /\ i # j => handle[i] # handle[j]
                      /\ runs[i] = 0 => /\ status[handle[i]] = "running"
                                        /\ Run[handle[i]] = i
    BY DEF HandlesExclusive, Open
  <2>1. i \in Jobs
    BY DEF PoolInv, TypeOK, Open
  <2> QED
    BY <2>1 DEF PoolInv, KeptBusy
<1> QED
  BY <1>1, PoolInvariant, PTL

(* The pool implements JobService: whoever runs a job, it is run once, and  *)
(* no Thread_Wait returns before it has been.                               *)
LEMMA StepServes ==
  PoolInv /\ [Next]_vars => [Service!Next]_<<created, runs, collected>>
<1> SUFFICES ASSUME PoolInv, Next
             PROVE  Service!Next \/ UNCHANGED <<created, runs, collected>>
  BY DEF vars
<1>1. ASSUME NEW w \in Open, runs[w] = 1, collected' = collected \cup {w},
             UNCHANGED <<created, runs>>
      PROVE  Service!Next
  BY <1>1 DEF Service!Next, Service!Collect, Open, PoolInv, TypeOK
<1>2. ASSUME NEW t \in Threads \cup {Main}, JobStep(t)
      PROVE  Service!Next \/ UNCHANGED <<created, runs, collected>>
  <2>1. CASE BeginRun(t)
    <3>1. CASE Awaited(t) = NoJob
      BY <2>1, <3>1 DEF BeginRun
    <3>2. CASE Awaited(t) # NoJob
      <4>1. pc[t] = "run" /\ ~MustWait(t)
        BY <2>1 DEF BeginRun
      <4>2. Awaited(t) \in Open /\ (Creating => Awaited(t) # job)
        BY <3>2, <4>1, AwaitedOpen
      <4>3. runs[Awaited(t)] = 1
        BY <3>2, <4>1, <4>2, RunBefore DEF MustWait, NothingToWaitFor, Available
      <4> QED
        BY <1>1, <2>1, <3>2, <4>2, <4>3 DEF BeginRun
    <3> QED
      BY <3>1, <3>2
  <2>2. CASE EndWait(t)
    <3>1. pc[t] = "waiting" /\ Awaited(t) # NoJob /\ status[handle[Awaited(t)]] = "wait"
      BY <2>2 DEF EndWait, Finished, PoolInv, WaitsForThread
    <3>2. Awaited(t) \in Open /\ (Creating => Awaited(t) # job)
      BY <3>1, AwaitedOpen
    <3>3. runs[Awaited(t)] = 1
      BY <3>1, <3>2, RunBefore
    <3> QED
      BY <1>1, <2>2, <3>2, <3>3 DEF EndWait
  <2>3. CASE Work(t)
    <3>1. Doing(t) \in Open /\ runs[Doing(t)] = 0
      BY <2>3, DoingOwn DEF Work, JobPC
    <3>2. Doing(t) \in Jobs /\ Doing(t) \in created
      BY <3>1 DEF Open, PoolInv, TypeOK
    <3>3. Service!Run(Doing(t))
      BY <2>3, <3>1, <3>2 DEF Service!Run, Work, PoolInv, TypeOK
    <3> QED
      BY <3>2, <3>3 DEF Service!Next
  <2> QED
    BY <1>2, <2>1, <2>2, <2>3 DEF JobStep, BeginWait
<1>3. CASE \E t \in Threads : ThreadStep(t) \/ WakeSpuriously(t)
  BY <1>2, <1>3
     DEF ThreadStep, Loop, Lock, Test, Forget, Publish, Unlock, WakeSpuriously
<1>4. CASE MainStep
  <2>1. CASE Collect
    <3>1. job \in Open /\ ~Creating /\ status[handle[job]] = "wait"
      BY <2>1 DEF Collect, Finished, PoolInv, MainBusy, Creating, JobPC
    <3>2. runs[job] = 1
      BY <3>1, RunBefore
    <3> QED
      BY <1>1, <2>1, <3>1, <3>2 DEF Collect
  <2> QED
    BY <1>2, <1>4, <2>1
       DEF MainStep, Scan, LockIdle, Dispatch, SignalThread, Drain, WakeThread, Join
<1>5. CASE \E j \in Jobs : \E w \in Held \cup {NoJob} : Create(j, w)
  BY <1>5 DEF Create, Service!Next, Service!Create
<1>6. ASSUME NEW j \in Jobs, Wait(j)
      PROVE  Service!Next \/ UNCHANGED <<created, runs, collected>>
  <2>1. CASE NothingToWaitFor(handle[j])
    <3>1. j \in Open /\ ~Creating
      BY <1>6 DEF Wait, Held, Open, Creating, JobPC
    <3>2. runs[j] = 1
      BY <2>1, <3>1, RunBefore DEF NothingToWaitFor, Available
    <3> QED
      BY <1>1, <1>6, <2>1, <3>1, <3>2 DEF Wait
  <2> QED
    BY <1>6, <2>1 DEF Wait
<1> QED
  BY <1>3, <1>4, <1>5, <1>6 DEF Next, Shutdown, Reinit

THEOREM PoolServes == Spec => JobsServed
<1>1. Init => Service!Init
  BY DEF Init, Service!Init
<1> QED
  BY <1>1, StepServes, PoolInvariant, PTL DEF Spec, JobsServed, Service!Spec
=============================================================================

----------------------------- MODULE JobService -----------------------------
(***************************************************************************)
(* What the thread pool promises its callers (thread.h): a job handed to   *)
(* Thread_Create runs exactly once, whoever runs it, and Thread_Wait does  *)
(* not return before it has.                                               *)
(***************************************************************************)
EXTENDS Naturals

CONSTANTS Jobs

VARIABLES
  created,   \* Jobs handed to Thread_Create.
  runs,      \* How often each has been run to its end.
  collected  \* Jobs a Thread_Wait has returned for.

Init ==
  /\ created = {}
  /\ runs = [j \in Jobs |-> 0]
  /\ collected = {}

Create(j) ==
  /\ j \notin created
  /\ created' = created \cup {j}
  /\ UNCHANGED <<runs, collected>>

Run(j) ==
  /\ j \in created
  /\ runs[j] = 0
  /\ runs' = [runs EXCEPT ![j] = 1]
  /\ UNCHANGED <<created, collected>>

Collect(j) ==
  /\ runs[j] = 1
  /\ collected' = collected \cup {j}
  /\ UNCHANGED <<created, runs>>

Next == \E j \in Jobs : Create(j) \/ Run(j) \/ Collect(j)

Spec == Init /\ [][Next]_<<created, runs, collected>>
=============================================================================

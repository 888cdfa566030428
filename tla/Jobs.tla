-------------------------------- MODULE Jobs --------------------------------
(***************************************************************************)
(* What execute, halt, the scheduler and the terminal switch promise       *)
(* together: every terminal has a stack of jobs, its shell at the bottom,  *)
(* and each job waits for the one above it.  One of the jobs on top runs.  *)
(***************************************************************************)
EXTENDS Integers, Sequences

CONSTANTS
    Pids, Terminals,
    Console,    \* the terminal of the first shell
    None

VARIABLES
    jobs,       \* the jobs of each terminal
    running,    \* the one that runs, or None
    opening     \* then: the terminal whose shell has to be started first

vars == <<jobs, running, opening>>

Top(t) == jobs[t][Len(jobs[t])]
Idle   == {p \in Pids : \A t \in Terminals : \A i \in 1 .. Len(jobs[t]) : jobs[t][i] # p}

Init ==
    /\ jobs = [t \in Terminals |-> <<>>]
    /\ running = None
    /\ opening = Console

\* The running job starts another one and waits for it.
Execute(t) ==
    /\ jobs[t] # <<>> /\ running = Top(t)
    /\ \E p \in Idle :
          /\ jobs' = [jobs EXCEPT ![t] = Append(jobs[t], p)]
          /\ running' = p
    /\ UNCHANGED opening

\* The shell of a terminal without jobs is started.
Open(t) ==
    /\ jobs[t] = <<>>
    /\ opening \in {None, t}
    /\ \E p \in Idle :
          /\ jobs' = [jobs EXCEPT ![t] = <<p>>]
          /\ running' = p
    /\ opening' = None

\* The running job ends and the one that waits for it runs; if it was the shell, nothing
\* runs until there is a new one.
Halt(t) ==
    /\ jobs[t] # <<>> /\ running = Top(t)
    /\ jobs' = [jobs EXCEPT ![t] = SubSeq(jobs[t], 1, Len(jobs[t]) - 1)]
    /\ IF Len(jobs[t]) > 1
       THEN running' = jobs[t][Len(jobs[t]) - 1] /\ UNCHANGED opening
       ELSE running' = None /\ opening' = t

\* The top job of a terminal gets the CPU.
Switch(t) ==
    /\ running # None
    /\ jobs[t] # <<>>
    /\ running' = Top(t)
    /\ UNCHANGED <<jobs, opening>>

\* Every step hands the CPU on.
Next == /\ running' # running
        /\ \E t \in Terminals : Execute(t) \/ Open(t) \/ Halt(t) \/ Switch(t)

Spec == Init /\ [][Next]_vars
=============================================================================

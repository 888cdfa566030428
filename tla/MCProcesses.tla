---------------------------- MODULE MCProcesses ----------------------------
(* Instances of Processes for TLC. *)
EXTENDS Processes

\* Interrupts everywhere but in the four windows that break the table.
SafeWindows == {"ack", "tick", "find", "load"}

\* The same without the window before the RTC's EOI and with pid allocation
\* atomic: what the liveness of the scheduler needs.
TickWindow == {"tick"}

\* Only between get_free_pid and the reservation of the pid it has found.
ReserveWindow == {"reserve"}

=============================================================================

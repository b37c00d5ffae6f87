-------------------------- MODULE MCInterrupciones --------------------------
(* Instances of the interrupt channel for TLC.                              *)
EXTENDS Interrupciones, TLC

\* Budgets of system calls: the initial process makes the given number, its
\* children only run; or every process makes one call.
TresCero == [p \in Pids |-> IF p = 0 THEN 3 ELSE 0]
DosCero == [p \in Pids |-> IF p = 0 THEN 2 ELSE 0]
DosUno == [p \in Pids |-> IF p = 0 THEN 2 ELSE 1]
Uno == [p \in Pids |-> 1]
=============================================================================

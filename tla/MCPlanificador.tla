--------------------------- MODULE MCPlanificador ---------------------------
(* Instances of the scheduler for TLC.                                      *)
EXTENDS PlanificadorInv, TLC

\* Budgets of system calls: the initial process makes two, its children one;
\* or every process makes the given number.
DosUno == [p \in Pids |-> IF p = 0 THEN 2 ELSE 1]
Uno == [p \in Pids |-> 1]
Dos == [p \in Pids |-> 2]

Simetria == Permutations(Cpus)
=============================================================================

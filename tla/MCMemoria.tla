------------------------------ MODULE MCMemoria ------------------------------
(* Instances of MemoriaKernel for TLC.                                      *)
EXTENDS MemoriaKernel, TLC

Uno == [p \in Pids |-> 1]
Dos == [p \in Pids |-> 2]
DosUno == [p \in Pids |-> IF p = 0 THEN 2 ELSE 1]

Simetria == Permutations(Cpus)
=============================================================================

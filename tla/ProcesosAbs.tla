----------------------------- MODULE ProcesosAbs -----------------------------
(***************************************************************************)
(* What the scheduler promises about a process, without threads, lists or  *)
(* semaphores: the seven-phase life cycle, pids handed out in order, and   *)
(* never more processes executing than there are CPUs.                     *)
(***************************************************************************)
EXTENDS Integers, FiniteSets

CONSTANTS MaxPid, NumCpus

Fases == {"NO_CREADO", "NEW", "READY", "EXEC", "BLOCK", "SUSP_BLOCK", "EXIT"}
PidsAbs == 0 .. MaxPid

VARIABLE fase

AbsInit == fase = [p \in PidsAbs |-> IF p = 0 THEN "NEW" ELSE "NO_CREADO"]

En(f) == {p \in PidsAbs : fase[p] = f}

Mover(p, desde, hacia) ==
  /\ fase[p] = desde
  /\ fase' = [fase EXCEPT ![p] = hacia]

\* A running process creates the next pid: no gap, no repetition.
Crear(p) ==
  /\ \E padre \in PidsAbs : fase[padre] = "EXEC"
  /\ \A q \in PidsAbs : q < p => fase[q] # "NO_CREADO"
  /\ Mover(p, "NO_CREADO", "NEW")

Admitir(p) == Mover(p, "NEW", "READY")

Despachar(p) == Cardinality(En("EXEC")) < NumCpus /\ Mover(p, "READY", "EXEC")

Ceder(p) == Mover(p, "EXEC", "READY")

EsperarIo(p) == Mover(p, "EXEC", "BLOCK")

Suspender(p) == Mover(p, "BLOCK", "SUSP_BLOCK")

Despertar(p) == Mover(p, "BLOCK", "READY") \/ Mover(p, "SUSP_BLOCK", "READY")

Terminar(p) == Mover(p, "EXEC", "EXIT")

AbsNext == \E p \in PidsAbs :
  \/ Crear(p) \/ Admitir(p) \/ Despachar(p) \/ Ceder(p)
  \/ EsperarIo(p) \/ Suspender(p) \/ Despertar(p) \/ Terminar(p)

AbsSpec == AbsInit /\ [][AbsNext]_fase
=============================================================================

------------------------------ MODULE MCMutex ------------------------------
(* Instances of MutexKernel: scripts of script/.                            *)
EXTENDS MutexKernel, TLC

CONSTANT M1

Crear(x) == Instruccion("S_MUTEX_CREATE", x, 0)
Tomar(x) == Instruccion("S_MUTEX_LOCK", x, 0)
Soltar(x) == Instruccion("S_MUTEX_UNLOCK", x, 0)
Dormir == Instruccion("S_SLEEP", "", 0)
Iniciar(k) == Instruccion("S_INIT_PROC", "", k)
Salir == Instruccion("S_EXIT", "", 0)

\* PHP.prc with two or three children like PHP_1.prc and PHP_4.prc: the
\* parent creates the mutex first.  The first child of PhpTres ends
\* without UNLOCK, like P3.prc; in PhpSale the second child does.
PadreDos == <<Crear(M1), Iniciar(1), Iniciar(0), Salir>>
PadreTres == <<Crear(M1), Iniciar(2), Iniciar(1), Iniciar(0), Salir>>
ConSiesta == <<Tomar(M1), Dormir, Soltar(M1), Salir>>
TrasSiesta == <<Dormir, Tomar(M1), Soltar(M1), Salir>>
SinSoltar == <<Tomar(M1), Salir>>
SinSoltarTras == <<Dormir, Tomar(M1), Salir>>

\* mutex_hp.prc with two children: P2.prc, and P1.prc ending like P3.prc,
\* without UNLOCK.  P2 may ask for the mutex before P1 has created it.
MutexHp ==
  (0 :> <<Iniciar(1), Iniciar(0), Salir>>) @@
  (1 :> <<Crear(M1), Tomar(M1), Dormir, Salir>>) @@
  (2 :> <<Dormir, Tomar(M1), Soltar(M1), Salir>>)
\* proceso_mutex.txt
ProcesoMutex == 0 :> <<Crear(M1), Tomar(M1), Soltar(M1), Salir>>

PhpDos == (0 :> PadreDos) @@ (1 :> ConSiesta) @@ (2 :> TrasSiesta)
PhpSale == (0 :> PadreDos) @@ (1 :> ConSiesta) @@ (2 :> SinSoltarTras)
PhpTres == (0 :> PadreTres) @@ (1 :> SinSoltar) @@ (2 :> ConSiesta) @@ (3 :> TrasSiesta)

NoUsado == [p \in Pids |-> 0]
Simetria == Permutations(Cpus)
=============================================================================

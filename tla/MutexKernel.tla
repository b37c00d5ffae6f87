----------------------------- MODULE MutexKernel -----------------------------
(***************************************************************************)
(* The kernel mutexes: S_MUTEX_CREATE, S_MUTEX_LOCK and S_MUTEX_UNLOCK of   *)
(* atender_cliente, the release of the mutexes of a process that exits, and *)
(* priority inheritance, on top of Planificador.                            *)
(*                                                                         *)
(* Processes follow scripts like those of script/: the pid that issues      *)
(* INIT_PROC names the child, so one creator keeps pids and scripts paired. *)
(***************************************************************************)
EXTENDS Planificador

CONSTANTS
  Mutexes,   \* the names the scripts use
  Guion      \* Guion[p]: the system calls of p's script, as records

Instruccion(s, x, k) == [syscall |-> s, mutex |-> x, prio |-> k]

LlamadasMutex == {"S_MUTEX_CREATE", "S_MUTEX_LOCK", "S_MUTEX_UNLOCK"}

\* A call has the operands the scheduler reads for it; a script ends with
\* EXIT, like those of script/.
ASSUME GuionOK ==
  /\ DOMAIN Guion = Pids
  /\ \A p \in Pids :
       /\ Guion[p] # <<>> /\ Guion[p][Len(Guion[p])].syscall = "S_EXIT"
       /\ \A n \in 1 .. Len(Guion[p]) :
            /\ Guion[p][n].syscall \in LlamadasMutex \cup {"S_SLEEP", "S_INIT_PROC", "S_EXIT"}
            /\ Guion[p][n].syscall \in LlamadasMutex => Guion[p][n].mutex \in Mutexes
            /\ Guion[p][n].prio \in Prioridades

VARIABLES
  creados,          \* names in lista_mutex_globales
  pid_dueno, prioridad_original_dueno, cola_bloqueados,   \* t_mutex_kernel
  encontrado,       \* the other PCB a handler works on
  contador,         \* the PC saved in Kernel Memory
  leido             \* the PC in the registers of each CPU

mutexes == <<creados, pid_dueno, prioridad_original_dueno, cola_bloqueados>>
guiones == <<contador, leido>>
varsM == <<vars, mutexes, encontrado, guiones>>

InitM ==
  /\ Init
  /\ creados = {}
  /\ pid_dueno = [x \in Mutexes |-> NADIE]
  /\ prioridad_original_dueno = [x \in Mutexes |-> 0]
  /\ cola_bloqueados = [x \in Mutexes |-> <<>>]
  /\ encontrado = [c \in Cpus |-> NADIE]
  /\ contador = [p \in Pids |-> 1]
  /\ leido = [c \in Cpus |-> 0]

-----------------------------------------------------------------------------
(* The CPU runs the script: one turn is one system call.                    *)

CpuTomarGuion(c) ==
  /\ CpuTomar(c)
  /\ leido' = [leido EXCEPT ![c] = contador[Head(despachos[c])]]
  /\ UNCHANGED <<mutexes, encontrado, contador>>

\* enviar_instruccion answers nothing to a PC past the end of the script.
HayInstruccion(c) == corre[c] # NADIE /\ leido[c] <= Len(Guion[corre[c]])

\* actualizar_contexto saves the PC, then the motive goes to the scheduler.
CpuSyscall(c) ==
  /\ HayInstruccion(c)
  /\ LET i == Guion[corre[c]][leido[c]]
         p == corre[c]
         s == i.syscall
     IN CpuDevolver(c,
          CASE s = "S_EXIT" -> [SinMensaje EXCEPT !.pid = p]
            [] s \in {"S_SLEEP", "S_INIT_PROC"} ->
                 [motivo |-> "MOTIVO_SYSCALL", pid |-> p, syscall |-> s, prio |-> i.prio]
            [] s \in LlamadasMutex ->
                 [motivo |-> "MOTIVO_SYSCALL", pid |-> p, syscall |-> s, prio |-> i.prio,
                  mutex |-> i.mutex])
  /\ contador' = [contador EXCEPT ![corre[c]] = leido[c] + 1]
  /\ UNCHANGED <<interrupcion, restantes, mutexes, encontrado, leido>>

CpuInterrumpirGuion(c) ==
  /\ HayInstruccion(c) /\ CpuInterrumpir(c)
  /\ contador' = [contador EXCEPT ![corre[c]] = leido[c]]
  /\ UNCHANGED <<mutexes, encontrado, leido>>

-----------------------------------------------------------------------------
RecibirMutex(c, s, paso) ==
  /\ motivos[c] # <<>> /\ Head(motivos[c]).syscall = s
  /\ Recibir(c, Head(motivos[c]), paso)
  /\ UNCHANGED <<estado, encontrado, guiones>>

\* A second CREATE of a name adds an entry that buscar_mutex never returns.
RecibirMutexCreate(c) ==
  /\ RecibirMutex(c, "S_MUTEX_CREATE", "ready_liberar")
  /\ creados' = creados \cup {Head(motivos[c]).mutex}
  /\ UNCHANGED <<pid_dueno, prioridad_original_dueno, cola_bloqueados>>

RecibirMutexLock(c) ==
  RecibirMutex(c, "S_MUTEX_LOCK", "mutex_lock") /\ UNCHANGED mutexes

RecibirMutexUnlock(c) ==
  RecibirMutex(c, "S_MUTEX_UNLOCK", "mutex_unlock") /\ UNCHANGED mutexes

\* Mutant: the mutexes of the process are not released.
RecibirExitDirecto(c) ==
  \E m \in Mensajes :
    /\ m.motivo = "MOTIVO_EXIT"
    /\ Recibir(c, m, "finalizar")
    /\ UNCHANGED <<estado, mutexes, encontrado, guiones>>

RecibirExitMutex(c) ==
  \E m \in Mensajes :
    /\ m.motivo = "MOTIVO_EXIT"
    /\ Recibir(c, m, "soltar_mutex")
    /\ UNCHANGED <<estado, mutexes, encontrado, guiones>>

\* m->mx_mutex is held by a handler between two steps of ejecutar_mutex_lock.
Tomado(x) ==
  \E d \in Cpus : pc[d] \in {"lock_cpus", "lock_ready", "lock_heredar"} /\ msg[d].mutex = x

SinOtrosCambios ==
  UNCHANGED <<proximo_pid, cola_new, cola_block, cola_susp, cola_exit, sem_procesos_new,
              sem_respuesta_memoria, lista_cpus, largo, corto, io, temps, km,
              despachos, corre, motivos, restantes, colgadas, guiones>>

(* ejecutar_mutex_lock                                                      *)

\* A name nobody created is logged, and the process goes on.
LockInexistente(c) ==
  /\ pc[c] = "mutex_lock" /\ msg[c].mutex \notin creados
  /\ Ir(c, "lock_liberar")
  /\ SinOtrosCambios
  /\ UNCHANGED <<estado, prioridad, colas_ready, sem_procesos_ready, sem_cpus_libres,
                 ejecutando, pcb_h, msg, interrupcion, mutexes, encontrado>>

LockLibre(c) ==
  LET x == msg[c].mutex IN
  /\ pc[c] = "mutex_lock" /\ x \in creados /\ ~ Tomado(x) /\ pid_dueno[x] = NADIE
  /\ pid_dueno' = [pid_dueno EXCEPT ![x] = pcb_h[c]]
  /\ prioridad_original_dueno' =
       [prioridad_original_dueno EXCEPT ![x] = prioridad[pcb_h[c]]]
  /\ Ir(c, "lock_liberar")
  /\ SinOtrosCambios
  /\ UNCHANGED <<estado, prioridad, colas_ready, sem_procesos_ready, sem_cpus_libres,
                 ejecutando, pcb_h, msg, interrupcion, creados, cola_bloqueados, encontrado>>

LockOcupado(c) ==
  LET x == msg[c].mutex IN
  /\ pc[c] = "mutex_lock" /\ x \in creados /\ ~ Tomado(x) /\ pid_dueno[x] # NADIE
  /\ estado' = [estado EXCEPT ![pcb_h[c]] = "BLOCK"]
  /\ cola_bloqueados' = [cola_bloqueados EXCEPT ![x] = Append(@, pcb_h[c])]
  /\ Ir(c, "lock_cpus")
  /\ SinOtrosCambios
  /\ UNCHANGED <<prioridad, colas_ready, sem_procesos_ready, sem_cpus_libres, ejecutando,
                 pcb_h, msg, interrupcion, creados, pid_dueno, prioridad_original_dueno,
                 encontrado>>

\* buscar_pcb_por_pid, first half: under mx_lista_cpus.
LockBuscarEnCpus(c) ==
  LET d == pid_dueno[msg[c].mutex] IN
  /\ pc[c] = "lock_cpus"
  /\ IF \E e \in lista_cpus : ejecutando[e] = d
       THEN Ir(c, "lock_heredar") /\ encontrado' = [encontrado EXCEPT ![c] = d]
       ELSE Ir(c, "lock_ready") /\ UNCHANGED encontrado
  /\ SinOtrosCambios
  /\ UNCHANGED <<estado, prioridad, colas_ready, sem_procesos_ready, sem_cpus_libres,
                 ejecutando, pcb_h, msg, interrupcion, mutexes>>

Entradas(p) ==
  UNION {{k} \X {i \in DOMAIN colas_ready[k] : colas_ready[k][i] = p} : k \in Prioridades}

Quitar(s, i) == SubSeq(s, 1, i - 1) \o SubSeq(s, i + 1, Len(s))

\* Mutant: the pointer that was not found is not compared with NULL.
LockBuscarSinMirar(c) ==
  LET d == pid_dueno[msg[c].mutex] IN
  /\ pc[c] = "lock_ready" /\ Ir(c, "lock_heredar")
  /\ IF Entradas(d) = {}
       THEN UNCHANGED <<encontrado, colas_ready>>
       ELSE \E e \in Entradas(d) :
              /\ colas_ready' = [colas_ready EXCEPT ![e[1]] = Quitar(@, e[2])]
              /\ encontrado' = [encontrado EXCEPT ![c] = d]
  /\ SinOtrosCambios
  /\ UNCHANGED <<estado, prioridad, sem_procesos_ready, sem_cpus_libres, ejecutando,
                 pcb_h, msg, interrupcion, mutexes>>

\* Second half: under mx_cola_ready, the owner is taken out of its list.
LockBuscarEnReady(c) ==
  LET d == pid_dueno[msg[c].mutex] IN
  /\ pc[c] = "lock_ready"
  /\ IF Entradas(d) = {}
       THEN Ir(c, "lock_post") /\ UNCHANGED <<encontrado, colas_ready>>
       ELSE /\ \E e \in Entradas(d) :
                 /\ \A f \in Entradas(d) : e[1] < f[1] \/ (e[1] = f[1] /\ e[2] <= f[2])
                 /\ colas_ready' = [colas_ready EXCEPT ![e[1]] = Quitar(@, e[2])]
            /\ encontrado' = [encontrado EXCEPT ![c] = d]
            /\ Ir(c, "lock_heredar")
  /\ SinOtrosCambios
  /\ UNCHANGED <<estado, prioridad, sem_procesos_ready, sem_cpus_libres, ejecutando,
                 pcb_h, msg, interrupcion, mutexes>>

\* The owner inherits a better priority; unless it is in EXEC it is added
\* to READY, at its level, without a post.
LockHeredar(c) ==
  LET d == encontrado[c]
      k == IF prioridad[pcb_h[c]] < prioridad[d] THEN prioridad[pcb_h[c]] ELSE prioridad[d]
  IN
  /\ pc[c] = "lock_heredar"
  /\ prioridad' = [prioridad EXCEPT ![d] = k]
  /\ colas_ready' = IF estado[d] = "EXEC" THEN colas_ready
                    ELSE [colas_ready EXCEPT ![k] = Append(@, d)]
  /\ encontrado' = [encontrado EXCEPT ![c] = NADIE]
  /\ Ir(c, "lock_post")
  /\ SinOtrosCambios
  /\ UNCHANGED <<estado, sem_procesos_ready, sem_cpus_libres, ejecutando, pcb_h, msg,
                 interrupcion, mutexes>>

\* The post of ejecutar_mutex_lock, and then the handler's own.
LockPost(c) ==
  /\ \/ pc[c] = "lock_post" /\ Ir(c, "lock_liberar")
     \/ pc[c] = "lock_soltar" /\ Ir(c, "lock_evaluar")
  /\ sem_cpus_libres' = sem_cpus_libres + 1
  /\ SinOtrosCambios
  /\ UNCHANGED <<estado, prioridad, colas_ready, sem_procesos_ready, ejecutando, pcb_h, msg,
                 interrupcion, mutexes, encontrado>>

LockLiberar(c) ==
  /\ pc[c] = "lock_liberar"
  /\ ejecutando' = [ejecutando EXCEPT ![c] = NADIE]
  /\ Ir(c, "lock_soltar")
  /\ SinOtrosCambios
  /\ UNCHANGED <<estado, prioridad, colas_ready, sem_procesos_ready, sem_cpus_libres, pcb_h,
                 msg, interrupcion, mutexes, encontrado>>

\* Mutant: the state is not looked at.
LockEvaluarSinMirar(c) ==
  /\ pc[c] = "lock_evaluar"
  /\ IF FALSE
       THEN SoltarPcb(c) /\ UNCHANGED estado
       ELSE /\ estado' = [estado EXCEPT ![pcb_h[c]] = "READY"]
            /\ Ir(c, "ready_encolar")
            /\ UNCHANGED <<pcb_h, msg>>
  /\ SinOtrosCambios
  /\ UNCHANGED <<prioridad, colas_ready, sem_procesos_ready, sem_cpus_libres, ejecutando,
                 interrupcion, mutexes, encontrado>>

\* pcb->estado is read again, after the CPU was freed.
LockEvaluar(c) ==
  /\ pc[c] = "lock_evaluar"
  /\ IF estado[pcb_h[c]] = "BLOCK"
       THEN SoltarPcb(c) /\ UNCHANGED estado
       ELSE /\ estado' = [estado EXCEPT ![pcb_h[c]] = "READY"]
            /\ Ir(c, "ready_encolar")
            /\ UNCHANGED <<pcb_h, msg>>
  /\ SinOtrosCambios
  /\ UNCHANGED <<prioridad, colas_ready, sem_procesos_ready, sem_cpus_libres, ejecutando,
                 interrupcion, mutexes, encontrado>>

(* ejecutar_mutex_unlock                                                    *)

\* The owner is read before mx_mutex is taken.
UnlockVerificar(c) ==
  LET x == msg[c].mutex IN
  /\ pc[c] = "mutex_unlock"
  /\ IF x \notin creados \/ pid_dueno[x] # pcb_h[c]
       THEN SoltarPcb(c)
       ELSE Ir(c, "unlock_mx") /\ UNCHANGED <<pcb_h, msg>>
  /\ SinOtrosCambios
  /\ UNCHANGED <<estado, prioridad, colas_ready, sem_procesos_ready, sem_cpus_libres,
                 ejecutando, interrupcion, mutexes, encontrado>>

\* Mutant: list_is_empty is not asked.
UnlockSinMirar(c) ==
  LET x == msg[c].mutex IN
  /\ pc[c] = "unlock_mx" /\ ~ Tomado(x)
  /\ pid_dueno' = [pid_dueno EXCEPT ![x] = NADIE]
  /\ SoltarPcb(c)
  /\ SinOtrosCambios
  /\ UNCHANGED <<estado, prioridad, colas_ready, sem_procesos_ready, sem_cpus_libres,
                 ejecutando, interrupcion, creados, prioridad_original_dueno,
                 cola_bloqueados, encontrado>>

UnlockSinEspera(c) ==
  LET x == msg[c].mutex IN
  /\ pc[c] = "unlock_mx" /\ ~ Tomado(x) /\ cola_bloqueados[x] = <<>>
  /\ pid_dueno' = [pid_dueno EXCEPT ![x] = NADIE]
  /\ SoltarPcb(c)
  /\ SinOtrosCambios
  /\ UNCHANGED <<estado, prioridad, colas_ready, sem_procesos_ready, sem_cpus_libres,
                 ejecutando, interrupcion, creados, prioridad_original_dueno,
                 cola_bloqueados, encontrado>>

UnlockTraspasar(c) ==
  LET x == msg[c].mutex
      q == Head(cola_bloqueados[x])
      restaurada == [prioridad EXCEPT ![pcb_h[c]] = prioridad_original_dueno[x]]
  IN
  /\ pc[c] = "unlock_mx" /\ ~ Tomado(x) /\ cola_bloqueados[x] # <<>>
  /\ cola_bloqueados' = [cola_bloqueados EXCEPT ![x] = Tail(@)]
  /\ prioridad' = restaurada
  /\ pid_dueno' = [pid_dueno EXCEPT ![x] = q]
  /\ prioridad_original_dueno' = [prioridad_original_dueno EXCEPT ![x] = restaurada[q]]
  /\ encontrado' = [encontrado EXCEPT ![c] = q]
  /\ Ir(c, "unlock_ready")
  /\ SinOtrosCambios
  /\ UNCHANGED <<estado, colas_ready, sem_procesos_ready, sem_cpus_libres, ejecutando,
                 pcb_h, msg, interrupcion, creados>>

UnlockDespertar(c) ==
  /\ pc[c] = "unlock_ready"
  /\ estado' = [estado EXCEPT ![encontrado[c]] = "READY"]
  /\ colas_ready' = ListaReadyCon(encontrado[c])
  /\ Ir(c, "unlock_avisar")
  /\ SinOtrosCambios
  /\ UNCHANGED <<prioridad, sem_procesos_ready, sem_cpus_libres, ejecutando, pcb_h, msg,
                 interrupcion, mutexes, encontrado>>

\* The handler then sends OK to the CPU, which is waiting for
\* DESPACHAR_PROCESO and skips every other code: nothing starts running.
UnlockAvisar(c) ==
  /\ pc[c] = "unlock_avisar"
  /\ VerificarDesalojo(encontrado[c])
  /\ sem_procesos_ready' = sem_procesos_ready + 1
  /\ encontrado' = [encontrado EXCEPT ![c] = NADIE]
  /\ SoltarPcb(c)
  /\ SinOtrosCambios
  /\ UNCHANGED <<estado, prioridad, colas_ready, sem_cpus_libres, ejecutando, mutexes>>

(* liberar_mutex_de_proceso_saliente, one mutex of the list per step; the   *)
(* order of lista_mutex_globales is left open.                              *)
ExitSoltarMutex(c) ==
  \E x \in creados :
    /\ pc[c] = "soltar_mutex" /\ pid_dueno[x] = pcb_h[c] /\ ~ Tomado(x)
    /\ IF cola_bloqueados[x] = <<>>
         THEN /\ pid_dueno' = [pid_dueno EXCEPT ![x] = NADIE]
              /\ UNCHANGED <<cola_bloqueados, estado, colas_ready, sem_procesos_ready>>
         ELSE /\ pid_dueno' = [pid_dueno EXCEPT ![x] = Head(cola_bloqueados[x])]
              /\ cola_bloqueados' = [cola_bloqueados EXCEPT ![x] = Tail(@)]
              /\ estado' = [estado EXCEPT ![Head(cola_bloqueados[x])] = "READY"]
              /\ colas_ready' = ListaReadyCon(Head(cola_bloqueados[x]))
              /\ sem_procesos_ready' = sem_procesos_ready + 1
    /\ SinOtrosCambios
    /\ UNCHANGED <<prioridad, sem_cpus_libres, ejecutando, pc, pcb_h, msg, interrupcion,
                   creados, prioridad_original_dueno, encontrado>>

ExitSinMutex(c) ==
  /\ pc[c] = "soltar_mutex" /\ \A x \in creados : pid_dueno[x] # pcb_h[c]
  /\ Ir(c, "finalizar")
  /\ SinOtrosCambios
  /\ UNCHANGED <<estado, prioridad, colas_ready, sem_procesos_ready, sem_cpus_libres,
                 ejecutando, pcb_h, msg, interrupcion, mutexes, encontrado>>

-----------------------------------------------------------------------------
MutexDe(c) ==
  \/ RecibirMutexCreate(c) \/ RecibirMutexLock(c) \/ RecibirMutexUnlock(c)
  \/ RecibirExitMutex(c) \/ ExitSoltarMutex(c) \/ ExitSinMutex(c)
  \/ LockInexistente(c) \/ LockLibre(c) \/ LockOcupado(c)
  \/ LockBuscarEnCpus(c) \/ LockBuscarEnReady(c) \/ LockHeredar(c)
  \/ LockPost(c) \/ LockLiberar(c) \/ LockEvaluar(c)
  \/ UnlockVerificar(c) \/ UnlockSinEspera(c) \/ UnlockTraspasar(c)
  \/ UnlockDespertar(c) \/ UnlockAvisar(c)

CpuGuion(c) == CpuTomarGuion(c) \/ CpuSyscall(c) \/ CpuInterrumpirGuion(c)

\* The rest of the scheduler, as in Planificador.
Planificacion ==
  \/ LargoPlazo \/ CortoPlazo \/ AtenderIo \/ ConectarIo \/ IoServir
  \/ KernelMemory \/ EscucharKm
  \/ \E c \in Cpus : AtenderSinExit(c)

SinMutex == UNCHANGED <<mutexes, encontrado, guiones>>

NextM ==
  \/ Planificacion /\ SinMutex
  \/ \E c \in Cpus : CpuGuion(c) \/ MutexDe(c)

SpecM == InitM /\ [][NextM]_varsM

\* The threads of Planificador that take part, and those of this module.
HiloDe(c) == MutexDe(c) \/ (AtenderSinExit(c) /\ SinMutex)

FairSpecM ==
  /\ SpecM
  /\ WF_varsM(LargoPlazo /\ SinMutex) /\ WF_varsM(CortoPlazo /\ SinMutex)
  /\ WF_varsM(AtenderIo /\ SinMutex) /\ WF_varsM((ConectarIo \/ IoServir) /\ SinMutex)
  /\ WF_varsM(KernelMemory /\ SinMutex) /\ WF_varsM(EscucharKm /\ SinMutex)
  /\ \A c \in Cpus : WF_varsM(CpuGuion(c)) /\ WF_varsM(HiloDe(c))

-----------------------------------------------------------------------------
(* Properties.                                                              *)

(* TipoMutex: the type of the variables of this module; a handler that goes  *)
(* on to use the other PCB has found one, and only then holds it.            *)
TipoMutex ==
  /\ creados \subseteq Mutexes
  /\ pid_dueno \in [Mutexes -> Pids \cup {NADIE}]
  /\ prioridad_original_dueno \in [Mutexes -> Prioridades]
  /\ cola_bloqueados \in [Mutexes -> Seq(Pids)]
  /\ encontrado \in [Cpus -> Pids \cup {NADIE}]
  /\ \A c \in Cpus : encontrado[c] # NADIE <=>
       pc[c] \in {"lock_heredar", "unlock_ready", "unlock_avisar"}
  /\ contador \in [Pids -> Nat] /\ leido \in [Cpus -> Nat]

(* EsperaConDueno: a mutex with processes waiting has an owner, whose UNLOCK *)
(* or EXIT will wake the first of them: no waiter is forgotten.              *)
EsperaConDueno ==
  \A x \in Mutexes : cola_bloqueados[x] # <<>> => pid_dueno[x] # NADIE

(* BloqueadosDormidos: a process in a cola_bloqueados is in BLOCK, in no     *)
(* READY list, and waits for one mutex only.                                 *)
Esperas(p) ==
  UNION {{x} \X {i \in DOMAIN cola_bloqueados[x] : cola_bloqueados[x][i] = p} : x \in Mutexes}
BloqueadosDormidos ==
  \A p \in Pids : Esperas(p) # {} =>
    estado[p] = "BLOCK" /\ Entradas(p) = {} /\ Cardinality(Esperas(p)) = 1

(* DuenoVivo: no mutex belongs to a process that reached EXIT.               *)
DuenoVivo == \A x \in Mutexes : pid_dueno[x] # NADIE => estado[pid_dueno[x]] # "EXIT"

-----------------------------------------------------------------------------
(* Statements made by comments of kernel_scheduler.c.                       *)

(* CuantasCpusLibres: "Cuantas CPUs libres hay disponibles": the permits of  *)
(* sem_cpus_libres never exceed the CPUs with ocupada = 0.                   *)
CuantasCpusLibres == sem_cpus_libres <= Cardinality(CpusLibres)

\* The script's own view: p has passed LOCK x and not yet UNLOCK x.
Adentro(p, n, x) ==
  \E i \in 1 .. n - 1 :
    /\ Guion[p][i].syscall = "S_MUTEX_LOCK" /\ Guion[p][i].mutex = x
    /\ \A j \in i + 1 .. n - 1 :
         ~ (Guion[p][j].syscall = "S_MUTEX_UNLOCK" /\ Guion[p][j].mutex = x)

(* ExclusionMutua: "PID del que lo tiene. -1 si esta libre" (pid_dueno): a  *)
(* process that a CPU is executing between its MUTEX_LOCK and its            *)
(* MUTEX_UNLOCK of a created mutex is the owner the scheduler has recorded,  *)
(* so no two processes execute inside the same mutex.                        *)
ExclusionMutua ==
  \A c \in Cpus, x \in creados :
    HayInstruccion(c) /\ Adentro(corre[c], leido[c], x) => pid_dueno[x] = corre[c]

(* ReinsertaUnaVez: "Si el dueno estaba en READY, lo reinsertamos": the      *)
(* owner was taken out of READY before it is added to its new level, so      *)
(* inheritance leaves it in READY once.                                      *)
ReinsertaUnaVez ==
  [][\A c \in Cpus :
       pc[c] = "lock_heredar" /\ pc'[c] = "lock_post" /\ colas_ready' # colas_ready
         => Entradas(encontrado[c]) = {}]_varsM

(* SigueTrasUnlock: "Le mandamos un OK a la CPU para que sepa que la syscall *)
(* termino y siga con la proxima instruccion".                               *)
SigueTrasUnlock == \A c \in Cpus : pc[c] = "mutex_unlock" ~> corre[c] # NADIE

(* The priority INIT_PROC gave to p, pcb->prioridad_original.                *)
EsInitProc(i) == i.syscall = "S_INIT_PROC"
PrioridadPropia(p) == IF p = 0 THEN 0 ELSE SelectSeq(Guion[0], EsInitProc)[p].prio

(* RecuperaSuFuerza: "el dueno actual recupera su fuerza real si habia       *)
(* heredado": after an UNLOCK that hands the mutex over, the process has the *)
(* priority it was created with.                                             *)
RecuperaSuFuerza ==
  [][\A c \in Cpus : pc[c] = "unlock_mx" /\ pc'[c] = "unlock_ready"
       => prioridad'[pcb_h[c]] = PrioridadPropia(pcb_h[c])]_varsM
=============================================================================

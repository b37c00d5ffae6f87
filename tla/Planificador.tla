---------------------------- MODULE Planificador ----------------------------
(***************************************************************************)
(* The Kernel Scheduler's process planning: the threads of                 *)
(* kernel_scheduler.c that move a PCB between NEW, READY, EXEC, BLOCK,     *)
(* SUSP_BLOCK and EXIT, with the CPUs, the SLEEP device and the part of    *)
(* Kernel Memory that answers them.                                        *)
(*                                                                         *)
(* Threads: planificador_largo_plazo, planificador_corto_plazo, one        *)
(* atender_cliente per CPU, the atender_cliente of the SLEEP device, the   *)
(* listener of Kernel Memory, and one hilo_temporizador_suspension per     *)
(* blocking.  A step is one critical section, one semaphore operation or   *)
(* one socket operation, with the thread-local assignments around it; a    *)
(* sem_post that directly follows a list operation of the same thread is   *)
(* a step of its own only where another thread can tell the difference.    *)
(***************************************************************************)
EXTENDS Integers, Sequences, FiniteSets

CONSTANTS
  MaxPid,        \* bound: INIT_PROC is issued while proximo_pid <= MaxPid
  Cpus,          \* the CPUs that may connect
  Niveles,       \* number of READY queues (MAX_PRIORIDADES)
  Desalojo,      \* PLANIFICATION_ALGORITHM = CMN and QUEUE_PREEMPTION = TRUE
  Presupuesto,   \* bound: how many system calls each pid's script makes at most
  Creadores,     \* the pids whose scripts contain INIT_PROC
  ConSuspension, \* whether SUSPENSION_TIMEOUT may expire within the run
  IoAlInicio,    \* whether the SLEEP device is connected before any CPU
  Rechaza,       \* whether Kernel Memory may reject a creation (no script file)
  NADIE          \* the NULL t_pcb pointer

Pids == 0 .. MaxPid
Prioridades == 0 .. Niveles - 1

ASSUME ConstantesOK ==
  /\ MaxPid \in Nat
  /\ Niveles \in Nat \ {0}
  /\ Presupuesto \in [Pids -> Nat]
  /\ IsFiniteSet(Cpus)
  /\ Creadores \subseteq Pids
  /\ Desalojo \in BOOLEAN /\ ConSuspension \in BOOLEAN
  /\ IoAlInicio \in BOOLEAN /\ Rechaza \in BOOLEAN
  /\ NADIE \notin Pids

VARIABLES
  estado, prioridad, proximo_pid,                             \* PCBs
  cola_new, colas_ready, cola_block, cola_susp, cola_exit,    \* lists
  sem_procesos_new, sem_procesos_ready, sem_cpus_libres,
  sem_respuesta_memoria,
  lista_cpus, ejecutando,        \* t_cpu_info: connected, pcb_ejecutando
  pc_largo, pcb_largo,           \* planificador_largo_plazo
  pc_corto, pcb_corto,           \* planificador_corto_plazo
  pc, pcb_h, msg,                \* atender_cliente of each CPU
  io_conectada, pedidos_io, respuestas_io, pc_io, pcb_io,
  temporizadores, suspendiendo, por_avisar,
  ultima_respuesta_km, pedidos_km, respuestas_km, km_procesos, en_swap,
  despachos, corre, motivos, interrupcion, restantes, colgadas  \* the CPUs

procesos  == <<estado, prioridad, proximo_pid>>
colas     == <<cola_new, colas_ready, cola_block, cola_susp, cola_exit>>
semaforos == <<sem_procesos_new, sem_procesos_ready, sem_cpus_libres,
               sem_respuesta_memoria>>
cpus_ks   == <<lista_cpus, ejecutando>>
largo     == <<pc_largo, pcb_largo>>
corto     == <<pc_corto, pcb_corto>>
hilos     == <<pc, pcb_h, msg>>
io        == <<io_conectada, pedidos_io, respuestas_io, pc_io, pcb_io>>
temps     == <<temporizadores, suspendiendo, por_avisar>>
km        == <<ultima_respuesta_km, pedidos_km, respuestas_km, km_procesos, en_swap>>
cpu       == <<despachos, corre, motivos, interrupcion, restantes, colgadas>>
vars == <<procesos, colas, semaforos, cpus_ks, largo, corto, hilos, io, temps, km, cpu>>

Estados == {"NO_CREADO", "NEW", "READY", "EXEC", "BLOCK", "EXIT"}

PasosHilo ==
  {"sin_conectar", "registrada", "recibir",
   "finalizar", "esperar_fin", "exit_liberar", "exit_post",
   "bloquear", "block_liberar", "block_post", "block_io",
   "pedir_carga", "esperar_carga", "evaluar",
   "ready_liberar", "ready_post", "ready_encolar", "ready_avisar"}

\* What a CPU sends back: the motive, the pid, the system call and, for
\* INIT_PROC, the priority of the child.  MOTIVO_SEG_FAULT is handled line
\* by line like MOTIVO_EXIT, so MOTIVO_EXIT stands for both.
Mensajes == [motivo : {"MOTIVO_EXIT", "MOTIVO_INTERRUPCION", "MOTIVO_SYSCALL"},
             pid : Pids, syscall : {"", "S_SLEEP", "S_INIT_PROC"},
             prio : Prioridades]
SinMensaje == [motivo |-> "MOTIVO_EXIT", pid |-> 0, syscall |-> "", prio |-> 0]

PedidosKm == [op : {"CARGA_PROCESO", "FINALIZAR_PROCESO", "SUSPENDER_PROCESO"},
              pid : Pids]

(***************************************************************************)
(* main: the lists are empty, PID 0 has been accepted by Kernel Memory and *)
(* waits in NEW; no CPU is connected yet.                                  *)
(***************************************************************************)
Init ==
  /\ estado = [p \in Pids |-> IF p = 0 THEN "NEW" ELSE "NO_CREADO"]
  /\ prioridad = [p \in Pids |-> 0]
  /\ proximo_pid = 1
  /\ cola_new = <<0>>
  /\ colas_ready = [k \in Prioridades |-> <<>>]
  /\ cola_block = {} /\ cola_susp = {} /\ cola_exit = {}
  /\ sem_procesos_new = 1 /\ sem_procesos_ready = 0
  /\ sem_cpus_libres = 0 /\ sem_respuesta_memoria = 0
  /\ lista_cpus = {} /\ ejecutando = [c \in Cpus |-> NADIE]
  /\ pc_largo = "esperar" /\ pcb_largo = NADIE
  /\ pc_corto = "esperar_ready" /\ pcb_corto = NADIE
  /\ pc = [c \in Cpus |-> "sin_conectar"]
  /\ pcb_h = [c \in Cpus |-> NADIE]
  /\ msg = [c \in Cpus |-> SinMensaje]
  /\ io_conectada = IoAlInicio
  /\ pedidos_io = <<>> /\ respuestas_io = <<>>
  /\ pc_io = "recibir" /\ pcb_io = NADIE
  /\ temporizadores = [p \in Pids |-> 0]
  /\ suspendiendo = {}
  /\ por_avisar = [p \in Pids |-> 0]
  /\ ultima_respuesta_km = "OK" /\ pedidos_km = <<>> /\ respuestas_km = <<>>
  /\ km_procesos = {0} /\ en_swap = {}
  /\ despachos = [c \in Cpus |-> <<>>]
  /\ corre = [c \in Cpus |-> NADIE]
  /\ motivos = [c \in Cpus |-> <<>>]
  /\ interrupcion = [c \in Cpus |-> NADIE]
  /\ restantes = Presupuesto
  /\ colgadas = {}

-----------------------------------------------------------------------------
(* Helpers shared by the threads.                                          *)

ListaReadyCon(p) ==
  [colas_ready EXCEPT ![prioridad[p]] = Append(@, p)]

\* The CPUs whose process has a numerically greater (worse) priority.
Desalojables(p) ==
  {c \in lista_cpus : /\ ejecutando[c] # NADIE
                      /\ prioridad[ejecutando[c]] > prioridad[p]}

\* verificar_desalojo_por_prioridad: at most one CPU gets an interruption,
\* the first of lista_cpus; the order of that list is left open here.
VerificarDesalojo(p) ==
  IF Desalojo /\ Desalojables(p) # {}
    THEN \E c \in Desalojables(p) :
           interrupcion' = [interrupcion EXCEPT ![c] = ejecutando[c]]
    ELSE interrupcion' = interrupcion

Ir(c, paso) == pc' = [pc EXCEPT ![c] = paso]
PedirKm(op, p) == pedidos_km' = Append(pedidos_km, [op |-> op, pid |-> p])

-----------------------------------------------------------------------------
(* planificador_largo_plazo                                                *)

LargoEsperar ==
  /\ pc_largo = "esperar" /\ sem_procesos_new > 0
  /\ sem_procesos_new' = sem_procesos_new - 1
  /\ pc_largo' = "sacar"
  /\ UNCHANGED <<pcb_largo, sem_procesos_ready, sem_cpus_libres, sem_respuesta_memoria,
                 procesos, colas, cpus_ks, corto, hilos, io, temps, km, cpu>>

LargoSacar ==
  /\ pc_largo = "sacar" /\ cola_new # <<>>
  /\ pcb_largo' = Head(cola_new)
  /\ cola_new' = Tail(cola_new)
  /\ estado' = [estado EXCEPT ![Head(cola_new)] = "READY"]
  /\ pc_largo' = "encolar"
  /\ UNCHANGED <<prioridad, proximo_pid, colas_ready, cola_block, cola_susp, cola_exit,
                 semaforos, cpus_ks, corto, hilos, io, temps, km, cpu>>

LargoEncolar ==
  /\ pc_largo = "encolar"
  /\ colas_ready' = ListaReadyCon(pcb_largo)
  /\ pc_largo' = "avisar"
  /\ UNCHANGED <<pcb_largo, procesos, cola_new, cola_block, cola_susp, cola_exit,
                 semaforos, cpus_ks, corto, hilos, io, temps, km, cpu>>

\* Mutant: the post is forgotten.
LargoAvisarSinPost ==
  /\ pc_largo = "avisar"
  /\ VerificarDesalojo(pcb_largo)
  /\ sem_procesos_ready' = sem_procesos_ready
  /\ pc_largo' = "esperar" /\ pcb_largo' = NADIE
  /\ UNCHANGED <<sem_procesos_new, sem_cpus_libres, sem_respuesta_memoria,
                 procesos, colas, cpus_ks, corto, hilos, io, temps, km,
                 despachos, corre, motivos, restantes, colgadas>>

LargoAvisar ==
  /\ pc_largo = "avisar"
  /\ VerificarDesalojo(pcb_largo)
  /\ sem_procesos_ready' = sem_procesos_ready + 1
  /\ pc_largo' = "esperar" /\ pcb_largo' = NADIE
  /\ UNCHANGED <<sem_procesos_new, sem_cpus_libres, sem_respuesta_memoria,
                 procesos, colas, cpus_ks, corto, hilos, io, temps, km,
                 despachos, corre, motivos, restantes, colgadas>>

-----------------------------------------------------------------------------
(* planificador_corto_plazo                                                *)

CortoEsperarReady ==
  /\ pc_corto = "esperar_ready" /\ sem_procesos_ready > 0
  /\ sem_procesos_ready' = sem_procesos_ready - 1
  /\ pc_corto' = "esperar_cpu"
  /\ UNCHANGED <<pcb_corto, sem_procesos_new, sem_cpus_libres, sem_respuesta_memoria,
                 procesos, colas, cpus_ks, largo, hilos, io, temps, km, cpu>>

\* Mutant: sem_trywait whose result is ignored.
CortoSinEsperarCpu ==
  /\ pc_corto = "esperar_cpu"
  /\ sem_cpus_libres' = sem_cpus_libres - 1
  /\ pc_corto' = "sacar"
  /\ UNCHANGED <<pcb_corto, sem_procesos_new, sem_procesos_ready, sem_respuesta_memoria,
                 procesos, colas, cpus_ks, largo, hilos, io, temps, km, cpu>>

CortoEsperarCpu ==
  /\ pc_corto = "esperar_cpu" /\ sem_cpus_libres > 0
  /\ sem_cpus_libres' = sem_cpus_libres - 1
  /\ pc_corto' = "sacar"
  /\ UNCHANGED <<pcb_corto, sem_procesos_new, sem_procesos_ready, sem_respuesta_memoria,
                 procesos, colas, cpus_ks, largo, hilos, io, temps, km, cpu>>

\* Mutant: list_get for list_remove.
CortoSacarSinQuitar ==
  /\ pc_corto = "sacar"
  /\ \E k \in Prioridades :
       /\ colas_ready[k] # <<>>
       /\ \A j \in Prioridades : j < k => colas_ready[j] = <<>>
       /\ pcb_corto' = Head(colas_ready[k])
       /\ colas_ready' = colas_ready
       /\ estado' = [estado EXCEPT ![Head(colas_ready[k])] = "EXEC"]
  /\ pc_corto' = "despachar"
  /\ UNCHANGED <<prioridad, proximo_pid, cola_new, cola_block, cola_susp, cola_exit,
                 semaforos, cpus_ks, largo, hilos, io, temps, km, cpu>>

\* The head of the first non-empty level.  With every level empty the code
\* dereferences NULL: PermisosReady says that does not happen.
CortoSacar ==
  /\ pc_corto = "sacar"
  /\ \E k \in Prioridades :
       /\ colas_ready[k] # <<>>
       /\ \A j \in Prioridades : j < k => colas_ready[j] = <<>>
       /\ pcb_corto' = Head(colas_ready[k])
       /\ colas_ready' = [colas_ready EXCEPT ![k] = Tail(@)]
       /\ estado' = [estado EXCEPT ![Head(colas_ready[k])] = "EXEC"]
  /\ pc_corto' = "despachar"
  /\ UNCHANGED <<prioridad, proximo_pid, cola_new, cola_block, cola_susp, cola_exit,
                 semaforos, cpus_ks, largo, hilos, io, temps, km, cpu>>

\* Mutant: ocupada is not looked at.
CpusTodas == lista_cpus

CpusLibres == {c \in lista_cpus : ejecutando[c] = NADIE}

\* With no free CPU the for loop ends without an assignment: the PCB is in
\* no list and the permit is spent.
CortoDespachar ==
  /\ pc_corto = "despachar"
  /\ IF CpusLibres = {}
       THEN UNCHANGED <<ejecutando, despachos>>
       ELSE \E c \in CpusLibres :
              /\ ejecutando' = [ejecutando EXCEPT ![c] = pcb_corto]
              /\ despachos' = [despachos EXCEPT ![c] = Append(@, pcb_corto)]
  /\ pc_corto' = "esperar_ready" /\ pcb_corto' = NADIE
  /\ UNCHANGED <<procesos, colas, semaforos, lista_cpus, largo, hilos, io, temps, km,
                 corre, motivos, interrupcion, restantes, colgadas>>

-----------------------------------------------------------------------------
(* The CPU (cpu.c, ciclo.c), seen from the scheduler.                      *)

\* pedir_contexto: for a pid Kernel Memory does not know enviar_contexto
\* sends nothing, and the CPU stays in recv for ever.
CpuTomar(c) ==
  /\ corre[c] = NADIE /\ c \notin colgadas /\ despachos[c] # <<>>
  /\ IF Head(despachos[c]) \in km_procesos
       THEN corre' = [corre EXCEPT ![c] = Head(despachos[c])] /\ UNCHANGED colgadas
       ELSE colgadas' = colgadas \cup {c} /\ UNCHANGED corre
  /\ despachos' = [despachos EXCEPT ![c] = Tail(@)]
  /\ UNCHANGED <<procesos, colas, semaforos, cpus_ks, largo, corto, hilos, io, temps,
                 km, motivos, interrupcion, restantes>>

CpuDevolver(c, m) ==
  /\ motivos' = [motivos EXCEPT ![c] = Append(@, m)]
  /\ corre' = [corre EXCEPT ![c] = NADIE]
  /\ UNCHANGED <<procesos, colas, semaforos, cpus_ks, largo, corto, hilos, io, temps,
                 km, despachos, colgadas>>

\* EXIT, the end of the script or a segmentation fault.
CpuTerminar(c) ==
  /\ corre[c] # NADIE
  /\ CpuDevolver(c, [SinMensaje EXCEPT !.pid = corre[c]])
  /\ UNCHANGED <<interrupcion, restantes>>

CpuPedir(c, s, k) ==
  /\ corre[c] # NADIE /\ restantes[corre[c]] > 0
  /\ restantes' = [restantes EXCEPT ![corre[c]] = @ - 1]
  /\ CpuDevolver(c, [motivo |-> "MOTIVO_SYSCALL", pid |-> corre[c],
                     syscall |-> s, prio |-> k])
  /\ UNCHANGED interrupcion

CpuSleep(c) == CpuPedir(c, "S_SLEEP", 0)

CpuInitProc(c) ==
  /\ corre[c] \in Creadores /\ proximo_pid <= MaxPid
  /\ \E k \in Prioridades : CpuPedir(c, "S_INIT_PROC", k)

\* The check after an instruction that is not a system call: only a
\* request for the pid that is running is taken, any other stays pending.
CpuInterrumpir(c) ==
  /\ corre[c] # NADIE /\ interrupcion[c] = corre[c]
  /\ interrupcion' = [interrupcion EXCEPT ![c] = NADIE]
  /\ CpuDevolver(c, [SinMensaje EXCEPT !.motivo = "MOTIVO_INTERRUPCION",
                                       !.pid = corre[c]])
  /\ UNCHANGED restantes

-----------------------------------------------------------------------------
(* atender_cliente of a CPU                                                *)

\* Handshake: the CPU enters lista_cpus, free, and its permit is posted.
Conectar(c) ==
  /\ pc[c] = "sin_conectar"
  /\ lista_cpus' = lista_cpus \cup {c}
  /\ Ir(c, "registrada")
  /\ UNCHANGED <<pcb_h, msg, ejecutando, procesos, colas, semaforos, largo, corto, io,
                 temps, km, cpu>>

PublicarCpu(c) ==
  /\ pc[c] = "registrada"
  /\ sem_cpus_libres' = sem_cpus_libres + 1
  /\ Ir(c, "recibir")
  /\ UNCHANGED <<pcb_h, msg, sem_procesos_new, sem_procesos_ready, sem_respuesta_memoria,
                 procesos, colas, cpus_ks, largo, corto, io, temps, km, cpu>>

\* The next message of CPU c is m and buscar_pcb_en_ejecucion finds its PCB.
Recibir(c, m, paso) ==
  /\ pc[c] = "recibir" /\ motivos[c] # <<>> /\ m = Head(motivos[c])
  /\ ejecutando[c] # NADIE
  /\ motivos' = [motivos EXCEPT ![c] = Tail(@)]
  /\ pcb_h' = [pcb_h EXCEPT ![c] = ejecutando[c]]
  /\ msg' = [msg EXCEPT ![c] = m]
  /\ Ir(c, paso)
  /\ UNCHANGED <<prioridad, proximo_pid, colas, semaforos, cpus_ks, largo, corto, io,
                 temps, km, despachos, corre, interrupcion, restantes, colgadas>>

RecibirExit(c) ==
  \E m \in Mensajes :
    /\ m.motivo = "MOTIVO_EXIT"
    /\ Recibir(c, m, "finalizar")
    /\ UNCHANGED estado

RecibirInterrupcion(c) ==
  \E m \in Mensajes :
    /\ m.motivo = "MOTIVO_INTERRUPCION"
    /\ Recibir(c, m, "ready_liberar")
    /\ estado' = [estado EXCEPT ![ejecutando[c]] = "READY"]

RecibirSleep(c) ==
  \E m \in Mensajes :
    /\ m.motivo = "MOTIVO_SYSCALL" /\ m.syscall = "S_SLEEP"
    /\ Recibir(c, m, "bloquear")
    /\ estado' = [estado EXCEPT ![ejecutando[c]] = "BLOCK"]

RecibirInitProc(c) ==
  \E m \in Mensajes :
    /\ m.motivo = "MOTIVO_SYSCALL" /\ m.syscall = "S_INIT_PROC"
    /\ Recibir(c, m, "pedir_carga")
    /\ UNCHANGED estado

\* The loop over lista_cpus that clears ocupada and pcb_ejecutando: the
\* same code in every handler, followed by a different tail.
LiberarCpu(c) ==
  /\ pc[c] \in {"exit_liberar", "block_liberar", "ready_liberar"}
  /\ ejecutando' = [ejecutando EXCEPT ![c] = NADIE]
  /\ Ir(c, CASE pc[c] = "exit_liberar"  -> "exit_post"
             [] pc[c] = "block_liberar" -> "block_post"
             [] pc[c] = "ready_liberar" -> "ready_post")
  /\ UNCHANGED <<pcb_h, msg, lista_cpus, procesos, colas, semaforos, largo, corto, io,
                 temps, km, cpu>>

\* The handler goes back to recibir_operacion; its locals are dead.
SoltarPcb(c) ==
  /\ pcb_h' = [pcb_h EXCEPT ![c] = NADIE]
  /\ msg' = [msg EXCEPT ![c] = SinMensaje]
  /\ Ir(c, "recibir")

\* enviar_finalizacion_proceso: send under mx_comunicacion_memoria, unlock,
\* and only then wait for an answer.
FinalizarEnKm(c) ==
  /\ pc[c] = "finalizar"
  /\ PedirKm("FINALIZAR_PROCESO", msg[c].pid)
  /\ Ir(c, "esperar_fin")
  /\ UNCHANGED <<pcb_h, msg, procesos, colas, semaforos, cpus_ks, largo, corto, io, temps,
                 ultima_respuesta_km, respuestas_km, km_procesos, en_swap, cpu>>

EsperarKm(c, desde, hacia) ==
  /\ pc[c] = desde /\ sem_respuesta_memoria > 0
  /\ sem_respuesta_memoria' = sem_respuesta_memoria - 1
  /\ Ir(c, hacia)
  /\ UNCHANGED <<pcb_h, msg, sem_procesos_new, sem_procesos_ready, sem_cpus_libres,
                 procesos, colas, cpus_ks, largo, corto, io, temps, km, cpu>>

EsperarFin(c) == EsperarKm(c, "esperar_fin", "exit_liberar")

TerminarProceso(c) ==
  /\ pc[c] = "exit_post"
  /\ estado' = [estado EXCEPT ![pcb_h[c]] = "EXIT"]
  /\ cola_exit' = cola_exit \cup {pcb_h[c]}
  /\ sem_cpus_libres' = sem_cpus_libres + 1
  /\ SoltarPcb(c)
  /\ UNCHANGED <<prioridad, proximo_pid, cola_new, colas_ready, cola_block, cola_susp,
                 sem_procesos_new, sem_procesos_ready, sem_respuesta_memoria,
                 cpus_ks, largo, corto, io, temps, km, cpu>>

\* S_SLEEP: into cola_block_sleep, and a suspension timer is started.
Bloquear(c) ==
  /\ pc[c] = "bloquear"
  /\ cola_block' = cola_block \cup {pcb_h[c]}
  /\ temporizadores' = [temporizadores EXCEPT ![pcb_h[c]] = @ + 1]
  /\ Ir(c, "block_liberar")
  /\ UNCHANGED <<pcb_h, msg, procesos, cola_new, colas_ready, cola_susp, cola_exit,
                 semaforos, cpus_ks, largo, corto, io, suspendiendo, por_avisar, km, cpu>>

\* Mutant: the handler and the helper it calls both post.
BloqueoPostDoble(c) ==
  /\ pc[c] = "block_post"
  /\ sem_cpus_libres' = sem_cpus_libres + 2
  /\ Ir(c, "block_io")
  /\ UNCHANGED <<pcb_h, msg, sem_procesos_new, sem_procesos_ready, sem_respuesta_memoria,
                 procesos, colas, cpus_ks, largo, corto, io, temps, km, cpu>>

BloqueoPost(c) ==
  /\ pc[c] = "block_post"
  /\ sem_cpus_libres' = sem_cpus_libres + 1
  /\ Ir(c, "block_io")
  /\ UNCHANGED <<pcb_h, msg, sem_procesos_new, sem_procesos_ready, sem_respuesta_memoria,
                 procesos, colas, cpus_ks, largo, corto, io, temps, km, cpu>>

\* socket_io_sleep is -1 until the device connects: the send is then lost.
PedirIo(c) ==
  /\ pc[c] = "block_io"
  /\ pedidos_io' = IF io_conectada THEN Append(pedidos_io, pcb_h[c]) ELSE pedidos_io
  /\ SoltarPcb(c)
  /\ UNCHANGED <<procesos, colas, semaforos, cpus_ks, largo, corto,
                 io_conectada, respuestas_io, pc_io, pcb_io, temps, km, cpu>>

\* S_INIT_PROC: proximo_pid is read here and incremented only after the
\* answer; msg.pid keeps nuevo_pid, the parent is in pcb_h.
PedirCarga(c) ==
  /\ pc[c] = "pedir_carga" /\ proximo_pid <= MaxPid
  /\ msg' = [msg EXCEPT ![c].pid = proximo_pid]
  /\ PedirKm("CARGA_PROCESO", proximo_pid)
  /\ Ir(c, "esperar_carga")
  /\ UNCHANGED <<pcb_h, procesos, colas, semaforos, cpus_ks, largo, corto, io, temps,
                 ultima_respuesta_km, respuestas_km, km_procesos, en_swap, cpu>>

EsperarCarga(c) == EsperarKm(c, "esperar_carga", "evaluar")

\* Mutant: proximo_pid is not incremented.
CrearSinReservar(c) ==
  /\ pc[c] = "evaluar" /\ ultima_respuesta_km = "OK"
  /\ proximo_pid' = proximo_pid
  /\ estado' = [estado EXCEPT ![msg[c].pid] = "NEW"]
  /\ prioridad' = [prioridad EXCEPT ![msg[c].pid] = msg[c].prio]
  /\ cola_new' = Append(cola_new, msg[c].pid)
  /\ sem_procesos_new' = sem_procesos_new + 1
  /\ Ir(c, "ready_liberar")
  /\ UNCHANGED <<pcb_h, msg, colas_ready, cola_block, cola_susp, cola_exit,
                 sem_procesos_ready, sem_cpus_libres, sem_respuesta_memoria,
                 cpus_ks, largo, corto, io, temps, km, cpu>>

CrearProceso(c) ==
  /\ pc[c] = "evaluar" /\ ultima_respuesta_km = "OK"
  /\ proximo_pid' = proximo_pid + 1
  /\ estado' = [estado EXCEPT ![msg[c].pid] = "NEW"]
  /\ prioridad' = [prioridad EXCEPT ![msg[c].pid] = msg[c].prio]
  /\ cola_new' = Append(cola_new, msg[c].pid)
  /\ sem_procesos_new' = sem_procesos_new + 1
  /\ Ir(c, "ready_liberar")
  /\ UNCHANGED <<pcb_h, msg, colas_ready, cola_block, cola_susp, cola_exit,
                 sem_procesos_ready, sem_cpus_libres, sem_respuesta_memoria,
                 cpus_ks, largo, corto, io, temps, km, cpu>>

RechazarProceso(c) ==
  /\ pc[c] = "evaluar" /\ ultima_respuesta_km # "OK"
  /\ Ir(c, "ready_liberar")
  /\ UNCHANGED <<pcb_h, msg, procesos, colas, semaforos, cpus_ks, largo, corto, io, temps,
                 km, cpu>>

\* Back to READY (INIT_PROC's parent, an interrupted process).
ReadyPost(c) ==
  /\ pc[c] = "ready_post"
  /\ sem_cpus_libres' = sem_cpus_libres + 1
  /\ estado' = [estado EXCEPT ![pcb_h[c]] = "READY"]
  /\ Ir(c, "ready_encolar")
  /\ UNCHANGED <<pcb_h, msg, prioridad, proximo_pid, colas, sem_procesos_new,
                 sem_procesos_ready, sem_respuesta_memoria, cpus_ks, largo, corto, io,
                 temps, km, cpu>>

ReadyEncolar(c) ==
  /\ pc[c] = "ready_encolar"
  /\ colas_ready' = ListaReadyCon(pcb_h[c])
  /\ Ir(c, "ready_avisar")
  /\ UNCHANGED <<pcb_h, msg, procesos, cola_new, cola_block, cola_susp, cola_exit,
                 semaforos, cpus_ks, largo, corto, io, temps, km, cpu>>

ReadyAvisar(c) ==
  /\ pc[c] = "ready_avisar"
  /\ sem_procesos_ready' = sem_procesos_ready + 1
  /\ SoltarPcb(c)
  /\ UNCHANGED <<sem_procesos_new, sem_cpus_libres, sem_respuesta_memoria,
                 procesos, colas, cpus_ks, largo, corto, io, temps, km, cpu>>

-----------------------------------------------------------------------------
(* The SLEEP device (io.c) and its atender_cliente.                        *)

ConectarIo ==
  /\ ~ io_conectada
  /\ io_conectada' = TRUE
  /\ UNCHANGED <<pedidos_io, respuestas_io, pc_io, pcb_io, procesos, colas, semaforos,
                 cpus_ks, largo, corto, hilos, temps, km, cpu>>

\* ejecutar_sleep_io: one request at a time, in order.
IoServir ==
  /\ pedidos_io # <<>>
  /\ respuestas_io' = Append(respuestas_io, Head(pedidos_io))
  /\ pedidos_io' = Tail(pedidos_io)
  /\ UNCHANGED <<io_conectada, pc_io, pcb_io, procesos, colas, semaforos, cpus_ks, largo,
                 corto, hilos, temps, km, cpu>>

\* Mutant: list_find without list_remove.
IoBuscarSinQuitar ==
  /\ pc_io = "recibir" /\ respuestas_io # <<>>
  /\ respuestas_io' = Tail(respuestas_io)
  /\ pcb_io' = Head(respuestas_io)
  /\ cola_block' = cola_block
  /\ pc_io' = IF Head(respuestas_io) \in cola_block THEN "encolar" ELSE "buscar_susp"
  /\ UNCHANGED <<io_conectada, pedidos_io, procesos, cola_new, colas_ready, cola_susp,
                 cola_exit, semaforos, cpus_ks, largo, corto, hilos, temps, km, cpu>>

\* SLEEP_RESPUESTA: look in cola_block_sleep, and only then, with its mutex
\* released, in cola_susp_block_sleep.
IoBuscarBlock ==
  /\ pc_io = "recibir" /\ respuestas_io # <<>>
  /\ respuestas_io' = Tail(respuestas_io)
  /\ pcb_io' = Head(respuestas_io)
  /\ cola_block' = cola_block \ {Head(respuestas_io)}
  /\ pc_io' = IF Head(respuestas_io) \in cola_block THEN "encolar" ELSE "buscar_susp"
  /\ UNCHANGED <<io_conectada, pedidos_io, procesos, cola_new, colas_ready, cola_susp,
                 cola_exit, semaforos, cpus_ks, largo, corto, hilos, temps, km, cpu>>

IoBuscarSusp ==
  /\ pc_io = "buscar_susp"
  /\ cola_susp' = cola_susp \ {pcb_io}
  /\ IF pcb_io \in cola_susp
       THEN pc_io' = "encolar" /\ pcb_io' = pcb_io
       ELSE pc_io' = "recibir" /\ pcb_io' = NADIE     \* the answer is dropped
  /\ UNCHANGED <<io_conectada, pedidos_io, respuestas_io, procesos, cola_new, colas_ready,
                 cola_block, cola_exit, semaforos, cpus_ks, largo, corto, hilos, temps,
                 km, cpu>>

IoEncolar ==
  /\ pc_io = "encolar"
  /\ estado' = [estado EXCEPT ![pcb_io] = "READY"]
  /\ colas_ready' = ListaReadyCon(pcb_io)
  /\ pc_io' = "avisar"
  /\ UNCHANGED <<io_conectada, pedidos_io, respuestas_io, pcb_io, prioridad, proximo_pid,
                 cola_new, cola_block, cola_susp, cola_exit, semaforos, cpus_ks, largo,
                 corto, hilos, temps, km, cpu>>

IoAvisar ==
  /\ pc_io = "avisar"
  /\ VerificarDesalojo(pcb_io)
  /\ sem_procesos_ready' = sem_procesos_ready + 1
  /\ pc_io' = "recibir" /\ pcb_io' = NADIE
  /\ UNCHANGED <<io_conectada, pedidos_io, respuestas_io, procesos, colas,
                 sem_procesos_new, sem_cpus_libres, sem_respuesta_memoria, cpus_ks, largo,
                 corto, hilos, temps, km, despachos, corre, motivos, restantes, colgadas>>

-----------------------------------------------------------------------------
(* hilo_temporizador_suspension: never cancelled, it looks for the pid in  *)
(* the BLOCK list whenever its usleep ends.                                *)

\* Mutant: the PCB is not removed from cola_block_sleep.
TimerSinQuitar(p) ==
  /\ ConSuspension /\ temporizadores[p] > 0
  /\ temporizadores' = [temporizadores EXCEPT ![p] = @ - 1]
  /\ cola_block' = cola_block
  /\ suspendiendo' = suspendiendo \cup (cola_block \cap {p})
  /\ UNCHANGED <<por_avisar, procesos, cola_new, colas_ready, cola_susp, cola_exit,
                 semaforos, cpus_ks, largo, corto, hilos, io, km, cpu>>

\* Mutant: the PCB is suspended wherever it is.
TimerSinMirar(p) ==
  /\ ConSuspension /\ temporizadores[p] > 0
  /\ temporizadores' = [temporizadores EXCEPT ![p] = @ - 1]
  /\ cola_block' = cola_block \ {p}
  /\ suspendiendo' = suspendiendo \cup {p}
  /\ UNCHANGED <<por_avisar, procesos, cola_new, colas_ready, cola_susp, cola_exit,
                 semaforos, cpus_ks, largo, corto, hilos, io, km, cpu>>

TimerRetirar(p) ==
  /\ ConSuspension /\ temporizadores[p] > 0
  /\ temporizadores' = [temporizadores EXCEPT ![p] = @ - 1]
  /\ cola_block' = cola_block \ {p}
  /\ suspendiendo' = suspendiendo \cup (cola_block \cap {p})
  /\ UNCHANGED <<por_avisar, procesos, cola_new, colas_ready, cola_susp, cola_exit,
                 semaforos, cpus_ks, largo, corto, hilos, io, km, cpu>>

TimerSuspender(p) ==
  /\ p \in suspendiendo
  /\ suspendiendo' = suspendiendo \ {p}
  /\ cola_susp' = cola_susp \cup {p}
  /\ estado' = [estado EXCEPT ![p] = "BLOCK"]
  /\ por_avisar' = [por_avisar EXCEPT ![p] = @ + 1]
  /\ UNCHANGED <<temporizadores, prioridad, proximo_pid, cola_new, colas_ready, cola_block,
                 cola_exit, semaforos, cpus_ks, largo, corto, hilos, io, km, cpu>>

TimerAvisarKm(p) ==
  /\ por_avisar[p] > 0
  /\ por_avisar' = [por_avisar EXCEPT ![p] = @ - 1]
  /\ PedirKm("SUSPENDER_PROCESO", p)
  /\ UNCHANGED <<temporizadores, suspendiendo, procesos, colas, semaforos, cpus_ks, largo,
                 corto, hilos, io, ultima_respuesta_km, respuestas_km, km_procesos,
                 en_swap, cpu>>

-----------------------------------------------------------------------------
(* Kernel Memory's thread for the scheduler, and escuchar_kernel_memory.   *)

\* cargar_proceso: a pid it already knows gets no answer at all.
KmCargar ==
  /\ pedidos_km # <<>> /\ Head(pedidos_km).op = "CARGA_PROCESO"
  /\ LET p == Head(pedidos_km).pid IN
       \/ /\ p \in km_procesos
          /\ UNCHANGED <<km_procesos, respuestas_km>>
       \/ /\ p \notin km_procesos
          /\ km_procesos' = km_procesos \cup {p}
          /\ respuestas_km' = Append(respuestas_km, "OK")
       \/ /\ Rechaza
          /\ respuestas_km' = Append(respuestas_km, "ERROR")
          /\ UNCHANGED km_procesos
  /\ pedidos_km' = Tail(pedidos_km)
  /\ UNCHANGED <<ultima_respuesta_km, en_swap, procesos, colas, semaforos, cpus_ks, largo,
                 corto, hilos, io, temps, cpu>>

\* finalizar_proceso: answers OK on every path.  The removal that it may
\* leave for actualizar_contexto is in ContextoKM.
KmFinalizar ==
  /\ pedidos_km # <<>> /\ Head(pedidos_km).op = "FINALIZAR_PROCESO"
  /\ km_procesos' = km_procesos \ {Head(pedidos_km).pid}
  /\ respuestas_km' = Append(respuestas_km, "OK")
  /\ pedidos_km' = Tail(pedidos_km)
  /\ UNCHANGED <<ultima_respuesta_km, en_swap, procesos, colas, semaforos, cpus_ks, largo,
                 corto, hilos, io, temps, cpu>>

\* suspender: no answer.  An unknown pid is a NULL dereference: Kernel
\* Memory is then dead, and the request stays at the head for ever.
KmSuspender ==
  /\ pedidos_km # <<>> /\ Head(pedidos_km).op = "SUSPENDER_PROCESO"
  /\ Head(pedidos_km).pid \in km_procesos
  /\ en_swap' = en_swap \cup {Head(pedidos_km).pid}
  /\ pedidos_km' = Tail(pedidos_km)
  /\ UNCHANGED <<ultima_respuesta_km, respuestas_km, km_procesos, procesos, colas,
                 semaforos, cpus_ks, largo, corto, hilos, io, temps, cpu>>

\* Mutant: the answer is stored and nobody is woken.
EscucharKmSinPost ==
  /\ respuestas_km # <<>>
  /\ ultima_respuesta_km' = Head(respuestas_km)
  /\ respuestas_km' = Tail(respuestas_km)
  /\ sem_respuesta_memoria' = sem_respuesta_memoria
  /\ UNCHANGED <<pedidos_km, km_procesos, en_swap, procesos, colas, sem_procesos_new,
                 sem_procesos_ready, sem_cpus_libres, cpus_ks, largo, corto, hilos, io,
                 temps, cpu>>

EscucharKm ==
  /\ respuestas_km # <<>>
  /\ ultima_respuesta_km' = Head(respuestas_km)
  /\ respuestas_km' = Tail(respuestas_km)
  /\ sem_respuesta_memoria' = sem_respuesta_memoria + 1
  /\ UNCHANGED <<pedidos_km, km_procesos, en_swap, procesos, colas, sem_procesos_new,
                 sem_procesos_ready, sem_cpus_libres, cpus_ks, largo, corto, hilos, io,
                 temps, cpu>>

-----------------------------------------------------------------------------
LargoPlazo == LargoEsperar \/ LargoSacar \/ LargoEncolar \/ LargoAvisar

CortoPlazo == CortoEsperarReady \/ CortoEsperarCpu \/ CortoSacar \/ CortoDespachar

Cpu(c) == CpuTomar(c) \/ CpuTerminar(c) \/ CpuSleep(c) \/ CpuInitProc(c) \/ CpuInterrumpir(c)

\* All of atender_cliente but MOTIVO_EXIT, which MutexKernel extends.
AtenderSinExit(c) ==
  \/ Conectar(c) \/ PublicarCpu(c)
  \/ RecibirInterrupcion(c) \/ RecibirSleep(c) \/ RecibirInitProc(c)
  \/ LiberarCpu(c)
  \/ FinalizarEnKm(c) \/ EsperarFin(c) \/ TerminarProceso(c)
  \/ Bloquear(c) \/ BloqueoPost(c) \/ PedirIo(c)
  \/ PedirCarga(c) \/ EsperarCarga(c) \/ CrearProceso(c) \/ RechazarProceso(c)
  \/ ReadyPost(c) \/ ReadyEncolar(c) \/ ReadyAvisar(c)

AtenderCpu(c) == RecibirExit(c) \/ AtenderSinExit(c)

AtenderIo == IoBuscarBlock \/ IoBuscarSusp \/ IoEncolar \/ IoAvisar

Temporizador(p) == TimerRetirar(p) \/ TimerSuspender(p) \/ TimerAvisarKm(p)

KernelMemory == KmCargar \/ KmFinalizar \/ KmSuspender

Next ==
  \/ LargoPlazo \/ CortoPlazo \/ AtenderIo \/ ConectarIo \/ IoServir
  \/ KernelMemory \/ EscucharKm
  \/ \E c \in Cpus : Cpu(c) \/ AtenderCpu(c)
  \/ \E p \in Pids : Temporizador(p)

Spec == Init /\ [][Next]_vars

\* Every thread that can take a step eventually does; scripts are assumed
\* to end (CpuTerminar, or their last system call).
Equidad ==
  /\ WF_vars(LargoPlazo) /\ WF_vars(CortoPlazo) /\ WF_vars(AtenderIo)
  /\ WF_vars(ConectarIo) /\ WF_vars(IoServir)
  /\ WF_vars(KernelMemory) /\ WF_vars(EscucharKm)
  /\ \A c \in Cpus : WF_vars(Cpu(c)) /\ WF_vars(AtenderCpu(c))
  /\ \A p \in Pids : WF_vars(TimerSuspender(p) \/ TimerAvisarKm(p))

FairSpec == Spec /\ Equidad

=============================================================================

-------------------------- MODULE PlanificadorInv --------------------------
(***************************************************************************)
(* Properties of Planificador.                                             *)
(***************************************************************************)
EXTENDS Planificador

(* Handlers that have freed their CPU, or registered it, and have not yet   *)
(* posted sem_cpus_libres.                                                  *)
PasosPorPublicar == {"registrada", "exit_post", "block_post", "ready_post"}
PorPublicar == {c \in Cpus : pc[c] \in PasosPorPublicar}

(* The entries of the READY lists, as <<level, position>>.                  *)
EntradasReady == UNION {{k} \X (1 .. Len(colas_ready[k])) : k \in Prioridades}

Si(b) == IF b THEN 1 ELSE 0

(* Every place where the PCB of p is held, as <<kind, which one>>.           *)
Lugares(p) ==
  {<<"new", i>> : i \in {j \in DOMAIN cola_new : cola_new[j] = p}}
  \cup {<<"ready", e>> : e \in {d \in EntradasReady : colas_ready[d[1]][d[2]] = p}}
  \cup {<<"block", x>> : x \in cola_block \cap {p}}
  \cup {<<"susp", x>> : x \in cola_susp \cap {p}}
  \cup {<<"exit", x>> : x \in cola_exit \cap {p}}
  \cup {<<"temporizador", x>> : x \in suspendiendo \cap {p}}
  \cup {<<"cpu", c>> : c \in {d \in Cpus : ejecutando[d] = p /\ pc[d] # "block_liberar"}}
  \cup {<<"saliente", c>> : c \in {d \in Cpus : pcb_h[d] = p /\ pc[d] = "exit_post"}}
  \cup {<<"devuelto", c>> :
          c \in {d \in Cpus : pcb_h[d] = p /\ pc[d] \in {"ready_post", "ready_encolar"}}}
  \cup {<<"largo", q>> : q \in {r \in {p} : pc_largo = "encolar" /\ pcb_largo = r}}
  \cup {<<"corto", q>> : q \in {r \in {p} : pc_corto = "despachar" /\ pcb_corto = r}}
  \cup {<<"io", q>> : q \in {r \in {p} : pc_io = "encolar" /\ pcb_io = r}}

-----------------------------------------------------------------------------
(* The types, by group of variables.  A thread that has taken a PCB keeps   *)
(* it in its local variable until it lets go of it.                         *)
TipoProcesos ==
  /\ estado \in [Pids -> Estados]
  /\ prioridad \in [Pids -> Prioridades]
  /\ proximo_pid \in Nat \ {0}

TipoColas ==
  /\ cola_new \in Seq(Pids)
  /\ colas_ready \in [Prioridades -> Seq(Pids)]
  /\ cola_block \subseteq Pids /\ cola_susp \subseteq Pids /\ cola_exit \subseteq Pids

TipoSemaforos ==
  /\ sem_procesos_new \in Nat /\ sem_procesos_ready \in Nat
  /\ sem_cpus_libres \in Nat /\ sem_respuesta_memoria \in Nat

TipoCpusKs ==
  /\ lista_cpus \subseteq Cpus
  /\ ejecutando \in [Cpus -> Pids \cup {NADIE}]

TipoLargo ==
  /\ pc_largo \in {"esperar", "sacar", "encolar", "avisar"}
  /\ pcb_largo \in IF pc_largo \in {"encolar", "avisar"} THEN Pids ELSE {NADIE}

TipoCorto ==
  /\ pc_corto \in {"esperar_ready", "esperar_cpu", "sacar", "despachar"}
  /\ pcb_corto \in IF pc_corto = "despachar" THEN Pids ELSE {NADIE}

\* The modules that add system calls add steps to P and messages to M.
TipoHilosEn(P, M) ==
  /\ pc \in [Cpus -> P]
  /\ pcb_h \in [Cpus -> Pids \cup {NADIE}]
  /\ \A c \in Cpus : pcb_h[c] = NADIE <=> pc[c] \in {"sin_conectar", "registrada", "recibir"}
  /\ msg \in [Cpus -> M]
TipoHilos == TipoHilosEn(PasosHilo, Mensajes)

TipoIo ==
  /\ io_conectada \in BOOLEAN
  /\ pedidos_io \in Seq(Pids) /\ respuestas_io \in Seq(Pids)
  /\ pc_io \in {"recibir", "buscar_susp", "encolar", "avisar"}
  /\ pcb_io \in IF pc_io = "recibir" THEN {NADIE} ELSE Pids

TipoTemps ==
  /\ temporizadores \in [Pids -> Nat]
  /\ suspendiendo \subseteq Pids
  /\ por_avisar \in [Pids -> Nat]

\* The requests O and the words W of the two sockets with Kernel Memory.
TipoKmEn(O, W) ==
  /\ ultima_respuesta_km \in {"OK", "ERROR"}
  /\ pedidos_km \in Seq(O)
  /\ respuestas_km \in Seq(W)
  /\ km_procesos \subseteq Pids /\ en_swap \subseteq Pids
TipoKm == TipoKmEn(PedidosKm, {"OK", "ERROR"})

\* pid_interrupcion is an int, whatever the socket brings.
TipoCpuEn(M) ==
  /\ despachos \in [Cpus -> Seq(Pids)]
  /\ corre \in [Cpus -> Pids \cup {NADIE}]
  /\ motivos \in [Cpus -> Seq(M)]
  /\ interrupcion \in [Cpus -> Nat \cup {NADIE}]
  /\ restantes \in [Pids -> Nat]
  /\ colgadas \subseteq Cpus
TipoCpu == TipoCpuEn(Mensajes)

TipoBaseEn(P, M) ==
  /\ TipoProcesos /\ TipoColas /\ TipoSemaforos /\ TipoCpusKs /\ TipoLargo /\ TipoCorto
  /\ TipoHilosEn(P, M) /\ TipoIo /\ TipoTemps /\ TipoCpuEn(M)
TipoBase == TipoBaseEn(PasosHilo, Mensajes) /\ TipoKm

(* TypeOK: every variable keeps the type of the C object it stands for, no  *)
(* thread works on a NULL PCB, and what a CPU is asked to interrupt is a    *)
(* process.                                                                 *)
TipoInterrupcion == interrupcion \in [Cpus -> Pids \cup {NADIE}]
TypeOK == TipoBase /\ TipoInterrupcion

PasosConCpu ==
  {"finalizar", "esperar_fin", "exit_liberar", "bloquear", "block_liberar",
   "pedir_carga", "esperar_carga", "evaluar", "ready_liberar"}

(* CpuDelHilo: until its handler frees it, a CPU stays marked as executing  *)
(* the PCB the handler took from it, whatever the other threads do.  Q are  *)
(* the steps of a handler before it frees the CPU.                          *)
CpuDelHiloEn(Q) ==
  \A c \in Cpus :
    /\ pc[c] \in Q => ejecutando[c] = pcb_h[c]
    /\ c \in lista_cpus <=> pc[c] # "sin_conectar"
    /\ c \notin lista_cpus => ejecutando[c] = NADIE
CpuDelHilo == CpuDelHiloEn(PasosConCpu)

(* UnSoloLugar: between any two steps of the threads, the PCB of every      *)
(* process that was created is held in exactly one place: one position of   *)
(* one list, one CPU, or the hands of one thread.  No PCB is lost, and none *)
(* is in two lists (list_add and list_remove of every handler).             *)
UnSoloLugar ==
  \A p \in Pids : Cardinality(Lugares(p)) = Si(estado[p] # "NO_CREADO")

(* PermisosCpu: sem_cpus_libres, the permit the short-term planner holds    *)
(* and the posts still to come add up to the CPUs with ocupada = 0.         *)
PermisosCpu ==
  sem_cpus_libres + Si(pc_corto \in {"sacar", "despachar"}) + Cardinality(PorPublicar)
    = Cardinality(CpusLibres)

(* HayCpuAlDespachar: the loop over lista_cpus in planificador_corto_plazo  *)
(* always finds a free CPU, so no dispatched PCB is dropped.                *)
HayCpuAlDespachar == pc_corto = "despachar" => CpusLibres # {}

(* PermisosReady: sem_procesos_ready, the permit in use and the posts still *)
(* to come add up to the PCBs in colas_ready; so the short-term planner     *)
(* never takes a PCB from READY when every level is empty, and dereferences *)
(* no NULL.                                                                 *)
PermisosReady ==
  sem_procesos_ready + Si(pc_corto \in {"esperar_cpu", "sacar"})
    + Si(pc_largo = "avisar") + Si(pc_io = "avisar")
    + Cardinality({c \in Cpus : pc[c] = "ready_avisar"})
    = Cardinality(EntradasReady)

(* MotivoDelQueEjecuta: the message a handler is about to read names the    *)
(* pid that buscar_pcb_en_ejecucion will find for that socket, so the       *)
(* motive of one process is never applied to another.                       *)
MotivoDelQueEjecuta ==
  \A c \in Cpus : motivos[c] # <<>> /\ pc[c] = "recibir"
                    => ejecutando[c] = Head(motivos[c]).pid

(* UnaCpuPorProceso: on the CPUs' side, no process runs on two of them.     *)
EnCpu(c) == {p \in Pids : p = corre[c] \/ \E i \in DOMAIN despachos[c] : despachos[c][i] = p}
UnaCpuPorProceso ==
  \A c, d \in Cpus : c # d => EnCpu(c) \cap EnCpu(d) = {}

(* TodosTerminan: with the device connected and no suspension, every        *)
(* process ever created reaches EXIT and every CPU's permit comes back.     *)
TodosTerminan ==
  <>[](/\ \A p \in Pids : estado[p] \in {"NO_CREADO", "EXIT"}
       /\ sem_cpus_libres = Cardinality(Cpus))

-----------------------------------------------------------------------------
(* The abstract life cycle.                                                 *)

FaseDe(p) ==
  CASE estado[p] = "NO_CREADO" -> "NO_CREADO"
    [] \E i \in DOMAIN cola_new : cola_new[i] = p -> "NEW"
    [] p \in cola_exit \/ \E c \in Cpus : pcb_h[c] = p /\ pc[c] = "exit_post" -> "EXIT"
    [] p \in cola_susp -> "SUSP_BLOCK"
    [] p \in cola_block \cup suspendiendo -> "BLOCK"
    [] \/ pcb_corto = p
       \/ \E c \in Cpus : ejecutando[c] = p /\ pc[c] # "block_liberar" -> "EXEC"
    [] OTHER -> "READY"

Abs == INSTANCE ProcesosAbs
         WITH NumCpus <- Cardinality(Cpus), fase <- [p \in Pids |-> FaseDe(p)]

(* CicloDeVida: every step of the threads is a legal move of one process in *)
(* the abstract life cycle, or no move at all.                              *)
CicloDeVida == Abs!AbsSpec

-----------------------------------------------------------------------------
(* Statements made by comments of kernel_scheduler.c.                       *)

(* SiNoEstabaEstaSuspendido: "Si no estaba, significa que sufrio timeout y  *)
(* est en cola_susp_block" (SLEEP_RESPUESTA).                               *)
SiNoEstabaEstaSuspendido == pc_io = "buscar_susp" => pcb_io \in cola_susp

Creacion(c) == Len(cola_new') > Len(cola_new) /\ pc[c] = "evaluar" /\ pc'[c] # "evaluar"

(* PidReservado: "Recien ahora el PID queda reservado de forma segura": the *)
(* pid given to a new PCB was not given to any other.                       *)
PidReservado ==
  [][\A c \in Cpus : Creacion(c) => estado[msg[c].pid] = "NO_CREADO"]_vars

(* CreadoPorKm: "SI LLEGO ACA ES PORQUE KM DEVOLVIO OK": a PCB is created   *)
(* only when Kernel Memory has created that pid.                            *)
CreadoPorKm ==
  [][\A c \in Cpus : Creacion(c) => msg[c].pid \in km_procesos]_vars

(* SuspendeSuTimer: "Esperamos el tiempo configurado antes de suspender":   *)
(* the timer that suspends a process is the only one pending for it; with   *)
(* two pending, the older one, of an earlier block, is the one that expires.*)
SuspendeSuTimer ==
  [][\A p \in Pids : p \in suspendiendo' \ suspendiendo => temporizadores[p] = 1]_vars

=============================================================================

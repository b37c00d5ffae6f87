--------------------------- MODULE Interrupciones ---------------------------
(***************************************************************************)
(* The interrupt channel, on top of Planificador: how the Kernel Scheduler *)
(* learns the interrupt socket of each CPU, who writes words in it         *)
(* (verificar_desalojo_por_prioridad and hilo_quantum), and the thread     *)
(* escuchar_interrupciones of the CPU, which reads words two by two.       *)
(*                                                                         *)
(* Planificador is instantiated with Desalojo = FALSE, which leaves out    *)
(* its interruptions that arrive whole and at once; interrupcion[c] is     *)
(* here hay_interrupcion and pid_interrupcion of CPU c, and only the words *)
(* of its socket change it.                                                *)
(***************************************************************************)
EXTENDS PlanificadorInv

CONSTANTS
  Algoritmos,    \* the values PLANIFICATION_ALGORITHM may have; CMN with preemption
  AceptaAntes    \* whether port 8003 accepts each CPU just before its handshake

FIN_QUANTUM == 30     \* its value in op_code

ASSUME InterrupcionesOK ==
  /\ Algoritmos \subseteq {"CMN", "RR"} /\ AceptaAntes \in BOOLEAN
  /\ Desalojo = FALSE
  /\ MaxPid < FIN_QUANTUM

VARIABLES
  algoritmo_actual,       \* read from the configuration, never changed
  sin_aceptar,            \* the connections to port 8003 that wait for accept
  conectadas,             \* the CPUs that have connected both sockets
  socket_cpu_interrupt,   \* the global of the scheduler: whose socket it is
  socket_interrupt,       \* the field of each t_cpu_info
  quantum_vigente, relojes_q,   \* the flag and the quantum threads of each CPU
  canal, media            \* words on the way to each CPU; one of a pair is read

puertos == <<sin_aceptar, conectadas, socket_cpu_interrupt, socket_interrupt>>
quantum == <<quantum_vigente, relojes_q>>
palabras == <<canal, media>>
Propias == <<algoritmo_actual, puertos, quantum, palabras>>
varsI == <<vars, Propias>>

InitI ==
  /\ Init
  /\ algoritmo_actual \in Algoritmos
  /\ sin_aceptar = <<>> /\ conectadas = {}
  /\ socket_cpu_interrupt = NADIE
  /\ socket_interrupt = [c \in Cpus |-> NADIE]
  /\ quantum_vigente = [c \in Cpus |-> FALSE] /\ relojes_q = [c \in Cpus |-> 0]
  /\ canal = [c \in Cpus |-> <<>>] /\ media = [c \in Cpus |-> FALSE]

\* send on the interrupt socket kept for c: -1 loses the words.
Escribir(c, ws) ==
  LET s == socket_interrupt[c]
  IN canal' = IF s = NADIE THEN canal ELSE [canal EXCEPT ![s] = @ \o ws]

-----------------------------------------------------------------------------
(* Connection: the CPU connects to both ports before it sends its type; a   *)
(* thread accepts port 8003 and overwrites one global, which the handshake  *)
(* of any CPU then copies.                                                  *)

CpuConectar(c) ==
  /\ c \notin conectadas
  /\ conectadas' = conectadas \cup {c}
  /\ sin_aceptar' = Append(sin_aceptar, c)
  /\ UNCHANGED <<vars, algoritmo_actual, socket_cpu_interrupt, socket_interrupt, quantum, palabras>>

AceptarInterrupt ==
  /\ sin_aceptar # <<>>
  /\ socket_cpu_interrupt' = Head(sin_aceptar)
  /\ sin_aceptar' = Tail(sin_aceptar)
  /\ UNCHANGED <<vars, algoritmo_actual, conectadas, socket_interrupt, quantum, palabras>>

Handshake(c) ==
  /\ c \in conectadas
  /\ AceptaAntes => socket_cpu_interrupt = c
  /\ Conectar(c)
  /\ socket_interrupt' = [socket_interrupt EXCEPT ![c] = socket_cpu_interrupt]
  /\ UNCHANGED <<algoritmo_actual, sin_aceptar, conectadas, socket_cpu_interrupt, quantum, palabras>>

-----------------------------------------------------------------------------
(* The writers.                                                             *)

\* Mutant: the interruption goes without its pid.
DesalojarSinPid(p) ==
  IF algoritmo_actual # "CMN" \/ Desalojables(p) = {}
    THEN UNCHANGED <<canal, quantum_vigente>>
    ELSE \E c \in Desalojables(p) :
           /\ Escribir(c, <<FIN_QUANTUM>>)
           /\ quantum_vigente' = [quantum_vigente EXCEPT ![c] = FALSE]

\* Mutant: the pid sent is that of the process that comes in.
DesalojarAlQueEntra(p) ==
  IF algoritmo_actual # "CMN" \/ Desalojables(p) = {}
    THEN UNCHANGED <<canal, quantum_vigente>>
    ELSE \E c \in Desalojables(p) :
           /\ Escribir(c, <<FIN_QUANTUM, p>>)
           /\ quantum_vigente' = [quantum_vigente EXCEPT ![c] = FALSE]

\* verificar_desalojo_por_prioridad: both words under mx_lista_cpus, to one
\* CPU, which may have been asked already.
DesalojarPorPrioridad(p) ==
  IF algoritmo_actual # "CMN" \/ Desalojables(p) = {}
    THEN UNCHANGED <<canal, quantum_vigente>>
    ELSE \E c \in Desalojables(p) :
           /\ Escribir(c, <<FIN_QUANTUM, ejecutando[c]>>)
           /\ quantum_vigente' = [quantum_vigente EXCEPT ![c] = FALSE]

LargoAvisarI ==
  /\ LargoAvisar /\ DesalojarPorPrioridad(pcb_largo)
  /\ UNCHANGED <<algoritmo_actual, puertos, relojes_q, media>>

IoAvisarI ==
  /\ IoAvisar /\ DesalojarPorPrioridad(pcb_io)
  /\ UNCHANGED <<algoritmo_actual, puertos, relojes_q, media>>

\* A dispatch with RR starts a thread that will look at this CPU's flag.
CortoDespacharI ==
  /\ CortoDespachar
  /\ IF algoritmo_actual = "RR"
       THEN LET D == {c \in Cpus : ejecutando'[c] # ejecutando[c]}
            IN /\ relojes_q' = [c \in Cpus |-> relojes_q[c] + Si(c \in D)]
               /\ quantum_vigente' = [c \in Cpus |-> quantum_vigente[c] \/ c \in D]
       ELSE UNCHANGED quantum
  /\ UNCHANGED <<algoritmo_actual, puertos, palabras>>

\* hilo_quantum: one word, without the pid.
HiloQuantum(c) ==
  /\ relojes_q[c] > 0
  /\ relojes_q' = [relojes_q EXCEPT ![c] = @ - 1]
  /\ IF quantum_vigente[c] THEN Escribir(c, <<FIN_QUANTUM>>) ELSE UNCHANGED canal
  /\ UNCHANGED <<vars, algoritmo_actual, puertos, quantum_vigente, media>>

\* The loop that frees the CPU also ends its quantum.
LiberarCpuI(c) ==
  /\ LiberarCpu(c)
  /\ quantum_vigente' = [quantum_vigente EXCEPT ![c] = FALSE]
  /\ UNCHANGED <<algoritmo_actual, puertos, relojes_q, palabras>>

-----------------------------------------------------------------------------
(* escuchar_interrupciones of the CPU: any word is a type, and the next one *)
(* is taken for a pid and replaces the one that was pending.                *)

LeerTipo(c) ==
  /\ ~ media[c] /\ canal[c] # <<>>
  /\ media' = [media EXCEPT ![c] = TRUE]
  /\ canal' = [canal EXCEPT ![c] = Tail(@)]
  /\ UNCHANGED <<vars, algoritmo_actual, puertos, quantum>>

LeerPid(c) ==
  /\ media[c] /\ canal[c] # <<>>
  /\ media' = [media EXCEPT ![c] = FALSE]
  /\ canal' = [canal EXCEPT ![c] = Tail(@)]
  /\ interrupcion' = [interrupcion EXCEPT ![c] = Head(canal[c])]
  /\ UNCHANGED <<procesos, colas, semaforos, cpus_ks, largo, corto, hilos, io, temps, km,
                 despachos, corre, motivos, restantes, colgadas,
                 algoritmo_actual, puertos, quantum>>

-----------------------------------------------------------------------------
LargoPlazoI ==
  \/ (LargoEsperar \/ LargoSacar \/ LargoEncolar) /\ UNCHANGED Propias
  \/ LargoAvisarI

CortoPlazoI ==
  \/ (CortoEsperarReady \/ CortoEsperarCpu \/ CortoSacar) /\ UNCHANGED Propias
  \/ CortoDespacharI

AtenderIoI ==
  \/ (IoBuscarBlock \/ IoBuscarSusp \/ IoEncolar) /\ UNCHANGED Propias
  \/ IoAvisarI

\* The handler of a CPU, past its handshake.
AtenderI(c) ==
  \/ LiberarCpuI(c)
  \/ /\ \/ PublicarCpu(c)
        \/ RecibirExit(c) \/ RecibirInterrupcion(c) \/ RecibirSleep(c) \/ RecibirInitProc(c)
        \/ FinalizarEnKm(c) \/ EsperarFin(c) \/ TerminarProceso(c)
        \/ Bloquear(c) \/ BloqueoPost(c) \/ PedirIo(c)
        \/ PedirCarga(c) \/ EsperarCarga(c) \/ CrearProceso(c)
        \/ ReadyPost(c) \/ ReadyEncolar(c) \/ ReadyAvisar(c)
     /\ UNCHANGED Propias

\* Mutant: each turn begins with hay_interrupcion = false.
CpuRevisarDesdeCero(c) ==
  /\ \/ CpuInterrumpir(c)
     \/ /\ corre[c] = NADIE /\ despachos[c] # <<>>
        /\ corre' = [corre EXCEPT ![c] = Head(despachos[c])]
        /\ despachos' = [despachos EXCEPT ![c] = Tail(@)]
        /\ interrupcion' = [interrupcion EXCEPT ![c] = NADIE]
        /\ UNCHANGED <<procesos, colas, semaforos, cpus_ks, largo, corto, hilos, io, temps,
                       km, motivos, restantes, colgadas>>
  /\ UNCHANGED Propias

\* The check for an interruption is made after every instruction, in a
\* script that loops as in one that ends.
CpuRevisar(c) == (CpuTomar(c) \/ CpuInterrumpir(c)) /\ UNCHANGED Propias

CpuSeguir(c) == (CpuTerminar(c) \/ CpuSleep(c) \/ CpuInitProc(c)) /\ UNCHANGED Propias

KmI == (KmCargar \/ KmFinalizar \/ EscucharKm) /\ UNCHANGED Propias

Puerto8003 == AceptarInterrupt \/ \E c \in Cpus : CpuConectar(c) \/ Handshake(c)

NextI ==
  \/ LargoPlazoI \/ CortoPlazoI \/ AtenderIoI \/ (IoServir /\ UNCHANGED Propias)
  \/ KmI \/ Puerto8003
  \/ \E c \in Cpus : \/ HiloQuantum(c) \/ LeerTipo(c) \/ LeerPid(c)
                     \/ AtenderI(c) \/ CpuRevisar(c) \/ CpuSeguir(c)

SpecI == InitI /\ [][NextI]_varsI

\* Threads keep going and timers expire; no script has to end, and none has
\* to make its next system call.
FairSpecI ==
  /\ SpecI
  /\ \A c \in Cpus : /\ WF_varsI(LeerTipo(c) \/ LeerPid(c)) /\ WF_varsI(CpuRevisar(c))
                     /\ WF_varsI(HiloQuantum(c))

-----------------------------------------------------------------------------
(* Properties.                                                              *)

\* The words on the way to CPU c, its half-read pair completed, and the pid
\* of the last interruption sent to it that it has not taken.
Enviadas(c) == (IF media[c] THEN <<FIN_QUANTUM>> ELSE <<>>) \o canal[c]
Ultima(c) == IF Enviadas(c) = <<>> THEN interrupcion[c] ELSE Enviadas(c)[Len(Enviadas(c))]

(* TipoInterrupciones: with CMN the reader of each socket is never out of   *)
(* step with its writers, whatever was read in the middle of a pair: what   *)
(* is on the way is a sequence of whole interruptions, each with the pid of *)
(* a process (the two sends of verificar_desalojo_por_prioridad, the two    *)
(* recv of escuchar_interrupciones).  With RR there are only lone words.     *)
TipoInterrupciones ==
  /\ TipoBase
  /\ algoritmo_actual = "CMN" =>
       /\ TipoInterrupcion
       /\ \A c \in Cpus :
            /\ Len(Enviadas(c)) % 2 = 0
            /\ \A i \in DOMAIN Enviadas(c) :
                 Enviadas(c)[i] \in IF i % 2 = 1 THEN {FIN_QUANTUM} ELSE Pids
  /\ algoritmo_actual = "RR" =>
       \A c \in Cpus : interrupcion[c] \in {NADIE, FIN_QUANTUM}

(* NoSePierde: the CPU keeps only the last interruption it read, and old    *)
(* ones for processes that have left it still arrive; but the last one sent *)
(* is never lost while the process it names is dispatched to that CPU or    *)
(* executes there: each later word of the socket, and each overwriting of   *)
(* pid_interrupcion, is about that process.                                  *)
NoSePierde ==
  [][\A c \in Cpus, p \in Pids :
       p \in EnCpu(c) /\ p \in EnCpu(c)' /\ Ultima(c) = p => Ultima(c)' = p]_varsI

(* NoCedeElMejor: the process that gives its CPU back interrupted is the    *)
(* one the scheduler believes to execute there, and never one of the best   *)
(* level, although the interruption may be old and meant for another turn.  *)
NoCedeElMejor ==
  [][\A c \in Cpus :
       interrupcion[c] # NADIE /\ interrupcion'[c] = NADIE
         => ejecutando[c] = corre[c] /\ prioridad[corre[c]] > 0]_varsI

(* Desaloja: a process that was asked to leave its CPU leaves it, even if   *)
(* its script never ends nor makes a system call again.                     *)
Desaloja ==
  \A c \in Cpus, p \in Pids : p \in EnCpu(c) /\ Ultima(c) = p ~> p \notin EnCpu(c)

(* SocketPropio: "Sincronizamos con el socket que acaba de aceptar el hilo  *)
(* de interrupciones": the socket kept for a CPU is the one that CPU reads. *)
SocketPropio == \A c \in lista_cpus : socket_interrupt[c] = c

(* SinFantasmas: "Matamos el quantum para que no tire interrupciones        *)
(* fantasma": the thread that interrupts is that of the last dispatch; with *)
(* several pending for a CPU the first to expire is an older one.            *)
SinFantasmas ==
  [][\A c \in Cpus :
       relojes_q'[c] < relojes_q[c] /\ canal' # canal => relojes_q[c] = 1]_varsI

(* FinDeQuantum: "Cuando se acaba el tiempo, mando senal de interrupcion a  *)
(* la CPU": with RR no process stays on its CPU for ever.                   *)
FinDeQuantum ==
  algoritmo_actual = "RR" => \A c \in Cpus, p \in Pids : corre[c] = p ~> corre[c] # p

=============================================================================

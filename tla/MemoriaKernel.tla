---------------------------- MODULE MemoriaKernel ----------------------------
(***************************************************************************)
(* The memory system calls and the STDIN and STDOUT devices of the Kernel  *)
(* Scheduler, on top of Planificador: S_MEM_ALLOC, S_MEM_FREE, S_STDIN,    *)
(* S_STDOUT, the answers of the two devices, their suspension timers, the  *)
(* words of Kernel Memory that escuchar_kernel_memory handles, and the     *)
(* stop of the planner during a compaction.                                *)
(*                                                                         *)
(* What Kernel Memory sends is a stream of words that three threads read:  *)
(* the listener, and a handler that waits for data under                   *)
(* mx_comunicacion_memoria.  A packet is its opcode followed by "CUERPO",   *)
(* or by its words where they matter; whoever is in recv may get the next  *)
(* one.  A reader that expects a body and finds an opcode takes it for a   *)
(* length: it goes on with garbage, or keeps reading.                      *)
(***************************************************************************)
EXTENDS PlanificadorInv, Functions

CONSTANTS
  Llamadas,           \* the system calls the scripts contain
  MaxCompactaciones,  \* bound: how many requests find scattered free memory
  MaxSticks           \* bound: how many memory sticks connect meanwhile

CERRADA == MaxPid + 1      \* in km_espera: Kernel Memory has left the socket
Clases == {"stdin", "stdout", "memoria"}    \* BLOQ_STDIN, BLOQ_STDOUT, BLOQ_MEMORIA
Dispositivos == {"stdin", "stdout"}

\* "S_STDIN_0" is an S_STDIN of 0 bytes.
ASSUME LlamadasOK ==
  /\ Llamadas \subseteq {"S_STDIN", "S_STDIN_0", "S_STDOUT", "S_MEM_ALLOC", "S_MEM_FREE"}
  /\ MaxCompactaciones \in Nat /\ MaxSticks \in Nat
  /\ NADIE # "stdin" /\ Cpus \cap {"stdin", NADIE} = {}     \* owners of the mutex

ClaseDe(s) == CASE s = "S_STDIN" -> "stdin" [] s = "S_STDOUT" -> "stdout"
                [] s = "S_MEM_ALLOC" -> "memoria"

VARIABLES
  block, susp,            \* cola_block_<class>, cola_susp_block_<class>
  relojes, retirados,     \* the timers pending, and the PCBs one has taken
  mx_comunicacion_memoria,
  cuerpos,                \* whose data each "CUERPO" of the stream carries
  pc_km,                  \* escuchar_kernel_memory
  compactacion_en_progreso, reviso,
  km_espera,              \* Kernel Memory waits for the confirmation of this pid's compaction
  compactaciones, sticks,
  pedidos_d, respuestas_d, pc_d, pcb_d   \* the devices and their atender_cliente

bloqueos == <<block, susp, relojes, retirados>>
flujo == <<mx_comunicacion_memoria, cuerpos, pc_km>>
compactar == <<compactacion_en_progreso, reviso, km_espera, compactaciones, sticks>>
dispositivos == <<pedidos_d, respuestas_d, pc_d, pcb_d>>
propias == <<bloqueos, flujo, compactar, dispositivos>>
varsK == <<vars, propias>>

InitK ==
  /\ Init
  /\ block = [k \in Clases |-> <<>>] /\ susp = [k \in Clases |-> <<>>]
  /\ relojes = [k \in Clases |-> [p \in Pids |-> 0]] /\ retirados = [k \in Clases |-> {}]
  /\ mx_comunicacion_memoria = NADIE /\ cuerpos = <<>> /\ pc_km = "recibir"
  /\ compactacion_en_progreso = FALSE /\ reviso = FALSE
  /\ km_espera = NADIE /\ compactaciones = 0 /\ sticks = 0
  /\ pedidos_d = [d \in Dispositivos |-> <<>>] /\ respuestas_d = [d \in Dispositivos |-> <<>>]
  /\ pc_d = [d \in Dispositivos |-> "recibir"] /\ pcb_d = [d \in Dispositivos |-> NADIE]

-----------------------------------------------------------------------------
(* Helpers.                                                                 *)

EnLista(p, s) == \E i \in DOMAIN s : s[i] = p

\* Mutant: list_get for list_remove.
QuitarNada(p, s) == s

\* list_remove of the first entry with that pid.
Quitar(p, s) ==
  IF EnLista(p, s)
    THEN LET i == CHOOSE j \in DOMAIN s : s[j] = p /\ \A h \in 1 .. j - 1 : s[h] # p
         IN SubSeq(s, 1, i - 1) \o SubSeq(s, i + 1, Len(s))
    ELSE s

\* Mutant: the lock is not waited for.
TomarSinEsperar(quien) == mx_comunicacion_memoria' = quien

\* pthread_mutex_lock(&mx_comunicacion_memoria), kept across steps.
Tomar(quien) == mx_comunicacion_memoria = NADIE /\ mx_comunicacion_memoria' = quien

ResponderKm(ws) == respuestas_km' = respuestas_km \o ws
HayPalabra == respuestas_km # <<>>
Palabra == Head(respuestas_km)

\* recv of the next word; the body of a packet goes with its last word.
TomarPalabra ==
  /\ HayPalabra
  /\ respuestas_km' = Tail(respuestas_km)
  /\ cuerpos' = IF Palabra = "CUERPO" THEN Tail(cuerpos) ELSE cuerpos
  /\ UNCHANGED <<ultima_respuesta_km, pedidos_km, km_procesos, en_swap>>

SoloKm == UNCHANGED <<procesos, colas, semaforos, cpus_ks, largo, corto, io, temps, cpu>>
PedirSolo(op, p) ==
  PedirKm(op, p) /\ UNCHANGED <<ultima_respuesta_km, respuestas_km, km_procesos, en_swap>>
SoloKmQueda == UNCHANGED <<ultima_respuesta_km, km_procesos, en_swap>>

-----------------------------------------------------------------------------
(* The CPU issues the calls; atender_cliente receives them.                 *)

CpuMemoria(c) == \E s \in Llamadas : CpuPedir(c, s, 0) /\ UNCHANGED propias

RecibirLlamada(c, s, paso) ==
  /\ motivos[c] # <<>> /\ Head(motivos[c]).syscall = s
  /\ Recibir(c, Head(motivos[c]), paso)
  /\ UNCHANGED propias

RecibirBloqueante(c) ==
  \E s \in {"S_STDIN", "S_STDOUT", "S_MEM_ALLOC"} :
    /\ RecibirLlamada(c, s, "bloquear_en")
    /\ estado' = [estado EXCEPT ![ejecutando[c]] = "BLOCK"]

RecibirMemFree(c) == RecibirLlamada(c, "S_MEM_FREE", "mem_free") /\ UNCHANGED estado

\* buscar_pcb_en_ejecucion finds NULL, or the call is an S_STDIN of 0 bytes:
\* the message is consumed and nothing else happens, so in the second case
\* the CPU stays taken by a process that it no longer runs.
RecibirYNada(c) ==
  /\ pc[c] = "recibir" /\ motivos[c] # <<>>
  /\ ejecutando[c] = NADIE \/ Head(motivos[c]).syscall = "S_STDIN_0"
  /\ motivos' = [motivos EXCEPT ![c] = Tail(@)]
  /\ UNCHANGED <<procesos, colas, semaforos, cpus_ks, largo, corto, hilos, io, temps, km,
                 despachos, corre, interrupcion, restantes, colgadas, propias>>

\* Into the BLOCK list of the call, with a suspension timer.
BloquearEn(c) ==
  /\ pc[c] = "bloquear_en"
  /\ LET k == ClaseDe(msg[c].syscall)
         p == pcb_h[c] IN
       /\ block' = [block EXCEPT ![k] = Append(@, p)]
       /\ relojes' = [relojes EXCEPT ![k][p] = @ + 1]
  /\ Ir(c, "block_liberar")
  /\ UNCHANGED <<pcb_h, msg, procesos, colas, semaforos, cpus_ks, largo, corto, io, temps,
                 km, cpu, susp, retirados, flujo, compactar, dispositivos>>

\* From here on the CPU has been freed and its permit posted.
MemAllocPedir(c) ==
  /\ pc[c] = "block_io" /\ msg[c].syscall = "S_MEM_ALLOC"
  /\ mx_comunicacion_memoria = NADIE
  /\ PedirSolo("CREAR_SEGMENTO", pcb_h[c])
  /\ SoltarPcb(c)
  /\ SoloKm /\ UNCHANGED propias

StdinPedir(c) ==
  /\ pc[c] = "block_io" /\ msg[c].syscall = "S_STDIN"
  /\ pedidos_d' = [pedidos_d EXCEPT !["stdin"] = Append(@, [pid |-> pcb_h[c], dato |-> NADIE])]
  /\ SoltarPcb(c)
  /\ SoloKm /\ UNCHANGED <<km, bloqueos, flujo, compactar, respuestas_d, pc_d, pcb_d>>

\* The mutex is kept until the answer.
StdoutPedir(c) ==
  /\ pc[c] = "block_io" /\ msg[c].syscall = "S_STDOUT"
  /\ Tomar(c)
  /\ PedirSolo("SOLICITUD_LECTURA", pcb_h[c])
  /\ Ir(c, "leer_op")
  /\ SoloKm /\ UNCHANGED <<pcb_h, msg, bloqueos, cuerpos, pc_km, compactar, dispositivos>>

StdoutCodigo(c) ==
  /\ pc[c] = "leer_op" /\ TomarPalabra
  /\ IF Palabra = "RESPUESTA_LECTURA"
       THEN Ir(c, "leer_cuerpo") /\ UNCHANGED <<pcb_h, msg, mx_comunicacion_memoria>>
       ELSE SoltarPcb(c) /\ mx_comunicacion_memoria' = NADIE      \* "Error leyendo memoria"
  /\ SoloKm /\ UNCHANGED <<bloqueos, pc_km, compactar, dispositivos>>

Imprimir(c, dato) ==
  /\ pedidos_d' = [pedidos_d EXCEPT !["stdout"] = Append(@, [pid |-> pcb_h[c], dato |-> dato])]
  /\ SoltarPcb(c) /\ mx_comunicacion_memoria' = NADIE

StdoutDatos(c) ==
  /\ pc[c] = "leer_cuerpo" /\ TomarPalabra
  /\ IF Palabra = "CUERPO"
       THEN Imprimir(c, Head(cuerpos))
       ELSE \/ Imprimir(c, NADIE)                                 \* garbage
            \/ UNCHANGED <<pedidos_d, hilos, mx_comunicacion_memoria>>
  /\ SoloKm /\ UNCHANGED <<bloqueos, pc_km, compactar, respuestas_d, pc_d, pcb_d>>

\* S_MEM_FREE asks without waiting for the answer, and the process goes
\* back to READY.
MemFreePedir(c) ==
  /\ pc[c] = "mem_free" /\ mx_comunicacion_memoria = NADIE
  /\ PedirSolo("ELIMINAR_SEGMENTO", pcb_h[c])
  /\ Ir(c, "ready_liberar")
  /\ SoloKm /\ UNCHANGED <<pcb_h, msg, propias>>

AtenderMemoria(c) ==
  \/ RecibirBloqueante(c) \/ RecibirMemFree(c) \/ RecibirYNada(c)
  \/ BloquearEn(c) \/ MemAllocPedir(c) \/ StdinPedir(c)
  \/ StdoutPedir(c) \/ StdoutCodigo(c) \/ StdoutDatos(c) \/ MemFreePedir(c)

-----------------------------------------------------------------------------
(* io.c serves one request at a time; atender_cliente of each device takes  *)
(* the answer (STDIN_RESPUESTA, STDOUT_RESPUESTA).                          *)

SinPlan ==
  UNCHANGED <<procesos, colas, semaforos, cpus_ks, largo, corto, hilos, io, temps, cpu>>

Servir(d) ==
  /\ pedidos_d[d] # <<>>
  /\ respuestas_d' = [respuestas_d EXCEPT ![d] = Append(@, Head(pedidos_d[d]).pid)]
  /\ pedidos_d' = [pedidos_d EXCEPT ![d] = Tail(@)]
  /\ SinPlan /\ UNCHANGED <<km, bloqueos, flujo, compactar, pc_d, pcb_d>>

\* STDIN writes what was typed before the process goes to READY.
TrasEncontrar(d) == IF d = "stdin" THEN "escribir" ELSE "encolar"

BuscarBlock(d) ==
  /\ pc_d[d] = "recibir" /\ respuestas_d[d] # <<>>
  /\ LET p == Head(respuestas_d[d]) IN
       /\ block' = [block EXCEPT ![d] = Quitar(p, @)]
       /\ pcb_d' = [pcb_d EXCEPT ![d] = p]
       /\ pc_d' = [pc_d EXCEPT ![d] =
                     IF EnLista(p, block[d]) THEN TrasEncontrar(d) ELSE "buscar_susp"]
  /\ respuestas_d' = [respuestas_d EXCEPT ![d] = Tail(@)]
  /\ SinPlan /\ UNCHANGED <<km, susp, relojes, retirados, flujo, compactar, pedidos_d>>

BuscarSusp(d) ==
  /\ pc_d[d] = "buscar_susp"
  /\ LET esta == EnLista(pcb_d[d], susp[d]) IN
       /\ pc_d' = [pc_d EXCEPT ![d] = IF esta THEN TrasEncontrar(d) ELSE "recibir"]
       /\ pcb_d' = [pcb_d EXCEPT ![d] = IF esta THEN @ ELSE NADIE]
  /\ susp' = [susp EXCEPT ![d] = Quitar(pcb_d[d], @)]
  /\ SinPlan /\ UNCHANGED <<km, block, relojes, retirados, flujo, compactar, pedidos_d,
                            respuestas_d>>

StdinEscribir ==
  /\ pc_d["stdin"] = "escribir" /\ Tomar("stdin")
  /\ PedirSolo("SOLICITUD_ESCRITURA", pcb_d["stdin"])
  /\ pc_d' = [pc_d EXCEPT !["stdin"] = "confirmar"]
  /\ SinPlan /\ UNCHANGED <<bloqueos, cuerpos, pc_km, compactar, pedidos_d, respuestas_d, pcb_d>>

\* One word is read, whatever it is; the rest of the answer stays in the stream.
StdinConfirmar ==
  /\ pc_d["stdin"] = "confirmar" /\ TomarPalabra
  /\ mx_comunicacion_memoria' = NADIE
  /\ pc_d' = [pc_d EXCEPT !["stdin"] = "encolar"]
  /\ SinPlan /\ UNCHANGED <<bloqueos, pc_km, compactar, pedidos_d, respuestas_d, pcb_d>>

Encolar(d) ==
  /\ pc_d[d] = "encolar"
  /\ estado' = [estado EXCEPT ![pcb_d[d]] = "READY"]
  /\ colas_ready' = ListaReadyCon(pcb_d[d])
  /\ pc_d' = [pc_d EXCEPT ![d] = "avisar"]
  /\ UNCHANGED <<prioridad, proximo_pid, cola_new, cola_block, cola_susp, cola_exit,
                 semaforos, cpus_ks, largo, corto, hilos, io, temps, km, cpu, bloqueos,
                 flujo, compactar, pedidos_d, respuestas_d, pcb_d>>

Avisar(d) ==
  /\ pc_d[d] = "avisar"
  /\ VerificarDesalojo(pcb_d[d])
  /\ sem_procesos_ready' = sem_procesos_ready + 1
  /\ pc_d' = [pc_d EXCEPT ![d] = "recibir"] /\ pcb_d' = [pcb_d EXCEPT ![d] = NADIE]
  /\ UNCHANGED <<procesos, colas, sem_procesos_new, sem_cpus_libres, sem_respuesta_memoria,
                 cpus_ks, largo, corto, hilos, io, temps, km, despachos, corre, motivos,
                 restantes, colgadas, bloqueos, flujo, compactar, pedidos_d, respuestas_d>>

Dispositivo ==
  \/ \E d \in Dispositivos :
       Servir(d) \/ BuscarBlock(d) \/ BuscarSusp(d) \/ Encolar(d) \/ Avisar(d)
  \/ StdinEscribir \/ StdinConfirmar

-----------------------------------------------------------------------------
(* hilo_temporizador_suspension for the three kinds of block.               *)

\* Mutant: the PCB is suspended wherever it is.
AlcanzadosSinMirar(k, p) == {p}

Alcanzados(k, p) == {q \in {p} : EnLista(q, block[k])}

RetirarDe(k, p) ==
  /\ ConSuspension /\ relojes[k][p] > 0
  /\ relojes' = [relojes EXCEPT ![k][p] = @ - 1]
  /\ block' = [block EXCEPT ![k] = Quitar(p, @)]
  /\ retirados' = [retirados EXCEPT ![k] = @ \cup Alcanzados(k, p)]
  /\ SinPlan /\ UNCHANGED <<km, susp, flujo, compactar, dispositivos>>

\* Mutant: every kind of block shares the list of STDIN.
ListaSuspUnica(k) == "stdin"

\* The switch that gives each kind of block its own cola_susp.
ListaSusp(k) == k

SuspenderEn(k, p) ==
  /\ p \in retirados[k]
  /\ retirados' = [retirados EXCEPT ![k] = @ \ {p}]
  /\ susp' = [susp EXCEPT ![ListaSusp(k)] = Append(@, p)]
  /\ estado' = [estado EXCEPT ![p] = "BLOCK"]
  /\ por_avisar' = [por_avisar EXCEPT ![p] = @ + 1]
  /\ UNCHANGED <<prioridad, proximo_pid, colas, semaforos, cpus_ks, largo, corto, hilos, io,
                 temporizadores, suspendiendo, km, cpu, block, relojes, flujo, compactar,
                 dispositivos>>

Reloj(p) ==
  \/ \E k \in Clases : RetirarDe(k, p) \/ SuspenderEn(k, p)
  \/ TimerAvisarKm(p) /\ UNCHANGED propias

-----------------------------------------------------------------------------
(* Kernel Memory's thread for the scheduler.  Which answer a request gets   *)
(* depends on its memory (Segmentos); here any of them may come.            *)

Pedido(op) == km_espera = NADIE /\ pedidos_km # <<>> /\ Head(pedidos_km).op = op
ConRespuesta(ws, cs) ==
  /\ ResponderKm(ws) /\ cuerpos' = cuerpos \o cs
  /\ pedidos_km' = Tail(pedidos_km)
  /\ SoloKmQueda

KmCrearSegmento ==
  /\ Pedido("CREAR_SEGMENTO")
  /\ LET p == Head(pedidos_km).pid IN
       \/ /\ \E w \in {"SEGMENTO_CREADO_CORRECTAMENTE", "ERROR_CREACION_SEGMENTO"} :
               ConRespuesta(<<w, "CUERPO">>, <<p>>)
          /\ UNCHANGED compactar
       \/ /\ compactaciones < MaxCompactaciones
          /\ ConRespuesta(<<"AVISO_COMPACTACION">>, <<>>)
          /\ km_espera' = p /\ compactaciones' = compactaciones + 1
          /\ UNCHANGED <<compactacion_en_progreso, reviso, sticks>>
  /\ SinPlan /\ UNCHANGED <<bloqueos, mx_comunicacion_memoria, pc_km, dispositivos>>

\* One word of what the scheduler sends next, whatever it is; then the
\* compaction makes room.  If it was the opcode of a request, the rest of
\* that packet is read as opcodes: an unknown one closes the socket, and the
\* scheduler ends when its listener finds it closed.
KmConfirmada ==
  /\ km_espera \in Pids /\ pedidos_km # <<>>
  /\ ConRespuesta(<<"SEGMENTO_CREADO_CORRECTAMENTE", "CUERPO">>, <<km_espera>>)
  /\ km_espera' = IF Head(pedidos_km).op = "OK" THEN NADIE ELSE CERRADA
  /\ SinPlan /\ UNCHANGED <<bloqueos, mx_comunicacion_memoria, pc_km, compactacion_en_progreso,
                            reviso, compactaciones, sticks, dispositivos>>

\* eliminar_segmento: OK, or nothing if the process has no such segment.
KmEliminarSegmento ==
  /\ Pedido("ELIMINAR_SEGMENTO")
  /\ \E ws \in {<<"OK">>, <<>>} : ConRespuesta(ws, <<>>)
  /\ SinPlan /\ UNCHANGED <<bloqueos, mx_comunicacion_memoria, pc_km, compactar, dispositivos>>

\* lectura, escritura: nothing on their error paths.  The body of
\* RESPUESTA_ESCRITURA is a length, a length and the word OK.
KmLectura ==
  /\ Pedido("SOLICITUD_LECTURA")
  /\ \/ ConRespuesta(<<"RESPUESTA_LECTURA", "CUERPO">>, <<Head(pedidos_km).pid>>)
     \/ ConRespuesta(<<>>, <<>>)
  /\ SinPlan /\ UNCHANGED <<bloqueos, mx_comunicacion_memoria, pc_km, compactar, dispositivos>>

KmEscritura ==
  /\ Pedido("SOLICITUD_ESCRITURA")
  /\ \E ws \in {<<"RESPUESTA_ESCRITURA", "LARGO", "LARGO", "OK">>, <<>>} :
       ConRespuesta(ws, <<>>)
  /\ SinPlan /\ UNCHANGED <<bloqueos, mx_comunicacion_memoria, pc_km, compactar, dispositivos>>

\* The thread of a stick that connects writes in the same socket.
KmStickNuevo ==
  /\ sticks < MaxSticks /\ sticks' = sticks + 1
  /\ ResponderKm(<<"NUEVO_MEMORY_STICK">>)
  /\ SinPlan /\ SoloKmQueda
  /\ UNCHANGED <<pedidos_km, bloqueos, flujo, compactacion_en_progreso, reviso, km_espera,
                 compactaciones, dispositivos>>

KmMemoria ==
  \/ KmCrearSegmento \/ KmConfirmada \/ KmEliminarSegmento \/ KmLectura \/ KmEscritura
  \/ KmStickNuevo
  \/ km_espera = NADIE /\ KernelMemory /\ UNCHANGED propias

-----------------------------------------------------------------------------
(* escuchar_kernel_memory.                                                  *)

ConCuerpo == {"SEGMENTO_CREADO_CORRECTAMENTE", "ERROR_CREACION_SEGMENTO"}
Conocidas == ConCuerpo \cup {"OK", "ERROR", "AVISO_COMPACTACION"}

EscucharRespuesta ==
  /\ pc_km = "recibir" /\ HayPalabra /\ Palabra \in {"OK", "ERROR"}
  /\ EscucharKm /\ UNCHANGED propias

EscucharPaquete ==
  /\ pc_km = "recibir" /\ HayPalabra /\ Palabra \in ConCuerpo
  /\ TomarPalabra /\ pc_km' = "cuerpo"
  /\ SinPlan /\ UNCHANGED <<bloqueos, mx_comunicacion_memoria, compactar, dispositivos>>

\* The pid is looked for in cola_block, which no handler fills: nothing
\* else happens, in the two cases.
EscucharCuerpo ==
  /\ pc_km = "cuerpo" /\ TomarPalabra
  /\ pc_km' \in (IF Palabra = "CUERPO" THEN {"recibir"} ELSE {"recibir", "cuerpo"})
  /\ SinPlan /\ UNCHANGED <<bloqueos, mx_comunicacion_memoria, compactar, dispositivos>>

\* default: "Mensaje desconocido de KM".  NUEVO_MEMORY_STICK looks for
\* somebody to bring back in cola_susp_block, which nothing fills.
EscucharDesconocida ==
  /\ pc_km = "recibir" /\ HayPalabra /\ Palabra \notin Conocidas
  /\ TomarPalabra /\ UNCHANGED pc_km
  /\ SinPlan /\ UNCHANGED <<bloqueos, mx_comunicacion_memoria, compactar, dispositivos>>

EscucharAviso ==
  /\ pc_km = "recibir" /\ HayPalabra /\ Palabra = "AVISO_COMPACTACION"
  /\ TomarPalabra /\ pc_km' = "desalojar"
  /\ compactacion_en_progreso' = TRUE
  /\ SinPlan /\ UNCHANGED <<bloqueos, mx_comunicacion_memoria, reviso, km_espera,
                            compactaciones, sticks, dispositivos>>

Ocupadas == {c \in lista_cpus : ejecutando[c] # NADIE}

PorNivel(k) == {c \in Ocupadas : prioridad[ejecutando[c]] = k}
Ordenes(S) == Bijection(1 .. Cardinality(S), S)

\* The loop under mx_lista_cpus, in the order of lista_cpus, which is left
\* open: every process that executes goes to the front of its READY list and
\* its CPU is marked free.  The word sent to the interrupt socket is half of
\* what a CPU reads: it does not stop (see Interrupciones).  The confirmation
\* goes without the mutex.
DesalojarCon(posts) ==
  /\ pc_km = "desalojar"
  /\ \E g \in [Prioridades -> UNION {Ordenes(PorNivel(k)) : k \in Prioridades}] :
       /\ \A k \in Prioridades : g[k] \in Ordenes(PorNivel(k))
       /\ colas_ready' = [k \in Prioridades |->
            [i \in DOMAIN g[k] |-> ejecutando[g[k][i]]] \o colas_ready[k]]
  /\ estado' = [p \in Pids |->
                  IF \E c \in Ocupadas : ejecutando[c] = p THEN "READY" ELSE estado[p]]
  /\ ejecutando' = [c \in Cpus |-> NADIE]
  /\ sem_cpus_libres' = sem_cpus_libres + Cardinality(Ocupadas)
  /\ sem_procesos_ready' = sem_procesos_ready + posts
  /\ PedirSolo("OK", 0)
  /\ pc_km' = "recibir"
  /\ UNCHANGED <<prioridad, proximo_pid, cola_new, cola_block, cola_susp, cola_exit,
                 sem_procesos_new, sem_respuesta_memoria, lista_cpus, largo, corto, hilos,
                 io, temps, cpu, bloqueos, mx_comunicacion_memoria, cuerpos, compactar,
                 dispositivos>>

\* Mutant: one post for the whole loop.
DesalojarUnPost == DesalojarCon(1)

AvisoDesalojar == DesalojarCon(Cardinality(Ocupadas))

Escuchar ==
  \/ EscucharRespuesta \/ EscucharPaquete \/ EscucharCuerpo \/ EscucharDesconocida
  \/ EscucharAviso \/ AvisoDesalojar

-----------------------------------------------------------------------------
(* planificador_corto_plazo looks at compactacion_en_progreso once per turn,*)
(* before it waits.                                                         *)

CortoRevisar ==
  /\ pc_corto = "esperar_ready" /\ ~ reviso /\ ~ compactacion_en_progreso
  /\ reviso' = TRUE
  /\ UNCHANGED <<vars, bloqueos, flujo, compactacion_en_progreso, km_espera, compactaciones,
                 sticks, dispositivos>>

CortoTurno ==
  /\ reviso /\ CortoPlazo
  /\ reviso' = (pc_corto' # "esperar_ready")
  /\ UNCHANGED <<bloqueos, flujo, compactacion_en_progreso, km_espera, compactaciones,
                 sticks, dispositivos>>

\* The handlers of Planificador; those that send to Kernel Memory take the
\* mutex.
AtenderComun(c) ==
  /\ pc[c] \in {"finalizar", "pedir_carga"} => mx_comunicacion_memoria = NADIE
  /\ pc[c] = "block_io" => msg[c].syscall = "S_SLEEP"
  /\ AtenderCpu(c) /\ UNCHANGED propias

NextK ==
  \/ (LargoPlazo /\ UNCHANGED propias) \/ CortoRevisar \/ CortoTurno
  \/ KmMemoria \/ Escuchar \/ Dispositivo
  \/ \E p \in Pids : Reloj(p)
  \/ \E c \in Cpus :
       \/ (CpuTomar(c) \/ CpuTerminar(c) \/ CpuInitProc(c)) /\ UNCHANGED propias
       \/ CpuMemoria(c) \/ AtenderComun(c) \/ AtenderMemoria(c)

SpecK == InitK /\ [][NextK]_varsK

-----------------------------------------------------------------------------
(* Properties.                                                              *)

EnClase(k, p) == EnLista(p, block[k]) \/ EnLista(p, susp[k]) \/ p \in retirados[k]

(* TipoMemoria: the types of this module; mx_comunicacion_memoria belongs   *)
(* to the thread that waits for the answer to its own request, there is at  *)
(* most one, and each body of the stream has its data.                      *)
TipoMemoria ==
  /\ \A k \in Clases : block[k] \in Seq(Pids) /\ susp[k] \in Seq(Pids)
  /\ relojes \in [Clases -> [Pids -> Nat]] /\ retirados \in [Clases -> SUBSET Pids]
  /\ \A c \in Cpus : pc[c] \in {"leer_op", "leer_cuerpo"} <=> mx_comunicacion_memoria = c
  /\ pc_d["stdin"] = "confirmar" <=> mx_comunicacion_memoria = "stdin"
  /\ mx_comunicacion_memoria \in Cpus \cup {"stdin", NADIE}
  /\ cuerpos \in Seq(Pids)
  /\ Len(cuerpos) = Cardinality({i \in DOMAIN respuestas_km : respuestas_km[i] = "CUERPO"})
  /\ \A d \in Dispositivos : pcb_d[d] = NADIE <=> pc_d[d] = "recibir"

LugaresK(p) ==
  Lugares(p)
  \cup (UNION {{<<"block", k, i>> : i \in {j \in DOMAIN block[k] : block[k][j] = p}}
               : k \in Clases})
  \cup (UNION {{<<"susp", k, i>> : i \in {j \in DOMAIN susp[k] : susp[k][j] = p}}
               : k \in Clases})
  \cup {<<"reloj", k>> : k \in {j \in Clases : p \in retirados[j]}}
  \cup {<<"dispositivo", d>> : d \in {e \in Dispositivos :
          pcb_d[e] = p /\ pc_d[e] \in {"escribir", "confirmar", "encolar"}}}

(* UnSoloLugarK: until a compaction is announced the PCB of every process   *)
(* created is in exactly one place, through the system calls and both        *)
(* devices: none is lost and none is held twice.                             *)
UnSoloLugarK ==
  ~ compactacion_en_progreso =>
    \A p \in Pids : Cardinality(LugaresK(p)) = Si(estado[p] # "NO_CREADO")

(* PermisosCpuK: until then sem_cpus_libres is exact too, although an        *)
(* S_STDIN of 0 bytes keeps its CPU and STDOUT waits after freeing its own.  *)
PermisosCpuK == ~ compactacion_en_progreso => PermisosCpu

(* PermisosReadyK: sem_procesos_ready, the permit in use and the posts to   *)
(* come add up to the PCBs in READY, also when a compaction evicts every    *)
(* process that executes; so the planner never takes a NULL PCB.            *)
PermisosReadyK ==
  sem_procesos_ready + Si(pc_corto \in {"esperar_cpu", "sacar"}) + Si(pc_largo = "avisar")
    + Cardinality({d \in Dispositivos : pc_d[d] = "avisar"})
    + Cardinality({c \in Cpus : pc[c] = "ready_avisar"})
    = Cardinality(EntradasReady)

(* EsperaSuDispositivo: whatever a device has been asked for or has          *)
(* answered belongs to a process that is blocked for that device, or that    *)
(* its timer is suspending, and once: no answer wakes a process that already *)
(* went on.                                                                  *)
EnDispositivo(d, p) ==
  Cardinality({i \in DOMAIN pedidos_d[d] : pedidos_d[d][i].pid = p})
    + Cardinality({i \in DOMAIN respuestas_d[d] : respuestas_d[d][i] = p})
EsperaSuDispositivo ==
  \A d \in Dispositivos, p \in Pids :
    EnDispositivo(d, p) <= Si(EnClase(d, p))

FaseK(p) ==
  CASE \E k \in Clases : EnLista(p, susp[k]) -> "SUSP_BLOCK"
    [] \E k \in Clases : EnLista(p, block[k]) \/ p \in retirados[k] -> "BLOCK"
    [] OTHER -> FaseDe(p)

AbsK == INSTANCE ProcesosAbs
          WITH NumCpus <- Cardinality(Cpus), fase <- [p \in Pids |-> FaseK(p)]

(* CicloDeVidaK: with the memory system calls and the devices, every step   *)
(* is still a legal move of one process in the abstract life cycle.         *)
CicloDeVidaK == AbsK!AbsSpec

-----------------------------------------------------------------------------
(* Statements made by comments of kernel_scheduler.c.                       *)

(* DatosReales: "Ahora si mandamos a IO con los datos reales": what STDOUT  *)
(* prints for a process was not read for another one.                       *)
DatosReales ==
  \A i \in DOMAIN pedidos_d["stdout"] :
    pedidos_d["stdout"][i].dato \in {NADIE, pedidos_d["stdout"][i].pid}

(* FrenaElDespacho: "Si se esta compactando, el hilo duerme un instante     *)
(* para no consumir CPU y frena el despacho".                               *)
FrenaElDespacho ==
  [][compactacion_en_progreso => \A c \in Cpus : Len(despachos'[c]) <= Len(despachos[c])]_varsK

=============================================================================

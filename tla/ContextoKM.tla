------------------------------ MODULE ContextoKM ------------------------------
(***************************************************************************)
(* The contexts Kernel Memory keeps for the processes, and when a process  *)
(* is forgotten: CARGA_PROCESO, PEDIDO_CONTEXTO, ACTUALIZAR_CONTEXTO and   *)
(* FINALIZAR_PROCESO of kernel_memory.c.                                   *)
(*                                                                         *)
(* Kernel Memory has one thread, and one socket, per client: the messages  *)
(* of one client are handled in order, those of different clients in any   *)
(* order.  A CPU sends ACTUALIZAR_CONTEXTO on its own socket and then its  *)
(* motive to the scheduler, which may answer with a request of its own to  *)
(* Kernel Memory, or with a dispatch to another CPU, before the first      *)
(* message is handled.  A context is the number of turns it has in it.     *)
(***************************************************************************)
EXTENDS Naturals, Sequences, FiniteSets

CONSTANTS
  Procesos,   \* the pids
  Cpus,
  MaxTurnos,  \* bound: turns a process runs before its last one
  NADIE

ASSUME MaxTurnosOK == MaxTurnos \in Nat
ASSUME NadieOK == NADIE \notin Procesos

VARIABLES
  lista_procesos, proceso_actulizado, peticion_eliminacion, registros,  \* t_proceso
  viva,                     \* FALSE once Kernel Memory has called exit
  a_km,                     \* what each CPU has sent to Kernel Memory
  pedidos_ks,               \* what the scheduler has sent to Kernel Memory
  ejecuta, paso_cpu, ctx,   \* each CPU: pid_actual, where it is, t_contexto
  situacion, turnos         \* the scheduler's view; turns completed

procesos_km == <<lista_procesos, proceso_actulizado, peticion_eliminacion, registros, viva>>
canales == <<a_km, pedidos_ks>>
cpus == <<ejecuta, paso_cpu, ctx>>
ks == <<situacion, turnos>>
varsC == <<procesos_km, canales, cpus, ks>>

Mensaje(op, p, n) == [op |-> op, pid |-> p, registros |-> n]

Init ==
  /\ lista_procesos = {}
  /\ proceso_actulizado = [p \in Procesos |-> FALSE]
  /\ peticion_eliminacion = [p \in Procesos |-> FALSE]
  /\ registros = [p \in Procesos |-> 0]
  /\ viva = TRUE
  /\ a_km = [c \in Cpus |-> <<>>] /\ pedidos_ks = <<>>
  /\ ejecuta = [c \in Cpus |-> NADIE]
  /\ paso_cpu = [c \in Cpus |-> "esperar"]
  /\ ctx = [c \in Cpus |-> 0]
  /\ situacion = [p \in Procesos |-> "sin_crear"]
  /\ turnos = [p \in Procesos |-> 0]

-----------------------------------------------------------------------------
(* The scheduler: a creation waits for its answer, so it is one step here.  *)

CargarProceso(p) ==
  /\ viva /\ situacion[p] = "sin_crear"
  /\ lista_procesos' = lista_procesos \cup {p}
  /\ situacion' = [situacion EXCEPT ![p] = "listo"]
  /\ UNCHANGED <<proceso_actulizado, peticion_eliminacion, registros, viva, canales, cpus,
                 turnos>>

\* Mutant: the request is sent before pid_actual is set.
DespacharSinPid(p, c) ==
  /\ situacion[p] = "listo" /\ ejecuta[c] = NADIE
  /\ ejecuta' = [ejecuta EXCEPT ![c] = p]
  /\ situacion' = [situacion EXCEPT ![p] = "en_cpu"]
  /\ a_km' = [a_km EXCEPT ![c] = Append(@, Mensaje("PEDIDO_CONTEXTO", ejecuta[c], 0))]
  /\ paso_cpu' = [paso_cpu EXCEPT ![c] = "pedir_contexto"]
  /\ UNCHANGED <<procesos_km, pedidos_ks, ctx, turnos>>

Despachar(p, c) ==
  /\ situacion[p] = "listo" /\ ejecuta[c] = NADIE
  /\ ejecuta' = [ejecuta EXCEPT ![c] = p]
  /\ situacion' = [situacion EXCEPT ![p] = "en_cpu"]
  /\ a_km' = [a_km EXCEPT ![c] = Append(@, Mensaje("PEDIDO_CONTEXTO", p, 0))]
  /\ paso_cpu' = [paso_cpu EXCEPT ![c] = "pedir_contexto"]
  /\ UNCHANGED <<procesos_km, pedidos_ks, ctx, turnos>>

\* The CPU ends a turn: the context goes out first, then the motive.  After
\* an exit the CPU stays taken until FINALIZAR_PROCESO is answered.
DevolverContexto(c) ==
  /\ paso_cpu[c] = "ejecutar"
  /\ a_km' = [a_km EXCEPT ![c] = Append(@, Mensaje("ACTUALIZAR_CONTEXTO", ejecuta[c], ctx[c] + 1))]
  /\ turnos' = [turnos EXCEPT ![ejecuta[c]] = @ + 1]
  /\ paso_cpu' = [paso_cpu EXCEPT ![c] = "esperar"]

FinDeTurno(c) ==
  /\ DevolverContexto(c) /\ turnos[ejecuta[c]] < MaxTurnos
  /\ situacion' = [situacion EXCEPT ![ejecuta[c]] = "listo"]
  /\ ejecuta' = [ejecuta EXCEPT ![c] = NADIE]
  /\ UNCHANGED <<procesos_km, pedidos_ks, ctx>>

Salir(c) ==
  /\ DevolverContexto(c)
  /\ situacion' = [situacion EXCEPT ![ejecuta[c]] = "saliendo"]
  /\ pedidos_ks' = Append(pedidos_ks, [op |-> "FINALIZAR_PROCESO", pid |-> ejecuta[c]])
  /\ UNCHANGED <<procesos_km, ejecuta, ctx>>

-----------------------------------------------------------------------------
(* Kernel Memory's thread for CPU c.                                        *)

\* Mutant: the flag is not cleared when the context is handed out.
ObtenerSinMarcar(c) ==
  /\ viva /\ a_km[c] # <<>> /\ Head(a_km[c]).op = "PEDIDO_CONTEXTO"
  /\ a_km' = [a_km EXCEPT ![c] = Tail(@)]
  /\ Head(a_km[c]).pid \in lista_procesos
  /\ paso_cpu' = [paso_cpu EXCEPT ![c] = "ejecutar"]
  /\ ctx' = [ctx EXCEPT ![c] = registros[Head(a_km[c]).pid]]
  /\ UNCHANGED <<procesos_km, pedidos_ks, ejecuta, ks>>

\* obtener_contexto and enviar_contexto; an unknown pid is not answered.
ObtenerContexto(c) ==
  LET p == Head(a_km[c]).pid IN
  /\ viva /\ a_km[c] # <<>> /\ Head(a_km[c]).op = "PEDIDO_CONTEXTO"
  /\ a_km' = [a_km EXCEPT ![c] = Tail(@)]
  /\ IF p \in lista_procesos
       THEN /\ proceso_actulizado' = [proceso_actulizado EXCEPT ![p] = FALSE]
            /\ paso_cpu' = [paso_cpu EXCEPT ![c] = "ejecutar"]
            /\ ctx' = [ctx EXCEPT ![c] = registros[p]]
       ELSE UNCHANGED <<proceso_actulizado, paso_cpu, ctx>>
  /\ UNCHANGED <<lista_procesos, peticion_eliminacion, registros, viva, pedidos_ks, ejecuta, ks>>

\* Mutant: the registers are left as they were.
ActualizarSinCopiar(c) ==
  LET p == Head(a_km[c]).pid IN
  /\ viva /\ a_km[c] # <<>> /\ Head(a_km[c]).op = "ACTUALIZAR_CONTEXTO"
  /\ a_km' = [a_km EXCEPT ![c] = Tail(@)]
  /\ p \in lista_procesos
  /\ proceso_actulizado' = [proceso_actulizado EXCEPT ![p] = TRUE]
  /\ lista_procesos' = IF peticion_eliminacion[p] THEN lista_procesos \ {p} ELSE lista_procesos
  /\ UNCHANGED <<peticion_eliminacion, registros, viva, pedidos_ks, cpus, ks>>

\* Mutant: a pending removal is forgotten.
ActualizarSinEliminar(c) ==
  LET p == Head(a_km[c]).pid IN
  /\ viva /\ a_km[c] # <<>> /\ Head(a_km[c]).op = "ACTUALIZAR_CONTEXTO"
  /\ a_km' = [a_km EXCEPT ![c] = Tail(@)]
  /\ p \in lista_procesos
  /\ registros' = [registros EXCEPT ![p] = Head(a_km[c]).registros]
  /\ proceso_actulizado' = [proceso_actulizado EXCEPT ![p] = TRUE]
  /\ UNCHANGED <<lista_procesos, peticion_eliminacion, viva, pedidos_ks, cpus, ks>>

\* An unknown pid ends Kernel Memory; a removal asked for is carried out.
ActualizarContexto(c) ==
  LET p == Head(a_km[c]).pid IN
  /\ viva /\ a_km[c] # <<>> /\ Head(a_km[c]).op = "ACTUALIZAR_CONTEXTO"
  /\ a_km' = [a_km EXCEPT ![c] = Tail(@)]
  /\ IF p \notin lista_procesos
       THEN viva' = FALSE /\ UNCHANGED <<lista_procesos, registros, proceso_actulizado>>
       ELSE /\ registros' = [registros EXCEPT ![p] = Head(a_km[c]).registros]
            /\ proceso_actulizado' = [proceso_actulizado EXCEPT ![p] = TRUE]
            /\ lista_procesos' =
                 IF peticion_eliminacion[p] THEN lista_procesos \ {p} ELSE lista_procesos
            /\ UNCHANGED viva
  /\ UNCHANGED <<peticion_eliminacion, pedidos_ks, cpus, ks>>

-----------------------------------------------------------------------------
(* Kernel Memory's thread for the scheduler.  The answer is always OK, and  *)
(* the scheduler frees the CPU the process left.                            *)

Responder(p) ==
  /\ pedidos_ks' = Tail(pedidos_ks)
  /\ situacion' = [situacion EXCEPT ![p] = "terminado"]
  /\ ejecuta' = [c \in Cpus |-> IF ejecuta[c] = p THEN NADIE ELSE ejecuta[c]]
  /\ UNCHANGED <<proceso_actulizado, registros, viva, a_km, paso_cpu, ctx, turnos>>

Pedido(op) == viva /\ pedidos_ks # <<>> /\ Head(pedidos_ks).op = op

\* The context has not come back yet: the removal is left for later.
DiferirEliminacion ==
  LET p == Head(pedidos_ks).pid IN
  /\ Pedido("FINALIZAR_PROCESO") /\ p \in lista_procesos /\ ~ proceso_actulizado[p]
  /\ peticion_eliminacion' = [peticion_eliminacion EXCEPT ![p] = TRUE]
  /\ UNCHANGED lista_procesos
  /\ Responder(p)

\* Mutant: proceso_actulizado is not looked at.
EliminarSinMirar ==
  LET p == Head(pedidos_ks).pid IN
  /\ Pedido("FINALIZAR_PROCESO")
  /\ lista_procesos' = lista_procesos \ {p}
  /\ UNCHANGED peticion_eliminacion
  /\ Responder(p)

\* Also the answer for a pid that is not in the list.
EliminarProceso ==
  LET p == Head(pedidos_ks).pid IN
  /\ Pedido("FINALIZAR_PROCESO") /\ (p \in lista_procesos => proceso_actulizado[p])
  /\ lista_procesos' = lista_procesos \ {p}
  /\ UNCHANGED peticion_eliminacion
  /\ Responder(p)

-----------------------------------------------------------------------------
AtenderCpu(c) == ObtenerContexto(c) \/ ActualizarContexto(c)
AtenderKs == DiferirEliminacion \/ EliminarProceso
Turno(c) == FinDeTurno(c) \/ Salir(c)

Next ==
  \/ AtenderKs
  \/ \E p \in Procesos : CargarProceso(p)
  \/ \E c \in Cpus : AtenderCpu(c) \/ Turno(c) \/ \E p \in Procesos : Despachar(p, c)

Spec == Init /\ [][Next]_varsC

\* Every thread goes on, every process is dispatched, every script ends.
FairSpec ==
  /\ Spec
  /\ WF_varsC(AtenderKs)
  /\ \A p \in Procesos : WF_varsC(CargarProceso(p)) /\ SF_varsC(\E c \in Cpus : Despachar(p, c))
  /\ \A c \in Cpus : WF_varsC(AtenderCpu(c)) /\ WF_varsC(Turno(c))

-----------------------------------------------------------------------------
(* Properties.                                                              *)

Situaciones == {"sin_crear", "listo", "en_cpu", "saliendo", "terminado"}
MensajesCpu == [op : {"PEDIDO_CONTEXTO", "ACTUALIZAR_CONTEXTO"}, pid : Procesos, registros : Nat]

(* TipoContexto: the type of every variable.                                *)
TipoContexto ==
  /\ lista_procesos \subseteq Procesos
  /\ proceso_actulizado \in [Procesos -> BOOLEAN]
  /\ peticion_eliminacion \in [Procesos -> BOOLEAN]
  /\ registros \in [Procesos -> Nat] /\ viva \in BOOLEAN
  /\ a_km \in [Cpus -> Seq(MensajesCpu)]
  /\ pedidos_ks \in Seq([op : {"FINALIZAR_PROCESO"}, pid : Procesos])
  /\ ejecuta \in [Cpus -> Procesos \cup {NADIE}]
  /\ paso_cpu \in [Cpus -> {"esperar", "pedir_contexto", "ejecutar"}]
  /\ ctx \in [Cpus -> Nat]
  /\ situacion \in [Procesos -> Situaciones] /\ turnos \in [Procesos -> Nat]

(* ContextoAlDia: a CPU executes a process with the registers its last turn *)
(* left, so no turn is lost or run twice ("devolvemos el contexto           *)
(* actualizado a la memoria antes de avisar al scheduler").                 *)
ContextoAlDia == \A c \in Cpus : paso_cpu[c] = "ejecutar" => ctx[c] = turnos[ejecuta[c]]

(* KmSigueViva: actualizar_contexto always finds the process ("aqui         *)
(* recibimos el puntero seguro"): a removal never overtakes the context     *)
(* that is still on its way, and Kernel Memory does not exit.               *)
KmSigueViva == viva

(* SeElimina: a process whose FINALIZAR_PROCESO was answered OK is removed  *)
(* in the end, also when the removal was left for actualizar_contexto.      *)
SeElimina == \A p \in Procesos : situacion[p] = "terminado" ~> p \notin lista_procesos
=============================================================================

------------------------- MODULE PlanificadorProofs -------------------------
(***************************************************************************)
(* The types of Planificador and the permits of its semaphores, for every  *)
(* number of pids, CPUs and READY levels.                                  *)
(*                                                                         *)
(* TipoBaseEn is a conjunction of one type per group of variables; a step  *)
(* is proved to keep the groups it changes, and SinCambiosEn carries the   *)
(* rest.  The lemmas hold for the steps P and the messages M of any module *)
(* that adds system calls to Planificador.                                 *)
(***************************************************************************)
EXTENDS PlanificadorInv, FiniteSetTheorems, TLAPS

(* The groups a step leaves alone keep their types.                         *)
LEMMA SinCambiosEn ==
  ASSUME NEW P, NEW M
  PROVE
  /\ TipoProcesos /\ UNCHANGED procesos => TipoProcesos'
  /\ TipoColas /\ UNCHANGED colas => TipoColas'
  /\ TipoSemaforos /\ UNCHANGED semaforos => TipoSemaforos'
  /\ TipoCpusKs /\ UNCHANGED cpus_ks => TipoCpusKs'
  /\ TipoLargo /\ UNCHANGED largo => TipoLargo'
  /\ TipoCorto /\ UNCHANGED corto => TipoCorto'
  /\ TipoHilosEn(P, M) /\ UNCHANGED hilos => TipoHilosEn(P, M)'
  /\ TipoIo /\ UNCHANGED io => TipoIo'
  /\ TipoTemps /\ UNCHANGED temps => TipoTemps'
  /\ TipoKm /\ UNCHANGED km => TipoKm'
  /\ TipoCpuEn(M) /\ UNCHANGED cpu => TipoCpuEn(M)'
  BY DEF TipoProcesos, TipoColas, TipoSemaforos, TipoCpusKs, TipoLargo, TipoCorto,
     TipoHilosEn, TipoIo, TipoTemps, TipoKm, TipoKmEn, TipoCpuEn, procesos, colas, semaforos,
     cpus_ks, largo, corto, hilos, io, temps, km, cpu

(* What the steps and the messages of a module must include.                *)
Bastan(P, M) ==
  /\ PasosHilo \subseteq P /\ Mensajes \subseteq M
  /\ \A m \in M : m.pid \in Pids /\ m.prio \in Prioridades
  /\ \A m \in M : \A p \in Pids : [m EXCEPT !.pid = p] \in M

(* list_add to the READY list of a process.                                 *)
LEMMA ListaReadyTipo ==
  ASSUME TipoProcesos, TipoColas, NEW p \in Pids
  PROVE  ListaReadyCon(p) \in [Prioridades -> Seq(Pids)]
  BY DEF TipoProcesos, TipoColas, ListaReadyCon

(* verificar_desalojo_por_prioridad stores pids of executing processes.     *)
LEMMA VerificarTipo ==
  ASSUME NEW M, TipoCpusKs, TipoCpuEn(M), NEW p \in Pids, VerificarDesalojo(p)
  PROVE  interrupcion' \in [Cpus -> Nat \cup {NADIE}]
<1>1. Pids \subseteq Nat
  BY DEF Pids
<1> QED
  BY <1>1 DEF TipoCpusKs, TipoCpuEn, VerificarDesalojo, Desalojables

LEMMA Constantes == 0 \in Pids /\ 0 \in Prioridades /\ SinMensaje \in Mensajes
<1>1. 0 \in Pids /\ 0 \in Prioridades
  BY ConstantesOK DEF Pids, Prioridades
<1> QED
  BY <1>1 DEF SinMensaje, Mensajes

(* A handler that lets go of its PCB goes back to recibir_operacion.        *)
LEMMA SoltarTipo ==
  ASSUME NEW P, NEW M, Bastan(P, M), TipoHilosEn(P, M), NEW c \in Cpus, SoltarPcb(c)
  PROVE  TipoHilosEn(P, M)'
<1>1. SinMensaje \in M
  BY Constantes DEF Bastan
<1>2. pc' \in [Cpus -> P] /\ pcb_h' \in [Cpus -> Pids \cup {NADIE}]
  BY DEF SoltarPcb, TipoHilosEn, Ir, PasosHilo, Bastan
<1>3. msg' \in [Cpus -> M]
  BY <1>1 DEF SoltarPcb, TipoHilosEn
<1>4. \A d \in Cpus :
        pcb_h'[d] = NADIE <=> pc'[d] \in {"sin_conectar", "registrada", "recibir"}
  BY DEF SoltarPcb, TipoHilosEn, Ir
<1> QED
  BY <1>2, <1>3, <1>4 DEF TipoHilosEn

(* A handler on its way moves on with its PCB and its message.              *)
LEMMA ConPcbEn ==
  ASSUME NEW P, NEW M, Bastan(P, M), TipoHilosEn(P, M), NEW c \in Cpus,
         pc[c] \notin {"sin_conectar", "registrada", "recibir"}
  PROVE  pcb_h[c] \in Pids
  BY DEF TipoHilosEn

LEMMA MensajeDelHiloEn ==
  ASSUME NEW P, NEW M, Bastan(P, M), TipoHilosEn(P, M), NEW c \in Cpus
  PROVE  msg[c].pid \in Pids /\ msg[c].prio \in Prioridades
  BY DEF TipoHilosEn, Bastan

(* What the requests and the answers of a module must include.              *)
BastanKm(O, W) ==
  /\ PedidosKm \subseteq O /\ \A o \in O : o.pid \in Pids
  /\ {"OK", "ERROR"} \subseteq W

LEMMA SinCambioKm ==
  ASSUME NEW O, NEW W, TipoKmEn(O, W), UNCHANGED km
  PROVE  TipoKmEn(O, W)'
  BY DEF TipoKmEn, km

(* A request to Kernel Memory.                                              *)
LEMMA PedirKmTipo ==
  ASSUME NEW O, NEW W, TipoKmEn(O, W), NEW p, NEW op, [op |-> op, pid |-> p] \in O,
         PedirKm(op, p),
         UNCHANGED <<ultima_respuesta_km, respuestas_km, km_procesos, en_swap>>
  PROVE  TipoKmEn(O, W)'
<1>1. pedidos_km' \in Seq(O)
  BY DEF TipoKmEn, PedirKm
<1> QED
  BY <1>1 DEF TipoKmEn

(* A CPU that gives its process back sends a message of the protocol.       *)
LEMMA DevolverTipo ==
  ASSUME NEW M, TipoCpuEn(M), NEW c \in Cpus, NEW m \in M, CpuDevolver(c, m),
         interrupcion' \in [Cpus -> Nat \cup {NADIE}], restantes' \in [Pids -> Nat]
  PROVE  TipoCpuEn(M)'
<1>1. motivos' \in [Cpus -> Seq(M)]
  BY DEF CpuDevolver, TipoCpuEn
<1>2. corre' \in [Cpus -> Pids \cup {NADIE}]
  BY DEF CpuDevolver, TipoCpuEn
<1>3. despachos' \in [Cpus -> Seq(Pids)]
  BY DEF CpuDevolver, TipoCpuEn, cpu
<1>4. colgadas' \subseteq Cpus
  BY DEF CpuDevolver, TipoCpuEn
<1> QED
  BY <1>1, <1>2, <1>3, <1>4 DEF TipoCpuEn

LEMMA MensajeDeExit ==
  ASSUME NEW p \in Pids
  PROVE  /\ [SinMensaje EXCEPT !.pid = p] \in Mensajes
         /\ [SinMensaje EXCEPT !.motivo = "MOTIVO_INTERRUPCION", !.pid = p] \in Mensajes
  BY Constantes DEF SinMensaje, Mensajes

LEMMA InitTipoEn ==
  ASSUME NEW P, NEW M, Bastan(P, M), Init
  PROVE  TipoBaseEn(P, M)
  BY Constantes, ConstantesOK
  DEF Init, TipoBaseEn, TipoProcesos, TipoColas, TipoSemaforos, TipoCpusKs, TipoLargo,
      TipoCorto, TipoHilosEn, TipoIo, TipoTemps, TipoCpuEn, Estados, PasosHilo, Bastan

LEMMA InitKmTipo ==
  ASSUME NEW O, NEW W, BastanKm(O, W), Init
  PROVE  TipoKmEn(O, W)
  BY Constantes DEF Init, TipoKmEn

(* planificador_largo_plazo keeps the types.                                 *)
LEMMA LargoTipo ==
  ASSUME NEW P, NEW M, Bastan(P, M), TipoBaseEn(P, M),
         LargoPlazo
  PROVE  TipoBaseEn(P, M)'
<1>1. CASE LargoEsperar
  <2>1. TipoLargo'
    BY <1>1
    DEF LargoEsperar, TipoBaseEn, TipoLargo
  <2>2. TipoSemaforos'
    BY <1>1
    DEF LargoEsperar, TipoBaseEn, TipoSemaforos
  <2> QED
    BY <1>1, <2>1, <2>2, SinCambiosEn DEF LargoEsperar, TipoBaseEn
<1>2. CASE LargoSacar
  <2>1. TipoLargo'
    BY <1>2
    DEF LargoSacar, TipoBaseEn, TipoLargo, TipoColas
  <2>2. TipoColas'
    BY <1>2
    DEF LargoSacar, TipoBaseEn, TipoColas
  <2>3. TipoProcesos'
    BY <1>2
    DEF LargoSacar, TipoBaseEn, TipoProcesos, Estados, TipoColas
  <2> QED
    BY <1>2, <2>1, <2>2, <2>3, SinCambiosEn DEF LargoSacar, TipoBaseEn
<1>3. CASE LargoEncolar
  <2>1. TipoLargo'
    BY <1>3
    DEF LargoEncolar, TipoBaseEn, TipoLargo
  <2>2. TipoColas'
    BY <1>3, ListaReadyTipo
    DEF LargoEncolar, TipoBaseEn, TipoColas, TipoLargo
  <2> QED
    BY <1>3, <2>1, <2>2, SinCambiosEn DEF LargoEncolar, TipoBaseEn
<1>4. CASE LargoAvisar
  <2>1. TipoLargo'
    BY <1>4
    DEF LargoAvisar, TipoBaseEn, TipoLargo
  <2>2. TipoSemaforos'
    BY <1>4
    DEF LargoAvisar, TipoBaseEn, TipoSemaforos
  <2>3. TipoCpuEn(M)'
    BY <1>4, VerificarTipo
    DEF LargoAvisar, TipoBaseEn, TipoCpuEn, TipoLargo
  <2> QED
    BY <1>4, <2>1, <2>2, <2>3, SinCambiosEn DEF LargoAvisar, TipoBaseEn
<1> QED
  BY TipoBaseEn(P, M), <1>1, <1>2, <1>3, <1>4 DEF LargoPlazo

(* planificador_corto_plazo keeps the types.                                 *)
LEMMA CortoTipo ==
  ASSUME NEW P, NEW M, Bastan(P, M), TipoBaseEn(P, M),
         CortoPlazo
  PROVE  TipoBaseEn(P, M)'
<1>1. CASE CortoEsperarReady
  <2>1. TipoCorto'
    BY <1>1
    DEF CortoEsperarReady, TipoBaseEn, TipoCorto
  <2>2. TipoSemaforos'
    BY <1>1
    DEF CortoEsperarReady, TipoBaseEn, TipoSemaforos
  <2> QED
    BY <1>1, <2>1, <2>2, SinCambiosEn DEF CortoEsperarReady, TipoBaseEn
<1>2. CASE CortoEsperarCpu
  <2>1. TipoCorto'
    BY <1>2
    DEF CortoEsperarCpu, TipoBaseEn, TipoCorto
  <2>2. TipoSemaforos'
    BY <1>2
    DEF CortoEsperarCpu, TipoBaseEn, TipoSemaforos
  <2> QED
    BY <1>2, <2>1, <2>2, SinCambiosEn DEF CortoEsperarCpu, TipoBaseEn
<1>3. CASE CortoSacar
  <2>1. TipoCorto'
    BY <1>3
    DEF CortoSacar, TipoBaseEn, TipoCorto, TipoColas
  <2>2. TipoColas'
    BY <1>3
    DEF CortoSacar, TipoBaseEn, TipoColas
  <2>3. TipoProcesos'
    BY <1>3
    DEF CortoSacar, TipoBaseEn, TipoProcesos, Estados, TipoColas
  <2> QED
    BY <1>3, <2>1, <2>2, <2>3, SinCambiosEn DEF CortoSacar, TipoBaseEn
<1>4. CASE CortoDespachar
  <2>1. TipoCorto'
    BY <1>4
    DEF CortoDespachar, TipoBaseEn, TipoCorto
  <2>2. TipoCpusKs'
    BY <1>4
    DEF CortoDespachar, TipoBaseEn, TipoCpusKs, TipoCorto, CpusLibres
  <2>3. TipoCpuEn(M)'
    <3>1. pcb_corto \in Pids
      BY <1>4 DEF CortoDespachar, TipoBaseEn, TipoCorto
    <3>2. despachos' \in [Cpus -> Seq(Pids)]
      <4>1. CASE CpusLibres = {}
        BY <1>4, <4>1 DEF CortoDespachar, TipoBaseEn, TipoCpuEn
      <4>2. CASE CpusLibres # {}
        <5>1. PICK c \in CpusLibres : despachos' = [despachos EXCEPT ![c] = Append(@, pcb_corto)]
          BY <1>4, <4>2 DEF CortoDespachar
        <5>2. c \in Cpus
          BY <5>1 DEF CpusLibres, TipoBaseEn, TipoCpusKs
        <5> QED
          BY <3>1, <5>1, <5>2 DEF TipoBaseEn, TipoCpuEn
      <4> QED
        BY <4>1, <4>2
    <3> QED
      BY <1>4, <3>2 DEF CortoDespachar, TipoBaseEn, TipoCpuEn
  <2> QED
    BY <1>4, <2>1, <2>2, <2>3, SinCambiosEn DEF CortoDespachar, TipoBaseEn
<1> QED
  BY TipoBaseEn(P, M), <1>1, <1>2, <1>3, <1>4 DEF CortoPlazo

(* The CPUs keep the types.                                                  *)
LEMMA CpuTipo ==
  ASSUME NEW P, NEW M, Bastan(P, M), TipoBaseEn(P, M), NEW c \in Cpus,
         Cpu(c)
  PROVE  TipoBaseEn(P, M)'
<1>1. CASE CpuTomar(c)
  <2>1. TipoCpuEn(M)'
    <3>1. Head(despachos[c]) \in Pids /\ despachos' \in [Cpus -> Seq(Pids)]
      BY <1>1 DEF CpuTomar, TipoBaseEn, TipoCpuEn
    <3>2. corre' \in [Cpus -> Pids \cup {NADIE}] /\ colgadas' \subseteq Cpus
      BY <1>1, <3>1 DEF CpuTomar, TipoBaseEn, TipoCpuEn
    <3> QED
      BY <1>1, <3>1, <3>2 DEF CpuTomar, TipoBaseEn, TipoCpuEn
  <2> QED
    BY <1>1, <2>1, SinCambiosEn DEF CpuTomar, TipoBaseEn
<1>2. CASE CpuTerminar(c)
  <2>1. TipoCpuEn(M)'
    <3>1. corre[c] \in Pids
      BY <1>2 DEF CpuTerminar, TipoBaseEn, TipoCpuEn
    <3>2. interrupcion' \in [Cpus -> Nat \cup {NADIE}] /\ restantes' \in [Pids -> Nat]
      BY <1>2 DEF CpuTerminar, TipoBaseEn, TipoCpuEn
    <3> QED
      BY <1>2, <3>1, <3>2, MensajeDeExit, DevolverTipo DEF Bastan, CpuTerminar, TipoBaseEn
  <2> QED
    BY <1>2, <2>1, SinCambiosEn DEF CpuTerminar, TipoBaseEn, CpuDevolver
<1>3. CASE CpuSleep(c)
  <2>1. TipoCpuEn(M)'
    <3>0. CpuPedir(c, "S_SLEEP", 0)
      BY <1>3 DEF CpuSleep
    <3>1. corre[c] \in Pids
      BY <3>0 DEF CpuPedir, TipoBaseEn, TipoCpuEn
    <3>2. [motivo |-> "MOTIVO_SYSCALL", pid |-> corre[c], syscall |-> "S_SLEEP",
           prio |-> 0] \in Mensajes
      BY <3>1, Constantes DEF Mensajes
    <3>3. restantes' \in [Pids -> Nat]
      BY <3>0, <3>1 DEF CpuPedir, TipoBaseEn, TipoCpuEn
    <3>4. interrupcion' \in [Cpus -> Nat \cup {NADIE}]
      BY <3>0 DEF CpuPedir, TipoBaseEn, TipoCpuEn
    <3> QED
      BY <3>0, <3>2, <3>3, <3>4, DevolverTipo DEF Bastan, CpuPedir, TipoBaseEn
  <2> QED
    BY <1>3, <2>1, SinCambiosEn DEF CpuSleep, TipoBaseEn, CpuDevolver, CpuPedir
<1>4. CASE CpuInitProc(c)
  <2>1. TipoCpuEn(M)'
    <3>0. PICK k \in Prioridades : CpuPedir(c, "S_INIT_PROC", k)
      BY <1>4 DEF CpuInitProc
    <3>1. corre[c] \in Pids
      BY <3>0 DEF CpuPedir, TipoBaseEn, TipoCpuEn
    <3>2. [motivo |-> "MOTIVO_SYSCALL", pid |-> corre[c], syscall |-> "S_INIT_PROC",
           prio |-> k] \in Mensajes
      BY <3>1, Constantes DEF Mensajes
    <3>3. restantes' \in [Pids -> Nat]
      BY <3>0, <3>1 DEF CpuPedir, TipoBaseEn, TipoCpuEn
    <3>4. interrupcion' \in [Cpus -> Nat \cup {NADIE}]
      BY <3>0 DEF CpuPedir, TipoBaseEn, TipoCpuEn
    <3> QED
      BY <3>0, <3>2, <3>3, <3>4, DevolverTipo DEF Bastan, CpuPedir, TipoBaseEn
  <2> QED
    BY <1>4, <2>1, SinCambiosEn DEF CpuInitProc, TipoBaseEn, CpuDevolver, CpuPedir
<1>5. CASE CpuInterrumpir(c)
  <2>1. TipoCpuEn(M)'
    <3>1. corre[c] \in Pids
      BY <1>5 DEF CpuInterrumpir, TipoBaseEn, TipoCpuEn
    <3>2. interrupcion' \in [Cpus -> Nat \cup {NADIE}] /\ restantes' \in [Pids -> Nat]
      BY <1>5 DEF CpuInterrumpir, TipoBaseEn, TipoCpuEn
    <3> QED
      BY <1>5, <3>1, <3>2, MensajeDeExit, DevolverTipo DEF Bastan, CpuInterrumpir, TipoBaseEn
  <2> QED
    BY <1>5, <2>1, SinCambiosEn DEF CpuInterrumpir, TipoBaseEn, CpuDevolver
<1> QED
  BY TipoBaseEn(P, M), <1>1, <1>2, <1>3, <1>4, <1>5 DEF Cpu

(* Reading a motive keeps the types.                                         *)
LEMMA MotivoTipo ==
  ASSUME NEW P, NEW M, Bastan(P, M), TipoBaseEn(P, M), NEW c \in Cpus,
         RecibirExit(c) \/ RecibirInterrupcion(c) \/ RecibirSleep(c) \/ RecibirInitProc(c)
  PROVE  TipoBaseEn(P, M)'
<1>1. CASE RecibirExit(c)
  <2>1. TipoHilosEn(P, M)'
    BY <1>1
    DEF RecibirExit, TipoBaseEn, TipoHilosEn, PasosHilo, Bastan, Ir, Recibir, TipoCpusKs
  <2>2. TipoProcesos'
    BY <1>1
    DEF RecibirExit, TipoBaseEn, TipoProcesos, Estados, Recibir
  <2>3. TipoCpuEn(M)'
    BY <1>1
    DEF RecibirExit, TipoBaseEn, TipoCpuEn, Recibir
  <2> QED
    BY <1>1, <2>1, <2>2, <2>3, SinCambiosEn DEF RecibirExit, TipoBaseEn, Recibir
<1>2. CASE RecibirInterrupcion(c)
  <2>1. TipoHilosEn(P, M)'
    BY <1>2
    DEF RecibirInterrupcion, TipoBaseEn, TipoHilosEn, PasosHilo, Bastan, Ir, Recibir, TipoCpusKs
  <2>2. TipoProcesos'
    BY <1>2
    DEF RecibirInterrupcion, TipoBaseEn, TipoProcesos, Estados, Recibir
  <2>3. TipoCpuEn(M)'
    BY <1>2
    DEF RecibirInterrupcion, TipoBaseEn, TipoCpuEn, Recibir
  <2> QED
    BY <1>2, <2>1, <2>2, <2>3, SinCambiosEn DEF RecibirInterrupcion, TipoBaseEn, Recibir
<1>3. CASE RecibirSleep(c)
  <2>1. TipoHilosEn(P, M)'
    BY <1>3
    DEF RecibirSleep, TipoBaseEn, TipoHilosEn, PasosHilo, Bastan, Ir, Recibir, TipoCpusKs
  <2>2. TipoProcesos'
    BY <1>3
    DEF RecibirSleep, TipoBaseEn, TipoProcesos, Estados, Recibir
  <2>3. TipoCpuEn(M)'
    BY <1>3
    DEF RecibirSleep, TipoBaseEn, TipoCpuEn, Recibir
  <2> QED
    BY <1>3, <2>1, <2>2, <2>3, SinCambiosEn DEF RecibirSleep, TipoBaseEn, Recibir
<1>4. CASE RecibirInitProc(c)
  <2>1. TipoHilosEn(P, M)'
    BY <1>4
    DEF RecibirInitProc, TipoBaseEn, TipoHilosEn, PasosHilo, Bastan, Ir, Recibir, TipoCpusKs
  <2>2. TipoProcesos'
    BY <1>4
    DEF RecibirInitProc, TipoBaseEn, TipoProcesos, Estados, Recibir
  <2>3. TipoCpuEn(M)'
    BY <1>4
    DEF RecibirInitProc, TipoBaseEn, TipoCpuEn, Recibir
  <2> QED
    BY <1>4, <2>1, <2>2, <2>3, SinCambiosEn DEF RecibirInitProc, TipoBaseEn, Recibir
<1> QED
  BY TipoBaseEn(P, M), <1>1, <1>2, <1>3, <1>4

(* The other steps of a handler keep the types.                              *)
LEMMA HiloTipo ==
  ASSUME NEW P, NEW M, Bastan(P, M), TipoBaseEn(P, M), NEW c \in Cpus,
         \/ Conectar(c) \/ PublicarCpu(c) \/ LiberarCpu(c)
            \/ FinalizarEnKm(c) \/ EsperarFin(c) \/ TerminarProceso(c)
            \/ Bloquear(c) \/ BloqueoPost(c) \/ PedirIo(c)
            \/ PedirCarga(c) \/ EsperarCarga(c) \/ CrearProceso(c)
            \/ RechazarProceso(c) \/ ReadyPost(c) \/ ReadyEncolar(c)
            \/ ReadyAvisar(c)
  PROVE  TipoBaseEn(P, M)'
<1>1. CASE Conectar(c)
  <2>1. TipoHilosEn(P, M)'
    BY <1>1
    DEF Conectar, TipoBaseEn, TipoHilosEn, PasosHilo, Bastan, Ir
  <2>2. TipoCpusKs'
    BY <1>1
    DEF Conectar, TipoBaseEn, TipoCpusKs
  <2> QED
    BY <1>1, <2>1, <2>2, SinCambiosEn DEF Conectar, TipoBaseEn
<1>2. CASE PublicarCpu(c)
  <2>1. TipoHilosEn(P, M)'
    BY <1>2
    DEF PublicarCpu, TipoBaseEn, TipoHilosEn, PasosHilo, Bastan, Ir
  <2>2. TipoSemaforos'
    BY <1>2
    DEF PublicarCpu, TipoBaseEn, TipoSemaforos
  <2> QED
    BY <1>2, <2>1, <2>2, SinCambiosEn DEF PublicarCpu, TipoBaseEn
<1>3. CASE LiberarCpu(c)
  <2>1. TipoHilosEn(P, M)'
    BY <1>3
    DEF LiberarCpu, TipoBaseEn, TipoHilosEn, PasosHilo, Bastan, Ir
  <2>2. TipoCpusKs'
    BY <1>3
    DEF LiberarCpu, TipoBaseEn, TipoCpusKs
  <2> QED
    BY <1>3, <2>1, <2>2, SinCambiosEn DEF LiberarCpu, TipoBaseEn
<1>4. CASE FinalizarEnKm(c)
  <2>1. TipoHilosEn(P, M)'
    BY <1>4
    DEF FinalizarEnKm, TipoBaseEn, TipoHilosEn, PasosHilo, Bastan, Ir
  <2> QED
    BY <1>4, <2>1, SinCambiosEn DEF FinalizarEnKm, TipoBaseEn
<1>5. CASE EsperarFin(c)
  <2>1. TipoHilosEn(P, M)'
    BY <1>5
    DEF EsperarFin, TipoBaseEn, TipoHilosEn, PasosHilo, Bastan, Ir, EsperarKm
  <2>2. TipoSemaforos'
    BY <1>5
    DEF EsperarFin, TipoBaseEn, TipoSemaforos, EsperarKm
  <2> QED
    BY <1>5, <2>1, <2>2, SinCambiosEn DEF EsperarFin, TipoBaseEn, EsperarKm
<1>6. CASE TerminarProceso(c)
  <2>1. TipoHilosEn(P, M)'
    BY <1>6, SoltarTipo DEF TerminarProceso, TipoBaseEn
  <2>2. TipoColas'
    BY <1>6, ConPcbEn DEF TerminarProceso, TipoBaseEn, TipoColas
  <2>3. TipoProcesos'
    BY <1>6
    DEF TerminarProceso, TipoBaseEn, TipoProcesos, Estados
  <2>4. TipoSemaforos'
    BY <1>6
    DEF TerminarProceso, TipoBaseEn, TipoSemaforos
  <2> QED
    BY <1>6, <2>1, <2>2, <2>3, <2>4, SinCambiosEn DEF TerminarProceso, TipoBaseEn
<1>7. CASE Bloquear(c)
  <2>1. TipoHilosEn(P, M)'
    BY <1>7
    DEF Bloquear, TipoBaseEn, TipoHilosEn, PasosHilo, Bastan, Ir
  <2>2. TipoColas'
    BY <1>7, ConPcbEn DEF Bloquear, TipoBaseEn, TipoColas
  <2>3. TipoTemps'
    <3>1. pcb_h[c] \in Pids
      BY <1>7, ConPcbEn DEF Bloquear, TipoBaseEn
    <3> QED
      BY <1>7, <3>1 DEF Bloquear, TipoBaseEn, TipoTemps
  <2> QED
    BY <1>7, <2>1, <2>2, <2>3, SinCambiosEn DEF Bloquear, TipoBaseEn
<1>8. CASE BloqueoPost(c)
  <2>1. TipoHilosEn(P, M)'
    BY <1>8
    DEF BloqueoPost, TipoBaseEn, TipoHilosEn, PasosHilo, Bastan, Ir
  <2>2. TipoSemaforos'
    BY <1>8
    DEF BloqueoPost, TipoBaseEn, TipoSemaforos
  <2> QED
    BY <1>8, <2>1, <2>2, SinCambiosEn DEF BloqueoPost, TipoBaseEn
<1>9. CASE PedirIo(c)
  <2>1. TipoHilosEn(P, M)'
    BY <1>9, SoltarTipo DEF PedirIo, TipoBaseEn
  <2>2. TipoIo'
    <3>1. pcb_h[c] \in Pids
      BY <1>9, ConPcbEn DEF PedirIo, TipoBaseEn
    <3> QED
      BY <1>9, <3>1 DEF PedirIo, TipoBaseEn, TipoIo
  <2> QED
    BY <1>9, <2>1, <2>2, SinCambiosEn DEF PedirIo, TipoBaseEn
<1>10. CASE PedirCarga(c)
  <2>1. TipoHilosEn(P, M)'
    <3>1. proximo_pid \in Pids
      BY <1>10, ConstantesOK DEF PedirCarga, TipoBaseEn, TipoProcesos, Pids
    <3>2. [msg[c] EXCEPT !.pid = proximo_pid] \in M
      BY <3>1 DEF TipoBaseEn, TipoHilosEn, Bastan
    <3>3. msg' \in [Cpus -> M]
      BY <1>10, <3>2 DEF PedirCarga, TipoBaseEn, TipoHilosEn
    <3> QED
      BY <1>10, <3>3 DEF PedirCarga, TipoBaseEn, TipoHilosEn, PasosHilo, Bastan, Ir
  <2> QED
    BY <1>10, <2>1, SinCambiosEn DEF PedirCarga, TipoBaseEn
<1>11. CASE EsperarCarga(c)
  <2>1. TipoHilosEn(P, M)'
    BY <1>11
    DEF EsperarCarga, TipoBaseEn, TipoHilosEn, PasosHilo, Bastan, Ir, EsperarKm
  <2>2. TipoSemaforos'
    BY <1>11
    DEF EsperarCarga, TipoBaseEn, TipoSemaforos, EsperarKm
  <2> QED
    BY <1>11, <2>1, <2>2, SinCambiosEn DEF EsperarCarga, TipoBaseEn, EsperarKm
<1>12. CASE CrearProceso(c)
  <2>1. TipoHilosEn(P, M)'
    BY <1>12
    DEF CrearProceso, TipoBaseEn, TipoHilosEn, PasosHilo, Bastan, Ir
  <2>2. TipoColas'
    BY <1>12, MensajeDelHiloEn DEF CrearProceso, TipoBaseEn, TipoColas
  <2>3. TipoProcesos'
    BY <1>12, MensajeDelHiloEn DEF CrearProceso, TipoBaseEn, TipoProcesos, Estados
  <2>4. TipoSemaforos'
    BY <1>12
    DEF CrearProceso, TipoBaseEn, TipoSemaforos
  <2> QED
    BY <1>12, <2>1, <2>2, <2>3, <2>4, SinCambiosEn DEF CrearProceso, TipoBaseEn
<1>13. CASE RechazarProceso(c)
  <2>1. TipoHilosEn(P, M)'
    BY <1>13
    DEF RechazarProceso, TipoBaseEn, TipoHilosEn, PasosHilo, Bastan, Ir
  <2> QED
    BY <1>13, <2>1, SinCambiosEn DEF RechazarProceso, TipoBaseEn
<1>14. CASE ReadyPost(c)
  <2>1. TipoHilosEn(P, M)'
    BY <1>14
    DEF ReadyPost, TipoBaseEn, TipoHilosEn, PasosHilo, Bastan, Ir
  <2>2. TipoProcesos'
    BY <1>14
    DEF ReadyPost, TipoBaseEn, TipoProcesos, Estados
  <2>3. TipoSemaforos'
    BY <1>14
    DEF ReadyPost, TipoBaseEn, TipoSemaforos
  <2> QED
    BY <1>14, <2>1, <2>2, <2>3, SinCambiosEn DEF ReadyPost, TipoBaseEn
<1>15. CASE ReadyEncolar(c)
  <2>1. TipoHilosEn(P, M)'
    BY <1>15
    DEF ReadyEncolar, TipoBaseEn, TipoHilosEn, PasosHilo, Bastan, Ir
  <2>2. TipoColas'
    BY <1>15, ListaReadyTipo
    DEF ReadyEncolar, TipoBaseEn, TipoColas, TipoHilosEn
  <2> QED
    BY <1>15, <2>1, <2>2, SinCambiosEn DEF ReadyEncolar, TipoBaseEn
<1>16. CASE ReadyAvisar(c)
  <2>1. TipoHilosEn(P, M)'
    BY <1>16, SoltarTipo DEF ReadyAvisar, TipoBaseEn
  <2>2. TipoSemaforos'
    BY <1>16
    DEF ReadyAvisar, TipoBaseEn, TipoSemaforos
  <2> QED
    BY <1>16, <2>1, <2>2, SinCambiosEn DEF ReadyAvisar, TipoBaseEn
<1> QED
  BY TipoBaseEn(P, M), <1>1, <1>2, <1>3, <1>4, <1>5, <1>6, <1>7, <1>8, <1>9, <1>10, <1>11, <1>12,
     <1>13, <1>14, <1>15, <1>16

(* The device and its handler keep the types.                                *)
LEMMA IoTipo ==
  ASSUME NEW P, NEW M, Bastan(P, M), TipoBaseEn(P, M),
         AtenderIo \/ ConectarIo \/ IoServir
  PROVE  TipoBaseEn(P, M)'
<1>1. CASE ConectarIo
  <2>1. TipoIo'
    BY <1>1
    DEF ConectarIo, TipoBaseEn, TipoIo
  <2> QED
    BY <1>1, <2>1, SinCambiosEn DEF ConectarIo, TipoBaseEn
<1>2. CASE IoServir
  <2>1. TipoIo'
    BY <1>2
    DEF IoServir, TipoBaseEn, TipoIo
  <2> QED
    BY <1>2, <2>1, SinCambiosEn DEF IoServir, TipoBaseEn
<1>3. CASE IoBuscarBlock
  <2>1. TipoIo'
    BY <1>3
    DEF IoBuscarBlock, TipoBaseEn, TipoIo
  <2>2. TipoColas'
    BY <1>3
    DEF IoBuscarBlock, TipoBaseEn, TipoColas
  <2> QED
    BY <1>3, <2>1, <2>2, SinCambiosEn DEF IoBuscarBlock, TipoBaseEn
<1>4. CASE IoBuscarSusp
  <2>1. TipoIo'
    BY <1>4
    DEF IoBuscarSusp, TipoBaseEn, TipoIo
  <2>2. TipoColas'
    BY <1>4
    DEF IoBuscarSusp, TipoBaseEn, TipoColas
  <2> QED
    BY <1>4, <2>1, <2>2, SinCambiosEn DEF IoBuscarSusp, TipoBaseEn
<1>5. CASE IoEncolar
  <2>1. TipoIo'
    BY <1>5
    DEF IoEncolar, TipoBaseEn, TipoIo
  <2>2. TipoColas'
    BY <1>5, ListaReadyTipo
    DEF IoEncolar, TipoBaseEn, TipoColas, TipoIo
  <2>3. TipoProcesos'
    BY <1>5
    DEF IoEncolar, TipoBaseEn, TipoProcesos, Estados
  <2> QED
    BY <1>5, <2>1, <2>2, <2>3, SinCambiosEn DEF IoEncolar, TipoBaseEn
<1>6. CASE IoAvisar
  <2>1. TipoIo'
    BY <1>6
    DEF IoAvisar, TipoBaseEn, TipoIo
  <2>2. TipoSemaforos'
    BY <1>6
    DEF IoAvisar, TipoBaseEn, TipoSemaforos
  <2>3. TipoCpuEn(M)'
    BY <1>6, VerificarTipo
    DEF IoAvisar, TipoBaseEn, TipoCpuEn, TipoIo
  <2> QED
    BY <1>6, <2>1, <2>2, <2>3, SinCambiosEn DEF IoAvisar, TipoBaseEn
<1> QED
  BY TipoBaseEn(P, M), <1>1, <1>2, <1>3, <1>4, <1>5, <1>6 DEF AtenderIo

(* A suspension timer keeps the types.                                       *)
LEMMA TemporizadorTipo ==
  ASSUME NEW P, NEW M, Bastan(P, M), TipoBaseEn(P, M), NEW p \in Pids,
         Temporizador(p)
  PROVE  TipoBaseEn(P, M)'
<1>1. CASE TimerRetirar(p)
  <2>1. TipoTemps'
    BY <1>1
    DEF TimerRetirar, TipoBaseEn, TipoTemps
  <2>2. TipoColas'
    BY <1>1
    DEF TimerRetirar, TipoBaseEn, TipoColas
  <2> QED
    BY <1>1, <2>1, <2>2, SinCambiosEn DEF TimerRetirar, TipoBaseEn
<1>2. CASE TimerSuspender(p)
  <2>1. TipoTemps'
    BY <1>2
    DEF TimerSuspender, TipoBaseEn, TipoTemps
  <2>2. TipoColas'
    BY <1>2
    DEF TimerSuspender, TipoBaseEn, TipoColas
  <2>3. TipoProcesos'
    BY <1>2
    DEF TimerSuspender, TipoBaseEn, TipoProcesos, Estados
  <2> QED
    BY <1>2, <2>1, <2>2, <2>3, SinCambiosEn DEF TimerSuspender, TipoBaseEn
<1>3. CASE TimerAvisarKm(p)
  <2>1. TipoTemps'
    BY <1>3
    DEF TimerAvisarKm, TipoBaseEn, TipoTemps
  <2> QED
    BY <1>3, <2>1, SinCambiosEn DEF TimerAvisarKm, TipoBaseEn
<1> QED
  BY TipoBaseEn(P, M), <1>1, <1>2, <1>3 DEF Temporizador

(* Kernel Memory and its listener keep the types.                            *)
LEMMA KmTipo ==
  ASSUME NEW P, NEW M, Bastan(P, M), TipoBaseEn(P, M),
         KernelMemory \/ EscucharKm
  PROVE  TipoBaseEn(P, M)'
<1>1. CASE KernelMemory
  BY <1>1, SinCambiosEn DEF KernelMemory, KmCargar, KmFinalizar, KmSuspender, TipoBaseEn
<1>2. CASE EscucharKm
  <2>1. TipoSemaforos'
    BY <1>2 DEF EscucharKm, TipoBaseEn, TipoSemaforos
  <2> QED
    BY <1>2, <2>1, SinCambiosEn DEF EscucharKm, TipoBaseEn
<1> QED
  BY <1>1, <1>2

(* The requests and the answers: what the handlers and the timers ask, and  *)
(* what Kernel Memory and its listener do with it.                          *)
LEMMA KernelMemoryTipo ==
  ASSUME NEW O, NEW W, BastanKm(O, W), TipoKmEn(O, W),
         KernelMemory \/ (EscucharKm /\ Head(respuestas_km) \in {"OK", "ERROR"})
  PROVE  TipoKmEn(O, W)'
<1>1. ASSUME pedidos_km # <<>>
      PROVE  Head(pedidos_km).pid \in Pids /\ Tail(pedidos_km) \in Seq(O)
  BY <1>1 DEF TipoKmEn, BastanKm
<1>2. /\ respuestas_km \in Seq(W)
      /\ Append(respuestas_km, "OK") \in Seq(W) /\ Append(respuestas_km, "ERROR") \in Seq(W)
  BY DEF TipoKmEn, BastanKm
<1>3. CASE KmCargar
  <2>1. /\ Head(pedidos_km).pid \in Pids
        /\ pedidos_km' \in Seq(O) /\ UNCHANGED <<ultima_respuesta_km, en_swap>>
    BY <1>1, <1>3 DEF KmCargar
  <2>2. \/ km_procesos' = km_procesos
        \/ km_procesos' = km_procesos \cup {Head(pedidos_km).pid}
    BY <1>3 DEF KmCargar
  <2>3. respuestas_km' \in Seq(W)
    BY <1>2, <1>3 DEF KmCargar
  <2> QED
    BY <2>1, <2>2, <2>3 DEF TipoKmEn
<1>4. CASE KmFinalizar
  BY <1>1, <1>2, <1>4 DEF KmFinalizar, TipoKmEn
<1>5. CASE KmSuspender
  BY <1>1, <1>5 DEF KmSuspender, TipoKmEn
<1>6. CASE EscucharKm /\ Head(respuestas_km) \in {"OK", "ERROR"}
  BY <1>6 DEF EscucharKm, TipoKmEn
<1> QED
  BY <1>3, <1>4, <1>5, <1>6 DEF KernelMemory

LEMMA HiloKmTipo ==
  ASSUME NEW P, NEW M, Bastan(P, M), TipoBaseEn(P, M),
         NEW O, NEW W, BastanKm(O, W), TipoKmEn(O, W), NEW c \in Cpus, AtenderCpu(c)
  PROVE  TipoKmEn(O, W)'
<1>1. CASE FinalizarEnKm(c)
  <2>1. [op |-> "FINALIZAR_PROCESO", pid |-> msg[c].pid] \in O
    BY MensajeDelHiloEn DEF TipoBaseEn, BastanKm, PedidosKm
  <2> QED
    BY <1>1, <2>1, PedirKmTipo DEF FinalizarEnKm
<1>2. CASE PedirCarga(c)
  <2>1. proximo_pid \in Pids
    BY <1>2, ConstantesOK DEF PedirCarga, TipoBaseEn, TipoProcesos, Pids
  <2>2. [op |-> "CARGA_PROCESO", pid |-> proximo_pid] \in O
    BY <2>1 DEF BastanKm, PedidosKm
  <2> QED
    BY <1>2, <2>2, PedirKmTipo DEF PedirCarga
<1>3. CASE UNCHANGED km
  BY <1>3, SinCambioKm
<1> QED
  BY <1>1, <1>2, <1>3
  DEF AtenderCpu, AtenderSinExit, RecibirExit, RecibirInterrupcion, RecibirSleep,
      RecibirInitProc, Recibir, Conectar, PublicarCpu, LiberarCpu, EsperarFin, EsperarKm,
      TerminarProceso, Bloquear, BloqueoPost, PedirIo, EsperarCarga, CrearProceso,
      RechazarProceso, ReadyPost, ReadyEncolar, ReadyAvisar

LEMMA AvisarKmTipo ==
  ASSUME NEW O, NEW W, BastanKm(O, W), TipoKmEn(O, W), NEW p \in Pids, Temporizador(p)
  PROVE  TipoKmEn(O, W)'
<1>1. CASE TimerAvisarKm(p)
  <2>1. [op |-> "SUSPENDER_PROCESO", pid |-> p] \in O
    BY DEF BastanKm, PedidosKm
  <2> QED
    BY <1>1, <2>1, PedirKmTipo DEF TimerAvisarKm
<1> QED
  BY <1>1, SinCambioKm DEF Temporizador, TimerRetirar, TimerSuspender

(* No other thread uses the sockets of Kernel Memory.                       *)
LEMMA SinKm ==
  ASSUME \/ LargoPlazo \/ CortoPlazo \/ AtenderIo \/ ConectarIo \/ IoServir
         \/ \E c \in Cpus : Cpu(c)
  PROVE  UNCHANGED km
<1>1. CASE LargoPlazo \/ CortoPlazo
  BY <1>1 DEF LargoPlazo, LargoEsperar, LargoSacar, LargoEncolar, LargoAvisar, CortoPlazo,
              CortoEsperarReady, CortoEsperarCpu, CortoSacar, CortoDespachar
<1>2. CASE AtenderIo \/ ConectarIo \/ IoServir
  BY <1>2 DEF AtenderIo, IoBuscarBlock, IoBuscarSusp, IoEncolar, IoAvisar, ConectarIo, IoServir
<1>3. CASE \E c \in Cpus : Cpu(c)
  BY <1>3 DEF Cpu, CpuTomar, CpuTerminar, CpuSleep, CpuInitProc, CpuInterrumpir, CpuPedir,
              CpuDevolver
<1> QED
  BY <1>1, <1>2, <1>3

(* The same lemmas for the scheduler without further system calls.          *)
LEMMA BastanLosSuyos ==
  Bastan(PasosHilo, Mensajes) /\ BastanKm(PedidosKm, {"OK", "ERROR"})
  BY DEF Bastan, BastanKm, Mensajes, PedidosKm

LEMMA SinCambios ==
  /\ TipoProcesos /\ UNCHANGED procesos => TipoProcesos'
  /\ TipoColas /\ UNCHANGED colas => TipoColas'
  /\ TipoSemaforos /\ UNCHANGED semaforos => TipoSemaforos'
  /\ TipoCpusKs /\ UNCHANGED cpus_ks => TipoCpusKs'
  /\ TipoLargo /\ UNCHANGED largo => TipoLargo'
  /\ TipoCorto /\ UNCHANGED corto => TipoCorto'
  /\ TipoHilos /\ UNCHANGED hilos => TipoHilos'
  /\ TipoIo /\ UNCHANGED io => TipoIo'
  /\ TipoTemps /\ UNCHANGED temps => TipoTemps'
  /\ TipoKm /\ UNCHANGED km => TipoKm'
  /\ TipoCpu /\ UNCHANGED cpu => TipoCpu'
  BY SinCambiosEn DEF TipoHilos, TipoCpu

LEMMA ConPcb ==
  ASSUME TipoHilos, NEW c \in Cpus,
         pc[c] \notin {"sin_conectar", "registrada", "recibir"}
  PROVE  pcb_h[c] \in Pids
  BY BastanLosSuyos, ConPcbEn DEF TipoHilos

LEMMA MensajeDelHilo ==
  ASSUME TipoHilos, NEW c \in Cpus
  PROVE  msg[c].pid \in Pids /\ msg[c].prio \in Prioridades
  BY BastanLosSuyos, MensajeDelHiloEn DEF TipoHilos

LEMMA InitTipo == Init => TipoBase
  BY BastanLosSuyos, InitTipoEn, InitKmTipo DEF TipoBase, TipoKm

LEMMA NextTipoKm ==
  ASSUME TipoBase, [Next]_vars
  PROVE  TipoKm'
<1>0. /\ BastanKm(PedidosKm, {"OK", "ERROR"}) /\ TipoKmEn(PedidosKm, {"OK", "ERROR"})
      /\ Bastan(PasosHilo, Mensajes) /\ TipoBaseEn(PasosHilo, Mensajes)
  BY BastanLosSuyos DEF TipoBase, TipoKm
<1>1. CASE KernelMemory \/ EscucharKm
  <2>1. EscucharKm => Head(respuestas_km) \in {"OK", "ERROR"}
    BY <1>0 DEF EscucharKm, TipoKmEn
  <2> QED
    BY <1>0, <1>1, <2>1, KernelMemoryTipo DEF TipoKm
<1>2. ASSUME NEW c \in Cpus, AtenderCpu(c)
      PROVE  TipoKm'
  BY <1>0, <1>2, HiloKmTipo DEF TipoKm
<1>3. ASSUME NEW p \in Pids, Temporizador(p)
      PROVE  TipoKm'
  BY <1>0, <1>3, AvisarKmTipo DEF TipoKm
<1>4. CASE UNCHANGED km
  BY <1>0, <1>4, SinCambioKm DEF TipoKm
<1> QED
  BY <1>1, <1>2, <1>3, <1>4, SinKm DEF Next, vars

LEMMA NextTipo == TipoBase /\ [Next]_vars => TipoBase'
<1> SUFFICES ASSUME TipoBase, [Next]_vars PROVE TipoBase'
  OBVIOUS
<1>0. TipoBaseEn(PasosHilo, Mensajes) /\ TipoKm'
  BY NextTipoKm DEF TipoBase
<1>1. CASE Next
  BY <1>0, <1>1, BastanLosSuyos, LargoTipo, CortoTipo, IoTipo, KmTipo, CpuTipo, MotivoTipo,
     HiloTipo, TemporizadorTipo
  DEF Next, AtenderCpu, AtenderSinExit, TipoBase
<1>2. CASE UNCHANGED vars
  BY <1>0, <1>2, SinCambiosEn DEF TipoBase, TipoBaseEn, vars
<1> QED BY <1>1, <1>2

(* Nobody asks a CPU for anything but the process it was marked with.       *)
LEMMA NextInterrupcion ==
  ASSUME TypeOK, [Next]_vars
  PROVE  TipoInterrupcion'
<1>0. TipoCpusKs /\ TipoInterrupcion
  BY DEF TypeOK, TipoBase, TipoBaseEn
<1>1. CASE LargoAvisar \/ IoAvisar
  BY <1>0, <1>1
  DEF LargoAvisar, IoAvisar, VerificarDesalojo, Desalojables, TipoCpusKs, TipoInterrupcion
<1>2. ASSUME NEW c \in Cpus, CpuInterrumpir(c)
      PROVE  TipoInterrupcion'
  BY <1>0, <1>2 DEF CpuInterrumpir, TipoInterrupcion
<1>3. CASE UNCHANGED interrupcion
  BY <1>0, <1>3 DEF TipoInterrupcion
<1>4. CASE LargoPlazo \/ CortoPlazo
  BY <1>1, <1>3, <1>4
  DEF LargoPlazo, LargoEsperar, LargoSacar, LargoEncolar, CortoPlazo, CortoEsperarReady,
      CortoEsperarCpu, CortoSacar, CortoDespachar, cpu
<1>5. CASE \/ AtenderIo \/ ConectarIo \/ IoServir \/ KernelMemory \/ EscucharKm
           \/ \E p \in Pids : Temporizador(p)
  BY <1>1, <1>3, <1>5
  DEF AtenderIo, IoBuscarBlock, IoBuscarSusp, IoEncolar, ConectarIo, IoServir, KernelMemory,
      KmCargar, KmFinalizar, KmSuspender, EscucharKm, Temporizador, TimerRetirar,
      TimerSuspender, TimerAvisarKm, cpu
<1>6. ASSUME NEW c \in Cpus, Cpu(c)
      PROVE  TipoInterrupcion'
  BY <1>2, <1>3, <1>6
  DEF Cpu, CpuTomar, CpuTerminar, CpuSleep, CpuInitProc, CpuPedir
<1>7. ASSUME NEW c \in Cpus, AtenderCpu(c)
      PROVE  UNCHANGED interrupcion
  BY <1>7
  DEF AtenderCpu, AtenderSinExit, RecibirExit, RecibirInterrupcion, RecibirSleep,
      RecibirInitProc, Recibir, Conectar, PublicarCpu, LiberarCpu, FinalizarEnKm, EsperarFin,
      EsperarKm, TerminarProceso, Bloquear, BloqueoPost, PedirIo, PedirCarga, EsperarCarga,
      CrearProceso, RechazarProceso, ReadyPost, ReadyEncolar, ReadyAvisar, cpu
<1> QED
  BY <1>3, <1>4, <1>5, <1>6, <1>7 DEF Next, vars, cpu

(* Every reachable state is well typed, and no thread works on a NULL PCB:  *)
(* the planners, the handlers and the device's thread always hold a process *)
(* when they write its state.                                               *)
THEOREM TiposCorrectos == Spec => []TypeOK
<1>1. Init => TypeOK
  BY InitTipo DEF Init, TypeOK, TipoInterrupcion
<1>2. TypeOK /\ [Next]_vars => TypeOK'
  BY NextTipo, NextInterrupcion DEF TypeOK
<1> QED
  BY <1>1, <1>2, PTL DEF Spec

-----------------------------------------------------------------------------
(* The permits of sem_cpus_libres.                                          *)
(*                                                                          *)
(* PermisosCpu is not inductive alone.  Freeing a CPU adds one to the free  *)
(* CPUs only if it was not free already: that is CpuDelHilo, which needs    *)
(* PermisosCpu in turn, because a dispatch that found no free CPU would     *)
(* lose a permit.  The inductive invariant is their conjunction.            *)

InvCpuEn(P, M, Q) == TipoBaseEn(P, M) /\ CpuDelHiloEn(Q) /\ PermisosCpu
InvCpu == TipoBase /\ CpuDelHilo /\ PermisosCpu

\* The steps Q before the CPU is freed, whatever a module adds to them.
BastanPasos(Q) ==
  /\ PasosConCpu \subseteq Q
  /\ Q \cap ({"sin_conectar", "recibir", "block_io", "ready_encolar", "ready_avisar"}
             \cup PasosPorPublicar) = {}

EnMano == pc_corto \in {"sacar", "despachar"}

LEMMA CpusFinitas ==
  ASSUME NEW P, NEW M, TipoBaseEn(P, M)
  PROVE  /\ IsFiniteSet(CpusLibres) /\ IsFiniteSet(PorPublicar)
         /\ Cardinality(CpusLibres) \in Nat /\ Cardinality(PorPublicar) \in Nat
<1>1. CpusLibres \subseteq Cpus /\ PorPublicar \subseteq Cpus
  BY DEF CpusLibres, PorPublicar, TipoBaseEn, TipoCpusKs
<1>2. IsFiniteSet(CpusLibres) /\ IsFiniteSet(PorPublicar)
  BY <1>1, ConstantesOK, FS_Subset
<1> QED
  BY <1>2, FS_CardinalityType

(* A step that leaves the CPUs, the permits and the pending posts alone.    *)
LEMMA SinCambioCpu ==
  ASSUME NEW P, NEW M, NEW Q, BastanPasos(Q), InvCpuEn(P, M, Q),
         UNCHANGED <<cpus_ks, sem_cpus_libres>>, EnMano' = EnMano,
         PorPublicar' = PorPublicar
  PROVE  PermisosCpu'
<1>1. CpusLibres' = CpusLibres
  BY DEF CpusLibres, cpus_ks
<1>2. Si(EnMano') = Si(EnMano)
  BY DEF Si
<1> QED
  BY <1>1, <1>2 DEF InvCpuEn, PermisosCpu, EnMano

(* What moving the handler of c to another step does to the pending posts.  *)
LEMMA IrPorPublicar ==
  ASSUME NEW P, NEW M, TipoBaseEn(P, M), NEW c \in Cpus, NEW paso, Ir(c, paso)
  PROVE  /\ paso \in PasosPorPublicar => PorPublicar' = PorPublicar \cup {c}
         /\ paso \notin PasosPorPublicar => PorPublicar' = PorPublicar \ {c}
         /\ \A d \in Cpus : pc'[d] = IF d = c THEN paso ELSE pc[d]
<1>1. \A d \in Cpus : pc'[d] = IF d = c THEN paso ELSE pc[d]
  BY DEF Ir, TipoBaseEn, TipoHilosEn
<1> QED
  BY <1>1 DEF PorPublicar

(* A handler moves between steps with nothing to post, keeping its PCB, or  *)
(* letting go of it.                                                        *)
LEMMA IrSinPermiso ==
  ASSUME NEW P, NEW M, NEW Q, BastanPasos(Q), InvCpuEn(P, M, Q),
         NEW c \in Cpus, NEW paso, Ir(c, paso),
         UNCHANGED <<cpus_ks, sem_cpus_libres, corto>>,
         paso \notin PasosPorPublicar, pc[c] \notin PasosPorPublicar,
         pc[c] # "sin_conectar", paso # "sin_conectar",
         paso \in Q => pcb_h'[c] = ejecutando[c],
         \A d \in Cpus \ {c} : pcb_h'[d] = pcb_h[d]
  PROVE  PermisosCpu' /\ CpuDelHiloEn(Q)'
<1>1. PorPublicar' = PorPublicar
  BY IrPorPublicar DEF InvCpuEn, PorPublicar
<1>2. PermisosCpu'
  BY <1>1, SinCambioCpu DEF EnMano, corto
<1>3. CpuDelHiloEn(Q)'
  BY IrPorPublicar DEF InvCpuEn, CpuDelHiloEn, cpus_ks, BastanPasos, PasosConCpu,
         PasosPorPublicar
<1> QED
  BY <1>2, <1>3

(* sem_post(&sem_cpus_libres) by the handler of c.                          *)
LEMMA IrPublicando ==
  ASSUME NEW P, NEW M, NEW Q, BastanPasos(Q), InvCpuEn(P, M, Q),
         NEW c \in Cpus, NEW paso, Ir(c, paso),
         UNCHANGED <<cpus_ks, corto>>, sem_cpus_libres' = sem_cpus_libres + 1,
         paso \notin PasosPorPublicar, pc[c] \in PasosPorPublicar,
         paso # "sin_conectar", paso \notin Q,
         \A d \in Cpus \ {c} : pcb_h'[d] = pcb_h[d]
  PROVE  PermisosCpu' /\ CpuDelHiloEn(Q)'
<1>1. PorPublicar' = PorPublicar \ {c} /\ c \in PorPublicar
  BY IrPorPublicar DEF InvCpuEn, PorPublicar
<1>2. Cardinality(PorPublicar') = Cardinality(PorPublicar) - 1
  BY <1>1, CpusFinitas, FS_RemoveElement DEF InvCpuEn
<1>3. CpusLibres' = CpusLibres /\ EnMano' = EnMano
  BY DEF CpusLibres, EnMano, cpus_ks, corto
<1>4. Si(EnMano') = Si(EnMano) /\ Si(EnMano) \in Nat
  BY <1>3 DEF Si
<1>5. PermisosCpu'
  BY <1>2, <1>3, <1>4, CpusFinitas
  DEF InvCpuEn, PermisosCpu, EnMano, TipoBaseEn, TipoSemaforos
<1>6. CpuDelHiloEn(Q)'
  BY IrPorPublicar DEF InvCpuEn, CpuDelHiloEn, cpus_ks, PasosPorPublicar, BastanPasos,
         PasosConCpu
<1> QED
  BY <1>5, <1>6

(* A CPU becomes free, and its handler owes the permit.                     *)
LEMMA IrLiberando ==
  ASSUME NEW P, NEW M, NEW Q, BastanPasos(Q), InvCpuEn(P, M, Q),
         NEW c \in Cpus, NEW paso, Ir(c, paso),
         UNCHANGED <<sem_cpus_libres, corto, pcb_h>>,
         c \notin CpusLibres, CpusLibres' = CpusLibres \cup {c},
         paso \in PasosPorPublicar, pc[c] \notin PasosPorPublicar,
         lista_cpus' = lista_cpus \cup {c}, ejecutando'[c] = NADIE,
         \A d \in Cpus \ {c} : ejecutando'[d] = ejecutando[d]
  PROVE  PermisosCpu' /\ CpuDelHiloEn(Q)'
<1>1. PorPublicar' = PorPublicar \cup {c} /\ c \notin PorPublicar
  BY IrPorPublicar DEF InvCpuEn, PorPublicar
<1>2. /\ Cardinality(PorPublicar') = Cardinality(PorPublicar) + 1
      /\ Cardinality(CpusLibres') = Cardinality(CpusLibres) + 1
  BY <1>1, CpusFinitas, FS_AddElement DEF InvCpuEn
<1>3. Si(EnMano') = Si(EnMano) /\ Si(EnMano) \in Nat
  BY DEF Si, EnMano, corto
<1>4. PermisosCpu'
  BY <1>2, <1>3, CpusFinitas DEF InvCpuEn, PermisosCpu, EnMano, TipoBaseEn, TipoSemaforos
<1>5. CpuDelHiloEn(Q)'
  BY IrPorPublicar DEF InvCpuEn, CpuDelHiloEn, PasosPorPublicar, PasosConCpu, BastanPasos
<1> QED
  BY <1>4, <1>5

-----------------------------------------------------------------------------
(* The short-term planner finds the CPU its permit stands for.              *)
LEMMA HayCpuEn ==
  ASSUME NEW P, NEW M, NEW Q, InvCpuEn(P, M, Q), pc_corto = "despachar"
  PROVE  CpusLibres # {}
<1>1. Si(pc_corto \in {"sacar", "despachar"}) = 1
  BY DEF Si
<1>2. Cardinality(CpusLibres) # 0
  BY <1>1, CpusFinitas DEF InvCpuEn, PermisosCpu, TipoBaseEn, TipoSemaforos
<1> QED
  BY <1>2, FS_EmptySet

LEMMA CortoPermisos ==
  ASSUME NEW P, NEW M, NEW Q, BastanPasos(Q), InvCpuEn(P, M, Q),
         CortoPlazo
  PROVE  PermisosCpu' /\ CpuDelHiloEn(Q)'
<1>0. CASE CortoEsperarReady \/ CortoSacar
  <2>1. PermisosCpu'
    BY <1>0, SinCambioCpu
    DEF CortoEsperarReady, CortoSacar, EnMano, PorPublicar, hilos, semaforos
  <2>2. CpuDelHiloEn(Q)'
    BY <1>0 DEF CortoEsperarReady, CortoSacar, InvCpuEn, CpuDelHiloEn, hilos,
         cpus_ks, BastanPasos, PasosConCpu, PasosPorPublicar
  <2> QED
    BY <2>1, <2>2
<1>1. CASE CortoEsperarCpu
  <2>1. Si(EnMano) = 0 /\ Si(EnMano') = 1
    BY <1>1 DEF CortoEsperarCpu, Si, EnMano
  <2>2. CpusLibres' = CpusLibres /\ PorPublicar' = PorPublicar
    BY <1>1 DEF CortoEsperarCpu, CpusLibres, PorPublicar, cpus_ks, hilos
  <2>3. PermisosCpu'
    BY <1>1, <2>1, <2>2, CpusFinitas
    DEF CortoEsperarCpu, InvCpuEn, PermisosCpu, EnMano, TipoBaseEn,
         TipoSemaforos
  <2>4. CpuDelHiloEn(Q)'
    BY <1>1 DEF CortoEsperarCpu, InvCpuEn, CpuDelHiloEn, hilos, cpus_ks,
         BastanPasos, PasosConCpu, PasosPorPublicar
  <2> QED
    BY <2>3, <2>4
<1>2. CASE CortoDespachar
  <2>1. PICK c \in CpusLibres : ejecutando' = [ejecutando EXCEPT ![c] = pcb_corto]
    BY <1>2, HayCpuEn DEF CortoDespachar
  <2>2. pcb_corto \in Pids /\ pcb_corto # NADIE /\ c \in Cpus
    BY <1>2, <2>1, ConstantesOK
    DEF CortoDespachar, InvCpuEn, TipoBaseEn, TipoCorto, TipoCpusKs,
         CpusLibres
  <2>3. \A d \in Cpus : ejecutando'[d] = IF d = c THEN pcb_corto ELSE ejecutando[d]
    BY <2>1 DEF InvCpuEn, TipoBaseEn, TipoCpusKs
  <2>4. lista_cpus' = lista_cpus /\ lista_cpus \subseteq Cpus
    BY <1>2 DEF CortoDespachar, InvCpuEn, TipoBaseEn, TipoCpusKs
  <2>5. CpusLibres' = CpusLibres \ {c}
    BY <2>2, <2>3, <2>4 DEF CpusLibres
  <2>6. Cardinality(CpusLibres') = Cardinality(CpusLibres) - 1
    BY <2>1, <2>5, CpusFinitas, FS_RemoveElement DEF InvCpuEn
  <2>7. PorPublicar' = PorPublicar /\ sem_cpus_libres' = sem_cpus_libres
    BY <1>2 DEF CortoDespachar, PorPublicar, hilos, semaforos
  <2>8. Si(EnMano) = 1 /\ Si(EnMano') = 0
    BY <1>2 DEF CortoDespachar, Si, EnMano
  <2>9. PermisosCpu'
    BY <2>6, <2>7, <2>8, CpusFinitas
    DEF InvCpuEn, PermisosCpu, EnMano, TipoBaseEn, TipoSemaforos
  <2>10. pc[c] \notin Q
    BY <2>1, <2>2 DEF CpusLibres, InvCpuEn, CpuDelHiloEn, TipoBaseEn, TipoHilosEn,
         PasosConCpu, BastanPasos, PasosPorPublicar
  <2>11. pc' = pc /\ pcb_h' = pcb_h
    BY <1>2 DEF CortoDespachar, hilos
  <2>12. CpuDelHiloEn(Q)'
    BY <2>1, <2>2, <2>3, <2>4, <2>10, <2>11 DEF InvCpuEn, CpuDelHiloEn, CpusLibres, BastanPasos, PasosConCpu,
         PasosPorPublicar
  <2> QED
    BY <2>9, <2>12
<1> QED
  BY <1>0, <1>1, <1>2 DEF CortoPlazo

(* Reading a motive: the handler takes the PCB the CPU is marked with.      *)
LEMMA MotivoPermisos ==
  ASSUME NEW P, NEW M, NEW Q, BastanPasos(Q), InvCpuEn(P, M, Q),
         NEW c \in Cpus, NEW m, NEW paso, Recibir(c, m, paso),
         paso \in Q
  PROVE  PermisosCpu' /\ CpuDelHiloEn(Q)'
<1>1. /\ Ir(c, paso) /\ pc[c] = "recibir"
      /\ UNCHANGED <<cpus_ks, sem_cpus_libres, corto>>
  BY DEF Recibir, semaforos
<1>2. pcb_h'[c] = ejecutando[c] /\ \A d \in Cpus \ {c} : pcb_h'[d] = pcb_h[d]
  BY DEF Recibir, InvCpuEn, TipoBaseEn, TipoHilosEn
<1> QED
  BY <1>1, <1>2, IrSinPermiso DEF PasosConCpu, PasosPorPublicar, BastanPasos

(* The steps of a handler that move it on without freeing or posting.       *)
LEMMA MediosPermisos ==
  ASSUME NEW P, NEW M, NEW Q, BastanPasos(Q), InvCpuEn(P, M, Q), NEW c \in Cpus,
         \/ FinalizarEnKm(c) \/ EsperarFin(c) \/ Bloquear(c) \/ PedirIo(c)
         \/ PedirCarga(c) \/ EsperarCarga(c) \/ CrearProceso(c) \/ RechazarProceso(c)
         \/ ReadyEncolar(c) \/ ReadyAvisar(c)
  PROVE  PermisosCpu' /\ CpuDelHiloEn(Q)'
<1>1. CASE PedirIo(c) \/ ReadyAvisar(c)
  <2>1. /\ Ir(c, "recibir") /\ pc[c] \in {"block_io", "ready_avisar"}
        /\ UNCHANGED <<cpus_ks, sem_cpus_libres, corto>>
    BY <1>1 DEF PedirIo, ReadyAvisar, SoltarPcb, semaforos
  <2>2. \A d \in Cpus \ {c} : pcb_h'[d] = pcb_h[d]
    BY <1>1 DEF PedirIo, ReadyAvisar, SoltarPcb, InvCpuEn, TipoBaseEn, TipoHilosEn
  <2> QED
    BY <2>1, <2>2, IrSinPermiso DEF PasosConCpu, PasosPorPublicar, BastanPasos
<1>2. CASE ReadyEncolar(c)
  <2>1. /\ Ir(c, "ready_avisar") /\ pc[c] = "ready_encolar"
        /\ UNCHANGED <<cpus_ks, sem_cpus_libres, corto, pcb_h>>
    BY <1>2 DEF ReadyEncolar, semaforos
  <2> QED
    BY <2>1, IrSinPermiso DEF PasosConCpu, PasosPorPublicar, BastanPasos
<1>3. CASE \/ FinalizarEnKm(c) \/ EsperarFin(c) \/ Bloquear(c)
           \/ PedirCarga(c) \/ EsperarCarga(c) \/ CrearProceso(c) \/ RechazarProceso(c)
  <2>1. UNCHANGED <<cpus_ks, sem_cpus_libres, corto, pcb_h>>
    BY <1>3
    DEF FinalizarEnKm, EsperarFin, Bloquear, PedirCarga, EsperarCarga,
         CrearProceso, RechazarProceso, EsperarKm, semaforos
  <2>2. PICK paso \in PasosConCpu : Ir(c, paso)
    BY <1>3
    DEF FinalizarEnKm, EsperarFin, Bloquear, PedirCarga, EsperarCarga,
         CrearProceso, RechazarProceso, EsperarKm, PasosConCpu,
         BastanPasos, PasosPorPublicar
  <2>3. pc[c] \in PasosConCpu
    BY <1>3
    DEF FinalizarEnKm, EsperarFin, Bloquear, PedirCarga, EsperarCarga,
         CrearProceso, RechazarProceso, EsperarKm, PasosConCpu,
         BastanPasos, PasosPorPublicar
  <2>4. pcb_h'[c] = ejecutando[c]
    BY <2>1, <2>3 DEF InvCpuEn, CpuDelHiloEn, BastanPasos, PasosConCpu, PasosPorPublicar
  <2> QED
    BY <2>1, <2>2, <2>3, <2>4, IrSinPermiso DEF PasosConCpu, PasosPorPublicar, BastanPasos
<1> QED
  BY <1>1, <1>2, <1>3

(* The steps that free a CPU: the handshake and the end of each handler.    *)
LEMMA LiberarPermisos ==
  ASSUME NEW P, NEW M, NEW Q, BastanPasos(Q), InvCpuEn(P, M, Q),
         NEW c \in Cpus, Conectar(c) \/ LiberarCpu(c)
  PROVE  PermisosCpu' /\ CpuDelHiloEn(Q)'
<1>1. CASE Conectar(c)
  <2>1. c \notin lista_cpus /\ ejecutando[c] = NADIE
    BY <1>1 DEF Conectar, InvCpuEn, CpuDelHiloEn, BastanPasos, PasosConCpu,
         PasosPorPublicar
  <2>2. c \notin CpusLibres /\ CpusLibres' = CpusLibres \cup {c}
    BY <1>1, <2>1 DEF Conectar, CpusLibres
  <2> QED
    BY <1>1, <2>1, <2>2, IrLiberando DEF Conectar, PasosPorPublicar, semaforos, BastanPasos, PasosConCpu
<1>2. CASE LiberarCpu(c)
  <2>1. pc[c] \in PasosConCpu /\ pc[c] # "sin_conectar"
    BY <1>2 DEF LiberarCpu, PasosConCpu, BastanPasos, PasosPorPublicar
  <2>2. ejecutando[c] # NADIE /\ c \in lista_cpus
    BY <2>1 DEF InvCpuEn, CpuDelHiloEn, TipoBaseEn, TipoHilosEn, PasosConCpu,
         BastanPasos, PasosPorPublicar
  <2>3. \A d \in Cpus : ejecutando'[d] = IF d = c THEN NADIE ELSE ejecutando[d]
    BY <1>2 DEF LiberarCpu, InvCpuEn, TipoBaseEn, TipoCpusKs
  <2>4. c \notin CpusLibres /\ CpusLibres' = CpusLibres \cup {c}
    BY <1>2, <2>2, <2>3 DEF LiberarCpu, CpusLibres, InvCpuEn, TipoBaseEn, TipoCpusKs
  <2>5. PICK paso \in {"exit_post", "block_post", "ready_post"} : Ir(c, paso)
    BY <1>2 DEF LiberarCpu
  <2>6. /\ UNCHANGED <<sem_cpus_libres, corto, pcb_h>>
        /\ lista_cpus' = lista_cpus \cup {c}
        /\ pc[c] \notin PasosPorPublicar
    BY <1>2, <2>2 DEF LiberarCpu, semaforos, PasosPorPublicar, BastanPasos, PasosConCpu
  <2> QED
    BY <2>3, <2>4, <2>5, <2>6, IrLiberando DEF PasosPorPublicar, BastanPasos, PasosConCpu
<1> QED
  BY <1>1, <1>2

(* The steps that post sem_cpus_libres.                                     *)
LEMMA PublicarPermisos ==
  ASSUME NEW P, NEW M, NEW Q, BastanPasos(Q), InvCpuEn(P, M, Q), NEW c \in Cpus,
         PublicarCpu(c) \/ TerminarProceso(c) \/ BloqueoPost(c) \/ ReadyPost(c)
  PROVE  PermisosCpu' /\ CpuDelHiloEn(Q)'
<1>1. /\ UNCHANGED <<cpus_ks, corto>> /\ sem_cpus_libres' = sem_cpus_libres + 1
      /\ pc[c] \in PasosPorPublicar
  BY DEF PublicarCpu, TerminarProceso, BloqueoPost, ReadyPost,
         PasosPorPublicar, BastanPasos, PasosConCpu
<1>2. \A d \in Cpus \ {c} : pcb_h'[d] = pcb_h[d]
  BY DEF PublicarCpu, TerminarProceso, BloqueoPost, ReadyPost, SoltarPcb,
         InvCpuEn, TipoBaseEn, TipoHilosEn
<1>3. PICK paso \in {"recibir", "block_io", "ready_encolar"} : Ir(c, paso)
  BY DEF PublicarCpu, TerminarProceso, BloqueoPost, ReadyPost, SoltarPcb
<1> QED
  BY <1>1, <1>2, <1>3, IrPublicando DEF PasosPorPublicar, PasosConCpu, BastanPasos

LEMMA HiloPermisos ==
  ASSUME NEW P, NEW M, NEW Q, BastanPasos(Q), InvCpuEn(P, M, Q),
         NEW c \in Cpus, AtenderCpu(c)
  PROVE  PermisosCpu' /\ CpuDelHiloEn(Q)'
<1>1. CASE RecibirExit(c) \/ RecibirInterrupcion(c) \/ RecibirSleep(c) \/ RecibirInitProc(c)
  <2>1. PICK m \in Mensajes, paso \in {"finalizar", "ready_liberar", "bloquear", "pedir_carga"} :
          Recibir(c, m, paso)
    BY <1>1 DEF RecibirExit, RecibirInterrupcion, RecibirSleep, RecibirInitProc
  <2> QED
    BY <2>1, MotivoPermisos DEF PasosConCpu, BastanPasos, PasosPorPublicar
<1> QED
  BY <1>1, MediosPermisos, LiberarPermisos, PublicarPermisos DEF AtenderCpu, AtenderSinExit

-----------------------------------------------------------------------------
(* No other thread touches the CPUs, their permits or their handlers.       *)
LEMMA OtrosPermisos ==
  ASSUME NEW P, NEW M, NEW Q, BastanPasos(Q), InvCpuEn(P, M, Q),
         \/ LargoPlazo \/ AtenderIo \/ ConectarIo \/ IoServir \/ KernelMemory
         \/ EscucharKm \/ UNCHANGED vars
         \/ \E c \in Cpus : Cpu(c)
         \/ \E p \in Pids : Temporizador(p)
  PROVE  PermisosCpu' /\ CpuDelHiloEn(Q)'
<1>1. UNCHANGED <<cpus_ks, sem_cpus_libres, corto, hilos>>
  <2>1. CASE LargoPlazo
    BY <2>1 DEF LargoPlazo, LargoEsperar, LargoSacar, LargoEncolar, LargoAvisar,
         semaforos
  <2>2. CASE AtenderIo \/ ConectarIo \/ IoServir
    BY <2>2 DEF AtenderIo, ConectarIo, IoServir, IoBuscarBlock, IoBuscarSusp,
         IoEncolar, IoAvisar, semaforos
  <2>3. CASE KernelMemory \/ EscucharKm \/ UNCHANGED vars
    BY <2>3 DEF KernelMemory, KmCargar, KmFinalizar, KmSuspender, EscucharKm,
         semaforos, vars
  <2>4. CASE \E c \in Cpus : Cpu(c)
    BY <2>4 DEF Cpu, CpuTomar, CpuTerminar, CpuSleep, CpuInitProc, CpuInterrumpir,
         CpuPedir, CpuDevolver, semaforos
  <2>5. CASE \E p \in Pids : Temporizador(p)
    BY <2>5 DEF Temporizador, TimerRetirar, TimerSuspender, TimerAvisarKm, semaforos
  <2> QED
    BY <2>1, <2>2, <2>3, <2>4, <2>5
<1>2. PermisosCpu'
  BY <1>1, SinCambioCpu DEF EnMano, PorPublicar, corto, hilos
<1>3. CpuDelHiloEn(Q)'
  BY <1>1 DEF InvCpuEn, CpuDelHiloEn, hilos, cpus_ks, BastanPasos, PasosConCpu,
         PasosPorPublicar
<1> QED
  BY <1>2, <1>3

LEMMA InitPermisosEn ==
  ASSUME NEW Q, BastanPasos(Q), Init
  PROVE  PermisosCpu /\ CpuDelHiloEn(Q)
<1>1. CpusLibres = {} /\ PorPublicar = {}
  BY DEF Init, CpusLibres, PorPublicar, PasosPorPublicar
<1>2. Si(EnMano) = 0
  BY DEF Init, Si, EnMano
<1>3. PermisosCpu
  BY <1>1, <1>2, FS_EmptySet DEF Init, PermisosCpu, EnMano
<1>4. CpuDelHiloEn(Q)
  BY DEF Init, CpuDelHiloEn, BastanPasos
<1> QED
  BY <1>3, <1>4

(* The same for the scheduler without further system calls.                 *)
LEMMA InvCpuSuyo ==
  /\ InvCpu <=> InvCpuEn(PasosHilo, Mensajes, PasosConCpu) /\ TipoKm
  /\ BastanPasos(PasosConCpu)
  BY DEF InvCpu, InvCpuEn, TipoBase, CpuDelHilo, BastanPasos, PasosConCpu, PasosPorPublicar

LEMMA HayCpu == InvCpu => HayCpuAlDespachar
  BY InvCpuSuyo, HayCpuEn DEF HayCpuAlDespachar

LEMMA PasoPermisos ==
  ASSUME InvCpu, [Next]_vars
  PROVE  InvCpu'
<1>0. InvCpuEn(PasosHilo, Mensajes, PasosConCpu) /\ BastanPasos(PasosConCpu)
  BY InvCpuSuyo
<1>1. TipoBase'
  BY NextTipo DEF InvCpu
<1>2. PermisosCpu' /\ CpuDelHiloEn(PasosConCpu)'
  BY <1>0, CortoPermisos, HiloPermisos, OtrosPermisos DEF Next
<1> QED
  BY <1>1, <1>2 DEF InvCpu, CpuDelHilo

(* The inductive invariant: types, the CPU of each handler and the permits. *)
THEOREM PermisosInvariante == Spec => []InvCpu
<1>1. Init => InvCpu
  BY InitTipo, InitPermisosEn, InvCpuSuyo DEF InvCpu, CpuDelHilo
<1>2. InvCpu /\ [Next]_vars => InvCpu'
  BY PasoPermisos
<1> QED
  BY <1>1, <1>2, PTL DEF Spec

(* sem_cpus_libres always accounts for the free CPUs of lista_cpus.         *)
THEOREM PermisosJustos == Spec => []PermisosCpu
<1>1. InvCpu => PermisosCpu
  BY DEF InvCpu
<1> QED
  BY <1>1, PermisosInvariante, PTL

(* Whatever a handler waits for, its CPU stays marked with its PCB.         *)
THEOREM CpuRetenida == Spec => []CpuDelHilo
<1>1. InvCpu => CpuDelHilo
  BY DEF InvCpu
<1> QED
  BY <1>1, PermisosInvariante, PTL

(* planificador_corto_plazo never drops the PCB it took from READY.         *)
THEOREM SiempreHayCpu == Spec => []HayCpuAlDespachar
  BY HayCpu, PermisosInvariante, PTL

-----------------------------------------------------------------------------
(* The permits of sem_procesos_ready.                                       *)
(*                                                                          *)
(* Four threads insert a PCB in READY and post in a later step; the         *)
(* short-term planner waits for the permit and takes a PCB in a later one.  *)
(* PermisosReady counts both gaps, and with the types it is inductive; the  *)
(* finiteness of the entries is carried along because Cardinality needs it. *)

InvReady == TipoBase /\ IsFiniteSet(EntradasReady) /\ PermisosReady
TipoReady(P, M) == TipoBaseEn(P, M) /\ IsFiniteSet(EntradasReady)

\* The threads that have inserted a PCB and not posted, and the planner
\* between its permit and the PCB.
PorAvisar == {c \in Cpus : pc[c] = "ready_avisar"}
ConPermiso == pc_corto \in {"esperar_cpu", "sacar"}
Deudas == Si(ConPermiso) + Si(pc_largo = "avisar") + Si(pc_io = "avisar")

\* What the permits exceed the PCBs in READY by: no step changes it.  A
\* module with more threads that post adds theirs to this balance.
Sobra ==
  sem_procesos_ready + Deudas + Cardinality(PorAvisar) - Cardinality(EntradasReady)

-----------------------------------------------------------------------------
(* The entries of READY.                                                    *)

LEMMA EsEntrada ==
  /\ \A k, i : <<k, i>> \in EntradasReady
                 <=> k \in Prioridades /\ i \in 1 .. Len(colas_ready[k])
  /\ \A e \in EntradasReady : e = <<e[1], e[2]>>
  BY DEF EntradasReady

LEMMA EsEntradaSig ==
  /\ \A k, i : <<k, i>> \in EntradasReady'
                 <=> k \in Prioridades /\ i \in 1 .. Len(colas_ready'[k])
  /\ \A e \in EntradasReady' : e = <<e[1], e[2]>>
  BY DEF EntradasReady

LEMMA SiTipo == \A b : Si(b) \in {0, 1}
  BY DEF Si

LEMMA PorAvisarFinito ==
  IsFiniteSet(PorAvisar) /\ Cardinality(PorAvisar) \in Nat
<1>1. IsFiniteSet(PorAvisar)
  BY ConstantesOK, FS_Subset DEF PorAvisar
<1> QED
  BY <1>1, FS_CardinalityType

(* list_add to the READY list of a process adds one entry.                  *)
LEMMA EncolarReady ==
  ASSUME NEW P, NEW M, TipoReady(P, M), NEW p \in Pids, colas_ready' = ListaReadyCon(p)
  PROVE  /\ IsFiniteSet(EntradasReady')
         /\ Cardinality(EntradasReady') = Cardinality(EntradasReady) + 1
<1> DEFINE k == prioridad[p]
           n == Len(colas_ready[k]) + 1
<1>1. k \in Prioridades /\ colas_ready \in [Prioridades -> Seq(Pids)]
  BY DEF TipoReady, TipoBaseEn, TipoProcesos, TipoColas
<1>2. \A j \in Prioridades : Len(colas_ready[j]) \in Nat
  BY <1>1
<1>3. \A j \in Prioridades :
        Len(colas_ready'[j]) = IF j = k THEN n ELSE Len(colas_ready[j])
  BY <1>1 DEF ListaReadyCon
<1>4. <<k, n>> \notin EntradasReady
  BY <1>1, <1>2, EsEntrada
<1>5. EntradasReady' = EntradasReady \cup {<<k, n>>}
  <2> HIDE DEF k, n
  <2>1. \A j \in Prioridades : \A i :
          i \in 1 .. Len(colas_ready'[j])
            <=> i \in 1 .. Len(colas_ready[j]) \/ (j = k /\ i = n)
    BY <1>1, <1>2, <1>3 DEF n
  <2>2. \A j, i : <<j, i>> \in EntradasReady'
                    <=> <<j, i>> \in EntradasReady \/ <<j, i>> = <<k, n>>
    BY <1>1, <2>1, EsEntrada, EsEntradaSig
  <2> QED
    BY <2>2, EsEntrada, EsEntradaSig
<1> QED
  BY <1>4, <1>5, FS_AddElement DEF TipoReady

(* list_remove of the head of a level takes one entry.                      *)
LEMMA SacarReady ==
  ASSUME NEW P, NEW M, TipoReady(P, M), CortoSacar
  PROVE  /\ IsFiniteSet(EntradasReady')
         /\ Cardinality(EntradasReady') = Cardinality(EntradasReady) - 1
<1>1. PICK k \in Prioridades :
        colas_ready[k] # <<>> /\ colas_ready' = [colas_ready EXCEPT ![k] = Tail(@)]
  BY DEF CortoSacar
<1> DEFINE n == Len(colas_ready[k])
<1>2. colas_ready \in [Prioridades -> Seq(Pids)]
  BY DEF TipoReady, TipoBaseEn, TipoColas
<1>3. n \in Nat /\ n > 0 /\ \A j \in Prioridades : Len(colas_ready[j]) \in Nat
  BY <1>1, <1>2
<1>4. \A j \in Prioridades :
        Len(colas_ready'[j]) = IF j = k THEN n - 1 ELSE Len(colas_ready[j])
  BY <1>1, <1>2
<1>5. <<k, n>> \in EntradasReady
  BY <1>3, EsEntrada
<1>6. EntradasReady' = EntradasReady \ {<<k, n>>}
  <2> HIDE DEF n
  <2>1. \A j \in Prioridades : \A i :
          i \in 1 .. Len(colas_ready'[j])
            <=> i \in 1 .. Len(colas_ready[j]) /\ ~ (j = k /\ i = n)
    BY <1>3, <1>4 DEF n
  <2>2. \A j, i : <<j, i>> \in EntradasReady'
                    <=> <<j, i>> \in EntradasReady /\ <<j, i>> # <<k, n>>
    BY <2>1, EsEntrada, EsEntradaSig
  <2> QED
    BY <2>2, EsEntrada, EsEntradaSig
<1> QED
  BY <1>5, <1>6, FS_RemoveElement DEF TipoReady

-----------------------------------------------------------------------------
(* What a step may do to the sum.                                           *)

\* The terms of the balance are numbers.
LEMMA Numeros ==
  ASSUME NEW P, NEW M, TipoReady(P, M)
  PROVE  /\ sem_procesos_ready \in Nat /\ Deudas \in Nat
         /\ Cardinality(PorAvisar) \in Nat /\ Cardinality(EntradasReady) \in Nat
<1>1. sem_procesos_ready \in Nat /\ Deudas \in Nat
  BY SiTipo DEF TipoReady, TipoBaseEn, TipoSemaforos, Deudas
<1> QED
  BY <1>1, PorAvisarFinito, FS_CardinalityType DEF TipoReady

(* A step that leaves the lists, the semaphore and the debts alone.         *)
LEMMA SinCambioReady ==
  ASSUME NEW P, NEW M, TipoReady(P, M), UNCHANGED <<colas_ready, sem_procesos_ready>>,
         Deudas' = Deudas, PorAvisar' = PorAvisar
  PROVE  IsFiniteSet(EntradasReady') /\ Sobra' = Sobra
<1>1. EntradasReady' = EntradasReady
  BY DEF EntradasReady
<1> QED
  BY <1>1, Numeros DEF Sobra, TipoReady

(* What moving the handler of c does to the posts it owes.                  *)
LEMMA IrPorAvisar ==
  ASSUME NEW P, NEW M, TipoBaseEn(P, M), NEW c \in Cpus, NEW paso, Ir(c, paso)
  PROVE  /\ paso = "ready_avisar" => PorAvisar' = PorAvisar \cup {c}
         /\ paso # "ready_avisar" => PorAvisar' = PorAvisar \ {c}
<1>1. \A d \in Cpus : pc'[d] = IF d = c THEN paso ELSE pc[d]
  BY DEF Ir, TipoBaseEn, TipoHilosEn
<1> QED
  BY <1>1 DEF PorAvisar

(* A handler that moves on without inserting or posting.                    *)
LEMMA IrSinReady ==
  ASSUME NEW P, NEW M, TipoReady(P, M), NEW c \in Cpus, NEW paso, Ir(c, paso),
         UNCHANGED <<colas_ready, sem_procesos_ready, largo, corto, io>>,
         paso # "ready_avisar", pc[c] # "ready_avisar"
  PROVE  IsFiniteSet(EntradasReady') /\ Sobra' = Sobra
<1>1. PorAvisar' = PorAvisar
  BY IrPorAvisar DEF TipoReady, PorAvisar
<1>2. Deudas' = Deudas
  BY DEF Deudas, ConPermiso, largo, corto, io
<1> QED
  BY <1>1, <1>2, SinCambioReady

-----------------------------------------------------------------------------
(* The planners.                                                            *)

LEMMA LargoReady ==
  ASSUME NEW P, NEW M, TipoReady(P, M), LargoPlazo
  PROVE  IsFiniteSet(EntradasReady') /\ Sobra' = Sobra
<1>1. PorAvisar' = PorAvisar
  BY DEF LargoPlazo, LargoEsperar, LargoSacar, LargoEncolar, LargoAvisar, PorAvisar, hilos
<1>2. CASE LargoEsperar \/ LargoSacar
  <2>1. Deudas' = Deudas
    BY <1>2 DEF LargoEsperar, LargoSacar, Deudas, ConPermiso, Si, corto, io
  <2> QED
    BY <1>1, <1>2, <2>1, SinCambioReady
    DEF LargoEsperar, LargoSacar, colas, semaforos
<1>3. CASE LargoEncolar
  <2>1. pcb_largo \in Pids
    BY <1>3 DEF LargoEncolar, TipoReady, TipoBaseEn, TipoLargo
  <2>2. Deudas' = Deudas + 1
    BY <1>3, SiTipo DEF LargoEncolar, Deudas, ConPermiso, Si, corto, io
  <2>3. sem_procesos_ready' = sem_procesos_ready /\ colas_ready' = ListaReadyCon(pcb_largo)
    BY <1>3 DEF LargoEncolar, semaforos
  <2> QED
    BY <1>1, <2>1, <2>2, <2>3, EncolarReady, Numeros DEF Sobra
<1>4. CASE LargoAvisar
  <2>1. Deudas' = Deudas - 1
    BY <1>4, SiTipo DEF LargoAvisar, Deudas, ConPermiso, Si, corto, io
  <2>2. sem_procesos_ready' = sem_procesos_ready + 1 /\ EntradasReady' = EntradasReady
    BY <1>4 DEF LargoAvisar, EntradasReady, colas
  <2> QED
    BY <1>1, <2>1, <2>2, Numeros DEF Sobra, TipoReady
<1> QED
  BY <1>2, <1>3, <1>4 DEF LargoPlazo

LEMMA CortoReady ==
  ASSUME NEW P, NEW M, TipoReady(P, M), CortoPlazo
  PROVE  IsFiniteSet(EntradasReady') /\ Sobra' = Sobra
<1>1. PorAvisar' = PorAvisar
  BY DEF CortoPlazo, CortoEsperarReady, CortoEsperarCpu, CortoSacar, CortoDespachar,
         PorAvisar, hilos
<1>2. CASE CortoEsperarReady
  <2>1. Deudas' = Deudas + 1
    BY <1>2, SiTipo DEF CortoEsperarReady, Deudas, ConPermiso, Si, largo, io
  <2>2. /\ sem_procesos_ready > 0 /\ sem_procesos_ready' = sem_procesos_ready - 1
        /\ EntradasReady' = EntradasReady
    BY <1>2 DEF CortoEsperarReady, EntradasReady, colas
  <2> QED
    BY <1>1, <2>1, <2>2, Numeros DEF Sobra, TipoReady
<1>3. CASE CortoSacar
  <2>1. Deudas' = Deudas - 1
    BY <1>3, SiTipo DEF CortoSacar, Deudas, ConPermiso, Si, largo, io
  <2>2. sem_procesos_ready' = sem_procesos_ready
    BY <1>3 DEF CortoSacar, semaforos
  <2> QED
    BY <1>1, <1>3, <2>1, <2>2, SacarReady, Numeros DEF Sobra
<1>4. CASE CortoEsperarCpu \/ CortoDespachar
  <2>1. Deudas' = Deudas
    BY <1>4 DEF CortoEsperarCpu, CortoDespachar, Deudas, ConPermiso, Si, largo, io
  <2> QED
    BY <1>1, <1>4, <2>1, SinCambioReady
    DEF CortoEsperarCpu, CortoDespachar, colas, semaforos
<1> QED
  BY <1>2, <1>3, <1>4 DEF CortoPlazo

(* The answer of the SLEEP device.                                          *)
LEMMA IoReady ==
  ASSUME NEW P, NEW M, TipoReady(P, M), AtenderIo
  PROVE  IsFiniteSet(EntradasReady') /\ Sobra' = Sobra
<1>1. PorAvisar' = PorAvisar
  BY DEF AtenderIo, IoBuscarBlock, IoBuscarSusp, IoEncolar, IoAvisar, PorAvisar, hilos
<1>2. CASE IoBuscarBlock \/ IoBuscarSusp
  <2>1. Deudas' = Deudas
    BY <1>2 DEF IoBuscarBlock, IoBuscarSusp, Deudas, ConPermiso, Si, largo, corto
  <2> QED
    BY <1>1, <1>2, <2>1, SinCambioReady DEF IoBuscarBlock, IoBuscarSusp, semaforos
<1>3. CASE IoEncolar
  <2>1. pcb_io \in Pids
    BY <1>3 DEF IoEncolar, TipoReady, TipoBaseEn, TipoIo
  <2>2. Deudas' = Deudas + 1
    BY <1>3, SiTipo DEF IoEncolar, Deudas, ConPermiso, Si, largo, corto
  <2>3. sem_procesos_ready' = sem_procesos_ready /\ colas_ready' = ListaReadyCon(pcb_io)
    BY <1>3 DEF IoEncolar, semaforos
  <2> QED
    BY <1>1, <2>1, <2>2, <2>3, EncolarReady, Numeros DEF Sobra
<1>4. CASE IoAvisar
  <2>1. Deudas' = Deudas - 1
    BY <1>4, SiTipo DEF IoAvisar, Deudas, ConPermiso, Si, largo, corto
  <2>2. sem_procesos_ready' = sem_procesos_ready + 1 /\ EntradasReady' = EntradasReady
    BY <1>4 DEF IoAvisar, EntradasReady, colas
  <2> QED
    BY <1>1, <2>1, <2>2, Numeros DEF Sobra, TipoReady
<1> QED
  BY <1>2, <1>3, <1>4 DEF AtenderIo

-----------------------------------------------------------------------------
(* The handlers of the CPUs.                                                *)

LEMMA HiloReady ==
  ASSUME NEW P, NEW M, TipoReady(P, M), NEW c \in Cpus, AtenderCpu(c)
  PROVE  IsFiniteSet(EntradasReady') /\ Sobra' = Sobra
<1>1. CASE ReadyEncolar(c)
  <2>1. pcb_h[c] \in Pids
    BY <1>1 DEF ReadyEncolar, TipoReady, TipoBaseEn, TipoHilosEn
  <2>2. PorAvisar' = PorAvisar \cup {c} /\ c \notin PorAvisar
    BY <1>1, IrPorAvisar DEF ReadyEncolar, TipoReady, PorAvisar
  <2>3. Cardinality(PorAvisar') = Cardinality(PorAvisar) + 1
    BY <2>2, PorAvisarFinito, FS_AddElement
  <2>4. Deudas' = Deudas /\ sem_procesos_ready' = sem_procesos_ready
    BY <1>1 DEF ReadyEncolar, Deudas, ConPermiso, largo, corto, io, semaforos
  <2> QED
    BY <1>1, <2>1, <2>3, <2>4, EncolarReady, Numeros DEF Sobra, ReadyEncolar
<1>2. CASE ReadyAvisar(c)
  <2>1. PorAvisar' = PorAvisar \ {c} /\ c \in PorAvisar
    BY <1>2, IrPorAvisar DEF ReadyAvisar, SoltarPcb, TipoReady, PorAvisar
  <2>2. Cardinality(PorAvisar') = Cardinality(PorAvisar) - 1
    BY <2>1, PorAvisarFinito, FS_RemoveElement
  <2>3. Deudas' = Deudas /\ EntradasReady' = EntradasReady
        /\ sem_procesos_ready' = sem_procesos_ready + 1
    BY <1>2 DEF ReadyAvisar, Deudas, ConPermiso, EntradasReady, largo, corto, io, colas
  <2> QED
    BY <2>2, <2>3, Numeros DEF Sobra, TipoReady
<1>3. CASE RecibirExit(c) \/ RecibirInterrupcion(c) \/ RecibirSleep(c) \/ RecibirInitProc(c)
  <2>1. PICK m \in Mensajes, paso \in {"finalizar", "ready_liberar", "bloquear", "pedir_carga"} :
          Recibir(c, m, paso)
    BY <1>3 DEF RecibirExit, RecibirInterrupcion, RecibirSleep, RecibirInitProc
  <2> QED
    BY <2>1, IrSinReady DEF Recibir, colas, semaforos
<1>4. CASE \/ Conectar(c) \/ PublicarCpu(c) \/ LiberarCpu(c) \/ TerminarProceso(c)
           \/ BloqueoPost(c) \/ PedirIo(c) \/ ReadyPost(c)
  <2>1. CASE PedirIo(c)
    <3>1. PorAvisar' = PorAvisar
      BY <2>1, IrPorAvisar DEF PedirIo, SoltarPcb, TipoReady, PorAvisar
    <3>2. Deudas' = Deudas
      BY <2>1 DEF PedirIo, Deudas, ConPermiso, largo, corto
    <3> QED
      BY <2>1, <3>1, <3>2, SinCambioReady DEF PedirIo, colas, semaforos
  <2>2. CASE Conectar(c) \/ PublicarCpu(c) \/ TerminarProceso(c) \/ BloqueoPost(c) \/ ReadyPost(c)
    <3>1. PICK paso \in {"registrada", "recibir", "block_io", "ready_encolar"} : Ir(c, paso)
      BY <2>2 DEF Conectar, PublicarCpu, TerminarProceso, BloqueoPost, ReadyPost, SoltarPcb
    <3>2. /\ UNCHANGED <<colas_ready, sem_procesos_ready, largo, corto, io>>
          /\ pc[c] # "ready_avisar"
      BY <2>2 DEF Conectar, PublicarCpu, TerminarProceso, BloqueoPost, ReadyPost, colas,
                  semaforos
    <3> QED
      BY <3>1, <3>2, IrSinReady
  <2>3. CASE LiberarCpu(c)
    <3>1. PICK paso \in {"exit_post", "block_post", "ready_post"} : Ir(c, paso)
      BY <2>3 DEF LiberarCpu
    <3> QED
      BY <2>3, <3>1, IrSinReady DEF LiberarCpu, colas, semaforos
  <2> QED
    BY <1>4, <2>1, <2>2, <2>3
<1>5. CASE \/ FinalizarEnKm(c) \/ EsperarFin(c) \/ Bloquear(c) \/ PedirCarga(c)
           \/ EsperarCarga(c) \/ CrearProceso(c) \/ RechazarProceso(c)
  <2>1. PICK paso \in {"esperar_fin", "exit_liberar", "block_liberar", "esperar_carga",
                       "evaluar", "ready_liberar"} : Ir(c, paso)
    BY <1>5 DEF FinalizarEnKm, EsperarFin, Bloquear, PedirCarga, EsperarCarga, CrearProceso,
                RechazarProceso, EsperarKm
  <2>2. /\ UNCHANGED <<colas_ready, sem_procesos_ready, largo, corto, io>>
        /\ pc[c] # "ready_avisar"
    BY <1>5 DEF FinalizarEnKm, EsperarFin, Bloquear, PedirCarga, EsperarCarga, CrearProceso,
                RechazarProceso, EsperarKm, colas, semaforos
  <2> QED
    BY <2>1, <2>2, IrSinReady
<1> QED
  BY <1>1, <1>2, <1>3, <1>4, <1>5 DEF AtenderCpu, AtenderSinExit

(* No other thread inserts in READY, takes from it or posts.                *)
LEMMA OtrosReady ==
  ASSUME NEW P, NEW M, TipoReady(P, M),
         \/ ConectarIo \/ IoServir \/ KernelMemory \/ EscucharKm \/ UNCHANGED vars
         \/ \E c \in Cpus : Cpu(c)
         \/ \E p \in Pids : Temporizador(p)
  PROVE  IsFiniteSet(EntradasReady') /\ Sobra' = Sobra
<1>1. UNCHANGED <<colas_ready, sem_procesos_ready, largo, corto, pc_io, hilos>>
  <2>1. CASE ConectarIo \/ IoServir
    BY <2>1 DEF ConectarIo, IoServir, colas, semaforos
  <2>2. CASE KernelMemory \/ EscucharKm \/ UNCHANGED vars
    BY <2>2 DEF KernelMemory, KmCargar, KmFinalizar, KmSuspender, EscucharKm, colas,
                semaforos, io, vars
  <2>3. CASE \E c \in Cpus : Cpu(c)
    BY <2>3 DEF Cpu, CpuTomar, CpuTerminar, CpuSleep, CpuInitProc, CpuInterrumpir,
                CpuPedir, CpuDevolver, colas, semaforos, io
  <2>4. CASE \E p \in Pids : Temporizador(p)
    BY <2>4 DEF Temporizador, TimerRetirar, TimerSuspender, TimerAvisarKm, colas,
                semaforos, io
  <2> QED
    BY <2>1, <2>2, <2>3, <2>4
<1>2. PorAvisar' = PorAvisar /\ Deudas' = Deudas
  BY <1>1 DEF PorAvisar, Deudas, ConPermiso, hilos, largo, corto
<1> QED
  BY <1>1, <1>2, SinCambioReady

LEMMA InitReady == Init => InvReady
<1> SUFFICES ASSUME Init PROVE InvReady
  OBVIOUS
<1>1. EntradasReady = {}
  <2>1. \A k \in Prioridades : Len(colas_ready[k]) = 0
    BY DEF Init
  <2> QED
    BY <2>1, EsEntrada
<1>2. {c \in Cpus : pc[c] = "ready_avisar"} = {}
  BY DEF Init
<1>3. PermisosReady
  <2>1. /\ Cardinality(EntradasReady) = 0
        /\ Cardinality({c \in Cpus : pc[c] = "ready_avisar"}) = 0
    BY <1>1, <1>2, FS_EmptySet
  <2>2. /\ Si(pc_corto \in {"esperar_cpu", "sacar"}) = 0
        /\ Si(pc_largo = "avisar") = 0 /\ Si(pc_io = "avisar") = 0
        /\ sem_procesos_ready = 0
    BY DEF Init, Si
  <2> QED
    BY <2>1, <2>2 DEF PermisosReady
<1>4. IsFiniteSet(EntradasReady)
  BY <1>1, FS_EmptySet
<1> QED
  BY <1>3, <1>4, InitTipo DEF InvReady

(* PermisosReady says that nothing is left over.                            *)
LEMMA EsSobra ==
  TipoReady(PasosHilo, Mensajes) => (PermisosReady <=> Sobra = 0)
<1> SUFFICES ASSUME TipoReady(PasosHilo, Mensajes)
             PROVE  PermisosReady <=> Sobra = 0
  OBVIOUS
<1>1. PermisosReady <=>
        sem_procesos_ready + Si(ConPermiso) + Si(pc_largo = "avisar") + Si(pc_io = "avisar")
          + Cardinality(PorAvisar) = Cardinality(EntradasReady)
  BY DEF PermisosReady, ConPermiso, PorAvisar
<1>2. /\ sem_procesos_ready \in Nat /\ Cardinality(PorAvisar) \in Nat
      /\ Cardinality(EntradasReady) \in Nat
  BY Numeros
<1> DEFINE a == Si(ConPermiso)
           b == Si(pc_largo = "avisar")
           d == Si(pc_io = "avisar")
<1>3. a \in Nat /\ b \in Nat /\ d \in Nat
  BY SiTipo
<1>4. Sobra = sem_procesos_ready + (a + b + d)
                + Cardinality(PorAvisar) - Cardinality(EntradasReady)
  BY DEF Sobra, Deudas
<1>5. PermisosReady <=>
        sem_procesos_ready + a + b + d + Cardinality(PorAvisar) = Cardinality(EntradasReady)
  BY <1>1
<1> HIDE DEF a, b, d
<1> QED
  BY <1>2, <1>3, <1>4, <1>5

(* PermisosReadyInvariante: types and permits of READY, together inductive. *)
THEOREM PermisosReadyInvariante == Spec => []InvReady
<1>1. Init => InvReady
  BY InitReady
<1>2. InvReady /\ [Next]_vars => InvReady'
  <2> SUFFICES ASSUME InvReady, [Next]_vars PROVE InvReady'
    OBVIOUS
  <2>1. TipoBase' /\ TipoReady(PasosHilo, Mensajes)
    BY NextTipo DEF InvReady, TipoReady, TipoBase
  <2>2. IsFiniteSet(EntradasReady') /\ Sobra' = Sobra
    BY <2>1, LargoReady, CortoReady, IoReady, HiloReady, OtrosReady DEF Next
  <2>3. (TipoReady(PasosHilo, Mensajes) => (PermisosReady <=> Sobra = 0))'
    BY EsSobra, PTL
  <2> QED
    BY <2>1, <2>2, <2>3, EsSobra DEF InvReady, TipoReady, TipoBase
<1> QED
  BY <1>1, <1>2, PTL DEF Spec

(* PermisosReadyJustos: sem_procesos_ready, the posts to come and the       *)
(* permit in use always add up to the PCBs in READY.                        *)
THEOREM PermisosReadyJustos == Spec => []PermisosReady
<1>1. InvReady => PermisosReady
  BY DEF InvReady
<1> QED
  BY <1>1, PermisosReadyInvariante, PTL

(* HayReadyAlSacar: when the short-term planner takes a PCB some level is   *)
(* not empty; otherwise pcb->estado would dereference NULL.                 *)
HayReadyAlSacar == pc_corto = "sacar" => EntradasReady # {}

(* SiempreHayReady: planificador_corto_plazo never takes a NULL PCB.        *)
THEOREM SiempreHayReady == Spec => []HayReadyAlSacar
<1>1. InvReady => HayReadyAlSacar
  <2> SUFFICES ASSUME InvReady, pc_corto = "sacar" PROVE EntradasReady # {}
    BY DEF HayReadyAlSacar
  <2>1. Deudas > 0
    BY SiTipo DEF Deudas, ConPermiso, Si
  <2>2. TipoReady(PasosHilo, Mensajes) /\ Sobra = 0
    BY EsSobra DEF InvReady, TipoReady, TipoBase
  <2>3. Cardinality(EntradasReady) # 0
    BY <2>1, <2>2, Numeros DEF Sobra
  <2> QED
    BY <2>3, FS_EmptySet
<1> QED
  BY <1>1, PermisosReadyInvariante, PTL

=============================================================================

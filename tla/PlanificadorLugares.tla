------------------------- MODULE PlanificadorLugares -------------------------
(***************************************************************************)
(* The motive of a process is applied to that process, for every number of *)
(* processes and CPUs: a CPU marked as executing p has p's dispatch, p     *)
(* itself, p's motive or nothing at all on its side, and it has nothing    *)
(* while its handler serves a motive.                                      *)
(*                                                                         *)
(* No PCB is lost or duplicated, for every number of pids, CPUs and READY  *)
(* levels, when a single script contains INIT_PROC.                        *)
(*                                                                         *)
(* A place is a kind of list, CPU or thread and a position in it.  Every   *)
(* step either leaves the places alone, moves one PCB from the place it    *)
(* has to another, shifts a list, or gives a place to a process that had   *)
(* none; with two scripts that create, two handlers may work with the same *)
(* proximo_pid, and the last kind of step is no longer safe.               *)
(*                                                                         *)
(* The threads implement the life cycle of ProcesosAbs.                    *)
(***************************************************************************)
EXTENDS PlanificadorProofs

Libre(c) == despachos[c] = <<>> /\ corre[c] = NADIE /\ motivos[c] = <<>>

(* A system call INIT_PROC comes from a script that contains one.           *)
MotivoDeEn(M, p) ==
  {m \in M : m.pid = p /\ (m.syscall = "S_INIT_PROC" => p \in Creadores)}

(* ConSuProceso: what CPU c holds is the process it is marked with, once.   *)
(* P, M and Q are the steps of a handler, the messages of a CPU and the     *)
(* steps with a CPU, as in PlanificadorProofs.                              *)
ConSuProcesoEn(M, Q, c) ==
  /\ ejecutando[c] \in Pids /\ pc[c] \notin Q
  /\ \/ despachos[c] = <<ejecutando[c]>> /\ corre[c] = NADIE /\ motivos[c] = <<>>
     \/ despachos[c] = <<>> /\ corre[c] = ejecutando[c] /\ motivos[c] = <<>>
     \/ /\ despachos[c] = <<>> /\ corre[c] = NADIE
        /\ \E m \in MotivoDeEn(M, ejecutando[c]) : motivos[c] = <<m>>
LadoCpuEn(M, Q) == \A c \in Cpus : Libre(c) \/ ConSuProcesoEn(M, Q, c)
InvMotivosEn(P, M, Q) == InvCpuEn(P, M, Q) /\ LadoCpuEn(M, Q)

ConSuProceso(c) == ConSuProcesoEn(Mensajes, PasosConCpu, c)
LadoCpu == LadoCpuEn(Mensajes, PasosConCpu)
InvMotivos == InvCpu /\ LadoCpu

(* A CPU whose variables do not change, and whose handler does not start to *)
(* serve a motive.                                                          *)
LEMMA CpuQuieta ==
  ASSUME NEW M, NEW Q, NEW c \in Cpus, Libre(c) \/ ConSuProcesoEn(M, Q, c),
         despachos'[c] = despachos[c], corre'[c] = corre[c], motivos'[c] = motivos[c],
         Libre(c) \/ (ejecutando'[c] = ejecutando[c] /\ pc'[c] \notin Q)
  PROVE  Libre(c)' \/ ConSuProcesoEn(M, Q, c)'
<1>1. CASE Libre(c)
  BY <1>1 DEF Libre
<1>2. CASE ConSuProcesoEn(M, Q, c) /\ ejecutando'[c] = ejecutando[c] /\ pc'[c] \notin Q
  BY <1>2 DEF ConSuProcesoEn
<1> QED
  BY <1>1, <1>2

(* The CPUs but c are left alone.                                           *)
LEMMA OtrasQuietas ==
  ASSUME NEW M, NEW Q, LadoCpuEn(M, Q), NEW c \in Cpus,
         \A d \in Cpus \ {c} : /\ despachos'[d] = despachos[d] /\ corre'[d] = corre[d]
                              /\ motivos'[d] = motivos[d] /\ pc'[d] = pc[d]
                              /\ ejecutando'[d] = ejecutando[d],
         Libre(c)' \/ ConSuProcesoEn(M, Q, c)'
  PROVE  LadoCpuEn(M, Q)'
<1> SUFFICES ASSUME NEW d \in Cpus \ {c}
             PROVE  Libre(d)' \/ ConSuProcesoEn(M, Q, d)'
  BY DEF LadoCpuEn
<1>1. Libre(d) \/ ConSuProcesoEn(M, Q, d)
  BY DEF LadoCpuEn
<1>2. ConSuProcesoEn(M, Q, d) => pc[d] \notin Q
  BY DEF ConSuProcesoEn
<1> QED
  BY <1>1, <1>2, CpuQuieta

(* A CPU returns the process it runs.                                       *)
LEMMA DevolverMotivos ==
  ASSUME NEW P, NEW M, NEW Q, InvMotivosEn(P, M, Q), NEW c \in Cpus, NEW m \in M,
         corre[c] # NADIE, m.pid = corre[c],
         m.syscall = "S_INIT_PROC" => corre[c] \in Creadores, CpuDevolver(c, m),
         UNCHANGED <<ejecutando, pc>>
  PROVE  LadoCpuEn(M, Q)'
<1>0. TipoCpuEn(M) /\ (Libre(c) \/ ConSuProcesoEn(M, Q, c))
  BY DEF InvMotivosEn, InvCpuEn, TipoBaseEn, LadoCpuEn
<1>1. /\ ConSuProcesoEn(M, Q, c) /\ despachos[c] = <<>> /\ corre[c] = ejecutando[c]
      /\ motivos[c] = <<>>
  BY <1>0 DEF Libre, ConSuProcesoEn
<1>2. motivos'[c] = <<m>> /\ despachos' = despachos /\ corre'[c] = NADIE
  BY <1>0, <1>1 DEF CpuDevolver, TipoCpuEn
<1>3. m \in MotivoDeEn(M, ejecutando[c])
  BY <1>1 DEF MotivoDeEn
<1>4. ConSuProcesoEn(M, Q, c)'
  BY <1>1, <1>2, <1>3 DEF ConSuProcesoEn, MotivoDeEn
<1>5. \A d \in Cpus \ {c} : corre'[d] = corre[d] /\ motivos'[d] = motivos[d]
  BY <1>0 DEF CpuDevolver, TipoCpuEn
<1> QED
  BY <1>2, <1>4, <1>5, CpuQuieta DEF InvMotivosEn, LadoCpuEn, ConSuProcesoEn

(* Steps of the CPU.                                                        *)
LEMMA CpuMotivos ==
  ASSUME NEW P, NEW M, NEW Q, Bastan(P, M), BastanPasos(Q), InvMotivosEn(P, M, Q),
         NEW c \in Cpus, Cpu(c)
  PROVE  LadoCpuEn(M, Q)'
<1>0. TipoBaseEn(P, M) /\ TipoCpuEn(M) /\ UNCHANGED <<ejecutando, pc>>
  BY DEF InvMotivosEn, InvCpuEn, TipoBaseEn, TipoCpuEn, Cpu, CpuTomar, CpuTerminar, CpuSleep,
      CpuInitProc, CpuInterrumpir, CpuPedir, CpuDevolver, cpus_ks, hilos
<1>1. Libre(c) \/ ConSuProcesoEn(M, Q, c)
  BY DEF InvMotivosEn, LadoCpuEn
<1>2. CASE CpuTomar(c)
  <2>1. /\ ConSuProcesoEn(M, Q, c) /\ despachos[c] = <<ejecutando[c]>> /\ corre[c] = NADIE
        /\ motivos[c] = <<>>
    BY <1>1, <1>2, ConstantesOK DEF CpuTomar, Libre, ConSuProcesoEn
  <2>2. Head(despachos[c]) = ejecutando[c] /\ Tail(despachos[c]) = <<>>
    BY <2>1
  <2>3. /\ despachos'[c] = <<>> /\ motivos' = motivos
        /\ corre'[c] \in {NADIE, ejecutando[c]}
    BY <1>0, <1>2, <2>1, <2>2 DEF CpuTomar, TipoCpuEn
  <2>4. Libre(c)' \/ ConSuProcesoEn(M, Q, c)'
    BY <1>0, <2>1, <2>3 DEF Libre, ConSuProcesoEn
  <2>5. \A d \in Cpus \ {c} : /\ despachos'[d] = despachos[d] /\ corre'[d] = corre[d]
                              /\ motivos'[d] = motivos[d]
    BY <1>0, <1>2 DEF CpuTomar, TipoCpuEn
  <2> QED
    BY <1>0, <2>4, <2>5, CpuQuieta DEF InvMotivosEn, LadoCpuEn, ConSuProcesoEn
<1>4. corre[c] # NADIE => corre[c] \in Pids
  BY <1>0 DEF TipoCpuEn
<1>5. CASE CpuTerminar(c) \/ CpuInterrumpir(c)
  <2>1. PICK m \in {[SinMensaje EXCEPT !.pid = corre[c]],
                    [SinMensaje EXCEPT !.motivo = "MOTIVO_INTERRUPCION", !.pid = corre[c]]} :
          corre[c] # NADIE /\ CpuDevolver(c, m)
    BY <1>5 DEF CpuTerminar, CpuInterrumpir
  <2>2. m \in M
    BY <1>4, <2>1, MensajeDeExit DEF Bastan
  <2>3. m.pid = corre[c] /\ m.syscall = ""
    BY <2>1 DEF SinMensaje
  <2> QED
    BY <1>0, <2>1, <2>2, <2>3, DevolverMotivos
<1>6. CASE CpuSleep(c) \/ CpuInitProc(c)
  <2>1. PICK s \in {"S_SLEEP", "S_INIT_PROC"}, k \in Prioridades :
          /\ s = "S_INIT_PROC" => corre[c] \in Creadores
          /\ CpuPedir(c, s, k)
    BY <1>6, ConstantesOK DEF CpuSleep, CpuInitProc, Prioridades
  <2> DEFINE m == [motivo |-> "MOTIVO_SYSCALL", pid |-> corre[c], syscall |-> s, prio |-> k]
  <2>2. corre[c] # NADIE /\ CpuDevolver(c, m)
    BY <2>1 DEF CpuPedir
  <2>3. m \in M
    BY <1>4, <2>1, <2>2 DEF Mensajes, Bastan
  <2>4. m.pid = corre[c] /\ (m.syscall = "S_INIT_PROC" => corre[c] \in Creadores)
    BY <2>1
  <2> HIDE DEF m
  <2> QED
    BY <1>0, <2>2, <2>3, <2>4, DevolverMotivos
<1> QED
  BY <1>2, <1>5, <1>6 DEF Cpu

(* Steps of the handler of a CPU.                                           *)
LEMMA HiloMotivos ==
  ASSUME NEW P, NEW M, NEW Q, Bastan(P, M), BastanPasos(Q), InvMotivosEn(P, M, Q),
         NEW c \in Cpus, AtenderCpu(c)
  PROVE  LadoCpuEn(M, Q)'
<1>0. /\ TipoBaseEn(P, M) /\ CpuDelHiloEn(Q) /\ LadoCpuEn(M, Q)
      /\ Libre(c) \/ ConSuProcesoEn(M, Q, c)
  BY DEF InvMotivosEn, InvCpuEn, LadoCpuEn
<1>1. \A d \in Cpus \ {c} : pc'[d] = pc[d] /\ ejecutando'[d] = ejecutando[d]
  BY <1>0
  DEF AtenderCpu, AtenderSinExit, RecibirExit, RecibirInterrupcion, RecibirSleep,
      RecibirInitProc, Recibir, Conectar, PublicarCpu, LiberarCpu, FinalizarEnKm, EsperarFin,
      EsperarKm, TerminarProceso, Bloquear, BloqueoPost, PedirIo, PedirCarga, EsperarCarga,
      CrearProceso, RechazarProceso, ReadyPost, ReadyEncolar, ReadyAvisar, SoltarPcb, Ir,
      cpus_ks, TipoBaseEn, TipoHilosEn, TipoCpusKs
<1>2. ASSUME UNCHANGED <<despachos, corre, motivos>>,
             Libre(c) \/ (ejecutando'[c] = ejecutando[c] /\ pc'[c] \notin Q)
      PROVE  LadoCpuEn(M, Q)'
  <2>1. LadoCpuEn(M, Q)
    BY DEF InvMotivosEn
  <2>2. Libre(c)' \/ ConSuProcesoEn(M, Q, c)'
    BY <1>0, <1>2, CpuQuieta
  <2> QED
    BY <1>1, <1>2, <2>1, <2>2, OtrasQuietas
<1>3. CASE pc[c] \in Q
  <2>1. Libre(c) /\ pc[c] # "recibir"
    BY <1>0, <1>3 DEF ConSuProcesoEn, PasosConCpu, BastanPasos
  <2>2. UNCHANGED <<despachos, corre, motivos>>
    BY <2>1
    DEF AtenderCpu, AtenderSinExit, RecibirExit, RecibirInterrupcion, RecibirSleep,
        RecibirInitProc, Recibir, Conectar, PublicarCpu, LiberarCpu, FinalizarEnKm,
        EsperarFin, EsperarKm, TerminarProceso, Bloquear, BloqueoPost, PedirIo, PedirCarga,
        EsperarCarga, CrearProceso, RechazarProceso, ReadyPost, ReadyEncolar, ReadyAvisar,
        cpu
  <2> QED
    BY <1>2, <2>1, <2>2
<1>4. CASE \/ Conectar(c) \/ PublicarCpu(c) \/ TerminarProceso(c) \/ BloqueoPost(c)
           \/ PedirIo(c) \/ ReadyPost(c) \/ ReadyEncolar(c) \/ ReadyAvisar(c)
  <2>1. /\ UNCHANGED <<despachos, corre, motivos, ejecutando>>
        /\ pc'[c] \in {"registrada", "recibir", "block_io", "ready_encolar", "ready_avisar"}
    BY <1>0, <1>4
    DEF Conectar, PublicarCpu, TerminarProceso, BloqueoPost, PedirIo, ReadyPost,
        ReadyEncolar, ReadyAvisar, SoltarPcb, Ir, cpu, cpus_ks, TipoBaseEn, TipoHilosEn
  <2> QED
    BY <1>2, <2>1 DEF PasosPorPublicar, BastanPasos
<1>5. CASE RecibirExit(c) \/ RecibirInterrupcion(c) \/ RecibirSleep(c) \/ RecibirInitProc(c)
  <2>1. PICK m, paso : Recibir(c, m, paso)
    BY <1>5 DEF RecibirExit, RecibirInterrupcion, RecibirSleep, RecibirInitProc
  <2>2. PICK m2 : motivos[c] = <<m2>> /\ despachos[c] = <<>> /\ corre[c] = NADIE
    BY <1>0, <2>1 DEF Recibir, Libre, ConSuProcesoEn
  <2>3. Tail(motivos[c]) = <<>>
    BY <2>2
  <2>4. Libre(c)' /\ UNCHANGED <<despachos, corre>>
    BY <1>0, <2>1, <2>2, <2>3 DEF Recibir, Libre, TipoBaseEn, TipoCpuEn
  <2>5. \A d \in Cpus \ {c} : motivos'[d] = motivos[d]
    BY <1>0, <2>1 DEF Recibir, TipoBaseEn, TipoCpuEn
  <2> QED
    BY <1>0, <1>1, <2>4, <2>5, OtrasQuietas
<1>6. CASE \/ LiberarCpu(c) \/ FinalizarEnKm(c) \/ EsperarFin(c) \/ Bloquear(c)
           \/ PedirCarga(c) \/ EsperarCarga(c) \/ CrearProceso(c) \/ RechazarProceso(c)
  BY <1>3, <1>6
  DEF LiberarCpu, FinalizarEnKm, EsperarFin, EsperarKm, Bloquear, PedirCarga, EsperarCarga,
      CrearProceso, RechazarProceso, PasosConCpu, BastanPasos
<1> QED
  BY <1>4, <1>5, <1>6 DEF AtenderCpu, AtenderSinExit

(* The dispatch.                                                            *)
LEMMA DespachoMotivos ==
  ASSUME NEW P, NEW M, NEW Q, Bastan(P, M), BastanPasos(Q), InvMotivosEn(P, M, Q),
         CortoDespachar
  PROVE  LadoCpuEn(M, Q)'
<1>0. TipoBaseEn(P, M) /\ CpuDelHiloEn(Q) /\ LadoCpuEn(M, Q) /\ InvCpuEn(P, M, Q)
  BY DEF InvMotivosEn, InvCpuEn
<1>1. PICK c \in CpusLibres : /\ ejecutando' = [ejecutando EXCEPT ![c] = pcb_corto]
                              /\ despachos' = [despachos EXCEPT ![c] = Append(@, pcb_corto)]
  BY <1>0, HayCpuEn DEF CortoDespachar
<1>2. c \in Cpus /\ ejecutando[c] = NADIE /\ pcb_corto \in Pids
  BY <1>0, <1>1 DEF CpusLibres, TipoBaseEn, TipoCpusKs, TipoCorto, CortoDespachar
<1>3. Libre(c) /\ pc[c] \notin Q
  <2>1. Libre(c)
    BY <1>0, <1>2, ConstantesOK DEF LadoCpuEn, ConSuProcesoEn
  <2>2. pc[c] \in Q => pcb_h[c] \in Pids
    <3>1. pc[c] \in Q => pc[c] \notin {"sin_conectar", "registrada", "recibir"}
      BY DEF BastanPasos, PasosPorPublicar
    <3> QED
      BY <1>0, <1>2, <3>1, ConPcbEn DEF TipoBaseEn
  <2> QED
    BY <1>0, <1>2, <2>1, <2>2, ConstantesOK DEF CpuDelHiloEn
<1>4. UNCHANGED <<pc, corre, motivos>>
  BY DEF CortoDespachar, hilos
<1>5. ejecutando'[c] = pcb_corto /\ despachos'[c] = <<pcb_corto>>
  BY <1>0, <1>1, <1>2, <1>3 DEF Libre, TipoBaseEn, TipoCpusKs, TipoCpuEn
<1>6. ConSuProcesoEn(M, Q, c)'
  BY <1>2, <1>3, <1>4, <1>5 DEF ConSuProcesoEn, Libre
<1>7. \A d \in Cpus \ {c} : ejecutando'[d] = ejecutando[d] /\ despachos'[d] = despachos[d]
  BY <1>0, <1>1, <1>2 DEF TipoBaseEn, TipoCpusKs, TipoCpuEn
<1>8. \A d \in Cpus \ {c} : pc'[d] = pc[d] /\ corre'[d] = corre[d] /\ motivos'[d] = motivos[d]
  BY <1>4
<1>9. LadoCpuEn(M, Q) /\ c \in Cpus
  BY <1>0, <1>2
<1> QED
  BY <1>6, <1>7, <1>8, <1>9, OtrasQuietas

(* No other thread touches what a CPU holds or what it is marked with.      *)
LEMMA OtrosMotivos ==
  ASSUME NEW P, NEW M, NEW Q, Bastan(P, M), BastanPasos(Q), InvMotivosEn(P, M, Q),
         \/ LargoPlazo \/ CortoEsperarReady \/ CortoEsperarCpu \/ CortoSacar
         \/ AtenderIo \/ ConectarIo \/ IoServir \/ KernelMemory
         \/ EscucharKm \/ UNCHANGED vars
         \/ \E p \in Pids : Temporizador(p)
  PROVE  LadoCpuEn(M, Q)'
<1>1. UNCHANGED <<ejecutando, pc, despachos, corre, motivos>>
  <2>1. CASE LargoPlazo
    BY <2>1
    DEF LargoPlazo, LargoEsperar, LargoSacar, LargoEncolar, LargoAvisar, cpus_ks, hilos, cpu
  <2>2. CASE CortoEsperarReady \/ CortoEsperarCpu \/ CortoSacar
    BY <2>2 DEF CortoEsperarReady, CortoEsperarCpu, CortoSacar, cpus_ks, hilos, cpu
  <2>3. CASE AtenderIo \/ ConectarIo \/ IoServir
    BY <2>3
    DEF AtenderIo, ConectarIo, IoServir, IoBuscarBlock, IoBuscarSusp, IoEncolar, IoAvisar,
        cpus_ks, hilos, cpu
  <2>4. CASE KernelMemory \/ EscucharKm \/ UNCHANGED vars
    BY <2>4
    DEF KernelMemory, KmCargar, KmFinalizar, KmSuspender, EscucharKm, vars, cpus_ks, hilos,
        cpu
  <2>5. CASE \E p \in Pids : Temporizador(p)
    BY <2>5 DEF Temporizador, TimerRetirar, TimerSuspender, TimerAvisarKm, cpus_ks, hilos, cpu
  <2> QED
    BY <2>1, <2>2, <2>3, <2>4, <2>5
<1> QED
  BY <1>1 DEF InvMotivosEn, LadoCpuEn, Libre, ConSuProcesoEn

(* The same for the scheduler without further system calls.                 *)
LEMMA InvMotivosSuyo ==
  /\ InvMotivos <=> InvMotivosEn(PasosHilo, Mensajes, PasosConCpu) /\ TipoKm
  /\ BastanPasos(PasosConCpu)
  BY InvCpuSuyo DEF InvMotivos, InvMotivosEn, LadoCpu

LEMMA LadoDelPaso ==
  ASSUME NEW P, NEW M, NEW Q, Bastan(P, M), BastanPasos(Q), InvMotivosEn(P, M, Q), [Next]_vars
  PROVE  LadoCpuEn(M, Q)'
  BY CpuMotivos, HiloMotivos, DespachoMotivos, OtrosMotivos DEF Next, CortoPlazo

LEMMA PasoMotivos ==
  ASSUME InvMotivos, [Next]_vars
  PROVE  InvMotivos'
<1>0. /\ InvMotivosEn(PasosHilo, Mensajes, PasosConCpu)
      /\ Bastan(PasosHilo, Mensajes) /\ BastanPasos(PasosConCpu)
  BY BastanLosSuyos, InvMotivosSuyo
<1>1. LadoCpu'
  BY <1>0, LadoDelPaso DEF LadoCpu
<1> QED
  BY <1>1, PasoPermisos DEF InvMotivos

(* MotivosInvariante: what a CPU holds is always the process the scheduler  *)
(* has marked it with.                                                      *)
THEOREM MotivosInvariante == Spec => []InvMotivos
<1>1. Init => LadoCpu
  BY DEF Init, LadoCpu, LadoCpuEn, Libre
<1>2. LadoCpu /\ InvCpu /\ [Next]_vars => LadoCpu'
  BY PasoMotivos DEF InvMotivos
<1>3. LadoCpu /\ InvCpu => InvMotivos
  BY DEF InvMotivos
<1> QED
  BY <1>1, <1>2, <1>3, PermisosInvariante, PTL DEF Spec

(* MotivosPropios: a handler never applies the motive of one process to     *)
(* another, whatever is dispatched, preempted or suspended meanwhile.       *)
THEOREM MotivosPropios == Spec => []MotivoDelQueEjecuta
<1>1. InvMotivos => MotivoDelQueEjecuta
  <2> SUFFICES ASSUME InvMotivos, NEW c \in Cpus, motivos[c] # <<>>
               PROVE  ejecutando[c] = Head(motivos[c]).pid
    BY DEF MotivoDelQueEjecuta
  <2>1. PICK m \in MotivoDeEn(Mensajes, ejecutando[c]) : motivos[c] = <<m>>
    BY DEF InvMotivos, LadoCpu, LadoCpuEn, Libre, ConSuProcesoEn
  <2>2. Head(motivos[c]) = m
    BY <2>1
  <2> QED
    BY <2>2 DEF MotivoDeEn
<1> QED
  BY <1>1, MotivosInvariante, PTL

-----------------------------------------------------------------------------
(* The places of the PCBs.                                                  *)

UnCreador == \A p, q \in Creadores : p = q

(* Handlers whose PCB is in no list and on no CPU.                          *)
PasosConPcbEnMano == {"exit_post", "ready_post", "ready_encolar"}

EnReady(p, x) == x \in EntradasReady /\ colas_ready[x[1]][x[2]] = p

(* Process p is at place x of kind t: the elements of Lugares(p).           *)
En(p, t, x) ==
  \/ t = "new" /\ x \in DOMAIN cola_new /\ cola_new[x] = p
  \/ t = "ready" /\ EnReady(p, x)
  \/ t = "block" /\ x = p /\ p \in cola_block
  \/ t = "susp" /\ x = p /\ p \in cola_susp
  \/ t = "exit" /\ x = p /\ p \in cola_exit
  \/ t = "temporizador" /\ x = p /\ p \in suspendiendo
  \/ t = "cpu" /\ x \in Cpus /\ ejecutando[x] = p /\ pc[x] # "block_liberar"
  \/ t = "saliente" /\ x \in Cpus /\ pcb_h[x] = p /\ pc[x] = "exit_post"
  \/ t = "devuelto" /\ x \in Cpus /\ pcb_h[x] = p /\ pc[x] \in {"ready_post", "ready_encolar"}
  \/ t = "largo" /\ x = p /\ pcb_largo = p /\ pc_largo = "encolar"
  \/ t = "corto" /\ x = p /\ pcb_corto = p /\ pc_corto = "despachar"
  \/ t = "io" /\ x = p /\ pcb_io = p /\ pc_io = "encolar"

EnTipo(p, t) == \E x : En(p, t, x)

SinLugar(p) == \A t, x : ~ En(p, t, x)
SoloEn(p, t, x) == \A u, y : En(p, u, y) <=> u = t /\ y = x
UnLugar(p) == \E t, x : SoloEn(p, t, x)

(* The PCBs of the processes of F are held by what a module adds.           *)
LugaresSin(F) ==
  \A p \in Pids : IF estado[p] = "NO_CREADO" \/ p \in F THEN SinLugar(p) ELSE UnLugar(p)
LugaresBien == LugaresSin({})

(* The pids given out are those below proximo_pid, the pid being created    *)
(* is proximo_pid itself, and only the script that creates asks for it.     *)
PasosInit == {"pedir_carga", "esperar_carga", "evaluar"}
ReservaBien ==
  /\ \A p \in Pids : p >= proximo_pid <=> estado[p] = "NO_CREADO"
  /\ \A c \in Cpus : pc[c] \in PasosInit => pcb_h[c] \in Creadores
  /\ \A c \in Cpus : pc[c] \in {"esperar_carga", "evaluar"} => msg[c].pid = proximo_pid

LEMMA LugarEsEn ==
  ASSUME NEW p \in Pids
  PROVE  /\ \A t, x : <<t, x>> \in Lugares(p) <=> En(p, t, x)
         /\ \A l \in Lugares(p) : \E t, x : l = <<t, x>>
<1>1. \A t, x : <<t, x>> \in Lugares(p) <=> En(p, t, x)
  <2> TAKE t, x
  <2>1. <<t, x>> \in Lugares(p) => En(p, t, x)
    BY DEF Lugares, En, EnReady
  <2>2. En(p, t, x) => <<t, x>> \in Lugares(p)
    BY DEF Lugares, En, EnReady
  <2> QED
    BY <2>1, <2>2
<1>2. \A l \in Lugares(p) : \E t, x : l = <<t, x>>
  BY DEF Lugares
<1> QED
  BY <1>1, <1>2

LEMMA ContarLugares == LugaresBien => UnSoloLugar
<1> SUFFICES ASSUME LugaresSin({}), NEW p \in Pids
             PROVE  Cardinality(Lugares(p)) = Si(estado[p] # "NO_CREADO")
  BY DEF UnSoloLugar, LugaresBien
<1>1. CASE estado[p] = "NO_CREADO"
  <2>1. Lugares(p) = {}
    BY <1>1, LugarEsEn DEF LugaresSin, SinLugar
  <2> QED
    BY <1>1, <2>1, FS_EmptySet DEF Si
<1>2. CASE estado[p] # "NO_CREADO"
  <2>1. PICK t, x : \A u, y : En(p, u, y) <=> u = t /\ y = x
    BY <1>2 DEF LugaresSin, UnLugar, SoloEn
  <2>2. Lugares(p) = {<<t, x>>}
    BY <2>1, LugarEsEn
  <2> QED
    BY <1>2, <2>2, FS_Singleton DEF Si
<1> QED
  BY <1>1, <1>2

-----------------------------------------------------------------------------
(* What a step may do to the places.                                        *)

(* A process that is somewhere was created and is nowhere else.             *)
LEMMA Unico ==
  ASSUME NEW F, LugaresSin(F), NEW p \in Pids, NEW t, NEW x, En(p, t, x)
  PROVE  /\ estado[p] # "NO_CREADO" /\ p \notin F
         /\ \A u, y : En(p, u, y) <=> u = t /\ y = x
<1>1. estado[p] # "NO_CREADO" /\ p \notin F
  BY DEF LugaresSin, SinLugar
<1>2. PICK a, b : \A u, y : En(p, u, y) <=> u = a /\ y = b
  BY <1>1 DEF LugaresSin, UnLugar, SoloEn
<1> QED
  BY <1>1, <1>2

MismosCreados == \A q \in Pids : estado'[q] = "NO_CREADO" <=> estado[q] = "NO_CREADO"

(* What a step does to the kinds of place: nothing, or one process goes     *)
(* from one kind to another.                                                *)
Quietos == \A q \in Pids : \A v : EnTipo(q, v) => EnTipo(q, v)'
Traslado(p, t, u) ==
  /\ EnTipo(p, t) /\ EnTipo(p, u)'
  /\ \A q \in Pids \ {p} : \A v : EnTipo(q, v) => EnTipo(q, v)'

(* The moves the threads make; a PCB leaves READY only when the short-term  *)
(* planner has the permit of a READY process and that of a CPU.             *)
Efecto ==
  \/ Quietos
  \/ \E p \in Pids :
       \/ Traslado(p, "new", "largo") \/ Traslado(p, "largo", "ready")
       \/ Traslado(p, "ready", "corto") /\ pc_corto = "sacar"
       \/ Traslado(p, "corto", "cpu")
       \/ Traslado(p, "cpu", "saliente") \/ Traslado(p, "saliente", "exit")
       \/ Traslado(p, "cpu", "devuelto") \/ Traslado(p, "devuelto", "ready")
       \/ Traslado(p, "cpu", "block") \/ Traslado(p, "block", "temporizador")
       \/ Traslado(p, "temporizador", "susp")
       \/ Traslado(p, "block", "io") \/ Traslado(p, "susp", "io") \/ Traslado(p, "io", "ready")

(* A process that was not created gets a place in NEW: its pid is the next  *)
(* one and somebody is executing.                                           *)
Nacimiento(n) ==
  /\ estado[n] = "NO_CREADO" /\ EnTipo(n, "new")'
  /\ \A q \in Pids : q < n => estado[q] # "NO_CREADO"
  /\ \E padre \in Pids : EnTipo(padre, "cpu")
  /\ \A q \in Pids \ {n} :
       /\ estado'[q] = estado[q]
       /\ \A v : EnTipo(q, v) => EnTipo(q, v)'

(* A step that leaves every place alone.                                    *)
LEMMA SinMover ==
  ASSUME NEW F, LugaresSin(F), MismosCreados,
         \A q \in Pids : \A v, z : En(q, v, z)' <=> En(q, v, z)
  PROVE  LugaresSin(F)' /\ Quietos
<1>1. LugaresSin(F)'
  <2> SUFFICES ASSUME NEW q \in Pids
               PROVE  IF estado'[q] = "NO_CREADO" \/ q \in F THEN SinLugar(q)' ELSE UnLugar(q)'
    BY DEF LugaresSin
  <2>1. SinLugar(q) => SinLugar(q)'
    BY DEF SinLugar
  <2>2. UnLugar(q) => UnLugar(q)'
    BY DEF UnLugar, SoloEn
  <2> QED
    BY <2>1, <2>2 DEF LugaresSin, MismosCreados
<1>2. Quietos
  BY DEF Quietos, EnTipo
<1> QED
  BY <1>1, <1>2

(* A step that takes one process from one place to another.                 *)
Mueve(p, t, x, u, y) ==
  /\ En(p, t, x)
  /\ \A q \in Pids : \A v, z :
       En(q, v, z)' <=> \/ En(q, v, z) /\ ~ (q = p /\ v = t /\ z = x)
                        \/ q = p /\ v = u /\ z = y

LEMMA Mover ==
  ASSUME NEW F, LugaresSin(F), MismosCreados, NEW p \in Pids, NEW t, NEW x, NEW u, NEW y,
         Mueve(p, t, x, u, y)
  PROVE  LugaresSin(F)' /\ Traslado(p, t, u)
<1>1. /\ estado[p] # "NO_CREADO" /\ p \notin F
      /\ \A v, z : En(p, v, z) <=> v = t /\ z = x
  BY Unico DEF Mueve
<1>2. SoloEn(p, u, y)'
  <2>1. \A v, z : En(p, v, z)' <=> v = u /\ z = y
    BY <1>1 DEF Mueve
  <2> QED
    BY <2>1 DEF SoloEn
<1>3. \A q \in Pids \ {p} : \A v, z : En(q, v, z)' <=> En(q, v, z)
  BY DEF Mueve
<1>4. UnLugar(p)'
  BY <1>2 DEF UnLugar
<1>5. ASSUME NEW q \in Pids \ {p}
      PROVE  IF estado'[q] = "NO_CREADO" \/ q \in F THEN SinLugar(q)' ELSE UnLugar(q)'
  <2>1. \A v, z : En(q, v, z)' <=> En(q, v, z)
    BY <1>3
  <2>2. \A v, z : SoloEn(q, v, z) => SoloEn(q, v, z)'
    BY <2>1 DEF SoloEn
  <2>3. UnLugar(q) => UnLugar(q)'
    BY <2>2 DEF UnLugar
  <2>4. SinLugar(q) => SinLugar(q)'
    BY <2>1 DEF SinLugar
  <2> QED
    BY <2>3, <2>4 DEF LugaresSin, MismosCreados
<1>6. LugaresSin(F)'
  BY <1>1, <1>4, <1>5 DEF LugaresSin, MismosCreados
<1>7. Traslado(p, t, u)
  <2>1. EnTipo(p, t) /\ EnTipo(p, u)'
    BY DEF Mueve, EnTipo
  <2>2. \A q \in Pids \ {p} : \A v : EnTipo(q, v) => EnTipo(q, v)'
    BY <1>3 DEF EnTipo
  <2> QED
    BY <2>1, <2>2 DEF Traslado
<1> QED
  BY <1>6, <1>7

(* A step that takes a process from a list, whose other positions are       *)
(* renumbered by s, to a place of another kind.                             *)
Corre(p, t, x, u, y, s) ==
  /\ En(p, t, x) /\ t # u
  /\ \A q \in Pids : En(q, t, x) => q = p
  /\ \A q \in Pids : \A z : En(q, t, z)' <=> z \in DOMAIN s /\ En(q, t, s[z])
  /\ \A q \in Pids : \A w : En(q, t, w) /\ w # x => \E z \in DOMAIN s : s[z] = w
  /\ \A a, b \in DOMAIN s : s[a] # x /\ (s[a] = s[b] => a = b)
  /\ \A q \in Pids : \A v, z :
       v # t => (En(q, v, z)' <=> En(q, v, z) \/ (q = p /\ v = u /\ z = y))

LEMMA Correr ==
  ASSUME NEW F, LugaresSin(F), MismosCreados, NEW p \in Pids, NEW t, NEW x, NEW u, NEW y, NEW s,
         Corre(p, t, x, u, y, s)
  PROVE  LugaresSin(F)' /\ Traslado(p, t, u)
<1>1. /\ estado[p] # "NO_CREADO" /\ p \notin F
      /\ \A v, z : En(p, v, z) <=> v = t /\ z = x
  BY Unico DEF Corre
<1>2. UnLugar(p)'
  <2>1. \A z : ~ En(p, t, z)'
    BY <1>1 DEF Corre
  <2>2. \A v, z : v # t => (En(p, v, z)' <=> v = u /\ z = y)
    BY <1>1 DEF Corre
  <2>3. \A v, z : En(p, v, z)' <=> v = u /\ z = y
    BY <2>1, <2>2 DEF Corre
  <2>4. SoloEn(p, u, y)'
    BY <2>3 DEF SoloEn
  <2> QED
    BY <2>4 DEF UnLugar
<1>3. ASSUME NEW q \in Pids \ {p}
      PROVE  IF estado'[q] = "NO_CREADO" \/ q \in F THEN SinLugar(q)' ELSE UnLugar(q)'
  <2>1. \A z : En(q, t, z)' <=> z \in DOMAIN s /\ En(q, t, s[z])
    BY DEF Corre
  <2>2. \A v, z : v # t => (En(q, v, z)' <=> En(q, v, z))
    BY DEF Corre
  <2>3. SinLugar(q) => SinLugar(q)'
    BY <2>1, <2>2 DEF SinLugar
  <2>4. ASSUME NEW v, NEW z, SoloEn(q, v, z) PROVE UnLugar(q)'
    <3>1. CASE v # t
      <4>1. \A a, b : En(q, a, b)' <=> a = v /\ b = z
        BY <2>1, <2>2, <2>4, <3>1 DEF SoloEn
      <4>2. SoloEn(q, v, z)'
        BY <4>1 DEF SoloEn
      <4> QED
        BY <4>2 DEF UnLugar
    <3>2. CASE v = t
      <4>1. En(q, t, z) /\ z # x
        BY <2>4, <3>2 DEF SoloEn, Corre
      <4>2. PICK w \in DOMAIN s : s[w] = z
        BY <4>1 DEF Corre
      <4>3. \A b : En(q, t, b)' <=> b = w
        BY <2>1, <2>4, <3>2, <4>2 DEF SoloEn, Corre
      <4>4. \A a, b : a # t => ~ En(q, a, b)'
        BY <2>2, <2>4, <3>2 DEF SoloEn
      <4>5. \A a, b : En(q, a, b)' <=> a = t /\ b = w
        BY <4>3, <4>4
      <4>6. SoloEn(q, t, w)'
        BY <4>5 DEF SoloEn
      <4> QED
        BY <4>6 DEF UnLugar
    <3> QED
      BY <3>1, <3>2
  <2> QED
    BY <2>3, <2>4 DEF LugaresSin, MismosCreados, UnLugar
<1>4. LugaresSin(F)'
  BY <1>1, <1>2, <1>3 DEF LugaresSin, MismosCreados
<1>5. Traslado(p, t, u)
  <2>1. EnTipo(p, t) /\ EnTipo(p, u)'
    BY DEF Corre, EnTipo
  <2>2. ASSUME NEW q \in Pids \ {p}, NEW v, NEW z, En(q, v, z)
        PROVE  EnTipo(q, v)'
    <3>1. CASE v # t
      <4>1. En(q, v, z)'
        BY <2>2, <3>1 DEF Corre
      <4> QED
        BY <4>1 DEF EnTipo
    <3>2. CASE v = t
      <4>1. En(q, t, z) /\ z # x
        BY <2>2, <3>2 DEF Corre
      <4>2. PICK w \in DOMAIN s : s[w] = z
        BY <4>1 DEF Corre
      <4>3. En(q, t, w)'
        BY <4>1, <4>2 DEF Corre
      <4> QED
        BY <3>2, <4>3 DEF EnTipo
    <3> QED
      BY <3>1, <3>2
  <2> QED
    BY <2>1, <2>2 DEF Traslado, EnTipo
<1> QED
  BY <1>4, <1>5

-----------------------------------------------------------------------------
(* The inductive invariant, and the steps that do not touch a process's     *)
(* creation.                                                                *)

InvLugaresEn(P, M, Q, F) ==
  /\ InvMotivosEn(P, M, Q) /\ LugaresSin(F) /\ ReservaBien
  /\ \A p \in F : p \in Pids /\ estado[p] # "NO_CREADO"
InvLugares == InvMotivos /\ LugaresBien /\ ReservaBien

LEMMA ReservaIgual ==
  ASSUME ReservaBien, MismosCreados, UNCHANGED <<proximo_pid, pc, pcb_h, msg>>
  PROVE  ReservaBien'
  BY DEF ReservaBien, MismosCreados

(* list_add to READY: one place more.                                       *)
EntradaNueva(p) == <<prioridad[p], Len(colas_ready[prioridad[p]]) + 1>>

LEMMA EsReady ==
  /\ \A q, j, i : EnReady(q, <<j, i>>)
       <=> j \in Prioridades /\ i \in 1 .. Len(colas_ready[j]) /\ colas_ready[j][i] = q
  /\ \A q, j, i : EnReady(q, <<j, i>>)'
       <=> j \in Prioridades /\ i \in 1 .. Len(colas_ready'[j]) /\ colas_ready'[j][i] = q
  /\ \A q, z : EnReady(q, z) \/ EnReady(q, z)' => z = <<z[1], z[2]>>
<1>1. \A q, j, i : EnReady(q, <<j, i>>)
       <=> j \in Prioridades /\ i \in 1 .. Len(colas_ready[j]) /\ colas_ready[j][i] = q
  BY EsEntrada DEF EnReady
<1>2. \A q, j, i : EnReady(q, <<j, i>>)'
       <=> j \in Prioridades /\ i \in 1 .. Len(colas_ready'[j]) /\ colas_ready'[j][i] = q
  BY EsEntradaSig DEF EnReady
<1>3. \A q, z : EnReady(q, z) \/ EnReady(q, z)' => z = <<z[1], z[2]>>
  BY EsEntrada, EsEntradaSig DEF EnReady
<1> QED
  BY <1>1, <1>2, <1>3

LEMMA EncolarLugar ==
  ASSUME NEW P, NEW M, TipoBaseEn(P, M), NEW p \in Pids, colas_ready' = ListaReadyCon(p)
  PROVE  /\ ~ EnReady(p, EntradaNueva(p))
         /\ \A q, z : EnReady(q, z)' <=> EnReady(q, z) \/ (q = p /\ z = EntradaNueva(p))
<1> DEFINE k == prioridad[p]
           n == Len(colas_ready[k]) + 1
<1>1. k \in Prioridades /\ colas_ready \in [Prioridades -> Seq(Pids)]
  BY DEF TipoBaseEn, TipoProcesos, TipoColas
<1>2. \A j \in Prioridades :
        colas_ready'[j] = IF j = k THEN Append(colas_ready[k], p) ELSE colas_ready[j]
  BY <1>1 DEF ListaReadyCon
<1>3. /\ Len(colas_ready'[k]) = n /\ colas_ready'[k][n] = p
      /\ \A i \in 1 .. n - 1 : colas_ready'[k][i] = colas_ready[k][i]
      /\ n \in Nat /\ Len(colas_ready[k]) = n - 1
  <2> DEFINE s == colas_ready[k]
  <2>1. s \in Seq(Pids) /\ colas_ready'[k] = Append(s, p)
    BY <1>1, <1>2
  <2>2. Len(s) \in Nat /\ n = Len(s) + 1
    BY <2>1
  <2> HIDE DEF s, n
  <2>3. Len(Append(s, p)) = n /\ Append(s, p)[n] = p
    BY <2>1, <2>2
  <2>4. \A i \in 1 .. n - 1 : Append(s, p)[i] = s[i]
    BY <2>1, <2>2
  <2>5. n \in Nat /\ Len(s) = n - 1
    BY <2>2
  <2> QED
    BY <2>1, <2>3, <2>4, <2>5 DEF s
<1>4. EntradaNueva(p) = <<k, n>>
  BY DEF EntradaNueva
<1> HIDE DEF k, n
<1>5. ~ EnReady(p, <<k, n>>)
  BY <1>3, EsReady
<1>6. \A q, j, i :
        EnReady(q, <<j, i>>)' <=> EnReady(q, <<j, i>>) \/ (q = p /\ <<j, i>> = <<k, n>>)
  <2> TAKE q, j, i
  <2>1. CASE j = k
    BY <1>1, <1>3, <2>1, EsReady
  <2>2. CASE j # k
    BY <1>2, <2>2, EsReady
  <2> QED
    BY <2>1, <2>2
<1>7. ASSUME NEW q, NEW z
      PROVE  EnReady(q, z)' <=> EnReady(q, z) \/ (q = p /\ z = EntradaNueva(p))
  <2>1. CASE z = <<z[1], z[2]>>
    <3>1. EnReady(q, <<z[1], z[2]>>)'
            <=> EnReady(q, <<z[1], z[2]>>) \/ (q = p /\ <<z[1], z[2]>> = <<k, n>>)
      BY <1>6
    <3> QED
      BY <1>4, <2>1, <3>1
  <2>2. CASE z # <<z[1], z[2]>>
    <3>1. ~ EnReady(q, z) /\ ~ EnReady(q, z)'
      BY <2>2, EsReady
    <3>2. z # <<k, n>>
      BY <2>2
    <3> QED
      BY <1>4, <3>1, <3>2
  <2> QED
    BY <2>1, <2>2
<1> QED
  BY <1>4, <1>5, <1>7

-----------------------------------------------------------------------------
(* The long-term planner.                                                   *)

LEMMA LargoSacarLugares ==
  ASSUME NEW P, NEW M, NEW Q, NEW F, Bastan(P, M), BastanPasos(Q),
         InvLugaresEn(P, M, Q, F), LargoSacar
  PROVE  LugaresSin(F)' /\ MismosCreados /\ Efecto
<1>0. TipoBaseEn(P, M) /\ LugaresSin(F) /\ cola_new \in Seq(Pids) /\ cola_new # <<>>
  BY DEF InvLugaresEn, InvMotivosEn, InvCpuEn, TipoBaseEn, TipoColas, LargoSacar
<1> DEFINE h == Head(cola_new)
           s == [i \in 1 .. Len(cola_new) - 1 |-> i + 1]
<1>1. /\ h \in Pids /\ h = cola_new[1] /\ DOMAIN cola_new = 1 .. Len(cola_new)
      /\ Len(cola_new) \in Nat \ {0}
  BY <1>0
<1>2. /\ Len(cola_new') = Len(cola_new) - 1 /\ DOMAIN cola_new' = DOMAIN s
      /\ \A i \in DOMAIN s : cola_new'[i] = cola_new[i + 1] /\ s[i] = i + 1
  BY <1>0, <1>1 DEF LargoSacar
<1>3. En(h, "new", 1) /\ \A q \in Pids : En(q, "new", 1) => q = h
  BY <1>1 DEF En
<1>4. MismosCreados
  <2>1. estado[h] # "NO_CREADO"
    BY <1>0, <1>1, <1>3, Unico
  <2> QED
    BY <1>0, <1>1, <2>1 DEF MismosCreados, LargoSacar, TipoBaseEn, TipoProcesos
<1>5. \A q \in Pids : \A z : En(q, "new", z)' <=> z \in DOMAIN s /\ En(q, "new", s[z])
  BY <1>1, <1>2 DEF En
<1>6. \A q \in Pids : \A w : En(q, "new", w) /\ w # 1 => \E z \in DOMAIN s : s[z] = w
  <2> SUFFICES ASSUME NEW q \in Pids, NEW w, En(q, "new", w), w # 1
               PROVE  \E z \in DOMAIN s : s[z] = w
    OBVIOUS
  <2>1. w \in 1 .. Len(cola_new)
    BY <1>1 DEF En
  <2>2. w - 1 \in DOMAIN s /\ s[w - 1] = w
    BY <1>1, <2>1
  <2> QED
    BY <2>2
<1>7. \A a, b \in DOMAIN s : s[a] # 1 /\ (s[a] = s[b] => a = b)
  BY <1>1
<1>8. /\ pc_largo = "sacar" /\ pc_largo' = "encolar" /\ pcb_largo' = h
      /\ UNCHANGED <<colas_ready, cola_block, cola_susp, cola_exit, suspendiendo, ejecutando,
                     pc, pcb_h, pcb_corto, pc_corto, pcb_io, pc_io>>
  BY DEF LargoSacar, cpus_ks, corto, hilos, io, temps
<1> HIDE DEF h, s
<1>9. \A q \in Pids : \A v, z :
        v # "new" => (En(q, v, z)' <=> En(q, v, z) \/ (q = h /\ v = "largo" /\ z = h))
  BY <1>8 DEF En, EnReady, EntradasReady
<1>10. Corre(h, "new", 1, "largo", h, s)
  BY <1>3, <1>5, <1>6, <1>7, <1>9 DEF Corre
<1> QED
  BY <1>0, <1>1, <1>4, <1>10, Correr DEF Efecto

LEMMA LargoLugares ==
  ASSUME NEW P, NEW M, NEW Q, NEW F, Bastan(P, M), BastanPasos(Q),
         InvLugaresEn(P, M, Q, F), LargoPlazo
  PROVE  LugaresSin(F)' /\ ReservaBien' /\ MismosCreados /\ Efecto
<1>0. TipoBaseEn(P, M) /\ LugaresSin(F) /\ ReservaBien
  BY DEF InvLugaresEn, InvMotivosEn, InvCpuEn
<1>1. LugaresSin(F)' /\ MismosCreados /\ Efecto
  <2>1. CASE LargoEsperar \/ LargoAvisar
    <3>1. UNCHANGED <<estado, cola_new, colas_ready, cola_block, cola_susp, cola_exit,
                      suspendiendo, ejecutando, pc, pcb_h, pcb_corto, pc_corto, pcb_io, pc_io>>
      BY <2>1 DEF LargoEsperar, LargoAvisar, procesos, colas, cpus_ks, corto, hilos, io, temps
    <3>2. pc_largo # "encolar" /\ pc_largo' # "encolar"
      BY <2>1 DEF LargoEsperar, LargoAvisar
    <3>3. \A q \in Pids : \A v, z : En(q, v, z)' <=> En(q, v, z)
      BY <3>1, <3>2 DEF En, EnReady, EntradasReady
    <3> QED
      BY <1>0, <3>1, <3>3, SinMover DEF MismosCreados, Efecto
  <2>2. CASE LargoEncolar
    <3> DEFINE p == pcb_largo
               e == EntradaNueva(p)
    <3>1. /\ UNCHANGED <<estado, cola_new, cola_block, cola_susp, cola_exit, suspendiendo,
                         ejecutando, pc, pcb_h, pcb_corto, pc_corto, pcb_io, pc_io>>
          /\ pc_largo = "encolar" /\ pc_largo' # "encolar"
          /\ colas_ready' = ListaReadyCon(p)
      BY <2>2 DEF LargoEncolar, procesos, cpus_ks, corto, hilos, io, temps
    <3>2. p \in Pids
      BY <1>0, <3>1 DEF TipoBaseEn, TipoLargo
    <3>3. \A q, z : EnReady(q, z)' <=> EnReady(q, z) \/ (q = p /\ z = e)
      BY <1>0, <3>1, <3>2, EncolarLugar
    <3> HIDE DEF p, e
    <3>4. Mueve(p, "largo", p, "ready", e)
      BY <3>1, <3>2, <3>3 DEF Mueve, En, p
    <3> QED
      BY <1>0, <3>1, <3>2, <3>4, Mover DEF MismosCreados, Efecto
  <2> QED
    BY <2>1, <2>2, LargoSacarLugares DEF LargoPlazo
<1>2. UNCHANGED <<proximo_pid, pc, pcb_h, msg>>
  BY DEF LargoPlazo, LargoEsperar, LargoSacar, LargoEncolar, LargoAvisar, procesos, hilos
<1> QED
  BY <1>0, <1>1, <1>2, ReservaIgual

-----------------------------------------------------------------------------
(* The short-term planner.                                                  *)

LEMMA CortoSacarLugares ==
  ASSUME NEW P, NEW M, NEW Q, NEW F, Bastan(P, M), BastanPasos(Q),
         InvLugaresEn(P, M, Q, F), CortoSacar
  PROVE  LugaresSin(F)' /\ MismosCreados /\ Efecto
<1>0. TipoBaseEn(P, M) /\ LugaresSin(F) /\ colas_ready \in [Prioridades -> Seq(Pids)]
  BY DEF InvLugaresEn, InvMotivosEn, InvCpuEn, TipoBaseEn, TipoColas
<1>1. PICK k \in Prioridades :
        /\ colas_ready[k] # <<>> /\ pcb_corto' = Head(colas_ready[k])
        /\ colas_ready' = [colas_ready EXCEPT ![k] = Tail(@)]
        /\ estado' = [estado EXCEPT ![Head(colas_ready[k])] = "EXEC"]
  BY DEF CortoSacar
<1> DEFINE r == colas_ready[k]
           h == Head(r)
           s == [e \in EntradasReady' |-> IF e[1] = k THEN <<k, e[2] + 1>> ELSE e]
<1>2. r \in Seq(Pids) /\ r # <<>>
  BY <1>0, <1>1
<1>3. h \in Pids /\ h = r[1] /\ Len(r) \in Nat \ {0}
  BY <1>2
<1>4. /\ Len(colas_ready'[k]) = Len(r) - 1
      /\ \A i \in 1 .. Len(r) - 1 : colas_ready'[k][i] = r[i + 1]
  <2>1. colas_ready'[k] = Tail(r)
    BY <1>0, <1>1
  <2> QED
    BY <1>2, <2>1
<1>5. \A j \in Prioridades \ {k} : colas_ready'[j] = colas_ready[j]
  BY <1>0, <1>1
<1> HIDE DEF h
<1>6. En(h, "ready", <<k, 1>>) /\ \A q \in Pids : En(q, "ready", <<k, 1>>) => q = h
  BY <1>3, EsReady DEF En
<1>7. MismosCreados
  <2>1. estado[h] # "NO_CREADO"
    BY <1>0, <1>3, <1>6, Unico
  <2> QED
    BY <1>0, <1>1, <1>3, <2>1 DEF MismosCreados, TipoBaseEn, TipoProcesos, h
<1>8. \A j, i : <<j, i>> \in DOMAIN s
                 => s[<<j, i>>] = IF j = k THEN <<k, i + 1>> ELSE <<j, i>>
  OBVIOUS
<1>9. /\ \A e \in DOMAIN s : e = <<e[1], e[2]>> /\ e[1] \in Prioridades /\ e[2] \in Nat \ {0}
      /\ \A j, i : <<j, i>> \in DOMAIN s
                     <=> j \in Prioridades /\ i \in 1 .. Len(colas_ready'[j])
  <2>1. DOMAIN s = EntradasReady'
    OBVIOUS
  <2>2. \A j \in Prioridades : Len(colas_ready'[j]) \in Nat
    BY <1>0, <1>3, <1>4, <1>5
  <2> HIDE DEF s
  <2> QED
    BY <2>1, <2>2, EsEntradaSig
<1> HIDE DEF s
<1>10. ASSUME NEW q \in Pids, NEW z
       PROVE  EnReady(q, z)' <=> z \in DOMAIN s /\ EnReady(q, s[z])
  <2>1. CASE z \notin DOMAIN s
    BY <1>9, <2>1, EsReady
  <2>2. ASSUME NEW j \in Prioridades, NEW i \in Nat \ {0}, z = <<j, i>>, z \in DOMAIN s
        PROVE  EnReady(q, z)' <=> EnReady(q, s[z])
    <3>1. i \in 1 .. Len(colas_ready'[j])
      BY <1>9, <2>2
    <3>2. EnReady(q, z)' <=> colas_ready'[j][i] = q
      BY <2>2, <3>1, EsReady
    <3>3. CASE j = k
      <4>1. s[z] = <<k, i + 1>>
        BY <1>8, <2>2, <3>3
      <4>2. i + 1 \in 1 .. Len(r) /\ colas_ready'[k][i] = r[i + 1]
        BY <1>3, <1>4, <3>1, <3>3
      <4>3. EnReady(q, <<k, i + 1>>) <=> r[i + 1] = q
        BY <4>2, EsReady
      <4> QED
        BY <3>2, <3>3, <4>1, <4>2, <4>3
    <3>4. CASE j # k
      <4>1. s[z] = <<j, i>>
        BY <1>8, <2>2, <3>4
      <4> QED
        BY <1>5, <2>2, <3>1, <3>2, <3>4, <4>1, EsReady
    <3> QED
      BY <3>3, <3>4
  <2> QED
    BY <1>9, <2>1, <2>2
<1>11. ASSUME NEW q \in Pids, NEW w, EnReady(q, w), w # <<k, 1>>
       PROVE  \E z \in DOMAIN s : s[z] = w
  <2>1. PICK j \in Prioridades, i \in Nat \ {0} :
          w = <<j, i>> /\ i \in 1 .. Len(colas_ready[j])
    <3>1. w = <<w[1], w[2]>>
      BY <1>11, EsReady
    <3>2. w[1] \in Prioridades /\ w[2] \in 1 .. Len(colas_ready[w[1]])
      BY <1>11, <3>1, EsReady
    <3>3. w[2] \in Nat \ {0}
      BY <1>0, <3>2
    <3> QED
      BY <3>1, <3>2, <3>3
  <2>2. CASE j = k
    <3>1. i # 1 /\ i - 1 \in 1 .. Len(r) - 1
      BY <1>3, <1>11, <2>1, <2>2
    <3>2. <<k, i - 1>> \in DOMAIN s
      BY <1>4, <1>9, <3>1
    <3>3. s[<<k, i - 1>>] = <<k, (i - 1) + 1>>
      BY <1>8, <3>2
    <3>4. (i - 1) + 1 = i
      BY <2>1
    <3> QED
      BY <2>1, <2>2, <3>2, <3>3, <3>4
  <2>3. CASE j # k
    <3>1. <<j, i>> \in DOMAIN s
      BY <1>5, <1>9, <2>1, <2>3
    <3> QED
      BY <1>8, <2>1, <2>3, <3>1
  <2> QED
    BY <2>2, <2>3
<1>12. ASSUME NEW a \in DOMAIN s, NEW b \in DOMAIN s
       PROVE  s[a] # <<k, 1>> /\ (s[a] = s[b] => a = b)
  <2>1. /\ a = <<a[1], a[2]>> /\ a[2] \in Nat \ {0}
        /\ b = <<b[1], b[2]>> /\ b[2] \in Nat \ {0}
    BY <1>9
  <2>2. /\ s[a] = IF a[1] = k THEN <<k, a[2] + 1>> ELSE <<a[1], a[2]>>
        /\ s[b] = IF b[1] = k THEN <<k, b[2] + 1>> ELSE <<b[1], b[2]>>
    BY <1>8, <2>1
  <2> QED
    BY <2>1, <2>2
<1>13. /\ pc_corto = "sacar" /\ pc_corto' = "despachar" /\ pcb_corto' = h
       /\ UNCHANGED <<cola_new, cola_block, cola_susp, cola_exit, suspendiendo, ejecutando,
                      pc, pcb_h, pcb_largo, pc_largo, pcb_io, pc_io>>
  BY <1>1 DEF CortoSacar, cpus_ks, largo, hilos, io, temps, h
<1>14. \A q \in Pids : \A v, z :
         v # "ready" => (En(q, v, z)' <=> En(q, v, z) \/ (q = h /\ v = "corto" /\ z = h))
  BY <1>13 DEF En
<1>15. /\ \A q, z : En(q, "ready", z) <=> EnReady(q, z)
       /\ \A q, z : En(q, "ready", z)' <=> EnReady(q, z)'
  BY DEF En
<1>16. Corre(h, "ready", <<k, 1>>, "corto", h, s)
  BY <1>6, <1>10, <1>11, <1>12, <1>14, <1>15 DEF Corre
<1> QED
  BY <1>0, <1>3, <1>7, <1>13, <1>16, Correr DEF Efecto

LEMMA CortoDespacharLugares ==
  ASSUME NEW P, NEW M, NEW Q, NEW F, Bastan(P, M), BastanPasos(Q),
         InvLugaresEn(P, M, Q, F), CortoDespachar
  PROVE  LugaresSin(F)' /\ Efecto
<1>0. TipoBaseEn(P, M) /\ LugaresSin(F) /\ CpuDelHiloEn(Q) /\ InvCpuEn(P, M, Q)
  BY DEF InvLugaresEn, InvMotivosEn, InvCpuEn
<1>1. PICK c \in CpusLibres : ejecutando' = [ejecutando EXCEPT ![c] = pcb_corto]
  BY <1>0, HayCpuEn DEF CortoDespachar
<1> DEFINE p == pcb_corto
<1>2. /\ c \in Cpus /\ ejecutando[c] = NADIE /\ p \in Pids
      /\ pc_corto = "despachar" /\ pc_corto' # "despachar"
  BY <1>0, <1>1 DEF CpusLibres, TipoBaseEn, TipoCpusKs, TipoCorto, CortoDespachar
<1>3. pc[c] # "block_liberar"
  BY <1>0, <1>2, ConstantesOK
  DEF CpuDelHiloEn, TipoBaseEn, TipoHilosEn, PasosConCpu, BastanPasos
<1>4. \A d \in Cpus : ejecutando'[d] = IF d = c THEN p ELSE ejecutando[d]
  BY <1>0, <1>1, <1>2 DEF TipoBaseEn, TipoCpusKs
<1>5. UNCHANGED <<estado, cola_new, colas_ready, cola_block, cola_susp, cola_exit,
                  suspendiendo, pc, pcb_h, pcb_largo, pc_largo, pcb_io, pc_io>>
  BY DEF CortoDespachar, procesos, colas, largo, hilos, io, temps
<1> HIDE DEF p
<1>6. \A q \in Pids : q # NADIE
  BY ConstantesOK
<1>7. Mueve(p, "corto", p, "cpu", c)
  BY <1>2, <1>3, <1>4, <1>5, <1>6 DEF Mueve, En, EnReady, EntradasReady, p
<1> QED
  BY <1>0, <1>2, <1>5, <1>7, Mover DEF MismosCreados, Efecto

LEMMA CortoLugares ==
  ASSUME NEW P, NEW M, NEW Q, NEW F, Bastan(P, M), BastanPasos(Q),
         InvLugaresEn(P, M, Q, F), CortoPlazo
  PROVE  LugaresSin(F)' /\ ReservaBien' /\ MismosCreados /\ Efecto
<1>0. LugaresSin(F) /\ ReservaBien
  BY DEF InvLugaresEn
<1>1. LugaresSin(F)' /\ MismosCreados /\ Efecto
  <2>1. CASE CortoEsperarReady \/ CortoEsperarCpu
    <3>1. /\ pc_corto # "despachar" /\ pc_corto' # "despachar"
          /\ UNCHANGED <<estado, cola_new, colas_ready, cola_block, cola_susp, cola_exit,
                        suspendiendo, ejecutando, pc, pcb_h, pcb_largo, pc_largo, pcb_io,
                        pc_io>>
      BY <2>1
      DEF CortoEsperarReady, CortoEsperarCpu, procesos, colas, cpus_ks, largo, hilos, io,
          temps
    <3>2. \A q \in Pids : \A v, z : En(q, v, z)' <=> En(q, v, z)
      BY <3>1 DEF En, EnReady, EntradasReady
    <3> QED
      BY <1>0, <3>1, <3>2, SinMover DEF MismosCreados, Efecto
  <2>2. CASE CortoDespachar
    BY <2>2, CortoDespacharLugares DEF CortoDespachar, procesos, MismosCreados
  <2> QED
    BY <2>1, <2>2, CortoSacarLugares DEF CortoPlazo
<1>2. UNCHANGED <<proximo_pid, pc, pcb_h, msg>>
  BY DEF CortoPlazo, CortoEsperarReady, CortoEsperarCpu, CortoSacar, CortoDespachar, procesos,
      hilos
<1> QED
  BY <1>0, <1>1, <1>2, ReservaIgual

-----------------------------------------------------------------------------
(* The SLEEP device, the timers and Kernel Memory.                          *)

LEMMA IoLugares ==
  ASSUME NEW P, NEW M, NEW Q, NEW F, Bastan(P, M), BastanPasos(Q),
         InvLugaresEn(P, M, Q, F), AtenderIo
  PROVE  LugaresSin(F)' /\ ReservaBien' /\ MismosCreados /\ Efecto
<1>0. TipoBaseEn(P, M) /\ LugaresSin(F) /\ ReservaBien
  BY DEF InvLugaresEn, InvMotivosEn, InvCpuEn
<1>1. UNCHANGED <<cola_new, cola_exit, suspendiendo, ejecutando, pc, pcb_h, msg, pcb_largo,
                  pc_largo, pcb_corto, pc_corto, proximo_pid>>
  BY DEF AtenderIo, IoBuscarBlock, IoBuscarSusp, IoEncolar, IoAvisar, procesos, colas, cpus_ks,
      largo, corto, hilos, temps
<1>2. LugaresSin(F)' /\ MismosCreados /\ Efecto
  <2>1. CASE IoBuscarBlock
    <3> DEFINE p == Head(respuestas_io)
    <3>1. /\ pc_io # "encolar" /\ pcb_io' = p /\ cola_block' = cola_block \ {p}
          /\ pc_io' = "encolar" <=> p \in cola_block
          /\ UNCHANGED <<estado, colas_ready, cola_susp>>
      BY <2>1 DEF IoBuscarBlock, procesos
    <3>2. p \in Pids
      BY <1>0, <2>1 DEF TipoBaseEn, TipoIo, IoBuscarBlock
    <3> HIDE DEF p
    <3>3. CASE p \in cola_block
      <4>1. Mueve(p, "block", p, "io", p)
        BY <1>1, <3>1, <3>2, <3>3 DEF Mueve, En, EnReady, EntradasReady
      <4> QED
        BY <1>0, <3>1, <3>2, <4>1, Mover DEF MismosCreados, Efecto
    <3>4. CASE p \notin cola_block
      <4>1. \A q \in Pids : \A v, z : En(q, v, z)' <=> En(q, v, z)
        BY <1>1, <3>1, <3>4 DEF En, EnReady, EntradasReady
      <4> QED
        BY <1>0, <3>1, <4>1, SinMover DEF MismosCreados, Efecto
    <3> QED
      BY <3>3, <3>4
  <2>2. CASE IoBuscarSusp
    <3> DEFINE p == pcb_io
    <3>1. /\ pc_io = "buscar_susp" /\ cola_susp' = cola_susp \ {p}
          /\ UNCHANGED <<estado, colas_ready, cola_block>> /\ p \in Pids
          /\ IF p \in cola_susp THEN pc_io' = "encolar" /\ pcb_io' = p ELSE pc_io' = "recibir"
      BY <1>0, <2>2 DEF IoBuscarSusp, procesos, TipoBaseEn, TipoIo
    <3> HIDE DEF p
    <3>2. CASE p \in cola_susp
      <4>1. Mueve(p, "susp", p, "io", p)
        BY <1>1, <3>1, <3>2 DEF Mueve, En, EnReady, EntradasReady
      <4> QED
        BY <1>0, <3>1, <4>1, Mover DEF MismosCreados, Efecto
    <3>3. CASE p \notin cola_susp
      <4>1. \A q \in Pids : \A v, z : En(q, v, z)' <=> En(q, v, z)
        BY <1>1, <3>1, <3>3 DEF En, EnReady, EntradasReady
      <4> QED
        BY <1>0, <3>1, <4>1, SinMover DEF MismosCreados, Efecto
    <3> QED
      BY <3>2, <3>3
  <2>3. CASE IoEncolar
    <3> DEFINE p == pcb_io
               e == EntradaNueva(p)
    <3>1. /\ pc_io = "encolar" /\ pc_io' = "avisar" /\ colas_ready' = ListaReadyCon(p)
          /\ estado' = [estado EXCEPT ![p] = "READY"]
          /\ UNCHANGED <<cola_block, cola_susp>>
      BY <2>3 DEF IoEncolar
    <3>2. p \in Pids
      BY <1>0, <3>1 DEF TipoBaseEn, TipoIo
    <3>3. \A q, z : EnReady(q, z)' <=> EnReady(q, z) \/ (q = p /\ z = e)
      BY <1>0, <3>1, <3>2, EncolarLugar
    <3> HIDE DEF p, e
    <3>4. Mueve(p, "io", p, "ready", e)
      BY <1>1, <3>1, <3>2, <3>3 DEF Mueve, En, p
    <3>5. estado[p] # "NO_CREADO"
      BY <1>0, <3>2, <3>4, Unico DEF Mueve
    <3>6. MismosCreados
      BY <1>0, <3>1, <3>2, <3>5 DEF MismosCreados, TipoBaseEn, TipoProcesos
    <3> QED
      BY <1>0, <3>2, <3>4, <3>6, Mover DEF Efecto
  <2>4. CASE IoAvisar
    <3>1. /\ pc_io # "encolar" /\ pc_io' # "encolar"
          /\ UNCHANGED <<estado, colas_ready, cola_block, cola_susp>>
      BY <2>4 DEF IoAvisar, procesos, colas
    <3>2. \A q \in Pids : \A v, z : En(q, v, z)' <=> En(q, v, z)
      BY <1>1, <3>1 DEF En, EnReady, EntradasReady
    <3> QED
      BY <1>0, <3>1, <3>2, SinMover DEF MismosCreados, Efecto
  <2> QED
    BY <2>1, <2>2, <2>3, <2>4 DEF AtenderIo
<1> QED
  BY <1>0, <1>1, <1>2, ReservaIgual

LEMMA TimerLugares ==
  ASSUME NEW P, NEW M, NEW Q, NEW F, Bastan(P, M), BastanPasos(Q),
         InvLugaresEn(P, M, Q, F), NEW p \in Pids, Temporizador(p)
  PROVE  LugaresSin(F)' /\ ReservaBien' /\ MismosCreados /\ Efecto
<1>0. TipoBaseEn(P, M) /\ LugaresSin(F) /\ ReservaBien
  BY DEF InvLugaresEn, InvMotivosEn, InvCpuEn
<1>1. UNCHANGED <<cola_new, colas_ready, cola_exit, ejecutando, pc, pcb_h, msg, pcb_largo,
                  pc_largo, pcb_corto, pc_corto, pcb_io, pc_io, proximo_pid>>
  BY DEF Temporizador, TimerRetirar, TimerSuspender, TimerAvisarKm, procesos, colas, cpus_ks,
      largo, corto, hilos, io
<1>2. LugaresSin(F)' /\ MismosCreados /\ Efecto
  <2>1. CASE TimerRetirar(p) /\ p \in cola_block
    <3>1. /\ cola_block' = cola_block \ {p} /\ suspendiendo' = suspendiendo \cup {p}
          /\ UNCHANGED <<estado, cola_susp>>
      BY <2>1 DEF TimerRetirar, procesos
    <3>2. Mueve(p, "block", p, "temporizador", p)
      BY <1>1, <2>1, <3>1 DEF Mueve, En, EnReady, EntradasReady
    <3> QED
      BY <1>0, <3>1, <3>2, Mover DEF MismosCreados, Efecto
  <2>2. CASE TimerSuspender(p)
    <3>1. /\ p \in suspendiendo
          /\ cola_susp' = cola_susp \cup {p} /\ suspendiendo' = suspendiendo \ {p}
          /\ estado' = [estado EXCEPT ![p] = "BLOCK"] /\ UNCHANGED cola_block
      BY <2>2 DEF TimerSuspender
    <3>2. Mueve(p, "temporizador", p, "susp", p)
      BY <1>1, <3>1 DEF Mueve, En, EnReady, EntradasReady
    <3>3. estado[p] # "NO_CREADO"
      BY <1>0, <3>2, Unico DEF Mueve
    <3>4. MismosCreados
      BY <1>0, <3>1, <3>3 DEF MismosCreados, TipoBaseEn, TipoProcesos
    <3> QED
      BY <1>0, <3>2, <3>4, Mover DEF Efecto
  <2>3. CASE (TimerRetirar(p) /\ p \notin cola_block) \/ TimerAvisarKm(p)
    <3>1. UNCHANGED <<estado, cola_block, cola_susp, suspendiendo>>
      BY <1>0, <2>3 DEF TimerRetirar, TimerAvisarKm, procesos, colas
    <3>2. \A q \in Pids : \A v, z : En(q, v, z)' <=> En(q, v, z)
      BY <1>1, <3>1 DEF En, EnReady, EntradasReady
    <3> QED
      BY <1>0, <3>1, <3>2, SinMover DEF MismosCreados, Efecto
  <2> QED
    BY <2>1, <2>2, <2>3 DEF Temporizador
<1> QED
  BY <1>0, <1>1, <1>2, ReservaIgual

LEMMA OtrosLugares ==
  ASSUME NEW P, NEW M, NEW Q, NEW F, Bastan(P, M), BastanPasos(Q),
         InvLugaresEn(P, M, Q, F),
         \/ ConectarIo \/ IoServir \/ KernelMemory \/ EscucharKm \/ UNCHANGED vars
         \/ \E c \in Cpus : Cpu(c)
  PROVE  LugaresSin(F)' /\ ReservaBien' /\ MismosCreados /\ Efecto
<1>0. LugaresSin(F) /\ ReservaBien
  BY DEF InvLugaresEn
<1>1. UNCHANGED <<procesos, colas, ejecutando, largo, corto, hilos, suspendiendo, pcb_io, pc_io>>
  <2>1. CASE ConectarIo \/ IoServir
    BY <2>1 DEF ConectarIo, IoServir, cpus_ks, temps
  <2>2. CASE KernelMemory \/ EscucharKm \/ UNCHANGED vars
    BY <2>2
    DEF KernelMemory, KmCargar, KmFinalizar, KmSuspender, EscucharKm, vars, cpus_ks, colas,
        temps, io
  <2>3. CASE \E c \in Cpus : Cpu(c)
    BY <2>3
    DEF Cpu, CpuTomar, CpuTerminar, CpuSleep, CpuInitProc, CpuInterrumpir, CpuPedir,
        CpuDevolver, cpus_ks, temps, io
  <2> QED
    BY <2>1, <2>2, <2>3
<1>2. \A q \in Pids : \A v, z : En(q, v, z)' <=> En(q, v, z)
  BY <1>1 DEF En, EnReady, EntradasReady, colas, largo, corto, hilos
<1> QED
  BY <1>0, <1>1, <1>2, SinMover, ReservaIgual DEF MismosCreados, procesos, hilos, Efecto

-----------------------------------------------------------------------------
(* The handlers of the CPUs.                                                *)

(* A step of a handler that changes nothing but its own pc, PCB and message *)
(* moves no PCB, as long as it neither starts nor stops holding one.        *)
LEMMA HiloQuieto ==
  ASSUME NEW P, NEW M, NEW Q, NEW F, Bastan(P, M), BastanPasos(Q),
         InvLugaresEn(P, M, Q, F), MismosCreados, NEW c \in Cpus,
         UNCHANGED <<colas, ejecutando, largo, corto, suspendiendo, pcb_io, pc_io>>,
         \A d \in Cpus \ {c} : pc'[d] = pc[d] /\ pcb_h'[d] = pcb_h[d],
         pc[c] \notin PasosConPcbEnMano, pc'[c] \notin PasosConPcbEnMano,
         ejecutando[c] # NADIE => pc[c] # "block_liberar" /\ pc'[c] # "block_liberar"
  PROVE  LugaresSin(F)' /\ Efecto
<1>1. \A q \in Pids : q # NADIE
  BY ConstantesOK
<1>2. \A q \in Pids : \A v, z : En(q, v, z)' <=> En(q, v, z)
  <2>1. \A d \in Cpus : \A q \in Pids :
          /\ pcb_h'[d] = q /\ pc'[d] = "exit_post" <=> pcb_h[d] = q /\ pc[d] = "exit_post"
          /\ pcb_h'[d] = q /\ pc'[d] \in {"ready_post", "ready_encolar"}
               <=> pcb_h[d] = q /\ pc[d] \in {"ready_post", "ready_encolar"}
          /\ ejecutando'[d] = q /\ pc'[d] # "block_liberar"
               <=> ejecutando[d] = q /\ pc[d] # "block_liberar"
    BY <1>1 DEF PasosConPcbEnMano
  <2> QED
    BY <2>1 DEF En, EnReady, EntradasReady, colas, largo, corto
<1>3. LugaresSin(F)
  BY DEF InvLugaresEn
<1>4. LugaresSin(F)' /\ Quietos
  BY <1>2, <1>3, SinMover
<1> QED
  BY <1>4 DEF Efecto

(* What a step of handler c does to the variables of the handlers.          *)
LEMMA SoloElSuyo ==
  ASSUME NEW P, NEW M, NEW Q, NEW F, Bastan(P, M), BastanPasos(Q),
         InvLugaresEn(P, M, Q, F), NEW c \in Cpus, AtenderCpu(c)
  PROVE  \A d \in Cpus \ {c} :
           pc'[d] = pc[d] /\ pcb_h'[d] = pcb_h[d] /\ msg'[d] = msg[d]
<1>1. TipoBaseEn(P, M)
  BY DEF InvLugaresEn, InvMotivosEn, InvCpuEn
<1> QED
  BY <1>1
  DEF AtenderCpu, AtenderSinExit, RecibirExit, RecibirInterrupcion, RecibirSleep,
      RecibirInitProc, Recibir, Conectar, PublicarCpu, LiberarCpu, FinalizarEnKm, EsperarFin,
      EsperarKm, TerminarProceso, Bloquear, BloqueoPost, PedirIo, PedirCarga, EsperarCarga,
      CrearProceso, RechazarProceso, ReadyPost, ReadyEncolar, ReadyAvisar, SoltarPcb, Ir,
      TipoBaseEn, TipoHilosEn

LEMMA ReservaHilo ==
  ASSUME NEW P, NEW M, NEW Q, NEW F, Bastan(P, M), BastanPasos(Q),
         InvLugaresEn(P, M, Q, F), MismosCreados, NEW c \in Cpus, AtenderCpu(c),
         UNCHANGED proximo_pid,
         pc'[c] \in PasosInit => pcb_h'[c] \in Creadores,
         pc'[c] \in {"esperar_carga", "evaluar"} => msg'[c].pid = proximo_pid
  PROVE  ReservaBien'
  BY SoloElSuyo DEF InvLugaresEn, ReservaBien, MismosCreados

(* A handler that has a motive has the process of its CPU.                  *)
LEMMA RecibirLugares ==
  ASSUME NEW P, NEW M, NEW Q, NEW F, Bastan(P, M), BastanPasos(Q),
         InvLugaresEn(P, M, Q, F), NEW c \in Cpus,
         RecibirExit(c) \/ RecibirInterrupcion(c) \/ RecibirSleep(c) \/ RecibirInitProc(c)
  PROVE  LugaresSin(F)' /\ ReservaBien' /\ MismosCreados /\ Efecto
<1>0. /\ TipoBaseEn(P, M) /\ LugaresSin(F) /\ LadoCpuEn(M, Q) /\ AtenderCpu(c)
  BY DEF InvLugaresEn, InvMotivosEn, InvCpuEn, AtenderCpu, AtenderSinExit
<1>1. PICK m \in M, paso \in {"finalizar", "ready_liberar", "bloquear", "pedir_carga"} :
        /\ Recibir(c, m, paso)
        /\ paso = "pedir_carga" => m.syscall = "S_INIT_PROC"
        /\ estado' \in {estado, [estado EXCEPT ![ejecutando[c]] = "READY"],
                        [estado EXCEPT ![ejecutando[c]] = "BLOCK"]}
  <2>1. Mensajes \subseteq M
    BY DEF Bastan
  <2> QED
    BY <2>1 DEF RecibirExit, RecibirInterrupcion, RecibirSleep, RecibirInitProc
<1> DEFINE p == ejecutando[c]
<1>2. /\ p \in Pids /\ pc[c] = "recibir" /\ pc'[c] = paso /\ pcb_h'[c] = p
      /\ UNCHANGED <<proximo_pid, colas, ejecutando, largo, corto, suspendiendo, pcb_io, pc_io>>
  BY <1>0, <1>1, ConstantesOK
  DEF Recibir, Ir, TipoBaseEn, TipoCpusKs, TipoHilosEn, cpus_ks, io, temps
<1>3. motivos[c] # <<>> /\ m = Head(motivos[c])
  BY <1>1 DEF Recibir
<1>4. m \in MotivoDeEn(M, p)
  <2>1. PICK m2 \in MotivoDeEn(M, p) : motivos[c] = <<m2>>
    BY <1>0, <1>3 DEF LadoCpuEn, Libre, ConSuProcesoEn
  <2> QED
    BY <1>3, <2>1
<1>5. En(p, "cpu", c)
  BY <1>2 DEF En
<1> HIDE DEF p
<1>6. MismosCreados
  <2>1. estado[p] # "NO_CREADO"
    BY <1>0, <1>2, <1>5, Unico
  <2> QED
    BY <1>0, <1>1, <1>2, <2>1 DEF MismosCreados, TipoBaseEn, TipoProcesos, p
<1>7. \A d \in Cpus \ {c} : pc'[d] = pc[d] /\ pcb_h'[d] = pcb_h[d]
  BY <1>0, SoloElSuyo
<1>8. LugaresSin(F)' /\ Efecto
  BY <1>2, <1>6, <1>7, HiloQuieto DEF PasosConPcbEnMano
<1>9. paso = "pedir_carga" => p \in Creadores
  BY <1>1, <1>4 DEF MotivoDeEn
<1> QED
  BY <1>0, <1>2, <1>6, <1>8, <1>9, ReservaHilo DEF PasosInit

(* The steps of a handler that only wait, ask or post.                      *)
LEMMA QuietosLugares ==
  ASSUME NEW P, NEW M, NEW Q, NEW F, Bastan(P, M), BastanPasos(Q),
         InvLugaresEn(P, M, Q, F), NEW c \in Cpus,
         \/ Conectar(c) \/ PublicarCpu(c) \/ FinalizarEnKm(c) \/ EsperarFin(c)
         \/ BloqueoPost(c) \/ PedirIo(c) \/ PedirCarga(c) \/ EsperarCarga(c)
         \/ RechazarProceso(c) \/ ReadyAvisar(c)
  PROVE  LugaresSin(F)' /\ ReservaBien' /\ MismosCreados /\ Efecto
<1>0. TipoBaseEn(P, M) /\ LugaresSin(F) /\ ReservaBien /\ AtenderCpu(c)
  BY DEF InvLugaresEn, InvMotivosEn, InvCpuEn, AtenderCpu, AtenderSinExit
<1>1. UNCHANGED <<procesos, colas, ejecutando, largo, corto, suspendiendo, pcb_io, pc_io>>
  BY DEF Conectar, PublicarCpu, FinalizarEnKm, EsperarFin, EsperarKm, BloqueoPost, PedirIo,
      PedirCarga, EsperarCarga, RechazarProceso, ReadyAvisar, cpus_ks, temps, io
<1>2. MismosCreados
  BY <1>1 DEF MismosCreados, procesos
<1>3. \A d \in Cpus \ {c} : pc'[d] = pc[d] /\ pcb_h'[d] = pcb_h[d]
  BY <1>0, SoloElSuyo
<1>4. /\ pc[c] \notin PasosConPcbEnMano \cup {"block_liberar"}
      /\ pc'[c] \notin PasosConPcbEnMano \cup {"block_liberar"}
  BY <1>0
  DEF Conectar, PublicarCpu, FinalizarEnKm, EsperarFin, EsperarKm, BloqueoPost, PedirIo,
      PedirCarga, EsperarCarga, RechazarProceso, ReadyAvisar, SoltarPcb, Ir,
      PasosConPcbEnMano, TipoBaseEn, TipoHilosEn
<1>5. LugaresSin(F)' /\ Efecto
  BY <1>1, <1>2, <1>3, <1>4, HiloQuieto
<1>6. CASE PedirCarga(c)
  <2>1. pc[c] = "pedir_carga" /\ pcb_h' = pcb_h /\ msg'[c].pid = proximo_pid
    BY <1>0, <1>6 DEF PedirCarga, TipoBaseEn, TipoHilosEn, Mensajes
  <2>2. pcb_h[c] \in Creadores
    BY <1>0, <2>1 DEF ReservaBien, PasosInit
  <2> QED
    BY <1>0, <1>1, <1>2, <1>5, <2>1, <2>2, ReservaHilo DEF procesos
<1>7. CASE EsperarCarga(c)
  <2>1. pc[c] = "esperar_carga" /\ UNCHANGED <<pcb_h, msg>>
    BY <1>7 DEF EsperarCarga, EsperarKm
  <2>2. pcb_h[c] \in Creadores /\ msg[c].pid = proximo_pid
    BY <1>0, <2>1 DEF ReservaBien, PasosInit
  <2> QED
    BY <1>0, <1>1, <1>2, <1>5, <2>1, <2>2, ReservaHilo DEF procesos
<1>8. CASE \/ Conectar(c) \/ PublicarCpu(c) \/ FinalizarEnKm(c) \/ EsperarFin(c)
           \/ BloqueoPost(c) \/ PedirIo(c) \/ RechazarProceso(c) \/ ReadyAvisar(c)
  <2>1. pc'[c] \notin PasosInit
    BY <1>0, <1>8
    DEF Conectar, PublicarCpu, FinalizarEnKm, EsperarFin, EsperarKm, BloqueoPost, PedirIo,
        RechazarProceso, ReadyAvisar, SoltarPcb, Ir, PasosInit, TipoBaseEn, TipoHilosEn
  <2> QED
    BY <1>0, <1>1, <1>2, <1>5, <2>1, ReservaHilo DEF procesos, PasosInit
<1> QED
  BY <1>6, <1>7, <1>8

(* The steps of a handler that pass its PCB from one place to another.      *)
LEMMA MuevenLugares ==
  ASSUME NEW P, NEW M, NEW Q, NEW F, Bastan(P, M), BastanPasos(Q),
         InvLugaresEn(P, M, Q, F), NEW c \in Cpus,
         \/ LiberarCpu(c) \/ Bloquear(c) \/ ReadyPost(c) \/ ReadyEncolar(c)
         \/ TerminarProceso(c)
  PROVE  LugaresSin(F)' /\ ReservaBien' /\ MismosCreados /\ Efecto
<1> DEFINE p == pcb_h[c]
<1>0. TipoBaseEn(P, M) /\ LugaresSin(F) /\ ReservaBien /\ CpuDelHiloEn(Q) /\ AtenderCpu(c)
  BY DEF InvLugaresEn, InvMotivosEn, InvCpuEn, AtenderCpu, AtenderSinExit
<1>1. UNCHANGED <<proximo_pid, cola_new, cola_susp, largo, corto, suspendiendo, pcb_io, pc_io>>
  BY DEF LiberarCpu, Bloquear, ReadyPost, ReadyEncolar, TerminarProceso, procesos, colas, temps,
      io
<1>2. \A d \in Cpus \ {c} : pc'[d] = pc[d] /\ pcb_h'[d] = pcb_h[d]
  BY <1>0, SoloElSuyo
<1>3. /\ p \in Pids /\ \A q \in Pids : q # NADIE
      /\ pc[c] \in Q => ejecutando[c] = p
  <2>1. pc[c] \notin {"sin_conectar", "registrada", "recibir"}
    BY DEF LiberarCpu, Bloquear, ReadyPost, ReadyEncolar, TerminarProceso
  <2> QED
    BY <1>0, <2>1, ConPcbEn, ConstantesOK DEF TipoBaseEn, TipoHilosEn, CpuDelHiloEn
<1>4. pc'[c] \notin PasosInit
  BY <1>0
  DEF LiberarCpu, Bloquear, ReadyPost, ReadyEncolar, TerminarProceso, SoltarPcb, Ir,
      PasosInit, TipoBaseEn, TipoHilosEn
<1>5. LugaresSin(F)' /\ MismosCreados /\ Efecto
  <2>1. CASE LiberarCpu(c)
    <3>1. /\ pc[c] \in {"exit_liberar", "block_liberar", "ready_liberar"}
          /\ pc'[c] = CASE pc[c] = "exit_liberar"  -> "exit_post"
                         [] pc[c] = "block_liberar" -> "block_post"
                         [] pc[c] = "ready_liberar" -> "ready_post"
          /\ UNCHANGED <<pcb_h, estado, colas_ready, cola_block, cola_exit>>
      BY <1>0, <2>1 DEF LiberarCpu, Ir, procesos, colas, TipoBaseEn, TipoHilosEn
    <3>2. \A d \in Cpus : ejecutando'[d] = IF d = c THEN NADIE ELSE ejecutando[d]
      BY <1>0, <2>1 DEF LiberarCpu, TipoBaseEn, TipoCpusKs
    <3>3. ejecutando[c] = p
      BY <1>3, <3>1 DEF PasosConCpu, BastanPasos
    <3> HIDE DEF p
    <3>4. CASE pc[c] = "block_liberar"
      <4>1. pc'[c] = "block_post"
        BY <3>1, <3>4
      <4>2. \A q \in Pids : \A v, z : En(q, v, z)' <=> En(q, v, z)
        BY <1>1, <1>2, <1>3, <3>1, <3>2, <3>4, <4>1
        DEF En, EnReady, EntradasReady, largo, corto, PasosConPcbEnMano
      <4> QED
        BY <1>0, <3>1, <4>2, SinMover DEF MismosCreados, Efecto
    <3>5. CASE pc[c] = "exit_liberar"
      <4>1. pc'[c] = "exit_post"
        BY <3>1, <3>5
      <4>2. Mueve(p, "cpu", c, "saliente", c)
        BY <1>1, <1>2, <1>3, <3>1, <3>2, <3>3, <3>5, <4>1
        DEF Mueve, En, EnReady, EntradasReady, largo, corto, p
      <4> QED
        BY <1>0, <1>3, <3>1, <4>2, Mover DEF MismosCreados, Efecto
    <3>6. CASE pc[c] = "ready_liberar"
      <4>1. pc'[c] = "ready_post"
        BY <3>1, <3>6
      <4>2. Mueve(p, "cpu", c, "devuelto", c)
        BY <1>1, <1>2, <1>3, <3>1, <3>2, <3>3, <3>6, <4>1
        DEF Mueve, En, EnReady, EntradasReady, largo, corto, p
      <4> QED
        BY <1>0, <1>3, <3>1, <4>2, Mover DEF MismosCreados, Efecto
    <3> QED
      BY <3>1, <3>4, <3>5, <3>6
  <2>2. CASE Bloquear(c)
    <3>1. /\ pc[c] = "bloquear" /\ pc'[c] = "block_liberar" /\ cola_block' = cola_block \cup {p}
          /\ UNCHANGED <<pcb_h, estado, colas_ready, cola_exit, ejecutando>>
      BY <1>0, <2>2 DEF Bloquear, Ir, procesos, cpus_ks, TipoBaseEn, TipoHilosEn
    <3>2. ejecutando[c] = p
      BY <1>3, <3>1 DEF PasosConCpu, BastanPasos
    <3> HIDE DEF p
    <3>3. Mueve(p, "cpu", c, "block", p)
      BY <1>1, <1>2, <1>3, <3>1, <3>2
      DEF Mueve, En, EnReady, EntradasReady, largo, corto, PasosConPcbEnMano
    <3> QED
      BY <1>0, <1>3, <3>1, <3>3, Mover DEF MismosCreados, Efecto
  <2>3. CASE ReadyPost(c)
    <3>1. /\ pc[c] = "ready_post" /\ pc'[c] = "ready_encolar"
          /\ estado' = [estado EXCEPT ![p] = "READY"]
          /\ UNCHANGED <<pcb_h, colas_ready, cola_block, cola_exit, ejecutando>>
      BY <1>0, <2>3 DEF ReadyPost, Ir, colas, cpus_ks, TipoBaseEn, TipoHilosEn
    <3>2. En(p, "devuelto", c)
      BY <3>1 DEF En, PasosConPcbEnMano
    <3> HIDE DEF p
    <3>3. estado[p] # "NO_CREADO"
      BY <1>0, <1>3, <3>2, Unico
    <3>4. MismosCreados
      BY <1>0, <1>3, <3>1, <3>3 DEF MismosCreados, TipoBaseEn, TipoProcesos
    <3>5. \A q \in Pids : \A v, z : En(q, v, z)' <=> En(q, v, z)
      BY <1>1, <1>2, <3>1 DEF En, EnReady, EntradasReady, largo, corto, PasosConPcbEnMano
    <3> QED
      BY <1>0, <3>4, <3>5, SinMover DEF Efecto
  <2>4. CASE ReadyEncolar(c)
    <3> DEFINE e == EntradaNueva(p)
    <3>1. /\ pc[c] = "ready_encolar" /\ pc'[c] = "ready_avisar"
          /\ colas_ready' = ListaReadyCon(p)
          /\ UNCHANGED <<pcb_h, estado, cola_block, cola_exit, ejecutando>>
      BY <1>0, <2>4 DEF ReadyEncolar, Ir, procesos, cpus_ks, TipoBaseEn, TipoHilosEn
    <3>2. \A q, z : EnReady(q, z)' <=> EnReady(q, z) \/ (q = p /\ z = e)
      BY <1>0, <1>3, <3>1, EncolarLugar
    <3> HIDE DEF e
    <3>3. Mueve(p, "devuelto", c, "ready", e)
      BY <1>1, <1>2, <1>3, <3>1, <3>2 DEF Mueve, En, largo, corto, PasosConPcbEnMano
    <3> QED
      BY <1>0, <1>3, <3>1, <3>3, Mover DEF MismosCreados, Efecto
  <2>5. CASE TerminarProceso(c)
    <3>1. /\ pc[c] = "exit_post" /\ pc'[c] = "recibir" /\ cola_exit' = cola_exit \cup {p}
          /\ estado' = [estado EXCEPT ![p] = "EXIT"]
          /\ UNCHANGED <<colas_ready, cola_block, ejecutando>>
      BY <1>0, <2>5 DEF TerminarProceso, SoltarPcb, Ir, cpus_ks, TipoBaseEn, TipoHilosEn
    <3>2. Mueve(p, "saliente", c, "exit", p)
      BY <1>1, <1>2, <1>3, <3>1
      DEF Mueve, En, EnReady, EntradasReady, largo, corto, PasosConPcbEnMano
    <3> HIDE DEF p
    <3>3. estado[p] # "NO_CREADO"
      BY <1>0, <1>3, <3>2, Unico DEF Mueve
    <3>4. MismosCreados
      BY <1>0, <1>3, <3>1, <3>3 DEF MismosCreados, TipoBaseEn, TipoProcesos
    <3> QED
      BY <1>0, <1>3, <3>2, <3>4, Mover DEF Efecto
  <2> QED
    BY <2>1, <2>2, <2>3, <2>4, <2>5
<1> QED
  BY <1>0, <1>1, <1>4, <1>5, ReservaHilo DEF PasosInit

(* The step that creates: the only one that gives a place to a process that *)
(* had none.  No other handler is creating, because the only process that   *)
(* may ask for it is on one CPU.                                            *)
LEMMA CrearLugares ==
  ASSUME NEW P, NEW M, NEW Q, NEW F, Bastan(P, M), BastanPasos(Q),
         InvLugaresEn(P, M, Q, F), UnCreador, NEW c \in Cpus, CrearProceso(c)
  PROVE  LugaresSin(F)' /\ ReservaBien' /\ Nacimiento(msg[c].pid)
<1>a. PICK n, i : n = msg[c].pid /\ i = Len(cola_new) + 1
  OBVIOUS
<1>0. TipoBaseEn(P, M) /\ LugaresSin(F) /\ ReservaBien /\ CpuDelHiloEn(Q) /\ AtenderCpu(c)
  BY DEF InvLugaresEn, InvMotivosEn, InvCpuEn, AtenderCpu, AtenderSinExit
<1>1. /\ pc[c] = "evaluar" /\ pc'[c] = "ready_liberar" /\ proximo_pid' = proximo_pid + 1
      /\ estado' = [estado EXCEPT ![n] = "NEW"] /\ cola_new' = Append(cola_new, n)
      /\ UNCHANGED <<pcb_h, msg, colas_ready, cola_block, cola_susp, cola_exit, ejecutando,
                     largo, corto, suspendiendo, pcb_io, pc_io>>
  BY <1>a, <1>0 DEF CrearProceso, Ir, TipoBaseEn, TipoHilosEn, cpus_ks, temps, io
<1>2. n \in Pids /\ n = proximo_pid /\ proximo_pid \in Nat
  BY <1>a, <1>0, <1>1, MensajeDelHiloEn DEF TipoBaseEn, TipoHilosEn, TipoProcesos, ReservaBien
<1>3. estado[n] = "NO_CREADO" /\ SinLugar(n)
  BY <1>0, <1>2 DEF ReservaBien, LugaresSin, Pids
<1>4. \A d \in Cpus \ {c} : pc'[d] = pc[d]
  BY <1>0, SoloElSuyo
<1>5. /\ DOMAIN cola_new = 1 .. i - 1 /\ DOMAIN cola_new' = 1 .. i /\ i \in Nat \ {0}
      /\ cola_new'[i] = n
      /\ \A j \in 1 .. i - 1 : cola_new'[j] = cola_new[j]
  <2>1. cola_new \in Seq(Pids) /\ cola_new' = Append(cola_new, n)
    BY <1>0, <1>1 DEF TipoBaseEn, TipoColas
  <2>2. Len(cola_new) \in Nat
    BY <2>1
  <2> QED
    BY <1>a, <1>2, <2>1, <2>2
<1>6. \A q \in Pids : \A v, z :
        En(q, v, z)' <=> En(q, v, z) \/ (q = n /\ v = "new" /\ z = i)
  <2>1. \A q \in Pids : \A z : En(q, "new", z)' <=> En(q, "new", z) \/ (q = n /\ z = i)
    BY <1>5 DEF En
  <2>2. \A q \in Pids : \A v, z : v # "new" => (En(q, v, z)' <=> En(q, v, z))
    BY <1>1, <1>4 DEF En, EnReady, EntradasReady, largo, corto, PasosConPcbEnMano
  <2> QED
    BY <2>1, <2>2
<1>7. UnLugar(n)'
  <2>1. SoloEn(n, "new", i)'
    BY <1>2, <1>3, <1>6 DEF SoloEn, SinLugar
  <2> QED
    BY <2>1 DEF UnLugar
<1>8. ASSUME NEW q \in Pids \ {n}
      PROVE  /\ estado'[q] = estado[q]
             /\ IF estado'[q] = "NO_CREADO" \/ q \in F THEN SinLugar(q)' ELSE UnLugar(q)'
  <2>1. estado'[q] = estado[q]
    BY <1>0, <1>1 DEF TipoBaseEn, TipoProcesos
  <2>2. \A v, z : En(q, v, z)' <=> En(q, v, z)
    BY <1>6
  <2>3. \A v, z : SoloEn(q, v, z) => SoloEn(q, v, z)'
    BY <2>2 DEF SoloEn
  <2>4. UnLugar(q) => UnLugar(q)'
    BY <2>3 DEF UnLugar
  <2>5. SinLugar(q) => SinLugar(q)'
    BY <2>2 DEF SinLugar
  <2> QED
    BY <1>0, <2>1, <2>4, <2>5 DEF LugaresSin
<1>9. estado'[n] = "NEW"
  BY <1>0, <1>1, <1>2 DEF TipoBaseEn, TipoProcesos
<1>10. LugaresSin(F)'
  <2>1. n \notin F
    BY <1>3 DEF InvLugaresEn
  <2> QED
    BY <1>7, <1>8, <1>9, <2>1 DEF LugaresSin
<1>11. ASSUME NEW d \in Cpus, d # c, pc[d] \in {"esperar_carga", "evaluar"}
       PROVE  FALSE
  <2>1. pcb_h[c] \in Creadores /\ pcb_h[d] \in Creadores
    BY <1>0, <1>1, <1>11 DEF ReservaBien, PasosInit
  <2>2. pcb_h[c] = pcb_h[d] /\ pcb_h[c] \in Pids
    BY <2>1, ConstantesOK DEF UnCreador
  <2>3. ejecutando[c] = pcb_h[c] /\ ejecutando[d] = pcb_h[c]
    BY <1>0, <1>1, <1>11, <2>2 DEF CpuDelHiloEn, PasosConCpu, BastanPasos
  <2>4. En(pcb_h[c], "cpu", c) /\ En(pcb_h[c], "cpu", d)
    BY <1>1, <1>11, <2>3 DEF En
  <2> QED
    BY <1>0, <1>11, <2>2, <2>4, Unico
<1>12. ReservaBien'
  <2>1. \A p \in Pids : p >= proximo_pid' <=> estado'[p] = "NO_CREADO"
    <3>1. \A p \in Pids : p >= proximo_pid + 1 <=> p >= proximo_pid /\ p # n
      BY <1>2 DEF Pids
    <3> QED
      BY <1>0, <1>1, <1>8, <1>9, <3>1 DEF ReservaBien
  <2>2. \A d \in Cpus : pc'[d] \in PasosInit => pcb_h'[d] \in Creadores
    BY <1>0, <1>1, <1>4 DEF ReservaBien, PasosInit
  <2>3. \A d \in Cpus : pc'[d] \notin {"esperar_carga", "evaluar"}
    BY <1>1, <1>4, <1>11
  <2> QED
    BY <2>1, <2>2, <2>3 DEF ReservaBien
<1>13. Nacimiento(n)
  <2>1. EnTipo(n, "new")'
    BY <1>2, <1>6 DEF EnTipo
  <2>2. \A q \in Pids : q < n => estado[q] # "NO_CREADO"
    BY <1>0, <1>2 DEF ReservaBien, Pids
  <2>3. \E padre \in Pids : EnTipo(padre, "cpu")
    <3>1. pcb_h[c] \in Pids /\ ejecutando[c] = pcb_h[c]
      BY <1>0, <1>1, ConstantesOK
      DEF ReservaBien, PasosInit, CpuDelHiloEn, PasosConCpu, BastanPasos
    <3>2. En(pcb_h[c], "cpu", c)
      BY <1>1, <3>1 DEF En
    <3> QED
      BY <3>1, <3>2 DEF EnTipo
  <2>4. ASSUME NEW q \in Pids \ {n}
        PROVE  estado'[q] = estado[q] /\ \A v : EnTipo(q, v) => EnTipo(q, v)'
    BY <1>6, <1>8 DEF EnTipo
  <2> QED
    BY <1>3, <2>1, <2>2, <2>3, <2>4 DEF Nacimiento
<1> QED
  BY <1>a, <1>10, <1>12, <1>13

-----------------------------------------------------------------------------
(* The theorems.                                                            *)

LEMMA InitLugares == Init => LugaresBien /\ ReservaBien
<1> SUFFICES ASSUME Init PROVE LugaresBien /\ ReservaBien
  OBVIOUS
<1>1. \A p \in Pids : \A v, z : En(p, v, z) <=> p = 0 /\ v = "new" /\ z = 1
  <2>1. \A p, z : ~ EnReady(p, z)
    BY EsEntrada DEF EnReady, Init
  <2>2. DOMAIN cola_new = {1} /\ cola_new[1] = 0
    BY DEF Init
  <2>3. \A p \in Pids : \A z : En(p, "new", z) <=> p = 0 /\ z = 1
    BY <2>2 DEF En
  <2>4. \A p \in Pids : \A v, z : v # "new" => ~ En(p, v, z)
    BY <2>1, ConstantesOK DEF Init, En, PasosConPcbEnMano
  <2> QED
    BY <2>3, <2>4
<1>2. UnLugar(0)
  <2>1. SoloEn(0, "new", 1)
    BY <1>1, Constantes DEF SoloEn
  <2> QED
    BY <2>1 DEF UnLugar
<1>3. \A p \in Pids : p # 0 => SinLugar(p)
  BY <1>1 DEF SinLugar
<1>4. \A p \in Pids : estado[p] = IF p = 0 THEN "NEW" ELSE "NO_CREADO"
  BY DEF Init
<1>5. LugaresBien
  BY <1>2, <1>3, <1>4 DEF LugaresBien, LugaresSin
<1>6. ReservaBien
  BY <1>4 DEF Init, ReservaBien, PasosInit, Pids
<1> QED
  BY <1>5, <1>6

LEMMA HiloLugares ==
  ASSUME NEW P, NEW M, NEW Q, NEW F, Bastan(P, M), BastanPasos(Q),
         InvLugaresEn(P, M, Q, F), UnCreador, NEW c \in Cpus, AtenderCpu(c)
  PROVE  /\ LugaresSin(F)' /\ ReservaBien'
         /\ (MismosCreados /\ Efecto) \/ (CrearProceso(c) /\ Nacimiento(msg[c].pid))
  BY RecibirLugares, QuietosLugares, MuevenLugares, CrearLugares DEF AtenderCpu, AtenderSinExit

LEMMA EfectoDelPasoEn ==
  ASSUME NEW P, NEW M, NEW Q, NEW F, Bastan(P, M), BastanPasos(Q),
         InvLugaresEn(P, M, Q, F), UnCreador, [Next]_vars
  PROVE  /\ LugaresSin(F)' /\ ReservaBien'
         /\ (MismosCreados /\ Efecto) \/ \E n \in Pids : Nacimiento(n)
<1>1. ASSUME NEW c \in Cpus
      PROVE  msg[c].pid \in Pids
  BY <1>1, MensajeDelHiloEn DEF InvLugaresEn, InvMotivosEn, InvCpuEn, TipoBaseEn
<1> QED
  BY <1>1, LargoLugares, CortoLugares, IoLugares, TimerLugares, OtrosLugares, HiloLugares
  DEF Next

(* The same for the scheduler without further system calls.                 *)
LEMMA InvLugaresSuyo ==
  InvLugares <=> InvLugaresEn(PasosHilo, Mensajes, PasosConCpu, {}) /\ TipoKm
  BY InvMotivosSuyo DEF InvLugares, InvLugaresEn, LugaresBien

LEMMA EfectoDelPaso ==
  ASSUME InvLugares, UnCreador, [Next]_vars
  PROVE  /\ LugaresBien' /\ ReservaBien'
         /\ (MismosCreados /\ Efecto) \/ \E n \in Pids : Nacimiento(n)
<1>1. /\ InvLugaresEn(PasosHilo, Mensajes, PasosConCpu, {})
      /\ Bastan(PasosHilo, Mensajes) /\ BastanPasos(PasosConCpu)
  BY BastanLosSuyos, InvMotivosSuyo, InvLugaresSuyo
<1> QED
  BY <1>1, EfectoDelPasoEn DEF LugaresBien

LEMMA PasoLugares ==
  ASSUME InvLugares, UnCreador, [Next]_vars
  PROVE  InvLugares'
  BY EfectoDelPaso, PasoMotivos DEF InvLugares

(* LugaresInvariante: with one script that creates, every PCB has exactly   *)
(* one place and proximo_pid belongs to nobody.                             *)
THEOREM LugaresInvariante ==
  ASSUME UnCreador
  PROVE  Spec => []InvLugares
<1>1. Init => LugaresBien /\ ReservaBien
  BY InitLugares
<1>2. LugaresBien /\ ReservaBien /\ InvMotivos /\ [Next]_vars => LugaresBien' /\ ReservaBien'
  BY PasoLugares DEF InvLugares
<1>3. LugaresBien /\ ReservaBien /\ InvMotivos => InvLugares
  BY DEF InvLugares
<1> QED
  BY <1>1, <1>2, <1>3, MotivosInvariante, PTL DEF Spec

(* NingunPcbSePierde: no PCB is lost and none is in two places.             *)
THEOREM NingunPcbSePierde ==
  ASSUME UnCreador
  PROVE  Spec => []UnSoloLugar
<1>1. InvLugares => UnSoloLugar
  BY ContarLugares DEF InvLugares
<1> QED
  BY <1>1, LugaresInvariante, PTL

(* NuncaEnDosCpus: no process runs on two CPUs, or runs on one while        *)
(* another has its dispatch pending.                                        *)
THEOREM NuncaEnDosCpus ==
  ASSUME UnCreador
  PROVE  Spec => []UnaCpuPorProceso
<1>1. InvLugares => UnaCpuPorProceso
  <2> SUFFICES ASSUME InvLugares, NEW c \in Cpus, NEW d \in Cpus, NEW p \in Pids,
                      p \in EnCpu(c), p \in EnCpu(d), c # d
               PROVE  FALSE
    BY DEF UnaCpuPorProceso, EnCpu
  <2>1. ASSUME NEW a \in Cpus, p \in EnCpu(a)
        PROVE  En(p, "cpu", a)
    <3>1. ~ Libre(a)
      BY <2>1, ConstantesOK DEF EnCpu, Libre
    <3>2. ConSuProcesoEn(Mensajes, PasosConCpu, a)
      BY <3>1 DEF InvLugares, InvMotivos, LadoCpu, LadoCpuEn
    <3>3. ejecutando[a] = p
      BY <2>1, <3>2, ConstantesOK DEF EnCpu, ConSuProcesoEn
    <3> QED
      BY <3>2, <3>3 DEF En, ConSuProcesoEn, PasosConCpu
  <2> QED
    BY <2>1, Unico DEF InvLugares, LugaresBien
<1> QED
  BY <1>1, LugaresInvariante, PTL

-----------------------------------------------------------------------------
(* The threads implement the life cycle of ProcesosAbs, when a single       *)
(* script contains INIT_PROC.  The phase of a process is decided by the     *)
(* kind of place its PCB has; the step lemmas above say which kinds a PCB   *)
(* goes between, and each of those moves is an action of ProcesosAbs or a   *)
(* stutter.                                                                 *)

FaseTipo(t) ==
  CASE t = "new" -> "NEW"
    [] t \in {"exit", "saliente"} -> "EXIT"
    [] t = "susp" -> "SUSP_BLOCK"
    [] t \in {"block", "temporizador"} -> "BLOCK"
    [] t \in {"corto", "cpu"} -> "EXEC"
    [] t \in {"ready", "largo", "io", "devuelto"} -> "READY"

\* A process of F is at none of these places.
FasesBien(F) ==
  \A p \in Pids :
    /\ estado[p] = "NO_CREADO" => FaseDe(p) = "NO_CREADO"
    /\ p \in F => FaseDe(p) = "READY"
    /\ \A t : EnTipo(p, t) => FaseDe(p) = FaseTipo(t)

LEMMA FasesPorTipo ==
  ASSUME NEW P, NEW M, NEW F, TipoBaseEn(P, M), LugaresSin(F),
         \A p \in F : estado[p] # "NO_CREADO"
  PROVE  FasesBien(F)
<1> SUFFICES ASSUME NEW p \in Pids
             PROVE  /\ estado[p] = "NO_CREADO" => FaseDe(p) = "NO_CREADO"
                    /\ p \in F => FaseDe(p) = "READY"
                    /\ \A t : EnTipo(p, t) => FaseDe(p) = FaseTipo(t)
  BY DEF FasesBien
<1>1. ASSUME estado[p] = "NO_CREADO" \/ p \in F
      PROVE  FaseDe(p) = IF p \in F THEN "READY" ELSE "NO_CREADO"
  <2>1. \A t, x : ~ En(p, t, x)
    BY <1>1 DEF LugaresSin, SinLugar
  <2>2. /\ ~ \E i \in DOMAIN cola_new : cola_new[i] = p
        /\ ~ (p \in cola_exit \/ \E c \in Cpus : pcb_h[c] = p /\ pc[c] = "exit_post")
        /\ p \notin cola_susp /\ p \notin cola_block \cup suspendiendo
        /\ ~ (\/ pcb_corto = p
              \/ \E c \in Cpus : ejecutando[c] = p /\ pc[c] # "block_liberar")
    BY <2>1, ConstantesOK DEF En, TipoBaseEn, TipoCorto
  <2> QED
    BY <1>1, <2>2 DEF FaseDe
<1>2. ASSUME NEW t, EnTipo(p, t)
      PROVE  FaseDe(p) = FaseTipo(t)
  <2>1. PICK x : En(p, t, x)
    BY <1>2 DEF EnTipo
  <2>2. /\ estado[p] # "NO_CREADO"
        /\ \A u, y : En(p, u, y) <=> u = t /\ y = x
    BY <2>1, Unico
  <2>3. (\E i \in DOMAIN cola_new : cola_new[i] = p) <=> t = "new"
    <3>1. \A i : i \in DOMAIN cola_new /\ cola_new[i] = p <=> En(p, "new", i)
      BY DEF En
    <3> QED
      BY <2>2, <3>1
  <2>4. (p \in cola_exit \/ \E c \in Cpus : pcb_h[c] = p /\ pc[c] = "exit_post")
          <=> t \in {"exit", "saliente"}
    <3>1. p \in cola_exit <=> En(p, "exit", p)
      BY DEF En
    <3>2. \A c : c \in Cpus /\ pcb_h[c] = p /\ pc[c] = "exit_post" <=> En(p, "saliente", c)
      BY DEF En
    <3>3. \A y : En(p, "exit", y) => y = p
      BY DEF En
    <3> QED
      BY <2>1, <2>2, <3>1, <3>2, <3>3
  <2>5. p \in cola_susp <=> t = "susp"
    BY <2>1, <2>2 DEF En
  <2>6. p \in cola_block \cup suspendiendo <=> t \in {"block", "temporizador"}
    <3>1. p \in cola_block <=> t = "block"
      BY <2>1, <2>2 DEF En
    <3>2. p \in suspendiendo <=> t = "temporizador"
      BY <2>1, <2>2 DEF En
    <3> QED
      BY <3>1, <3>2
  <2>7. (\/ pcb_corto = p
         \/ \E c \in Cpus : ejecutando[c] = p /\ pc[c] # "block_liberar")
          <=> t \in {"corto", "cpu"}
    <3>1. pcb_corto = p <=> En(p, "corto", p)
      BY ConstantesOK DEF En, TipoBaseEn, TipoCorto
    <3>2. \A c : c \in Cpus /\ ejecutando[c] = p /\ pc[c] # "block_liberar" <=> En(p, "cpu", c)
      BY DEF En
    <3>3. \A y : En(p, "corto", y) => y = p
      BY DEF En
    <3> QED
      BY <2>1, <2>2, <3>1, <3>2, <3>3
  <2>8. t \in {"new", "ready", "block", "susp", "exit", "temporizador", "cpu", "saliente",
               "devuelto", "largo", "corto", "io"}
    BY <2>1 DEF En
  <2> DEFINE n == \E i \in DOMAIN cola_new : cola_new[i] = p
             e == p \in cola_exit \/ \E c \in Cpus : pcb_h[c] = p /\ pc[c] = "exit_post"
             x1 == \/ pcb_corto = p
                   \/ \E c \in Cpus : ejecutando[c] = p /\ pc[c] # "block_liberar"
  <2>9. FaseDe(p) = CASE estado[p] = "NO_CREADO" -> "NO_CREADO"
                      [] n -> "NEW" [] e -> "EXIT" [] p \in cola_susp -> "SUSP_BLOCK"
                      [] p \in cola_block \cup suspendiendo -> "BLOCK"
                      [] x1 -> "EXEC" [] OTHER -> "READY"
    BY DEF FaseDe
  <2> QED
    BY <2>2, <2>3, <2>4, <2>5, <2>6, <2>7, <2>8, <2>9 DEF FaseTipo
<1>3. p \in F => estado[p] # "NO_CREADO"
  OBVIOUS
<1> QED
  BY <1>1, <1>2, <1>3

-----------------------------------------------------------------------------
(* What a step does to the phases.                                          *)

LEMMA FaseQuieta ==
  ASSUME NEW F, LugaresSin(F), FasesBien(F), FasesBien(F)', NEW q \in Pids,
         estado'[q] = "NO_CREADO" <=> estado[q] = "NO_CREADO",
         \A v : EnTipo(q, v) => EnTipo(q, v)'
  PROVE  FaseDe(q)' = FaseDe(q)
<1>1. CASE estado[q] = "NO_CREADO" \/ q \in F
  BY <1>1 DEF FasesBien
<1>2. CASE estado[q] # "NO_CREADO" /\ q \notin F
  <2>1. PICK t, x : SoloEn(q, t, x)
    BY <1>2 DEF LugaresSin, UnLugar
  <2>2. EnTipo(q, t)
    BY <2>1 DEF SoloEn, EnTipo
  <2> QED
    BY <2>2 DEF FasesBien
<1> QED
  BY <1>1, <1>2

LEMMA FaseTraslado ==
  ASSUME NEW F, LugaresSin(F), FasesBien(F), FasesBien(F)', MismosCreados,
         NEW p \in Pids, NEW t, NEW u, Traslado(p, t, u)
  PROVE  /\ FaseDe(p) = FaseTipo(t) /\ FaseDe(p)' = FaseTipo(u)
         /\ \A q \in Pids \ {p} : FaseDe(q)' = FaseDe(q)
<1>1. FaseDe(p) = FaseTipo(t) /\ FaseDe(p)' = FaseTipo(u)
  BY DEF FasesBien, Traslado
<1>2. ASSUME NEW q \in Pids \ {p}
      PROVE  FaseDe(q)' = FaseDe(q)
  <2>1. /\ estado'[q] = "NO_CREADO" <=> estado[q] = "NO_CREADO"
        /\ \A v : EnTipo(q, v) => EnTipo(q, v)'
    BY DEF Traslado, MismosCreados
  <2> QED
    BY <2>1, FaseQuieta
<1> QED
  BY <1>1, <1>2

(* A step that gives one process another phase is Mover in ProcesosAbs.     *)
LEMMA MoverAbs ==
  ASSUME NEW p \in Pids, NEW f, NEW g, FaseDe(p) = f, FaseDe(p)' = g,
         \A q \in Pids \ {p} : FaseDe(q)' = FaseDe(q)
  PROVE  Abs!Mover(p, f, g)
<1> DEFINE fase == [q \in Pids |-> FaseDe(q)]
<1>1. fase[p] = f
  OBVIOUS
<1>2. fase' = [fase EXCEPT ![p] = g]
  <2>1. fase' = [q \in Pids |-> FaseDe(q)']
    OBVIOUS
  <2>2. \A q \in Pids : FaseDe(q)' = IF q = p THEN g ELSE FaseDe(q)
    OBVIOUS
  <2> QED
    BY <2>1, <2>2
<1> QED
  BY <1>1, <1>2 DEF Abs!Mover

(* Cardinality in the instance is that of FiniteSets.                       *)
LEMMA MismaCardinalidad == \A S : Abs!Cardinality(S) = Cardinality(S)
  BY DEF Abs!Cardinality, Cardinality

(* When the short-term planner has its two permits some CPU is free, so the *)
(* processes that execute are fewer than the CPUs.                          *)
LEMMA CabeUnoMas ==
  ASSUME NEW P, NEW M, NEW Q, NEW F, InvLugaresEn(P, M, Q, F), FasesBien(F),
         pc_corto = "sacar"
  PROVE  Cardinality(Abs!En("EXEC")) < Cardinality(Cpus)
<1>0. TipoBaseEn(P, M) /\ LugaresSin(F) /\ InvCpuEn(P, M, Q)
  BY DEF InvLugaresEn, InvMotivosEn, InvCpuEn
<1> DEFINE E == Abs!En("EXEC")
<1>1. E \subseteq Pids /\ \A p \in E : FaseDe(p) = "EXEC"
  BY DEF Abs!En, Abs!PidsAbs, Pids
<1>2. PICK l \in Cpus : ejecutando[l] = NADIE
  <2>1. Si(pc_corto \in {"sacar", "despachar"}) = 1
    BY DEF Si
  <2>2. Cardinality(CpusLibres) # 0
    BY <1>0, <2>1, CpusFinitas DEF InvCpuEn, PermisosCpu, TipoBaseEn, TipoSemaforos
  <2>3. CpusLibres # {}
    BY <2>2, FS_EmptySet
  <2> QED
    BY <1>0, <2>3 DEF CpusLibres, TipoBaseEn, TipoCpusKs
<1>3. ASSUME NEW p \in E
      PROVE  \E c \in Cpus \ {l} : ejecutando[c] = p
  <2>1. p \in Pids /\ p # NADIE /\ FaseDe(p) = "EXEC"
    BY <1>1, ConstantesOK
  <2>2. estado[p] # "NO_CREADO" /\ p \notin F
    BY <2>1 DEF FasesBien
  <2>3. PICK t, x : SoloEn(p, t, x)
    BY <1>0, <2>1, <2>2 DEF LugaresSin, UnLugar
  <2>4. En(p, t, x) /\ EnTipo(p, t)
    BY <2>3 DEF SoloEn, EnTipo
  <2>5. FaseTipo(t) = "EXEC"
    BY <2>1, <2>4 DEF FasesBien
  <2>6. t = "cpu"
    <3>1. t # "corto"
      BY <2>4 DEF En
    <3> QED
      BY <2>4, <2>5, <3>1 DEF En, FaseTipo
  <2> QED
    BY <1>2, <2>1, <2>4, <2>6 DEF En
<1> DEFINE f == [p \in E |-> CHOOSE c \in Cpus \ {l} : ejecutando[c] = p]
<1>4. f \in [E -> Cpus \ {l}] /\ \A p \in E : ejecutando[f[p]] = p
  BY <1>3
<1>5. IsFiniteSet(E) /\ Cardinality(E) \in Nat
  <2>1. IsFiniteSet(Pids)
    BY ConstantesOK, FS_Interval DEF Pids
  <2> QED
    BY <1>1, <2>1, FS_Subset, FS_CardinalityType
<1>6. /\ IsFiniteSet(Cpus \ {l}) /\ Cardinality(Cpus \ {l}) = Cardinality(Cpus) - 1
      /\ Cardinality(Cpus) \in Nat
  BY ConstantesOK, FS_RemoveElement, FS_CardinalityType
<1> HIDE DEF f, E
<1>7. ~ (Cardinality(Cpus \ {l}) < Cardinality(E))
  BY <1>4, <1>5, <1>6, FS_PigeonHole
<1>8. Cardinality(E) < Cardinality(Cpus)
  BY <1>5, <1>6, <1>7
<1> QED
  BY <1>8 DEF E

-----------------------------------------------------------------------------
(* The step simulation.                                                     *)

LEMMA PasoQuieto ==
  ASSUME NEW F, LugaresSin(F), FasesBien(F), FasesBien(F)', MismosCreados, Quietos
  PROVE  [p \in Pids |-> FaseDe(p)]' = [p \in Pids |-> FaseDe(p)]
<1>1. \A p \in Pids : FaseDe(p)' = FaseDe(p)
  <2> TAKE p \in Pids
  <2>1. /\ estado'[p] = "NO_CREADO" <=> estado[p] = "NO_CREADO"
        /\ \A v : EnTipo(p, v) => EnTipo(p, v)'
    BY DEF Quietos, MismosCreados
  <2> QED
    BY <2>1, FaseQuieta
<1> QED
  BY <1>1

(* A move between two kinds of the same phase is a stutter.                 *)
LEMMA MismaFase ==
  ASSUME NEW F, LugaresSin(F), FasesBien(F), FasesBien(F)', MismosCreados,
         NEW p \in Pids, NEW t, NEW u, Traslado(p, t, u), FaseTipo(t) = FaseTipo(u)
  PROVE  [q \in Pids |-> FaseDe(q)]' = [q \in Pids |-> FaseDe(q)]
<1>1. \A q \in Pids : FaseDe(q)' = FaseDe(q)
  BY FaseTraslado
<1> QED
  BY <1>1

LEMMA OtraFase ==
  ASSUME NEW F, LugaresSin(F), FasesBien(F), FasesBien(F)', MismosCreados,
         NEW p \in Pids, NEW t, NEW u, Traslado(p, t, u)
  PROVE  Abs!Mover(p, FaseTipo(t), FaseTipo(u))
  BY FaseTraslado, MoverAbs

LEMMA NaceAbs ==
  ASSUME NEW F, LugaresSin(F), FasesBien(F), FasesBien(F)', NEW n \in Pids, Nacimiento(n)
  PROVE  Abs!Crear(n)
<1>1. FaseDe(n) = "NO_CREADO" /\ FaseDe(n)' = "NEW"
  BY DEF FasesBien, Nacimiento, FaseTipo
<1>2. \A q \in Pids \ {n} : FaseDe(q)' = FaseDe(q)
  BY FaseQuieta DEF Nacimiento
<1>3. Abs!Mover(n, "NO_CREADO", "NEW")
  BY <1>1, <1>2, MoverAbs
<1>4. \E padre \in Pids : FaseDe(padre) = "EXEC"
  BY DEF Nacimiento, FasesBien, FaseTipo
<1>5. ASSUME NEW q \in Pids, q < n
      PROVE  FaseDe(q) # "NO_CREADO"
  <2>0. estado[q] # "NO_CREADO"
    BY <1>5 DEF Nacimiento
  <2>1. CASE q \in F
    BY <2>1 DEF FasesBien
  <2> SUFFICES ASSUME q \notin F PROVE FaseDe(q) # "NO_CREADO"
    BY <2>1
  <2>2. PICK t, x : SoloEn(q, t, x)
    BY <2>0 DEF LugaresSin, UnLugar
  <2>3. En(q, t, x) /\ EnTipo(q, t)
    BY <2>2 DEF SoloEn, EnTipo
  <2>4. FaseDe(q) = FaseTipo(t)
    BY <2>3 DEF FasesBien
  <2> QED
    BY <2>3, <2>4 DEF En, FaseTipo
<1> QED
  BY <1>3, <1>4, <1>5 DEF Abs!Crear, Abs!PidsAbs, Pids

LEMMA FasesInvariantes ==
  ASSUME NEW P, NEW M, NEW Q, NEW F, InvLugaresEn(P, M, Q, F)
  PROVE  FasesBien(F)
  BY FasesPorTipo DEF InvLugaresEn, InvMotivosEn, InvCpuEn

LEMMA PasoAbsEn ==
  ASSUME NEW P, NEW M, NEW Q, NEW F, InvLugaresEn(P, M, Q, F), FasesBien(F), FasesBien(F)',
         (MismosCreados /\ Efecto) \/ \E n \in Pids : Nacimiento(n)
  PROVE  [Abs!AbsNext]_([p \in Pids |-> FaseDe(p)])
<1>0. LugaresSin(F) /\ FasesBien(F) /\ FasesBien(F)'
  BY DEF InvLugaresEn
<1> DEFINE Quieta == [p \in Pids |-> FaseDe(p)]' = [p \in Pids |-> FaseDe(p)]
<1>1. CASE \E n \in Pids : Nacimiento(n)
  <2>1. \E n \in Pids : Abs!Crear(n)
    BY <1>0, <1>1, NaceAbs
  <2> QED
    BY <2>1 DEF Abs!AbsNext, Abs!PidsAbs, Pids
<1>2. CASE MismosCreados /\ Quietos
  BY <1>0, <1>2, PasoQuieto
<1>3. ASSUME MismosCreados, NEW p \in Pids,
             \/ Traslado(p, "new", "largo") \/ Traslado(p, "largo", "ready")
             \/ Traslado(p, "ready", "corto") /\ pc_corto = "sacar"
             \/ Traslado(p, "corto", "cpu")
             \/ Traslado(p, "cpu", "saliente") \/ Traslado(p, "saliente", "exit")
             \/ Traslado(p, "cpu", "devuelto") \/ Traslado(p, "devuelto", "ready")
             \/ Traslado(p, "cpu", "block") \/ Traslado(p, "block", "temporizador")
             \/ Traslado(p, "temporizador", "susp")
             \/ Traslado(p, "block", "io") \/ Traslado(p, "susp", "io")
             \/ Traslado(p, "io", "ready")
      PROVE  Abs!AbsNext \/ Quieta
  <2>0. p \in Abs!PidsAbs
    BY DEF Abs!PidsAbs, Pids
  <2>1. CASE \/ Traslado(p, "largo", "ready") \/ Traslado(p, "corto", "cpu")
             \/ Traslado(p, "saliente", "exit") \/ Traslado(p, "devuelto", "ready")
             \/ Traslado(p, "block", "temporizador") \/ Traslado(p, "io", "ready")
    <3>1. /\ FaseTipo("largo") = FaseTipo("ready") /\ FaseTipo("corto") = FaseTipo("cpu")
          /\ FaseTipo("saliente") = FaseTipo("exit") /\ FaseTipo("devuelto") = FaseTipo("ready")
          /\ FaseTipo("block") = FaseTipo("temporizador") /\ FaseTipo("io") = FaseTipo("ready")
      BY DEF FaseTipo
    <3> QED
      BY <1>0, <1>3, <2>1, <3>1, MismaFase
  <2>2. CASE Traslado(p, "new", "largo")
    <3>1. Abs!Admitir(p)
      BY <1>0, <1>3, <2>2, OtraFase DEF FaseTipo, Abs!Admitir
    <3> QED
      BY <2>0, <3>1 DEF Abs!AbsNext
  <2>3. CASE Traslado(p, "ready", "corto") /\ pc_corto = "sacar"
    <3>1. Abs!Mover(p, "READY", "EXEC")
      BY <1>0, <1>3, <2>3, OtraFase DEF FaseTipo
    <3>2. Cardinality(Abs!En("EXEC")) < Cardinality(Cpus)
      BY <1>0, <2>3, CabeUnoMas
    <3>3. Abs!Despachar(p)
      BY <3>1, <3>2, MismaCardinalidad DEF Abs!Despachar
    <3> QED
      BY <2>0, <3>3 DEF Abs!AbsNext
  <2>4. CASE Traslado(p, "cpu", "saliente")
    <3>1. Abs!Terminar(p)
      BY <1>0, <1>3, <2>4, OtraFase DEF FaseTipo, Abs!Terminar
    <3> QED
      BY <2>0, <3>1 DEF Abs!AbsNext
  <2>5. CASE Traslado(p, "cpu", "devuelto")
    <3>1. Abs!Ceder(p)
      BY <1>0, <1>3, <2>5, OtraFase DEF FaseTipo, Abs!Ceder
    <3> QED
      BY <2>0, <3>1 DEF Abs!AbsNext
  <2>6. CASE Traslado(p, "cpu", "block")
    <3>1. Abs!EsperarIo(p)
      BY <1>0, <1>3, <2>6, OtraFase DEF FaseTipo, Abs!EsperarIo
    <3> QED
      BY <2>0, <3>1 DEF Abs!AbsNext
  <2>7. CASE Traslado(p, "temporizador", "susp")
    <3>1. Abs!Suspender(p)
      BY <1>0, <1>3, <2>7, OtraFase DEF FaseTipo, Abs!Suspender
    <3> QED
      BY <2>0, <3>1 DEF Abs!AbsNext
  <2>8. CASE Traslado(p, "block", "io") \/ Traslado(p, "susp", "io")
    <3>1. Abs!Despertar(p)
      BY <1>0, <1>3, <2>8, OtraFase DEF FaseTipo, Abs!Despertar
    <3> QED
      BY <2>0, <3>1 DEF Abs!AbsNext
  <2> QED
    BY <1>3, <2>1, <2>2, <2>3, <2>4, <2>5, <2>6, <2>7, <2>8
<1> QED
  BY <1>1, <1>2, <1>3 DEF Efecto

LEMMA PasoAbs ==
  ASSUME InvLugares, FasesBien({}), FasesBien({})', UnCreador, [Next]_vars
  PROVE  [Abs!AbsNext]_([p \in Pids |-> FaseDe(p)])
<1>1. InvLugaresEn(PasosHilo, Mensajes, PasosConCpu, {})
  BY InvLugaresSuyo
<1> QED
  BY <1>1, EfectoDelPaso, PasoAbsEn

LEMMA InitAbs == Init => Abs!AbsInit
<1> SUFFICES ASSUME Init PROVE Abs!AbsInit
  OBVIOUS
<1>1. TipoBaseEn(PasosHilo, Mensajes) /\ LugaresSin({})
  BY InitTipo, InitLugares DEF TipoBase, LugaresBien
<1>2. FasesBien({})
  BY <1>1, FasesPorTipo
<1>3. En(0, "new", 1)
  BY DEF Init, En
<1>4. \A p \in Pids : FaseDe(p) = IF p = 0 THEN "NEW" ELSE "NO_CREADO"
  <2>1. FaseDe(0) = "NEW"
    BY <1>2, <1>3, Constantes DEF FasesBien, EnTipo, FaseTipo
  <2>2. \A p \in Pids : p # 0 => FaseDe(p) = "NO_CREADO"
    BY <1>2 DEF FasesBien, Init
  <2> QED
    BY <2>1, <2>2
<1> QED
  BY <1>4 DEF Abs!AbsInit, Abs!PidsAbs, Pids

(* CicloCorrecto: the threads implement the life cycle: every step of a     *)
(* thread moves at most one process, as ProcesosAbs allows; pids are handed *)
(* out in order; never more processes execute than there are CPUs.          *)
THEOREM CicloCorrecto ==
  ASSUME UnCreador
  PROVE  Spec => CicloDeVida
<1>1. Init => Abs!AbsInit
  BY InitAbs
<1>2. InvLugares => FasesBien({})
  BY InvLugaresSuyo, FasesInvariantes
<1>3. InvLugares /\ FasesBien({}) /\ FasesBien({})' /\ [Next]_vars
        => [Abs!AbsNext]_([p \in Pids |-> FaseDe(p)])
  BY PasoAbs
<1> QED
  BY <1>1, <1>2, <1>3, LugaresInvariante, PTL DEF Spec, CicloDeVida, Abs!AbsSpec

=============================================================================

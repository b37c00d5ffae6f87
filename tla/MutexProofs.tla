----------------------------- MODULE MutexProofs -----------------------------
(***************************************************************************)
(* The kernel mutexes, for every script, number of CPUs and mutexes: no    *)
(* handler uses a NULL PCB, and no process waits for a mutex that nobody   *)
(* owns.                                                                   *)
(*                                                                         *)
(* ejecutar_mutex_lock reads the owner in three steps after it has found   *)
(* the mutex taken.  The owner it looks up is there because mx_mutex is    *)
(* held all along: DuenoBuscado, which is inductive only together with the *)
(* types and with the mutex each handler's message names.                  *)
(***************************************************************************)
EXTENDS MutexKernel, PlanificadorProofs, SequenceTheorems

PasosConElOtro == {"lock_heredar", "unlock_ready", "unlock_avisar"}
PasosConNombre ==
  {"mutex_lock", "lock_cpus", "lock_ready", "lock_heredar", "mutex_unlock", "unlock_mx"}
PasosMutex ==
  PasosConNombre \cup PasosConElOtro
    \cup {"lock_liberar", "lock_post", "lock_soltar", "lock_evaluar", "soltar_mutex"}
PasosM == PasosHilo \cup PasosMutex

MensajesMutex ==
  [motivo : {"MOTIVO_SYSCALL"}, pid : Pids, syscall : LlamadasMutex, prio : Prioridades,
   mutex : Mutexes]
MensajesM == Mensajes \cup MensajesMutex

TipoM == TipoBaseEn(PasosM, MensajesM) /\ TipoKm

(* The PC of a process is one of its script's from the first.               *)
ContadoresBien ==
  /\ contador \in [Pids -> Nat \ {0}]
  /\ \A c \in Cpus : corre[c] # NADIE => leido[c] # 0

NombresBien == \A c \in Cpus : pc[c] \in PasosConNombre => msg[c].mutex \in Mutexes

(* The owner that ejecutar_mutex_lock looks for is not gone.                *)
DuenoBuscado ==
  \A c \in Cpus : pc[c] \in {"lock_cpus", "lock_ready"} => pid_dueno[msg[c].mutex] # NADIE

InvMutex ==
  TipoM /\ TipoMutex /\ ContadoresBien /\ NombresBien /\ DuenoBuscado /\ EsperaConDueno

-----------------------------------------------------------------------------
(* The variables of Planificador.                                           *)

LEMMA Bastantes == Bastan(PasosM, MensajesM)
<1>1. \A m \in MensajesMutex : m.pid \in Pids /\ m.prio \in Prioridades
  BY DEF MensajesMutex
<1>2. \A m \in MensajesMutex : \A p \in Pids : [m EXCEPT !.pid = p] \in MensajesMutex
  BY DEF MensajesMutex
<1>3. Bastan(PasosHilo, Mensajes)
  BY BastanLosSuyos
<1> QED
  BY <1>1, <1>2, <1>3 DEF Bastan, PasosM, MensajesM

LEMMA BastantesKm == BastanKm(PedidosKm, {"OK", "ERROR"})
  BY BastanLosSuyos

Ociosos == {"sin_conectar", "registrada", "recibir"}

(* A handler goes on to another step with its PCB and its message.          *)
LEMMA IrTipo ==
  ASSUME NEW P, NEW M, TipoHilosEn(P, M), NEW c \in Cpus, NEW paso \in P \ Ociosos,
         pc[c] \notin Ociosos, Ir(c, paso), UNCHANGED <<pcb_h, msg>>
  PROVE  TipoHilosEn(P, M)'
  BY DEF TipoHilosEn, Ir, Ociosos

(* buscar_pcb_en_ejecucion finds the PCB the handler works on.              *)
LEMMA RecibirTipo ==
  ASSUME TipoM, NEW c \in Cpus, NEW m \in MensajesM, NEW paso \in PasosM \ Ociosos,
         Recibir(c, m, paso), UNCHANGED estado
  PROVE  TipoM'
<1>1. TipoHilosEn(PasosM, MensajesM)'
  <2>1. ejecutando[c] \in Pids
    BY DEF Recibir, TipoM, TipoBaseEn, TipoCpusKs
  <2>2. /\ pc' \in [Cpus -> PasosM] /\ pcb_h' \in [Cpus -> Pids \cup {NADIE}]
        /\ msg' \in [Cpus -> MensajesM]
    BY <2>1 DEF Recibir, Ir, TipoM, TipoBaseEn, TipoHilosEn
  <2>3. \A d \in Cpus : pcb_h'[d] = NADIE <=> pc'[d] \in Ociosos
    BY DEF Recibir, Ir, Ociosos, TipoM, TipoBaseEn, TipoHilosEn
  <2> QED
    BY <2>2, <2>3 DEF TipoHilosEn, Ociosos
<1>2. TipoCpuEn(MensajesM)'
  BY DEF Recibir, TipoM, TipoBaseEn, TipoCpuEn
<1>3. TipoProcesos'
  BY DEF Recibir, TipoM, TipoBaseEn, TipoProcesos
<1> QED
  BY <1>1, <1>2, <1>3, SinCambiosEn DEF Recibir, TipoM, TipoBaseEn

LEMMA IrMutex ==
  ASSUME TipoM, NEW c \in Cpus, pc[c] \in PasosMutex,
         NEW paso \in PasosMutex \cup {"finalizar", "ready_encolar"},
         Ir(c, paso), UNCHANGED <<pcb_h, msg>>
  PROVE  TipoHilosEn(PasosM, MensajesM)'
<1>1. pc[c] \notin Ociosos
  BY DEF PasosMutex, PasosConNombre, PasosConElOtro, Ociosos
<1>2. paso \in PasosM /\ paso \notin Ociosos
  BY DEF PasosM, PasosHilo, PasosMutex, PasosConNombre, PasosConElOtro, Ociosos
<1> QED
  BY <1>1, <1>2, IrTipo DEF TipoM, TipoBaseEn

(* What a handler of the mutexes may change.                                *)
LEMMA CambiosMutex ==
  ASSUME TipoM, SinOtrosCambios,
         estado' \in [Pids -> Estados], prioridad' \in [Pids -> Prioridades],
         colas_ready' \in [Prioridades -> Seq(Pids)],
         sem_procesos_ready' \in Nat, sem_cpus_libres' \in Nat,
         ejecutando' \in [Cpus -> Pids \cup {NADIE}],
         interrupcion' \in [Cpus -> Nat \cup {NADIE}],
         TipoHilosEn(PasosM, MensajesM)'
  PROVE  TipoM'
<1>1. TipoProcesos' /\ TipoColas' /\ TipoSemaforos' /\ TipoCpusKs'
  BY DEF SinOtrosCambios, TipoM, TipoBaseEn, TipoProcesos, TipoColas, TipoSemaforos, TipoCpusKs
<1>2. TipoCpuEn(MensajesM)'
  BY DEF SinOtrosCambios, TipoM, TipoBaseEn, TipoCpuEn
<1> QED
  BY <1>1, <1>2, SinCambiosEn DEF SinOtrosCambios, TipoM, TipoBaseEn

(* The same facts about the state before the step.                          *)
LEMMA AntesMutex ==
  ASSUME TipoM
  PROVE  /\ estado \in [Pids -> Estados] /\ prioridad \in [Pids -> Prioridades]
         /\ colas_ready \in [Prioridades -> Seq(Pids)]
         /\ sem_procesos_ready \in Nat /\ sem_cpus_libres \in Nat
         /\ ejecutando \in [Cpus -> Pids \cup {NADIE}]
         /\ interrupcion \in [Cpus -> Nat \cup {NADIE}]
         /\ TipoHilosEn(PasosM, MensajesM)
  BY DEF TipoM, TipoBaseEn, TipoProcesos, TipoColas, TipoSemaforos, TipoCpusKs, TipoCpuEn

LEMMA ConPcbM ==
  ASSUME TipoM, NEW c \in Cpus, pc[c] \notin Ociosos
  PROVE  pcb_h[c] \in Pids
  BY Bastantes, ConPcbEn DEF TipoM, TipoBaseEn, Ociosos

(* list_remove of one entry of READY.                                       *)
LEMMA QuitarTipo ==
  ASSUME NEW S, NEW s \in Seq(S), NEW i \in DOMAIN s
  PROVE  Quitar(s, i) \in Seq(S)
<1>1. i \in Nat /\ i >= 1 /\ i <= Len(s) /\ Len(s) \in Nat
  OBVIOUS
<1>2. SubSeq(s, 1, i - 1) \in Seq(S)
  BY <1>1, SubSeqProperties
<1>3. SubSeq(s, i + 1, Len(s)) \in Seq(S)
  BY <1>1, SubSeqProperties
<1> QED
  BY <1>2, <1>3, ConcatProperties DEF Quitar

LEMMA EntradaDe ==
  ASSUME TipoM, NEW p, NEW e \in Entradas(p)
  PROVE  e[1] \in Prioridades /\ e[2] \in DOMAIN colas_ready[e[1]]
  BY DEF Entradas

(* ejecutar_mutex_lock and what its caller does next.                       *)
LockDe(c) ==
  \/ LockInexistente(c) \/ LockLibre(c) \/ LockOcupado(c) \/ LockBuscarEnCpus(c)
  \/ LockBuscarEnReady(c) \/ LockHeredar(c) \/ LockPost(c) \/ LockLiberar(c) \/ LockEvaluar(c)

LEMMA LockTipo ==
  ASSUME TipoM, TipoMutex, NEW c \in Cpus, LockDe(c)
  PROVE  TipoM'
<1> USE AntesMutex
<1>0. pcb_h[c] \in Pids
  <2>1. pc[c] \notin Ociosos
    BY DEF LockDe, LockInexistente, LockLibre, LockOcupado, LockBuscarEnCpus,
           LockBuscarEnReady, LockHeredar, LockPost, LockLiberar, LockEvaluar, Ociosos
  <2> QED
    BY <2>1, ConPcbM
<1>1. CASE LockInexistente(c)
  <2>0. pc[c] \in PasosMutex /\ UNCHANGED <<pcb_h, msg>> /\ Ir(c, "lock_liberar")
    BY <1>1 DEF LockInexistente, PasosMutex, PasosConNombre, PasosConElOtro
  <2>1. TipoHilosEn(PasosM, MensajesM)'
    BY <2>0, IrMutex DEF PasosMutex, PasosConNombre, PasosConElOtro
  <2> QED
    BY <1>1, <2>1, CambiosMutex DEF LockInexistente
<1>2. CASE LockLibre(c)
  <2>0. pc[c] \in PasosMutex /\ UNCHANGED <<pcb_h, msg>> /\ Ir(c, "lock_liberar")
    BY <1>2 DEF LockLibre, PasosMutex, PasosConNombre, PasosConElOtro
  <2>1. TipoHilosEn(PasosM, MensajesM)'
    BY <2>0, IrMutex DEF PasosMutex, PasosConNombre, PasosConElOtro
  <2> QED
    BY <1>2, <2>1, CambiosMutex DEF LockLibre
<1>3. CASE LockOcupado(c)
  <2>0. pc[c] \in PasosMutex /\ UNCHANGED <<pcb_h, msg>> /\ Ir(c, "lock_cpus")
    BY <1>3 DEF LockOcupado, PasosMutex, PasosConNombre, PasosConElOtro
  <2>1. TipoHilosEn(PasosM, MensajesM)'
    BY <2>0, IrMutex DEF PasosMutex, PasosConNombre, PasosConElOtro
  <2>2. estado' \in [Pids -> Estados]
    BY <1>3 DEF LockOcupado, Estados
  <2> QED
    BY <1>3, <2>1, <2>2, CambiosMutex DEF LockOcupado
<1>4. CASE LockBuscarEnCpus(c)
  <2>0. /\ pc[c] \in PasosMutex /\ UNCHANGED <<pcb_h, msg>>
        /\ (Ir(c, "lock_heredar") \/ Ir(c, "lock_ready"))
    BY <1>4 DEF LockBuscarEnCpus, PasosMutex, PasosConNombre, PasosConElOtro
  <2>1. TipoHilosEn(PasosM, MensajesM)'
    BY <2>0, IrMutex DEF PasosMutex, PasosConNombre, PasosConElOtro
  <2> QED
    BY <1>4, <2>1, CambiosMutex DEF LockBuscarEnCpus
<1>5. CASE LockBuscarEnReady(c)
  <2>0. /\ pc[c] \in PasosMutex /\ UNCHANGED <<pcb_h, msg>>
        /\ (Ir(c, "lock_post") \/ Ir(c, "lock_heredar"))
    BY <1>5 DEF LockBuscarEnReady, PasosMutex, PasosConNombre, PasosConElOtro
  <2>1. TipoHilosEn(PasosM, MensajesM)'
    BY <2>0, IrMutex DEF PasosMutex, PasosConNombre, PasosConElOtro
  <2>2. colas_ready' \in [Prioridades -> Seq(Pids)]
    <3>1. CASE Entradas(pid_dueno[msg[c].mutex]) = {}
      BY <1>5, <3>1 DEF LockBuscarEnReady
    <3>2. CASE Entradas(pid_dueno[msg[c].mutex]) # {}
      <4>1. PICK e \in Entradas(pid_dueno[msg[c].mutex]) :
              colas_ready' = [colas_ready EXCEPT ![e[1]] = Quitar(@, e[2])]
        BY <1>5, <3>2 DEF LockBuscarEnReady
      <4>2. e[1] \in Prioridades /\ e[2] \in DOMAIN colas_ready[e[1]]
        BY <4>1, EntradaDe
      <4>3. Quitar(colas_ready[e[1]], e[2]) \in Seq(Pids)
        BY <4>2, QuitarTipo
      <4> QED
        BY <4>1, <4>2, <4>3
    <3> QED
      BY <3>1, <3>2
  <2> QED
    BY <1>5, <2>1, <2>2, CambiosMutex DEF LockBuscarEnReady
<1>6. CASE LockHeredar(c)
  <2>0. pc[c] \in PasosMutex /\ UNCHANGED <<pcb_h, msg>> /\ Ir(c, "lock_post")
    BY <1>6 DEF LockHeredar, PasosMutex, PasosConNombre, PasosConElOtro
  <2>1. TipoHilosEn(PasosM, MensajesM)'
    BY <2>0, IrMutex DEF PasosMutex, PasosConNombre, PasosConElOtro
  <2>2. encontrado[c] \in Pids
    BY <1>6 DEF LockHeredar, TipoMutex
  <2>3. prioridad[pcb_h[c]] \in Prioridades /\ prioridad[encontrado[c]] \in Prioridades
    BY <1>0, <2>2
  <2>4. prioridad' \in [Pids -> Prioridades]
    BY <1>6, <2>2, <2>3 DEF LockHeredar
  <2>5. colas_ready' \in [Prioridades -> Seq(Pids)]
    BY <1>6, <2>2, <2>3 DEF LockHeredar
  <2> QED
    BY <1>6, <2>1, <2>4, <2>5, CambiosMutex DEF LockHeredar
<1>7. CASE LockPost(c)
  <2>0. /\ pc[c] \in PasosMutex /\ UNCHANGED <<pcb_h, msg>>
        /\ (Ir(c, "lock_liberar") \/ Ir(c, "lock_evaluar"))
    BY <1>7 DEF LockPost, PasosMutex, PasosConNombre, PasosConElOtro
  <2>1. TipoHilosEn(PasosM, MensajesM)'
    BY <2>0, IrMutex DEF PasosMutex, PasosConNombre, PasosConElOtro
  <2> QED
    BY <1>7, <2>1, CambiosMutex DEF LockPost
<1>8. CASE LockLiberar(c)
  <2>0. pc[c] \in PasosMutex /\ UNCHANGED <<pcb_h, msg>> /\ Ir(c, "lock_soltar")
    BY <1>8 DEF LockLiberar, PasosMutex, PasosConNombre, PasosConElOtro
  <2>1. TipoHilosEn(PasosM, MensajesM)'
    BY <2>0, IrMutex DEF PasosMutex, PasosConNombre, PasosConElOtro
  <2>2. ejecutando' \in [Cpus -> Pids \cup {NADIE}]
    BY <1>8 DEF LockLiberar
  <2> QED
    BY <1>8, <2>1, <2>2, CambiosMutex DEF LockLiberar
<1>9. CASE LockEvaluar(c)
  <2>1. TipoHilosEn(PasosM, MensajesM)'
    BY <1>9, Bastantes, SoltarTipo, IrTipo DEF LockEvaluar, PasosM, PasosHilo, Ociosos
  <2>2. estado' \in [Pids -> Estados]
    BY <1>9 DEF LockEvaluar, Estados
  <2> QED
    BY <1>9, <2>1, <2>2, CambiosMutex DEF LockEvaluar
<1> QED
  BY <1>1, <1>2, <1>3, <1>4, <1>5, <1>6, <1>7, <1>8, <1>9 DEF LockDe

(* ejecutar_mutex_unlock and the release of the mutexes of a process that   *)
(* exits.                                                                   *)
UnlockDe(c) ==
  \/ UnlockVerificar(c) \/ UnlockSinEspera(c) \/ UnlockTraspasar(c) \/ UnlockDespertar(c)
  \/ UnlockAvisar(c) \/ ExitSoltarMutex(c) \/ ExitSinMutex(c)

LEMMA UnlockTipo ==
  ASSUME TipoM, TipoMutex, NombresBien, NEW c \in Cpus, UnlockDe(c)
  PROVE  TipoM'
<1> USE AntesMutex
<1>0. pcb_h[c] \in Pids
  <2>1. pc[c] \notin Ociosos
    BY DEF UnlockDe, UnlockVerificar, UnlockSinEspera, UnlockTraspasar, UnlockDespertar,
           UnlockAvisar, ExitSoltarMutex, ExitSinMutex, Ociosos
  <2> QED
    BY <2>1, ConPcbM
<1>1. CASE UnlockVerificar(c)
  <2>1. TipoHilosEn(PasosM, MensajesM)'
    BY <1>1, Bastantes, SoltarTipo, IrTipo
    DEF UnlockVerificar, PasosM, PasosMutex, PasosConNombre, Ociosos
  <2> QED
    BY <1>1, <2>1, CambiosMutex DEF UnlockVerificar
<1>2. CASE UnlockSinEspera(c)
  <2>1. TipoHilosEn(PasosM, MensajesM)'
    BY <1>2, Bastantes, SoltarTipo DEF UnlockSinEspera
  <2> QED
    BY <1>2, <2>1, CambiosMutex DEF UnlockSinEspera
<1>3. CASE UnlockTraspasar(c)
  <2>0. pc[c] \in PasosMutex /\ UNCHANGED <<pcb_h, msg>> /\ Ir(c, "unlock_ready")
    BY <1>3 DEF UnlockTraspasar, PasosMutex, PasosConNombre, PasosConElOtro
  <2>1. TipoHilosEn(PasosM, MensajesM)'
    BY <2>0, IrMutex DEF PasosMutex, PasosConNombre, PasosConElOtro
  <2>2. msg[c].mutex \in Mutexes
    BY <1>3 DEF UnlockTraspasar, NombresBien, PasosConNombre
  <2>3. prioridad' \in [Pids -> Prioridades]
    BY <1>0, <1>3, <2>2 DEF UnlockTraspasar, TipoMutex
  <2> QED
    BY <1>3, <2>1, <2>3, CambiosMutex DEF UnlockTraspasar
<1>4. CASE UnlockDespertar(c)
  <2>0. pc[c] \in PasosMutex /\ UNCHANGED <<pcb_h, msg>> /\ Ir(c, "unlock_avisar")
    BY <1>4 DEF UnlockDespertar, PasosMutex, PasosConNombre, PasosConElOtro
  <2>1. TipoHilosEn(PasosM, MensajesM)'
    BY <2>0, IrMutex DEF PasosMutex, PasosConNombre, PasosConElOtro
  <2>2. encontrado[c] \in Pids
    BY <1>4 DEF UnlockDespertar, TipoMutex
  <2>3. colas_ready' \in [Prioridades -> Seq(Pids)]
    BY <1>4, <2>2, ListaReadyTipo DEF UnlockDespertar, TipoM, TipoBaseEn
  <2>4. estado' \in [Pids -> Estados]
    BY <1>4, <2>2 DEF UnlockDespertar, Estados
  <2> QED
    BY <1>4, <2>1, <2>3, <2>4, CambiosMutex DEF UnlockDespertar
<1>5. CASE UnlockAvisar(c)
  <2>1. TipoHilosEn(PasosM, MensajesM)'
    BY <1>5, Bastantes, SoltarTipo DEF UnlockAvisar
  <2>2. encontrado[c] \in Pids
    BY <1>5 DEF UnlockAvisar, TipoMutex
  <2>3. interrupcion' \in [Cpus -> Nat \cup {NADIE}]
    BY <1>5, <2>2, VerificarTipo DEF UnlockAvisar, TipoM, TipoBaseEn
  <2> QED
    BY <1>5, <2>1, <2>3, CambiosMutex DEF UnlockAvisar
<1>6. CASE ExitSoltarMutex(c)
  <2>1. PICK x \in creados :
          \/ UNCHANGED <<estado, colas_ready, sem_procesos_ready>>
          \/ /\ cola_bloqueados[x] # <<>>
             /\ estado' = [estado EXCEPT ![Head(cola_bloqueados[x])] = "READY"]
             /\ colas_ready' = ListaReadyCon(Head(cola_bloqueados[x]))
             /\ sem_procesos_ready' = sem_procesos_ready + 1
    BY <1>6 DEF ExitSoltarMutex
  <2>2. cola_bloqueados[x] \in Seq(Pids)
    BY <2>1 DEF TipoMutex
  <2>3. cola_bloqueados[x] # <<>> => Head(cola_bloqueados[x]) \in Pids
    BY <2>2
  <2>4. estado' \in [Pids -> Estados]
    BY <2>1, <2>3 DEF Estados
  <2>5. colas_ready' \in [Prioridades -> Seq(Pids)]
    BY <2>1, <2>3, ListaReadyTipo DEF TipoM, TipoBaseEn
  <2>6. sem_procesos_ready' \in Nat
    BY <2>1
  <2>7. TipoHilosEn(PasosM, MensajesM)'
    BY <1>6, SinCambiosEn DEF ExitSoltarMutex, hilos
  <2> QED
    BY <1>6, <2>4, <2>5, <2>6, <2>7, CambiosMutex DEF ExitSoltarMutex
<1>7. CASE ExitSinMutex(c)
  <2>0. pc[c] \in PasosMutex /\ UNCHANGED <<pcb_h, msg>> /\ Ir(c, "finalizar")
    BY <1>7 DEF ExitSinMutex, PasosMutex, PasosConNombre, PasosConElOtro
  <2>1. TipoHilosEn(PasosM, MensajesM)'
    BY <2>0, IrMutex DEF PasosMutex, PasosConNombre, PasosConElOtro
  <2> QED
    BY <1>7, <2>1, CambiosMutex DEF ExitSinMutex
<1> QED
  BY <1>1, <1>2, <1>3, <1>4, <1>5, <1>6, <1>7 DEF UnlockDe

(* The motives of the mutexes, and EXIT.                                    *)
RecibirDe(c) ==
  RecibirMutexCreate(c) \/ RecibirMutexLock(c) \/ RecibirMutexUnlock(c) \/ RecibirExitMutex(c)

LEMMA HeadDeMotivos ==
  ASSUME TipoM, NEW c \in Cpus, motivos[c] # <<>>
  PROVE  Head(motivos[c]) \in MensajesM
  BY DEF TipoM, TipoBaseEn, TipoCpuEn

LEMMA RecibirDeTipo ==
  ASSUME TipoM, NEW c \in Cpus, RecibirDe(c)
  PROVE  TipoM'
<1>1. PICK m \in MensajesM,
           paso \in {"ready_liberar", "mutex_lock", "mutex_unlock", "soltar_mutex"} :
        Recibir(c, m, paso) /\ UNCHANGED estado
  <2>1. CASE RecibirExitMutex(c)
    BY <2>1 DEF RecibirExitMutex, MensajesM
  <2>2. CASE RecibirMutexCreate(c) \/ RecibirMutexLock(c) \/ RecibirMutexUnlock(c)
    BY <2>2, HeadDeMotivos
    DEF RecibirMutexCreate, RecibirMutexLock, RecibirMutexUnlock, RecibirMutex
  <2> QED
    BY <2>1, <2>2 DEF RecibirDe
<1>2. paso \in PasosM \ Ociosos
  BY <1>1 DEF PasosM, PasosHilo, PasosMutex, PasosConNombre, PasosConElOtro, Ociosos
<1> QED
  BY <1>1, <1>2, RecibirTipo

(* The CPUs follow the scripts.                                             *)
LEMMA GuionTipo ==
  ASSUME TipoM, TipoMutex, ContadoresBien, NEW c \in Cpus, CpuGuion(c)
  PROVE  TipoM' /\ ContadoresBien'
<1>0. TipoCpuEn(MensajesM) /\ leido \in [Cpus -> Nat] /\ contador \in [Pids -> Nat \ {0}]
  BY DEF TipoM, TipoBaseEn, TipoMutex, ContadoresBien
<1>1. CASE CpuTomarGuion(c)
  <2>1. CpuTomar(c) /\ Cpu(c)
    BY <1>1 DEF CpuTomarGuion, Cpu
  <2>2. TipoM'
    BY <2>1, BastantesKm, Bastantes, CpuTipo, SinKm, SinCambioKm DEF TipoM, TipoKm
  <2>3. Head(despachos[c]) \in Pids
    BY <1>0, <2>1 DEF CpuTomar, TipoCpuEn
  <2>4. leido'[c] # 0 /\ \A d \in Cpus : d # c => leido'[d] = leido[d] /\ corre'[d] = corre[d]
    BY <1>0, <1>1, <2>1, <2>3 DEF CpuTomarGuion, CpuTomar, TipoCpuEn
  <2>5. contador' = contador
    BY <1>1 DEF CpuTomarGuion
  <2> QED
    BY <2>2, <2>4, <2>5 DEF ContadoresBien
<1>2. CASE CpuInterrumpirGuion(c)
  <2>1. CpuInterrumpir(c) /\ Cpu(c)
    BY <1>2 DEF CpuInterrumpirGuion, Cpu
  <2>2. TipoM'
    BY <2>1, BastantesKm, Bastantes, CpuTipo, SinKm, SinCambioKm DEF TipoM, TipoKm
  <2>3. corre[c] \in Pids /\ leido[c] \in Nat \ {0}
    BY <1>0, <1>2 DEF CpuInterrumpirGuion, HayInstruccion, TipoCpuEn, ContadoresBien
  <2>4. contador' \in [Pids -> Nat \ {0}] /\ leido' = leido
    BY <1>0, <1>2, <2>3 DEF CpuInterrumpirGuion
  <2>5. corre' = [corre EXCEPT ![c] = NADIE]
    BY <2>1 DEF CpuInterrumpir, CpuDevolver
  <2> QED
    BY <1>0, <2>2, <2>4, <2>5 DEF ContadoresBien, TipoCpuEn
<1>3. CASE CpuSyscall(c)
  <2>1. corre[c] \in Pids /\ leido[c] \in Nat \ {0} /\ leido[c] <= Len(Guion[corre[c]])
    BY <1>0, <1>3 DEF CpuSyscall, HayInstruccion, TipoCpuEn, ContadoresBien
  <2>2. PICK m \in MensajesM : CpuDevolver(c, m)
    <3> DEFINE i == Guion[corre[c]][leido[c]]
               p == corre[c]
               s == i.syscall
    <3>1. leido[c] \in 1 .. Len(Guion[corre[c]])
      BY <2>1
    <3>2. /\ s \in LlamadasMutex \cup {"S_SLEEP", "S_INIT_PROC", "S_EXIT"}
          /\ s \in LlamadasMutex => i.mutex \in Mutexes
          /\ i.prio \in Prioridades
      BY <2>1, <3>1, GuionOK
    <3>3. CASE s = "S_EXIT"
      <4>1. CpuDevolver(c, [SinMensaje EXCEPT !.pid = p])
        BY <1>3, <3>3 DEF CpuSyscall, LlamadasMutex
      <4> QED
        BY <2>1, <4>1, MensajeDeExit DEF MensajesM
    <3> HIDE DEF i, p, s
    <3>4. CASE s \in {"S_SLEEP", "S_INIT_PROC"}
      <4> DEFINE m == [motivo |-> "MOTIVO_SYSCALL", pid |-> p, syscall |-> s, prio |-> i.prio]
      <4>1. CpuDevolver(c, m)
        BY <1>3, <3>4 DEF CpuSyscall, LlamadasMutex, i, p, s
      <4>2. m \in MensajesM
        BY <2>1, <3>2, <3>4 DEF Mensajes, MensajesM, p
      <4> HIDE DEF m
      <4> QED
        BY <4>1, <4>2
    <3>5. CASE s \in LlamadasMutex
      <4> DEFINE m == [motivo |-> "MOTIVO_SYSCALL", pid |-> p, syscall |-> s, prio |-> i.prio,
                       mutex |-> i.mutex]
      <4>1. CpuDevolver(c, m)
        BY <1>3, <3>5 DEF CpuSyscall, LlamadasMutex, i, p, s
      <4>2. m \in MensajesM
        BY <2>1, <3>2, <3>5 DEF MensajesMutex, MensajesM, p
      <4> HIDE DEF m
      <4> QED
        BY <4>1, <4>2
    <3> QED
      BY <3>2, <3>3, <3>4, <3>5
  <2>3. interrupcion' = interrupcion /\ restantes' = restantes /\ leido' = leido
    BY <1>3 DEF CpuSyscall
  <2>4. TipoCpuEn(MensajesM)'
    BY <1>0, <2>2, <2>3, DevolverTipo DEF TipoCpuEn
  <2>5. TipoM'
    BY <2>2, <2>4, SinCambiosEn, SinCambioKm DEF CpuDevolver, TipoM, TipoKm, TipoBaseEn
  <2>6. corre' = [corre EXCEPT ![c] = NADIE]
    BY <2>2 DEF CpuDevolver
  <2>7. contador' \in [Pids -> Nat \ {0}]
    BY <1>0, <1>3, <2>1 DEF CpuSyscall
  <2> QED
    BY <1>0, <2>3, <2>5, <2>6, <2>7 DEF ContadoresBien, TipoCpuEn
<1> QED
  BY <1>1, <1>2, <1>3 DEF CpuGuion

(* The rest of the scheduler.                                               *)
LEMMA PlanificacionTipo ==
  ASSUME TipoM, Planificacion
  PROVE  TipoM'
<1> USE Bastantes, BastantesKm
<1>1. ASSUME NEW c \in Cpus, AtenderSinExit(c)
      PROVE  TipoM'
  <2>1. TipoKm'
    BY <1>1, HiloKmTipo DEF TipoM, TipoKm, AtenderCpu
  <2>2. CASE RecibirInterrupcion(c) \/ RecibirSleep(c) \/ RecibirInitProc(c)
    BY <2>1, <2>2, MotivoTipo DEF TipoM
  <2>3. CASE ~ (RecibirInterrupcion(c) \/ RecibirSleep(c) \/ RecibirInitProc(c))
    BY <1>1, <2>1, <2>3, HiloTipo DEF TipoM, AtenderSinExit
  <2> QED
    BY <2>2, <2>3
<1>2. CASE LargoPlazo \/ CortoPlazo
  BY <1>2, LargoTipo, CortoTipo, SinKm, SinCambioKm DEF TipoM, TipoKm
<1>3. CASE AtenderIo \/ ConectarIo \/ IoServir
  BY <1>3, IoTipo, SinKm, SinCambioKm DEF TipoM, TipoKm
<1>4. CASE KernelMemory \/ EscucharKm
  <2>1. EscucharKm => Head(respuestas_km) \in {"OK", "ERROR"}
    BY DEF EscucharKm, TipoM, TipoKm, TipoKmEn
  <2> QED
    BY <1>4, <2>1, KmTipo, KernelMemoryTipo DEF TipoM, TipoKm
<1> QED
  BY <1>1, <1>2, <1>3, <1>4 DEF Planificacion

-----------------------------------------------------------------------------
(* The variables of this module.                                             *)

PropiosBien == TipoMutex /\ NombresBien /\ DuenoBuscado /\ EsperaConDueno

(* A step of the rest of the scheduler, or of a CPU.                        *)
LEMMA OtrosQuedan ==
  ASSUME PropiosBien, UNCHANGED <<mutexes, encontrado>>,
         contador' \in [Pids -> Nat], leido' \in [Cpus -> Nat],
         \A c \in Cpus : IF pc[c] \in PasosMutex
                           THEN pc'[c] = pc[c] /\ msg'[c] = msg[c]
                           ELSE pc'[c] \notin PasosMutex
  PROVE  PropiosBien'
<1>1. TipoMutex'
  BY DEF PropiosBien, TipoMutex, mutexes, PasosMutex, PasosConElOtro
<1>2. NombresBien' /\ DuenoBuscado'
  BY DEF PropiosBien, NombresBien, DuenoBuscado, mutexes, PasosMutex, PasosConNombre
<1>3. EsperaConDueno'
  BY DEF PropiosBien, EsperaConDueno, mutexes
<1> QED
  BY <1>1, <1>2, <1>3 DEF PropiosBien

LEMMA FueraDelMutex ==
  ASSUME TipoM, Planificacion, NEW c \in Cpus
  PROVE  /\ IF pc[c] \in PasosMutex THEN pc'[c] = pc[c] /\ msg'[c] = msg[c]
                                     ELSE pc'[c] \notin PasosMutex
         /\ UNCHANGED corre
<1>0. pc \in [Cpus -> PasosM] /\ msg \in [Cpus -> MensajesM]
  BY DEF TipoM, TipoBaseEn, TipoHilosEn
<1>1. CASE LargoPlazo \/ CortoPlazo
  BY <1>1
  DEF LargoPlazo, LargoEsperar, LargoSacar, LargoEncolar, LargoAvisar, CortoPlazo,
      CortoEsperarReady, CortoEsperarCpu, CortoSacar, CortoDespachar, hilos, cpu
<1>2. CASE AtenderIo \/ ConectarIo \/ IoServir \/ KernelMemory \/ EscucharKm
  BY <1>2
  DEF AtenderIo, IoBuscarBlock, IoBuscarSusp, IoEncolar, IoAvisar, ConectarIo, IoServir,
      KernelMemory, KmCargar, KmFinalizar, KmSuspender, EscucharKm, hilos, cpu
<1>3. ASSUME NEW d \in Cpus, AtenderSinExit(d)
      PROVE  /\ pc[d] \notin PasosMutex /\ pc'[d] \notin PasosMutex
             /\ \A e \in Cpus : e # d => pc'[e] = pc[e] /\ msg'[e] = msg[e]
             /\ UNCHANGED corre
  <2>1. CASE Conectar(d) \/ PublicarCpu(d) \/ LiberarCpu(d) \/ FinalizarEnKm(d)
             \/ EsperarFin(d) \/ Bloquear(d) \/ BloqueoPost(d) \/ EsperarCarga(d)
    BY <1>0, <2>1
    DEF Conectar, PublicarCpu, LiberarCpu, FinalizarEnKm, EsperarFin, EsperarKm, Bloquear,
        BloqueoPost, EsperarCarga, Ir, cpu, PasosMutex, PasosConNombre, PasosConElOtro
  <2>2. CASE PedirCarga(d) \/ CrearProceso(d) \/ RechazarProceso(d) \/ ReadyPost(d)
             \/ ReadyEncolar(d)
    BY <1>0, <2>2
    DEF PedirCarga, CrearProceso, RechazarProceso, ReadyPost, ReadyEncolar, Ir, cpu,
        PasosMutex, PasosConNombre, PasosConElOtro
  <2>3. CASE TerminarProceso(d) \/ PedirIo(d) \/ ReadyAvisar(d)
    BY <1>0, <2>3
    DEF TerminarProceso, PedirIo, ReadyAvisar, SoltarPcb, Ir, cpu, PasosMutex,
        PasosConNombre, PasosConElOtro
  <2>4. CASE RecibirInterrupcion(d) \/ RecibirSleep(d) \/ RecibirInitProc(d)
    <3>1. PICK m \in Mensajes, paso \in {"ready_liberar", "bloquear", "pedir_carga"} :
            Recibir(d, m, paso)
      BY <2>4 DEF RecibirInterrupcion, RecibirSleep, RecibirInitProc
    <3> QED
      BY <1>0, <3>1 DEF Recibir, Ir, PasosMutex, PasosConNombre, PasosConElOtro
  <2> QED
    BY <1>3, <2>1, <2>2, <2>3, <2>4 DEF AtenderSinExit
<1> QED
  BY <1>1, <1>2, <1>3 DEF Planificacion

(* ejecutar_mutex_lock keeps what this module adds.                         *)
LEMMA LockPropios ==
  ASSUME TipoM, PropiosBien, NEW c \in Cpus, LockDe(c)
  PROVE  PropiosBien'
<1>0. /\ pc \in [Cpus -> PasosM] /\ msg \in [Cpus -> MensajesM]
      /\ prioridad \in [Pids -> Prioridades]
      /\ TipoMutex /\ NombresBien /\ DuenoBuscado /\ EsperaConDueno
      /\ \A p \in Pids : p # NADIE
  BY ConstantesOK DEF TipoM, TipoBaseEn, TipoHilosEn, TipoProcesos, PropiosBien
<1>1. CASE LockInexistente(c)
  <2>1. TipoMutex'
    BY <1>0, <1>1 DEF LockInexistente, Ir, TipoMutex, mutexes, guiones, SinOtrosCambios
  <2>2. NombresBien'
    BY <1>0, <1>1 DEF LockInexistente, Ir, NombresBien, PasosConNombre
  <2>3. DuenoBuscado'
    BY <1>0, <1>1 DEF LockInexistente, Ir, DuenoBuscado, TipoMutex, mutexes
  <2>4. EsperaConDueno'
    BY <1>0, <1>1 DEF LockInexistente, EsperaConDueno, TipoMutex, mutexes
  <2> QED
    BY <2>1, <2>2, <2>3, <2>4 DEF PropiosBien
<1>2. CASE LockLibre(c)
  <2>0. msg[c].mutex \in Mutexes /\ pcb_h[c] \in Pids
    BY <1>0, <1>2, ConPcbM DEF LockLibre, NombresBien, PasosConNombre, Ociosos
  <2>a. prioridad_original_dueno' \in [Mutexes -> Prioridades]
    BY <1>0, <1>2, <2>0 DEF LockLibre, TipoMutex
  <2>b. pid_dueno' \in [Mutexes -> Pids \cup {NADIE}]
    BY <1>0, <1>2, <2>0 DEF LockLibre, TipoMutex
  <2>1. TipoMutex'
    BY <1>0, <1>2, <2>a, <2>b DEF LockLibre, Ir, TipoMutex, guiones, SinOtrosCambios
  <2>2. NombresBien'
    BY <1>0, <1>2 DEF LockLibre, Ir, NombresBien, PasosConNombre
  <2>3. DuenoBuscado'
    BY <1>0, <1>2 DEF LockLibre, Ir, DuenoBuscado, TipoMutex, mutexes
  <2>4. EsperaConDueno'
    BY <1>0, <1>2 DEF LockLibre, EsperaConDueno, TipoMutex, mutexes
  <2> QED
    BY <2>1, <2>2, <2>3, <2>4 DEF PropiosBien
<1>3. CASE LockOcupado(c)
  <2>0. msg[c].mutex \in Mutexes /\ pcb_h[c] \in Pids
    BY <1>0, <1>3, ConPcbM DEF LockOcupado, NombresBien, PasosConNombre, Ociosos
  <2>a. cola_bloqueados' \in [Mutexes -> Seq(Pids)]
    BY <1>0, <1>3, <2>0 DEF LockOcupado, TipoMutex
  <2>1. TipoMutex'
    BY <1>0, <1>3, <2>a DEF LockOcupado, Ir, TipoMutex, guiones, SinOtrosCambios
  <2>2. NombresBien'
    BY <1>0, <1>3 DEF LockOcupado, Ir, NombresBien, PasosConNombre
  <2>3. DuenoBuscado'
    BY <1>0, <1>3 DEF LockOcupado, Ir, DuenoBuscado, TipoMutex, mutexes
  <2>4. EsperaConDueno'
    BY <1>0, <1>3 DEF LockOcupado, EsperaConDueno, TipoMutex, mutexes
  <2> QED
    BY <2>1, <2>2, <2>3, <2>4 DEF PropiosBien
<1>4. CASE LockBuscarEnCpus(c)
  <2>0. /\ msg[c].mutex \in Mutexes /\ pc[c] \notin PasosConElOtro
        /\ pid_dueno[msg[c].mutex] # NADIE
    BY <1>0, <1>4 DEF LockBuscarEnCpus, NombresBien, DuenoBuscado, PasosConNombre, PasosConElOtro
  <2>a. pid_dueno[msg[c].mutex] \in Pids
    BY <1>0, <2>0 DEF TipoMutex
  <2>b. \/ Ir(c, "lock_ready") /\ UNCHANGED encontrado
        \/ /\ Ir(c, "lock_heredar")
           /\ encontrado' = [encontrado EXCEPT ![c] = pid_dueno[msg[c].mutex]]
    BY <1>4 DEF LockBuscarEnCpus
  <2>c. /\ encontrado' \in [Cpus -> Pids \cup {NADIE}]
        /\ \A d \in Cpus : encontrado'[d] # NADIE <=> pc'[d] \in PasosConElOtro
    BY <1>0, <2>0, <2>a, <2>b DEF Ir, TipoMutex, PasosConElOtro
  <2>1. TipoMutex'
    BY <1>0, <1>4, <2>c
    DEF LockBuscarEnCpus, TipoMutex, mutexes, guiones, SinOtrosCambios, PasosConElOtro
  <2>2. NombresBien'
    BY <1>0, <1>4 DEF LockBuscarEnCpus, Ir, NombresBien, PasosConNombre
  <2>3. DuenoBuscado'
    BY <1>0, <1>4 DEF LockBuscarEnCpus, Ir, DuenoBuscado, TipoMutex, mutexes
  <2>4. EsperaConDueno'
    BY <1>0, <1>4 DEF LockBuscarEnCpus, EsperaConDueno, TipoMutex, mutexes
  <2> QED
    BY <2>1, <2>2, <2>3, <2>4 DEF PropiosBien
<1>5. CASE LockBuscarEnReady(c)
  <2>0. /\ msg[c].mutex \in Mutexes /\ pc[c] \notin PasosConElOtro
        /\ pid_dueno[msg[c].mutex] # NADIE
    BY <1>0, <1>5 DEF LockBuscarEnReady, NombresBien, DuenoBuscado, PasosConNombre, PasosConElOtro
  <2>a. pid_dueno[msg[c].mutex] \in Pids
    BY <1>0, <2>0 DEF TipoMutex
  <2>b. \/ Ir(c, "lock_post") /\ UNCHANGED encontrado
        \/ /\ Ir(c, "lock_heredar")
           /\ encontrado' = [encontrado EXCEPT ![c] = pid_dueno[msg[c].mutex]]
    BY <1>5 DEF LockBuscarEnReady
  <2>c. /\ encontrado' \in [Cpus -> Pids \cup {NADIE}]
        /\ \A d \in Cpus : encontrado'[d] # NADIE <=> pc'[d] \in PasosConElOtro
    BY <1>0, <2>0, <2>a, <2>b DEF Ir, TipoMutex, PasosConElOtro
  <2>1. TipoMutex'
    BY <1>0, <1>5, <2>c
    DEF LockBuscarEnReady, TipoMutex, mutexes, guiones, SinOtrosCambios, PasosConElOtro
  <2>2. NombresBien'
    BY <1>0, <1>5 DEF LockBuscarEnReady, Ir, NombresBien, PasosConNombre
  <2>3. DuenoBuscado'
    BY <1>0, <1>5 DEF LockBuscarEnReady, Ir, DuenoBuscado, TipoMutex, mutexes
  <2>4. EsperaConDueno'
    BY <1>0, <1>5 DEF LockBuscarEnReady, EsperaConDueno, TipoMutex, mutexes
  <2> QED
    BY <2>1, <2>2, <2>3, <2>4 DEF PropiosBien
<1>6. CASE LockHeredar(c)
  <2>1. TipoMutex'
    BY <1>0, <1>6 DEF LockHeredar, Ir, TipoMutex, mutexes, guiones, SinOtrosCambios
  <2>2. NombresBien'
    BY <1>0, <1>6 DEF LockHeredar, Ir, NombresBien, PasosConNombre
  <2>3. DuenoBuscado'
    BY <1>0, <1>6 DEF LockHeredar, Ir, DuenoBuscado, TipoMutex, mutexes
  <2>4. EsperaConDueno'
    BY <1>0, <1>6 DEF LockHeredar, EsperaConDueno, TipoMutex, mutexes
  <2> QED
    BY <2>1, <2>2, <2>3, <2>4 DEF PropiosBien
<1>7. CASE LockPost(c)
  <2>1. TipoMutex'
    BY <1>0, <1>7 DEF LockPost, Ir, TipoMutex, mutexes, guiones, SinOtrosCambios
  <2>2. NombresBien'
    BY <1>0, <1>7 DEF LockPost, Ir, NombresBien, PasosConNombre
  <2>3. DuenoBuscado'
    BY <1>0, <1>7 DEF LockPost, Ir, DuenoBuscado, TipoMutex, mutexes
  <2>4. EsperaConDueno'
    BY <1>0, <1>7 DEF LockPost, EsperaConDueno, TipoMutex, mutexes
  <2> QED
    BY <2>1, <2>2, <2>3, <2>4 DEF PropiosBien
<1>8. CASE LockLiberar(c)
  <2>1. TipoMutex'
    BY <1>0, <1>8 DEF LockLiberar, Ir, TipoMutex, mutexes, guiones, SinOtrosCambios
  <2>2. NombresBien'
    BY <1>0, <1>8 DEF LockLiberar, Ir, NombresBien, PasosConNombre
  <2>3. DuenoBuscado'
    BY <1>0, <1>8 DEF LockLiberar, Ir, DuenoBuscado, TipoMutex, mutexes
  <2>4. EsperaConDueno'
    BY <1>0, <1>8 DEF LockLiberar, EsperaConDueno, TipoMutex, mutexes
  <2> QED
    BY <2>1, <2>2, <2>3, <2>4 DEF PropiosBien
<1>9. CASE LockEvaluar(c)
  <2>1. TipoMutex'
    BY <1>0, <1>9 DEF LockEvaluar, SoltarPcb, Ir, TipoMutex, mutexes, guiones, SinOtrosCambios
  <2>2. NombresBien'
    BY <1>0, <1>9 DEF LockEvaluar, SoltarPcb, Ir, NombresBien, PasosConNombre
  <2>3. DuenoBuscado'
    BY <1>0, <1>9 DEF LockEvaluar, SoltarPcb, Ir, DuenoBuscado, TipoMutex, mutexes
  <2>4. EsperaConDueno'
    BY <1>0, <1>9 DEF LockEvaluar, EsperaConDueno, TipoMutex, mutexes
  <2> QED
    BY <2>1, <2>2, <2>3, <2>4 DEF PropiosBien
<1> QED
  BY <1>1, <1>2, <1>3, <1>4, <1>5, <1>6, <1>7, <1>8, <1>9 DEF LockDe

(* So do ejecutar_mutex_unlock and the exit of an owner.                    *)
LEMMA UnlockPropios ==
  ASSUME TipoM, PropiosBien, NEW c \in Cpus, UnlockDe(c)
  PROVE  PropiosBien'
<1>0. /\ pc \in [Cpus -> PasosM] /\ msg \in [Cpus -> MensajesM]
      /\ prioridad \in [Pids -> Prioridades]
      /\ TipoMutex /\ NombresBien /\ DuenoBuscado /\ EsperaConDueno
      /\ \A p \in Pids : p # NADIE
  BY ConstantesOK DEF TipoM, TipoBaseEn, TipoHilosEn, TipoProcesos, PropiosBien
<1>1. CASE UnlockVerificar(c)
  <2>1. TipoMutex'
    BY <1>0, <1>1 DEF UnlockVerificar, SoltarPcb, Ir, TipoMutex, mutexes, guiones, SinOtrosCambios
  <2>2. NombresBien'
    BY <1>0, <1>1 DEF UnlockVerificar, SoltarPcb, Ir, NombresBien, PasosConNombre
  <2>3. DuenoBuscado'
    BY <1>0, <1>1 DEF UnlockVerificar, SoltarPcb, Ir, DuenoBuscado, TipoMutex, mutexes
  <2>4. EsperaConDueno'
    BY <1>0, <1>1 DEF UnlockVerificar, EsperaConDueno, TipoMutex, mutexes
  <2> QED
    BY <2>1, <2>2, <2>3, <2>4 DEF PropiosBien
<1>2. CASE UnlockSinEspera(c)
  <2>1. TipoMutex'
    BY <1>0, <1>2 DEF UnlockSinEspera, SoltarPcb, Ir, TipoMutex, mutexes, guiones, SinOtrosCambios
  <2>2. NombresBien'
    BY <1>0, <1>2 DEF UnlockSinEspera, SoltarPcb, Ir, NombresBien, PasosConNombre
  <2>3. DuenoBuscado'
    <3>1. \A d \in Cpus :
            pc[d] \in {"lock_cpus", "lock_ready"} => msg[d].mutex # msg[c].mutex
      BY <1>2 DEF UnlockSinEspera, Tomado
    <3> QED
      BY <1>0, <1>2, <3>1 DEF UnlockSinEspera, SoltarPcb, Ir, DuenoBuscado, TipoMutex
  <2>4. EsperaConDueno'
    BY <1>0, <1>2 DEF UnlockSinEspera, EsperaConDueno, TipoMutex, mutexes
  <2> QED
    BY <2>1, <2>2, <2>3, <2>4 DEF PropiosBien
<1>3. CASE UnlockTraspasar(c)
  <2>0. /\ msg[c].mutex \in Mutexes /\ pcb_h[c] \in Pids
        /\ cola_bloqueados[msg[c].mutex] \in Seq(Pids)
    BY <1>0, <1>3, ConPcbM
    DEF UnlockTraspasar, NombresBien, PasosConNombre, Ociosos, TipoMutex
  <2>a. Head(cola_bloqueados[msg[c].mutex]) \in Pids
    BY <1>3, <2>0 DEF UnlockTraspasar
  <2>b. /\ pid_dueno' \in [Mutexes -> Pids \cup {NADIE}]
        /\ cola_bloqueados' \in [Mutexes -> Seq(Pids)]
    BY <1>0, <1>3, <2>0, <2>a DEF UnlockTraspasar, TipoMutex
  <2>c. prioridad_original_dueno' \in [Mutexes -> Prioridades]
    <3>1. [prioridad EXCEPT ![pcb_h[c]] = prioridad_original_dueno[msg[c].mutex]]
            \in [Pids -> Prioridades]
      BY <1>0, <2>0 DEF TipoMutex
    <3>2. prioridad' \in [Pids -> Prioridades]
      BY <1>3, <3>1 DEF UnlockTraspasar
    <3>3. prioridad'[Head(cola_bloqueados[msg[c].mutex])] \in Prioridades
      BY <2>a, <3>2
    <3> QED
      BY <1>0, <1>3, <2>0, <3>3 DEF UnlockTraspasar, TipoMutex
  <2>d. /\ encontrado' \in [Cpus -> Pids \cup {NADIE}]
        /\ \A d \in Cpus : encontrado'[d] # NADIE <=> pc'[d] \in PasosConElOtro
    BY <1>0, <1>3, <2>a DEF UnlockTraspasar, Ir, TipoMutex, PasosConElOtro
  <2>1. TipoMutex'
    BY <1>0, <1>3, <2>b, <2>c, <2>d
    DEF UnlockTraspasar, TipoMutex, guiones, SinOtrosCambios, PasosConElOtro
  <2>2. NombresBien'
    BY <1>0, <1>3 DEF UnlockTraspasar, Ir, NombresBien, PasosConNombre
  <2>3. DuenoBuscado'
    BY <1>0, <1>3 DEF UnlockTraspasar, Ir, DuenoBuscado, TipoMutex, mutexes
  <2>4. EsperaConDueno'
    BY <1>0, <1>3 DEF UnlockTraspasar, EsperaConDueno, TipoMutex, mutexes
  <2> QED
    BY <2>1, <2>2, <2>3, <2>4 DEF PropiosBien
<1>4. CASE UnlockDespertar(c)
  <2>1. TipoMutex'
    BY <1>0, <1>4 DEF UnlockDespertar, Ir, TipoMutex, mutexes, guiones, SinOtrosCambios
  <2>2. NombresBien'
    BY <1>0, <1>4 DEF UnlockDespertar, Ir, NombresBien, PasosConNombre
  <2>3. DuenoBuscado'
    BY <1>0, <1>4 DEF UnlockDespertar, Ir, DuenoBuscado, TipoMutex, mutexes
  <2>4. EsperaConDueno'
    BY <1>0, <1>4 DEF UnlockDespertar, EsperaConDueno, TipoMutex, mutexes
  <2> QED
    BY <2>1, <2>2, <2>3, <2>4 DEF PropiosBien
<1>5. CASE UnlockAvisar(c)
  <2>1. TipoMutex'
    BY <1>0, <1>5 DEF UnlockAvisar, SoltarPcb, Ir, TipoMutex, mutexes, guiones, SinOtrosCambios
  <2>2. NombresBien'
    BY <1>0, <1>5 DEF UnlockAvisar, SoltarPcb, Ir, NombresBien, PasosConNombre
  <2>3. DuenoBuscado'
    BY <1>0, <1>5 DEF UnlockAvisar, SoltarPcb, Ir, DuenoBuscado, TipoMutex, mutexes
  <2>4. EsperaConDueno'
    BY <1>0, <1>5 DEF UnlockAvisar, EsperaConDueno, TipoMutex, mutexes
  <2> QED
    BY <2>1, <2>2, <2>3, <2>4 DEF PropiosBien
<1>6. CASE ExitSoltarMutex(c)
  <2>1. PICK x \in creados :
          /\ ~ Tomado(x)
          /\ \/ /\ cola_bloqueados[x] = <<>>
                /\ pid_dueno' = [pid_dueno EXCEPT ![x] = NADIE]
                /\ UNCHANGED cola_bloqueados
             \/ /\ cola_bloqueados[x] # <<>>
                /\ pid_dueno' = [pid_dueno EXCEPT ![x] = Head(cola_bloqueados[x])]
                /\ cola_bloqueados' = [cola_bloqueados EXCEPT ![x] = Tail(@)]
    BY <1>6 DEF ExitSoltarMutex
  <2>2. UNCHANGED <<pc, msg, creados, prioridad_original_dueno, encontrado, contador, leido>>
    BY <1>6 DEF ExitSoltarMutex, SinOtrosCambios, guiones
  <2>3. x \in Mutexes /\ cola_bloqueados[x] \in Seq(Pids)
    BY <1>0, <2>1 DEF TipoMutex
  <2>4. cola_bloqueados[x] # <<>> => Head(cola_bloqueados[x]) \in Pids
    BY <2>3
  <2>5. /\ pid_dueno' \in [Mutexes -> Pids \cup {NADIE}]
        /\ cola_bloqueados' \in [Mutexes -> Seq(Pids)]
    <3>1. cola_bloqueados[x] # <<>> => Tail(cola_bloqueados[x]) \in Seq(Pids)
      BY <2>3
    <3> QED
      BY <1>0, <2>1, <2>4, <3>1 DEF TipoMutex
  <2>6. TipoMutex'
    BY <1>0, <2>2, <2>5 DEF TipoMutex
  <2>9. NombresBien'
    BY <1>0, <2>2 DEF NombresBien
  <2>7. DuenoBuscado'
    <3>1. \A d \in Cpus : pc[d] \in {"lock_cpus", "lock_ready"} => msg[d].mutex # x
      BY <2>1 DEF Tomado
    <3> QED
      BY <1>0, <2>1, <2>2, <2>3, <3>1 DEF DuenoBuscado, TipoMutex, NombresBien, PasosConNombre
  <2>8. EsperaConDueno'
    BY <1>0, <2>1, <2>3, <2>4 DEF EsperaConDueno, TipoMutex
  <2> QED
    BY <2>6, <2>7, <2>8, <2>9 DEF PropiosBien
<1>7. CASE ExitSinMutex(c)
  <2>1. TipoMutex'
    BY <1>0, <1>7 DEF ExitSinMutex, Ir, TipoMutex, mutexes, guiones, SinOtrosCambios
  <2>2. NombresBien'
    BY <1>0, <1>7 DEF ExitSinMutex, Ir, NombresBien, PasosConNombre
  <2>3. DuenoBuscado'
    BY <1>0, <1>7 DEF ExitSinMutex, Ir, DuenoBuscado, TipoMutex, mutexes
  <2>4. EsperaConDueno'
    BY <1>0, <1>7 DEF ExitSinMutex, EsperaConDueno, TipoMutex, mutexes
  <2> QED
    BY <2>1, <2>2, <2>3, <2>4 DEF PropiosBien
<1> QED
  BY <1>1, <1>2, <1>3, <1>4, <1>5, <1>6, <1>7 DEF UnlockDe

(* The motives of the mutexes keep them too.                                *)
LEMMA RecibirPropios ==
  ASSUME TipoM, PropiosBien, NEW c \in Cpus, RecibirDe(c)
  PROVE  PropiosBien'
<1>0. /\ pc \in [Cpus -> PasosM] /\ msg \in [Cpus -> MensajesM]
      /\ TipoMutex /\ NombresBien /\ DuenoBuscado /\ EsperaConDueno
  BY DEF TipoM, TipoBaseEn, TipoHilosEn, PropiosBien
<1>1. CASE RecibirMutexCreate(c) \/ RecibirMutexLock(c) \/ RecibirMutexUnlock(c)
  <2> DEFINE m == Head(motivos[c])
  <2>1. PICK paso \in {"ready_liberar", "mutex_lock", "mutex_unlock"} :
          Recibir(c, m, paso) /\ UNCHANGED <<encontrado, guiones>>
    BY <1>1 DEF RecibirMutexCreate, RecibirMutexLock, RecibirMutexUnlock, RecibirMutex
  <2>2. m \in MensajesM /\ m.syscall \in LlamadasMutex
    BY <1>1, HeadDeMotivos
    DEF RecibirMutexCreate, RecibirMutexLock, RecibirMutexUnlock, RecibirMutex, LlamadasMutex
  <2>3. m.mutex \in Mutexes
    BY <2>2 DEF MensajesM, Mensajes, MensajesMutex, LlamadasMutex
  <2>4. /\ pc[c] = "recibir" /\ pc' = [pc EXCEPT ![c] = paso]
        /\ msg' = [msg EXCEPT ![c] = m]
    BY <2>1 DEF Recibir, Ir
  <2>5. /\ creados' \subseteq Mutexes
        /\ UNCHANGED <<pid_dueno, prioridad_original_dueno, cola_bloqueados>>
    BY <1>0, <1>1, <2>3
    DEF RecibirMutexCreate, RecibirMutexLock, RecibirMutexUnlock, mutexes, TipoMutex
  <2> HIDE DEF m
  <2>6. TipoMutex'
    BY <1>0, <2>1, <2>4, <2>5 DEF TipoMutex, guiones
  <2>7. NombresBien' /\ DuenoBuscado' /\ EsperaConDueno'
    BY <1>0, <2>3, <2>4, <2>5
    DEF NombresBien, DuenoBuscado, EsperaConDueno, PasosConNombre
  <2> QED
    BY <2>6, <2>7 DEF PropiosBien
<1>2. CASE RecibirExitMutex(c)
  <2>1. PICK m \in Mensajes : Recibir(c, m, "soltar_mutex")
    BY <1>2 DEF RecibirExitMutex
  <2>2. /\ pc[c] = "recibir" /\ pc' = [pc EXCEPT ![c] = "soltar_mutex"]
        /\ msg' = [msg EXCEPT ![c] = m] /\ UNCHANGED <<mutexes, encontrado, guiones>>
    BY <1>2, <2>1 DEF RecibirExitMutex, Recibir, Ir
  <2>3. TipoMutex'
    BY <1>0, <2>2 DEF TipoMutex, mutexes, guiones
  <2>4. NombresBien' /\ DuenoBuscado' /\ EsperaConDueno'
    BY <1>0, <2>2
    DEF NombresBien, DuenoBuscado, EsperaConDueno, PasosConNombre, mutexes
  <2> QED
    BY <2>3, <2>4 DEF PropiosBien
<1> QED
  BY <1>1, <1>2 DEF RecibirDe

-----------------------------------------------------------------------------
(* The theorems.                                                            *)

LEMMA InitInvMutex == InitM => InvMutex
<1> SUFFICES ASSUME InitM PROVE InvMutex
  OBVIOUS
<1>1. TipoM
  BY Bastantes, BastantesKm, InitTipoEn, InitKmTipo DEF InitM, TipoM, TipoKm
<1>2. /\ pc = [c \in Cpus |-> "sin_conectar"] /\ corre = [c \in Cpus |-> NADIE]
      /\ 0 \in Prioridades
  BY Constantes DEF InitM, Init
<1>3. TipoMutex
  BY <1>2 DEF InitM, TipoMutex
<1>4. ContadoresBien
  BY <1>2 DEF InitM, ContadoresBien
<1>5. NombresBien /\ DuenoBuscado
  BY <1>2 DEF NombresBien, DuenoBuscado, PasosConNombre
<1>6. EsperaConDueno
  BY DEF InitM, EsperaConDueno
<1> QED
  BY <1>1, <1>3, <1>4, <1>5, <1>6 DEF InvMutex

(* A step of a handler leaves the CPUs' side alone, but for the motive.     *)
LEMMA MutexSinContadores ==
  ASSUME ContadoresBien, NEW c \in Cpus, MutexDe(c)
  PROVE  ContadoresBien'
<1>1. UNCHANGED <<contador, leido, corre>>
  <2>1. CASE LockDe(c)
    BY <2>1
    DEF LockDe, LockInexistente, LockLibre, LockOcupado, LockBuscarEnCpus, LockBuscarEnReady,
        LockHeredar, LockPost, LockLiberar, LockEvaluar, SinOtrosCambios, guiones
  <2>2. CASE UnlockDe(c)
    BY <2>2
    DEF UnlockDe, UnlockVerificar, UnlockSinEspera, UnlockTraspasar, UnlockDespertar,
        UnlockAvisar, ExitSoltarMutex, ExitSinMutex, SinOtrosCambios, guiones
  <2>3. CASE RecibirDe(c)
    BY <2>3
    DEF RecibirDe, RecibirMutexCreate, RecibirMutexLock, RecibirMutexUnlock, RecibirMutex,
        RecibirExitMutex, Recibir, guiones
  <2> QED
    BY <2>1, <2>2, <2>3 DEF MutexDe, LockDe, UnlockDe, RecibirDe
<1> QED
  BY <1>1 DEF ContadoresBien

LEMMA NextInvMutex == InvMutex /\ [NextM]_varsM => InvMutex'
<1> SUFFICES ASSUME InvMutex, [NextM]_varsM PROVE InvMutex'
  OBVIOUS
<1>0. TipoM /\ TipoMutex /\ ContadoresBien /\ PropiosBien
  BY DEF InvMutex, PropiosBien
<1>a. contador \in [Pids -> Nat] /\ leido \in [Cpus -> Nat]
  BY <1>0 DEF TipoMutex
<1>1. CASE Planificacion /\ SinMutex
  <2>1. TipoM'
    BY <1>0, <1>1, PlanificacionTipo
  <2>2. UNCHANGED <<mutexes, encontrado, contador, leido>>
    BY <1>1 DEF SinMutex, guiones
  <2>3. PropiosBien'
    BY <1>0, <1>1, <1>a, <2>2, FueraDelMutex, OtrosQuedan
  <2>4. ContadoresBien'
    <3>1. \A c \in Cpus : UNCHANGED corre
      BY <1>0, <1>1, FueraDelMutex
    <3> QED
      BY <1>0, <2>2, <3>1 DEF ContadoresBien
  <2> QED
    BY <2>1, <2>3, <2>4 DEF InvMutex, PropiosBien
<1>2. ASSUME NEW c \in Cpus, CpuGuion(c)
      PROVE  InvMutex'
  <2>1. TipoM' /\ ContadoresBien'
    BY <1>0, <1>2, GuionTipo
  <2>2. UNCHANGED <<hilos, mutexes, encontrado>>
    BY <1>2
    DEF CpuGuion, CpuTomarGuion, CpuTomar, CpuSyscall, CpuInterrumpirGuion, CpuInterrumpir,
        CpuDevolver
  <2>3. contador' \in [Pids -> Nat]
    BY <2>1 DEF ContadoresBien
  <2>4. leido' \in [Cpus -> Nat]
    <3>1. CASE CpuTomarGuion(c)
      <4>1. Head(despachos[c]) \in Pids
        BY <1>0, <3>1 DEF CpuTomarGuion, CpuTomar, TipoM, TipoBaseEn, TipoCpuEn
      <4>2. contador[Head(despachos[c])] \in Nat
        BY <1>a, <4>1
      <4> QED
        BY <1>a, <3>1, <4>2 DEF CpuTomarGuion
    <3>2. CASE leido' = leido
      BY <1>a, <3>2
    <3> QED
      BY <1>2, <3>1, <3>2 DEF CpuGuion, CpuSyscall, CpuInterrumpirGuion
  <2>5. PropiosBien'
    <3>1. \A d \in Cpus : IF pc[d] \in PasosMutex
                           THEN pc'[d] = pc[d] /\ msg'[d] = msg[d]
                           ELSE pc'[d] \notin PasosMutex
      BY <2>2 DEF hilos
    <3> QED
      BY <1>0, <2>2, <2>3, <2>4, <3>1, OtrosQuedan
  <2> QED
    BY <2>1, <2>5 DEF InvMutex, PropiosBien
<1>3. ASSUME NEW c \in Cpus, MutexDe(c)
      PROVE  InvMutex'
  <2>1. LockDe(c) \/ UnlockDe(c) \/ RecibirDe(c)
    BY <1>3 DEF MutexDe, LockDe, UnlockDe, RecibirDe
  <2>2. NombresBien
    BY <1>0 DEF PropiosBien
  <2>3. TipoM'
    BY <1>0, <2>1, <2>2, LockTipo, UnlockTipo, RecibirDeTipo
  <2>4. PropiosBien'
    BY <1>0, <2>1, LockPropios, UnlockPropios, RecibirPropios
  <2>5. ContadoresBien'
    BY <1>0, <1>3, MutexSinContadores
  <2> QED
    BY <2>3, <2>4, <2>5 DEF InvMutex, PropiosBien
<1>4. CASE UNCHANGED varsM
  <2>1. TipoM'
    BY <1>0, <1>4, SinCambiosEn DEF varsM, vars, TipoM, TipoBaseEn
  <2>2. PropiosBien' /\ ContadoresBien'
    BY <1>0, <1>4
    DEF varsM, vars, mutexes, guiones, hilos, cpu, PropiosBien, TipoMutex, NombresBien,
        DuenoBuscado, EsperaConDueno, ContadoresBien
  <2> QED
    BY <2>1, <2>2 DEF InvMutex, PropiosBien
<1> QED
  BY <1>1, <1>2, <1>3, <1>4 DEF NextM

(* MutexInvariante: with any scripts, what the handlers of the mutexes rely *)
(* on holds between any two steps: in particular the owner that             *)
(* ejecutar_mutex_lock looks for, with the queue already longer, is there.  *)
THEOREM MutexInvariante == SpecM => []InvMutex
  BY InitInvMutex, NextInvMutex, PTL DEF SpecM

(* MutexBienTipado: a handler that goes on with another PCB (the owner that *)
(* inherits, the process that is woken) has found one.                      *)
THEOREM MutexBienTipado == SpecM => []TipoMutex
<1>1. InvMutex => TipoMutex
  BY DEF InvMutex
<1> QED
  BY <1>1, MutexInvariante, PTL

(* NadieEsperaEnVano: no process waits in cola_bloqueados for a mutex       *)
(* without an owner, whose UNLOCK or EXIT is what would wake it.            *)
THEOREM NadieEsperaEnVano == SpecM => []EsperaConDueno
<1>1. InvMutex => EsperaConDueno
  BY DEF InvMutex
<1> QED
  BY <1>1, MutexInvariante, PTL

=============================================================================

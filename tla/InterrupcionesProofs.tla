------------------------ MODULE InterrupcionesProofs ------------------------
(***************************************************************************)
(* The interrupt channel, for every number of pids, CPUs and READY levels. *)
(*                                                                         *)
(* Every step is one of Planificador, whose invariants therefore hold here *)
(* too, or the reading of the second word of an interruption, which they   *)
(* do not mention.  The invariant of the channel is about the words on the *)
(* way with the half-read pair put back (Enviadas): that sequence grows by *)
(* whole interruptions and shrinks by whole interruptions, and reading the *)
(* first word of one does not change it.                                   *)
(***************************************************************************)
EXTENDS Interrupciones, PlanificadorLugares, SequenceTheorems

(* The steps of this module are steps of Planificador, but for the second   *)
(* word of an interruption, which overwrites pid_interrupcion.              *)
LEMMA PasoDeBase ==
  ASSUME NextI
  PROVE  \/ Next
         \/ UNCHANGED vars
         \/ \E c \in Cpus : LeerPid(c)
<1>1. CASE LargoPlazoI \/ CortoPlazoI \/ AtenderIoI \/ (IoServir /\ UNCHANGED Propias) \/ KmI
  BY <1>1
  DEF LargoPlazoI, CortoPlazoI, AtenderIoI, KmI, LargoAvisarI, CortoDespacharI, IoAvisarI,
      Next, LargoPlazo, CortoPlazo, AtenderIo, KernelMemory
<1>2. CASE Puerto8003
  BY <1>2 DEF Puerto8003, AceptarInterrupt, CpuConectar, Handshake, Next, AtenderCpu,
              AtenderSinExit
<1>3. ASSUME NEW c \in Cpus,
             HiloQuantum(c) \/ LeerTipo(c) \/ AtenderI(c) \/ CpuRevisar(c) \/ CpuSeguir(c)
      PROVE  Next \/ UNCHANGED vars
  <2>1. HiloQuantum(c) \/ LeerTipo(c) => UNCHANGED vars
    BY DEF HiloQuantum, LeerTipo
  <2>2. AtenderI(c) => AtenderCpu(c)
    BY DEF AtenderI, LiberarCpuI, AtenderCpu, AtenderSinExit
  <2>3. CpuRevisar(c) \/ CpuSeguir(c) => Cpu(c)
    BY DEF CpuRevisar, CpuSeguir, Cpu
  <2> QED
    BY <1>3, <2>1, <2>2, <2>3 DEF Next
<1> QED
  BY <1>1, <1>2, <1>3 DEF NextI

\* Who writes or reads words, or takes an interruption; a step of anybody
\* else leaves them alone.
Escribe ==
  /\ UNCHANGED <<interrupcion, media, relojes_q, puertos>>
  /\ \E p \in Pids : DesalojarPorPrioridad(p)
Calla ==
  /\ UNCHANGED <<interrupcion, palabras>>
  /\ relojes_q' = relojes_q \/ algoritmo_actual = "RR"
Toma(c) == CpuInterrumpir(c) /\ UNCHANGED Propias

LEMMA SinPalabras ==
  ASSUME UNCHANGED Propias
  PROVE  UNCHANGED palabras /\ UNCHANGED relojes_q /\ UNCHANGED puertos
         /\ UNCHANGED algoritmo_actual
  BY DEF Propias, palabras, puertos, quantum

LEMMA SinDesalojo ==
  ASSUME NEW p, VerificarDesalojo(p)
  PROVE  UNCHANGED interrupcion
  BY InterrupcionesOK DEF VerificarDesalojo

LEMMA PasosDePalabras ==
  ASSUME TipoBase, [NextI]_varsI
  PROVE  /\ UNCHANGED algoritmo_actual
         /\ \/ Calla \/ Escribe
            \/ \E c \in Cpus : HiloQuantum(c) \/ LeerTipo(c) \/ LeerPid(c) \/ Toma(c)
<1>1. CASE LargoPlazoI
  <2>1. CASE LargoAvisarI
    <3>1. pcb_largo \in Pids
      BY <2>1 DEF LargoAvisarI, LargoAvisar, TipoBase, TipoBaseEn, TipoLargo
    <3>2. UNCHANGED interrupcion
      BY <2>1, SinDesalojo DEF LargoAvisarI, LargoAvisar
    <3> QED
      BY <2>1, <3>1, <3>2 DEF LargoAvisarI, Escribe
  <2> QED
    BY <1>1, <2>1, SinPalabras
    DEF LargoPlazoI, LargoEsperar, LargoSacar, LargoEncolar, cpu, Calla
<1>2. CASE CortoPlazoI
  BY <1>2, SinPalabras
  DEF CortoPlazoI, CortoEsperarReady, CortoEsperarCpu, CortoSacar, CortoDespacharI,
      CortoDespachar, cpu, Calla, palabras, quantum
<1>3. CASE AtenderIoI
  <2>1. CASE IoAvisarI
    <3>1. pcb_io \in Pids
      BY <2>1 DEF IoAvisarI, IoAvisar, TipoBase, TipoBaseEn, TipoIo
    <3>2. UNCHANGED interrupcion
      BY <2>1, SinDesalojo DEF IoAvisarI, IoAvisar
    <3> QED
      BY <2>1, <3>1, <3>2 DEF IoAvisarI, Escribe
  <2> QED
    BY <1>3, <2>1, SinPalabras
    DEF AtenderIoI, IoBuscarBlock, IoBuscarSusp, IoEncolar, cpu, Calla
<1>4. CASE (IoServir /\ UNCHANGED Propias) \/ KmI
  BY <1>4, SinPalabras DEF IoServir, KmI, KmCargar, KmFinalizar, EscucharKm, cpu, Calla
<1>5. CASE Puerto8003
  BY <1>5
  DEF Puerto8003, AceptarInterrupt, CpuConectar, Handshake, Conectar, cpu, vars, quantum,
      palabras, Calla
<1>6. ASSUME NEW c \in Cpus, AtenderI(c)
      PROVE  UNCHANGED algoritmo_actual /\ Calla
  <2>1. CASE LiberarCpuI(c)
    BY <2>1 DEF LiberarCpuI, LiberarCpu, cpu, Calla
  <2>2. CASE ~ LiberarCpuI(c)
    <3>1. UNCHANGED interrupcion
      BY <1>6, <2>2
      DEF AtenderI, PublicarCpu, RecibirExit, RecibirInterrupcion, RecibirSleep,
          RecibirInitProc, Recibir, FinalizarEnKm, EsperarFin, EsperarKm, TerminarProceso,
          Bloquear, BloqueoPost, PedirIo, PedirCarga, EsperarCarga, CrearProceso, ReadyPost,
          ReadyEncolar, ReadyAvisar, cpu
    <3> QED
      BY <1>6, <2>2, <3>1, SinPalabras DEF AtenderI, Calla
  <2> QED
    BY <2>1, <2>2
<1>7. ASSUME NEW c \in Cpus, CpuRevisar(c) \/ CpuSeguir(c)
      PROVE  UNCHANGED algoritmo_actual /\ (Calla \/ Toma(c))
  BY <1>7, SinPalabras
  DEF CpuRevisar, CpuSeguir, CpuTomar, CpuTerminar, CpuSleep, CpuInitProc, CpuPedir,
      CpuDevolver, Calla, Toma
<1>8. ASSUME NEW c \in Cpus, HiloQuantum(c) \/ LeerTipo(c) \/ LeerPid(c)
      PROVE  UNCHANGED algoritmo_actual
  BY <1>8 DEF HiloQuantum, LeerTipo, LeerPid
<1>9. CASE UNCHANGED varsI
  BY <1>9, SinPalabras DEF varsI, vars, cpu, Calla
<1> QED
  BY <1>1, <1>2, <1>3, <1>4, <1>5, <1>6, <1>7, <1>8, <1>9 DEF NextI

-----------------------------------------------------------------------------
(* Whole interruptions.                                                     *)

Enteras(s) ==
  /\ Len(s) % 2 = 0
  /\ \A i \in DOMAIN s : s[i] \in IF i % 2 = 1 THEN {FIN_QUANTUM} ELSE Pids

LEMMA Par ==
  ASSUME NEW n \in Nat
  PROVE  /\ n % 2 \in {0, 1}
         /\ (n + 1) % 2 = 1 - (n % 2)
         /\ (n + 2) % 2 = n % 2
  OBVIOUS

(* One more at the end.                                                     *)
LEMMA Agregar ==
  ASSUME NEW s \in Seq(Nat), Enteras(s), NEW p \in Pids
  PROVE  /\ Enteras(s \o <<FIN_QUANTUM, p>>)
         /\ s \o <<FIN_QUANTUM, p>> \in Seq(Nat)
         /\ Len(s \o <<FIN_QUANTUM, p>>) = Len(s) + 2
         /\ (s \o <<FIN_QUANTUM, p>>)[Len(s) + 2] = p
<1> DEFINE t == s \o <<FIN_QUANTUM, p>>
<1>0. p \in Nat /\ FIN_QUANTUM \in Nat
  BY ConstantesOK DEF Pids, FIN_QUANTUM
<1>1. t \in Seq(Nat) /\ Len(t) = Len(s) + 2
  BY <1>0
<1>2. t[Len(s) + 1] = FIN_QUANTUM /\ t[Len(s) + 2] = p
  BY <1>0
<1>3. \A i \in 1 .. Len(s) : t[i] = s[i]
  BY <1>0
<1> HIDE DEF t
<1>4. Len(s) \in Nat /\ Len(s) % 2 = 0
  BY DEF Enteras
<1>5. Len(t) % 2 = 0 /\ (Len(s) + 1) % 2 = 1 /\ (Len(s) + 2) % 2 = 0
  BY <1>1, <1>4, Par
<1>6. ASSUME NEW i \in DOMAIN t
      PROVE  t[i] \in IF i % 2 = 1 THEN {FIN_QUANTUM} ELSE Pids
  <2>1. i \in 1 .. Len(s) \/ i = Len(s) + 1 \/ i = Len(s) + 2
    BY <1>1, <1>4
  <2>2. CASE i \in 1 .. Len(s)
    <3>1. i \in DOMAIN s
      BY <2>2
    <3> QED
      BY <1>3, <2>2, <3>1 DEF Enteras
  <2>3. CASE i = Len(s) + 1
    BY <1>2, <1>5, <2>3
  <2>4. CASE i = Len(s) + 2
    BY <1>2, <1>5, <2>4
  <2> QED
    BY <2>1, <2>2, <2>3, <2>4
<1>7. Enteras(t)
  BY <1>5, <1>6 DEF Enteras
<1> QED
  BY <1>1, <1>2, <1>7 DEF t

(* The first one, and what is left after it.                                *)
LEMMA DosPalabras ==
  ASSUME NEW s \in Seq(Nat), Enteras(s), s # <<>>
  PROVE  /\ Len(s) >= 2 /\ s[1] = FIN_QUANTUM /\ s[2] \in Pids
         /\ \A t \in Seq(Nat) :
              Len(t) = Len(s) - 2 /\ (\A i \in DOMAIN t : t[i] = s[i + 2]) => Enteras(t)
<1>1. Len(s) \in Nat \ {0} /\ Len(s) % 2 = 0
  BY DEF Enteras
<1>2. Len(s) >= 2
  BY <1>1
<1>3. 1 \in DOMAIN s /\ 2 \in DOMAIN s
  BY <1>2
<1>4. s[1] = FIN_QUANTUM /\ s[2] \in Pids
  BY <1>3 DEF Enteras
<1>5. ASSUME NEW t \in Seq(Nat), Len(t) = Len(s) - 2, \A i \in DOMAIN t : t[i] = s[i + 2]
      PROVE  Enteras(t)
  <2>1. Len(t) \in Nat /\ Len(t) % 2 = 0
    BY <1>1, <1>2, <1>5
  <2>2. ASSUME NEW i \in DOMAIN t
        PROVE  t[i] \in IF i % 2 = 1 THEN {FIN_QUANTUM} ELSE Pids
    <3>1. i \in Nat /\ i + 2 \in DOMAIN s
      BY <1>2, <1>5
    <3>2. (i + 2) % 2 = i % 2
      BY <3>1, Par
    <3>3. s[i + 2] \in IF (i + 2) % 2 = 1 THEN {FIN_QUANTUM} ELSE Pids
      BY <3>1 DEF Enteras
    <3> QED
      BY <1>5, <2>2, <3>2, <3>3
  <2> QED
    BY <2>1, <2>2 DEF Enteras
<1> QED
  BY <1>2, <1>4, <1>5

-----------------------------------------------------------------------------
(* The words on the way.                                                    *)

TipoCanal ==
  /\ algoritmo_actual \in {"CMN", "RR"}
  /\ sin_aceptar \in Seq(Cpus)
  /\ socket_cpu_interrupt \in Cpus \cup {NADIE}
  /\ socket_interrupt \in [Cpus -> Cpus \cup {NADIE}]
  /\ canal \in [Cpus -> Seq(Nat)]
  /\ media \in [Cpus -> BOOLEAN]
  /\ relojes_q \in [Cpus -> Nat]

ConPids ==
  algoritmo_actual = "CMN" =>
    \A c \in Cpus : /\ relojes_q[c] = 0
                    /\ interrupcion[c] \in Pids \cup {NADIE}
                    /\ Enteras(Enviadas(c))
SinPids ==
  algoritmo_actual = "RR" =>
    \A c \in Cpus : /\ interrupcion[c] \in {NADIE, FIN_QUANTUM}
                    /\ \A i \in DOMAIN canal[c] : canal[c][i] = FIN_QUANTUM

InvPalabras == TipoCanal /\ ConPids /\ SinPids
InvI == InvMotivos /\ InvPalabras

LEMMA FinEsNat == FIN_QUANTUM \in Nat /\ FIN_QUANTUM \notin Pids
  BY InterrupcionesOK, ConstantesOK DEF FIN_QUANTUM, Pids

(* What is on the way, word by word.                                        *)
LEMMA EnviadasSon ==
  ASSUME TipoCanal, NEW c \in Cpus
  PROVE  /\ Enviadas(c) \in Seq(Nat)
         /\ ~ media[c] => Enviadas(c) = canal[c]
         /\ media[c] => /\ Enviadas(c) = <<FIN_QUANTUM>> \o canal[c]
                        /\ Len(Enviadas(c)) = Len(canal[c]) + 1
                        /\ Enviadas(c)[1] = FIN_QUANTUM
                        /\ \A i \in DOMAIN canal[c] : Enviadas(c)[i + 1] = canal[c][i]
<1>1. canal[c] \in Seq(Nat) /\ media[c] \in BOOLEAN
  BY DEF TipoCanal
<1>2. CASE media[c]
  BY <1>1, <1>2, FinEsNat DEF Enviadas
<1>3. CASE ~ media[c]
  BY <1>1, <1>3 DEF Enviadas
<1> QED
  BY <1>1, <1>2, <1>3

LEMMA Juntar ==
  ASSUME NEW s \in Seq(Nat), NEW t \in Seq(Nat)
  PROVE  (<<FIN_QUANTUM>> \o s) \o t = <<FIN_QUANTUM>> \o (s \o t)
  BY DEF FIN_QUANTUM

(* Two words more at the end of a channel.                                  *)
LEMMA EnviadasMas ==
  ASSUME TipoCanal, NEW c \in Cpus, NEW ws \in Seq(Nat),
         canal'[c] = canal[c] \o ws, media'[c] = media[c]
  PROVE  Enviadas(c)' = Enviadas(c) \o ws
<1>1. canal[c] \in Seq(Nat)
  BY DEF TipoCanal
<1>2. CASE media[c]
  <2>1. (<<FIN_QUANTUM>> \o canal[c]) \o ws = <<FIN_QUANTUM>> \o (canal[c] \o ws)
    BY <1>1, Juntar
  <2> QED
    BY <1>2, <2>1 DEF Enviadas
<1>3. CASE ~ media[c]
  BY <1>1, <1>3 DEF Enviadas
<1> QED
  BY <1>2, <1>3

(* Who is asked to leave is executing, and is not of the best level.        *)
Pedido(c, d) ==
  /\ algoritmo_actual = "CMN" /\ socket_interrupt[c] = d /\ d # NADIE
  /\ ejecutando[c] \in Pids /\ prioridad[ejecutando[c]] > 0
  /\ canal'[d] = canal[d] \o <<FIN_QUANTUM, ejecutando[c]>>

LEMMA EscribePedidos ==
  ASSUME TipoBase, TipoCanal, Escribe
  PROVE  /\ canal' \in [Cpus -> Seq(Nat)]
         /\ \A d \in Cpus : canal'[d] = canal[d] \/ \E c \in Cpus : Pedido(c, d)
<1>1. PICK p \in Pids : DesalojarPorPrioridad(p)
  BY DEF Escribe
<1>2. CASE UNCHANGED canal
  BY <1>2 DEF TipoCanal
<1>3. CASE ~ UNCHANGED canal
  <2>1. algoritmo_actual = "CMN"
    BY <1>1, <1>3 DEF DesalojarPorPrioridad
  <2>2. PICK c \in Desalojables(p) : Escribir(c, <<FIN_QUANTUM, ejecutando[c]>>)
    BY <1>1, <1>3 DEF DesalojarPorPrioridad
  <2>3. c \in Cpus /\ ejecutando[c] \in Pids /\ prioridad[ejecutando[c]] > prioridad[p]
    BY <2>2 DEF Desalojables, TipoBase, TipoBaseEn, TipoCpusKs
  <2>4. prioridad[ejecutando[c]] > 0
    <3>1. prioridad[ejecutando[c]] \in Nat /\ prioridad[p] \in Nat
      BY <2>3, ConstantesOK DEF TipoBase, TipoBaseEn, TipoProcesos, Prioridades
    <3> QED
      BY <2>3, <3>1
  <2> DEFINE s == socket_interrupt[c]
             ws == <<FIN_QUANTUM, ejecutando[c]>>
  <2>5. ws \in Seq(Nat)
    BY <2>3, ConstantesOK DEF FIN_QUANTUM, Pids
  <2>6. s \in Cpus /\ s # NADIE /\ canal' = [canal EXCEPT ![s] = canal[s] \o ws]
    BY <1>3, <2>2, <2>3 DEF Escribir, TipoCanal
  <2>7. canal[s] \o ws \in Seq(Nat)
    BY <2>5, <2>6 DEF TipoCanal
  <2> HIDE DEF ws
  <2>8. canal' \in [Cpus -> Seq(Nat)]
    BY <2>6, <2>7 DEF TipoCanal
  <2>9. ASSUME NEW d \in Cpus
        PROVE  canal'[d] = canal[d] \/ (d = s /\ canal'[d] = canal[d] \o ws)
    BY <2>6 DEF TipoCanal
  <2> QED
    BY <2>1, <2>3, <2>4, <2>6, <2>8, <2>9 DEF Pedido, ws
<1> QED
  BY <1>2, <1>3

LEMMA PedidoEntero ==
  ASSUME InvPalabras, NEW c \in Cpus, NEW d \in Cpus, Pedido(c, d), UNCHANGED media
  PROVE  /\ Enteras(Enviadas(d)')
         /\ Enviadas(d)' # <<>>
         /\ Enviadas(d)'[Len(Enviadas(d)')] = ejecutando[c]
<1>1. Enviadas(d) \in Seq(Nat) /\ Enteras(Enviadas(d))
  BY EnviadasSon DEF InvPalabras, ConPids, Pedido
<1>2. <<FIN_QUANTUM, ejecutando[c]>> \in Seq(Nat)
  BY ConstantesOK DEF FIN_QUANTUM, Pids, Pedido
<1>3. Enviadas(d)' = Enviadas(d) \o <<FIN_QUANTUM, ejecutando[c]>>
  BY <1>2, EnviadasMas DEF InvPalabras, Pedido
<1> QED
  BY <1>1, <1>3, Agregar DEF Pedido

(* A quantum thread writes only with RR.                                    *)
LEMMA QuantumSolo ==
  ASSUME InvPalabras, NEW c \in Cpus, HiloQuantum(c)
  PROVE  /\ algoritmo_actual = "RR"
         /\ canal' \in [Cpus -> Seq(Nat)] /\ relojes_q' \in [Cpus -> Nat]
         /\ \A d \in Cpus : \A i \in DOMAIN canal'[d] : canal'[d][i] = FIN_QUANTUM
<1>1. relojes_q[c] # 0 /\ relojes_q' \in [Cpus -> Nat]
  BY DEF HiloQuantum, InvPalabras, TipoCanal
<1>2. algoritmo_actual = "RR"
  BY <1>1 DEF InvPalabras, ConPids, TipoCanal
<1>3. \A d \in Cpus : \A i \in DOMAIN canal[d] : canal[d][i] = FIN_QUANTUM
  BY <1>2 DEF InvPalabras, SinPids
<1>4. CASE UNCHANGED canal
  BY <1>1, <1>2, <1>3, <1>4 DEF InvPalabras, TipoCanal
<1>5. CASE ~ UNCHANGED canal
  <2> DEFINE s == socket_interrupt[c]
  <2>1. Escribir(c, <<FIN_QUANTUM>>)
    BY <1>5 DEF HiloQuantum
  <2>2. s \in Cpus /\ canal' = [canal EXCEPT ![s] = canal[s] \o <<FIN_QUANTUM>>]
    BY <1>5, <2>1 DEF Escribir, InvPalabras, TipoCanal
  <2> HIDE DEF s
  <2>3. canal[s] \in Seq(Nat)
    BY <2>2 DEF InvPalabras, TipoCanal
  <2>4. canal[s] \o <<FIN_QUANTUM>> \in Seq(Nat)
    BY <2>3, FinEsNat
  <2>5. \A i \in DOMAIN (canal[s] \o <<FIN_QUANTUM>>) :
          (canal[s] \o <<FIN_QUANTUM>>)[i] = FIN_QUANTUM
    BY <1>3, <2>2, <2>3 DEF FIN_QUANTUM
  <2>6. \A d \in Cpus : canal'[d] = IF d = s THEN canal[s] \o <<FIN_QUANTUM>> ELSE canal[d]
    BY <2>2 DEF InvPalabras, TipoCanal
  <2>7. canal' \in [Cpus -> Seq(Nat)]
    BY <2>2, <2>4 DEF InvPalabras, TipoCanal
  <2> QED
    BY <1>1, <1>2, <1>3, <2>5, <2>6, <2>7
<1> QED
  BY <1>4, <1>5

(* The first word of a pair is held back by the reader: nothing is lost.    *)
LEMMA RetomaTipo ==
  ASSUME NEW s \in Seq(Nat), s # <<>>, s[1] = FIN_QUANTUM
  PROVE  <<FIN_QUANTUM>> \o Tail(s) = s
  BY DEF FIN_QUANTUM

LEMMA TipoLeido ==
  ASSUME InvPalabras, algoritmo_actual = "CMN", NEW c \in Cpus, LeerTipo(c)
  PROVE  \A d \in Cpus : Enviadas(d)' = Enviadas(d)
<1>1. /\ ~ media[c] /\ canal[c] # <<>> /\ media'[c] = TRUE /\ canal'[c] = Tail(canal[c])
      /\ \A d \in Cpus : d # c => canal'[d] = canal[d] /\ media'[d] = media[d]
  BY DEF LeerTipo, InvPalabras, TipoCanal
<1>2. Enviadas(c) = canal[c] /\ canal[c] \in Seq(Nat) /\ Enteras(canal[c])
  BY <1>1, EnviadasSon DEF InvPalabras, ConPids, TipoCanal
<1>3. canal[c][1] = FIN_QUANTUM
  BY <1>1, <1>2, DosPalabras
<1>4. Enviadas(c)' = <<FIN_QUANTUM>> \o Tail(canal[c])
  BY <1>1 DEF Enviadas
<1>5. Enviadas(c)' = Enviadas(c)
  BY <1>1, <1>2, <1>3, <1>4, RetomaTipo
<1> QED
  BY <1>1, <1>5 DEF Enviadas

(* The second one is the pid of the interruption that now is pending.       *)
LEMMA PidLeido ==
  ASSUME InvPalabras, algoritmo_actual = "CMN", NEW c \in Cpus, LeerPid(c)
  PROVE  /\ Enviadas(c) # <<>>
         /\ interrupcion' = [interrupcion EXCEPT ![c] = Enviadas(c)[2]]
         /\ Enviadas(c)' \in Seq(Nat) /\ Len(Enviadas(c)') = Len(Enviadas(c)) - 2
         /\ \A i \in DOMAIN Enviadas(c)' : Enviadas(c)'[i] = Enviadas(c)[i + 2]
         /\ \A d \in Cpus : d # c => Enviadas(d)' = Enviadas(d)
<1> DEFINE s == canal[c]
<1>1. /\ media[c] /\ s # <<>> /\ media'[c] = FALSE /\ canal'[c] = Tail(s)
      /\ \A d \in Cpus : d # c => canal'[d] = canal[d] /\ media'[d] = media[d]
      /\ interrupcion' = [interrupcion EXCEPT ![c] = Head(s)]
  BY DEF LeerPid, InvPalabras, TipoCanal
<1>2. s \in Seq(Nat)
  BY DEF InvPalabras, TipoCanal
<1>3. Enviadas(c)' = Tail(s)
  <2>1. Enviadas(c)' = <<>> \o Tail(s)
    BY <1>1 DEF Enviadas
  <2>2. Tail(s) \in Seq(Nat)
    BY <1>1, <1>2
  <2> QED
    BY <2>1, <2>2, ConcatEmptySeq
<1>4. /\ Len(Enviadas(c)) = Len(s) + 1
      /\ \A i \in DOMAIN s : Enviadas(c)[i + 1] = s[i]
  BY <1>1, EnviadasSon DEF InvPalabras
<1>5. Enviadas(c) # <<>>
  BY <1>1, FinEsNat, <1>2 DEF Enviadas
<1>6. \A d \in Cpus : d # c => Enviadas(d)' = Enviadas(d)
  BY <1>1 DEF Enviadas
<1> HIDE DEF s
<1>7. 1 \in DOMAIN s /\ Head(s) = s[1] /\ Tail(s) \in Seq(Nat) /\ Len(Tail(s)) = Len(s) - 1
  BY <1>1, <1>2
<1>8. Head(s) = Enviadas(c)[2]
  BY <1>4, <1>7
<1>9. ASSUME NEW i \in DOMAIN Tail(s)
      PROVE  Tail(s)[i] = Enviadas(c)[i + 2]
  <2>1. i + 1 \in DOMAIN s /\ Tail(s)[i] = s[i + 1] /\ i \in Nat
    BY <1>1, <1>2
  <2>2. (i + 1) + 1 = i + 2
    BY <2>1
  <2> QED
    BY <1>4, <2>1, <2>2
<1>10. Len(Tail(s)) = Len(Enviadas(c)) - 2
  BY <1>2, <1>4, <1>7
<1> QED
  BY <1>1, <1>3, <1>5, <1>6, <1>7, <1>8, <1>9, <1>10

(* The words keep their types, and with RR they are all FIN_QUANTUM.        *)
LEMMA LeerTipos ==
  ASSUME TipoBase, InvPalabras, NEW c \in Cpus, LeerTipo(c) \/ LeerPid(c)
  PROVE  /\ canal' \in [Cpus -> Seq(Nat)] /\ media' \in [Cpus -> BOOLEAN]
         /\ \A d \in Cpus : \A i \in DOMAIN canal'[d] :
              \E j \in DOMAIN canal[d] : canal'[d][i] = canal[d][j]
         /\ \A d \in Cpus : \/ interrupcion'[d] = interrupcion[d]
                            \/ \E j \in DOMAIN canal[d] : interrupcion'[d] = canal[d][j]
<1> DEFINE s == canal[c]
<1>1. s \in Seq(Nat) /\ s # <<>> /\ canal' = [canal EXCEPT ![c] = Tail(s)]
  BY DEF InvPalabras, TipoCanal, LeerTipo, LeerPid
<1>2. media' \in [Cpus -> BOOLEAN] /\ (UNCHANGED interrupcion \/ LeerPid(c))
  BY DEF InvPalabras, TipoCanal, LeerTipo, LeerPid, vars, cpu
<1> HIDE DEF s
<1>3. Tail(s) \in Seq(Nat) /\ 1 \in DOMAIN s /\ Head(s) = s[1]
  BY <1>1
<1>4. ASSUME NEW i \in DOMAIN Tail(s)
      PROVE  i + 1 \in DOMAIN s /\ Tail(s)[i] = s[i + 1]
  BY <1>1
<1>5. \A d \in Cpus : canal'[d] = IF d = c THEN Tail(s) ELSE canal[d]
  BY <1>1 DEF InvPalabras, TipoCanal
<1>6. \A d \in Cpus : \A i \in DOMAIN canal'[d] :
        \E j \in DOMAIN canal[d] : canal'[d][i] = canal[d][j]
  BY <1>4, <1>5 DEF s
<1>7. canal' \in [Cpus -> Seq(Nat)]
  BY <1>1, <1>3 DEF InvPalabras, TipoCanal
<1>8. ASSUME NEW d \in Cpus, interrupcion'[d] # interrupcion[d]
      PROVE  d = c /\ interrupcion'[d] = Head(s)
  BY <1>2, <1>8 DEF LeerPid, TipoBase, TipoBaseEn, TipoCpu, TipoCpuEn, s
<1> QED
  BY <1>2, <1>3, <1>6, <1>7, <1>8 DEF s

-----------------------------------------------------------------------------
(* The sockets, and the invariant.                                          *)

LEMMA PuertosYRelojes ==
  ASSUME [NextI]_varsI
  PROVE  /\ UNCHANGED puertos \/ Puerto8003
         /\ \/ UNCHANGED relojes_q
            \/ CortoDespacharI
            \/ \E c \in Cpus : HiloQuantum(c)
<1>1. ASSUME LargoPlazoI \/ CortoPlazoI \/ AtenderIoI \/ (IoServir /\ UNCHANGED Propias) \/ KmI
      PROVE  UNCHANGED puertos /\ (UNCHANGED relojes_q \/ CortoDespacharI)
  BY <1>1, SinPalabras
  DEF LargoPlazoI, LargoAvisarI, CortoPlazoI, CortoDespacharI, AtenderIoI, IoAvisarI, KmI
<1>2. CASE Puerto8003
  BY <1>2 DEF Puerto8003, AceptarInterrupt, CpuConectar, Handshake, quantum
<1>3. ASSUME NEW c \in Cpus,
             LeerTipo(c) \/ LeerPid(c) \/ AtenderI(c) \/ CpuRevisar(c) \/ CpuSeguir(c)
      PROVE  UNCHANGED puertos /\ UNCHANGED relojes_q
  BY <1>3, SinPalabras
  DEF LeerTipo, LeerPid, AtenderI, LiberarCpuI, CpuRevisar, CpuSeguir, quantum
<1>4. ASSUME NEW c \in Cpus, HiloQuantum(c)
      PROVE  UNCHANGED puertos
  BY <1>4 DEF HiloQuantum
<1>5. CASE UNCHANGED varsI
  BY <1>5, SinPalabras DEF varsI
<1> QED
  BY <1>1, <1>2, <1>3, <1>4, <1>5 DEF NextI

LEMMA PuertoTipo ==
  ASSUME TipoCanal, UNCHANGED puertos \/ Puerto8003
  PROVE  /\ sin_aceptar' \in Seq(Cpus)
         /\ socket_cpu_interrupt' \in Cpus \cup {NADIE}
         /\ socket_interrupt' \in [Cpus -> Cpus \cup {NADIE}]
<1>1. CASE UNCHANGED puertos
  BY <1>1 DEF puertos, TipoCanal
<1>2. CASE AceptarInterrupt
  <2>1. Head(sin_aceptar) \in Cpus /\ Tail(sin_aceptar) \in Seq(Cpus)
    BY <1>2 DEF AceptarInterrupt, TipoCanal
  <2> QED
    BY <1>2, <2>1 DEF AceptarInterrupt, TipoCanal
<1>3. CASE \E c \in Cpus : CpuConectar(c)
  BY <1>3 DEF CpuConectar, TipoCanal
<1>4. CASE \E c \in Cpus : Handshake(c)
  BY <1>4 DEF Handshake, TipoCanal
<1> QED
  BY <1>1, <1>2, <1>3, <1>4 DEF Puerto8003

LEMMA RelojTipo ==
  ASSUME InvPalabras, [NextI]_varsI
  PROVE  relojes_q' \in [Cpus -> Nat]
<1>1. CASE UNCHANGED relojes_q
  BY <1>1 DEF InvPalabras, TipoCanal
<1>2. CASE CortoDespacharI
  <2>1. CASE algoritmo_actual = "RR"
    <3> DEFINE D == {c \in Cpus : ejecutando'[c] # ejecutando[c]}
    <3>1. relojes_q' = [c \in Cpus |-> relojes_q[c] + Si(c \in D)]
      BY <1>2, <2>1 DEF CortoDespacharI
    <3>2. ASSUME NEW c \in Cpus
          PROVE  relojes_q[c] + Si(c \in D) \in Nat
      <4>1. relojes_q[c] \in Nat
        BY DEF InvPalabras, TipoCanal
      <4>2. Si(c \in D) \in {0, 1}
        BY SiTipo
      <4> QED
        BY <4>1, <4>2
    <3> QED
      BY <3>1, <3>2
  <2> QED
    BY <1>2, <2>1 DEF CortoDespacharI, quantum, InvPalabras, TipoCanal
<1>3. CASE \E c \in Cpus : HiloQuantum(c)
  BY <1>3, QuantumSolo
<1> QED
  BY <1>1, <1>2, <1>3, PuertosYRelojes

LEMMA CanalTipo ==
  ASSUME TipoBase, InvPalabras, [NextI]_varsI
  PROVE  canal' \in [Cpus -> Seq(Nat)] /\ media' \in [Cpus -> BOOLEAN]
<1>1. CASE Calla
  BY <1>1 DEF Calla, palabras, InvPalabras, TipoCanal
<1>2. CASE Escribe
  BY <1>2, EscribePedidos DEF Escribe, InvPalabras, TipoCanal
<1>3. CASE \E c \in Cpus : HiloQuantum(c)
  BY <1>3, QuantumSolo DEF HiloQuantum, InvPalabras, TipoCanal
<1>4. CASE \E c \in Cpus : LeerTipo(c) \/ LeerPid(c)
  BY <1>4, LeerTipos
<1>5. CASE \E c \in Cpus : Toma(c)
  BY <1>5, SinPalabras DEF Toma, palabras, InvPalabras, TipoCanal
<1> QED
  BY <1>1, <1>2, <1>3, <1>4, <1>5, PasosDePalabras

LEMMA TipoCanalPaso ==
  ASSUME TipoBase, InvPalabras, [NextI]_varsI
  PROVE  TipoCanal'
  BY PuertosYRelojes, PuertoTipo, RelojTipo, CanalTipo, PasosDePalabras
  DEF TipoCanal, InvPalabras

(* Nothing but FIN_QUANTUM arrives with RR.                                 *)
LEMMA SinPidsPaso ==
  ASSUME TipoBase, InvPalabras, [NextI]_varsI
  PROVE  SinPids'
<1> SUFFICES ASSUME algoritmo_actual = "RR", NEW d \in Cpus
             PROVE  /\ interrupcion'[d] \in {NADIE, FIN_QUANTUM}
                    /\ \A i \in DOMAIN canal'[d] : canal'[d][i] = FIN_QUANTUM
  BY PasosDePalabras DEF SinPids
<1>0. /\ interrupcion[d] \in {NADIE, FIN_QUANTUM}
      /\ \A i \in DOMAIN canal[d] : canal[d][i] = FIN_QUANTUM
  BY DEF InvPalabras, SinPids
<1>1. CASE Calla
  BY <1>0, <1>1 DEF Calla, palabras
<1>2. CASE Escribe
  BY <1>0, <1>2, EscribePedidos DEF Escribe, Pedido, InvPalabras
<1>3. CASE \E c \in Cpus : HiloQuantum(c)
  BY <1>0, <1>3, QuantumSolo DEF HiloQuantum, vars, cpu
<1>4. CASE \E c \in Cpus : LeerTipo(c) \/ LeerPid(c)
  BY <1>0, <1>4, LeerTipos
<1>5. CASE \E c \in Cpus : Toma(c)
  BY <1>0, <1>5, SinPalabras DEF Toma, CpuInterrumpir, palabras, TipoBase, TipoBaseEn,
       TipoCpu, TipoCpuEn
<1> QED
  BY <1>1, <1>2, <1>3, <1>4, <1>5, PasosDePalabras

(* With CMN the words on the way are always whole interruptions.            *)
LEMMA ConPidsPaso ==
  ASSUME TipoBase, InvPalabras, [NextI]_varsI
  PROVE  ConPids'
<1> SUFFICES ASSUME algoritmo_actual = "CMN", NEW d \in Cpus
             PROVE  /\ relojes_q'[d] = 0 /\ interrupcion'[d] \in Pids \cup {NADIE}
                    /\ Enteras(Enviadas(d)')
  BY PasosDePalabras DEF ConPids
<1>0. relojes_q[d] = 0 /\ interrupcion[d] \in Pids \cup {NADIE} /\ Enteras(Enviadas(d))
  BY DEF InvPalabras, ConPids
<1>1. CASE Calla
  BY <1>0, <1>1 DEF Calla, palabras, Enviadas
<1>2. CASE Escribe
  <2>1. relojes_q'[d] = 0 /\ interrupcion'[d] = interrupcion[d] /\ UNCHANGED media
    BY <1>0, <1>2 DEF Escribe
  <2>2. CASE canal'[d] = canal[d]
    BY <1>0, <2>1, <2>2 DEF Enviadas
  <2>3. CASE \E c \in Cpus : Pedido(c, d)
    BY <1>0, <2>1, <2>3, PedidoEntero
  <2> QED
    BY <1>2, <2>2, <2>3, EscribePedidos, <1>0, <2>1 DEF InvPalabras
<1>3. ~ \E c \in Cpus : HiloQuantum(c)
  BY QuantumSolo
<1>4. ASSUME NEW c \in Cpus, LeerTipo(c)
      PROVE  /\ relojes_q'[d] = 0 /\ interrupcion'[d] \in Pids \cup {NADIE}
             /\ Enteras(Enviadas(d)')
  BY <1>0, <1>4, TipoLeido DEF LeerTipo, quantum, vars, cpu
<1>5. ASSUME NEW c \in Cpus, LeerPid(c)
      PROVE  /\ relojes_q'[d] = 0 /\ interrupcion'[d] \in Pids \cup {NADIE}
             /\ Enteras(Enviadas(d)')
  <2>1. relojes_q'[d] = 0
    BY <1>0, <1>5 DEF LeerPid, quantum
  <2>2. CASE d = c
    <3>1. Enviadas(c) \in Seq(Nat)
      BY EnviadasSon DEF InvPalabras
    <3>2. Enviadas(c)[2] \in Pids
      BY <1>0, <1>5, <2>2, <3>1, PidLeido, DosPalabras
    <3>3. interrupcion'[d] \in Pids
      BY <1>5, <2>2, <3>2, PidLeido DEF TipoBase, TipoBaseEn, TipoCpu, TipoCpuEn
    <3>4. Enteras(Enviadas(d)')
      BY <1>0, <1>5, <2>2, <3>1, PidLeido, DosPalabras
    <3> QED
      BY <2>1, <3>3, <3>4
  <2>3. CASE d # c
    BY <1>0, <1>5, <2>1, <2>3, PidLeido DEF TipoBase, TipoBaseEn, TipoCpu, TipoCpuEn
  <2> QED
    BY <2>2, <2>3
<1>6. ASSUME NEW c \in Cpus, Toma(c)
      PROVE  /\ relojes_q'[d] = 0 /\ interrupcion'[d] \in Pids \cup {NADIE}
             /\ Enteras(Enviadas(d)')
  BY <1>0, <1>6, SinPalabras DEF Toma, CpuInterrumpir, palabras, TipoBase, TipoBaseEn,
       TipoCpu, TipoCpuEn, Enviadas
<1> QED
  BY <1>1, <1>2, <1>3, <1>4, <1>5, <1>6, PasosDePalabras

(* A word read changes nothing of what Planificador's invariants are about, *)
(* but the type of the interruption.                                        *)
LEMMA LeerPidMotivos ==
  ASSUME InvMotivos, TipoCanal, NEW c \in Cpus, LeerPid(c)
  PROVE  InvMotivos'
<1>1. TipoCpu'
  <2>1. Head(canal[c]) \in Nat
    BY DEF TipoCanal, LeerPid
  <2> QED
    BY <2>1 DEF LeerPid, InvMotivos, InvCpu, TipoBase, TipoBaseEn, TipoCpu, TipoCpuEn
<1>2. TipoBase'
  BY <1>1, SinCambios DEF LeerPid, InvMotivos, InvCpu, TipoHilos, TipoBase, TipoBaseEn, TipoCpu
<1>3. UNCHANGED <<ejecutando, lista_cpus, pc, pcb_h, sem_cpus_libres, pc_corto, despachos,
                  corre, motivos>>
  BY DEF LeerPid, cpus_ks, hilos, semaforos, corto
<1>4. PermisosCpu' /\ CpuDelHilo'
  BY <1>3 DEF InvMotivos, InvCpu, PermisosCpu, CpuDelHilo, CpuDelHiloEn, PorPublicar, CpusLibres
<1>5. LadoCpu'
  BY <1>3 DEF InvMotivos, LadoCpu, LadoCpuEn, Libre, ConSuProceso, ConSuProcesoEn
<1> QED
  BY <1>2, <1>4, <1>5 DEF InvMotivos, InvCpu

LEMMA InitInterrupciones == InitI => InvI
<1> SUFFICES ASSUME InitI PROVE InvI
  OBVIOUS
<1>1. InvMotivos
  <2>1. Init /\ TipoBase
    BY InitTipo DEF InitI
  <2>2. PermisosCpu /\ CpuDelHilo
    BY <2>1, InvCpuSuyo, InitPermisosEn DEF CpuDelHilo
  <2>3. LadoCpu
    BY <2>1 DEF Init, LadoCpu, LadoCpuEn, Libre
  <2> QED
    BY <2>1, <2>2, <2>3 DEF InvMotivos, InvCpu
<1>2. \A c \in Cpus : Enviadas(c) = <<>> /\ canal[c] = <<>>
  BY DEF InitI, Enviadas
<1>3. TipoCanal
  BY InterrupcionesOK DEF InitI, TipoCanal
<1>4. ConPids
  BY <1>2 DEF InitI, Init, ConPids, Enteras
<1>5. SinPids
  BY <1>2 DEF InitI, Init, SinPids
<1> QED
  BY <1>1, <1>3, <1>4, <1>5 DEF InvI, InvPalabras

LEMMA PasoInterrupciones == InvI /\ [NextI]_varsI => InvI'
<1> SUFFICES ASSUME InvI, [NextI]_varsI PROVE InvI'
  OBVIOUS
<1>1. InvMotivos'
  <2>1. [Next]_vars => InvMotivos'
    BY PasoMotivos DEF InvI
  <2> QED
    BY <2>1, PasoDeBase, LeerPidMotivos DEF InvI, InvPalabras, varsI
<1>2. TipoBase
  BY DEF InvI, InvMotivos, InvCpu
<1> QED
  BY <1>1, <1>2, TipoCanalPaso, ConPidsPaso, SinPidsPaso DEF InvI, InvPalabras

(* CanalInvariante: the words on each CPU's way, with a half-read pair put  *)
(* back, are whole interruptions with CMN and lone words with RR, whatever  *)
(* the handlers, planners and quantum threads that write them do meanwhile. *)
THEOREM CanalInvariante == SpecI => []InvI
  BY InitInterrupciones, PasoInterrupciones, PTL DEF SpecI

(* CanalEntero: with CMN the two threads of the interrupt channel never get *)
(* out of step, for any number of CPUs and whatever is preempted, read or   *)
(* ended in the middle of a pair; with RR only lone words arrive.           *)
THEOREM CanalEntero == SpecI => []TipoInterrupciones
<1>1. InvI => TipoInterrupciones
  <2> SUFFICES ASSUME InvI PROVE TipoInterrupciones
    OBVIOUS
  <2>1. TipoBase
    BY DEF InvI, InvMotivos, InvCpu
  <2>2. algoritmo_actual = "CMN" => TipoInterrupcion
    BY <2>1 DEF InvI, InvPalabras, ConPids, TipoInterrupcion, TipoBase, TipoBaseEn,
         TipoCpu, TipoCpuEn
  <2> QED
    BY <2>1, <2>2 DEF InvI, InvPalabras, ConPids, SinPids, Enteras, TipoInterrupciones
<1> QED
  BY <1>1, CanalInvariante, PTL

-----------------------------------------------------------------------------
(* The last interruption sent.                                              *)

(* Each CPU's words go to that CPU, or nowhere.                             *)
SocketSuyo == \A c \in Cpus : socket_interrupt[c] \in {NADIE, c}

LEMMA SocketPaso ==
  ASSUME AceptaAntes, TipoCanal, SocketSuyo, [NextI]_varsI
  PROVE  SocketSuyo'
<1>1. CASE UNCHANGED puertos
  BY <1>1 DEF puertos, SocketSuyo
<1>2. CASE AceptarInterrupt \/ \E c \in Cpus : CpuConectar(c)
  BY <1>2 DEF AceptarInterrupt, CpuConectar, SocketSuyo
<1>3. ASSUME NEW c \in Cpus, Handshake(c)
      PROVE  SocketSuyo'
  BY <1>3 DEF Handshake, SocketSuyo, TipoCanal
<1> QED
  BY <1>1, <1>2, <1>3, PuertosYRelojes DEF Puerto8003

(* The process on the side of a CPU is the one it is marked with.           *)
LEMMA EnCpuSuyo ==
  ASSUME InvMotivos, NEW c \in Cpus, NEW p \in Pids, p \in EnCpu(c)
  PROVE  ConSuProceso(c) /\ ejecutando[c] = p
<1>1. ~ Libre(c)
  BY ConstantesOK DEF EnCpu, Libre
<1>2. ConSuProceso(c)
  BY <1>1 DEF InvMotivos, LadoCpu, LadoCpuEn, ConSuProceso
<1> QED
  BY <1>2, ConstantesOK DEF EnCpu, ConSuProceso, ConSuProcesoEn

LEMMA UltimaSinPid ==
  ASSUME InvPalabras, algoritmo_actual = "RR", NEW c \in Cpus
  PROVE  Ultima(c) \notin Pids
<1>1. /\ interrupcion[c] \in {NADIE, FIN_QUANTUM} /\ canal[c] \in Seq(Nat)
      /\ \A i \in DOMAIN canal[c] : canal[c][i] = FIN_QUANTUM
  BY DEF InvPalabras, SinPids, TipoCanal
<1>2. /\ Enviadas(c) \in Seq(Nat)
      /\ \A i \in DOMAIN Enviadas(c) : Enviadas(c)[i] = FIN_QUANTUM
  <2>0. Enviadas(c) \in Seq(Nat)
    BY EnviadasSon DEF InvPalabras
  <2>1. CASE media[c]
    <3>1. ASSUME NEW i \in DOMAIN Enviadas(c), i # 1
          PROVE  Enviadas(c)[i] = FIN_QUANTUM
      <4>1. i - 1 \in DOMAIN canal[c] /\ (i - 1) + 1 = i
        BY <1>1, <2>0, <2>1, <3>1, EnviadasSon DEF InvPalabras
      <4>2. Enviadas(c)[(i - 1) + 1] = canal[c][i - 1]
        BY <2>1, <4>1, EnviadasSon DEF InvPalabras
      <4> QED
        BY <1>1, <4>1, <4>2
    <3> QED
      BY <2>0, <2>1, <3>1, EnviadasSon DEF InvPalabras
  <2>2. CASE ~ media[c]
    BY <1>1, <2>0, <2>2, EnviadasSon DEF InvPalabras
  <2> QED
    BY <2>1, <2>2
<1>3. CASE Enviadas(c) = <<>>
  BY <1>1, <1>3, FinEsNat, ConstantesOK DEF Ultima
<1>4. CASE Enviadas(c) # <<>>
  <2>1. Len(Enviadas(c)) \in DOMAIN Enviadas(c)
    BY <1>2, <1>4
  <2> QED
    BY <1>2, <1>4, <2>1, FinEsNat DEF Ultima
<1> QED
  BY <1>3, <1>4

LEMMA UltimaSigue ==
  ASSUME InvI, SocketSuyo, [NextI]_varsI, NEW c \in Cpus, NEW p \in Pids,
         p \in EnCpu(c), p \in EnCpu(c)', Ultima(c) = p
  PROVE  Ultima(c)' = p
<1>0. TipoBase /\ InvPalabras /\ InvMotivos
  BY DEF InvI, InvMotivos, InvCpu
<1>1. algoritmo_actual = "CMN"
  BY <1>0, UltimaSinPid DEF InvPalabras, TipoCanal
<1>2. Enviadas(c) \in Seq(Nat) /\ Enteras(Enviadas(c))
  BY <1>0, <1>1, EnviadasSon DEF InvPalabras, ConPids
<1>3. ConSuProceso(c) /\ ejecutando[c] = p
  BY <1>0, EnCpuSuyo
<1>4. CASE interrupcion'[c] = interrupcion[c] /\ Enviadas(c)' = Enviadas(c)
  BY <1>4 DEF Ultima
<1>5. CASE Calla
  BY <1>4, <1>5 DEF Calla, palabras, Enviadas
<1>6. CASE Escribe
  <2>1. UNCHANGED interrupcion /\ UNCHANGED media
    BY <1>6 DEF Escribe
  <2>2. CASE canal'[c] = canal[c]
    BY <1>4, <2>1, <2>2 DEF Enviadas
  <2>3. ASSUME NEW e \in Cpus, Pedido(e, c)
        PROVE  Ultima(c)' = p
    <3>1. e = c
      BY <2>3 DEF Pedido, SocketSuyo
    <3> QED
      BY <1>0, <1>3, <2>1, <2>3, <3>1, PedidoEntero DEF Ultima
  <2> QED
    BY <1>0, <1>6, <2>2, <2>3, EscribePedidos DEF InvPalabras
<1>7. ~ \E e \in Cpus : HiloQuantum(e)
  BY <1>0, <1>1, QuantumSolo
<1>8. ASSUME NEW e \in Cpus, LeerTipo(e)
      PROVE  Ultima(c)' = p
  BY <1>0, <1>1, <1>4, <1>8, TipoLeido DEF LeerTipo, vars, cpu
<1>9. ASSUME NEW e \in Cpus, LeerPid(e)
      PROVE  Ultima(c)' = p
  <2>1. CASE e # c
    BY <1>0, <1>1, <1>4, <1>9, <2>1, PidLeido DEF TipoBase, TipoBaseEn, TipoCpu, TipoCpuEn
  <2>2. CASE e = c
    <3> DEFINE s == Enviadas(c)
               t == Enviadas(c)'
    <3>1. /\ s # <<>> /\ t \in Seq(Nat) /\ Len(t) = Len(s) - 2
          /\ \A i \in DOMAIN t : t[i] = s[i + 2]
          /\ interrupcion'[c] = s[2]
      BY <1>0, <1>1, <1>9, <2>2, PidLeido DEF TipoBase, TipoBaseEn, TipoCpu, TipoCpuEn
    <3>2. s \in Seq(Nat) /\ s[Len(s)] = p
      BY <1>2, <3>1 DEF Ultima
    <3>3. Ultima(c)' = IF t = <<>> THEN interrupcion'[c] ELSE t[Len(t)]
      BY DEF Ultima
    <3> HIDE DEF s, t
    <3>4. CASE t = <<>>
      <4>1. Len(t) = 0 /\ Len(s) \in Nat
        BY <3>2, <3>4
      <4>2. Len(s) = 2
        BY <3>1, <4>1
      <4> QED
        BY <3>1, <3>2, <3>3, <3>4, <4>2
    <3>5. CASE t # <<>>
      <4>1. Len(t) \in DOMAIN t /\ Len(t) + 2 = Len(s)
        BY <3>1, <3>2, <3>5
      <4> QED
        BY <3>1, <3>2, <3>3, <3>5, <4>1
    <3> QED
      BY <3>4, <3>5
  <2> QED
    BY <2>1, <2>2
<1>10. ASSUME NEW e \in Cpus, Toma(e)
       PROVE  Ultima(c)' = p
  <2>1. CASE e = c
    <3>1. /\ corre[c] # NADIE /\ corre'[c] = NADIE /\ despachos' = despachos
      BY <1>0, <1>10, <2>1 DEF Toma, CpuInterrumpir, CpuDevolver, TipoBase, TipoBaseEn,
           TipoCpu, TipoCpuEn
    <3>2. despachos[c] = <<>>
      BY <1>3, <3>1 DEF ConSuProceso, ConSuProcesoEn
    <3> QED
      BY <3>1, <3>2, ConstantesOK DEF EnCpu
  <2>2. CASE e # c
    BY <1>0, <1>4, <1>10, <2>2, SinPalabras
    DEF Toma, CpuInterrumpir, palabras, TipoBase, TipoBaseEn, TipoCpu, TipoCpuEn, Enviadas
  <2> QED
    BY <2>1, <2>2
<1> QED
  BY <1>0, <1>5, <1>6, <1>7, <1>8, <1>9, <1>10, PasosDePalabras

(* UltimaNoSePierde: when each CPU's socket is the one it reads, the last   *)
(* interruption sent to a CPU reaches it as long as the process it names is *)
(* there: no word of the channel and no overwriting of pid_interrupcion     *)
(* makes it forget.                                                         *)
THEOREM UltimaNoSePierde ==
  ASSUME AceptaAntes
  PROVE  SpecI => NoSePierde
<1>1. InitI => SocketSuyo
  BY DEF InitI, SocketSuyo
<1>2. InvI /\ SocketSuyo /\ [NextI]_varsI => SocketSuyo'
  BY SocketPaso DEF InvI, InvPalabras
<1> DEFINE Sigue == \A c \in Cpus, p \in Pids :
                      p \in EnCpu(c) /\ p \in EnCpu(c)' /\ Ultima(c) = p => Ultima(c)' = p
<1>3. InvI /\ SocketSuyo /\ [NextI]_varsI => Sigue
  BY UltimaSigue
<1>4. InvI /\ SocketSuyo /\ [NextI]_varsI => [Sigue]_varsI
  BY <1>3
<1> QED
  BY <1>1, <1>2, <1>4, CanalInvariante, PTL DEF SpecI, NoSePierde

-----------------------------------------------------------------------------
(* Whom an interruption names, however old it is.                           *)

(* A process of a level that is not the best, which it keeps for ever.      *)
Relegado(p) == prioridad[p] > 0 /\ estado[p] # "NO_CREADO"
Bien(x) == x \in Pids => Relegado(x)

NombranRelegados ==
  \A c \in Cpus : Bien(interrupcion[c]) /\ \A i \in DOMAIN canal[c] : Bien(canal[c][i])
EjecutanCreados == \A c \in Cpus : ejecutando[c] \in Pids => estado[ejecutando[c]] # "NO_CREADO"

InvRelegados == LugaresBien /\ ReservaBien /\ EjecutanCreados /\ NombranRelegados

LEMMA PrioridadYCpus ==
  ASSUME [Next]_vars
  PROVE  /\ UNCHANGED prioridad \/ \E c \in Cpus : CrearProceso(c)
         /\ UNCHANGED ejecutando \/ CortoDespachar \/ \E c \in Cpus : LiberarCpu(c)
<1>1. CASE LargoPlazo
  BY <1>1 DEF LargoPlazo, LargoEsperar, LargoSacar, LargoEncolar, LargoAvisar, procesos, cpus_ks
<1>2. CASE CortoPlazo
  BY <1>2
  DEF CortoPlazo, CortoEsperarReady, CortoEsperarCpu, CortoSacar, CortoDespachar, procesos,
      cpus_ks
<1>3. CASE AtenderIo \/ ConectarIo \/ IoServir
  BY <1>3
  DEF AtenderIo, IoBuscarBlock, IoBuscarSusp, IoEncolar, IoAvisar, ConectarIo, IoServir,
      procesos, cpus_ks
<1>4. CASE KernelMemory \/ EscucharKm \/ \E p \in Pids : Temporizador(p)
  BY <1>4
  DEF KernelMemory, KmCargar, KmFinalizar, KmSuspender, EscucharKm, Temporizador,
      TimerRetirar, TimerSuspender, TimerAvisarKm, procesos, cpus_ks
<1>5. ASSUME NEW c \in Cpus, Cpu(c)
      PROVE  UNCHANGED prioridad /\ UNCHANGED ejecutando
  BY <1>5
  DEF Cpu, CpuTomar, CpuTerminar, CpuSleep, CpuInitProc, CpuInterrumpir, CpuPedir,
      CpuDevolver, procesos, cpus_ks
<1>6. ASSUME NEW c \in Cpus, AtenderCpu(c)
      PROVE  /\ UNCHANGED prioridad \/ CrearProceso(c)
             /\ UNCHANGED ejecutando \/ LiberarCpu(c)
  BY <1>6
  DEF AtenderCpu, AtenderSinExit, RecibirExit, RecibirInterrupcion, RecibirSleep,
      RecibirInitProc, Recibir, Conectar, PublicarCpu, FinalizarEnKm, EsperarFin,
      EsperarKm, TerminarProceso, Bloquear, BloqueoPost, PedirIo, PedirCarga, EsperarCarga,
      CrearProceso, RechazarProceso, ReadyPost, ReadyEncolar, ReadyAvisar, LiberarCpu,
      procesos, cpus_ks
<1> QED
  BY <1>1, <1>2, <1>3, <1>4, <1>5, <1>6 DEF Next, vars, procesos, cpus_ks

LEMMA CreadoSigue ==
  ASSUME InvLugares, UnCreador, [Next]_vars, NEW p \in Pids, estado[p] # "NO_CREADO"
  PROVE  estado'[p] # "NO_CREADO" /\ prioridad'[p] = prioridad[p]
<1>1. estado'[p] # "NO_CREADO"
  BY EfectoDelPaso DEF MismosCreados, Nacimiento
<1>2. ASSUME NEW c \in Cpus, CrearProceso(c)
      PROVE  prioridad'[p] = prioridad[p]
  <2>1. msg[c].pid = proximo_pid /\ proximo_pid \in Nat
    BY <1>2
    DEF CrearProceso, InvLugares, ReservaBien, InvMotivos, InvCpu, TipoBase, TipoBaseEn,
         TipoProcesos
  <2>2. p # proximo_pid
    BY <2>1 DEF InvLugares, ReservaBien, Pids
  <2>3. prioridad' = [prioridad EXCEPT ![proximo_pid] = msg[c].prio]
    BY <1>2, <2>1 DEF CrearProceso
  <2> QED
    BY <2>2, <2>3 DEF InvLugares, InvMotivos, InvCpu, TipoBase, TipoBaseEn, TipoProcesos
<1> QED
  BY <1>1, <1>2, PrioridadYCpus

LEMMA RelegadoSigue ==
  ASSUME InvLugares, UnCreador, [Next]_vars, NEW x, Bien(x)
  PROVE  Bien(x)'
  BY CreadoSigue DEF Bien, Relegado

LEMMA EjecutanPaso ==
  ASSUME InvLugares, UnCreador, EjecutanCreados, [Next]_vars
  PROVE  EjecutanCreados'
<1>0. ejecutando \in [Cpus -> Pids \cup {NADIE}]
  BY DEF InvLugares, InvMotivos, InvCpu, TipoBase, TipoBaseEn, TipoCpusKs
<1> SUFFICES ASSUME NEW c \in Cpus, ejecutando'[c] \in Pids
             PROVE  estado[ejecutando'[c]] # "NO_CREADO"
  BY CreadoSigue DEF EjecutanCreados
<1>1. CASE ejecutando'[c] = ejecutando[c]
  BY <1>1 DEF EjecutanCreados
<1>2. CASE CortoDespachar
  <2>1. ejecutando'[c] = ejecutando[c] \/ ejecutando'[c] = pcb_corto
    BY <1>0, <1>2 DEF CortoDespachar
  <2>2. CASE ejecutando'[c] = pcb_corto
    <3>1. En(pcb_corto, "corto", pcb_corto)
      BY <1>2 DEF CortoDespachar, En
    <3> QED
      BY <2>2, <3>1 DEF InvLugares, LugaresBien, LugaresSin, SinLugar
  <2> QED
    BY <1>1, <2>1, <2>2
<1>3. ASSUME NEW d \in Cpus, LiberarCpu(d)
      PROVE  ejecutando'[c] = ejecutando[c]
  BY <1>0, <1>3, ConstantesOK DEF LiberarCpu
<1> QED
  BY <1>1, <1>2, <1>3, PrioridadYCpus

(* The steps of the channel: every word on the way was there already, is    *)
(* FIN_QUANTUM or names a process that is executing.                        *)
LEMMA NombranPaso ==
  ASSUME InvPalabras, InvLugares, EjecutanCreados, NombranRelegados, [NextI]_varsI,
         NEW d \in Cpus
  PROVE  /\ interrupcion'[d] = NADIE \/ Bien(interrupcion'[d])
         /\ \A i \in DOMAIN canal'[d] : Bien(canal'[d][i])
<1>0. /\ TipoBase /\ TipoCanal
      /\ Bien(interrupcion[d]) /\ \A i \in DOMAIN canal[d] : Bien(canal[d][i])
  BY DEF InvPalabras, InvLugares, InvMotivos, InvCpu, NombranRelegados
<1>1. CASE Calla
  BY <1>0, <1>1 DEF Calla, palabras
<1>2. CASE Escribe
  <2>1. ASSUME NEW c \in Cpus, Pedido(c, d), NEW i \in DOMAIN canal'[d]
        PROVE  Bien(canal'[d][i])
    <3> DEFINE s == canal[d]
               q == ejecutando[c]
    <3>1. /\ s \in Seq(Nat) /\ q \in Nat /\ canal'[d] = s \o <<FIN_QUANTUM, q>>
          /\ Bien(q) /\ Bien(FIN_QUANTUM)
      BY <1>0, <2>1, FinEsNat, ConstantesOK
      DEF Pedido, TipoCanal, Bien, Relegado, EjecutanCreados, Pids
    <3>2. \A j \in DOMAIN s : Bien(s[j])
      BY <1>0
    <3> HIDE DEF s, q
    <3>3. i \in DOMAIN (s \o <<FIN_QUANTUM, q>>)
      BY <2>1, <3>1
    <3>4. \/ i \in DOMAIN s /\ (s \o <<FIN_QUANTUM, q>>)[i] = s[i]
          \/ (s \o <<FIN_QUANTUM, q>>)[i] \in {FIN_QUANTUM, q}
      BY <3>1, <3>3 DEF FIN_QUANTUM
    <3> QED
      BY <3>1, <3>2, <3>4
  <2> QED
    BY <1>0, <1>2, <2>1, EscribePedidos DEF Escribe
<1>3. CASE \E c \in Cpus : HiloQuantum(c)
  <2>1. \A i \in DOMAIN canal'[d] : canal'[d][i] = FIN_QUANTUM
    BY <1>3, QuantumSolo
  <2> QED
    BY <1>0, <1>3, <2>1, FinEsNat DEF HiloQuantum, vars, cpu, Bien
<1>4. CASE \E c \in Cpus : LeerTipo(c) \/ LeerPid(c)
  BY <1>0, <1>4, LeerTipos
<1>5. CASE \E c \in Cpus : Toma(c)
  BY <1>0, <1>5, SinPalabras DEF Toma, CpuInterrumpir, palabras, TipoBase, TipoBaseEn,
       TipoCpu, TipoCpuEn
<1> QED
  BY <1>0, <1>1, <1>2, <1>3, <1>4, <1>5, PasosDePalabras

LEMMA PasoRelegados ==
  ASSUME InvI, InvRelegados, UnCreador, [NextI]_varsI
  PROVE  InvRelegados'
<1>0. InvLugares /\ InvPalabras /\ TipoBase
  BY DEF InvI, InvRelegados, InvLugares, InvMotivos, InvCpu
<1>1. CASE [Next]_vars
  <2>1. LugaresBien' /\ ReservaBien' /\ EjecutanCreados'
    BY <1>0, <1>1, EfectoDelPaso, EjecutanPaso DEF InvRelegados
  <2>2. ASSUME NEW d \in Cpus
        PROVE  Bien(interrupcion[d])' /\ \A i \in DOMAIN canal'[d] : Bien(canal[d][i])'
    <3>1. \A x : Bien(x) => Bien(x)'
      BY <1>0, <1>1, RelegadoSigue
    <3>2. Bien(NADIE)
      BY ConstantesOK DEF Bien
    <3> QED
      BY <1>0, <3>1, <3>2, NombranPaso DEF InvRelegados, Bien, Relegado
  <2> QED
    BY <2>1, <2>2 DEF InvRelegados, NombranRelegados
<1>2. ASSUME NEW c \in Cpus, LeerPid(c)
      PROVE  InvRelegados'
  <2>1. UNCHANGED <<procesos, colas, cpus_ks, largo, corto, hilos, io, temps>>
    BY <1>2 DEF LeerPid
  <2>2. LugaresBien' /\ ReservaBien' /\ EjecutanCreados'
    BY <2>1
    DEF InvRelegados, LugaresBien, LugaresSin, ReservaBien, EjecutanCreados, SinLugar, UnLugar,
        SoloEn, En, EnReady, EntradasReady, procesos, colas, cpus_ks, largo, corto, hilos, io, temps
  <2>3. NombranRelegados'
    BY <1>0, <2>1, NombranPaso, ConstantesOK
    DEF InvRelegados, NombranRelegados, Bien, Relegado, procesos
  <2> QED
    BY <2>2, <2>3 DEF InvRelegados
<1> QED
  BY <1>1, <1>2, PasoDeBase DEF varsI

LEMMA CedeRelegado ==
  ASSUME InvI, InvRelegados, [NextI]_varsI, NEW c \in Cpus,
         interrupcion[c] # NADIE, interrupcion'[c] = NADIE
  PROVE  ejecutando[c] = corre[c] /\ prioridad[corre[c]] > 0
<1>0. TipoBase /\ InvPalabras /\ InvMotivos
  BY DEF InvI, InvMotivos, InvCpu
<1>1. ~ Calla /\ ~ Escribe /\ ~ \E d \in Cpus : HiloQuantum(d) \/ LeerTipo(d)
  BY DEF Calla, Escribe, HiloQuantum, LeerTipo, vars, cpu
<1>2. ~ \E d \in Cpus : LeerPid(d)
  <2> SUFFICES ASSUME NEW d \in Cpus, LeerPid(d) PROVE FALSE
    OBVIOUS
  <2>1. d = c
    BY <1>0 DEF LeerPid, TipoBase, TipoBaseEn, TipoCpu, TipoCpuEn
  <2>2. CASE algoritmo_actual = "CMN"
    <3>1. interrupcion'[c] = Enviadas(c)[2] /\ Enviadas(c) # <<>>
      BY <1>0, <2>1, <2>2, PidLeido DEF TipoBase, TipoBaseEn, TipoCpu, TipoCpuEn
    <3>2. Enviadas(c)[2] \in Pids
      BY <1>0, <2>2, <3>1, EnviadasSon, DosPalabras DEF InvPalabras, ConPids
    <3> QED
      BY <3>1, <3>2, ConstantesOK
  <2>3. CASE algoritmo_actual = "RR"
    BY <1>0, <2>3, LeerTipos DEF InvPalabras, SinPids
  <2> QED
    BY <1>0, <2>2, <2>3 DEF InvPalabras, TipoCanal
<1>3. PICK d \in Cpus : Toma(d)
  BY <1>0, <1>1, <1>2, PasosDePalabras
<1>4. d = c
  BY <1>0, <1>3 DEF Toma, CpuInterrumpir, TipoBase, TipoBaseEn, TipoCpu, TipoCpuEn
<1>5. corre[c] \in Pids /\ interrupcion[c] = corre[c]
  BY <1>0, <1>3, <1>4 DEF Toma, CpuInterrumpir, TipoBase, TipoBaseEn, TipoCpu, TipoCpuEn
<1>6. ejecutando[c] = corre[c]
  BY <1>0, <1>5, EnCpuSuyo DEF EnCpu
<1> QED
  BY <1>5, <1>6 DEF InvRelegados, NombranRelegados, Bien, Relegado

LEMMA InitRelegados == InitI => InvRelegados
<1> SUFFICES ASSUME InitI PROVE InvRelegados
  OBVIOUS
<1>1. LugaresBien /\ ReservaBien
  BY InitLugares DEF InitI
<1>2. EjecutanCreados /\ NombranRelegados
  BY ConstantesOK DEF InitI, Init, EjecutanCreados, NombranRelegados, Bien
<1> QED
  BY <1>1, <1>2 DEF InvRelegados

(* NoCedeNadieDelMejorNivel: an interruption that arrives late, meant for   *)
(* another turn, never takes the CPU from a process of the best level: it   *)
(* names one that had a worse level when it was written, and the level of a *)
(* process does not change.                                                 *)
THEOREM NoCedeNadieDelMejorNivel ==
  ASSUME UnCreador
  PROVE  SpecI => NoCedeElMejor
<1> DEFINE Cede == \A c \in Cpus :
                     interrupcion[c] # NADIE /\ interrupcion'[c] = NADIE
                       => ejecutando[c] = corre[c] /\ prioridad[corre[c]] > 0
<1>1. InvI /\ InvRelegados /\ [NextI]_varsI => InvRelegados'
  BY PasoRelegados
<1>2. InvI /\ InvRelegados /\ [NextI]_varsI => [Cede]_varsI
  BY CedeRelegado
<1> QED
  BY <1>1, <1>2, InitRelegados, CanalInvariante, PTL DEF SpecI, NoCedeElMejor

=============================================================================

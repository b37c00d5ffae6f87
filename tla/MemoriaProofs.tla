---------------------------- MODULE MemoriaProofs ----------------------------
(***************************************************************************)
(* The memory system calls and the devices of the scheduler, for every     *)
(* number of processes, CPUs and READY levels, every set of system calls   *)
(* and any number of compactions: the types, the ownership of              *)
(* mx_comunicacion_memoria and the permits of the two semaphores.  Until a *)
(* compaction is announced also where each PCB is, that the scheduler      *)
(* implements ProcesosAbs, and whom each answer of a device is for.        *)
(*                                                                         *)
(* MemoriaKernel adds steps to the handlers, messages to the CPUs, words   *)
(* to the sockets of Kernel Memory and places for the PCBs; the lemmas     *)
(* about Planificador hold for those too (their parameters P, M, Q and F), *)
(* so what is left are the actions of this module.                         *)
(***************************************************************************)
EXTENDS MemoriaKernel, PlanificadorLugares, SequenceTheorems

PasosPropios == {"bloquear_en", "mem_free", "leer_op", "leer_cuerpo"}
PasosK == PasosHilo \cup PasosPropios

\* The steps of a handler before it frees its CPU.
PasosConCpuK == PasosConCpu \cup {"bloquear_en", "mem_free"}

MensajesK ==
  [motivo : {"MOTIVO_EXIT", "MOTIVO_INTERRUPCION", "MOTIVO_SYSCALL"}, pid : Pids,
   syscall : {"", "S_SLEEP", "S_INIT_PROC"} \cup Llamadas, prio : Prioridades]

PedidosK ==
  [op : {"CARGA_PROCESO", "FINALIZAR_PROCESO", "SUSPENDER_PROCESO", "CREAR_SEGMENTO",
         "ELIMINAR_SEGMENTO", "SOLICITUD_LECTURA", "SOLICITUD_ESCRITURA", "OK"},
   pid : Pids]
PalabrasK ==
  Conocidas \cup {"CUERPO", "LARGO", "RESPUESTA_LECTURA", "RESPUESTA_ESCRITURA",
                  "NUEVO_MEMORY_STICK"}

TipoBaseK == TipoBaseEn(PasosK, MensajesK)
TipoKmK == TipoKmEn(PedidosK, PalabrasK)

TipoBloqueos ==
  /\ block \in [Clases -> Seq(Pids)] /\ susp \in [Clases -> Seq(Pids)]
  /\ relojes \in [Clases -> [Pids -> Nat]] /\ retirados \in [Clases -> SUBSET Pids]

TipoDispositivos ==
  /\ pedidos_d \in [Dispositivos -> Seq([pid : Pids, dato : Pids \cup {NADIE}])]
  /\ respuestas_d \in [Dispositivos -> Seq(Pids)]
  /\ pc_d \in [Dispositivos -> {"recibir", "buscar_susp", "escribir", "confirmar",
                                "encolar", "avisar"}]
  /\ pcb_d \in [Dispositivos -> Pids \cup {NADIE}]
  /\ \A d \in Dispositivos : pcb_d[d] = NADIE <=> pc_d[d] = "recibir"

(* Who holds mx_comunicacion_memoria across its steps.                      *)
MutexBien ==
  /\ \A c \in Cpus : pc[c] \in {"leer_op", "leer_cuerpo"} <=> mx_comunicacion_memoria = c
  /\ pc_d["stdin"] = "confirmar" <=> mx_comunicacion_memoria = "stdin"
  /\ mx_comunicacion_memoria \in Cpus \cup {"stdin", NADIE}

CuerposDe(s) == {i \in DOMAIN s : s[i] = "CUERPO"}
CuerposBien ==
  cuerpos \in Seq(Pids) /\ Len(cuerpos) = Cardinality(CuerposDe(respuestas_km))

(* The listener evicts only once the compaction is announced, a handler     *)
(* that blocks has a call that does, and the SLEEP device never answers.    *)
PasosBien ==
  /\ pc_km \in {"recibir", "cuerpo", "desalojar"}
  /\ pc_km = "desalojar" => compactacion_en_progreso
  /\ \A c \in Cpus :
       pc[c] = "bloquear_en" => msg[c].syscall \in {"S_STDIN", "S_STDOUT", "S_MEM_ALLOC"}
  /\ pc_io = "recibir"

TipoK ==
  /\ TipoBaseK /\ TipoKmK
  /\ TipoBloqueos /\ TipoDispositivos /\ MutexBien /\ CuerposBien /\ PasosBien

(* The permits: the balance of sem_procesos_ready never changes, and that   *)
(* of sem_cpus_libres holds until a compaction.                             *)
PorAvisarD == {d \in Dispositivos : pc_d[d] = "avisar"}
ReadyK == IsFiniteSet(EntradasReady) /\ Sobra + Cardinality(PorAvisarD) = 0
CpuK == compactacion_en_progreso \/ (CpuDelHiloEn(PasosConCpuK) /\ PermisosCpu)

InvK == TipoK /\ ReadyK /\ CpuK

-----------------------------------------------------------------------------
(* The lists.                                                               *)

(* The first entry of a list with a pid.                                    *)
LEMMA PrimeroEnLista ==
  ASSUME NEW s \in Seq(Pids), NEW p, EnLista(p, s)
  PROVE  \E j \in DOMAIN s : s[j] = p /\ \A h \in 1 .. j - 1 : s[h] # p
<1> DEFINE T == {i \in DOMAIN s : s[i] = p}
           R == OpToRel(<, Nat)
<1>1. T \subseteq Nat /\ T # {}
  BY DEF EnLista
<1>2. IsWellFoundedOn(R, Nat)
  BY NatLessThanWellFounded
<1>3. \A x, y \in Nat : <<x, y>> \in R <=> x < y
  BY DEF OpToRel
<1> HIDE DEF R
<1>4. PICK j \in T : \A y \in T : ~ (<<y, j>> \in R)
  BY <1>1, <1>2, WFMin
<1>5. \A h \in 1 .. j - 1 : s[h] # p
  <2> SUFFICES ASSUME NEW h \in 1 .. j - 1, s[h] = p PROVE FALSE
    OBVIOUS
  <2>1. h \in T /\ h \in Nat /\ j \in Nat /\ h < j
    OBVIOUS
  <2> QED
    BY <1>3, <1>4, <2>1
<1> QED
  BY <1>4, <1>5

(* list_remove takes one entry with that pid out, if there is one.          *)
LEMMA QuitarUno ==
  ASSUME NEW s \in Seq(Pids), NEW p
  PROVE  /\ Quitar(p, s) \in Seq(Pids)
         /\ ~ EnLista(p, s) => Quitar(p, s) = s
         /\ EnLista(p, s) =>
              \E i \in DOMAIN s :
                /\ s[i] = p /\ Len(Quitar(p, s)) = Len(s) - 1
                /\ \A j \in 1 .. Len(s) - 1 :
                     Quitar(p, s)[j] = IF j < i THEN s[j] ELSE s[j + 1]
<1>1. CASE ~ EnLista(p, s)
  BY <1>1 DEF Quitar
<1>2. CASE EnLista(p, s)
  <2> DEFINE i == CHOOSE j \in DOMAIN s : s[j] = p /\ \A h \in 1 .. j - 1 : s[h] # p
             a == SubSeq(s, 1, i - 1)
             b == SubSeq(s, i + 1, Len(s))
  <2>1. i \in DOMAIN s /\ s[i] = p
    BY <1>2, PrimeroEnLista
  <2>2. Quitar(p, s) = a \o b
    BY <1>2 DEF Quitar
  <2> HIDE DEF i
  <2>3. /\ i \in Int /\ Len(s) \in Nat /\ 1 <= i /\ i <= Len(s)
        /\ \A j \in 1 .. Len(s) : s[j] \in Pids
    BY <2>1
  <2>4. /\ a \in Seq(Pids) /\ Len(a) = i - 1
        /\ \A j \in 1 .. i - 1 : a[j] = s[j]
    BY <2>3, SubSeqProperties
  <2>5. /\ b \in Seq(Pids) /\ Len(b) = Len(s) - i
        /\ \A j \in 1 .. Len(s) - i : b[j] = s[j + i]
    <3> DEFINE m == i + 1
    <3>1. \A j \in m .. Len(s) : s[j] \in Pids
      BY <2>3
    <3>2. m \in Int /\ Len(s) \in Int
      BY <2>3
    <3> HIDE DEF m
    <3>3. /\ b \in Seq(Pids)
          /\ Len(b) = IF m <= Len(s) THEN Len(s) - m + 1 ELSE 0
          /\ \A j \in 1 .. Len(s) - m + 1 : b[j] = s[m + j - 1]
      BY <3>1, <3>2, SubSeqProperties DEF m
    <3>4. /\ (IF m <= Len(s) THEN Len(s) - m + 1 ELSE 0) = Len(s) - i
          /\ Len(s) - m + 1 = Len(s) - i
      BY <2>3 DEF m
    <3>5. \A j \in 1 .. Len(s) - i : m + j - 1 = j + i
      BY <2>3 DEF m
    <3> HIDE DEF b
    <3> QED
      BY <3>3, <3>4, <3>5
  <2> HIDE DEF a, b
  <2>6. /\ a \o b \in Seq(Pids) /\ Len(a \o b) = Len(s) - 1
        /\ \A j \in 1 .. Len(s) - 1 :
             (a \o b)[j] = IF j <= i - 1 THEN a[j] ELSE b[j - (i - 1)]
    <3>1. /\ a \o b \in Seq(Pids) /\ Len(a \o b) = Len(a) + Len(b)
          /\ \A j \in 1 .. Len(a) + Len(b) :
               (a \o b)[j] = IF j <= Len(a) THEN a[j] ELSE b[j - Len(a)]
      BY <2>4, <2>5, ConcatProperties
    <3>2. Len(a) + Len(b) = Len(s) - 1
      BY <2>3, <2>4, <2>5
    <3> QED
      BY <2>4, <3>1, <3>2
  <2>7. \A j \in 1 .. Len(s) - 1 : (a \o b)[j] = IF j < i THEN s[j] ELSE s[j + 1]
    <3> TAKE j \in 1 .. Len(s) - 1
    <3>1. CASE j < i
      BY <2>3, <2>4, <2>6, <3>1
    <3>2. CASE ~ (j < i)
      <4>1. j - (i - 1) \in 1 .. Len(s) - i /\ (j - (i - 1)) + i = j + 1
        BY <2>3, <3>2
      <4> QED
        BY <2>3, <2>5, <2>6, <3>2, <4>1
    <3> QED
      BY <3>1, <3>2
  <2> QED
    BY <1>2, <2>1, <2>2, <2>6, <2>7
<1> QED
  BY <1>1, <1>2

LEMMA EnListaTipo ==
  ASSUME NEW s \in Seq(Pids), NEW p \in Pids
  PROVE  Append(s, p) \in Seq(Pids) /\ (s # <<>> => Head(s) \in Pids /\ Tail(s) \in Seq(Pids))
  OBVIOUS

-----------------------------------------------------------------------------
(* The bodies in the stream of Kernel Memory.                               *)

LEMMA CuerposFinitos ==
  ASSUME NEW s \in Seq(PalabrasK)
  PROVE  IsFiniteSet(CuerposDe(s)) /\ Cardinality(CuerposDe(s)) \in Nat
<1>1. CuerposDe(s) \subseteq 1 .. Len(s) /\ IsFiniteSet(1 .. Len(s))
  BY FS_Interval DEF CuerposDe
<1> QED
  BY <1>1, FS_Subset, FS_CardinalityType

LEMMA CuerposAppend ==
  ASSUME NEW s \in Seq(PalabrasK), NEW w \in PalabrasK
  PROVE  /\ Append(s, w) \in Seq(PalabrasK)
         /\ Cardinality(CuerposDe(Append(s, w)))
              = Cardinality(CuerposDe(s)) + (IF w = "CUERPO" THEN 1 ELSE 0)
<1> DEFINE n == Len(s) + 1
<1>1. /\ Append(s, w) \in Seq(PalabrasK) /\ DOMAIN Append(s, w) = 1 .. n
      /\ \A i \in 1 .. Len(s) : Append(s, w)[i] = s[i]
      /\ Append(s, w)[n] = w /\ n \notin CuerposDe(s) /\ Len(s) \in Nat
  BY DEF CuerposDe
<1>2. CASE w = "CUERPO"
  <2>1. CuerposDe(Append(s, w)) = CuerposDe(s) \cup {n}
    BY <1>1, <1>2 DEF CuerposDe
  <2> QED
    BY <1>1, <1>2, <2>1, CuerposFinitos, FS_AddElement
<1>3. CASE w # "CUERPO"
  <2>1. CuerposDe(Append(s, w)) = CuerposDe(s)
    BY <1>1, <1>3 DEF CuerposDe
  <2> QED
    BY <1>1, <1>3, <2>1, CuerposFinitos
<1> QED
  BY <1>2, <1>3

LEMMA CuerposTail ==
  ASSUME NEW s \in Seq(PalabrasK), s # <<>>
  PROVE  /\ Head(s) \in PalabrasK /\ Tail(s) \in Seq(PalabrasK)
         /\ Cardinality(CuerposDe(Tail(s)))
              = Cardinality(CuerposDe(s)) - (IF Head(s) = "CUERPO" THEN 1 ELSE 0)
<1> DEFINE A == CuerposDe(Tail(s))
           B == CuerposDe(s) \ {1}
           f == [i \in A |-> i + 1]
<1>1. /\ Head(s) = s[1] /\ s[1] \in PalabrasK /\ Tail(s) \in Seq(PalabrasK)
      /\ DOMAIN s = 1 .. Len(s) /\ DOMAIN Tail(s) = 1 .. Len(s) - 1
      /\ Len(s) \in Nat /\ Len(s) >= 1
      /\ \A i \in 1 .. Len(s) - 1 : Tail(s)[i] = s[i + 1]
  OBVIOUS
<1>2. f \in Bijection(A, B)
  <2>1. \A i \in A : i \in Nat /\ f[i] \in B
    BY <1>1 DEF CuerposDe
  <2>2. \A i, j \in A : f[i] = f[j] => i = j
    BY <2>1
  <2>3. \A j \in B : j - 1 \in A /\ f[j - 1] = j
    BY <1>1 DEF CuerposDe
  <2> QED
    BY <2>1, <2>2, <2>3 DEF Bijection, Injection, Surjection, IsInjective
<1>3. IsFiniteSet(A) /\ IsFiniteSet(CuerposDe(s)) /\ Cardinality(CuerposDe(s)) \in Nat
  BY <1>1, CuerposFinitos
<1>4. Cardinality(B) = Cardinality(A)
  <2> HIDE DEF A, B, f
  <2> QED
    BY <1>2, <1>3, FS_Bijection DEF ExistsBijection
<1>5. CASE Head(s) = "CUERPO"
  <2>1. 1 \in CuerposDe(s)
    BY <1>1, <1>5 DEF CuerposDe
  <2> QED
    BY <1>1, <1>3, <1>4, <1>5, <2>1, FS_RemoveElement
<1>6. CASE Head(s) # "CUERPO"
  <2>1. B = CuerposDe(s)
    BY <1>1, <1>6 DEF CuerposDe
  <2> HIDE DEF A, B
  <2>2. Cardinality(A) = Cardinality(CuerposDe(s))
    BY <1>4, <2>1
  <2> QED
    BY <1>1, <1>3, <1>6, <2>2 DEF A
<1> QED
  BY <1>5, <1>6

(* What Kernel Memory answers, word by word.                                *)
LEMMA SonAppend ==
  ASSUME NEW S, NEW s \in Seq(S), NEW a \in S, NEW b \in S, NEW c \in S, NEW d \in S
  PROVE  /\ s \o <<>> = s /\ s \o <<a>> = Append(s, a)
         /\ s \o <<a, b>> = Append(Append(s, a), b)
         /\ s \o <<a, b, c, d>> = Append(Append(Append(Append(s, a), b), c), d)
<1>1. s \o <<>> = s /\ s \o <<a>> = Append(s, a)
  BY ConcatEmptySeq, AppendIsConcat
<1>2. ASSUME NEW t \in Seq(S), NEW u \in Seq(S), NEW x \in S
      PROVE  t \o Append(u, x) = Append(t \o u, x)
  <2>1. Append(u, x) = u \o <<x>> /\ Append(t \o u, x) = (t \o u) \o <<x>> /\ <<x>> \in Seq(S)
    BY AppendIsConcat, ConcatProperties
  <2> QED
    BY <2>1, ConcatAssociative
<1>3. <<a, b>> = Append(<<a>>, b) /\ <<a, b, c>> = Append(<<a, b>>, c)
      /\ <<a, b, c, d>> = Append(<<a, b, c>>, d)
  OBVIOUS
<1>4. <<a>> \in Seq(S) /\ <<a, b>> \in Seq(S) /\ <<a, b, c>> \in Seq(S)
  OBVIOUS
<1>5. /\ s \o Append(<<a>>, b) = Append(s \o <<a>>, b)
      /\ s \o Append(<<a, b>>, c) = Append(s \o <<a, b>>, c)
      /\ s \o Append(<<a, b, c>>, d) = Append(s \o <<a, b, c>>, d)
  BY <1>2, <1>4
<1>6. /\ s \o <<a, b>> = Append(s \o <<a>>, b)
      /\ s \o <<a, b, c>> = Append(s \o <<a, b>>, c)
      /\ s \o <<a, b, c, d>> = Append(s \o <<a, b, c>>, d)
  BY <1>3, <1>5
<1> QED
  BY <1>1, <1>6

(* A word of the stream is read, or Kernel Memory answers.                  *)
LEMMA TomarTipo ==
  ASSUME TipoKmK, CuerposBien, TomarPalabra
  PROVE  /\ TipoKmK' /\ CuerposBien' /\ Palabra \in PalabrasK
         /\ Palabra = "CUERPO" => Head(cuerpos) \in Pids
<1> DEFINE n == Cardinality(CuerposDe(respuestas_km))
<1>1. /\ respuestas_km \in Seq(PalabrasK) /\ respuestas_km # <<>>
      /\ respuestas_km' = Tail(respuestas_km)
  BY DEF TipoKmK, TipoKmEn, TomarPalabra, HayPalabra
<1>2. /\ Palabra \in PalabrasK /\ Tail(respuestas_km) \in Seq(PalabrasK) /\ n \in Nat
      /\ Cardinality(CuerposDe(Tail(respuestas_km)))
           = n - (IF Palabra = "CUERPO" THEN 1 ELSE 0)
      /\ Cardinality(CuerposDe(Tail(respuestas_km))) \in Nat
  BY <1>1, CuerposTail, CuerposFinitos DEF Palabra
<1>3. TipoKmK'
  BY <1>1, <1>2 DEF TipoKmK, TipoKmEn, TomarPalabra
<1> HIDE DEF n
<1>4. cuerpos \in Seq(Pids) /\ Len(cuerpos) = n
  BY DEF CuerposBien, n
<1>5. CASE Palabra = "CUERPO"
  <2>1. /\ cuerpos # <<>> /\ Head(cuerpos) \in Pids
        /\ Tail(cuerpos) \in Seq(Pids) /\ Len(Tail(cuerpos)) = n - 1
    BY <1>2, <1>4, <1>5
  <2>2. cuerpos' = Tail(cuerpos)
    BY <1>5 DEF TomarPalabra
  <2> QED
    BY <1>1, <1>2, <1>3, <1>5, <2>1, <2>2 DEF CuerposBien
<1>6. CASE Palabra # "CUERPO"
  BY <1>1, <1>2, <1>3, <1>4, <1>6 DEF CuerposBien, TomarPalabra
<1> QED
  BY <1>5, <1>6

LEMMA ResponderTipo ==
  ASSUME TipoKmK, CuerposBien, NEW ws, NEW cs, ResponderKm(ws), cuerpos' = cuerpos \o cs,
         UNCHANGED <<ultima_respuesta_km, km_procesos, en_swap>>, pedidos_km' \in Seq(PedidosK),
         \/ ws = <<>> /\ cs = <<>>
         \/ cs = <<>> /\ \E w \in PalabrasK \ {"CUERPO"} : ws = <<w>>
         \/ \E w \in PalabrasK \ {"CUERPO"}, p \in Pids : ws = <<w, "CUERPO">> /\ cs = <<p>>
         \/ ws = <<"RESPUESTA_ESCRITURA", "LARGO", "LARGO", "OK">> /\ cs = <<>>
  PROVE  TipoKmK' /\ CuerposBien'
<1> DEFINE r == respuestas_km
           n == Cardinality(CuerposDe(r))
<1>1. /\ r \in Seq(PalabrasK) /\ respuestas_km' = r \o ws
      /\ cuerpos \in Seq(Pids) /\ Len(cuerpos) = n /\ n \in Nat
  BY CuerposFinitos DEF TipoKmK, TipoKmEn, ResponderKm, CuerposBien
<1>2. {"OK", "CUERPO", "LARGO", "RESPUESTA_ESCRITURA"} \subseteq PalabrasK
  BY DEF PalabrasK, Conocidas, ConCuerpo
<1>3. /\ respuestas_km' \in Seq(PalabrasK) /\ cuerpos' \in Seq(Pids)
      /\ Len(cuerpos') = Cardinality(CuerposDe(respuestas_km'))
  <2> HIDE DEF r, n
  <2>0. n = Cardinality(CuerposDe(r))
    BY DEF n
  <2>1. CASE ws = <<>> /\ cs = <<>>
    BY <1>1, <2>0, <2>1, ConcatEmptySeq
  <2>2. CASE cs = <<>> /\ \E w \in PalabrasK \ {"CUERPO"} : ws = <<w>>
    <3>1. PICK w \in PalabrasK \ {"CUERPO"} : ws = <<w>>
      BY <2>2
    <3>2. respuestas_km' = Append(r, w) /\ cuerpos' = cuerpos
      BY <1>1, <2>2, <3>1, AppendIsConcat, ConcatEmptySeq
    <3>3. /\ Append(r, w) \in Seq(PalabrasK)
          /\ Cardinality(CuerposDe(Append(r, w))) = n + 0
      BY <1>1, <2>0, CuerposAppend
    <3> QED
      BY <1>1, <3>2, <3>3
  <2>3. CASE \E w \in PalabrasK \ {"CUERPO"}, p \in Pids :
               ws = <<w, "CUERPO">> /\ cs = <<p>>
    <3>1. PICK w \in PalabrasK \ {"CUERPO"}, p \in Pids : ws = <<w, "CUERPO">> /\ cs = <<p>>
      BY <2>3
    <3>2. /\ respuestas_km' = Append(Append(r, w), "CUERPO")
          /\ cuerpos' = Append(cuerpos, p)
      BY <1>1, <1>2, <3>1, SonAppend
    <3>3. /\ Append(r, w) \in Seq(PalabrasK)
          /\ Cardinality(CuerposDe(Append(r, w))) = n + 0
      BY <1>1, <2>0, CuerposAppend
    <3>4. /\ Append(Append(r, w), "CUERPO") \in Seq(PalabrasK)
          /\ Cardinality(CuerposDe(Append(Append(r, w), "CUERPO"))) = n + 0 + 1
      BY <1>2, <3>3, CuerposAppend
    <3>5. Append(cuerpos, p) \in Seq(Pids) /\ Len(Append(cuerpos, p)) = n + 1
      BY <1>1
    <3> QED
      BY <1>1, <3>2, <3>4, <3>5
  <2>4. CASE ws = <<"RESPUESTA_ESCRITURA", "LARGO", "LARGO", "OK">> /\ cs = <<>>
    <3> DEFINE r1 == Append(r, "RESPUESTA_ESCRITURA")
               r2 == Append(r1, "LARGO")
               r3 == Append(r2, "LARGO")
               r4 == Append(r3, "OK")
    <3>1. respuestas_km' = r4 /\ cuerpos' = cuerpos
      BY <1>1, <1>2, <2>4, SonAppend, ConcatEmptySeq
    <3>2. r1 \in Seq(PalabrasK) /\ Cardinality(CuerposDe(r1)) = n + 0
      BY <1>1, <1>2, <2>0, CuerposAppend
    <3> HIDE DEF r1
    <3>3. r2 \in Seq(PalabrasK) /\ Cardinality(CuerposDe(r2)) = n + 0 + 0
      BY <1>2, <3>2, CuerposAppend
    <3> HIDE DEF r2
    <3>4. r3 \in Seq(PalabrasK) /\ Cardinality(CuerposDe(r3)) = n + 0 + 0 + 0
      BY <1>2, <3>3, CuerposAppend
    <3> HIDE DEF r3
    <3>5. r4 \in Seq(PalabrasK) /\ Cardinality(CuerposDe(r4)) = n + 0 + 0 + 0 + 0
      BY <1>2, <3>4, CuerposAppend
    <3> HIDE DEF r4
    <3> QED
      BY <1>1, <3>1, <3>5
  <2> QED
    BY <2>1, <2>2, <2>3, <2>4
<1> QED
  BY <1>3 DEF TipoKmK, TipoKmEn, CuerposBien

-----------------------------------------------------------------------------
(* The types.                                                               *)

LEMMA BastantesK ==
  /\ Bastan(PasosK, MensajesK) /\ BastanKm(PedidosK, PalabrasK)
  /\ BastanPasos(PasosConCpuK)
<1>1. Mensajes \subseteq MensajesK /\ PedidosKm \subseteq PedidosK
  BY DEF Mensajes, MensajesK, PedidosKm, PedidosK
<1>2. \A m \in MensajesK : \A p \in Pids : [m EXCEPT !.pid = p] \in MensajesK
  BY DEF MensajesK
<1>3. \A m \in MensajesK : m.pid \in Pids /\ m.prio \in Prioridades
  BY DEF MensajesK
<1>4. BastanPasos(PasosConCpuK)
  BY DEF BastanPasos, PasosConCpuK, PasosConCpu, PasosPorPublicar
<1> QED
  BY <1>1, <1>2, <1>3, <1>4
  DEF Bastan, BastanKm, PasosK, PedidosK, PalabrasK, Conocidas

(* The groups a step leaves alone keep their types.                         *)
LEMMA SinCambiosK ==
  /\ TipoBaseK /\ SinPlan => TipoBaseK'
  /\ TipoKmK /\ UNCHANGED km => TipoKmK'
  /\ TipoBloqueos /\ UNCHANGED bloqueos => TipoBloqueos'
  /\ TipoDispositivos /\ UNCHANGED dispositivos => TipoDispositivos'
  /\ CuerposBien /\ UNCHANGED <<cuerpos, respuestas_km>> => CuerposBien'
  /\ MutexBien /\ UNCHANGED <<pc, pc_d, mx_comunicacion_memoria>> => MutexBien'
  /\ PasosBien /\ UNCHANGED <<pc, msg, pc_km, compactacion_en_progreso, pc_io>> => PasosBien'
<1>1. TipoBaseK /\ SinPlan => TipoBaseK'
  BY SinCambiosEn DEF TipoBaseK, TipoBaseEn, SinPlan
<1>2. TipoKmK /\ UNCHANGED km => TipoKmK'
  BY SinCambioKm DEF TipoKmK
<1>3. PasosBien /\ UNCHANGED <<pc, msg, pc_km, compactacion_en_progreso, pc_io>> => PasosBien'
  <2> SUFFICES ASSUME PasosBien, pc' = pc, msg' = msg, pc_km' = pc_km, pc_io' = pc_io,
                      compactacion_en_progreso' = compactacion_en_progreso
               PROVE  PasosBien'
    OBVIOUS
  <2>1. pc_km' = "desalojar" => compactacion_en_progreso'
    BY Zenon DEF PasosBien
  <2> QED
    BY <2>1 DEF PasosBien
<1>4. /\ TipoBloqueos /\ UNCHANGED bloqueos => TipoBloqueos'
      /\ TipoDispositivos /\ UNCHANGED dispositivos => TipoDispositivos'
  BY DEF TipoBloqueos, TipoDispositivos, bloqueos, dispositivos
<1>5. /\ CuerposBien /\ UNCHANGED <<cuerpos, respuestas_km>> => CuerposBien'
      /\ MutexBien /\ UNCHANGED <<pc, pc_d, mx_comunicacion_memoria>> => MutexBien'
  BY DEF CuerposBien, MutexBien
<1> QED
  BY <1>1, <1>2, <1>3, <1>4, <1>5

(* A handler moves on, and this is all that its steps say of the others.    *)
LEMMA IrK ==
  ASSUME TipoBaseK, NEW c \in Cpus, NEW paso, Ir(c, paso)
  PROVE  pc'[c] = paso /\ \A d \in Cpus : d # c => pc'[d] = pc[d]
  BY DEF Ir, TipoBaseK, TipoBaseEn, TipoHilosEn

(* The handlers of Planificador go between their own steps.                 *)
LEMMA PasosComunes ==
  ASSUME TipoBaseK, NEW c \in Cpus, AtenderCpu(c)
  PROVE  /\ pc[c] \notin PasosPropios /\ pc'[c] \notin PasosPropios
         /\ \A d \in Cpus : d # c => pc'[d] = pc[d] /\ msg'[d] = msg[d]
<1>1. pc[c] \notin PasosPropios
  BY DEF AtenderCpu, AtenderSinExit, RecibirExit, RecibirInterrupcion, RecibirSleep,
      RecibirInitProc, Recibir, Conectar, PublicarCpu, LiberarCpu, FinalizarEnKm, EsperarFin,
      EsperarKm, TerminarProceso, Bloquear, BloqueoPost, PedirIo, PedirCarga, EsperarCarga,
      CrearProceso, RechazarProceso, ReadyPost, ReadyEncolar, ReadyAvisar, PasosPropios
<1>2. \E paso : Ir(c, paso) /\ paso \notin PasosPropios
  <2>1. CASE LiberarCpu(c)
    BY <2>1 DEF LiberarCpu, PasosPropios
  <2>2. CASE PedirIo(c) \/ ReadyAvisar(c) \/ TerminarProceso(c)
    <3>1. Ir(c, "recibir")
      BY <2>2 DEF PedirIo, ReadyAvisar, TerminarProceso, SoltarPcb
    <3> QED
      BY <3>1 DEF PasosPropios
  <2>3. CASE ~ (LiberarCpu(c) \/ PedirIo(c) \/ ReadyAvisar(c) \/ TerminarProceso(c))
    <3>1. \E paso \in PasosHilo : Ir(c, paso)
      BY <2>3
      DEF AtenderCpu, AtenderSinExit, RecibirExit, RecibirInterrupcion, RecibirSleep,
          RecibirInitProc, Recibir, Conectar, PublicarCpu, FinalizarEnKm, EsperarFin,
          EsperarKm, Bloquear, BloqueoPost, PedirCarga, EsperarCarga,
          CrearProceso, RechazarProceso, ReadyPost, ReadyEncolar, PasosHilo
    <3> QED
      BY <3>1 DEF PasosHilo, PasosPropios
  <2> QED
    BY <2>1, <2>2, <2>3
<1>3. \A d \in Cpus : d # c => msg'[d] = msg[d]
  BY DEF AtenderCpu, AtenderSinExit, RecibirExit, RecibirInterrupcion, RecibirSleep,
      RecibirInitProc, Recibir, Conectar, PublicarCpu, LiberarCpu, FinalizarEnKm, EsperarFin,
      EsperarKm, TerminarProceso, Bloquear, BloqueoPost, PedirIo, PedirCarga, EsperarCarga,
      CrearProceso, RechazarProceso, ReadyPost, ReadyEncolar, ReadyAvisar, SoltarPcb,
      TipoBaseK, TipoBaseEn, TipoHilosEn
<1> QED
  BY <1>1, <1>2, <1>3, IrK

\* The steps of Planificador that MemoriaKernel takes as they are.
Comunes ==
  \/ LargoPlazo \/ CortoPlazo \/ KernelMemory \/ UNCHANGED vars
  \/ EscucharKm /\ Palabra \in {"OK", "ERROR"}
  \/ \E c \in Cpus : CpuTomar(c) \/ CpuTerminar(c) \/ CpuInitProc(c) \/ AtenderCpu(c)
  \/ \E p \in Pids : TimerAvisarKm(p)
PropiasQuietas == UNCHANGED <<bloqueos, flujo, compactacion_en_progreso, dispositivos>>

LEMMA ComunesTipo ==
  ASSUME TipoBaseK, TipoKmK, Comunes
  PROVE  TipoBaseK' /\ TipoKmK'
<1>0. /\ Bastan(PasosK, MensajesK) /\ BastanKm(PedidosK, PalabrasK)
      /\ TipoBaseEn(PasosK, MensajesK) /\ TipoKmEn(PedidosK, PalabrasK)
  BY BastantesK DEF TipoBaseK, TipoKmK
<1>1. CASE LargoPlazo \/ CortoPlazo \/ UNCHANGED vars
  <2>1. TipoBaseK'
    BY <1>0, <1>1, LargoTipo, CortoTipo, SinCambiosEn DEF TipoBaseK, TipoBaseEn, vars
  <2>2. UNCHANGED km
    BY <1>1, SinKm DEF vars
  <2> QED
    BY <2>1, <2>2, SinCambiosK
<1>2. CASE KernelMemory \/ (EscucharKm /\ Palabra \in {"OK", "ERROR"})
  BY <1>0, <1>2, KmTipo, KernelMemoryTipo DEF TipoBaseK, TipoKmK, Palabra
<1>3. ASSUME NEW c \in Cpus, CpuTomar(c) \/ CpuTerminar(c) \/ CpuInitProc(c)
      PROVE  TipoBaseK' /\ TipoKmK'
  <2>1. Cpu(c)
    BY <1>3 DEF Cpu
  <2> QED
    BY <1>0, <2>1, CpuTipo, SinKm, SinCambiosK DEF TipoBaseK
<1>4. ASSUME NEW c \in Cpus, AtenderCpu(c)
      PROVE  TipoBaseK' /\ TipoKmK'
  <2>1. TipoBaseK'
    BY <1>0, <1>4, MotivoTipo, HiloTipo DEF TipoBaseK, AtenderCpu, AtenderSinExit
  <2> QED
    BY <1>0, <1>4, <2>1, HiloKmTipo DEF TipoKmK
<1>5. ASSUME NEW p \in Pids, TimerAvisarKm(p)
      PROVE  TipoBaseK' /\ TipoKmK'
  <2>1. Temporizador(p)
    BY <1>5 DEF Temporizador
  <2> QED
    BY <1>0, <2>1, TemporizadorTipo, AvisarKmTipo DEF TipoBaseK, TipoKmK
<1> QED
  BY <1>1, <1>2, <1>3, <1>4, <1>5 DEF Comunes

(* None of them touches the handlers in a step of this module.              *)
LEMMA ComunesPasos ==
  ASSUME TipoBaseK, Comunes
  PROVE  /\ pc_io' = pc_io
         /\ \A d \in Cpus : \/ pc'[d] = pc[d] /\ msg'[d] = msg[d]
                            \/ pc[d] \notin PasosPropios /\ pc'[d] \notin PasosPropios
<1>1. CASE LargoPlazo \/ CortoPlazo \/ KernelMemory \/ UNCHANGED vars \/ EscucharKm
  BY <1>1
  DEF LargoPlazo, LargoEsperar, LargoSacar, LargoEncolar, LargoAvisar, CortoPlazo,
      CortoEsperarReady, CortoEsperarCpu, CortoSacar, CortoDespachar, KernelMemory, KmCargar,
      KmFinalizar, KmSuspender, EscucharKm, vars, hilos, io
<1>2. ASSUME NEW c \in Cpus, CpuTomar(c) \/ CpuTerminar(c) \/ CpuInitProc(c)
      PROVE  UNCHANGED <<hilos, io>>
  BY <1>2 DEF CpuTomar, CpuTerminar, CpuInitProc, CpuPedir, CpuDevolver
<1>3. ASSUME NEW c \in Cpus, AtenderCpu(c)
      PROVE  pc_io' = pc_io
  BY <1>3
  DEF AtenderCpu, AtenderSinExit, RecibirExit, RecibirInterrupcion, RecibirSleep,
      RecibirInitProc, Recibir, Conectar, PublicarCpu, LiberarCpu, FinalizarEnKm, EsperarFin,
      EsperarKm, TerminarProceso, Bloquear, BloqueoPost, PedirIo, PedirCarga, EsperarCarga,
      CrearProceso, RechazarProceso, ReadyPost, ReadyEncolar, ReadyAvisar, io
<1>4. CASE \E p \in Pids : TimerAvisarKm(p)
  BY <1>4 DEF TimerAvisarKm, hilos, io
<1> QED
  BY <1>1, <1>2, <1>3, <1>4, PasosComunes DEF Comunes, hilos, io

(* Kernel Memory answers OK or ERROR, and the listener takes such a word.   *)
LEMMA ComunesCuerpos ==
  ASSUME TipoKmK, CuerposBien, Comunes, cuerpos' = cuerpos
  PROVE  CuerposBien'
<1>0. /\ respuestas_km \in Seq(PalabrasK) /\ {"OK", "ERROR"} \subseteq PalabrasK
      /\ Cardinality(CuerposDe(respuestas_km)) \in Nat
  BY CuerposFinitos DEF TipoKmK, TipoKmEn, PalabrasK, Conocidas
<1>1. CASE respuestas_km' = respuestas_km
  BY <1>1, SinCambiosK
<1>2. CASE \E w \in {"OK", "ERROR"} : respuestas_km' = Append(respuestas_km, w)
  <2>1. PICK w \in {"OK", "ERROR"} : respuestas_km' = Append(respuestas_km, w)
    BY <1>2
  <2>2. Cardinality(CuerposDe(Append(respuestas_km, w)))
          = Cardinality(CuerposDe(respuestas_km)) + 0
    BY <1>0, CuerposAppend
  <2> QED
    BY <1>0, <2>1, <2>2 DEF CuerposBien
<1>3. CASE EscucharKm /\ Palabra \in {"OK", "ERROR"}
  <2>1. respuestas_km # <<>> /\ respuestas_km' = Tail(respuestas_km)
    BY <1>3 DEF EscucharKm
  <2>2. Cardinality(CuerposDe(Tail(respuestas_km))) = Cardinality(CuerposDe(respuestas_km)) - 0
    BY <1>0, <1>3, <2>1, CuerposTail DEF Palabra
  <2> QED
    BY <1>0, <2>1, <2>2 DEF CuerposBien
<1>4. CASE KernelMemory
  <2>1. \/ respuestas_km' = respuestas_km
        \/ \E w \in {"OK", "ERROR"} : respuestas_km' = Append(respuestas_km, w)
    BY <1>4 DEF KernelMemory, KmCargar, KmFinalizar, KmSuspender
  <2> QED
    BY <1>1, <1>2, <2>1
<1>5. CASE LargoPlazo \/ CortoPlazo \/ UNCHANGED vars
           \/ \E c \in Cpus : CpuTomar(c) \/ CpuTerminar(c) \/ CpuInitProc(c)
  <2>1. UNCHANGED km
    BY <1>5, SinKm DEF vars, Cpu
  <2> QED
    BY <1>1, <2>1 DEF km
<1>6. ASSUME NEW c \in Cpus, AtenderCpu(c)
      PROVE  respuestas_km' = respuestas_km
  BY <1>6
  DEF AtenderCpu, AtenderSinExit, RecibirExit, RecibirInterrupcion, RecibirSleep,
      RecibirInitProc, Recibir, Conectar, PublicarCpu, LiberarCpu, FinalizarEnKm, EsperarFin,
      EsperarKm, TerminarProceso, Bloquear, BloqueoPost, PedirIo, PedirCarga, EsperarCarga,
      CrearProceso, RechazarProceso, ReadyPost, ReadyEncolar, ReadyAvisar, km
<1>7. CASE \E p \in Pids : TimerAvisarKm(p)
  BY <1>1, <1>7 DEF TimerAvisarKm
<1> QED
  BY <1>1, <1>3, <1>4, <1>5, <1>6, <1>7 DEF Comunes

LEMMA ComunesTipoK ==
  ASSUME TipoK, Comunes, PropiasQuietas
  PROVE  TipoK'
<1>1. TipoBaseK' /\ TipoKmK' /\ CuerposBien'
  BY ComunesTipo, ComunesCuerpos DEF TipoK, PropiasQuietas, flujo
<1>2. TipoBloqueos' /\ TipoDispositivos'
  BY SinCambiosK DEF TipoK, PropiasQuietas
<1>3. \A d \in Cpus : \/ pc'[d] = pc[d] /\ msg'[d] = msg[d]
                      \/ pc[d] \notin PasosPropios /\ pc'[d] \notin PasosPropios
  BY ComunesPasos DEF TipoK
<1>4. MutexBien'
  <2>1. \A c \in Cpus :
          pc'[c] \in {"leer_op", "leer_cuerpo"} <=> pc[c] \in {"leer_op", "leer_cuerpo"}
    BY <1>3 DEF PasosPropios
  <2>2. mx_comunicacion_memoria' = mx_comunicacion_memoria /\ pc_d' = pc_d
    BY DEF PropiasQuietas, flujo, dispositivos
  <2> QED
    BY <2>1, <2>2 DEF TipoK, MutexBien
<1>5. PasosBien'
  <2>1. \A c \in Cpus :
          pc'[c] = "bloquear_en" => msg'[c].syscall \in {"S_STDIN", "S_STDOUT", "S_MEM_ALLOC"}
    BY <1>3 DEF PasosPropios, TipoK, PasosBien
  <2>2. pc_km' = pc_km /\ compactacion_en_progreso' = compactacion_en_progreso
    BY DEF PropiasQuietas, flujo
  <2>3. pc_io' = "recibir"
    BY ComunesPasos DEF TipoK, PasosBien
  <2>4. pc_km' = "desalojar" => compactacion_en_progreso'
    BY <2>2, Zenon DEF TipoK, PasosBien
  <2> QED
    BY <2>1, <2>2, <2>3, <2>4 DEF TipoK, PasosBien
<1> QED
  BY <1>1, <1>2, <1>4, <1>5 DEF TipoK

-----------------------------------------------------------------------------
(* The system calls keep the types.                                         *)

LEMMA SoloHilosTipo ==
  ASSUME TipoBaseK, SoloKm, TipoHilosEn(PasosK, MensajesK)'
  PROVE  TipoBaseK'
  BY SinCambiosEn DEF TipoBaseK, TipoBaseEn, SoloKm

LEMMA PedirSoloTipo ==
  ASSUME TipoKmK, NEW p \in Pids, NEW op, [op |-> op, pid |-> p] \in PedidosK, PedirSolo(op, p)
  PROVE  TipoKmK' /\ respuestas_km' = respuestas_km
<1>1. respuestas_km' = respuestas_km
  BY DEF PedirSolo
<1> QED
  BY <1>1, PedirKmTipo DEF TipoKmK, PedirSolo

LEMMA PedidosDeK ==
  ASSUME NEW p \in Pids
  PROVE  /\ [op |-> "CREAR_SEGMENTO", pid |-> p] \in PedidosK
         /\ [op |-> "ELIMINAR_SEGMENTO", pid |-> p] \in PedidosK
         /\ [op |-> "SOLICITUD_LECTURA", pid |-> p] \in PedidosK
         /\ [op |-> "SOLICITUD_ESCRITURA", pid |-> p] \in PedidosK
         /\ [op |-> "OK", pid |-> p] \in PedidosK
  BY DEF PedidosK

(* A handler goes on with its PCB, or lets go of it.                        *)
LEMMA SeguirTipo ==
  ASSUME TipoBaseK, NEW c \in Cpus, NEW paso \in PasosK, Ir(c, paso),
         UNCHANGED <<pcb_h, msg>>,
         pc[c] \notin {"sin_conectar", "registrada", "recibir"},
         paso \notin {"sin_conectar", "registrada", "recibir"}
  PROVE  TipoHilosEn(PasosK, MensajesK)'
<1>1. pc' \in [Cpus -> PasosK] /\ \A d \in Cpus : pc'[d] = IF d = c THEN paso ELSE pc[d]
  BY DEF TipoBaseK, TipoBaseEn, TipoHilosEn, Ir
<1> QED
  BY <1>1 DEF TipoBaseK, TipoBaseEn, TipoHilosEn

LEMMA SoltarTipoK ==
  ASSUME TipoBaseK, NEW c \in Cpus, SoltarPcb(c)
  PROVE  TipoHilosEn(PasosK, MensajesK)' /\ Ir(c, "recibir")
  BY SoltarTipo, BastantesK DEF TipoBaseK, TipoBaseEn, SoltarPcb

(* The PCB of a handler that works, and where its steps lead.               *)
LEMMA TrabajaTipo ==
  ASSUME TipoBaseK, NEW c \in Cpus, pc[c] \notin {"sin_conectar", "registrada", "recibir"}
  PROVE  pcb_h[c] \in Pids
  BY DEF TipoBaseK, TipoBaseEn, TipoHilosEn

(* The owner of the mutex, when the handler of c moves.                     *)
LEMMA MutexIr ==
  ASSUME TipoBaseK, MutexBien, NEW c \in Cpus, NEW paso, Ir(c, paso), pc_d' = pc_d,
         \/ /\ paso \notin {"leer_op", "leer_cuerpo"}
            /\ \/ pc[c] \notin {"leer_op", "leer_cuerpo"} /\ UNCHANGED mx_comunicacion_memoria
               \/ pc[c] \in {"leer_op", "leer_cuerpo"} /\ mx_comunicacion_memoria' = NADIE
         \/ /\ paso \in {"leer_op", "leer_cuerpo"}
            /\ \/ mx_comunicacion_memoria = NADIE /\ mx_comunicacion_memoria' = c
               \/ pc[c] \in {"leer_op", "leer_cuerpo"} /\ UNCHANGED mx_comunicacion_memoria
  PROVE  MutexBien'
<1>1. pc'[c] = paso /\ \A d \in Cpus : d # c => pc'[d] = pc[d]
  BY IrK
<1>2. NADIE \notin Cpus /\ "stdin" \notin Cpus /\ NADIE # "stdin"
  BY LlamadasOK
<1>3. pc[c] \in {"leer_op", "leer_cuerpo"} <=> mx_comunicacion_memoria = c
  BY DEF MutexBien
<1> QED
  BY <1>1, <1>2, <1>3 DEF MutexBien

LEMMA PasosIr ==
  ASSUME TipoBaseK, PasosBien, NEW c \in Cpus, NEW paso, Ir(c, paso),
         paso = "bloquear_en" => msg'[c].syscall \in {"S_STDIN", "S_STDOUT", "S_MEM_ALLOC"},
         \A d \in Cpus : d # c => msg'[d] = msg[d],
         UNCHANGED <<pc_km, compactacion_en_progreso, pc_io>>
  PROVE  PasosBien'
<1>1. pc'[c] = paso /\ \A d \in Cpus : d # c => pc'[d] = pc[d]
  BY IrK
<1>2. pc_km' = "desalojar" => compactacion_en_progreso'
  BY Zenon DEF PasosBien
<1> QED
  BY <1>1, <1>2 DEF PasosBien

LEMMA CpuMemoriaTipo ==
  ASSUME TipoK, NEW c \in Cpus, CpuMemoria(c)
  PROVE  TipoK'
<1>1. PICK s \in Llamadas : CpuPedir(c, s, 0) /\ UNCHANGED propias
  BY DEF CpuMemoria
<1>2. corre[c] \in Pids /\ 0 \in Prioridades /\ TipoCpuEn(MensajesK)
  BY <1>1, Constantes DEF CpuPedir, TipoK, TipoBaseK, TipoBaseEn, TipoCpuEn
<1> DEFINE m == [motivo |-> "MOTIVO_SYSCALL", pid |-> corre[c], syscall |-> s, prio |-> 0]
<1>3. m \in MensajesK
  BY <1>2 DEF MensajesK
<1>4. CpuDevolver(c, m) /\ interrupcion' = interrupcion
  BY <1>1 DEF CpuPedir
<1>5. restantes' \in [Pids -> Nat]
  BY <1>1, <1>2 DEF CpuPedir, TipoCpuEn
<1>6. TipoCpuEn(MensajesK)'
  <2>1. interrupcion' \in [Cpus -> Nat \cup {NADIE}]
    BY <1>2, <1>4 DEF TipoCpuEn
  <2> HIDE DEF m
  <2> QED
    BY <1>2, <1>3, <1>4, <1>5, <2>1, DevolverTipo
<1>7. TipoBaseK'
  BY <1>4, <1>6, SinCambiosEn DEF CpuDevolver, TipoK, TipoBaseK, TipoBaseEn
<1> QED
  BY <1>1, <1>4, <1>7, SinCambiosK
  DEF CpuDevolver, TipoK, propias, flujo, compactar, km, hilos, io, dispositivos

(* A call is received: its handler takes the PCB its CPU is marked with.    *)
LEMMA RecibirTipoK ==
  ASSUME TipoK, NEW c \in Cpus, NEW s, NEW paso \in {"bloquear_en", "mem_free"},
         RecibirLlamada(c, s, paso),
         paso = "bloquear_en" => s \in {"S_STDIN", "S_STDOUT", "S_MEM_ALLOC"},
         estado' \in [Pids -> Estados]
  PROVE  TipoK'
<1> DEFINE m == Head(motivos[c])
<1>0. TipoProcesos /\ TipoCpusKs /\ TipoHilosEn(PasosK, MensajesK) /\ TipoCpuEn(MensajesK)
  BY DEF TipoK, TipoBaseK, TipoBaseEn
<1>1. Recibir(c, m, paso) /\ m.syscall = s /\ UNCHANGED propias
  BY DEF RecibirLlamada
<1>2. motivos[c] \in Seq(MensajesK) /\ motivos[c] # <<>> /\ ejecutando[c] \in Pids
  BY <1>0, <1>1 DEF Recibir, TipoCpuEn, TipoCpusKs
<1>3. m \in MensajesK
  BY <1>2
<1> HIDE DEF m
<1>4. TipoHilosEn(PasosK, MensajesK)'
  <2>1. /\ pc' \in [Cpus -> PasosK] /\ msg' \in [Cpus -> MensajesK]
        /\ pcb_h' \in [Cpus -> Pids \cup {NADIE}]
    BY <1>0, <1>1, <1>2, <1>3 DEF Recibir, Ir, TipoHilosEn, PasosK, PasosPropios
  <2>2. \A d \in Cpus : /\ pc'[d] = IF d = c THEN paso ELSE pc[d]
                        /\ pcb_h'[d] = IF d = c THEN ejecutando[c] ELSE pcb_h[d]
    BY <1>0, <1>1 DEF Recibir, Ir, TipoHilosEn
  <2> QED
    BY <1>0, <1>2, <2>1, <2>2, ConstantesOK DEF TipoHilosEn
<1>5. TipoCpuEn(MensajesK)' /\ TipoProcesos'
  BY <1>0, <1>1, <1>2 DEF Recibir, TipoCpuEn, TipoProcesos
<1>6. TipoBaseK'
  BY <1>1, <1>4, <1>5, SinCambiosEn DEF Recibir, TipoK, TipoBaseK, TipoBaseEn
<1>7. MutexBien' /\ PasosBien'
  <2>1. Ir(c, paso) /\ pc[c] = "recibir" /\ msg'[c].syscall = s
    BY <1>0, <1>1 DEF Recibir, TipoHilosEn
  <2>2. \A d \in Cpus : d # c => msg'[d] = msg[d]
    BY <1>0, <1>1 DEF Recibir, TipoHilosEn
  <2>3. UNCHANGED <<pc_d, mx_comunicacion_memoria, pc_km, compactacion_en_progreso, pc_io>>
    BY <1>1 DEF Recibir, propias, flujo, compactar, dispositivos, io
  <2> QED
    BY <2>1, <2>2, <2>3, MutexIr, PasosIr DEF TipoK
<1> QED
  BY <1>1, <1>6, <1>7, SinCambiosK DEF Recibir, TipoK, propias, flujo, km

(* The steps of a handler between its call and the request it makes.        *)
LEMMA LlamadaTipo ==
  ASSUME TipoK, NEW c \in Cpus,
         RecibirBloqueante(c) \/ RecibirMemFree(c) \/ RecibirYNada(c) \/ BloquearEn(c)
  PROVE  TipoK'
<1>0. /\ TipoBaseK /\ TipoProcesos /\ TipoCpusKs /\ TipoHilosEn(PasosK, MensajesK)
      /\ TipoCpuEn(MensajesK)
  BY DEF TipoK, TipoBaseK, TipoBaseEn
<1>1. CASE RecibirBloqueante(c)
  <2>1. PICK s \in {"S_STDIN", "S_STDOUT", "S_MEM_ALLOC"} :
          /\ RecibirLlamada(c, s, "bloquear_en")
          /\ estado' = [estado EXCEPT ![ejecutando[c]] = "BLOCK"]
    BY <1>1 DEF RecibirBloqueante
  <2>2. estado' \in [Pids -> Estados]
    BY <1>0, <2>1 DEF TipoProcesos, Estados
  <2> QED
    BY <2>1, <2>2, RecibirTipoK
<1>2. CASE RecibirMemFree(c)
  BY <1>0, <1>2, RecibirTipoK DEF RecibirMemFree, TipoProcesos
<1>3. CASE RecibirYNada(c)
  <2>1. TipoCpuEn(MensajesK)'
    BY <1>0, <1>3 DEF RecibirYNada, TipoCpuEn
  <2>2. TipoBaseK'
    BY <1>0, <1>3, <2>1, SinCambiosEn DEF RecibirYNada, TipoBaseK, TipoBaseEn
  <2> QED
    BY <1>3, <2>2, SinCambiosK
    DEF RecibirYNada, TipoK, propias, flujo, compactar, km, hilos, io, dispositivos
<1>4. CASE BloquearEn(c)
  <2> DEFINE k == ClaseDe(msg[c].syscall)
             p == pcb_h[c]
  <2>1. k \in Clases /\ p \in Pids
    BY <1>0, <1>4, TrabajaTipo DEF BloquearEn, TipoK, PasosBien, ClaseDe, Clases
  <2>2. /\ block' = [block EXCEPT ![k] = Append(@, p)]
        /\ relojes' = [relojes EXCEPT ![k][p] = @ + 1] /\ UNCHANGED <<susp, retirados>>
        /\ Ir(c, "block_liberar") /\ UNCHANGED <<pcb_h, msg>>
    BY <1>4 DEF BloquearEn
  <2>3. TipoBloqueos'
    <3> HIDE DEF k, p
    <3> QED
      BY <2>1, <2>2 DEF TipoK, TipoBloqueos
  <2>4. TipoBaseK'
    <3>1. TipoHilosEn(PasosK, MensajesK)'
      BY <1>0, <1>4, <2>2, SeguirTipo DEF BloquearEn, PasosK, PasosHilo
    <3> QED
      BY <1>0, <1>4, <3>1, SinCambiosEn DEF BloquearEn, TipoBaseK, TipoBaseEn
  <2>5. UNCHANGED <<km, dispositivos, flujo, compactar, io>>
    BY <1>4 DEF BloquearEn
  <2>6. MutexBien' /\ PasosBien'
    <3>1. UNCHANGED <<pc_d, mx_comunicacion_memoria, pc_km, compactacion_en_progreso, pc_io>>
      BY <2>5 DEF dispositivos, flujo, compactar, io
    <3>2. pc[c] \notin {"leer_op", "leer_cuerpo"}
      BY <1>4 DEF BloquearEn
    <3> QED
      BY <1>0, <2>2, <3>1, <3>2, MutexIr, PasosIr DEF TipoK
  <2> QED
    BY <2>3, <2>4, <2>5, <2>6, SinCambiosK DEF TipoK, flujo, km
<1> QED
  BY <1>1, <1>2, <1>3, <1>4

(* A request for a device.                                                  *)
LEMMA EncargarTipo ==
  ASSUME TipoDispositivos, NEW d \in Dispositivos,
         NEW x \in [pid : Pids, dato : Pids \cup {NADIE}],
         pedidos_d' = [pedidos_d EXCEPT ![d] = Append(@, x)],
         UNCHANGED <<respuestas_d, pc_d, pcb_d>>
  PROVE  TipoDispositivos'
<1> DEFINE R == [pid : Pids, dato : Pids \cup {NADIE}]
<1>1. pedidos_d \in [Dispositivos -> Seq(R)] /\ x \in R
  BY DEF TipoDispositivos
<1> HIDE DEF R
<1>2. Append(pedidos_d[d], x) \in Seq(R)
  BY <1>1, AppendProperties
<1>3. pedidos_d' \in [Dispositivos -> Seq(R)]
  BY <1>1, <1>2
<1> QED
  BY <1>3 DEF TipoDispositivos, R

(* The requests: a handler that asks takes the mutex or finds it free.      *)
LEMMA PedidoTipo ==
  ASSUME TipoK, NEW c \in Cpus,
         MemAllocPedir(c) \/ StdinPedir(c) \/ StdoutPedir(c) \/ MemFreePedir(c)
  PROVE  TipoK'
<1>0. TipoBaseK /\ TipoKmK /\ MutexBien /\ PasosBien /\ TipoHilosEn(PasosK, MensajesK)
  BY DEF TipoK, TipoBaseK, TipoBaseEn
<1>1. /\ pc[c] \in {"block_io", "mem_free"} /\ pcb_h[c] \in Pids
      /\ SoloKm /\ UNCHANGED <<bloqueos, cuerpos, pc_km, compactar>>
  BY <1>0, TrabajaTipo
  DEF MemAllocPedir, StdinPedir, StdoutPedir, MemFreePedir, propias, flujo
<1>2. UNCHANGED <<pc_io, compactacion_en_progreso>> /\ TipoBloqueos'
  BY <1>1, SinCambiosK DEF SoloKm, io, compactar, TipoK
<1>3. CASE MemAllocPedir(c) \/ StdinPedir(c)
  <2>1. SoltarPcb(c) /\ UNCHANGED mx_comunicacion_memoria /\ pc_d' = pc_d
    BY <1>3 DEF MemAllocPedir, StdinPedir, propias, flujo, dispositivos
  <2>2. TipoBaseK' /\ Ir(c, "recibir")
    BY <1>0, <1>1, <2>1, SoltarTipoK, SoloHilosTipo
  <2>3. MutexBien' /\ PasosBien'
    <3>1. \A d \in Cpus : d # c => msg'[d] = msg[d]
      BY <1>0, <2>1 DEF SoltarPcb, TipoHilosEn
    <3> QED
      BY <1>0, <1>1, <1>2, <2>1, <2>2, <3>1, MutexIr, PasosIr
  <2>4. TipoKmK' /\ respuestas_km' = respuestas_km
    BY <1>0, <1>1, <1>3, PedirSoloTipo, PedidosDeK, SinCambiosK
    DEF MemAllocPedir, StdinPedir, km
  <2>5. TipoDispositivos'
    <3>1. CASE MemAllocPedir(c)
      BY <3>1, SinCambiosK DEF MemAllocPedir, TipoK, propias
    <3>2. CASE StdinPedir(c)
      <4> DEFINE x == [pid |-> pcb_h[c], dato |-> NADIE]
      <4>1. x \in [pid : Pids, dato : Pids \cup {NADIE}]
        BY <1>1
      <4>2. /\ pedidos_d' = [pedidos_d EXCEPT !["stdin"] = Append(@, x)]
            /\ UNCHANGED <<respuestas_d, pc_d, pcb_d>> /\ "stdin" \in Dispositivos
        BY <3>2 DEF StdinPedir, Dispositivos
      <4> HIDE DEF x
      <4> QED
        BY <4>1, <4>2, EncargarTipo DEF TipoK
    <3> QED
      BY <1>3, <3>1, <3>2
  <2> QED
    BY <1>1, <1>2, <2>2, <2>3, <2>4, <2>5, SinCambiosK DEF TipoK
<1>4. CASE StdoutPedir(c) \/ MemFreePedir(c)
  <2>1. PICK paso \in {"leer_op", "ready_liberar"} :
          /\ Ir(c, paso)
          /\ paso = "leer_op" => Tomar(c)
          /\ paso = "ready_liberar" => UNCHANGED mx_comunicacion_memoria
    BY <1>4 DEF StdoutPedir, MemFreePedir, propias, flujo
  <2>2. UNCHANGED <<pcb_h, msg, dispositivos>>
    BY <1>4 DEF StdoutPedir, MemFreePedir, propias
  <2>3. TipoBaseK'
    BY <1>0, <1>1, <2>1, <2>2, SeguirTipo, SoloHilosTipo DEF PasosK, PasosHilo, PasosPropios
  <2>4. MutexBien' /\ PasosBien'
    BY <1>0, <1>1, <1>2, <2>1, <2>2, MutexIr, PasosIr DEF Tomar, dispositivos
  <2>5. TipoKmK' /\ respuestas_km' = respuestas_km
    BY <1>0, <1>1, <1>4, PedirSoloTipo, PedidosDeK DEF StdoutPedir, MemFreePedir
  <2> QED
    BY <1>1, <1>2, <2>2, <2>3, <2>4, <2>5, SinCambiosK DEF TipoK
<1> QED
  BY <1>3, <1>4

(* STDOUT reads the answer under the mutex it holds.                        *)
LEMMA LecturaTipo ==
  ASSUME TipoK, NEW c \in Cpus, StdoutCodigo(c) \/ StdoutDatos(c)
  PROVE  TipoK'
<1>0. /\ TipoBaseK /\ TipoKmK /\ MutexBien /\ PasosBien /\ TipoHilosEn(PasosK, MensajesK)
      /\ TipoDispositivos /\ CuerposBien
  BY DEF TipoK, TipoBaseK, TipoBaseEn
<1>1. /\ pc[c] \in {"leer_op", "leer_cuerpo"} /\ pcb_h[c] \in Pids /\ TomarPalabra
      /\ SoloKm /\ UNCHANGED <<bloqueos, pc_km, compactar, respuestas_d, pc_d, pcb_d>>
  BY <1>0, TrabajaTipo DEF StdoutCodigo, StdoutDatos, dispositivos
<1>2. UNCHANGED <<pc_io, compactacion_en_progreso>> /\ TipoBloqueos'
  BY <1>1, SinCambiosK DEF SoloKm, io, compactar, TipoK
<1>3. TipoKmK' /\ CuerposBien' /\ (Palabra = "CUERPO" => Head(cuerpos) \in Pids)
  BY <1>0, <1>1, TomarTipo
<1>4. TipoDispositivos'
  <2>1. \/ UNCHANGED pedidos_d
        \/ \E x \in Pids \cup {NADIE} :
             pedidos_d' = [pedidos_d EXCEPT !["stdout"] = Append(@, [pid |-> pcb_h[c], dato |-> x])]
    BY <1>3 DEF StdoutCodigo, StdoutDatos, Imprimir, dispositivos
  <2>2. CASE UNCHANGED pedidos_d
    BY <1>0, <1>1, <2>2 DEF TipoDispositivos
  <2>3. CASE \E x \in Pids \cup {NADIE} :
             pedidos_d' = [pedidos_d EXCEPT !["stdout"] = Append(@, [pid |-> pcb_h[c], dato |-> x])]
    <3>1. PICK x \in Pids \cup {NADIE} :
             pedidos_d' = [pedidos_d EXCEPT !["stdout"] = Append(@, [pid |-> pcb_h[c], dato |-> x])]
      BY <2>3
    <3> DEFINE m == [pid |-> pcb_h[c], dato |-> x]
    <3>2. m \in [pid : Pids, dato : Pids \cup {NADIE}] /\ "stdout" \in Dispositivos
      BY <1>1 DEF Dispositivos
    <3>3. pedidos_d' = [pedidos_d EXCEPT !["stdout"] = Append(@, m)]
      BY <3>1
    <3> HIDE DEF m
    <3> QED
      BY <1>0, <1>1, <3>2, <3>3, EncargarTipo
  <2> QED
    BY <2>1, <2>2, <2>3
<1>5. CASE UNCHANGED <<hilos, mx_comunicacion_memoria>>
  <2>1. TipoBaseK'
    BY <1>0, <1>1, <1>5, SinCambiosEn, SoloHilosTipo DEF hilos, TipoHilosEn
  <2> QED
    BY <1>0, <1>1, <1>2, <1>3, <1>4, <1>5, <2>1, SinCambiosK DEF TipoK, hilos
<1>6. CASE Ir(c, "leer_cuerpo") /\ UNCHANGED <<pcb_h, msg, mx_comunicacion_memoria>>
  <2>1. TipoBaseK'
    BY <1>0, <1>1, <1>6, SeguirTipo, SoloHilosTipo DEF PasosK, PasosPropios
  <2>2. MutexBien' /\ PasosBien'
    BY <1>0, <1>1, <1>2, <1>6, MutexIr, PasosIr
  <2> QED
    BY <1>2, <1>3, <1>4, <2>1, <2>2 DEF TipoK
<1>7. CASE SoltarPcb(c) /\ mx_comunicacion_memoria' = NADIE
  <2>1. TipoBaseK' /\ Ir(c, "recibir")
    BY <1>0, <1>1, <1>7, SoltarTipoK, SoloHilosTipo
  <2>2. \A d \in Cpus : d # c => msg'[d] = msg[d]
    BY <1>0, <1>7 DEF SoltarPcb, TipoHilosEn
  <2>3. MutexBien' /\ PasosBien'
    BY <1>0, <1>1, <1>2, <1>7, <2>1, <2>2, MutexIr, PasosIr
  <2> QED
    BY <1>2, <1>3, <1>4, <2>1, <2>3 DEF TipoK
<1> QED
  BY <1>5, <1>6, <1>7 DEF StdoutCodigo, StdoutDatos, Imprimir

-----------------------------------------------------------------------------
(* The devices and the timers keep the types.                               *)

LEMMA SinPlanTipo ==
  ASSUME TipoK, SinPlan, UNCHANGED <<pc_km, compactacion_en_progreso>>
  PROVE  TipoBaseK' /\ PasosBien' /\ UNCHANGED <<pc, msg>>
<1>1. UNCHANGED <<pc, msg, pc_io>>
  BY DEF SinPlan, hilos, io
<1> QED
  BY <1>1, SinCambiosK DEF TipoK

(* The owner of the mutex, when a device's thread moves.                    *)
LEMMA MutexD ==
  ASSUME MutexBien, TipoDispositivos, NEW d \in Dispositivos, NEW paso,
         pc' = pc, pc_d' = [pc_d EXCEPT ![d] = paso],
         \/ /\ paso # "confirmar" /\ pc_d[d] # "confirmar"
            /\ mx_comunicacion_memoria' = mx_comunicacion_memoria
         \/ d = "stdin" /\ paso = "confirmar" /\ Tomar("stdin")
         \/ /\ d = "stdin" /\ paso # "confirmar" /\ pc_d[d] = "confirmar"
            /\ mx_comunicacion_memoria' = NADIE
  PROVE  MutexBien'
<1>1. \A e \in Dispositivos : pc_d'[e] = IF e = d THEN paso ELSE pc_d[e]
  BY DEF TipoDispositivos
<1>2. "stdin" \in Dispositivos /\ NADIE \notin Cpus /\ "stdin" \notin Cpus /\ NADIE # "stdin"
  BY LlamadasOK DEF Dispositivos
<1> QED
  BY <1>1, <1>2 DEF MutexBien, Tomar

LEMMA TurnoD ==
  ASSUME TipoDispositivos, NEW d \in Dispositivos,
         NEW paso \in {"recibir", "buscar_susp", "escribir", "confirmar", "encolar", "avisar"},
         NEW q \in Pids \cup {NADIE}, q = NADIE <=> paso = "recibir",
         pc_d' = [pc_d EXCEPT ![d] = paso], pcb_d' = [pcb_d EXCEPT ![d] = q],
         pedidos_d' = pedidos_d, respuestas_d' \in [Dispositivos -> Seq(Pids)]
  PROVE  TipoDispositivos'
<1>1. \A e \in Dispositivos : /\ pc_d'[e] = IF e = d THEN paso ELSE pc_d[e]
                              /\ pcb_d'[e] = IF e = d THEN q ELSE pcb_d[e]
  BY DEF TipoDispositivos
<1> QED
  BY <1>1 DEF TipoDispositivos

LEMMA ServirTipo ==
  ASSUME TipoK, NEW d \in Dispositivos, Servir(d)
  PROVE  TipoK'
<1> DEFINE R == [pid : Pids, dato : Pids \cup {NADIE}]
           r == Head(pedidos_d[d])
<1>1. /\ pedidos_d \in [Dispositivos -> Seq(R)] /\ pedidos_d[d] # <<>>
      /\ respuestas_d \in [Dispositivos -> Seq(Pids)]
  BY DEF Servir, TipoK, TipoDispositivos
<1>2. r \in R /\ r.pid \in Pids
  <2>1. r \in R
    <3> HIDE DEF R
    <3> QED
      BY <1>1
  <2> QED
    BY <2>1
<1>3. Tail(pedidos_d[d]) \in Seq(R) /\ Append(respuestas_d[d], r.pid) \in Seq(Pids)
  <2> HIDE DEF R, r
  <2> QED
    BY <1>1, <1>2
<1>4. /\ pedidos_d' = [pedidos_d EXCEPT ![d] = Tail(pedidos_d[d])]
      /\ respuestas_d' = [respuestas_d EXCEPT ![d] = Append(respuestas_d[d], r.pid)]
  BY <1>1 DEF Servir
<1>5. TipoDispositivos'
  <2>1. /\ pedidos_d' \in [Dispositivos -> Seq(R)]
        /\ respuestas_d' \in [Dispositivos -> Seq(Pids)]
    <3> HIDE DEF R, r
    <3> QED
      BY <1>1, <1>3, <1>4
  <2> QED
    BY <2>1 DEF Servir, TipoK, TipoDispositivos
<1>6. SinPlan /\ UNCHANGED <<km, bloqueos, flujo, compactar, pc_d>>
  BY DEF Servir
<1>7. UNCHANGED <<pc_km, compactacion_en_progreso, cuerpos, respuestas_km,
                  mx_comunicacion_memoria>>
  BY <1>6 DEF flujo, compactar, km
<1> QED
  BY <1>5, <1>6, <1>7, SinPlanTipo, SinCambiosK DEF TipoK

(* The answer takes the PCB out of one of the two lists of its class.       *)
LEMMA BuscarTipo ==
  ASSUME TipoK, NEW d \in Dispositivos, BuscarBlock(d) \/ BuscarSusp(d)
  PROVE  TipoK'
<1>0. TipoDispositivos /\ TipoBloqueos /\ d \in Clases
  BY DEF TipoK, Dispositivos, Clases
<1>1. /\ SinPlan
      /\ UNCHANGED <<km, relojes, retirados, flujo, compactar, pedidos_d>>
  BY DEF BuscarBlock, BuscarSusp
<1>2. \E paso \in {"recibir", "buscar_susp", "escribir", "encolar"}, q \in Pids \cup {NADIE} :
        /\ q = NADIE <=> paso = "recibir"
        /\ pc_d' = [pc_d EXCEPT ![d] = paso] /\ pcb_d' = [pcb_d EXCEPT ![d] = q]
        /\ pc_d[d] # "confirmar" /\ respuestas_d' \in [Dispositivos -> Seq(Pids)]
  <2>1. CASE BuscarBlock(d)
    <3> DEFINE p == Head(respuestas_d[d])
               paso == IF EnLista(p, block[d]) THEN TrasEncontrar(d) ELSE "buscar_susp"
    <3>1. p \in Pids /\ respuestas_d' \in [Dispositivos -> Seq(Pids)]
      BY <1>0, <2>1 DEF BuscarBlock, TipoDispositivos
    <3>2. paso \in {"buscar_susp", "escribir", "encolar"}
      BY DEF TrasEncontrar
    <3>3. /\ pc_d' = [pc_d EXCEPT ![d] = paso] /\ pcb_d' = [pcb_d EXCEPT ![d] = p]
          /\ pc_d[d] # "confirmar"
      BY <2>1 DEF BuscarBlock
    <3> HIDE DEF p, paso
    <3> QED
      BY <3>1, <3>2, <3>3, ConstantesOK
  <2>2. CASE BuscarSusp(d)
    <3> DEFINE esta == EnLista(pcb_d[d], susp[d])
               paso == IF esta THEN TrasEncontrar(d) ELSE "recibir"
               q == IF esta THEN pcb_d[d] ELSE NADIE
    <3>1. pcb_d[d] \in Pids
      BY <1>0, <2>2 DEF BuscarSusp, TipoDispositivos
    <3>2. paso \in {"recibir", "escribir", "encolar"} /\ (paso = "recibir" <=> ~ esta)
      BY DEF TrasEncontrar
    <3>3. /\ pc_d' = [pc_d EXCEPT ![d] = paso] /\ pcb_d' = [pcb_d EXCEPT ![d] = q]
          /\ pc_d[d] # "confirmar" /\ respuestas_d' \in [Dispositivos -> Seq(Pids)]
      BY <1>0, <2>2 DEF BuscarSusp, TipoDispositivos
    <3>4. q \in Pids \cup {NADIE} /\ (q = NADIE <=> paso = "recibir")
      <4> HIDE DEF esta, paso
      <4> QED
        BY <3>1, <3>2, ConstantesOK
    <3> HIDE DEF q, paso
    <3> QED
      BY <3>2, <3>3, <3>4
  <2> QED
    BY <2>1, <2>2
<1>3. PICK paso \in {"recibir", "buscar_susp", "escribir", "encolar"},
           q \in Pids \cup {NADIE} :
        /\ q = NADIE <=> paso = "recibir"
        /\ pc_d' = [pc_d EXCEPT ![d] = paso] /\ pcb_d' = [pcb_d EXCEPT ![d] = q]
        /\ pc_d[d] # "confirmar" /\ respuestas_d' \in [Dispositivos -> Seq(Pids)]
  BY <1>2
<1>4. TipoDispositivos'
  BY <1>0, <1>1, <1>3, TurnoD
<1>5. TipoBloqueos'
  <2>1. \A s \in Seq(Pids) : \A p : Quitar(p, s) \in Seq(Pids)
    BY QuitarUno
  <2>2. /\ block' = block \/ \E p : block' = [block EXCEPT ![d] = Quitar(p, @)]
        /\ susp' = susp \/ \E p : susp' = [susp EXCEPT ![d] = Quitar(p, @)]
    BY DEF BuscarBlock, BuscarSusp
  <2>3. block' \in [Clases -> Seq(Pids)] /\ susp' \in [Clases -> Seq(Pids)]
    <3> DEFINE S == Seq(Pids)
    <3>1. /\ block \in [Clases -> S] /\ susp \in [Clases -> S]
          /\ \A s \in S : \A p : Quitar(p, s) \in S
      BY <1>0, <2>1 DEF TipoBloqueos
    <3> HIDE DEF S
    <3>2. block' \in [Clases -> S]
      BY <1>0, <2>2, <3>1
    <3>3. susp' \in [Clases -> S]
      BY <1>0, <2>2, <3>1
    <3> QED
      BY <3>2, <3>3 DEF S
  <2> QED
    BY <1>0, <1>1, <2>3 DEF TipoBloqueos
<1>6. UNCHANGED <<pc_km, compactacion_en_progreso, cuerpos, respuestas_km,
                  mx_comunicacion_memoria>>
  BY <1>1 DEF flujo, compactar, km
<1>7. TipoBaseK' /\ PasosBien' /\ pc' = pc
  BY <1>1, <1>6, SinPlanTipo
<1>8. MutexBien'
  BY <1>0, <1>3, <1>6, <1>7, MutexD DEF TipoK
<1> QED
  BY <1>1, <1>4, <1>5, <1>6, <1>7, <1>8, SinCambiosK DEF TipoK

(* STDIN writes under the mutex, and gives it back with one word.           *)
LEMMA StdinTipo ==
  ASSUME TipoK, StdinEscribir \/ StdinConfirmar
  PROVE  TipoK'
<1>0. TipoDispositivos /\ "stdin" \in Dispositivos
  BY DEF TipoK, Dispositivos
<1>1. SinPlan /\ UNCHANGED <<bloqueos, pc_km, compactar, pedidos_d, respuestas_d, pcb_d>>
  BY DEF StdinEscribir, StdinConfirmar
<1>2. \E paso \in {"confirmar", "encolar"} :
        /\ pc_d' = [pc_d EXCEPT !["stdin"] = paso]
        /\ pc_d["stdin"] \in {"escribir", "confirmar"}
        /\ paso = "confirmar" => Tomar("stdin")
        /\ paso = "encolar" => pc_d["stdin"] = "confirmar" /\ mx_comunicacion_memoria' = NADIE
  BY DEF StdinEscribir, StdinConfirmar
<1>3. PICK paso \in {"confirmar", "encolar"} :
        /\ pc_d' = [pc_d EXCEPT !["stdin"] = paso]
        /\ pc_d["stdin"] \in {"escribir", "confirmar"}
        /\ paso = "confirmar" => Tomar("stdin")
        /\ paso = "encolar" => pc_d["stdin"] = "confirmar" /\ mx_comunicacion_memoria' = NADIE
  BY <1>2
<1>4. TipoDispositivos'
  <2>1. pcb_d["stdin"] \in Pids
    BY <1>0, <1>3 DEF TipoDispositivos
  <2>2. pcb_d' = [pcb_d EXCEPT !["stdin"] = pcb_d["stdin"]]
    BY <1>0, <1>1 DEF TipoDispositivos
  <2>3. respuestas_d' \in [Dispositivos -> Seq(Pids)]
    BY <1>0, <1>1 DEF TipoDispositivos
  <2> QED
    BY <1>0, <1>1, <1>3, <2>1, <2>2, <2>3, TurnoD, ConstantesOK
<1>5. TipoBaseK' /\ PasosBien' /\ pc' = pc
  BY <1>1, SinPlanTipo DEF compactar
<1>6. MutexBien'
  BY <1>0, <1>3, <1>5, MutexD DEF TipoK
<1>7. TipoKmK' /\ CuerposBien'
  <2>1. CASE StdinEscribir
    <3>1. pcb_d["stdin"] \in Pids
      BY <1>0, <1>3 DEF TipoDispositivos
    <3>2. TipoKmK' /\ respuestas_km' = respuestas_km
      BY <2>1, <3>1, PedirSoloTipo, PedidosDeK DEF StdinEscribir, TipoK
    <3> QED
      BY <2>1, <3>2, SinCambiosK DEF StdinEscribir, TipoK
  <2>2. CASE StdinConfirmar
    BY <2>2, TomarTipo DEF StdinConfirmar, TipoK
  <2> QED
    BY <2>1, <2>2
<1> QED
  BY <1>1, <1>4, <1>5, <1>6, <1>7, SinCambiosK DEF TipoK

(* The process goes to READY, and the planner is told.                      *)
LEMMA EncolarTipo ==
  ASSUME TipoK, NEW d \in Dispositivos, Encolar(d) \/ Avisar(d)
  PROVE  TipoK'
<1>0. /\ TipoDispositivos /\ TipoProcesos /\ TipoColas /\ TipoSemaforos /\ TipoCpusKs
      /\ TipoCpuEn(MensajesK) /\ TipoBaseK
  BY DEF TipoK, TipoBaseK, TipoBaseEn
<1>1. pcb_d[d] \in Pids /\ pc_d[d] \in {"encolar", "avisar"}
  BY <1>0 DEF Encolar, Avisar, TipoDispositivos
<1>2. TipoBaseK' /\ UNCHANGED <<hilos, io, km>>
  <2>1. CASE Encolar(d)
    <3>1. ListaReadyCon(pcb_d[d]) \in [Prioridades -> Seq(Pids)]
      BY <1>0, <1>1, ListaReadyTipo
    <3>2. TipoProcesos'
      BY <1>0, <1>1, <2>1 DEF Encolar, TipoProcesos, Estados
    <3>3. TipoColas'
      BY <1>0, <2>1, <3>1 DEF Encolar, TipoColas
    <3> QED
      BY <1>0, <2>1, <3>2, <3>3, SinCambiosEn DEF Encolar, TipoBaseK, TipoBaseEn
  <2>2. CASE Avisar(d)
    <3>1. interrupcion' \in [Cpus -> Nat \cup {NADIE}]
      BY <1>0, <1>1, <2>2, VerificarTipo DEF Avisar
    <3>2. TipoCpuEn(MensajesK)' /\ TipoSemaforos'
      BY <1>0, <2>2, <3>1 DEF Avisar, TipoCpuEn, TipoSemaforos
    <3> QED
      BY <1>0, <2>2, <3>2, SinCambiosEn DEF Avisar, TipoBaseK, TipoBaseEn
  <2> QED
    BY <2>1, <2>2
<1>3. UNCHANGED <<bloqueos, flujo, compactar, pedidos_d, respuestas_d>>
  BY DEF Encolar, Avisar
<1>4. \E paso \in {"avisar", "recibir"}, q \in Pids \cup {NADIE} :
        /\ q = NADIE <=> paso = "recibir"
        /\ pc_d' = [pc_d EXCEPT ![d] = paso] /\ pcb_d' = [pcb_d EXCEPT ![d] = q]
  <2>1. CASE Encolar(d)
    <3>1. pcb_d' = [pcb_d EXCEPT ![d] = pcb_d[d]]
      BY <1>0, <2>1 DEF Encolar, TipoDispositivos
    <3> QED
      BY <1>1, <2>1, <3>1, ConstantesOK DEF Encolar
  <2>2. CASE Avisar(d)
    BY <2>2 DEF Avisar
  <2> QED
    BY <2>1, <2>2
<1>5. PICK paso \in {"avisar", "recibir"}, q \in Pids \cup {NADIE} :
        /\ q = NADIE <=> paso = "recibir"
        /\ pc_d' = [pc_d EXCEPT ![d] = paso] /\ pcb_d' = [pcb_d EXCEPT ![d] = q]
  BY <1>4
<1>6. TipoDispositivos'
  <2>1. respuestas_d' \in [Dispositivos -> Seq(Pids)]
    BY <1>0, <1>3 DEF TipoDispositivos
  <2> QED
    BY <1>0, <1>3, <1>5, <2>1, TurnoD
<1>7. UNCHANGED <<pc, msg, pc_io, pc_km, compactacion_en_progreso, cuerpos, respuestas_km,
                  mx_comunicacion_memoria>>
  BY <1>2, <1>3 DEF flujo, compactar, km, hilos, io
<1>8. MutexBien'
  BY <1>0, <1>1, <1>5, <1>7, MutexD DEF TipoK
<1> QED
  BY <1>2, <1>3, <1>6, <1>7, <1>8, SinCambiosK DEF TipoK

(* A timer takes a PCB out of its list, and suspends it.                    *)
LEMMA RelojTipo ==
  ASSUME TipoK, NEW k \in Clases, NEW p \in Pids, RetirarDe(k, p) \/ SuspenderEn(k, p)
  PROVE  TipoK'
<1>0. TipoBloqueos /\ TipoProcesos /\ TipoTemps
  BY DEF TipoK, TipoBaseK, TipoBaseEn
<1>1. CASE RetirarDe(k, p)
  <2>1. SinPlan /\ UNCHANGED <<km, flujo, compactar, dispositivos>>
    BY <1>1 DEF RetirarDe
  <2>2. UNCHANGED <<pc_km, compactacion_en_progreso, cuerpos, respuestas_km, pc_d,
                    mx_comunicacion_memoria>>
    BY <2>1 DEF flujo, compactar, km, dispositivos
  <2>3. TipoBloqueos'
    <3>1. Quitar(p, block[k]) \in Seq(Pids) /\ Alcanzados(k, p) \subseteq Pids
      BY <1>0, QuitarUno DEF TipoBloqueos, Alcanzados
    <3>2. /\ block' = [block EXCEPT ![k] = Quitar(p, block[k])] /\ susp' = susp
          /\ retirados' = [retirados EXCEPT ![k] = retirados[k] \cup Alcanzados(k, p)]
          /\ relojes' = [relojes EXCEPT ![k] = [relojes[k] EXCEPT ![p] = relojes[k][p] - 1]]
          /\ relojes[k][p] > 0
      BY <1>1 DEF RetirarDe
    <3>3. [relojes[k] EXCEPT ![p] = relojes[k][p] - 1] \in [Pids -> Nat]
      BY <1>0, <3>2 DEF TipoBloqueos
    <3> QED
      BY <1>0, <3>1, <3>2, <3>3 DEF TipoBloqueos
  <2> QED
    BY <2>1, <2>2, <2>3, SinPlanTipo, SinCambiosK DEF TipoK
<1>2. CASE SuspenderEn(k, p)
  <2>1. UNCHANGED <<colas, semaforos, cpus_ks, largo, corto, hilos, io, km, cpu, flujo,
                    compactar, dispositivos>>
    BY <1>2 DEF SuspenderEn
  <2>2. UNCHANGED <<pc, msg, pc_io, pc_km, compactacion_en_progreso, cuerpos, respuestas_km,
                    pc_d, mx_comunicacion_memoria>>
    BY <2>1 DEF flujo, compactar, km, dispositivos, hilos, io
  <2>3. TipoBloqueos'
    BY <1>0, <1>2 DEF SuspenderEn, ListaSusp, TipoBloqueos
  <2>4. TipoProcesos' /\ TipoTemps'
    BY <1>0, <1>2 DEF SuspenderEn, TipoProcesos, TipoTemps, Estados
  <2>5. TipoBaseK'
    BY <2>1, <2>4, SinCambiosEn DEF TipoK, TipoBaseK, TipoBaseEn
  <2> QED
    BY <2>1, <2>2, <2>3, <2>5, SinCambiosK DEF TipoK
<1> QED
  BY <1>1, <1>2

-----------------------------------------------------------------------------
(* What Kernel Memory sends, and what the listener makes of it.             *)

LEMMA ConRespuestaTipo ==
  ASSUME TipoK, NEW ws, NEW cs, ConRespuesta(ws, cs), pedidos_km # <<>>,
         \/ ws = <<>> /\ cs = <<>>
         \/ cs = <<>> /\ \E w \in PalabrasK \ {"CUERPO"} : ws = <<w>>
         \/ \E w \in PalabrasK \ {"CUERPO"}, p \in Pids : ws = <<w, "CUERPO">> /\ cs = <<p>>
         \/ ws = <<"RESPUESTA_ESCRITURA", "LARGO", "LARGO", "OK">> /\ cs = <<>>
  PROVE  TipoKmK' /\ CuerposBien'
<1>1. TipoKmK /\ CuerposBien /\ pedidos_km \in Seq(PedidosK)
  BY DEF TipoK, TipoKmK, TipoKmEn
<1>2. Tail(pedidos_km) \in Seq(PedidosK)
  <2> HIDE DEF PedidosK
  <2> QED
    BY <1>1
<1>3. /\ ResponderKm(ws) /\ cuerpos' = cuerpos \o cs /\ pedidos_km' \in Seq(PedidosK)
      /\ UNCHANGED <<ultima_respuesta_km, km_procesos, en_swap>>
  BY <1>2 DEF ConRespuesta, SoloKmQueda
<1> QED
  BY <1>1, <1>3, ResponderTipo

LEMMA KmTipoK ==
  ASSUME TipoK,
         \/ KmCrearSegmento \/ KmConfirmada \/ KmEliminarSegmento \/ KmLectura
         \/ KmEscritura \/ KmStickNuevo
  PROVE  TipoK'
<1>0. TipoKmK /\ CuerposBien /\ pedidos_km \in Seq(PedidosK)
  BY DEF TipoK, TipoKmK, TipoKmEn
<1>1. /\ SinPlan
      /\ UNCHANGED <<bloqueos, mx_comunicacion_memoria, pc_km, compactacion_en_progreso,
                     dispositivos>>
  BY DEF KmCrearSegmento, KmConfirmada, KmEliminarSegmento, KmLectura, KmEscritura,
      KmStickNuevo, compactar, flujo
<1>2. TipoBaseK' /\ PasosBien' /\ TipoBloqueos' /\ TipoDispositivos' /\ MutexBien'
  <2>1. TipoBaseK' /\ PasosBien' /\ pc' = pc
    BY <1>1, SinPlanTipo
  <2> QED
    BY <1>1, <2>1, SinCambiosK DEF TipoK, dispositivos
<1>3. \A q \in PedidosK : q.pid \in Pids
  BY DEF PedidosK
<1>4. pedidos_km # <<>> => Head(pedidos_km).pid \in Pids
  <2>1. pedidos_km # <<>> => Head(pedidos_km) \in PedidosK
    <3> HIDE DEF PedidosK
    <3> QED
      BY <1>0
  <2> QED
    BY <1>3, <2>1
<1>5. {"SEGMENTO_CREADO_CORRECTAMENTE", "ERROR_CREACION_SEGMENTO", "AVISO_COMPACTACION", "OK",
       "RESPUESTA_LECTURA", "NUEVO_MEMORY_STICK"} \subseteq PalabrasK \ {"CUERPO"}
  BY DEF PalabrasK, Conocidas, ConCuerpo
<1>6. TipoKmK' /\ CuerposBien'
  <2>1. CASE KmCrearSegmento
    <3> DEFINE p == Head(pedidos_km).pid
    <3>1. pedidos_km # <<>> /\ p \in Pids
      BY <1>4, <2>1 DEF KmCrearSegmento, Pedido
    <3>2. \/ \E w \in PalabrasK \ {"CUERPO"} : ConRespuesta(<<w, "CUERPO">>, <<p>>)
          \/ ConRespuesta(<<"AVISO_COMPACTACION">>, <<>>)
      BY <1>5, <2>1 DEF KmCrearSegmento
    <3> HIDE DEF p
    <3> QED
      BY <1>5, <3>1, <3>2, ConRespuestaTipo
  <2>2. CASE KmConfirmada
    BY <1>5, <2>2, ConRespuestaTipo DEF KmConfirmada
  <2>3. CASE KmEliminarSegmento
    BY <1>5, <2>3, ConRespuestaTipo DEF KmEliminarSegmento, Pedido
  <2>4. CASE KmLectura
    <3> DEFINE p == Head(pedidos_km).pid
    <3>1. /\ pedidos_km # <<>> /\ p \in Pids
          /\ \/ ConRespuesta(<<"RESPUESTA_LECTURA", "CUERPO">>, <<p>>)
             \/ ConRespuesta(<<>>, <<>>)
      BY <1>4, <2>4 DEF KmLectura, Pedido
    <3> HIDE DEF p
    <3> QED
      BY <1>5, <3>1, ConRespuestaTipo
  <2>5. CASE KmEscritura
    BY <2>5, ConRespuestaTipo DEF KmEscritura, Pedido
  <2>6. CASE KmStickNuevo
    <3>1. cuerpos' = cuerpos \o <<>>
      BY <1>0, <2>6, ConcatEmptySeq DEF KmStickNuevo, flujo, CuerposBien
    <3>2. /\ ResponderKm(<<"NUEVO_MEMORY_STICK">>) /\ pedidos_km' \in Seq(PedidosK)
          /\ UNCHANGED <<ultima_respuesta_km, km_procesos, en_swap>>
      BY <1>0, <2>6 DEF KmStickNuevo, SoloKmQueda
    <3> QED
      BY <1>0, <1>5, <3>1, <3>2, ResponderTipo
  <2> QED
    BY <2>1, <2>2, <2>3, <2>4, <2>5, <2>6
<1> QED
  BY <1>2, <1>6 DEF TipoK

LEMMA EscucharTipo ==
  ASSUME TipoK, EscucharPaquete \/ EscucharCuerpo \/ EscucharDesconocida \/ EscucharAviso
  PROVE  TipoK'
<1>1. /\ TomarPalabra /\ SinPlan
      /\ UNCHANGED <<bloqueos, mx_comunicacion_memoria, dispositivos>>
  BY DEF EscucharPaquete, EscucharCuerpo, EscucharDesconocida, EscucharAviso
<1>2. UNCHANGED <<pc, msg, pc_io, pc_d>>
  BY <1>1 DEF SinPlan, hilos, io, dispositivos
<1>3. TipoKmK' /\ CuerposBien'
  BY <1>1, TomarTipo DEF TipoK
<1>4. TipoBaseK' /\ TipoBloqueos' /\ TipoDispositivos' /\ MutexBien'
  BY <1>1, <1>2, SinCambiosK DEF TipoK
<1>5. PasosBien'
  <2>1. pc_km' \in {"recibir", "cuerpo", "desalojar"}
    BY DEF EscucharPaquete, EscucharCuerpo, EscucharDesconocida, EscucharAviso
  <2>2. CASE EscucharAviso
    BY <1>2, <2>1, <2>2 DEF EscucharAviso, TipoK, PasosBien
  <2>3. CASE EscucharPaquete \/ EscucharCuerpo \/ EscucharDesconocida
    <3>1. pc_km' # "desalojar"
      BY <2>3 DEF EscucharPaquete, EscucharCuerpo, EscucharDesconocida
    <3> QED
      BY <1>2, <2>1, <3>1 DEF TipoK, PasosBien
  <2> QED
    BY <2>2, <2>3
<1> QED
  BY <1>3, <1>4, <1>5 DEF TipoK

(* The processes that a compaction evicts from one level, in the order of   *)
(* lista_cpus.                                                              *)
LEMMA PorNivelFinito ==
  ASSUME TipoBaseK, NEW k
  PROVE  /\ IsFiniteSet(PorNivel(k)) /\ Cardinality(PorNivel(k)) \in Nat
         /\ \A c \in PorNivel(k) : c \in Ocupadas /\ ejecutando[c] \in Pids
<1>1. PorNivel(k) \subseteq Cpus
  BY DEF PorNivel, Ocupadas, TipoBaseK, TipoBaseEn, TipoCpusKs
<1>2. IsFiniteSet(PorNivel(k)) /\ Cardinality(PorNivel(k)) \in Nat
  BY <1>1, ConstantesOK, FS_Subset, FS_CardinalityType
<1> QED
  BY <1>1, <1>2 DEF PorNivel, Ocupadas, TipoBaseK, TipoBaseEn, TipoCpusKs

LEMMA DesalojadosTipo ==
  ASSUME TipoBaseK, NEW k, NEW f \in Ordenes(PorNivel(k)), NEW s,
         s = [i \in DOMAIN f |-> ejecutando[f[i]]]
  PROVE  s \in Seq(Pids) /\ Len(s) = Cardinality(PorNivel(k))
<1> DEFINE n == Cardinality(PorNivel(k))
<1>1. n \in Nat /\ \A c \in PorNivel(k) : ejecutando[c] \in Pids
  BY PorNivelFinito
<1>2. DOMAIN f = 1 .. n /\ \A i \in 1 .. n : f[i] \in PorNivel(k)
  BY DEF Ordenes, Bijection, Injection
<1> HIDE DEF n
<1>3. s \in [1 .. n -> Pids]
  BY <1>1, <1>2
<1>4. s \in Seq(Pids) /\ Len(s) = n
  BY <1>1, <1>3, IsASeq, LenProperties
<1> QED
  BY <1>4 DEF n

LEMMA DesalojarTipo ==
  ASSUME TipoK, AvisoDesalojar
  PROVE  TipoK'
<1>0. /\ TipoProcesos /\ TipoColas /\ TipoSemaforos /\ TipoCpusKs /\ TipoBaseK /\ TipoKmK
  BY DEF TipoK, TipoBaseK, TipoBaseEn
<1>1. PICK g \in [Prioridades -> UNION {Ordenes(PorNivel(k)) : k \in Prioridades}] :
        /\ \A k \in Prioridades : g[k] \in Ordenes(PorNivel(k))
        /\ colas_ready' = [k \in Prioridades |->
             [i \in DOMAIN g[k] |-> ejecutando[g[k][i]]] \o colas_ready[k]]
  BY DEF AvisoDesalojar, DesalojarCon
<1>2. colas_ready' \in [Prioridades -> Seq(Pids)]
  <2>1. ASSUME NEW k \in Prioridades
        PROVE  [i \in DOMAIN g[k] |-> ejecutando[g[k][i]]] \o colas_ready[k] \in Seq(Pids)
    <3> DEFINE s == [i \in DOMAIN g[k] |-> ejecutando[g[k][i]]]
    <3>1. s \in Seq(Pids)
      BY <1>0, <1>1, DesalojadosTipo
    <3> HIDE DEF s
    <3>2. s \o colas_ready[k] \in Seq(Pids)
      BY <1>0, <3>1, ConcatProperties DEF TipoColas
    <3> QED
      BY <3>2 DEF s
  <2> QED
    BY <1>1, <2>1
<1>3. TipoColas' /\ TipoProcesos' /\ TipoCpusKs'
  <2>1. TipoColas'
    BY <1>0, <1>2 DEF TipoColas, AvisoDesalojar, DesalojarCon
  <2>2. TipoProcesos' /\ TipoCpusKs'
    BY <1>0 DEF TipoProcesos, TipoCpusKs, AvisoDesalojar, DesalojarCon, Estados
  <2> QED
    BY <2>1, <2>2
<1>4. TipoSemaforos'
  <2>1. Ocupadas \subseteq Cpus
    BY <1>0 DEF Ocupadas, TipoCpusKs
  <2>2. Cardinality(Ocupadas) \in Nat
    BY <2>1, ConstantesOK, FS_Subset, FS_CardinalityType
  <2> QED
    BY <1>0, <2>2 DEF TipoSemaforos, AvisoDesalojar, DesalojarCon
<1>5. /\ UNCHANGED <<largo, corto, hilos, io, temps, cpu, bloqueos, mx_comunicacion_memoria,
                     cuerpos, compactar, dispositivos>>
      /\ PedirSolo("OK", 0) /\ pc_km' = "recibir"
  BY DEF AvisoDesalojar, DesalojarCon
<1>6. TipoBaseK'
  BY <1>0, <1>3, <1>4, <1>5, SinCambiosEn DEF TipoBaseK, TipoBaseEn
<1>7. TipoKmK' /\ respuestas_km' = respuestas_km
  BY <1>0, <1>5, Constantes, PedirSoloTipo, PedidosDeK
<1>8. UNCHANGED <<pc, msg, pc_io, pc_d>>
  BY <1>5 DEF hilos, io, dispositivos
<1>9. PasosBien'
  BY <1>5, <1>8 DEF TipoK, PasosBien
<1> QED
  BY <1>5, <1>6, <1>7, <1>8, <1>9, SinCambiosK DEF TipoK

-----------------------------------------------------------------------------
(* Every step keeps the types.                                              *)

LEMMA NextTipoK ==
  ASSUME TipoK, [NextK]_varsK
  PROVE  TipoK'
<1>1. CASE (LargoPlazo /\ UNCHANGED propias) \/ CortoRevisar \/ CortoTurno
           \/ EscucharRespuesta \/ UNCHANGED varsK
  <2>1. Comunes
    BY <1>1 DEF Comunes, CortoRevisar, CortoTurno, EscucharRespuesta, varsK
  <2>2. PropiasQuietas
    BY <1>1 DEF PropiasQuietas, CortoRevisar, CortoTurno, EscucharRespuesta, varsK, propias,
        compactar
  <2> QED
    BY <2>1, <2>2, ComunesTipoK
<1>2. CASE KmMemoria
  <2>1. CASE km_espera = NADIE /\ KernelMemory /\ UNCHANGED propias
    BY <2>1, ComunesTipoK DEF Comunes, PropiasQuietas, propias, compactar
  <2> QED
    BY <1>2, <2>1, KmTipoK DEF KmMemoria
<1>3. CASE Escuchar
  BY <1>1, <1>3, EscucharTipo, DesalojarTipo DEF Escuchar
<1>4. CASE Dispositivo
  BY <1>4, ServirTipo, BuscarTipo, EncolarTipo, StdinTipo DEF Dispositivo
<1>5. ASSUME NEW p \in Pids, Reloj(p)
      PROVE  TipoK'
  <2>1. CASE TimerAvisarKm(p) /\ UNCHANGED propias
    BY <2>1, ComunesTipoK DEF Comunes, PropiasQuietas, propias, compactar
  <2> QED
    BY <1>5, <2>1, RelojTipo DEF Reloj
<1>6. ASSUME NEW c \in Cpus,
             \/ (CpuTomar(c) \/ CpuTerminar(c) \/ CpuInitProc(c)) /\ UNCHANGED propias
             \/ AtenderComun(c)
      PROVE  TipoK'
  <2>1. Comunes /\ PropiasQuietas
    BY <1>6 DEF Comunes, PropiasQuietas, AtenderComun, propias, compactar
  <2> QED
    BY <2>1, ComunesTipoK
<1>7. ASSUME NEW c \in Cpus, AtenderMemoria(c)
      PROVE  TipoK'
  BY <1>7, LlamadaTipo, PedidoTipo, LecturaTipo DEF AtenderMemoria
<1> QED
  BY <1>1, <1>2, <1>3, <1>4, <1>5, <1>6, <1>7, CpuMemoriaTipo DEF NextK

-----------------------------------------------------------------------------
(* What the steps of this module do to the planner.                         *)

\* The steps that leave the READY lists, the semaphores and the threads of
\* Planificador alone.
Quietas ==
  \/ \E d \in Dispositivos : Servir(d) \/ BuscarBlock(d) \/ BuscarSusp(d)
  \/ StdinEscribir \/ StdinConfirmar
  \/ \E k \in Clases, p \in Pids : RetirarDe(k, p) \/ SuspenderEn(k, p)
  \/ KmCrearSegmento \/ KmConfirmada \/ KmEliminarSegmento \/ KmLectura \/ KmEscritura
  \/ KmStickNuevo
  \/ EscucharPaquete \/ EscucharCuerpo \/ EscucharDesconocida \/ EscucharAviso
  \/ \E c \in Cpus : CpuMemoria(c)

LEMMA QuietasSinPlan ==
  ASSUME Quietas
  PROVE  UNCHANGED <<colas, semaforos, cpus_ks, largo, corto, hilos, io>>
<1>1. CASE \E d \in Dispositivos : Servir(d) \/ BuscarBlock(d) \/ BuscarSusp(d)
  BY <1>1 DEF Servir, BuscarBlock, BuscarSusp, SinPlan
<1>2. CASE StdinEscribir \/ StdinConfirmar
  BY <1>2 DEF StdinEscribir, StdinConfirmar, SinPlan
<1>3. CASE \E k \in Clases, p \in Pids : RetirarDe(k, p) \/ SuspenderEn(k, p)
  BY <1>3 DEF RetirarDe, SuspenderEn, SinPlan
<1>4. CASE \/ KmCrearSegmento \/ KmConfirmada \/ KmEliminarSegmento \/ KmLectura
           \/ KmEscritura \/ KmStickNuevo
  <2>1. SinPlan
    BY <1>4 DEF KmCrearSegmento, KmConfirmada, KmEliminarSegmento, KmLectura, KmEscritura,
        KmStickNuevo
  <2> QED
    BY <2>1 DEF SinPlan
<1>5. CASE EscucharPaquete \/ EscucharCuerpo \/ EscucharDesconocida \/ EscucharAviso
  BY <1>5 DEF EscucharPaquete, EscucharCuerpo, EscucharDesconocida, EscucharAviso, SinPlan
<1>6. CASE \E c \in Cpus : CpuMemoria(c)
  BY <1>6 DEF CpuMemoria, CpuPedir, CpuDevolver
<1> QED
  BY <1>1, <1>2, <1>3, <1>4, <1>5, <1>6 DEF Quietas

LEMMA QuietasDisp ==
  ASSUME TipoDispositivos, Quietas
  PROVE  PorAvisarD' = PorAvisarD
<1>1. ASSUME NEW d \in Dispositivos, NEW paso, paso # "avisar", pc_d[d] # "avisar",
             pc_d' = [pc_d EXCEPT ![d] = paso]
      PROVE  PorAvisarD' = PorAvisarD
  BY <1>1 DEF TipoDispositivos, PorAvisarD
<1>2. CASE \E d \in Dispositivos : BuscarBlock(d) \/ BuscarSusp(d)
  BY <1>1, <1>2 DEF BuscarBlock, BuscarSusp, TrasEncontrar
<1>3. CASE StdinEscribir \/ StdinConfirmar
  BY <1>1, <1>3 DEF StdinEscribir, StdinConfirmar, Dispositivos
<1>4. CASE pc_d' = pc_d
  BY <1>4 DEF PorAvisarD
<1>5. CASE \E d \in Dispositivos : Servir(d)
  BY <1>4, <1>5 DEF Servir
<1>6. CASE \/ KmCrearSegmento \/ KmConfirmada \/ KmEliminarSegmento \/ KmLectura
           \/ KmEscritura \/ KmStickNuevo
  <2>1. UNCHANGED dispositivos
    BY <1>6 DEF KmCrearSegmento, KmConfirmada, KmEliminarSegmento, KmLectura, KmEscritura,
        KmStickNuevo
  <2> QED
    BY <1>4, <2>1 DEF dispositivos
<1>7. CASE \/ EscucharPaquete \/ EscucharCuerpo \/ EscucharDesconocida \/ EscucharAviso
           \/ \E k \in Clases, p \in Pids : RetirarDe(k, p) \/ SuspenderEn(k, p)
           \/ \E c \in Cpus : CpuMemoria(c)
  <2>1. UNCHANGED dispositivos
    BY <1>7 DEF EscucharPaquete, EscucharCuerpo, EscucharDesconocida, EscucharAviso,
        RetirarDe, SuspenderEn, CpuMemoria, propias
  <2> QED
    BY <1>4, <2>1 DEF dispositivos
<1> QED
  BY <1>2, <1>3, <1>5, <1>6, <1>7 DEF Quietas

(* A handler in a system call moves its own thread only, and keeps the PCB  *)
(* of its CPU until it frees it.                                            *)
LEMMA MemoriaIr ==
  ASSUME TipoK, NEW c \in Cpus, AtenderMemoria(c)
  PROVE  /\ UNCHANGED <<colas, semaforos, cpus_ks, largo, corto, io, pc_d>>
         /\ \/ UNCHANGED hilos
            \/ \E paso \in {"bloquear_en", "mem_free", "block_liberar", "ready_liberar",
                            "recibir", "leer_op", "leer_cuerpo"} :
                 /\ Ir(c, paso)
                 /\ pc[c] \in {"recibir", "bloquear_en", "block_io", "mem_free", "leer_op",
                               "leer_cuerpo"}
                 /\ paso \in {"bloquear_en", "mem_free"} => pcb_h'[c] = ejecutando[c]
                 /\ paso \in {"block_liberar", "ready_liberar"} =>
                      pc[c] \in {"bloquear_en", "mem_free"} /\ pcb_h'[c] = pcb_h[c]
                 /\ \A d \in Cpus \ {c} : pcb_h'[d] = pcb_h[d]
<1>0. pcb_h \in [Cpus -> Pids \cup {NADIE}]
  BY DEF TipoK, TipoBaseK, TipoBaseEn, TipoHilosEn
<1>1. CASE RecibirBloqueante(c) \/ RecibirMemFree(c)
  <2>1. PICK paso \in {"bloquear_en", "mem_free"} : \E s : RecibirLlamada(c, s, paso)
    BY <1>1 DEF RecibirBloqueante, RecibirMemFree
  <2> QED
    BY <1>0, <2>1 DEF RecibirLlamada, Recibir, propias, dispositivos
<1>2. CASE RecibirYNada(c)
  BY <1>2 DEF RecibirYNada, propias, dispositivos
<1>3. CASE BloquearEn(c)
  BY <1>3 DEF BloquearEn, dispositivos
<1>4. CASE MemAllocPedir(c) \/ StdinPedir(c)
  <2>1. SoltarPcb(c) /\ pc[c] = "block_io" /\ SoloKm /\ pc_d' = pc_d
    BY <1>4 DEF MemAllocPedir, StdinPedir, propias, dispositivos
  <2> QED
    BY <1>0, <2>1 DEF SoltarPcb, SoloKm
<1>5. CASE StdoutPedir(c) \/ MemFreePedir(c)
  BY <1>5 DEF StdoutPedir, MemFreePedir, SoloKm, propias, dispositivos
<1>6. CASE StdoutCodigo(c) \/ StdoutDatos(c)
  <2>1. /\ SoloKm /\ pc_d' = pc_d /\ pc[c] \in {"leer_op", "leer_cuerpo"}
        /\ \/ UNCHANGED hilos \/ SoltarPcb(c)
           \/ Ir(c, "leer_cuerpo") /\ UNCHANGED <<pcb_h, msg>>
    BY <1>6 DEF StdoutCodigo, StdoutDatos, Imprimir, dispositivos
  <2> QED
    BY <1>0, <2>1 DEF SoltarPcb, SoloKm
<1> QED
  BY <1>1, <1>2, <1>3, <1>4, <1>5, <1>6 DEF AtenderMemoria

LEMMA PorAvisarDFinito == IsFiniteSet(PorAvisarD) /\ Cardinality(PorAvisarD) \in Nat
<1>1. IsFiniteSet({"stdin"} \cup {"stdout"})
  BY FS_Singleton, FS_AddElement
<1>2. PorAvisarD \subseteq {"stdin"} \cup {"stdout"}
  BY DEF PorAvisarD, Dispositivos
<1> QED
  BY <1>1, <1>2, FS_Subset, FS_CardinalityType

-----------------------------------------------------------------------------
(* The permits of sem_procesos_ready.                                       *)

LEMMA ComunesReady ==
  ASSUME TipoReady(PasosK, MensajesK), Comunes
  PROVE  IsFiniteSet(EntradasReady') /\ Sobra' = Sobra
<1>1. CASE LargoPlazo
  BY <1>1, LargoReady
<1>2. CASE CortoPlazo
  BY <1>2, CortoReady
<1>3. ASSUME NEW c \in Cpus, AtenderCpu(c)
      PROVE  IsFiniteSet(EntradasReady') /\ Sobra' = Sobra
  BY <1>3, HiloReady
<1>4. CASE \/ KernelMemory \/ EscucharKm \/ UNCHANGED vars
           \/ \E c \in Cpus : CpuTomar(c) \/ CpuTerminar(c) \/ CpuInitProc(c)
           \/ \E p \in Pids : TimerAvisarKm(p)
  <2>1. \/ ConectarIo \/ IoServir \/ KernelMemory \/ EscucharKm \/ UNCHANGED vars
        \/ \E c \in Cpus : Cpu(c)
        \/ \E p \in Pids : Temporizador(p)
    BY <1>4 DEF Cpu, Temporizador
  <2> QED
    BY <2>1, OtrosReady
<1> QED
  BY <1>1, <1>2, <1>3, <1>4 DEF Comunes

LEMMA PropiasReady ==
  ASSUME TipoReady(PasosK, MensajesK), TipoK,
         Quietas \/ \E c \in Cpus : AtenderMemoria(c)
  PROVE  IsFiniteSet(EntradasReady') /\ Sobra' = Sobra /\ PorAvisarD' = PorAvisarD
<1>1. ASSUME UNCHANGED <<colas, semaforos, largo, corto, io, hilos>>
      PROVE  IsFiniteSet(EntradasReady') /\ Sobra' = Sobra
  <2>1. PorAvisar' = PorAvisar /\ Deudas' = Deudas
    BY <1>1 DEF PorAvisar, Deudas, ConPermiso, hilos, largo, corto, io
  <2> QED
    BY <1>1, <2>1, SinCambioReady DEF colas, semaforos
<1>2. CASE Quietas
  BY <1>1, <1>2, QuietasSinPlan, QuietasDisp DEF TipoK
<1>3. ASSUME NEW c \in Cpus, AtenderMemoria(c)
      PROVE  IsFiniteSet(EntradasReady') /\ Sobra' = Sobra /\ PorAvisarD' = PorAvisarD
  <2>1. UNCHANGED <<colas, semaforos, cpus_ks, largo, corto, io, pc_d>>
    BY <1>3, MemoriaIr
  <2>2. PorAvisarD' = PorAvisarD
    BY <2>1 DEF PorAvisarD
  <2>3. CASE UNCHANGED hilos
    BY <1>1, <2>1, <2>2, <2>3
  <2>4. CASE \E paso : Ir(c, paso) /\ paso # "ready_avisar" /\ pc[c] # "ready_avisar"
    <3>1. PICK paso : Ir(c, paso) /\ paso # "ready_avisar" /\ pc[c] # "ready_avisar"
      BY <2>4
    <3>2. UNCHANGED <<colas_ready, sem_procesos_ready, largo, corto, io>>
      BY <2>1 DEF colas, semaforos
    <3>3. IsFiniteSet(EntradasReady') /\ Sobra' = Sobra
      BY <3>1, <3>2, IrSinReady
    <3> QED
      BY <2>2, <3>3
  <2>5. UNCHANGED hilos \/ \E paso : Ir(c, paso) /\ paso # "ready_avisar" /\ pc[c] # "ready_avisar"
    BY <1>3, MemoriaIr
  <2> QED
    BY <2>3, <2>4, <2>5
<1> QED
  BY <1>2, <1>3

LEMMA DispReady ==
  ASSUME TipoReady(PasosK, MensajesK), TipoK, NEW d \in Dispositivos, Encolar(d) \/ Avisar(d)
  PROVE  /\ IsFiniteSet(EntradasReady')
         /\ Sobra' + Cardinality(PorAvisarD') = Sobra + Cardinality(PorAvisarD)
<1>0. /\ Sobra = sem_procesos_ready + Deudas + Cardinality(PorAvisar)
                   - Cardinality(EntradasReady)
      /\ Sobra' = sem_procesos_ready' + Deudas' + Cardinality(PorAvisar')
                    - Cardinality(EntradasReady')
  BY DEF Sobra
<1>1. PorAvisar' = PorAvisar /\ Deudas' = Deudas
  BY DEF Encolar, Avisar, PorAvisar, Deudas, ConPermiso, hilos, largo, corto, io
<1>2. pcb_d[d] \in Pids
  BY DEF Encolar, Avisar, TipoK, TipoDispositivos
<1>3. CASE Encolar(d)
  <2>1. PorAvisarD' = PorAvisarD \cup {d} /\ d \notin PorAvisarD
    BY <1>3 DEF Encolar, PorAvisarD, TipoK, TipoDispositivos
  <2>2. Cardinality(PorAvisarD') = Cardinality(PorAvisarD) + 1
    BY <2>1, PorAvisarDFinito, FS_AddElement
  <2>3. colas_ready' = ListaReadyCon(pcb_d[d]) /\ sem_procesos_ready' = sem_procesos_ready
    BY <1>3 DEF Encolar, semaforos
  <2>4. /\ IsFiniteSet(EntradasReady')
        /\ Cardinality(EntradasReady') = Cardinality(EntradasReady) + 1
    BY <1>2, <2>3, EncolarReady
  <2> QED
    BY <1>0, <1>1, <2>2, <2>3, <2>4, Numeros, PorAvisarDFinito
<1>4. CASE Avisar(d)
  <2>1. PorAvisarD' = PorAvisarD \ {d} /\ d \in PorAvisarD
    BY <1>4 DEF Avisar, PorAvisarD, TipoK, TipoDispositivos
  <2>2. Cardinality(PorAvisarD') = Cardinality(PorAvisarD) - 1
    BY <2>1, PorAvisarDFinito, FS_RemoveElement
  <2>3. EntradasReady' = EntradasReady /\ sem_procesos_ready' = sem_procesos_ready + 1
    BY <1>4 DEF Avisar, EntradasReady, colas
  <2> QED
    BY <1>0, <1>1, <2>2, <2>3, Numeros, PorAvisarDFinito DEF TipoReady
<1> QED
  BY <1>3, <1>4

(* The eviction puts one PCB in READY, and posts once, for every CPU that   *)
(* executes: the new entries are the busy CPUs, in some order, and the old  *)
(* ones move up.                                                            *)
LEMMA DesalojarEntradas ==
  ASSUME TipoReady(PasosK, MensajesK), TipoK, AvisoDesalojar
  PROVE  /\ IsFiniteSet(EntradasReady') /\ Cardinality(Ocupadas) \in Nat
         /\ Cardinality(EntradasReady') = Cardinality(EntradasReady) + Cardinality(Ocupadas)
<1>0. /\ TipoBaseK /\ TipoColas /\ TipoProcesos /\ TipoCpusKs
      /\ IsFiniteSet(EntradasReady) /\ Cardinality(EntradasReady) \in Nat
  BY Numeros DEF TipoK, TipoBaseK, TipoBaseEn, TipoReady
<1>1. PICK g \in [Prioridades -> UNION {Ordenes(PorNivel(k)) : k \in Prioridades}] :
        /\ \A k \in Prioridades : g[k] \in Ordenes(PorNivel(k))
        /\ colas_ready' = [k \in Prioridades |->
             [i \in DOMAIN g[k] |-> ejecutando[g[k][i]]] \o colas_ready[k]]
  BY DEF AvisoDesalojar, DesalojarCon
<1> DEFINE n == [k \in Prioridades |-> Cardinality(PorNivel(k))]
           N == UNION {{k} \X (1 .. n[k]) : k \in Prioridades}
           V == {<<e[1], n[e[1]] + e[2]>> : e \in EntradasReady}
           h == [e \in N |-> g[e[1]][e[2]]]
           v == [e \in EntradasReady |-> <<e[1], n[e[1]] + e[2]>>]
<1>2. /\ \A k \in Prioridades : n[k] \in Nat /\ g[k] \in Bijection(1 .. n[k], PorNivel(k))
      /\ \A k \in Prioridades : Len(colas_ready[k]) \in Nat
  BY <1>0, <1>1, PorNivelFinito DEF Ordenes, TipoColas
<1>3. \A k \in Prioridades : Len(colas_ready'[k]) = n[k] + Len(colas_ready[k])
  <2> TAKE k \in Prioridades
  <2> DEFINE s == [i \in DOMAIN g[k] |-> ejecutando[g[k][i]]]
  <2>1. s \in Seq(Pids) /\ Len(s) = n[k]
    BY <1>0, <1>1, DesalojadosTipo
  <2>2. colas_ready'[k] = s \o colas_ready[k]
    BY <1>1
  <2> HIDE DEF s
  <2>3. Len(s \o colas_ready[k]) = Len(s) + Len(colas_ready[k])
    BY <1>0, <2>1, ConcatProperties DEF TipoColas
  <2> QED
    BY <2>1, <2>2, <2>3
<1>4. /\ \A k, i : <<k, i>> \in N <=> k \in Prioridades /\ i \in 1 .. n[k]
      /\ \A e \in N : e = <<e[1], e[2]>>
  OBVIOUS
<1>5. \A k, i : <<k, i>> \in V
        <=> k \in Prioridades /\ i \in n[k] + 1 .. n[k] + Len(colas_ready[k])
  <2> HIDE DEF n
  <2> TAKE k, i
  <2>1. <<k, i>> \in V <=> \E e \in EntradasReady : k = e[1] /\ i = n[e[1]] + e[2]
    OBVIOUS
  <2>2. <<k, i>> \in V <=>
          \E j \in 1 .. Len(colas_ready[k]) : k \in Prioridades /\ i = n[k] + j
    <3>1. ASSUME NEW e \in EntradasReady, k = e[1], i = n[e[1]] + e[2]
          PROVE  \E j \in 1 .. Len(colas_ready[k]) : k \in Prioridades /\ i = n[k] + j
      BY <3>1, EsEntrada
    <3>2. ASSUME NEW j \in 1 .. Len(colas_ready[k]), k \in Prioridades, i = n[k] + j
          PROVE  \E e \in EntradasReady : k = e[1] /\ i = n[e[1]] + e[2]
      <4>1. <<k, j>> \in EntradasReady
        BY <3>2, EsEntrada
      <4> QED
        BY <3>2, <4>1
    <3> QED
      BY <2>1, <3>1, <3>2
  <2> HIDE DEF V
  <2>3. ASSUME k \in Prioridades
        PROVE  (\E j \in 1 .. Len(colas_ready[k]) : i = n[k] + j)
                 <=> i \in n[k] + 1 .. n[k] + Len(colas_ready[k])
    <3>1. n[k] \in Nat /\ Len(colas_ready[k]) \in Nat
      BY <1>2, <2>3
    <3>2. ASSUME i \in n[k] + 1 .. n[k] + Len(colas_ready[k])
          PROVE  i - n[k] \in 1 .. Len(colas_ready[k]) /\ i = n[k] + (i - n[k])
      BY <3>1, <3>2
    <3> QED
      BY <3>1, <3>2
  <2> QED
    BY <2>2, <2>3
<1>6. \A e \in V : e = <<e[1], e[2]>>
  <2> HIDE DEF n
  <2> QED
    OBVIOUS
<1>7. Cardinality(V) = Cardinality(EntradasReady) /\ IsFiniteSet(V)
  <2>1. v \in Bijection(EntradasReady, V)
    <3> HIDE DEF n
    <3>1. \A e \in EntradasReady : v[e] \in V /\ v[e] = <<e[1], n[e[1]] + e[2]>>
      OBVIOUS
    <3>2. \A y \in V : \E e \in EntradasReady : v[e] = y
      OBVIOUS
    <3>3. ASSUME NEW e \in EntradasReady, NEW f \in EntradasReady, v[e] = v[f]
          PROVE  e = f
      <4>1. e[1] = f[1] /\ n[e[1]] + e[2] = n[f[1]] + f[2]
        BY <3>1, <3>3
      <4>2. e[2] \in Nat /\ f[2] \in Nat /\ n[e[1]] \in Nat
        BY <1>2, EsEntrada
      <4>3. e[2] = f[2]
        BY <4>1, <4>2
      <4> QED
        BY <4>1, <4>3, EsEntrada
    <3>4. v \in [EntradasReady -> V]
      BY <3>1
    <3> HIDE DEF v, V
    <3> QED
      BY <3>2, <3>3, <3>4 DEF Bijection, Injection, Surjection, IsInjective
  <2> HIDE DEF v, V
  <2> QED
    BY <1>0, <2>1, FS_Bijection DEF ExistsBijection
<1>8. /\ Cardinality(N) = Cardinality(Ocupadas) /\ IsFiniteSet(N)
      /\ Cardinality(Ocupadas) \in Nat
  <2>1. IsFiniteSet(Ocupadas) /\ Cardinality(Ocupadas) \in Nat
    <3>1. Ocupadas \subseteq Cpus
      BY <1>0 DEF Ocupadas, TipoCpusKs
    <3> QED
      BY <3>1, ConstantesOK, FS_Subset, FS_CardinalityType
  <2>2. \A e \in N : /\ e[1] \in Prioridades /\ e[2] \in 1 .. n[e[1]]
                     /\ h[e] = g[e[1]][e[2]] /\ h[e] \in PorNivel(e[1])
    <3> HIDE DEF n
    <3> QED
      BY <1>2, <1>4 DEF Bijection, Injection
  <2> HIDE DEF n, h, N
  <2>3. \A e \in N : h[e] \in Ocupadas /\ prioridad[ejecutando[h[e]]] = e[1]
    BY <2>2 DEF PorNivel
  <2>4. h \in [N -> Ocupadas]
    BY <2>3 DEF h
  <2>5. ASSUME NEW e \in N, NEW f \in N, h[e] = h[f]
        PROVE  e = f
    <3>1. e[1] = f[1]
      BY <2>3, <2>5
    <3>2. e[2] = f[2]
      BY <1>2, <2>2, <2>5, <3>1 DEF Bijection, Injection, IsInjective
    <3> QED
      BY <1>4, <3>1, <3>2
  <2>6. ASSUME NEW c \in Ocupadas
        PROVE  \E e \in N : h[e] = c
    <3> DEFINE k == prioridad[ejecutando[c]]
    <3>1. k \in Prioridades /\ c \in PorNivel(k)
      BY <1>0 DEF PorNivel, Ocupadas, TipoCpusKs, TipoProcesos
    <3> HIDE DEF k
    <3>2. PICK i \in 1 .. n[k] : g[k][i] = c
      BY <1>2, <3>1 DEF Bijection, Surjection
    <3>3. <<k, i>> \in N
      BY <1>4, <3>1
    <3>4. h[<<k, i>>] = c
      BY <2>2, <3>2, <3>3
    <3> QED
      BY <3>3, <3>4
  <2>7. h \in Injection(N, Ocupadas) /\ h \in Surjection(N, Ocupadas)
    BY <2>4, <2>5, <2>6 DEF Injection, Surjection, IsInjective
  <2> QED
    BY <2>1, <2>7, FS_Injection
<1>9. EntradasReady' = N \cup V /\ N \cap V = {}
  <2> HIDE DEF n, N, V
  <2>1. \A k, i : <<k, i>> \in EntradasReady' <=> <<k, i>> \in N \/ <<k, i>> \in V
    <3> TAKE k, i
    <3>1. CASE k \in Prioridades
      <4>1. n[k] \in Nat /\ Len(colas_ready[k]) \in Nat
        BY <1>2, <3>1
      <4>2. i \in 1 .. n[k] + Len(colas_ready[k])
              <=> i \in 1 .. n[k] \/ i \in n[k] + 1 .. n[k] + Len(colas_ready[k])
        BY <4>1
      <4> QED
        BY <1>3, <1>4, <1>5, <3>1, <4>2, EsEntradaSig
    <3>2. CASE k \notin Prioridades
      BY <1>4, <1>5, <3>2, EsEntradaSig
    <3> QED
      BY <3>1, <3>2
  <2>2. \A k, i : ~ (<<k, i>> \in N /\ <<k, i>> \in V)
    <3> SUFFICES ASSUME NEW k, NEW i, <<k, i>> \in N, <<k, i>> \in V PROVE FALSE
      OBVIOUS
    <3>1. k \in Prioridades /\ i \in 1 .. n[k] /\ i \in n[k] + 1 .. n[k] + Len(colas_ready[k])
      BY <1>4, <1>5
    <3>2. n[k] \in Nat
      BY <1>2, <3>1
    <3> QED
      BY <3>1, <3>2
  <2> QED
    BY <1>4, <1>6, <2>1, <2>2, EsEntradaSig
<1> HIDE DEF n, N, V, h, v
<1>10. /\ IsFiniteSet(N \cup V)
       /\ Cardinality(N \cup V) = Cardinality(N) + Cardinality(V) - Cardinality(N \cap V)
  BY <1>7, <1>8, FS_Union
<1>11. Cardinality(N \cap V) = 0
  BY <1>9, FS_EmptySet
<1> QED
  BY <1>0, <1>7, <1>8, <1>9, <1>10, <1>11

LEMMA DesalojarReady ==
  ASSUME TipoReady(PasosK, MensajesK), TipoK, AvisoDesalojar
  PROVE  IsFiniteSet(EntradasReady') /\ Sobra' = Sobra /\ PorAvisarD' = PorAvisarD
<1>1. PorAvisar' = PorAvisar /\ Deudas' = Deudas /\ PorAvisarD' = PorAvisarD
  BY DEF AvisoDesalojar, DesalojarCon, PorAvisar, PorAvisarD, Deudas, ConPermiso, hilos, largo,
      corto, io, dispositivos
<1>2. sem_procesos_ready' = sem_procesos_ready + Cardinality(Ocupadas)
  BY DEF AvisoDesalojar, DesalojarCon
<1>3. /\ IsFiniteSet(EntradasReady') /\ Cardinality(Ocupadas) \in Nat
      /\ Cardinality(EntradasReady') = Cardinality(EntradasReady) + Cardinality(Ocupadas)
  BY DesalojarEntradas
<1> QED
  BY <1>1, <1>2, <1>3, Numeros DEF Sobra

-----------------------------------------------------------------------------
(* The permits of sem_cpus_libres, until a compaction is announced.         *)

LEMMA CompactaSigue ==
  ASSUME [NextK]_varsK, compactacion_en_progreso
  PROVE  compactacion_en_progreso'
<1>1. \/ compactacion_en_progreso' = compactacion_en_progreso
      \/ EscucharAviso
  <2>1. CASE KmMemoria
    BY <2>1 DEF KmMemoria, KmCrearSegmento, KmConfirmada, KmEliminarSegmento, KmLectura,
        KmEscritura, KmStickNuevo, propias, compactar
  <2>2. CASE Escuchar
    BY <2>2 DEF Escuchar, EscucharRespuesta, EscucharPaquete, EscucharCuerpo,
        EscucharDesconocida, AvisoDesalojar, DesalojarCon, propias, compactar
  <2>3. CASE Dispositivo
    BY <2>3 DEF Dispositivo, Servir, BuscarBlock, BuscarSusp, StdinEscribir, StdinConfirmar,
        Encolar, Avisar, compactar
  <2>4. CASE \E p \in Pids : Reloj(p)
    BY <2>4 DEF Reloj, RetirarDe, SuspenderEn, propias, compactar
  <2>5. ASSUME NEW c \in Cpus, AtenderMemoria(c)
        PROVE  compactacion_en_progreso' = compactacion_en_progreso
    BY <2>5 DEF AtenderMemoria, RecibirBloqueante, RecibirMemFree, RecibirLlamada,
        RecibirYNada, BloquearEn, MemAllocPedir, StdinPedir, StdoutPedir, StdoutCodigo,
        StdoutDatos, MemFreePedir, propias, compactar
  <2>6. CASE \/ (LargoPlazo /\ UNCHANGED propias) \/ CortoRevisar \/ CortoTurno
             \/ UNCHANGED varsK
             \/ \E c \in Cpus :
                  \/ (CpuTomar(c) \/ CpuTerminar(c) \/ CpuInitProc(c)) /\ UNCHANGED propias
                  \/ CpuMemoria(c) \/ AtenderComun(c)
    BY <2>6 DEF CortoRevisar, CortoTurno, CpuMemoria, AtenderComun, varsK, propias, compactar
  <2> QED
    BY <2>1, <2>2, <2>3, <2>4, <2>5, <2>6 DEF NextK
<1>2. CASE EscucharAviso
  BY <1>2 DEF EscucharAviso
<1> QED
  BY <1>1, <1>2, Zenon

LEMMA ComunesCpu ==
  ASSUME InvCpuEn(PasosK, MensajesK, PasosConCpuK), Comunes
  PROVE  PermisosCpu' /\ CpuDelHiloEn(PasosConCpuK)'
<1>0. BastanPasos(PasosConCpuK)
  BY BastantesK
<1>1. CASE CortoPlazo
  BY <1>0, <1>1, CortoPermisos
<1>2. ASSUME NEW c \in Cpus, AtenderCpu(c)
      PROVE  PermisosCpu' /\ CpuDelHiloEn(PasosConCpuK)'
  BY <1>0, <1>2, HiloPermisos
<1>3. CASE \/ LargoPlazo \/ KernelMemory \/ EscucharKm \/ UNCHANGED vars
           \/ \E c \in Cpus : CpuTomar(c) \/ CpuTerminar(c) \/ CpuInitProc(c)
           \/ \E p \in Pids : TimerAvisarKm(p)
  <2>1. \/ LargoPlazo \/ AtenderIo \/ ConectarIo \/ IoServir \/ KernelMemory
        \/ EscucharKm \/ UNCHANGED vars
        \/ \E c \in Cpus : Cpu(c)
        \/ \E p \in Pids : Temporizador(p)
    BY <1>3 DEF Cpu, Temporizador
  <2> QED
    BY <1>0, <2>1, OtrosPermisos
<1> QED
  BY <1>1, <1>2, <1>3 DEF Comunes

LEMMA PropiasCpu ==
  ASSUME TipoK, InvCpuEn(PasosK, MensajesK, PasosConCpuK),
         \/ Quietas \/ \E d \in Dispositivos : Encolar(d) \/ Avisar(d)
         \/ \E c \in Cpus : AtenderMemoria(c)
  PROVE  PermisosCpu' /\ CpuDelHiloEn(PasosConCpuK)'
<1>0. BastanPasos(PasosConCpuK)
  BY BastantesK
<1>1. ASSUME UNCHANGED <<sem_cpus_libres, cpus_ks, corto, hilos>>
      PROVE  PermisosCpu' /\ CpuDelHiloEn(PasosConCpuK)'
  <2>1. EnMano' = EnMano /\ PorPublicar' = PorPublicar
    BY <1>1 DEF EnMano, PorPublicar, corto, hilos
  <2>2. PermisosCpu'
    BY <1>0, <1>1, <2>1, SinCambioCpu
  <2>3. CpuDelHiloEn(PasosConCpuK)'
    BY <1>1 DEF InvCpuEn, CpuDelHiloEn, cpus_ks, hilos
  <2> QED
    BY <2>2, <2>3
<1>2. CASE Quietas
  BY <1>1, <1>2, QuietasSinPlan DEF semaforos
<1>3. CASE \E d \in Dispositivos : Encolar(d) \/ Avisar(d)
  BY <1>1, <1>3 DEF Encolar, Avisar, semaforos
<1>4. ASSUME NEW c \in Cpus, AtenderMemoria(c)
      PROVE  PermisosCpu' /\ CpuDelHiloEn(PasosConCpuK)'
  <2>1. UNCHANGED <<sem_cpus_libres, cpus_ks, corto>>
    BY <1>4, MemoriaIr DEF semaforos
  <2>2. CASE UNCHANGED hilos
    BY <1>1, <2>1, <2>2
  <2>3. CASE ~ UNCHANGED hilos
    <3>1. PICK paso \in {"bloquear_en", "mem_free", "block_liberar", "ready_liberar",
                         "recibir", "leer_op", "leer_cuerpo"} :
            /\ Ir(c, paso)
            /\ pc[c] \in {"recibir", "bloquear_en", "block_io", "mem_free", "leer_op",
                          "leer_cuerpo"}
            /\ paso \in {"bloquear_en", "mem_free"} => pcb_h'[c] = ejecutando[c]
            /\ paso \in {"block_liberar", "ready_liberar"} =>
                 pc[c] \in {"bloquear_en", "mem_free"} /\ pcb_h'[c] = pcb_h[c]
            /\ \A d \in Cpus \ {c} : pcb_h'[d] = pcb_h[d]
      BY <1>4, <2>3, MemoriaIr
    <3>2. /\ paso \notin PasosPorPublicar /\ pc[c] \notin PasosPorPublicar
          /\ pc[c] # "sin_conectar" /\ paso # "sin_conectar"
      BY <3>1 DEF PasosPorPublicar
    <3>3. paso \in PasosConCpuK => pcb_h'[c] = ejecutando[c]
      <4>1. pc[c] \in {"bloquear_en", "mem_free"} => ejecutando[c] = pcb_h[c]
        BY DEF InvCpuEn, CpuDelHiloEn, PasosConCpuK
      <4>2. paso \in PasosConCpuK =>
              paso \in {"bloquear_en", "mem_free", "block_liberar", "ready_liberar"}
        BY <3>1 DEF PasosConCpuK, PasosConCpu
      <4> QED
        BY <3>1, <4>1, <4>2
    <3> QED
      BY <1>0, <2>1, <3>1, <3>2, <3>3, IrSinPermiso
  <2> QED
    BY <2>2, <2>3
<1> QED
  BY <1>2, <1>3, <1>4

-----------------------------------------------------------------------------
(* The inductive invariant.                                                 *)

\* The steps of MemoriaKernel, by what they do to the planner.
LEMMA ClasesDePasos ==
  ASSUME [NextK]_varsK
  PROVE  \/ Comunes /\ PropiasQuietas
         \/ Quietas \/ AvisoDesalojar
         \/ \E d \in Dispositivos : Encolar(d) \/ Avisar(d)
         \/ \E c \in Cpus : AtenderMemoria(c)
<1>1. CASE (LargoPlazo /\ UNCHANGED propias) \/ CortoRevisar \/ CortoTurno
           \/ EscucharRespuesta \/ UNCHANGED varsK
  BY <1>1
  DEF Comunes, PropiasQuietas, CortoRevisar, CortoTurno, EscucharRespuesta, varsK, propias,
      compactar
<1>2. CASE KmMemoria
  BY <1>2 DEF KmMemoria, Comunes, PropiasQuietas, Quietas, propias, compactar
<1>3. CASE Escuchar
  BY <1>1, <1>3 DEF Escuchar, Quietas
<1>4. CASE Dispositivo
  BY <1>4 DEF Dispositivo, Quietas
<1>5. ASSUME NEW p \in Pids, Reloj(p)
      PROVE  (Comunes /\ PropiasQuietas) \/ Quietas
  BY <1>5 DEF Reloj, Comunes, PropiasQuietas, Quietas, propias, compactar
<1>6. ASSUME NEW c \in Cpus,
             \/ (CpuTomar(c) \/ CpuTerminar(c) \/ CpuInitProc(c)) /\ UNCHANGED propias
             \/ CpuMemoria(c) \/ AtenderComun(c)
      PROVE  (Comunes /\ PropiasQuietas) \/ Quietas
  BY <1>6 DEF Comunes, PropiasQuietas, Quietas, AtenderComun, propias, compactar
<1> QED
  BY <1>1, <1>2, <1>3, <1>4, <1>5, <1>6 DEF NextK

LEMMA InitInvK == InitK => InvK
<1> SUFFICES ASSUME InitK PROVE InvK
  OBVIOUS
<1>0. Init
  BY DEF InitK
<1>1. TipoBaseK /\ TipoKmK
  BY <1>0, BastantesK, InitTipoEn, InitKmTipo DEF TipoBaseK, TipoKmK
<1>2. TipoBloqueos /\ TipoDispositivos
  <2>1. 0 \in Pids
    BY Constantes
  <2> QED
    BY <2>1 DEF InitK, TipoBloqueos, TipoDispositivos
<1>3. MutexBien /\ PasosBien
  <2>1. NADIE \notin Cpus /\ NADIE # "stdin" /\ "stdin" \in Dispositivos
    BY LlamadasOK DEF Dispositivos
  <2> QED
    BY <1>0, <2>1 DEF InitK, Init, MutexBien, PasosBien
<1>4. CuerposBien
  <2>1. CuerposDe(respuestas_km) = {} /\ cuerpos = <<>>
    BY <1>0 DEF InitK, Init, CuerposDe
  <2> QED
    BY <2>1, FS_EmptySet DEF CuerposBien
<1>5. ReadyK
  <2>1. InvReady
    BY <1>0, InitReady
  <2>2. Sobra = 0
    BY <2>1, EsSobra DEF InvReady, TipoReady, TipoBase
  <2>3. PorAvisarD = {}
    BY DEF InitK, PorAvisarD
  <2> QED
    BY <2>1, <2>2, <2>3, FS_EmptySet DEF ReadyK, InvReady
<1>6. CpuK
  BY <1>0, BastantesK, InitPermisosEn DEF CpuK
<1> QED
  BY <1>1, <1>2, <1>3, <1>4, <1>5, <1>6 DEF InvK, TipoK

LEMMA NextReadyK ==
  ASSUME InvK, [NextK]_varsK
  PROVE  ReadyK'
<1>0. TipoReady(PasosK, MensajesK) /\ TipoK /\ Sobra + Cardinality(PorAvisarD) = 0
  BY DEF InvK, ReadyK, TipoReady, TipoK, TipoBaseK
<1>1. CASE Comunes /\ PropiasQuietas
  <2>1. PorAvisarD' = PorAvisarD
    BY <1>1 DEF PropiasQuietas, dispositivos, PorAvisarD
  <2> QED
    BY <1>0, <1>1, <2>1, ComunesReady DEF ReadyK
<1>2. CASE Quietas \/ \E c \in Cpus : AtenderMemoria(c)
  BY <1>0, <1>2, PropiasReady DEF ReadyK
<1>3. CASE AvisoDesalojar
  BY <1>0, <1>3, DesalojarReady DEF ReadyK
<1>4. ASSUME NEW d \in Dispositivos, Encolar(d) \/ Avisar(d)
      PROVE  ReadyK'
  BY <1>0, <1>4, DispReady DEF ReadyK
<1> QED
  BY <1>1, <1>2, <1>3, <1>4, ClasesDePasos

LEMMA NextCpuK ==
  ASSUME InvK, [NextK]_varsK
  PROVE  CpuK'
<1>1. CASE compactacion_en_progreso
  BY <1>1, CompactaSigue DEF CpuK
<1>2. CASE ~ compactacion_en_progreso
  <2>1. InvCpuEn(PasosK, MensajesK, PasosConCpuK) /\ TipoK
    BY <1>2 DEF InvK, CpuK, InvCpuEn, TipoK, TipoBaseK
  <2>2. ~ AvisoDesalojar
    BY <1>2, <2>1 DEF AvisoDesalojar, DesalojarCon, TipoK, PasosBien
  <2>3. PermisosCpu' /\ CpuDelHiloEn(PasosConCpuK)'
    BY <2>1, <2>2, ClasesDePasos, ComunesCpu, PropiasCpu
  <2> QED
    BY <2>3 DEF CpuK
<1> QED
  BY <1>1, <1>2

(* MemoriaInvariante: the types, the ownership of mx_comunicacion_memoria   *)
(* and the permits, together inductive.                                     *)
THEOREM MemoriaInvariante == SpecK => []InvK
<1>1. InitK => InvK
  BY InitInvK
<1>2. InvK /\ [NextK]_varsK => InvK'
  BY NextTipoK, NextReadyK, NextCpuK DEF InvK
<1> QED
  BY <1>1, <1>2, PTL DEF SpecK

(* MutexDeMemoria: the types of the module; a thread that waits for the     *)
(* answer to its own request holds mx_comunicacion_memoria, nobody else     *)
(* does, and every body in the stream of Kernel Memory has its data.        *)
THEOREM MutexDeMemoria == SpecK => []TipoMemoria
<1>1. InvK => TipoMemoria
  BY DEF InvK, TipoK, TipoBloqueos, TipoDispositivos, MutexBien, CuerposBien, CuerposDe,
      TipoMemoria
<1> QED
  BY <1>1, MemoriaInvariante, PTL

(* PermisosReadyExactos: the permits of sem_procesos_ready stay exact with  *)
(* the devices and through the evictions of a compaction.                   *)
THEOREM PermisosReadyExactos == SpecK => []PermisosReadyK
<1>1. InvK => PermisosReadyK
  <2> SUFFICES ASSUME InvK PROVE PermisosReadyK
    OBVIOUS
  <2> DEFINE a == Si(ConPermiso)
             b == Si(pc_largo = "avisar")
             s == sem_procesos_ready
             n == Cardinality(PorAvisarD)
             m == Cardinality(PorAvisar)
             r == Cardinality(EntradasReady)
  <2>1. TipoReady(PasosK, MensajesK)
    BY DEF InvK, ReadyK, TipoReady, TipoK, TipoBaseK
  <2>2. s \in Nat /\ m \in Nat /\ r \in Nat /\ n \in Nat /\ a \in Nat /\ b \in Nat
    BY <2>1, Numeros, PorAvisarDFinito, SiTipo
  <2>3. Si(pc_io = "avisar") = 0
    BY DEF InvK, TipoK, PasosBien, Si
  <2>4. s + (a + b + 0) + m - r + n = 0
    BY <2>3 DEF InvK, ReadyK, Sobra, Deudas
  <2>5. PermisosReadyK <=> s + a + b + n + m = r
    BY DEF PermisosReadyK, ConPermiso, PorAvisar, PorAvisarD
  <2> HIDE DEF a, b, s, n, m, r
  <2> QED
    BY <2>2, <2>4, <2>5
<1> QED
  BY <1>1, MemoriaInvariante, PTL

(* PermisosCpuHastaCompactar: until a compaction is announced every permit  *)
(* of sem_cpus_libres stands for a free CPU, through the calls that block.  *)
THEOREM PermisosCpuHastaCompactar == SpecK => []PermisosCpuK
<1>1. InvK => PermisosCpuK
  BY DEF InvK, CpuK, PermisosCpuK
<1> QED
  BY <1>1, MemoriaInvariante, PTL

-----------------------------------------------------------------------------
(* The places of the PCBs, until a compaction is announced.  To those of    *)
(* Planificador this module adds the BLOCK and suspended lists of each      *)
(* class, the timers that have taken a PCB, and the threads of the devices. *)

PasosDespierto == {"escribir", "confirmar", "encolar"}

\* Process p is at one of the places that this module adds.
EnFuera(p, t, k) ==
  \/ t = "block" /\ k \in Clases /\ EnLista(p, block[k])
  \/ t = "susp" /\ k \in Clases /\ EnLista(p, susp[k])
  \/ t = "reloj" /\ k \in Clases /\ p \in retirados[k]
  \/ t = "dispositivo" /\ k \in Dispositivos /\ pcb_d[k] = p /\ pc_d[k] \in PasosDespierto

Fuera == {p \in Pids : \E t, k : EnFuera(p, t, k)}

SinRepetidos(s) == \A i, j \in DOMAIN s : s[i] = s[j] => i = j

FueraBien ==
  /\ \A k \in Clases : SinRepetidos(block[k]) /\ SinRepetidos(susp[k])
  /\ \A p \in Fuera : estado[p] # "NO_CREADO"
  /\ \A p \in Pids : \A t, k, u, j :
       EnFuera(p, t, k) /\ EnFuera(p, u, j) => t = u /\ k = j

LadoK == LadoCpuEn(MensajesK, PasosConCpuK)
SitioK == LadoK /\ LugaresSin(Fuera) /\ ReservaBien /\ FueraBien

\* list_remove and list_add on a list without repetitions.
LEMMA QuitarSinRepetir ==
  ASSUME NEW s \in Seq(Pids), SinRepetidos(s), NEW p
  PROVE  /\ SinRepetidos(Quitar(p, s))
         /\ \A q : EnLista(q, Quitar(p, s)) <=> EnLista(q, s) /\ q # p
<1>1. CASE ~ EnLista(p, s)
  BY <1>1, QuitarUno
<1>2. CASE EnLista(p, s)
  <2> DEFINE r == Quitar(p, s)
             n == Len(s)
  <2>1. PICK i \in DOMAIN s :
          /\ s[i] = p /\ Len(r) = n - 1
          /\ \A j \in 1 .. n - 1 : r[j] = IF j < i THEN s[j] ELSE s[j + 1]
    BY <1>2, QuitarUno
  <2>2. r \in Seq(Pids)
    BY QuitarUno
  <2>3. DOMAIN s = 1 .. n /\ n \in Nat
    OBVIOUS
  <2>4. DOMAIN r = 1 .. n - 1
    BY <2>1, <2>2
  <2> HIDE DEF r, n
  <2>5. SinRepetidos(r)
    <3> SUFFICES ASSUME NEW a \in 1 .. n - 1, NEW b \in 1 .. n - 1, r[a] = r[b]
                 PROVE  a = b
      BY <2>4 DEF SinRepetidos
    <3>1. \A x, y \in 1 .. n : s[x] = s[y] => x = y
      BY <2>3 DEF SinRepetidos
    <3>2. /\ a \in 1 .. n /\ a + 1 \in 1 .. n /\ b \in 1 .. n /\ b + 1 \in 1 .. n
          /\ i \in 1 .. n
      BY <2>3
    <3> QED
      BY <2>1, <3>1, <3>2
  <2>6. ASSUME NEW q, EnLista(q, r)
        PROVE  EnLista(q, s) /\ q # p
    <3>1. PICK a \in 1 .. n - 1 : r[a] = q
      BY <2>4, <2>6 DEF EnLista
    <3>2. PICK b \in 1 .. n : s[b] = q /\ b # i
      BY <2>1, <2>3, <3>1
    <3> QED
      BY <2>1, <2>3, <3>2 DEF EnLista, SinRepetidos
  <2>7. ASSUME NEW q, EnLista(q, s), q # p
        PROVE  EnLista(q, r)
    <3>1. PICK b \in 1 .. n : s[b] = q /\ b # i
      BY <2>1, <2>3, <2>7 DEF EnLista
    <3>2. \E a \in 1 .. n - 1 : r[a] = q
      <4>1. CASE b < i
        BY <2>1, <2>3, <3>1, <4>1
      <4>2. CASE b > i
        <5>1. b - 1 \in 1 .. n - 1 /\ ~ (b - 1 < i) /\ (b - 1) + 1 = b
          BY <2>3, <4>2
        <5> QED
          BY <2>1, <3>1, <5>1
      <4> QED
        BY <2>3, <3>1, <4>1, <4>2
    <3> QED
      BY <2>4, <3>2 DEF EnLista
  <2> QED
    BY <2>5, <2>6, <2>7 DEF r
<1> QED
  BY <1>1, <1>2

LEMMA AgregarSinRepetir ==
  ASSUME NEW s \in Seq(Pids), SinRepetidos(s), NEW p \in Pids, ~ EnLista(p, s)
  PROVE  /\ SinRepetidos(Append(s, p))
         /\ \A q : EnLista(q, Append(s, p)) <=> EnLista(q, s) \/ q = p
<1> DEFINE r == Append(s, p)
           n == Len(s) + 1
<1>1. /\ DOMAIN s = 1 .. n - 1 /\ DOMAIN r = 1 .. n /\ n \in Nat \ {0} /\ r[n] = p
      /\ \A i \in 1 .. n - 1 : r[i] = s[i]
  OBVIOUS
<1> HIDE DEF r, n
<1>2. SinRepetidos(r)
  BY <1>1 DEF SinRepetidos, EnLista
<1>3. \A q : EnLista(q, r) <=> EnLista(q, s) \/ q = p
  BY <1>1 DEF EnLista
<1> QED
  BY <1>2, <1>3 DEF r

-----------------------------------------------------------------------------
(* What a step does to those places: nothing, or one process moves between  *)
(* them, comes from its CPU or goes to READY.                               *)

MismosFuera == \A q \in Pids : \A t, k : EnFuera(q, t, k)' <=> EnFuera(q, t, k)
MismosEn == \A q \in Pids : \A t, x : En(q, t, x)' <=> En(q, t, x)

\* Process p leaves place k of kind t for place j of kind u.
MueveFuera(p, t, k, u, j) ==
  /\ EnFuera(p, t, k)
  /\ \A q \in Pids : \A v, l :
       EnFuera(q, v, l)' <=> \/ EnFuera(q, v, l) /\ ~ (q = p /\ v = t /\ l = k)
                             \/ q = p /\ v = u /\ l = j

EntraFuera(p, u, j) ==
  \A q \in Pids : \A v, l : EnFuera(q, v, l)' <=> EnFuera(q, v, l) \/ (q = p /\ v = u /\ l = j)

SaleFuera(p, t, k) ==
  /\ EnFuera(p, t, k)
  /\ \A q \in Pids : \A v, l :
       EnFuera(q, v, l)' <=> EnFuera(q, v, l) /\ ~ (q = p /\ v = t /\ l = k)

(* The moves between the places of this module.                             *)
Despertado(t, u) ==
  <<t, u>> \in {<<"block", "reloj">>, <<"reloj", "susp">>, <<"block", "dispositivo">>,
                <<"susp", "dispositivo">>}

EfectoK ==
  \/ MismosFuera /\ ((MismosCreados /\ Efecto) \/ \E n \in Pids : Nacimiento(n))
  \/ /\ MismosCreados /\ Quietos
     /\ \E p \in Pids : \E t, k, u, j : MueveFuera(p, t, k, u, j) /\ Despertado(t, u)
  \/ /\ MismosCreados
     /\ \E p \in Pids : \E k :
          /\ EnTipo(p, "cpu") /\ EntraFuera(p, "block", k)
          /\ \A q \in Pids \ {p} : \A v : EnTipo(q, v) => EnTipo(q, v)'
  \/ /\ MismosCreados
     /\ \E p \in Pids : \E k :
          /\ SaleFuera(p, "dispositivo", k) /\ EnTipo(p, "ready")'
          /\ \A q \in Pids \ {p} : \A v : EnTipo(q, v) => EnTipo(q, v)'

(* A process that enters or leaves the places of Planificador.              *)
LEMMA SaleDeLugares ==
  ASSUME NEW F, LugaresSin(F), MismosCreados, NEW p \in Pids, NEW t, NEW x, En(p, t, x),
         \A q \in Pids : \A v, z : En(q, v, z)' <=> En(q, v, z) /\ ~ (q = p /\ v = t /\ z = x)
  PROVE  LugaresSin(F \cup {p})'
<1>1. SinLugar(p)'
  BY Unico DEF SinLugar
<1>2. ASSUME NEW q \in Pids \ {p}
      PROVE  IF estado'[q] = "NO_CREADO" \/ q \in F THEN SinLugar(q)' ELSE UnLugar(q)'
  <2>0. \A v, z : En(q, v, z)' <=> En(q, v, z)
    OBVIOUS
  <2>1. SinLugar(q) => SinLugar(q)'
    BY <2>0 DEF SinLugar
  <2>2. \A v, z : SoloEn(q, v, z) => SoloEn(q, v, z)'
    BY <2>0 DEF SoloEn
  <2>3. UnLugar(q) => UnLugar(q)'
    BY <2>2 DEF UnLugar
  <2> QED
    BY <2>1, <2>3 DEF LugaresSin, MismosCreados
<1> QED
  BY <1>1, <1>2 DEF LugaresSin

Llega(p, t, x) ==
  \A q \in Pids : \A v, z : En(q, v, z)' <=> En(q, v, z) \/ (q = p /\ v = t /\ z = x)

LEMMA EntraALugares ==
  ASSUME NEW F, LugaresSin(F), MismosCreados, NEW p \in F, p \in Pids, estado[p] # "NO_CREADO",
         NEW t, NEW x, Llega(p, t, x)
  PROVE  LugaresSin(F \ {p})'
<1>1. UnLugar(p)'
  <2>1. SoloEn(p, t, x)'
    BY DEF LugaresSin, SinLugar, SoloEn, Llega
  <2> QED
    BY <2>1 DEF UnLugar
<1>2. ASSUME NEW q \in Pids \ {p}
      PROVE  IF estado'[q] = "NO_CREADO" \/ q \in F THEN SinLugar(q)' ELSE UnLugar(q)'
  <2>0. \A v, z : En(q, v, z)' <=> En(q, v, z)
    BY DEF Llega
  <2>1. SinLugar(q) => SinLugar(q)'
    BY <2>0 DEF SinLugar
  <2>2. \A v, z : SoloEn(q, v, z) => SoloEn(q, v, z)'
    BY <2>0 DEF SoloEn
  <2>3. UnLugar(q) => UnLugar(q)'
    BY <2>2 DEF UnLugar
  <2> QED
    BY <2>1, <2>3 DEF LugaresSin, MismosCreados
<1>3. estado'[p] # "NO_CREADO"
  BY DEF MismosCreados
<1> QED
  BY <1>1, <1>2, <1>3 DEF LugaresSin

(* The bookkeeping of Fuera for each kind of move.                          *)
ListasSinRepetir == \A k \in Clases : SinRepetidos(block[k]) /\ SinRepetidos(susp[k])

LEMMA FueraQuieta ==
  ASSUME FueraBien, MismosFuera, ListasSinRepetir',
         \A q \in Pids : estado[q] # "NO_CREADO" => estado'[q] # "NO_CREADO"
  PROVE  FueraBien' /\ Fuera' = Fuera
<1>1. Fuera' = Fuera
  BY DEF Fuera, MismosFuera
<1>2. \A q \in Fuera : estado'[q] # "NO_CREADO"
  BY DEF FueraBien, Fuera
<1> QED
  BY <1>1, <1>2 DEF FueraBien, MismosFuera, ListasSinRepetir

LEMMA FueraMovida ==
  ASSUME FueraBien, MismosCreados, ListasSinRepetir', NEW p \in Pids, NEW t, NEW k, NEW u, NEW j,
         MueveFuera(p, t, k, u, j)
  PROVE  FueraBien' /\ Fuera' = Fuera
<1>1. \A q \in Pids : q # p => \A v, l : EnFuera(q, v, l)' <=> EnFuera(q, v, l)
  BY DEF MueveFuera
<1>2. EnFuera(p, u, j)' /\ EnFuera(p, t, k)
  BY DEF MueveFuera
<1>3. Fuera' = Fuera
  BY <1>1, <1>2 DEF Fuera
<1>4. \A v, l : EnFuera(p, v, l)' => v = u /\ l = j
  BY DEF MueveFuera, FueraBien
<1>5. \A q \in Fuera : estado'[q] # "NO_CREADO"
  BY DEF FueraBien, Fuera, MismosCreados
<1>6. \A q \in Pids : \A v, l, w, h :
        EnFuera(q, v, l)' /\ EnFuera(q, w, h)' => v = w /\ l = h
  BY <1>1, <1>4 DEF FueraBien
<1> QED
  BY <1>3, <1>5, <1>6 DEF FueraBien, ListasSinRepetir

LEMMA FueraCrece ==
  ASSUME FueraBien, MismosCreados, ListasSinRepetir', NEW p \in Pids, NEW u, NEW j,
         p \notin Fuera, estado[p] # "NO_CREADO", EntraFuera(p, u, j)
  PROVE  FueraBien' /\ Fuera' = Fuera \cup {p}
<1>1. \A q \in Pids : q # p => \A v, l : EnFuera(q, v, l)' <=> EnFuera(q, v, l)
  BY DEF EntraFuera
<1>2. \A v, l : EnFuera(p, v, l)' <=> v = u /\ l = j
  BY DEF EntraFuera, Fuera
<1>3. Fuera' = Fuera \cup {p}
  BY <1>1, <1>2 DEF Fuera
<1>5. \A q \in Fuera \cup {p} : estado'[q] # "NO_CREADO"
  BY DEF FueraBien, Fuera, MismosCreados
<1>6. \A q \in Pids : \A v, l, w, h :
        EnFuera(q, v, l)' /\ EnFuera(q, w, h)' => v = w /\ l = h
  BY <1>1, <1>2 DEF FueraBien
<1> QED
  BY <1>3, <1>5, <1>6 DEF FueraBien, ListasSinRepetir

LEMMA FueraMengua ==
  ASSUME FueraBien, MismosCreados, ListasSinRepetir', NEW p \in Pids, NEW t, NEW k,
         SaleFuera(p, t, k)
  PROVE  FueraBien' /\ Fuera' = Fuera \ {p} /\ p \in Fuera
<1>1. \A q \in Pids : q # p => \A v, l : EnFuera(q, v, l)' <=> EnFuera(q, v, l)
  BY DEF SaleFuera
<1>2. \A v, l : ~ EnFuera(p, v, l)'
  BY DEF SaleFuera, FueraBien
<1>3. Fuera' = Fuera \ {p} /\ p \in Fuera
  BY <1>1, <1>2 DEF Fuera, SaleFuera
<1>5. \A q \in Fuera : estado'[q] # "NO_CREADO"
  BY DEF FueraBien, Fuera, MismosCreados
<1>6. \A q \in Pids : \A v, l, w, h :
        EnFuera(q, v, l)' /\ EnFuera(q, w, h)' => v = w /\ l = h
  BY <1>1, <1>2 DEF FueraBien
<1> QED
  BY <1>3, <1>5, <1>6 DEF FueraBien, ListasSinRepetir

-----------------------------------------------------------------------------
(* What a CPU holds is the process it is marked with, in the system calls   *)
(* too.                                                                     *)

LEMMA LadoIgual ==
  ASSUME LadoK, UNCHANGED <<despachos, corre, motivos, ejecutando, pc>>
  PROVE  LadoK'
  BY DEF LadoK, LadoCpuEn, Libre, ConSuProcesoEn

LEMMA LadoMemoria ==
  ASSUME TipoK, InvMotivosEn(PasosK, MensajesK, PasosConCpuK), NEW c \in Cpus,
         CpuMemoria(c) \/ AtenderMemoria(c)
  PROVE  LadoK'
<1>0. /\ TipoBaseK /\ TipoCpuEn(MensajesK) /\ LadoK
      /\ Libre(c) \/ ConSuProcesoEn(MensajesK, PasosConCpuK, c)
  BY DEF InvMotivosEn, TipoK, TipoBaseK, TipoBaseEn, LadoK, LadoCpuEn
<1>1. CASE CpuMemoria(c)
  <2>1. PICK s \in Llamadas : CpuPedir(c, s, 0)
    BY <1>1 DEF CpuMemoria
  <2> DEFINE m == [motivo |-> "MOTIVO_SYSCALL", pid |-> corre[c], syscall |-> s, prio |-> 0]
  <2>2. /\ corre[c] # NADIE /\ corre[c] \in Pids /\ CpuDevolver(c, m)
        /\ UNCHANGED <<ejecutando, pc>>
    BY <1>0, <2>1 DEF CpuPedir, CpuDevolver, TipoCpuEn, cpus_ks, hilos
  <2>3. m \in MensajesK /\ m.pid = corre[c] /\ m.syscall # "S_INIT_PROC"
    BY <2>2, Constantes, LlamadasOK DEF MensajesK
  <2> HIDE DEF m
  <2> QED
    BY <2>2, <2>3, DevolverMotivos DEF LadoK
<1>2. CASE RecibirBloqueante(c) \/ RecibirMemFree(c) \/ RecibirYNada(c)
  <2>1. /\ motivos[c] # <<>> /\ motivos' = [motivos EXCEPT ![c] = Tail(@)]
        /\ UNCHANGED <<despachos, corre, ejecutando>>
        /\ \A d \in Cpus \ {c} : pc'[d] = pc[d]
    <3>1. CASE RecibirYNada(c)
      BY <3>1 DEF RecibirYNada, cpus_ks, hilos
    <3>2. CASE RecibirBloqueante(c) \/ RecibirMemFree(c)
      <4>1. PICK s, paso : RecibirLlamada(c, s, paso)
        BY <3>2 DEF RecibirBloqueante, RecibirMemFree
      <4>2. Recibir(c, Head(motivos[c]), paso)
        BY <4>1 DEF RecibirLlamada
      <4>3. Ir(c, paso)
        BY <4>2 DEF Recibir
      <4> QED
        BY <1>0, <4>2, <4>3, IrK DEF Recibir, cpus_ks
    <3> QED
      BY <1>2, <3>1, <3>2
  <2>2. PICK m : motivos[c] = <<m>> /\ despachos[c] = <<>> /\ corre[c] = NADIE
    BY <1>0, <2>1 DEF Libre, ConSuProcesoEn
  <2>3. Tail(motivos[c]) = <<>>
    BY <2>2
  <2>4. Libre(c)'
    BY <1>0, <2>1, <2>2, <2>3 DEF Libre, TipoCpuEn
  <2>5. \A d \in Cpus \ {c} : motivos'[d] = motivos[d]
    BY <1>0, <2>1 DEF TipoCpuEn
  <2> QED
    BY <1>0, <2>1, <2>4, <2>5, OtrasQuietas DEF LadoK
<1>3. CASE \/ BloquearEn(c) \/ MemAllocPedir(c) \/ StdinPedir(c) \/ StdoutPedir(c)
           \/ StdoutCodigo(c) \/ StdoutDatos(c) \/ MemFreePedir(c)
  <2>1. UNCHANGED <<despachos, corre, motivos, ejecutando>>
    BY <1>3 DEF BloquearEn, MemAllocPedir, StdinPedir, StdoutPedir, StdoutCodigo, StdoutDatos,
        MemFreePedir, SoloKm, cpu, cpus_ks
  <2>2. CASE UNCHANGED pc
    BY <1>0, <2>1, <2>2, LadoIgual
  <2>3. CASE \E paso : Ir(c, paso) /\ (paso \notin PasosConCpuK \/ pc[c] \in PasosConCpuK)
    <3>1. PICK paso : Ir(c, paso) /\ (paso \notin PasosConCpuK \/ pc[c] \in PasosConCpuK)
      BY <2>3
    <3>2. pc'[c] = paso /\ \A d \in Cpus \ {c} : pc'[d] = pc[d]
      BY <1>0, <3>1, IrK
    <3>3. Libre(c) \/ (ejecutando'[c] = ejecutando[c] /\ pc'[c] \notin PasosConCpuK)
      BY <1>0, <2>1, <3>1, <3>2 DEF ConSuProcesoEn
    <3>4. Libre(c)' \/ ConSuProcesoEn(MensajesK, PasosConCpuK, c)'
      BY <1>0, <2>1, <3>3, CpuQuieta
    <3> QED
      BY <1>0, <2>1, <3>2, <3>4, OtrasQuietas DEF LadoK
  <2>4. \/ UNCHANGED pc
        \/ \E paso : Ir(c, paso) /\ (paso \notin PasosConCpuK \/ pc[c] \in PasosConCpuK)
    <3>1. CASE BloquearEn(c)
      <4>1. Ir(c, "block_liberar") /\ pc[c] \in PasosConCpuK
        BY <3>1 DEF BloquearEn, PasosConCpuK
      <4> QED
        BY <4>1
    <3>2. CASE MemFreePedir(c)
      <4>1. Ir(c, "ready_liberar") /\ pc[c] \in PasosConCpuK
        BY <3>2 DEF MemFreePedir, PasosConCpuK
      <4> QED
        BY <4>1
    <3>3. CASE \/ MemAllocPedir(c) \/ StdinPedir(c) \/ StdoutPedir(c) \/ StdoutCodigo(c)
               \/ StdoutDatos(c)
      <4>1. UNCHANGED pc \/ Ir(c, "recibir") \/ Ir(c, "leer_op") \/ Ir(c, "leer_cuerpo")
        BY <3>3 DEF MemAllocPedir, StdinPedir, StdoutPedir, StdoutCodigo, StdoutDatos,
            SoltarPcb, Imprimir, hilos
      <4>2. {"recibir", "leer_op", "leer_cuerpo"} \cap PasosConCpuK = {}
        BY DEF PasosConCpuK, PasosConCpu
      <4> QED
        BY <4>1, <4>2
    <3> QED
      BY <1>3, <3>1, <3>2, <3>3
  <2> QED
    BY <2>2, <2>3, <2>4
<1> QED
  BY <1>1, <1>2, <1>3 DEF AtenderMemoria

-----------------------------------------------------------------------------
(* The places, step by step.                                                *)

(* The steps of this module that touch no place of Planificador.            *)
LEMMA QuietasEn ==
  ASSUME Quietas
  PROVE  MismosEn /\ UNCHANGED <<proximo_pid, pc, pcb_h, msg, ejecutando>>
<1>1. UNCHANGED suspendiendo /\ UNCHANGED proximo_pid
  <2>1. CASE \E d \in Dispositivos : Servir(d) \/ BuscarBlock(d) \/ BuscarSusp(d)
    BY <2>1 DEF Servir, BuscarBlock, BuscarSusp, SinPlan, temps, procesos
  <2>2. CASE StdinEscribir \/ StdinConfirmar
    BY <2>2 DEF StdinEscribir, StdinConfirmar, SinPlan, temps, procesos
  <2>3. CASE \E k \in Clases, p \in Pids : RetirarDe(k, p) \/ SuspenderEn(k, p)
    BY <2>3 DEF RetirarDe, SuspenderEn, SinPlan, temps, procesos
  <2>4. CASE \/ KmCrearSegmento \/ KmConfirmada \/ KmEliminarSegmento \/ KmLectura
             \/ KmEscritura \/ KmStickNuevo
    <3>1. SinPlan
      BY <2>4 DEF KmCrearSegmento, KmConfirmada, KmEliminarSegmento, KmLectura, KmEscritura,
          KmStickNuevo
    <3> QED
      BY <3>1 DEF SinPlan, temps, procesos
  <2>5. CASE EscucharPaquete \/ EscucharCuerpo \/ EscucharDesconocida \/ EscucharAviso
    BY <2>5 DEF EscucharPaquete, EscucharCuerpo, EscucharDesconocida, EscucharAviso, SinPlan,
        temps, procesos
  <2>6. CASE \E c \in Cpus : CpuMemoria(c)
    BY <2>6 DEF CpuMemoria, CpuPedir, CpuDevolver, temps, procesos
  <2> QED
    BY <2>1, <2>2, <2>3, <2>4, <2>5, <2>6 DEF Quietas
<1>2. UNCHANGED <<colas, cpus_ks, largo, corto, hilos, io>>
  BY QuietasSinPlan
<1>3. MismosEn
  BY <1>1, <1>2 DEF MismosEn, En, EnReady, EntradasReady, colas, cpus_ks, largo, corto, hilos,
      io, PasosConPcbEnMano
<1> QED
  BY <1>1, <1>2, <1>3 DEF hilos, cpus_ks

(* The devices.                                                             *)
LEMMA DispositivoFuera ==
  ASSUME TipoBloqueos, TipoDispositivos, FueraBien, NEW d \in Dispositivos,
         BuscarBlock(d) \/ BuscarSusp(d)
  PROVE  /\ estado' = estado /\ ListasSinRepetir'
         /\ \/ MismosFuera
            \/ \E p \in Pids : \E t, k, u, j : MueveFuera(p, t, k, u, j) /\ Despertado(t, u)
<1>0. /\ d \in Clases /\ "stdin" \in Dispositivos
      /\ \A k \in Clases : block[k] \in Seq(Pids) /\ susp[k] \in Seq(Pids)
      /\ block \in [Clases -> Seq(Pids)] /\ susp \in [Clases -> Seq(Pids)]
      /\ pc_d \in [Dispositivos -> {"recibir", "buscar_susp", "escribir", "confirmar",
                                    "encolar", "avisar"}]
      /\ pcb_d \in [Dispositivos -> Pids \cup {NADIE}]
      /\ \A k \in Clases : SinRepetidos(block[k]) /\ SinRepetidos(susp[k])
  BY DEF TipoBloqueos, TipoDispositivos, FueraBien, Dispositivos, Clases
<1>1. TrasEncontrar(d) \in PasosDespierto
  BY DEF TrasEncontrar, PasosDespierto
<1>2. CASE BuscarBlock(d)
  <2> DEFINE p == Head(respuestas_d[d])
  <2>1. /\ pc_d[d] = "recibir" /\ p \in Pids
        /\ block' = [block EXCEPT ![d] = Quitar(p, @)]
        /\ pcb_d' = [pcb_d EXCEPT ![d] = p]
        /\ pc_d' = [pc_d EXCEPT ![d] =
                      IF EnLista(p, block[d]) THEN TrasEncontrar(d) ELSE "buscar_susp"]
        /\ UNCHANGED <<estado, susp, retirados>>
    BY <1>2 DEF BuscarBlock, SinPlan, procesos, TipoDispositivos
  <2> HIDE DEF p
  <2>2. /\ \A q : EnLista(q, block'[d]) <=> EnLista(q, block[d]) /\ q # p
        /\ \A k \in Clases : k # d => block'[k] = block[k]
        /\ SinRepetidos(block'[d])
    BY <1>0, <2>1, QuitarSinRepetir
  <2>3. /\ \A e \in Dispositivos : e # d => pcb_d'[e] = pcb_d[e] /\ pc_d'[e] = pc_d[e]
        /\ pcb_d'[d] = p
        /\ pc_d'[d] = IF EnLista(p, block[d]) THEN TrasEncontrar(d) ELSE "buscar_susp"
    BY <1>0, <2>1
  <2>4. ListasSinRepetir'
    BY <1>0, <2>1, <2>2 DEF ListasSinRepetir
  <2>5. pc_d[d] \notin PasosDespierto /\ "buscar_susp" \notin PasosDespierto
    BY <2>1 DEF PasosDespierto
  <2>6. CASE EnLista(p, block[d])
    <3>1. MueveFuera(p, "block", d, "dispositivo", d)
      BY <1>0, <1>1, <2>1, <2>2, <2>3, <2>5, <2>6 DEF MueveFuera, EnFuera
    <3> QED
      BY <2>1, <2>4, <3>1 DEF Despertado
  <2>7. CASE ~ EnLista(p, block[d])
    <3>1. \A k \in Clases : \A q : EnLista(q, block'[k]) <=> EnLista(q, block[k])
      BY <2>2, <2>7
    <3>2. MismosFuera
      BY <2>1, <2>3, <2>5, <2>7, <3>1 DEF MismosFuera, EnFuera
    <3> QED
      BY <2>1, <2>4, <3>2
  <2> QED
    BY <2>6, <2>7
<1>3. CASE BuscarSusp(d)
  <2> DEFINE p == pcb_d[d]
  <2>1. /\ pc_d[d] = "buscar_susp"
        /\ susp' = [susp EXCEPT ![d] = Quitar(p, @)]
        /\ pcb_d' = [pcb_d EXCEPT ![d] = IF EnLista(p, susp[d]) THEN @ ELSE NADIE]
        /\ pc_d' = [pc_d EXCEPT ![d] =
                      IF EnLista(p, susp[d]) THEN TrasEncontrar(d) ELSE "recibir"]
        /\ UNCHANGED <<estado, block, retirados>>
    BY <1>3 DEF BuscarSusp, SinPlan, procesos
  <2>2. p \in Pids
    BY <1>0, <2>1 DEF TipoDispositivos
  <2>3. /\ \A q : EnLista(q, susp'[d]) <=> EnLista(q, susp[d]) /\ q # p
        /\ \A k \in Clases : k # d => susp'[k] = susp[k]
        /\ SinRepetidos(susp'[d])
    BY <1>0, <2>1, QuitarSinRepetir
  <2>4. /\ \A e \in Dispositivos : e # d => pcb_d'[e] = pcb_d[e] /\ pc_d'[e] = pc_d[e]
        /\ EnLista(p, susp[d]) => pcb_d'[d] = p
        /\ pc_d'[d] = IF EnLista(p, susp[d]) THEN TrasEncontrar(d) ELSE "recibir"
    BY <1>0, <2>1
  <2> HIDE DEF p
  <2>5. ListasSinRepetir'
    BY <1>0, <2>1, <2>3 DEF ListasSinRepetir
  <2>6. pc_d[d] \notin PasosDespierto /\ "recibir" \notin PasosDespierto
    BY <2>1 DEF PasosDespierto
  <2>7. CASE EnLista(p, susp[d])
    <3>1. MueveFuera(p, "susp", d, "dispositivo", d)
      BY <1>0, <1>1, <2>1, <2>3, <2>4, <2>6, <2>7 DEF MueveFuera, EnFuera
    <3> QED
      BY <2>1, <2>2, <2>5, <3>1 DEF Despertado
  <2>8. CASE ~ EnLista(p, susp[d])
    <3>1. \A k \in Clases : \A q : EnLista(q, susp'[k]) <=> EnLista(q, susp[k])
      BY <2>3, <2>8
    <3>2. MismosFuera
      BY <2>1, <2>4, <2>6, <2>8, <3>1 DEF MismosFuera, EnFuera
    <3> QED
      BY <2>1, <2>5, <3>2
  <2> QED
    BY <2>7, <2>8
<1> QED
  BY <1>2, <1>3

(* The suspension timers.                                                   *)
LEMMA RelojFuera ==
  ASSUME TipoBloqueos, FueraBien, NEW k \in Clases, NEW p \in Pids,
         RetirarDe(k, p) \/ SuspenderEn(k, p)
  PROVE  /\ ListasSinRepetir' /\ (estado' = estado \/ (p \in Fuera /\ SuspenderEn(k, p)))
         /\ \/ MismosFuera
            \/ \E t, u : MueveFuera(p, t, k, u, k) /\ Despertado(t, u)
<1>0. /\ block \in [Clases -> Seq(Pids)] /\ susp \in [Clases -> Seq(Pids)]
      /\ \A j \in Clases : block[j] \in Seq(Pids) /\ susp[j] \in Seq(Pids)
      /\ retirados \in [Clases -> SUBSET Pids]
      /\ \A j \in Clases : SinRepetidos(block[j]) /\ SinRepetidos(susp[j])
  BY DEF TipoBloqueos, FueraBien
<1>1. CASE RetirarDe(k, p)
  <2>1. /\ block' = [block EXCEPT ![k] = Quitar(p, @)]
        /\ retirados' = [retirados EXCEPT ![k] = @ \cup Alcanzados(k, p)]
        /\ UNCHANGED <<estado, susp, pc_d, pcb_d>>
    BY <1>1 DEF RetirarDe, SinPlan, procesos, dispositivos
  <2>2. /\ \A q : EnLista(q, block'[k]) <=> EnLista(q, block[k]) /\ q # p
        /\ \A j \in Clases : j # k => block'[j] = block[j] /\ retirados'[j] = retirados[j]
        /\ SinRepetidos(block'[k])
        /\ \A q : q \in retirados'[k] <=> q \in retirados[k] \/ (q = p /\ EnLista(p, block[k]))
    BY <1>0, <2>1, QuitarSinRepetir DEF Alcanzados
  <2>3. ListasSinRepetir'
    BY <1>0, <2>1, <2>2 DEF ListasSinRepetir
  <2>4. CASE EnLista(p, block[k])
    <3>1. MueveFuera(p, "block", k, "reloj", k)
      BY <1>0, <2>1, <2>2, <2>4 DEF MueveFuera, EnFuera
    <3> QED
      BY <2>1, <2>3, <3>1 DEF Despertado
  <2>5. CASE ~ EnLista(p, block[k])
    <3>1. /\ \A j \in Clases : \A q : EnLista(q, block'[j]) <=> EnLista(q, block[j])
          /\ \A j \in Clases : \A q : q \in retirados'[j] <=> q \in retirados[j]
      BY <2>2, <2>5
    <3>2. MismosFuera
      BY <2>1, <3>1 DEF MismosFuera, EnFuera
    <3> QED
      BY <2>1, <2>3, <3>2
  <2> QED
    BY <2>4, <2>5
<1>2. CASE SuspenderEn(k, p)
  <2>1. /\ p \in retirados[k] /\ susp' = [susp EXCEPT ![k] = Append(@, p)]
        /\ retirados' = [retirados EXCEPT ![k] = @ \ {p}]
        /\ UNCHANGED <<block, pc_d, pcb_d>>
    BY <1>2 DEF SuspenderEn, ListaSusp, dispositivos
  <2>2. EnFuera(p, "reloj", k) /\ p \in Fuera
    BY <2>1 DEF EnFuera, Fuera
  <2>3. ~ EnLista(p, susp[k])
    <3>1. EnLista(p, susp[k]) => EnFuera(p, "susp", k)
      BY DEF EnFuera
    <3> QED
      BY <2>2, <3>1 DEF FueraBien
  <2>4. /\ \A q : EnLista(q, susp'[k]) <=> EnLista(q, susp[k]) \/ q = p
        /\ \A j \in Clases : j # k => susp'[j] = susp[j] /\ retirados'[j] = retirados[j]
        /\ SinRepetidos(susp'[k])
        /\ \A q : q \in retirados'[k] <=> q \in retirados[k] /\ q # p
    BY <1>0, <2>1, <2>3, AgregarSinRepetir
  <2>5. ListasSinRepetir'
    BY <1>0, <2>1, <2>4 DEF ListasSinRepetir
  <2>6. MueveFuera(p, "reloj", k, "susp", k)
    BY <2>1, <2>2, <2>4 DEF MueveFuera, EnFuera
  <2> QED
    BY <1>2, <2>2, <2>5, <2>6 DEF Despertado
<1> QED
  BY <1>1, <1>2

(* A step that leaves every place alone, or only moves a PCB between those  *)
(* of this module.                                                          *)
LEMMA SitioQuieto ==
  ASSUME LugaresSin(Fuera), FueraBien, MismosCreados, MismosEn, ListasSinRepetir',
         \/ MismosFuera
         \/ \E p \in Pids : \E t, k, u, j : MueveFuera(p, t, k, u, j) /\ Despertado(t, u)
  PROVE  LugaresSin(Fuera)' /\ FueraBien' /\ EfectoK
<1>1. FueraBien' /\ Fuera' = Fuera
  BY FueraQuieta, FueraMovida DEF MismosCreados
<1>2. PICK F : F = Fuera
  OBVIOUS
<1>3. LugaresSin(F)' /\ Quietos
  BY <1>2, SinMover DEF MismosEn
<1>4. LugaresSin(Fuera)'
  BY <1>1, <1>2, <1>3 DEF LugaresSin
<1> QED
  BY <1>1, <1>3, <1>4 DEF EfectoK, Efecto

(* The steps that Planificador and this module share.                       *)
LEMMA ComunesSitio ==
  ASSUME UnCreador, InvMotivosEn(PasosK, MensajesK, PasosConCpuK), SitioK, Comunes,
         PropiasQuietas
  PROVE  SitioK' /\ EfectoK
<1>1. [Next]_vars
  BY DEF Comunes, Next, Cpu, Temporizador
<1>2. Bastan(PasosK, MensajesK) /\ BastanPasos(PasosConCpuK)
  BY BastantesK
<1>3. LadoK'
  BY <1>1, <1>2, LadoDelPaso DEF LadoK
<1>4. PICK F : F = Fuera
  OBVIOUS
<1>5. InvLugaresEn(PasosK, MensajesK, PasosConCpuK, F)
  BY <1>4 DEF InvLugaresEn, SitioK, FueraBien, Fuera
<1>6. /\ LugaresSin(F)' /\ ReservaBien'
      /\ (MismosCreados /\ Efecto) \/ \E n \in Pids : Nacimiento(n)
  BY <1>1, <1>2, <1>5, EfectoDelPasoEn
<1>7. UNCHANGED <<block, susp, retirados, pc_d, pcb_d>>
  BY DEF PropiasQuietas, bloqueos, dispositivos
<1>8. MismosFuera
  BY <1>7 DEF MismosFuera, EnFuera
<1>9. ListasSinRepetir'
  BY <1>7 DEF SitioK, FueraBien, ListasSinRepetir
<1>10. \A q \in Pids : estado[q] # "NO_CREADO" => estado'[q] # "NO_CREADO"
  BY <1>6 DEF MismosCreados, Nacimiento
<1>11. FueraBien' /\ Fuera' = Fuera
  BY <1>8, <1>9, <1>10, FueraQuieta DEF SitioK
<1>12. LugaresSin(Fuera)'
  BY <1>4, <1>6, <1>11 DEF LugaresSin
<1> QED
  BY <1>3, <1>6, <1>8, <1>11, <1>12 DEF SitioK, EfectoK

LEMMA QuietasSitio ==
  ASSUME TipoK, InvMotivosEn(PasosK, MensajesK, PasosConCpuK), SitioK, Quietas
  PROVE  SitioK' /\ EfectoK
<1>0. TipoBloqueos /\ TipoDispositivos /\ FueraBien
  BY DEF TipoK, SitioK
<1>1. MismosEn /\ UNCHANGED <<proximo_pid, pc, pcb_h, msg, ejecutando>>
  BY QuietasEn
<1>2. /\ MismosCreados /\ ListasSinRepetir'
      /\ \/ MismosFuera
         \/ \E p \in Pids : \E t, k, u, j : MueveFuera(p, t, k, u, j) /\ Despertado(t, u)
  <2>1. CASE \E d \in Dispositivos : BuscarBlock(d) \/ BuscarSusp(d)
    BY <1>0, <2>1, DispositivoFuera DEF MismosCreados
  <2>2. CASE \E k \in Clases, p \in Pids : RetirarDe(k, p) \/ SuspenderEn(k, p)
    <3>1. PICK k \in Clases, p \in Pids : RetirarDe(k, p) \/ SuspenderEn(k, p)
      BY <2>2
    <3>2. /\ ListasSinRepetir' /\ (estado' = estado \/ (p \in Fuera /\ SuspenderEn(k, p)))
          /\ \/ MismosFuera
             \/ \E t, u : MueveFuera(p, t, k, u, k) /\ Despertado(t, u)
      BY <1>0, <3>1, RelojFuera
    <3>3. MismosCreados
      <4>1. CASE p \in Fuera /\ SuspenderEn(k, p)
        <5>1. estado' = [estado EXCEPT ![p] = "BLOCK"] /\ estado[p] # "NO_CREADO"
          BY <1>0, <4>1 DEF SuspenderEn, FueraBien
        <5>2. estado \in [Pids -> Estados]
          BY DEF TipoK, TipoBaseK, TipoBaseEn, TipoProcesos
        <5> QED
          BY <5>1, <5>2 DEF MismosCreados
      <4> QED
        BY <3>2, <4>1 DEF MismosCreados
    <3> QED
      BY <3>2, <3>3
  <2>3. CASE UNCHANGED <<estado, block, susp, retirados, pc_d, pcb_d>>
    BY <1>0, <2>3 DEF MismosCreados, ListasSinRepetir, FueraBien, MismosFuera, EnFuera
  <2>4. CASE StdinEscribir \/ StdinConfirmar
    <3>1. UNCHANGED <<estado, block, susp, retirados, pcb_d>>
      BY <2>4 DEF StdinEscribir, StdinConfirmar, SinPlan, procesos, bloqueos
    <3>2. /\ pc_d["stdin"] \in PasosDespierto /\ pc_d'["stdin"] \in PasosDespierto
          /\ \A d \in Dispositivos : d # "stdin" => pc_d'[d] = pc_d[d]
      BY <1>0, <2>4
      DEF StdinEscribir, StdinConfirmar, PasosDespierto, TipoDispositivos, Dispositivos
    <3> QED
      BY <1>0, <3>1, <3>2 DEF MismosCreados, ListasSinRepetir, FueraBien, MismosFuera, EnFuera
  <2>5. CASE \/ \E d \in Dispositivos : Servir(d)
             \/ EscucharPaquete \/ EscucharCuerpo \/ EscucharDesconocida \/ EscucharAviso
             \/ \E c \in Cpus : CpuMemoria(c)
    <3>1. UNCHANGED <<estado, block, susp, retirados, pc_d, pcb_d>>
      BY <2>5 DEF Servir, EscucharPaquete, EscucharCuerpo, EscucharDesconocida, EscucharAviso,
          CpuMemoria, CpuPedir, CpuDevolver, SinPlan, procesos, bloqueos, dispositivos, propias
    <3> QED
      BY <2>3, <3>1
  <2>6. CASE \/ KmCrearSegmento \/ KmConfirmada \/ KmEliminarSegmento \/ KmLectura
             \/ KmEscritura \/ KmStickNuevo
    <3>1. SinPlan /\ UNCHANGED <<bloqueos, dispositivos>>
      BY <2>6 DEF KmCrearSegmento, KmConfirmada, KmEliminarSegmento, KmLectura, KmEscritura,
          KmStickNuevo
    <3> QED
      BY <2>3, <3>1 DEF SinPlan, procesos, bloqueos, dispositivos
  <2> QED
    BY <2>1, <2>2, <2>4, <2>5, <2>6 DEF Quietas
<1>3. LugaresSin(Fuera)' /\ FueraBien' /\ EfectoK
  BY <1>1, <1>2, SitioQuieto DEF SitioK
<1>4. ReservaBien'
  BY <1>1, <1>2, ReservaIgual DEF SitioK
<1>5. LadoK'
  <2>1. CASE \E c \in Cpus : CpuMemoria(c)
    BY <2>1, LadoMemoria
  <2>2. CASE UNCHANGED <<despachos, corre, motivos>>
    BY <1>1, <2>2, LadoIgual DEF SitioK
  <2>3. CASE \E d \in Dispositivos : Servir(d) \/ BuscarBlock(d) \/ BuscarSusp(d)
    BY <2>2, <2>3 DEF Servir, BuscarBlock, BuscarSusp, SinPlan, cpu
  <2>4. CASE \/ StdinEscribir \/ StdinConfirmar
             \/ \E k \in Clases, p \in Pids : RetirarDe(k, p) \/ SuspenderEn(k, p)
    BY <2>2, <2>4 DEF StdinEscribir, StdinConfirmar, RetirarDe, SuspenderEn, SinPlan, cpu
  <2>5. CASE \/ KmCrearSegmento \/ KmConfirmada \/ KmEliminarSegmento \/ KmLectura
             \/ KmEscritura \/ KmStickNuevo
    <3>1. SinPlan
      BY <2>5 DEF KmCrearSegmento, KmConfirmada, KmEliminarSegmento, KmLectura, KmEscritura,
          KmStickNuevo
    <3> QED
      BY <2>2, <3>1 DEF SinPlan, cpu
  <2>6. CASE EscucharPaquete \/ EscucharCuerpo \/ EscucharDesconocida \/ EscucharAviso
    BY <2>2, <2>6
    DEF EscucharPaquete, EscucharCuerpo, EscucharDesconocida, EscucharAviso, SinPlan, cpu
  <2> QED
    BY <2>1, <2>3, <2>4, <2>5, <2>6 DEF Quietas
<1> QED
  BY <1>3, <1>4, <1>5 DEF SitioK

(* The handlers in a system call.                                           *)
LEMMA MemoriaHilos ==
  ASSUME TipoK, NEW c \in Cpus, AtenderMemoria(c)
  PROVE  /\ UNCHANGED <<proximo_pid, suspendiendo, susp, retirados, pcb_d>>
         /\ \A d \in Cpus \ {c} : msg'[d] = msg[d] /\ pc'[d] = pc[d] /\ pcb_h'[d] = pcb_h[d]
         /\ (pc'[c] = pc[c] /\ UNCHANGED hilos) \/ pc'[c] \notin PasosInit
<1>0. TipoHilosEn(PasosK, MensajesK) /\ TipoBaseK
  BY DEF TipoK, TipoBaseK, TipoBaseEn
<1>1. UNCHANGED <<proximo_pid, suspendiendo, susp, retirados, pcb_d>>
  <2>1. CASE RecibirBloqueante(c) \/ RecibirMemFree(c) \/ RecibirYNada(c)
    BY <2>1 DEF RecibirBloqueante, RecibirMemFree, RecibirYNada, RecibirLlamada, Recibir,
        procesos, temps, propias, bloqueos, dispositivos
  <2>2. CASE \/ BloquearEn(c) \/ MemAllocPedir(c) \/ StdinPedir(c) \/ StdoutPedir(c)
             \/ StdoutCodigo(c) \/ StdoutDatos(c) \/ MemFreePedir(c)
    BY <2>2 DEF BloquearEn, MemAllocPedir, StdinPedir, StdoutPedir, StdoutCodigo, StdoutDatos,
        MemFreePedir, SoloKm, procesos, temps, propias, bloqueos, dispositivos
  <2> QED
    BY <2>1, <2>2 DEF AtenderMemoria
<1>2. \A d \in Cpus \ {c} : msg'[d] = msg[d]
  <2>1. msg' = msg \/ \E m : msg' = [msg EXCEPT ![c] = m]
    <3>1. CASE RecibirBloqueante(c) \/ RecibirMemFree(c) \/ RecibirYNada(c)
      BY <3>1 DEF RecibirBloqueante, RecibirMemFree, RecibirYNada, RecibirLlamada, Recibir,
          hilos
    <3>2. CASE \/ BloquearEn(c) \/ MemAllocPedir(c) \/ StdinPedir(c) \/ StdoutPedir(c)
               \/ StdoutCodigo(c) \/ StdoutDatos(c) \/ MemFreePedir(c)
      <4>1. UNCHANGED msg \/ SoltarPcb(c)
        BY <3>2 DEF BloquearEn, MemAllocPedir, StdinPedir, StdoutPedir, StdoutCodigo,
            StdoutDatos, MemFreePedir, Imprimir, hilos
      <4> QED
        BY <4>1 DEF SoltarPcb
    <3> QED
      BY <3>1, <3>2 DEF AtenderMemoria
  <2> QED
    BY <1>0, <2>1 DEF TipoHilosEn
<1>3. /\ \A d \in Cpus \ {c} : pc'[d] = pc[d] /\ pcb_h'[d] = pcb_h[d]
      /\ (pc'[c] = pc[c] /\ UNCHANGED hilos) \/ pc'[c] \notin PasosInit
  <2>1. CASE UNCHANGED hilos
    BY <2>1 DEF hilos
  <2>2. CASE ~ UNCHANGED hilos
    <3>1. PICK paso \in {"bloquear_en", "mem_free", "block_liberar", "ready_liberar",
                         "recibir", "leer_op", "leer_cuerpo"} :
            Ir(c, paso) /\ \A d \in Cpus \ {c} : pcb_h'[d] = pcb_h[d]
      BY <2>2, MemoriaIr
    <3>2. pc'[c] = paso /\ \A d \in Cpus : d # c => pc'[d] = pc[d]
      BY <1>0, <3>1, IrK
    <3> QED
      BY <3>1, <3>2 DEF PasosInit
  <2> QED
    BY <2>1, <2>2
<1> QED
  BY <1>1, <1>2, <1>3

\* The calls that the handler of c only receives, asks or answers.
LEMMA MemoriaQuieta ==
  ASSUME TipoK, LugaresSin(Fuera), FueraBien, NEW c \in Cpus, AtenderMemoria(c), ~ BloquearEn(c)
  PROVE  MismosCreados /\ MismosEn /\ ListasSinRepetir' /\ MismosFuera
<1>0. TipoProcesos /\ TipoCpusKs /\ TipoHilosEn(PasosK, MensajesK) /\ TipoBaseK
  BY DEF TipoK, TipoBaseK, TipoBaseEn
<1>1. UNCHANGED <<suspendiendo, susp, retirados, pcb_d, colas, cpus_ks, largo, corto, io, pc_d>>
  BY MemoriaHilos, MemoriaIr
<1>2. block' = block
  BY DEF AtenderMemoria, RecibirBloqueante, RecibirMemFree, RecibirYNada, RecibirLlamada,
      MemAllocPedir, StdinPedir, StdoutPedir, StdoutCodigo, StdoutDatos, MemFreePedir,
      propias, bloqueos
<1>3. ListasSinRepetir' /\ MismosFuera
  BY <1>1, <1>2 DEF FueraBien, ListasSinRepetir, MismosFuera, EnFuera
<1>4. \A d \in Cpus :
        /\ pc'[d] = "block_liberar" <=> pc[d] = "block_liberar"
        /\ pc'[d] = "exit_post" <=> pc[d] = "exit_post"
        /\ pc'[d] \in {"ready_post", "ready_encolar"} <=> pc[d] \in {"ready_post", "ready_encolar"}
        /\ pc[d] \in PasosConPcbEnMano => pcb_h'[d] = pcb_h[d]
  <2>1. CASE UNCHANGED hilos
    BY <2>1 DEF hilos
  <2>2. CASE ~ UNCHANGED hilos
    <3>1. PICK paso \in {"bloquear_en", "mem_free", "block_liberar", "ready_liberar",
                         "recibir", "leer_op", "leer_cuerpo"} :
            /\ Ir(c, paso)
            /\ pc[c] \in {"recibir", "bloquear_en", "block_io", "mem_free", "leer_op",
                          "leer_cuerpo"}
            /\ \A d \in Cpus \ {c} : pcb_h'[d] = pcb_h[d]
      BY <2>2, MemoriaIr
    <3>2. pc'[c] = paso /\ \A d \in Cpus : d # c => pc'[d] = pc[d]
      BY <1>0, <3>1, IrK
    <3>3. paso # "block_liberar"
      <4>1. ~ Ir(c, "block_liberar")
        <5>1. CASE RecibirBloqueante(c) \/ RecibirMemFree(c)
          <6>1. PICK s, q : RecibirLlamada(c, s, q) /\ q \in {"bloquear_en", "mem_free"}
            BY <5>1 DEF RecibirBloqueante, RecibirMemFree
          <6> QED
            BY <1>0, <6>1, IrK DEF RecibirLlamada, Recibir
        <5>2. CASE RecibirYNada(c)
          BY <2>2, <5>2 DEF RecibirYNada
        <5>3. CASE MemFreePedir(c) \/ StdoutPedir(c)
          <6>1. Ir(c, "ready_liberar") \/ Ir(c, "leer_op")
            BY <5>3 DEF MemFreePedir, StdoutPedir
          <6> QED
            BY <1>0, <6>1, IrK
        <5>4. CASE MemAllocPedir(c) \/ StdinPedir(c) \/ StdoutCodigo(c) \/ StdoutDatos(c)
          <6>1. Ir(c, "recibir") \/ Ir(c, "leer_cuerpo") \/ UNCHANGED hilos
            BY <5>4
            DEF MemAllocPedir, StdinPedir, StdoutCodigo, StdoutDatos, Imprimir, SoltarPcb
          <6> QED
            BY <1>0, <2>2, <6>1, IrK
        <5> QED
          BY <5>1, <5>2, <5>3, <5>4 DEF AtenderMemoria
      <4> QED
        BY <3>1, <4>1
    <3> QED
      BY <3>1, <3>2, <3>3 DEF PasosConPcbEnMano
  <2> QED
    BY <2>1, <2>2
<1>5. MismosEn
  <2> SUFFICES ASSUME NEW q \in Pids, NEW v, NEW z
               PROVE  En(q, v, z)' <=> En(q, v, z)
    BY DEF MismosEn
  <2>1. v \notin {"cpu", "saliente", "devuelto"} => (En(q, v, z)' <=> En(q, v, z))
    BY <1>1 DEF En, EnReady, EntradasReady, colas, largo, corto, io
  <2>2. v \in {"cpu", "saliente", "devuelto"} => (En(q, v, z)' <=> En(q, v, z))
    BY <1>1, <1>4 DEF En, cpus_ks, PasosConPcbEnMano
  <2> QED
    BY <2>1, <2>2
<1>6. MismosCreados
  <2>1. CASE estado' = estado
    BY <2>1 DEF MismosCreados
  <2>2. CASE RecibirBloqueante(c)
    <3>1. PICK s : RecibirLlamada(c, s, "bloquear_en")
      BY <2>2 DEF RecibirBloqueante
    <3>2. /\ estado' = [estado EXCEPT ![ejecutando[c]] = "BLOCK"]
          /\ ejecutando[c] \in Pids /\ pc[c] = "recibir"
      BY <1>0, <2>2, <3>1 DEF RecibirBloqueante, RecibirLlamada, Recibir, TipoCpusKs
    <3>3. En(ejecutando[c], "cpu", c)
      BY <3>2 DEF En
    <3>4. PICK F : F = Fuera
      OBVIOUS
    <3>5. estado[ejecutando[c]] # "NO_CREADO"
      BY <3>2, <3>3, <3>4, Unico
    <3> QED
      BY <1>0, <3>2, <3>5 DEF MismosCreados, TipoProcesos
  <2>3. estado' = estado \/ RecibirBloqueante(c)
    BY DEF AtenderMemoria, RecibirMemFree, RecibirYNada, MemAllocPedir, StdinPedir, StdoutPedir,
        StdoutCodigo, StdoutDatos, MemFreePedir, SoloKm, procesos
  <2> QED
    BY <2>1, <2>2, <2>3
<1> QED
  BY <1>3, <1>5, <1>6

\* The handler of c puts the PCB of its CPU in the BLOCK list of the call.
LEMMA BloquearLugar ==
  ASSUME TipoK, CpuDelHiloEn(PasosConCpuK), LugaresSin(Fuera), FueraBien, NEW c \in Cpus,
         BloquearEn(c)
  PROVE  LugaresSin(Fuera)' /\ FueraBien' /\ MismosCreados /\ EfectoK
<1>0. /\ TipoBaseK /\ TipoHilosEn(PasosK, MensajesK) /\ pc[c] = "bloquear_en"
      /\ block \in [Clases -> Seq(Pids)] /\ PasosBien
      /\ \A j \in Clases : block[j] \in Seq(Pids)
  BY DEF BloquearEn, TipoK, TipoBaseK, TipoBaseEn, TipoBloqueos
<1>1. PICK p \in Pids : pcb_h[c] = p /\ ejecutando[c] = p
  BY <1>0, TrabajaTipo DEF CpuDelHiloEn, PasosConCpuK
<1>2. PICK k \in Clases : k = ClaseDe(msg[c].syscall)
  <2>1. msg[c].syscall \in {"S_STDIN", "S_STDOUT", "S_MEM_ALLOC"}
    BY <1>0 DEF PasosBien
  <2> QED
    BY <2>1 DEF ClaseDe, Clases
<1>3. /\ block' = [block EXCEPT ![k] = Append(@, p)] /\ Ir(c, "block_liberar")
      /\ UNCHANGED <<estado, pcb_h, colas, ejecutando, largo, corto, io, suspendiendo, susp,
                     retirados, pc_d, pcb_d>>
  BY <1>1, <1>2 DEF BloquearEn, procesos, cpus_ks, temps, dispositivos
<1>4. /\ pc'[c] = "block_liberar" /\ \A d \in Cpus : d # c => pc'[d] = pc[d]
  BY <1>0, <1>3, IrK
<1>5. En(p, "cpu", c)
  BY <1>0, <1>1 DEF En
<1>6. PICK F : F = Fuera
  OBVIOUS
<1>7. estado[p] # "NO_CREADO" /\ p \notin F
  BY <1>1, <1>5, <1>6, Unico
<1>8. MismosCreados
  BY <1>3 DEF MismosCreados
<1>9. \A q \in Pids : \A v, z : En(q, v, z)' <=> En(q, v, z) /\ ~ (q = p /\ v = "cpu" /\ z = c)
  <2> SUFFICES ASSUME NEW q \in Pids, NEW v, NEW z
               PROVE  En(q, v, z)' <=> En(q, v, z) /\ ~ (q = p /\ v = "cpu" /\ z = c)
    OBVIOUS
  <2>1. v \notin {"cpu", "saliente", "devuelto"} => (En(q, v, z)' <=> En(q, v, z))
    BY <1>3 DEF En, EnReady, EntradasReady, colas, largo, corto, io
  <2>2. v \in {"saliente", "devuelto"} => (En(q, v, z)' <=> En(q, v, z))
    BY <1>0, <1>3, <1>4 DEF En
  <2>3. v = "cpu" => (En(q, v, z)' <=> En(q, v, z) /\ ~ (q = p /\ z = c))
    BY <1>0, <1>1, <1>3, <1>4 DEF En
  <2> QED
    BY <2>1, <2>2, <2>3
<1>10. LugaresSin(F \cup {p})'
  BY <1>1, <1>5, <1>6, <1>8, <1>9, SaleDeLugares
<1>11. ~ EnLista(p, block[k]) /\ SinRepetidos(block[k])
  BY <1>1, <1>2, <1>6, <1>7 DEF Fuera, EnFuera, FueraBien
<1>12. /\ \A q : EnLista(q, block'[k]) <=> EnLista(q, block[k]) \/ q = p
       /\ \A j \in Clases : j # k => block'[j] = block[j]
       /\ SinRepetidos(block'[k])
  <2>1. block'[k] = Append(block[k], p)
    BY <1>0, <1>2, <1>3
  <2> QED
    BY <1>0, <1>1, <1>2, <1>3, <1>11, <2>1, AgregarSinRepetir
<1>13. ListasSinRepetir'
  BY <1>3, <1>12 DEF ListasSinRepetir, FueraBien
<1>14. EntraFuera(p, "block", k)
  <2> SUFFICES ASSUME NEW q \in Pids, NEW v, NEW j
               PROVE  EnFuera(q, v, j)' <=> EnFuera(q, v, j) \/ (q = p /\ v = "block" /\ j = k)
    BY DEF EntraFuera
  <2>1. v # "block" => (EnFuera(q, v, j)' <=> EnFuera(q, v, j))
    BY <1>3 DEF EnFuera
  <2>2. v = "block" => (EnFuera(q, v, j)' <=> EnFuera(q, v, j) \/ (q = p /\ j = k))
    BY <1>2, <1>12 DEF EnFuera
  <2> QED
    BY <2>1, <2>2
<1>15. FueraBien' /\ Fuera' = Fuera \cup {p}
  BY <1>1, <1>6, <1>7, <1>8, <1>13, <1>14, FueraCrece
<1>16. LugaresSin(Fuera)'
  BY <1>6, <1>10, <1>15 DEF LugaresSin
<1>17. EnTipo(p, "cpu")
  BY <1>5 DEF EnTipo
<1>18. \A q \in Pids \ {p} : \A v : EnTipo(q, v) => EnTipo(q, v)'
  BY <1>9 DEF EnTipo
<1> QED
  BY <1>1, <1>8, <1>14, <1>15, <1>16, <1>17, <1>18 DEF EfectoK

LEMMA AtenderMemoriaSitio ==
  ASSUME TipoK, InvMotivosEn(PasosK, MensajesK, PasosConCpuK), SitioK, NEW c \in Cpus,
         AtenderMemoria(c)
  PROVE  SitioK' /\ EfectoK
<1>0. LugaresSin(Fuera) /\ FueraBien /\ ReservaBien /\ CpuDelHiloEn(PasosConCpuK)
  BY DEF SitioK, InvMotivosEn, InvCpuEn
<1>1. LugaresSin(Fuera)' /\ FueraBien' /\ MismosCreados /\ EfectoK
  BY <1>0, BloquearLugar, MemoriaQuieta, SitioQuieto
<1>2. ReservaBien'
  <2>1. UNCHANGED proximo_pid
    BY MemoriaHilos
  <2>2. \A d \in Cpus : pc'[d] \in PasosInit =>
          pc'[d] = pc[d] /\ pcb_h'[d] = pcb_h[d] /\ msg'[d] = msg[d]
    BY MemoriaHilos DEF hilos
  <2> QED
    BY <1>0, <1>1, <2>1, <2>2 DEF ReservaBien, MismosCreados, PasosInit
<1>3. LadoK'
  BY LadoMemoria
<1> QED
  BY <1>1, <1>2, <1>3 DEF SitioK

(* A device that has found its PCB puts it in READY.                        *)
LEMMA EncolarSitio ==
  ASSUME TipoK, LugaresSin(Fuera), FueraBien, NEW d \in Dispositivos, Encolar(d)
  PROVE  LugaresSin(Fuera)' /\ FueraBien' /\ MismosCreados /\ EfectoK
<1>0. /\ TipoBaseEn(PasosK, MensajesK) /\ estado \in [Pids -> Estados]
      /\ pc_d \in [Dispositivos -> {"recibir", "buscar_susp", "escribir", "confirmar",
                                    "encolar", "avisar"}]
  BY DEF TipoK, TipoBaseK, TipoBaseEn, TipoProcesos, TipoDispositivos
<1>p. PICK p \in Pids : p = pcb_d[d]
  BY DEF Encolar, TipoK, TipoDispositivos
<1>1. /\ pc_d[d] = "encolar" /\ pcb_d[d] = p
      /\ estado' = [estado EXCEPT ![p] = "READY"] /\ colas_ready' = ListaReadyCon(p)
      /\ pc_d' = [pc_d EXCEPT ![d] = "avisar"]
      /\ UNCHANGED <<cola_new, cola_block, cola_susp, cola_exit, ejecutando, largo, corto, pc,
                     pcb_h, io, suspendiendo, block, susp, retirados, pcb_d>>
  BY <1>p DEF Encolar, cpus_ks, hilos, temps, bloqueos
<1>2. EnFuera(p, "dispositivo", d)
  BY <1>1 DEF EnFuera, PasosDespierto
<1>3. p \in Fuera /\ estado[p] # "NO_CREADO"
  BY <1>1, <1>2 DEF Fuera, FueraBien
<1>4. MismosCreados
  BY <1>0, <1>1, <1>3 DEF MismosCreados
<1>5. SaleFuera(p, "dispositivo", d)
  <2> SUFFICES ASSUME NEW q \in Pids, NEW v, NEW j
               PROVE  EnFuera(q, v, j)'
                        <=> EnFuera(q, v, j) /\ ~ (q = p /\ v = "dispositivo" /\ j = d)
    BY <1>2 DEF SaleFuera
  <2>1. v # "dispositivo" => (EnFuera(q, v, j)' <=> EnFuera(q, v, j))
    BY <1>1 DEF EnFuera
  <2>2. v = "dispositivo" => (EnFuera(q, v, j)' <=> EnFuera(q, v, j) /\ ~ (q = p /\ j = d))
    BY <1>0, <1>1 DEF EnFuera, PasosDespierto
  <2> QED
    BY <2>1, <2>2
<1>6. ListasSinRepetir'
  BY <1>1 DEF ListasSinRepetir, FueraBien
<1>7. FueraBien' /\ Fuera' = Fuera \ {p}
  BY <1>1, <1>4, <1>5, <1>6, FueraMengua
<1>8. PICK F : F = Fuera
  OBVIOUS
<1>e. PICK e : e = EntradaNueva(p)
  OBVIOUS
<1>9. \A q, z : EnReady(q, z)' <=> EnReady(q, z) \/ (q = p /\ z = e)
  BY <1>0, <1>1, <1>e, EncolarLugar
<1>10. \A q \in Pids : \A v, z : En(q, v, z)' <=> En(q, v, z) \/ (q = p /\ v = "ready" /\ z = e)
  BY <1>1, <1>9 DEF En, largo, corto, io
<1>11. LugaresSin(F \ {p})'
  <2>1. LugaresSin(F) /\ p \in F /\ Llega(p, "ready", e)
    BY <1>3, <1>8, <1>10 DEF Llega
  <2> QED
    BY <1>3, <1>4, <2>1, EntraALugares
<1>12. LugaresSin(Fuera)'
  BY <1>7, <1>8, <1>11 DEF LugaresSin
<1>13. /\ EnTipo(p, "ready")'
       /\ \A q \in Pids \ {p} : \A v : EnTipo(q, v) => EnTipo(q, v)'
  BY <1>1, <1>10 DEF EnTipo
<1> QED
  BY <1>1, <1>4, <1>5, <1>7, <1>12, <1>13 DEF EfectoK

LEMMA DispSitio ==
  ASSUME TipoK, SitioK, NEW d \in Dispositivos, Encolar(d) \/ Avisar(d)
  PROVE  SitioK' /\ EfectoK
<1>0. LugaresSin(Fuera) /\ FueraBien /\ ReservaBien
  BY DEF SitioK
<1>1. CASE Avisar(d)
  <2>1. /\ UNCHANGED <<estado, colas, ejecutando, largo, corto, pc, pcb_h, io, suspendiendo,
                       block, susp, retirados>>
        /\ \A e \in Dispositivos : pc_d[e] \in PasosDespierto \/ pc_d'[e] \in PasosDespierto
                                     => pc_d'[e] = pc_d[e] /\ pcb_d'[e] = pcb_d[e]
    BY <1>1 DEF Avisar, TipoK, TipoDispositivos, PasosDespierto, procesos, cpus_ks, hilos,
        temps, bloqueos
  <2>2. MismosCreados /\ MismosEn
    BY <2>1 DEF MismosCreados, MismosEn, En, EnReady, EntradasReady, colas, largo, corto, io
  <2>3. ListasSinRepetir'
    BY <1>0, <2>1 DEF ListasSinRepetir, FueraBien
  <2>4. MismosFuera
    BY <2>1 DEF MismosFuera, EnFuera
  <2>5. LugaresSin(Fuera)' /\ FueraBien' /\ EfectoK
    BY <1>0, <2>2, <2>3, <2>4, SitioQuieto
  <2>6. UNCHANGED <<proximo_pid, pc, pcb_h, msg, despachos, corre, motivos, ejecutando>>
    BY <1>1 DEF Avisar, procesos, hilos, cpus_ks
  <2> QED
    BY <1>0, <2>2, <2>5, <2>6, ReservaIgual, LadoIgual DEF SitioK
<1>2. CASE Encolar(d)
  <2>1. LugaresSin(Fuera)' /\ FueraBien' /\ MismosCreados /\ EfectoK
    BY <1>0, <1>2, EncolarSitio
  <2>2. UNCHANGED <<proximo_pid, pc, pcb_h, msg, despachos, corre, motivos, ejecutando>>
    BY <1>2 DEF Encolar, hilos, cpu, cpus_ks
  <2> QED
    BY <1>0, <2>1, <2>2, ReservaIgual, LadoIgual DEF SitioK
<1> QED
  BY <1>1, <1>2

-----------------------------------------------------------------------------
(* The theorem.                                                             *)

SitiosK == compactacion_en_progreso \/ SitioK

LEMMA InitSitio == InitK => SitioK
<1> SUFFICES ASSUME InitK PROVE SitioK
  OBVIOUS
<1>1. Init
  BY DEF InitK
<1>2. LadoK
  BY <1>1 DEF Init, LadoK, LadoCpuEn, Libre
<1>3. \A p, t, k : ~ EnFuera(p, t, k)
  BY DEF InitK, EnFuera, EnLista, PasosDespierto
<1>4. Fuera = {}
  BY <1>3 DEF Fuera
<1>5. FueraBien
  <2>1. \A k \in Clases : block[k] = <<>> /\ susp[k] = <<>>
    BY DEF InitK
  <2>2. SinRepetidos(<<>>)
    BY DEF SinRepetidos
  <2> QED
    BY <1>3, <1>4, <2>1, <2>2 DEF FueraBien
<1>6. LugaresSin(Fuera) /\ ReservaBien
  BY <1>1, <1>4, InitLugares DEF LugaresBien
<1> QED
  BY <1>2, <1>5, <1>6 DEF SitioK

LEMMA MotivosK ==
  ASSUME InvK, SitioK, ~ compactacion_en_progreso
  PROVE  TipoK /\ InvMotivosEn(PasosK, MensajesK, PasosConCpuK)
  BY DEF InvK, CpuK, SitioK, LadoK, InvMotivosEn, InvCpuEn, TipoK, TipoBaseK

LEMMA NextSitio ==
  ASSUME UnCreador, InvK, SitioK, ~ compactacion_en_progreso, [NextK]_varsK
  PROVE  SitioK' /\ EfectoK
<1>1. TipoK /\ InvMotivosEn(PasosK, MensajesK, PasosConCpuK)
  BY MotivosK
<1>2. ~ AvisoDesalojar
  BY <1>1 DEF AvisoDesalojar, DesalojarCon, TipoK, PasosBien
<1> QED
  BY <1>1, <1>2, ClasesDePasos, ComunesSitio, QuietasSitio, DispSitio, AtenderMemoriaSitio

\* The positions that this module adds for p.
EsDeFuera(p, l) ==
  \/ \E k \in Clases : \E i \in DOMAIN block[k] : block[k][i] = p /\ l = <<"block", k, i>>
  \/ \E k \in Clases : \E i \in DOMAIN susp[k] : susp[k][i] = p /\ l = <<"susp", k, i>>
  \/ \E k \in Clases : p \in retirados[k] /\ l = <<"reloj", k>>
  \/ \E d \in Dispositivos :
       pcb_d[d] = p /\ pc_d[d] \in PasosDespierto /\ l = <<"dispositivo", d>>

LEMMA LugaresDeFuera ==
  ASSUME NEW p
  PROVE  \A l : l \in LugaresK(p) <=> l \in Lugares(p) \/ EsDeFuera(p, l)
<1> DEFINE Bk(k) == {<<"block", k, i>> : i \in {j \in DOMAIN block[k] : block[k][j] = p}}
           Sk(k) == {<<"susp", k, i>> : i \in {j \in DOMAIN susp[k] : susp[k][j] = p}}
           B == UNION {Bk(k) : k \in Clases}
           S == UNION {Sk(k) : k \in Clases}
           R == {<<"reloj", k>> : k \in {j \in Clases : p \in retirados[j]}}
           D == {<<"dispositivo", d>> : d \in {e \in Dispositivos :
                   pcb_d[e] = p /\ pc_d[e] \in PasosDespierto}}
<1>1. LugaresK(p) = Lugares(p) \cup B \cup S \cup R \cup D
  BY DEF LugaresK, PasosDespierto
<1>2. \A l : l \in B <=>
        \E k \in Clases : \E i \in DOMAIN block[k] : block[k][i] = p /\ l = <<"block", k, i>>
  <2>1. \A k, l : l \in Bk(k) <=>
          \E i \in DOMAIN block[k] : block[k][i] = p /\ l = <<"block", k, i>>
    OBVIOUS
  <2> HIDE DEF Bk
  <2>2. \A l : l \in B <=> \E k \in Clases : l \in Bk(k)
    OBVIOUS
  <2> QED
    BY <2>1, <2>2
<1>3. \A l : l \in S <=>
        \E k \in Clases : \E i \in DOMAIN susp[k] : susp[k][i] = p /\ l = <<"susp", k, i>>
  <2>1. \A k, l : l \in Sk(k) <=>
          \E i \in DOMAIN susp[k] : susp[k][i] = p /\ l = <<"susp", k, i>>
    OBVIOUS
  <2> HIDE DEF Sk
  <2>2. \A l : l \in S <=> \E k \in Clases : l \in Sk(k)
    OBVIOUS
  <2> QED
    BY <2>1, <2>2
<1>4. \A l : l \in R <=> \E k \in Clases : p \in retirados[k] /\ l = <<"reloj", k>>
  OBVIOUS
<1>5. \A l : l \in D <=> \E d \in Dispositivos :
        pcb_d[d] = p /\ pc_d[d] \in PasosDespierto /\ l = <<"dispositivo", d>>
  OBVIOUS
<1> HIDE DEF B, S, R, D
<1> QED
  BY <1>1, <1>2, <1>3, <1>4, <1>5 DEF EsDeFuera

LEMMA UnLugarDeFuera ==
  ASSUME FueraBien, NEW p \in Fuera, p \in Pids, Lugares(p) = {}
  PROVE  \E l : LugaresK(p) = {l}
<1>0. \A l : l \in LugaresK(p) <=> EsDeFuera(p, l)
  BY LugaresDeFuera
<1>1. \E l : l \in LugaresK(p)
  <2>1. PICK t, k : EnFuera(p, t, k)
    BY DEF Fuera
  <2>2. CASE t = "block" /\ k \in Clases /\ EnLista(p, block[k])
    <3>1. PICK i \in DOMAIN block[k] : block[k][i] = p
      BY <2>2 DEF EnLista
    <3>2. EsDeFuera(p, <<"block", k, i>>)
      BY <2>2, <3>1 DEF EsDeFuera
    <3> QED
      BY <1>0, <3>2
  <2>3. CASE t = "susp" /\ k \in Clases /\ EnLista(p, susp[k])
    <3>1. PICK i \in DOMAIN susp[k] : susp[k][i] = p
      BY <2>3 DEF EnLista
    <3>2. EsDeFuera(p, <<"susp", k, i>>)
      BY <2>3, <3>1 DEF EsDeFuera
    <3> QED
      BY <1>0, <3>2
  <2>4. CASE t = "reloj" /\ k \in Clases /\ p \in retirados[k]
    <3>1. EsDeFuera(p, <<"reloj", k>>)
      BY <2>4 DEF EsDeFuera
    <3> QED
      BY <1>0, <3>1
  <2>5. CASE t = "dispositivo" /\ k \in Dispositivos /\ pcb_d[k] = p /\ pc_d[k] \in PasosDespierto
    <3>1. EsDeFuera(p, <<"dispositivo", k>>)
      BY <2>5 DEF EsDeFuera
    <3> QED
      BY <1>0, <3>1
  <2> QED
    BY <2>1, <2>2, <2>3, <2>4, <2>5 DEF EnFuera
<1>2. ASSUME NEW l \in LugaresK(p)
      PROVE  \E t, k : /\ EnFuera(p, t, k)
                       /\ \/ t = "block" /\ \E i \in DOMAIN block[k] :
                               block[k][i] = p /\ l = <<"block", k, i>>
                          \/ t = "susp" /\ \E i \in DOMAIN susp[k] :
                               susp[k][i] = p /\ l = <<"susp", k, i>>
                          \/ t = "reloj" /\ l = <<"reloj", k>>
                          \/ t = "dispositivo" /\ l = <<"dispositivo", k>>
  BY <1>0 DEF EsDeFuera, EnFuera, EnLista
<1>3. ASSUME NEW l \in LugaresK(p), NEW m \in LugaresK(p)
      PROVE  l = m
  <2>1. PICK t, k : /\ EnFuera(p, t, k)
                    /\ \/ t = "block" /\ \E i \in DOMAIN block[k] :
                            block[k][i] = p /\ l = <<"block", k, i>>
                       \/ t = "susp" /\ \E i \in DOMAIN susp[k] :
                            susp[k][i] = p /\ l = <<"susp", k, i>>
                       \/ t = "reloj" /\ l = <<"reloj", k>>
                       \/ t = "dispositivo" /\ l = <<"dispositivo", k>>
    BY <1>2
  <2>2. PICK u, j : /\ EnFuera(p, u, j)
                    /\ \/ u = "block" /\ \E i \in DOMAIN block[j] :
                            block[j][i] = p /\ m = <<"block", j, i>>
                       \/ u = "susp" /\ \E i \in DOMAIN susp[j] :
                            susp[j][i] = p /\ m = <<"susp", j, i>>
                       \/ u = "reloj" /\ m = <<"reloj", j>>
                       \/ u = "dispositivo" /\ m = <<"dispositivo", j>>
    BY <1>2
  <2>3. t = u /\ k = j
    BY <2>1, <2>2 DEF FueraBien
  <2>4. CASE t = "block"
    <3>1. k \in Clases
      BY <2>1, <2>4 DEF EnFuera
    <3> QED
      BY <2>1, <2>2, <2>3, <2>4, <3>1 DEF FueraBien, SinRepetidos
  <2>5. CASE t = "susp"
    <3>1. k \in Clases
      BY <2>1, <2>5 DEF EnFuera
    <3> QED
      BY <2>1, <2>2, <2>3, <2>5, <3>1 DEF FueraBien, SinRepetidos
  <2>6. CASE t = "reloj" \/ t = "dispositivo"
    BY <2>1, <2>2, <2>3, <2>6
  <2> QED
    BY <2>1, <2>4, <2>5, <2>6
<1> QED
  BY <1>1, <1>3

LEMMA ContarLugaresK ==
  ASSUME LugaresSin(Fuera), FueraBien, NEW p \in Pids
  PROVE  Cardinality(LugaresK(p)) = Si(estado[p] # "NO_CREADO")
<1>1. estado[p] = "NO_CREADO" \/ p \in Fuera => Lugares(p) = {}
  BY LugarEsEn DEF LugaresSin, SinLugar
<1>2. CASE p \in Fuera
  <2>1. PICK l : LugaresK(p) = {l}
    BY <1>1, <1>2, UnLugarDeFuera
  <2>2. estado[p] # "NO_CREADO"
    BY <1>2 DEF FueraBien
  <2> QED
    BY <2>1, <2>2, FS_Singleton DEF Si
<1>3. CASE p \notin Fuera
  <2>1. LugaresK(p) = Lugares(p)
    <3>1. \A l \in LugaresK(p) : l \in Lugares(p)
      BY <1>3, LugaresDeFuera DEF EsDeFuera, Fuera, EnFuera, EnLista
    <3>2. \A l \in Lugares(p) : l \in LugaresK(p)
      BY LugaresDeFuera
    <3> QED
      BY <3>1, <3>2
  <2>2. CASE estado[p] = "NO_CREADO"
    BY <1>1, <2>1, <2>2, FS_EmptySet DEF Si
  <2>3. CASE estado[p] # "NO_CREADO"
    <3>1. PICK t, x : \A u, y : En(p, u, y) <=> u = t /\ y = x
      BY <1>3, <2>3 DEF LugaresSin, UnLugar, SoloEn
    <3>2. Lugares(p) = {<<t, x>>}
      BY <3>1, LugarEsEn
    <3> QED
      BY <2>1, <2>3, <3>2, FS_Singleton DEF Si
  <2> QED
    BY <2>2, <2>3
<1> QED
  BY <1>2, <1>3

(* SitiosInvariante: until a compaction is announced every PCB has one      *)
(* place, also in the system calls and the devices.                         *)
THEOREM SitiosInvariante ==
  ASSUME UnCreador
  PROVE  SpecK => []SitiosK
<1>1. InitK => SitiosK
  BY InitSitio DEF SitiosK
<1>2. InvK /\ SitiosK /\ [NextK]_varsK => SitiosK'
  BY NextSitio, CompactaSigue DEF SitiosK
<1> QED
  BY <1>1, <1>2, MemoriaInvariante, PTL DEF SpecK

(* NingunPcbSePierdeK: until then no PCB is lost and none is held twice,    *)
(* whatever the calls, the devices and their timers do.                     *)
THEOREM NingunPcbSePierdeK ==
  ASSUME UnCreador
  PROVE  SpecK => []UnSoloLugarK
<1>1. SitiosK => UnSoloLugarK
  BY ContarLugaresK DEF SitiosK, SitioK, UnSoloLugarK
<1> QED
  BY <1>1, SitiosInvariante, PTL

-----------------------------------------------------------------------------
(* The life cycle, with the system calls and the devices.                   *)

FaseFuera(t) ==
  CASE t = "susp" -> "SUSP_BLOCK" [] t \in {"block", "reloj"} -> "BLOCK"
    [] t = "dispositivo" -> "READY"

FasesKBien ==
  /\ FasesBien(Fuera)
  /\ \A p \in Pids : /\ p \notin Fuera => FaseK(p) = FaseDe(p)
                     /\ \A t, k : EnFuera(p, t, k) => FaseK(p) = FaseFuera(t)

LEMMA FasesKPorTipo ==
  ASSUME TipoBaseK, SitioK
  PROVE  FasesKBien
<1>0. LugaresSin(Fuera) /\ FueraBien
  BY DEF SitioK
<1>1. FasesBien(Fuera)
  <2>1. PICK F : F = Fuera
    OBVIOUS
  <2>2. LugaresSin(F) /\ \A p \in F : estado[p] # "NO_CREADO"
    BY <1>0, <2>1 DEF FueraBien
  <2>3. FasesBien(F)
    BY <2>2, FasesPorTipo DEF TipoBaseK
  <2> QED
    BY <2>1, <2>3
<1>2. ASSUME NEW p \in Pids
      PROVE  /\ p \notin Fuera => FaseK(p) = FaseDe(p)
             /\ \A t, k : EnFuera(p, t, k) => FaseK(p) = FaseFuera(t)
  <2> DEFINE s == \E k \in Clases : EnLista(p, susp[k])
             b == \E k \in Clases : EnLista(p, block[k]) \/ p \in retirados[k]
  <2>0. FaseK(p) = CASE s -> "SUSP_BLOCK" [] b -> "BLOCK" [] OTHER -> FaseDe(p)
    BY DEF FaseK
  <2>1. s <=> \E k : EnFuera(p, "susp", k)
    BY DEF EnFuera
  <2>2. b <=> \E k : EnFuera(p, "block", k) \/ EnFuera(p, "reloj", k)
    BY DEF EnFuera
  <2> HIDE DEF s, b
  <2>3. ASSUME p \notin Fuera
        PROVE  FaseK(p) = FaseDe(p)
    <3>1. ~ s /\ ~ b
      BY <2>1, <2>2, <2>3 DEF Fuera
    <3> QED
      BY <2>0, <3>1
  <2>4. ASSUME NEW t, NEW k, EnFuera(p, t, k)
        PROVE  FaseK(p) = FaseFuera(t)
    <3>1. s <=> t = "susp"
      BY <1>0, <2>1, <2>4 DEF FueraBien
    <3>2. b <=> t = "block" \/ t = "reloj"
      BY <1>0, <2>2, <2>4 DEF FueraBien
    <3>3. t \in {"block", "susp", "reloj", "dispositivo"} /\ FaseDe(p) = "READY"
      BY <1>1, <2>4 DEF EnFuera, Fuera, FasesBien
    <3> QED
      BY <2>0, <3>1, <3>2, <3>3 DEF FaseFuera
  <2> QED
    BY <2>3, <2>4
<1> QED
  BY <1>1, <1>2 DEF FasesKBien

(* The processes that do not move keep their phase.                         *)
LEMMA FaseKQuieta ==
  ASSUME LugaresSin(Fuera), FasesKBien, FasesKBien', NEW q \in Pids,
         estado'[q] = "NO_CREADO" <=> estado[q] = "NO_CREADO",
         \A v : EnTipo(q, v) => EnTipo(q, v)',
         \A v, l : EnFuera(q, v, l)' <=> EnFuera(q, v, l)
  PROVE  FaseK(q)' = FaseK(q)
<1>1. CASE q \in Fuera
  <2>1. PICK t, k : EnFuera(q, t, k)
    BY <1>1 DEF Fuera
  <2>2. EnFuera(q, t, k)'
    BY <2>1
  <2>3. FaseK(q) = FaseFuera(t)
    BY <2>1 DEF FasesKBien
  <2>4. FaseK(q)' = FaseFuera(t)
    BY <2>2 DEF FasesKBien
  <2> QED
    BY <2>3, <2>4
<1>2. CASE q \notin Fuera
  <2>1. q \notin Fuera'
    BY <1>2 DEF Fuera
  <2>2. FaseK(q) = FaseDe(q) /\ FaseK(q)' = FaseDe(q)'
    BY <1>2, <2>1 DEF FasesKBien
  <2>3. CASE estado[q] = "NO_CREADO"
    <3>1. FaseDe(q) = "NO_CREADO"
      BY <2>3 DEF FasesKBien, FasesBien
    <3>2. FaseDe(q)' = "NO_CREADO"
      BY <2>3 DEF FasesKBien, FasesBien
    <3> QED
      BY <2>2, <3>1, <3>2
  <2>4. CASE estado[q] # "NO_CREADO"
    <3>1. PICK t, x : SoloEn(q, t, x)
      BY <1>2, <2>4 DEF LugaresSin, UnLugar
    <3>2. EnTipo(q, t) /\ EnTipo(q, t)'
      BY <3>1 DEF SoloEn, EnTipo
    <3>3. FaseDe(q) = FaseTipo(t)
      BY <3>2 DEF FasesKBien, FasesBien
    <3>4. FaseDe(q)' = FaseTipo(t)
      BY <3>2 DEF FasesKBien, FasesBien
    <3> QED
      BY <2>2, <3>3, <3>4
  <2> QED
    BY <2>3, <2>4
<1> QED
  BY <1>1, <1>2

LEMMA MoverAbsK ==
  ASSUME NEW p \in Pids, NEW f, NEW g, FaseK(p) = f, FaseK(p)' = g,
         \A q \in Pids \ {p} : FaseK(q)' = FaseK(q)
  PROVE  AbsK!Mover(p, f, g)
<1> DEFINE fase == [q \in Pids |-> FaseK(q)]
<1>1. fase[p] = f
  OBVIOUS
<1>2. fase' = [fase EXCEPT ![p] = g]
  <2>1. fase' = [q \in Pids |-> FaseK(q)']
    OBVIOUS
  <2>2. \A q \in Pids : FaseK(q)' = IF q = p THEN g ELSE FaseK(q)
    OBVIOUS
  <2> QED
    BY <2>1, <2>2
<1> QED
  BY <1>1, <1>2 DEF AbsK!Mover

LEMMA MismaCardinalidadK == \A S : AbsK!Cardinality(S) = Abs!Cardinality(S)
  BY DEF AbsK!Cardinality, Abs!Cardinality

(* What the threads of Planificador do moves no process of this module.     *)
LEMMA MoverComun ==
  ASSUME FasesKBien, FasesKBien', MismosFuera, NEW p \in Pids, NEW f, NEW g, f # g,
         Abs!Mover(p, f, g)
  PROVE  AbsK!Mover(p, f, g)
<1> DEFINE fase == [q \in Pids |-> FaseDe(q)]
<1>1. fase[p] = f /\ fase' = [fase EXCEPT ![p] = g]
  BY DEF Abs!Mover
<1>2. /\ FaseDe(p) = f /\ FaseDe(p)' = g
      /\ \A q \in Pids \ {p} : FaseDe(q)' = FaseDe(q)
  <2>1. fase' = [q \in Pids |-> FaseDe(q)']
    OBVIOUS
  <2>2. \A q \in Pids : FaseDe(q)' = IF q = p THEN g ELSE FaseDe(q)
    BY <1>1, <2>1
  <2> QED
    BY <1>1, <2>2
<1> HIDE DEF fase
<1>3. Fuera' = Fuera
  BY DEF Fuera, MismosFuera
<1>4. p \notin Fuera
  <2>1. p \in Fuera => FaseDe(p) = "READY"
    BY DEF FasesKBien, FasesBien
  <2>2. p \in Fuera' => FaseDe(p)' = "READY"
    BY DEF FasesKBien, FasesBien
  <2> QED
    BY <1>2, <1>3, <2>1, <2>2
<1>5. FaseK(p) = f /\ FaseK(p)' = g
  BY <1>2, <1>3, <1>4 DEF FasesKBien
<1>6. ASSUME NEW q \in Pids \ {p}
      PROVE  FaseK(q)' = FaseK(q)
  <2>1. CASE q \notin Fuera
    BY <1>2, <1>3, <2>1 DEF FasesKBien
  <2>2. CASE q \in Fuera
    <3>1. PICK t, k : EnFuera(q, t, k) /\ EnFuera(q, t, k)'
      BY <2>2 DEF Fuera, MismosFuera
    <3>2. FaseK(q) = FaseFuera(t)
      BY <3>1 DEF FasesKBien
    <3>3. FaseK(q)' = FaseFuera(t)
      BY <3>1 DEF FasesKBien
    <3> QED
      BY <3>2, <3>3
  <2> QED
    BY <2>1, <2>2
<1> QED
  BY <1>5, <1>6, MoverAbsK

LEMMA FuncionK ==
  ASSUME \A q \in Pids : FaseK(q)' = FaseK(q)
  PROVE  UNCHANGED [q \in Pids |-> FaseK(q)]
  OBVIOUS

\* The phases of a process that the places of this module do not hide.
FasesComunes ==
  \A q \in Pids : /\ q \notin Fuera => FaseK(q) = FaseDe(q)
                  /\ q \in Fuera => FaseDe(q) = "READY"
                  /\ FaseK(q) = "EXEC" <=> FaseDe(q) = "EXEC"
                  /\ FaseK(q) = "NO_CREADO" <=> FaseDe(q) = "NO_CREADO"

LEMMA FasesKComunes ==
  ASSUME FasesKBien
  PROVE  FasesComunes
<1> SUFFICES ASSUME NEW q \in Pids
             PROVE  /\ q \notin Fuera => FaseK(q) = FaseDe(q)
                    /\ q \in Fuera => FaseDe(q) = "READY"
                    /\ FaseK(q) = "EXEC" <=> FaseDe(q) = "EXEC"
                    /\ FaseK(q) = "NO_CREADO" <=> FaseDe(q) = "NO_CREADO"
  BY DEF FasesComunes
<1>1. q \notin Fuera => FaseK(q) = FaseDe(q)
  BY DEF FasesKBien
<1>2. q \in Fuera => FaseDe(q) = "READY"
  BY DEF FasesKBien, FasesBien
<1>3. CASE q \in Fuera
  <2>1. PICK t, k : EnFuera(q, t, k)
    BY <1>3 DEF Fuera
  <2>2. FaseK(q) = FaseFuera(t)
    BY <2>1 DEF FasesKBien
  <2>3. FaseK(q) \in {"SUSP_BLOCK", "BLOCK", "READY"}
    BY <2>1, <2>2 DEF EnFuera, FaseFuera
  <2> QED
    BY <1>2, <1>3, <2>3
<1> QED
  BY <1>1, <1>2, <1>3

(* A step of a thread of Planificador is the same move here.                *)
LEMMA ComunAbsK ==
  ASSUME FasesKBien, FasesKBien', MismosFuera, NEW p \in Pids,
         \/ Abs!Crear(p) \/ Abs!Admitir(p) \/ Abs!Despachar(p) \/ Abs!Ceder(p)
         \/ Abs!EsperarIo(p) \/ Abs!Suspender(p) \/ Abs!Despertar(p) \/ Abs!Terminar(p)
  PROVE  \/ AbsK!Crear(p) \/ AbsK!Admitir(p) \/ AbsK!Despachar(p) \/ AbsK!Ceder(p)
         \/ AbsK!EsperarIo(p) \/ AbsK!Suspender(p) \/ AbsK!Despertar(p) \/ AbsK!Terminar(p)
<1>0. FasesComunes
  BY FasesKComunes
<1>1. CASE Abs!Crear(p)
  <2>1. AbsK!Mover(p, "NO_CREADO", "NEW")
    BY <1>1, MoverComun DEF Abs!Crear
  <2>2. \E padre \in Pids : FaseDe(padre) = "EXEC"
    BY <1>1 DEF Abs!Crear, Abs!PidsAbs, Pids
  <2>3. \A q \in Pids : q < p => FaseDe(q) # "NO_CREADO"
    BY <1>1 DEF Abs!Crear, Abs!PidsAbs, Pids
  <2>4. \E padre \in Pids : FaseK(padre) = "EXEC"
    BY <1>0, <2>2 DEF FasesComunes
  <2>5. \A q \in Pids : q < p => FaseK(q) # "NO_CREADO"
    BY <1>0, <2>3 DEF FasesComunes
  <2> QED
    BY <2>1, <2>4, <2>5 DEF AbsK!Crear, AbsK!PidsAbs, Pids
<1>2. CASE Abs!Despachar(p)
  <2>1. AbsK!Mover(p, "READY", "EXEC")
    BY <1>2, MoverComun DEF Abs!Despachar
  <2>2. AbsK!En("EXEC") = Abs!En("EXEC")
    BY <1>0 DEF FasesComunes, AbsK!En, Abs!En, AbsK!PidsAbs, Abs!PidsAbs, Pids
  <2> QED
    BY <1>2, <2>1, <2>2, MismaCardinalidadK DEF Abs!Despachar, AbsK!Despachar
<1>3. CASE Abs!Admitir(p)
  BY <1>3, MoverComun DEF Abs!Admitir, AbsK!Admitir
<1>4. CASE Abs!Ceder(p)
  BY <1>4, MoverComun DEF Abs!Ceder, AbsK!Ceder
<1>5. CASE Abs!EsperarIo(p)
  BY <1>5, MoverComun DEF Abs!EsperarIo, AbsK!EsperarIo
<1>6. CASE Abs!Suspender(p)
  BY <1>6, MoverComun DEF Abs!Suspender, AbsK!Suspender
<1>7. CASE Abs!Despertar(p)
  BY <1>7, MoverComun DEF Abs!Despertar, AbsK!Despertar
<1>8. CASE Abs!Terminar(p)
  BY <1>8, MoverComun DEF Abs!Terminar, AbsK!Terminar
<1> QED
  BY <1>1, <1>2, <1>3, <1>4, <1>5, <1>6, <1>7, <1>8

LEMMA ComunesAbsK ==
  ASSUME SitioK, TipoK, InvMotivosEn(PasosK, MensajesK, PasosConCpuK), FasesKBien, FasesKBien',
         MismosFuera, (MismosCreados /\ Efecto) \/ \E n \in Pids : Nacimiento(n)
  PROVE  [AbsK!AbsNext]_([p \in Pids |-> FaseK(p)])
<1>1. [Abs!AbsNext]_([p \in Pids |-> FaseDe(p)])
  <2>1. PICK F : F = Fuera
    OBVIOUS
  <2>2. Fuera' = Fuera
    BY DEF Fuera, MismosFuera
  <2>3. InvLugaresEn(PasosK, MensajesK, PasosConCpuK, F)
    BY <2>1 DEF SitioK, InvLugaresEn, FueraBien, Fuera
  <2>4. FasesBien(F)
    BY <2>1 DEF FasesKBien, FasesBien
  <2>5. FasesBien(F)'
    BY <2>1, <2>2 DEF FasesKBien, FasesBien
  <2> QED
    BY <2>3, <2>4, <2>5, PasoAbsEn
<1>2. CASE Abs!AbsNext
  <2>1. PICK p \in Pids :
          \/ Abs!Crear(p) \/ Abs!Admitir(p) \/ Abs!Despachar(p) \/ Abs!Ceder(p)
          \/ Abs!EsperarIo(p) \/ Abs!Suspender(p) \/ Abs!Despertar(p) \/ Abs!Terminar(p)
    BY <1>2 DEF Abs!AbsNext, Abs!PidsAbs, Pids
  <2> QED
    BY <2>1, ComunAbsK DEF AbsK!AbsNext, AbsK!PidsAbs, Pids
<1>3. CASE UNCHANGED [p \in Pids |-> FaseDe(p)]
  <2>1. \A q \in Pids : FaseDe(q)' = FaseDe(q)
    <3> DEFINE fase == [p \in Pids |-> FaseDe(p)]
    <3>1. fase' = fase
      BY <1>3
    <3>2. fase' = [p \in Pids |-> FaseDe(p)']
      OBVIOUS
    <3>3. \A q \in Pids : fase[q] = FaseDe(q) /\ fase'[q] = FaseDe(q)'
      BY <3>2
    <3> HIDE DEF fase
    <3> QED
      BY <3>1, <3>3
  <2>2. Fuera' = Fuera
    BY DEF Fuera, MismosFuera
  <2>3. ASSUME NEW q \in Pids
        PROVE  FaseK(q)' = FaseK(q)
    <3>1. CASE q \notin Fuera
      <4>1. FaseK(q) = FaseDe(q)
        BY <3>1 DEF FasesKBien
      <4>2. FaseK(q)' = FaseDe(q)'
        BY <2>2, <3>1 DEF FasesKBien
      <4> QED
        BY <2>1, <4>1, <4>2
    <3>2. CASE q \in Fuera
      <4>1. PICK t, k : EnFuera(q, t, k) /\ EnFuera(q, t, k)'
        BY <3>2 DEF Fuera, MismosFuera
      <4>2. FaseK(q) = FaseFuera(t)
        BY <4>1 DEF FasesKBien
      <4>3. FaseK(q)' = FaseFuera(t)
        BY <4>1 DEF FasesKBien
      <4> QED
        BY <4>2, <4>3
    <3> QED
      BY <3>1, <3>2
  <2> QED
    BY <2>3, FuncionK
<1> QED
  BY <1>1, <1>2, <1>3

(* The moves between the places of this module, and those that enter or     *)
(* leave them.                                                              *)
LEMMA MueveAbsK ==
  ASSUME LugaresSin(Fuera), FasesKBien, FasesKBien', MismosCreados, Quietos,
         NEW p \in Pids, NEW t, NEW k, NEW u, NEW j, MueveFuera(p, t, k, u, j), Despertado(t, u)
  PROVE  [AbsK!AbsNext]_([q \in Pids |-> FaseK(q)])
<1>1. FaseK(p) = FaseFuera(t)
  BY DEF MueveFuera, FasesKBien
<1>2. FaseK(p)' = FaseFuera(u)
  <2>1. EnFuera(p, u, j)'
    BY DEF MueveFuera
  <2> QED
    BY <2>1 DEF FasesKBien
<1>3. \A q \in Pids \ {p} : FaseK(q)' = FaseK(q)
  BY FaseKQuieta DEF MueveFuera, Quietos, MismosCreados
<1>4. AbsK!Mover(p, FaseFuera(t), FaseFuera(u))
  BY <1>1, <1>2, <1>3, MoverAbsK
<1>5. p \in AbsK!PidsAbs
  BY DEF AbsK!PidsAbs, Pids
<1>6. CASE t = "block" /\ u = "reloj"
  <2>1. FaseFuera(t) = FaseFuera(u)
    BY <1>6 DEF FaseFuera
  <2>2. \A q \in Pids : FaseK(q)' = FaseK(q)
    BY <1>1, <1>2, <1>3, <2>1
  <2> QED
    BY <2>2, FuncionK
<1>7. CASE t = "reloj" /\ u = "susp"
  <2>1. AbsK!Suspender(p)
    BY <1>4, <1>7 DEF FaseFuera, AbsK!Suspender
  <2> QED
    BY <1>5, <2>1 DEF AbsK!AbsNext
<1>8. CASE t = "block" /\ u = "dispositivo"
  <2>1. AbsK!Despertar(p)
    BY <1>4, <1>8 DEF FaseFuera, AbsK!Despertar
  <2> QED
    BY <1>5, <2>1 DEF AbsK!AbsNext
<1>9. CASE t = "susp" /\ u = "dispositivo"
  <2>1. AbsK!Despertar(p)
    BY <1>4, <1>9 DEF FaseFuera, AbsK!Despertar
  <2> QED
    BY <1>5, <2>1 DEF AbsK!AbsNext
<1> QED
  BY <1>6, <1>7, <1>8, <1>9 DEF Despertado

LEMMA EntraAbsK ==
  ASSUME LugaresSin(Fuera), FasesKBien, FasesKBien', MismosCreados,
         NEW p \in Pids, NEW k, EnTipo(p, "cpu"), EntraFuera(p, "block", k),
         \A q \in Pids \ {p} : \A v : EnTipo(q, v) => EnTipo(q, v)'
  PROVE  [AbsK!AbsNext]_([q \in Pids |-> FaseK(q)])
<1>1. FaseK(p) = "EXEC"
  <2>1. FaseDe(p) = "EXEC"
    BY DEF FasesKBien, FasesBien, FaseTipo
  <2> QED
    BY <2>1, FasesKComunes DEF FasesComunes
<1>2. FaseK(p)' = "BLOCK"
  <2>1. EnFuera(p, "block", k)'
    BY DEF EntraFuera
  <2>2. FaseK(p)' = FaseFuera("block")
    BY <2>1 DEF FasesKBien
  <2> QED
    BY <2>2 DEF FaseFuera
<1>3. \A q \in Pids \ {p} : FaseK(q)' = FaseK(q)
  BY FaseKQuieta DEF EntraFuera, MismosCreados
<1>4. AbsK!EsperarIo(p)
  BY <1>1, <1>2, <1>3, MoverAbsK DEF AbsK!EsperarIo
<1> QED
  BY <1>4 DEF AbsK!AbsNext, AbsK!PidsAbs, Pids

LEMMA SaleAbsK ==
  ASSUME SitioK, FasesKBien, FasesKBien', MismosCreados,
         NEW p \in Pids, NEW k, SaleFuera(p, "dispositivo", k), EnTipo(p, "ready")',
         \A q \in Pids \ {p} : \A v : EnTipo(q, v) => EnTipo(q, v)'
  PROVE  [AbsK!AbsNext]_([q \in Pids |-> FaseK(q)])
<1>1. FaseK(p) = "READY"
  BY DEF SaleFuera, FasesKBien, FaseFuera
<1>2. FaseK(p)' = "READY"
  <2>1. \A v, l : EnFuera(p, v, l) => v = "dispositivo" /\ l = k
    BY DEF SitioK, FueraBien, SaleFuera
  <2>2. \A v, l : ~ EnFuera(p, v, l)'
    BY <2>1 DEF SaleFuera
  <2>3. p \notin Fuera'
    BY <2>2 DEF Fuera
  <2>4. FaseK(p)' = FaseDe(p)'
    BY <2>3 DEF FasesKBien
  <2>5. FaseDe(p)' = "READY"
    BY DEF FasesKBien, FasesBien, FaseTipo
  <2> QED
    BY <2>4, <2>5
<1>3. \A q \in Pids \ {p} : FaseK(q)' = FaseK(q)
  BY FaseKQuieta DEF SaleFuera, MismosCreados, SitioK
<1>4. \A q \in Pids : FaseK(q)' = FaseK(q)
  BY <1>1, <1>2, <1>3
<1> QED
  BY <1>4, FuncionK

LEMMA PasoAbsK ==
  ASSUME InvK, SitioK, ~ compactacion_en_progreso, FasesKBien, FasesKBien', EfectoK
  PROVE  [AbsK!AbsNext]_([p \in Pids |-> FaseK(p)])
<1>0. LugaresSin(Fuera)
  BY DEF SitioK
<1>1. CASE MismosFuera /\ ((MismosCreados /\ Efecto) \/ \E n \in Pids : Nacimiento(n))
  BY <1>1, MotivosK, ComunesAbsK
<1>2. CASE /\ MismosCreados /\ Quietos
           /\ \E p \in Pids : \E t, k, u, j : MueveFuera(p, t, k, u, j) /\ Despertado(t, u)
  BY <1>0, <1>2, MueveAbsK
<1>3. CASE /\ MismosCreados
           /\ \E p \in Pids : \E k :
                /\ EnTipo(p, "cpu") /\ EntraFuera(p, "block", k)
                /\ \A q \in Pids \ {p} : \A v : EnTipo(q, v) => EnTipo(q, v)'
  BY <1>0, <1>3, EntraAbsK
<1>4. CASE /\ MismosCreados
           /\ \E p \in Pids : \E k :
                /\ SaleFuera(p, "dispositivo", k) /\ EnTipo(p, "ready")'
                /\ \A q \in Pids \ {p} : \A v : EnTipo(q, v) => EnTipo(q, v)'
  BY <1>4, SaleAbsK
<1> QED
  BY <1>1, <1>2, <1>3, <1>4 DEF EfectoK

LEMMA InitAbsK == InitK => AbsK!AbsInit
<1> SUFFICES ASSUME InitK PROVE AbsK!AbsInit
  OBVIOUS
<1>1. Abs!AbsInit
  BY InitAbs DEF InitK
<1>2. ASSUME NEW p \in Pids
      PROVE  FaseK(p) = FaseDe(p)
  <2>1. \A k \in Clases : ~ EnLista(p, susp[k]) /\ ~ EnLista(p, block[k]) /\ p \notin retirados[k]
    BY DEF InitK, EnLista
  <2> QED
    BY <2>1 DEF FaseK
<1>3. [p \in Pids |-> FaseK(p)] = [p \in Pids |-> FaseDe(p)]
  BY <1>2
<1> QED
  BY <1>1, <1>3 DEF AbsK!AbsInit, Abs!AbsInit, AbsK!PidsAbs, Abs!PidsAbs

(* CicloHastaCompactar: until a compaction is announced every step is a     *)
(* legal move of one process in the life cycle, whatever the calls, the     *)
(* devices and their timers do, or no move at all.                          *)
THEOREM CicloHastaCompactar ==
  ASSUME UnCreador
  PROVE  SpecK => /\ AbsK!AbsInit
                  /\ [][compactacion_en_progreso \/ AbsK!AbsNext]_([p \in Pids |-> FaseK(p)])
<1>1. InitK => AbsK!AbsInit
  BY InitAbsK
<1>2. InvK /\ SitioK => FasesKBien
  BY FasesKPorTipo DEF InvK, TipoK
<1>3. SitiosK => compactacion_en_progreso \/ SitioK
  BY DEF SitiosK
<1>4. InvK /\ SitioK /\ ~ compactacion_en_progreso /\ [NextK]_varsK => SitioK' /\ EfectoK
  BY NextSitio
<1>5. /\ InvK /\ SitioK /\ ~ compactacion_en_progreso /\ FasesKBien /\ FasesKBien' /\ EfectoK
      => [compactacion_en_progreso \/ AbsK!AbsNext]_([p \in Pids |-> FaseK(p)])
  BY PasoAbsK
<1>6. compactacion_en_progreso
        => [compactacion_en_progreso \/ AbsK!AbsNext]_([p \in Pids |-> FaseK(p)])
  OBVIOUS
<1> QED
  BY <1>1, <1>2, <1>3, <1>4, <1>5, <1>6, MemoriaInvariante, SitiosInvariante, PTL DEF SpecK

-----------------------------------------------------------------------------
(* When no request finds its memory scattered, no compaction is announced   *)
(* and the whole behaviour is one of ProcesosAbs.                           *)

SinAvisos == PalabrasK \ {"AVISO_COMPACTACION"}
NadieCompacta ==
  /\ ~ compactacion_en_progreso /\ compactaciones = 0 /\ respuestas_km \in Seq(SinAvisos)

LEMMA ComunesSinAvisos ==
  ASSUME TipoK, respuestas_km \in Seq(SinAvisos), Comunes
  PROVE  respuestas_km' \in Seq(SinAvisos)
<1>0. /\ Bastan(PasosK, MensajesK) /\ BastanKm(PedidosK, SinAvisos)
      /\ TipoBaseEn(PasosK, MensajesK) /\ TipoKmEn(PedidosK, SinAvisos)
  <2>1. Bastan(PasosK, MensajesK) /\ TipoBaseEn(PasosK, MensajesK)
    BY BastantesK DEF TipoK, TipoBaseK
  <2>2. BastanKm(PedidosK, SinAvisos)
    BY BastantesK DEF BastanKm, SinAvisos
  <2>3. TipoKmEn(PedidosK, SinAvisos)
    BY DEF TipoK, TipoKmK, TipoKmEn
  <2> QED
    BY <2>1, <2>2, <2>3
<1>1. ASSUME UNCHANGED km
      PROVE  TipoKmEn(PedidosK, SinAvisos)'
  BY <1>0, <1>1, SinCambioKm
<1>2. CASE LargoPlazo \/ CortoPlazo \/ UNCHANGED vars
  BY <1>1, <1>2, SinKm DEF vars, TipoKmEn
<1>3. CASE KernelMemory \/ (EscucharKm /\ Palabra \in {"OK", "ERROR"})
  BY <1>0, <1>3, KernelMemoryTipo DEF Palabra, TipoKmEn
<1>4. ASSUME NEW c \in Cpus, CpuTomar(c) \/ CpuTerminar(c) \/ CpuInitProc(c)
      PROVE  TipoKmEn(PedidosK, SinAvisos)'
  <2>1. Cpu(c)
    BY <1>4 DEF Cpu
  <2> QED
    BY <1>1, <2>1, SinKm
<1>5. ASSUME NEW c \in Cpus, AtenderCpu(c)
      PROVE  TipoKmEn(PedidosK, SinAvisos)'
  BY <1>0, <1>5, HiloKmTipo
<1>6. ASSUME NEW p \in Pids, TimerAvisarKm(p)
      PROVE  TipoKmEn(PedidosK, SinAvisos)'
  BY <1>0, <1>6, AvisarKmTipo DEF Temporizador
<1>7. TipoKmEn(PedidosK, SinAvisos)' => respuestas_km' \in Seq(SinAvisos)
  BY DEF TipoKmEn
<1> QED
  BY <1>2, <1>3, <1>4, <1>5, <1>6, <1>7 DEF Comunes

\* What Kernel Memory and the readers of this module do to the stream.
LEMMA FlujoSinAvisos ==
  ASSUME respuestas_km \in Seq(SinAvisos),
         \/ respuestas_km' = respuestas_km
         \/ TomarPalabra
         \/ \E ws : /\ ResponderKm(ws)
                    /\ \/ ws = <<>>
                       \/ \E a \in SinAvisos : ws = <<a>>
                       \/ \E a, b \in SinAvisos : ws = <<a, b>>
                       \/ \E a, b, c, d \in SinAvisos : ws = <<a, b, c, d>>
  PROVE  respuestas_km' \in Seq(SinAvisos)
<1> HIDE DEF SinAvisos
<1>1. CASE TomarPalabra
  BY <1>1 DEF TomarPalabra, HayPalabra
<1>2. ASSUME NEW ws, ResponderKm(ws),
             \/ ws = <<>>
             \/ \E a \in SinAvisos : ws = <<a>>
             \/ \E a, b \in SinAvisos : ws = <<a, b>>
             \/ \E a, b, c, d \in SinAvisos : ws = <<a, b, c, d>>
      PROVE  respuestas_km' \in Seq(SinAvisos)
  <2>1. /\ \A a \in SinAvisos : <<a>> \in Seq(SinAvisos)
        /\ \A a, b \in SinAvisos : <<a, b>> \in Seq(SinAvisos)
        /\ \A a, b, c, d \in SinAvisos : <<a, b, c, d>> \in Seq(SinAvisos)
        /\ <<>> \in Seq(SinAvisos)
    OBVIOUS
  <2>2. ws \in Seq(SinAvisos)
    BY <1>2, <2>1
  <2> QED
    BY <1>2, <2>2, ConcatProperties DEF ResponderKm
<1> QED
  BY <1>1, <1>2

LEMMA PropiasSinAvisos ==
  ASSUME MaxCompactaciones = 0, NadieCompacta,
         \/ Quietas
         \/ \E d \in Dispositivos : Encolar(d) \/ Avisar(d)
         \/ \E c \in Cpus : AtenderMemoria(c)
  PROVE  respuestas_km' \in Seq(SinAvisos)
<1>0. /\ respuestas_km \in Seq(SinAvisos)
      /\ \A ws, cs : ConRespuesta(ws, cs) => ResponderKm(ws)
  BY DEF NadieCompacta, ConRespuesta
<1>1. {"SEGMENTO_CREADO_CORRECTAMENTE", "ERROR_CREACION_SEGMENTO", "OK", "CUERPO", "LARGO",
       "RESPUESTA_LECTURA", "RESPUESTA_ESCRITURA", "NUEVO_MEMORY_STICK"} \subseteq SinAvisos
  BY DEF SinAvisos, PalabrasK, Conocidas, ConCuerpo
<1>2. CASE KmCrearSegmento
  <2>1. \E w \in {"SEGMENTO_CREADO_CORRECTAMENTE", "ERROR_CREACION_SEGMENTO"} :
          ResponderKm(<<w, "CUERPO">>)
    BY <1>0, <1>2 DEF KmCrearSegmento, NadieCompacta
  <2> QED
    BY <1>0, <1>1, <2>1, FlujoSinAvisos
<1>3. CASE KmConfirmada \/ KmEliminarSegmento \/ KmLectura \/ KmEscritura \/ KmStickNuevo
  <2>1. \/ ResponderKm(<<"SEGMENTO_CREADO_CORRECTAMENTE", "CUERPO">>)
        \/ ResponderKm(<<>>) \/ ResponderKm(<<"OK">>)
        \/ ResponderKm(<<"RESPUESTA_LECTURA", "CUERPO">>)
        \/ ResponderKm(<<"RESPUESTA_ESCRITURA", "LARGO", "LARGO", "OK">>)
        \/ ResponderKm(<<"NUEVO_MEMORY_STICK">>)
    BY <1>0, <1>3 DEF KmConfirmada, KmEliminarSegmento, KmLectura, KmEscritura, KmStickNuevo
  <2> QED
    BY <1>0, <1>1, <2>1, FlujoSinAvisos
<1>4. CASE \/ EscucharPaquete \/ EscucharCuerpo \/ EscucharDesconocida \/ EscucharAviso
           \/ StdinConfirmar
  BY <1>0, <1>4, FlujoSinAvisos
  DEF EscucharPaquete, EscucharCuerpo, EscucharDesconocida, EscucharAviso, StdinConfirmar
<1>5. CASE \/ \E d \in Dispositivos : Servir(d) \/ BuscarBlock(d) \/ BuscarSusp(d)
           \/ StdinEscribir
           \/ \E k \in Clases, p \in Pids : RetirarDe(k, p) \/ SuspenderEn(k, p)
           \/ \E c \in Cpus : CpuMemoria(c)
           \/ \E d \in Dispositivos : Encolar(d) \/ Avisar(d)
  <2>1. respuestas_km' = respuestas_km
    BY <1>5 DEF Servir, BuscarBlock, BuscarSusp, StdinEscribir, PedirSolo, RetirarDe,
        SuspenderEn, CpuMemoria, CpuPedir, CpuDevolver, Encolar, Avisar, km
  <2> QED
    BY <1>0, <2>1
<1>6. ASSUME NEW c \in Cpus, AtenderMemoria(c)
      PROVE  respuestas_km' \in Seq(SinAvisos)
  <2>1. respuestas_km' = respuestas_km \/ TomarPalabra
    BY <1>6 DEF AtenderMemoria, RecibirBloqueante, RecibirMemFree, RecibirLlamada, Recibir,
        RecibirYNada, BloquearEn, MemAllocPedir, StdinPedir, StdoutPedir, StdoutCodigo,
        StdoutDatos, MemFreePedir, PedirSolo, km
  <2> QED
    BY <1>0, <2>1, FlujoSinAvisos
<1> QED
  BY <1>2, <1>3, <1>4, <1>5, <1>6 DEF Quietas

LEMMA CompactaQuieta ==
  ASSUME MaxCompactaciones = 0, compactaciones = 0, [NextK]_varsK
  PROVE  /\ compactaciones' = 0
         /\ compactacion_en_progreso' = compactacion_en_progreso \/ EscucharAviso
<1> DEFINE Quieta == compactaciones' = compactaciones
                     /\ compactacion_en_progreso' = compactacion_en_progreso
<1>1. CASE KmMemoria
  <2>1. CASE KmCrearSegmento
    BY <2>1 DEF KmCrearSegmento, compactar
  <2> QED
    BY <1>1, <2>1 DEF KmMemoria, KmConfirmada, KmEliminarSegmento, KmLectura, KmEscritura,
        KmStickNuevo, propias, compactar
<1>2. CASE EscucharAviso
  BY <1>2 DEF EscucharAviso
<1>3. CASE Escuchar /\ ~ EscucharAviso
  BY <1>3 DEF Escuchar, EscucharRespuesta, EscucharPaquete, EscucharCuerpo,
      EscucharDesconocida, AvisoDesalojar, DesalojarCon, propias, compactar
<1>4. CASE Dispositivo
  BY <1>4 DEF Dispositivo, Servir, BuscarBlock, BuscarSusp, StdinEscribir, StdinConfirmar,
      Encolar, Avisar, compactar
<1>5. CASE \E p \in Pids : Reloj(p)
  BY <1>5 DEF Reloj, RetirarDe, SuspenderEn, propias, compactar
<1>6. ASSUME NEW c \in Cpus, AtenderMemoria(c)
      PROVE  Quieta
  BY <1>6 DEF AtenderMemoria, RecibirBloqueante, RecibirMemFree, RecibirLlamada,
      RecibirYNada, BloquearEn, MemAllocPedir, StdinPedir, StdoutPedir, StdoutCodigo,
      StdoutDatos, MemFreePedir, propias, compactar
<1>7. CASE \/ (LargoPlazo /\ UNCHANGED propias) \/ CortoRevisar \/ CortoTurno
           \/ UNCHANGED varsK
           \/ \E c \in Cpus :
                \/ (CpuTomar(c) \/ CpuTerminar(c) \/ CpuInitProc(c)) /\ UNCHANGED propias
                \/ CpuMemoria(c) \/ AtenderComun(c)
  BY <1>7 DEF CortoRevisar, CortoTurno, CpuMemoria, AtenderComun, varsK, propias, compactar
<1> QED
  BY <1>1, <1>2, <1>3, <1>4, <1>5, <1>6, <1>7 DEF NextK

LEMMA NextSinAvisos ==
  ASSUME MaxCompactaciones = 0, TipoK, NadieCompacta, [NextK]_varsK
  PROVE  NadieCompacta'
<1>1. ~ AvisoDesalojar
  BY DEF AvisoDesalojar, DesalojarCon, TipoK, PasosBien, NadieCompacta
<1>2. respuestas_km' \in Seq(SinAvisos)
  BY <1>1, ClasesDePasos, ComunesSinAvisos, PropiasSinAvisos DEF NadieCompacta
<1>3. ~ EscucharAviso
  <2>1. respuestas_km # <<>> => Palabra # "AVISO_COMPACTACION"
    <3>1. respuestas_km # <<>> => Palabra \in SinAvisos
      <4> HIDE DEF SinAvisos
      <4> QED
        BY DEF NadieCompacta, Palabra
    <3> QED
      BY <3>1 DEF SinAvisos
  <2> QED
    BY <2>1 DEF EscucharAviso, HayPalabra
<1>4. compactacion_en_progreso' = compactacion_en_progreso /\ compactaciones' = 0
  BY <1>3, CompactaQuieta DEF NadieCompacta
<1>5. ~ compactacion_en_progreso'
  BY <1>4, Zenon DEF NadieCompacta
<1> QED
  BY <1>2, <1>4, <1>5 DEF NadieCompacta

LEMMA SinCompactaciones ==
  ASSUME MaxCompactaciones = 0
  PROVE  SpecK => []NadieCompacta
<1>1. InitK => NadieCompacta
  BY DEF InitK, Init, NadieCompacta
<1>2. InvK /\ NadieCompacta /\ [NextK]_varsK => NadieCompacta'
  BY NextSinAvisos DEF InvK
<1> QED
  BY <1>1, <1>2, MemoriaInvariante, PTL DEF SpecK

(* CicloSinCompactar: with no compaction, the scheduler with its memory     *)
(* calls and its devices implements the life cycle of ProcesosAbs.          *)
THEOREM CicloSinCompactar ==
  ASSUME UnCreador, MaxCompactaciones = 0
  PROVE  SpecK => CicloDeVidaK
<1>1. NadieCompacta
      => ([compactacion_en_progreso \/ AbsK!AbsNext]_([p \in Pids |-> FaseK(p)])
            => [AbsK!AbsNext]_([p \in Pids |-> FaseK(p)]))
  BY DEF NadieCompacta
<1> QED
  BY <1>1, SinCompactaciones, CicloHastaCompactar, PTL DEF CicloDeVidaK, AbsK!AbsSpec

-----------------------------------------------------------------------------
(* What is asked of a device, and what it answers.  From the block until    *)
(* the answer finds the PCB, the request of a process is in one place: the  *)
(* handler that is about to send it, the queue of the device, that of its   *)
(* answers, or the thread that looks for the PCB in the suspended list.     *)

PasosEncargo == {"block_liberar", "block_post", "block_io", "leer_op", "leer_cuerpo"}
LlamadaDe(d) == IF d = "stdin" THEN "S_STDIN" ELSE "S_STDOUT"
PidsDe(s) == [i \in DOMAIN s |-> s[i].pid]

\* The request of p to device d is at place x of kind t.
Encargo(d, p, t, x) ==
  \/ t = "hilo" /\ x \in Cpus /\ pcb_h[x] = p /\ pc[x] \in PasosEncargo
     /\ msg[x].syscall = LlamadaDe(d)
  \/ t = "pedido" /\ x = d /\ EnLista(p, PidsDe(pedidos_d[d]))
  \/ t = "respuesta" /\ x = d /\ EnLista(p, respuestas_d[d])
  \/ t = "buscado" /\ x = d /\ pcb_d[d] = p /\ pc_d[d] = "buscar_susp"

EncargoUnico(d, p) ==
  \A t, x : Encargo(d, p, t, x) =>
    EnClase(d, p) /\ \A u, y : Encargo(d, p, u, y) => u = t /\ y = x

LlamadasBien ==
  \A c \in Cpus : /\ pc[c] = "bloquear" => msg[c].syscall = "S_SLEEP"
                  /\ pc[c] \in {"leer_op", "leer_cuerpo"} => msg[c].syscall = "S_STDOUT"
PedidosBien ==
  \A d \in Dispositivos : SinRepetidos(PidsDe(pedidos_d[d])) /\ SinRepetidos(respuestas_d[d])
EncargosBien ==
  LlamadasBien /\ PedidosBien /\ \A d \in Dispositivos, p \in Pids : EncargoUnico(d, p)

(* The queues of requests and of answers.                                   *)
LEMMA TailSinRepetir ==
  ASSUME NEW S, NEW s \in Seq(S), s # <<>>, SinRepetidos(s)
  PROVE  /\ SinRepetidos(Tail(s)) /\ EnLista(Head(s), s)
         /\ \A q : EnLista(q, Tail(s)) <=> EnLista(q, s) /\ q # Head(s)
<1> DEFINE r == Tail(s)
           n == Len(s)
           a == Head(s)
<1>1. /\ DOMAIN s = 1 .. n /\ DOMAIN r = 1 .. n - 1 /\ n \in Nat \ {0} /\ s[1] = a
      /\ \A i \in 1 .. n - 1 : r[i] = s[i + 1]
  OBVIOUS
<1> HIDE DEF r, n, a
<1>2. \A i \in 1 .. n - 1 : i + 1 \in 1 .. n /\ i + 1 # 1
  BY <1>1
<1>3. \A i \in 1 .. n : i # 1 => i - 1 \in 1 .. n - 1 /\ (i - 1) + 1 = i
  BY <1>1
<1>4. 1 \in 1 .. n
  BY <1>1
<1>5. SinRepetidos(r)
  <2> SUFFICES ASSUME NEW i \in 1 .. n - 1, NEW j \in 1 .. n - 1, r[i] = r[j]
               PROVE  i = j
    BY <1>1 DEF SinRepetidos
  <2>1. i + 1 = j + 1
    BY <1>1, <1>2 DEF SinRepetidos
  <2> QED
    BY <2>1
<1>6. \A q : EnLista(q, r) => EnLista(q, s) /\ q # a
  <2> SUFFICES ASSUME NEW q, NEW i \in 1 .. n - 1, r[i] = q
               PROVE  EnLista(q, s) /\ q # a
    BY <1>1 DEF EnLista
  <2>1. s[i + 1] = q /\ i + 1 \in 1 .. n /\ i + 1 # 1
    BY <1>1, <1>2
  <2> QED
    BY <1>1, <1>4, <2>1 DEF EnLista, SinRepetidos
<1>7. \A q : EnLista(q, s) /\ q # a => EnLista(q, r)
  <2> SUFFICES ASSUME NEW q, NEW i \in 1 .. n, s[i] = q, q # a
               PROVE  EnLista(q, r)
    BY <1>1 DEF EnLista
  <2>1. i # 1
    BY <1>1
  <2>2. i - 1 \in 1 .. n - 1 /\ r[i - 1] = q
    BY <1>1, <1>3, <2>1
  <2> QED
    BY <1>1, <2>2 DEF EnLista
<1>8. EnLista(a, s)
  BY <1>1, <1>4 DEF EnLista
<1> QED
  BY <1>5, <1>6, <1>7, <1>8 DEF r, a

LEMMA PidsDeColas ==
  ASSUME NEW S, NEW s \in Seq(S), \A e \in S : e.pid \in Pids
  PROVE  /\ PidsDe(s) \in Seq(Pids)
         /\ \A r \in S : PidsDe(Append(s, r)) = Append(PidsDe(s), r.pid)
         /\ s # <<>> => /\ PidsDe(s) # <<>> /\ Head(PidsDe(s)) = Head(s).pid
                        /\ PidsDe(Tail(s)) = Tail(PidsDe(s)) /\ Head(s).pid \in Pids
<1>1. PidsDe(s) \in Seq(Pids) /\ Len(PidsDe(s)) = Len(s)
  BY DEF PidsDe
<1>2. ASSUME NEW r \in S
      PROVE  PidsDe(Append(s, r)) = Append(PidsDe(s), r.pid)
  BY <1>1 DEF PidsDe
<1>3. ASSUME s # <<>>
      PROVE  /\ PidsDe(s) # <<>> /\ Head(PidsDe(s)) = Head(s).pid
             /\ PidsDe(Tail(s)) = Tail(PidsDe(s)) /\ Head(s).pid \in Pids
  BY <1>1, <1>3 DEF PidsDe
<1> QED
  BY <1>1, <1>2, <1>3

(* A step in which only the request of one process moves.                   *)
LEMMA EncargoMovido ==
  ASSUME EncargosBien, LlamadasBien', PedidosBien', NEW d \in Dispositivos, NEW p \in Pids,
         EncargoUnico(d, p)',
         \A e \in Dispositivos, q \in Pids : e # d \/ q # p =>
           /\ EnClase(e, q) => EnClase(e, q)'
           /\ \A t, x : Encargo(e, q, t, x)' => Encargo(e, q, t, x)
  PROVE  EncargosBien'
<1>1. ASSUME NEW e \in Dispositivos, NEW q \in Pids, e # d \/ q # p
      PROVE  EncargoUnico(e, q)'
  BY <1>1 DEF EncargosBien, EncargoUnico
<1> QED
  BY <1>1 DEF EncargosBien

\* What most of the steps do to the handlers.
HilosSiguen ==
  /\ LlamadasBien'
  /\ \A c \in Cpus : pc'[c] \in PasosEncargo =>
       \/ msg'[c].syscall \notin {"S_STDIN", "S_STDOUT"}
       \/ pc[c] \in PasosEncargo /\ pcb_h'[c] = pcb_h[c] /\ msg'[c] = msg[c]

LEMMA HilosQuietos ==
  ASSUME LlamadasBien, UNCHANGED <<pc, pcb_h, msg>>
  PROVE  HilosSiguen
  BY DEF HilosSiguen, LlamadasBien

\* What most of them do to the devices.
DispositivosSiguen ==
  /\ UNCHANGED <<pedidos_d, respuestas_d>>
  /\ \A d \in Dispositivos : pc_d'[d] = "buscar_susp" => pc_d[d] = pc_d'[d] /\ pcb_d'[d] = pcb_d[d]

LEMMA HiloEncargo ==
  ASSUME HilosSiguen, NEW d, NEW p, NEW x, Encargo(d, p, "hilo", x)'
  PROVE  Encargo(d, p, "hilo", x)
<1>1. /\ x \in Cpus /\ pcb_h'[x] = p /\ pc'[x] \in PasosEncargo
      /\ msg'[x].syscall = LlamadaDe(d)
  BY DEF Encargo
<1>2. LlamadaDe(d) \in {"S_STDIN", "S_STDOUT"}
  BY DEF LlamadaDe
<1>3. pc[x] \in PasosEncargo /\ pcb_h'[x] = pcb_h[x] /\ msg'[x] = msg[x]
  BY <1>1, <1>2 DEF HilosSiguen
<1> QED
  BY <1>1, <1>3 DEF Encargo

LEMMA EncargosQuietos ==
  ASSUME EncargosBien, HilosSiguen, DispositivosSiguen,
         \A e \in Dispositivos, q \in Pids : EnClase(e, q) => EnClase(e, q)'
  PROVE  EncargosBien'
<1>1. ASSUME NEW e \in Dispositivos, NEW q \in Pids, NEW t, NEW x, Encargo(e, q, t, x)'
      PROVE  Encargo(e, q, t, x)
  <2>1. CASE t = "hilo"
    BY <1>1, <2>1, HiloEncargo
  <2>2. CASE t # "hilo"
    BY <1>1, <2>2 DEF Encargo, DispositivosSiguen
  <2> QED
    BY <2>1, <2>2
<1>2. ASSUME NEW e \in Dispositivos, NEW q \in Pids
      PROVE  EncargoUnico(e, q)'
  BY <1>1 DEF EncargosBien, EncargoUnico
<1>3. PedidosBien'
  BY DEF EncargosBien, PedidosBien, DispositivosSiguen
<1>4. LlamadasBien'
  BY DEF HilosSiguen
<1> QED
  BY <1>2, <1>3, <1>4 DEF EncargosBien

LEMMA ClaseQuieta ==
  ASSUME UNCHANGED <<block, susp, retirados>>
  PROVE  \A e, q : EnClase(e, q) => EnClase(e, q)'
  BY DEF EnClase

(* The handlers of Planificador.                                            *)
LEMMA ComunesHilos ==
  ASSUME TipoK, LlamadasBien, Comunes
  PROVE  HilosSiguen
<1>1. CASE UNCHANGED <<pc, pcb_h, msg>>
  BY <1>1, HilosQuietos
<1>2. CASE LargoPlazo \/ CortoPlazo \/ KernelMemory \/ UNCHANGED vars
  <2>1. UNCHANGED hilos
    BY <1>2 DEF LargoPlazo, LargoEsperar, LargoSacar, LargoEncolar, LargoAvisar, CortoPlazo,
        CortoEsperarReady, CortoEsperarCpu, CortoSacar, CortoDespachar, KernelMemory, KmCargar,
        KmFinalizar, KmSuspender, vars
  <2> QED
    BY <1>1, <2>1 DEF hilos
<1>3. CASE \/ EscucharKm \/ \E p \in Pids : TimerAvisarKm(p)
           \/ \E c \in Cpus : CpuTomar(c) \/ CpuTerminar(c) \/ CpuInitProc(c)
  <2>1. UNCHANGED hilos
    BY <1>3 DEF EscucharKm, TimerAvisarKm, CpuTomar, CpuTerminar, CpuInitProc, CpuPedir,
        CpuDevolver
  <2> QED
    BY <1>1, <2>1 DEF hilos
<1>4. ASSUME NEW c \in Cpus, AtenderCpu(c)
      PROVE  HilosSiguen
  <2>0. /\ TipoBaseK /\ TipoHilosEn(PasosK, MensajesK)
        /\ pc'[c] \notin PasosPropios
        /\ \A e \in Cpus : e # c => pc'[e] = pc[e] /\ msg'[e] = msg[e]
    BY <1>4, PasosComunes DEF TipoK, TipoBaseK, TipoBaseEn
  <2>1. \A e \in Cpus : e # c => pcb_h'[e] = pcb_h[e]
    BY <1>4, <2>0
    DEF TipoHilosEn, AtenderCpu, AtenderSinExit, RecibirExit, RecibirInterrupcion, RecibirSleep,
        RecibirInitProc, Recibir, Conectar, PublicarCpu, LiberarCpu, FinalizarEnKm, EsperarFin,
        EsperarKm, TerminarProceso, Bloquear, BloqueoPost, PedirIo, PedirCarga, EsperarCarga,
        CrearProceso, RechazarProceso, ReadyPost, ReadyEncolar, ReadyAvisar, SoltarPcb
  <2>2. /\ pc'[c] \in PasosEncargo =>
             \/ msg'[c].syscall \notin {"S_STDIN", "S_STDOUT"}
             \/ pc[c] \in PasosEncargo /\ pcb_h'[c] = pcb_h[c] /\ msg'[c] = msg[c]
        /\ pc'[c] = "bloquear" => msg'[c].syscall = "S_SLEEP"
    <3>1. CASE LiberarCpu(c) \/ BloqueoPost(c) \/ Bloquear(c)
      <4>1. /\ pc'[c] # "bloquear" /\ UNCHANGED <<pcb_h, msg>>
            /\ pc'[c] \in PasosEncargo => pc[c] \in PasosEncargo \/ pc[c] = "bloquear"
        BY <2>0, <3>1, IrK DEF LiberarCpu, BloqueoPost, Bloquear, PasosEncargo, Ir, TipoHilosEn
      <4> QED
        BY <4>1 DEF LlamadasBien
    <3>2. CASE RecibirSleep(c)
      <4>1. /\ pc'[c] = "bloquear" /\ msg'[c].syscall = "S_SLEEP"
        BY <2>0, <3>2 DEF RecibirSleep, Recibir, Ir, TipoHilosEn
      <4> QED
        BY <4>1 DEF PasosEncargo
    <3>3. CASE ~ (LiberarCpu(c) \/ BloqueoPost(c) \/ Bloquear(c) \/ RecibirSleep(c))
      <4>1. \E paso : Ir(c, paso) /\ paso \notin PasosEncargo /\ paso # "bloquear"
        <5>1. CASE PedirIo(c) \/ ReadyAvisar(c) \/ TerminarProceso(c)
          <6>1. Ir(c, "recibir")
            BY <5>1 DEF PedirIo, ReadyAvisar, TerminarProceso, SoltarPcb
          <6> QED
            BY <6>1 DEF PasosEncargo
        <5>2. CASE ~ (PedirIo(c) \/ ReadyAvisar(c) \/ TerminarProceso(c))
          <6>1. \E paso \in {"registrada", "recibir", "finalizar", "esperar_fin", "exit_liberar",
                             "exit_post", "pedir_carga", "esperar_carga", "evaluar",
                             "ready_liberar", "ready_post", "ready_encolar", "ready_avisar"} :
                  Ir(c, paso)
            BY <1>4, <3>3, <5>2
            DEF AtenderCpu, AtenderSinExit, RecibirExit, RecibirInterrupcion,
                RecibirInitProc, Recibir, Conectar, PublicarCpu, FinalizarEnKm, EsperarFin,
                EsperarKm, PedirCarga, EsperarCarga,
                CrearProceso, RechazarProceso, ReadyPost, ReadyEncolar
          <6> QED
            BY <6>1 DEF PasosEncargo
        <5> QED
          BY <5>1, <5>2
      <4> QED
        BY <2>0, <4>1, IrK
    <3> QED
      BY <3>1, <3>2, <3>3
  <2>3. pc'[c] \notin {"leer_op", "leer_cuerpo"}
    BY <2>0 DEF PasosPropios
  <2>4. LlamadasBien'
    BY <2>0, <2>2, <2>3 DEF LlamadasBien
  <2> QED
    BY <2>0, <2>1, <2>2, <2>4 DEF HilosSiguen
<1> QED
  BY <1>2, <1>3, <1>4 DEF Comunes

(* A device serves a request, and its thread takes the answer.              *)
LEMMA ServirEncargo ==
  ASSUME TipoDispositivos, EncargosBien, HilosSiguen, NEW d \in Dispositivos, Servir(d)
  PROVE  EncargosBien'
<1> DEFINE S == [pid : Pids, dato : Pids \cup {NADIE}]
<1>0. /\ pedidos_d[d] \in Seq(S) /\ respuestas_d[d] \in Seq(Pids) /\ \A e \in S : e.pid \in Pids
      /\ pedidos_d \in [Dispositivos -> Seq(S)] /\ respuestas_d \in [Dispositivos -> Seq(Pids)]
  BY DEF TipoDispositivos
<1> HIDE DEF S
<1>1. /\ pedidos_d[d] # <<>>
      /\ respuestas_d' = [respuestas_d EXCEPT ![d] = Append(@, Head(pedidos_d[d]).pid)]
      /\ pedidos_d' = [pedidos_d EXCEPT ![d] = Tail(@)]
      /\ UNCHANGED <<block, susp, retirados, pc_d, pcb_d>>
  BY DEF Servir, bloqueos
<1>2. PICK p \in Pids : p = Head(pedidos_d[d]).pid
  BY <1>0, <1>1, PidsDeColas
<1>3. PICK s \in Seq(Pids) : s = PidsDe(pedidos_d[d])
  BY <1>0, PidsDeColas
<1>4. s # <<>> /\ Head(s) = p /\ PidsDe(pedidos_d'[d]) = Tail(s) /\ SinRepetidos(s)
  <2>1. pedidos_d'[d] = Tail(pedidos_d[d])
    BY <1>0, <1>1
  <2>2. SinRepetidos(s)
    BY <1>3 DEF EncargosBien, PedidosBien
  <2> QED
    BY <1>0, <1>1, <1>2, <1>3, <2>1, <2>2, PidsDeColas
<1>5. /\ SinRepetidos(Tail(s)) /\ EnLista(p, s)
      /\ \A q : EnLista(q, Tail(s)) <=> EnLista(q, s) /\ q # p
  BY <1>4, TailSinRepetir
<1>6. Encargo(d, p, "pedido", d) /\ EncargoUnico(d, p)
  BY <1>3, <1>5 DEF Encargo, EncargosBien
<1>7. ~ EnLista(p, respuestas_d[d]) /\ SinRepetidos(respuestas_d[d])
  <2>1. EnLista(p, respuestas_d[d]) => Encargo(d, p, "respuesta", d)
    BY DEF Encargo
  <2> QED
    BY <1>6, <2>1 DEF EncargoUnico, EncargosBien, PedidosBien
<1>8. /\ SinRepetidos(respuestas_d'[d])
      /\ \A q : EnLista(q, respuestas_d'[d]) <=> EnLista(q, respuestas_d[d]) \/ q = p
  <2>1. respuestas_d'[d] = Append(respuestas_d[d], p)
    BY <1>0, <1>1, <1>2
  <2> QED
    BY <1>0, <1>7, <2>1, AgregarSinRepetir
<1>9. \A e \in Dispositivos : e # d =>
        pedidos_d'[e] = pedidos_d[e] /\ respuestas_d'[e] = respuestas_d[e]
  BY <1>0, <1>1
<1>10. PedidosBien' /\ LlamadasBien'
  BY <1>4, <1>5, <1>8, <1>9 DEF PedidosBien, EncargosBien, HilosSiguen
<1>11. \A e, q : EnClase(e, q) => EnClase(e, q)'
  BY <1>1, ClaseQuieta
<1>12. ASSUME NEW e \in Dispositivos, NEW q \in Pids, NEW t, NEW x, Encargo(e, q, t, x)'
       PROVE  \/ Encargo(e, q, t, x) /\ ~ (e = d /\ q = p /\ t = "pedido")
              \/ e = d /\ q = p /\ t = "respuesta" /\ x = d
  <2>1. CASE t = "hilo"
    BY <1>12, <2>1, HiloEncargo
  <2>2. CASE t = "buscado"
    BY <1>1, <1>12, <2>2 DEF Encargo
  <2>3. CASE t = "pedido"
    <3>1. CASE e = d
      BY <1>3, <1>4, <1>5, <1>12, <2>3, <3>1 DEF Encargo
    <3>2. CASE e # d
      BY <1>9, <1>12, <2>3, <3>2 DEF Encargo
    <3> QED
      BY <3>1, <3>2
  <2>4. CASE t = "respuesta"
    <3>1. CASE e = d
      BY <1>8, <1>12, <2>4, <3>1 DEF Encargo
    <3>2. CASE e # d
      BY <1>9, <1>12, <2>4, <3>2 DEF Encargo
    <3> QED
      BY <3>1, <3>2
  <2> QED
    BY <1>12, <2>1, <2>2, <2>3, <2>4 DEF Encargo
<1>13. EncargoUnico(d, p)'
  <2>1. \A t, x : Encargo(d, p, t, x)' => t = "respuesta" /\ x = d
    BY <1>6, <1>12 DEF EncargoUnico
  <2>2. EnClase(d, p)'
    BY <1>6, <1>11 DEF EncargoUnico
  <2> QED
    BY <2>1, <2>2 DEF EncargoUnico
<1> QED
  BY <1>10, <1>11, <1>12, <1>13, EncargoMovido

LEMMA BuscarBlockEncargo ==
  ASSUME TipoDispositivos, TipoBloqueos, FueraBien, EncargosBien, HilosSiguen,
         NEW d \in Dispositivos, BuscarBlock(d)
  PROVE  EncargosBien'
<1>0. /\ respuestas_d \in [Dispositivos -> Seq(Pids)] /\ respuestas_d[d] \in Seq(Pids)
      /\ pc_d \in [Dispositivos -> {"recibir", "buscar_susp", "escribir", "confirmar",
                                    "encolar", "avisar"}]
      /\ pcb_d \in [Dispositivos -> Pids \cup {NADIE}]
      /\ block \in [Clases -> Seq(Pids)] /\ block[d] \in Seq(Pids) /\ d \in Clases
      /\ SinRepetidos(block[d])
  BY DEF TipoDispositivos, TipoBloqueos, FueraBien, Clases, Dispositivos
<1>1. PICK p \in Pids : p = Head(respuestas_d[d])
  BY <1>0 DEF BuscarBlock
<1>2. /\ pc_d[d] = "recibir" /\ respuestas_d[d] # <<>>
      /\ block' = [block EXCEPT ![d] = Quitar(p, @)]
      /\ pcb_d' = [pcb_d EXCEPT ![d] = p]
      /\ pc_d' = [pc_d EXCEPT ![d] =
                    IF EnLista(p, block[d]) THEN TrasEncontrar(d) ELSE "buscar_susp"]
      /\ respuestas_d' = [respuestas_d EXCEPT ![d] = Tail(@)]
      /\ UNCHANGED <<susp, retirados, pedidos_d>>
  BY <1>1 DEF BuscarBlock
<1>3. SinRepetidos(respuestas_d[d])
  BY DEF EncargosBien, PedidosBien
<1>4. /\ SinRepetidos(respuestas_d'[d]) /\ EnLista(p, respuestas_d[d])
      /\ \A q : EnLista(q, respuestas_d'[d]) <=> EnLista(q, respuestas_d[d]) /\ q # p
  <2>1. respuestas_d'[d] = Tail(respuestas_d[d])
    BY <1>0, <1>2
  <2> QED
    BY <1>0, <1>1, <1>2, <1>3, <2>1, TailSinRepetir
<1>5. \A q : EnLista(q, block'[d]) <=> EnLista(q, block[d]) /\ q # p
  <2>1. block'[d] = Quitar(p, block[d])
    BY <1>0, <1>2
  <2> QED
    BY <1>0, <2>1, QuitarSinRepetir
<1>6. /\ \A e \in Dispositivos : e # d =>
           respuestas_d'[e] = respuestas_d[e] /\ pc_d'[e] = pc_d[e] /\ pcb_d'[e] = pcb_d[e]
      /\ \A e \in Dispositivos : e # d => block'[e] = block[e]
  BY <1>0, <1>2 DEF Clases, Dispositivos
<1>7. pcb_d'[d] = p /\ (pc_d'[d] = "buscar_susp" <=> ~ EnLista(p, block[d]))
  BY <1>0, <1>2 DEF TrasEncontrar
<1>8. PedidosBien' /\ LlamadasBien'
  BY <1>2, <1>4, <1>6 DEF PedidosBien, EncargosBien, HilosSiguen
<1>9. Encargo(d, p, "respuesta", d) /\ EncargoUnico(d, p)
  BY <1>4 DEF Encargo, EncargosBien
<1>10. ASSUME NEW e \in Dispositivos, NEW q \in Pids, NEW t, NEW x, Encargo(e, q, t, x)'
       PROVE  \/ Encargo(e, q, t, x) /\ ~ (e = d /\ q = p /\ t = "respuesta")
              \/ e = d /\ q = p /\ t = "buscado" /\ x = d /\ ~ EnLista(p, block[d])
  <2>1. CASE t = "hilo"
    BY <1>10, <2>1, HiloEncargo
  <2>2. CASE t = "pedido"
    BY <1>2, <1>10, <2>2 DEF Encargo
  <2>3. CASE t = "respuesta"
    <3>1. CASE e = d
      BY <1>4, <1>10, <2>3, <3>1 DEF Encargo
    <3>2. CASE e # d
      BY <1>6, <1>10, <2>3, <3>2 DEF Encargo
    <3> QED
      BY <3>1, <3>2
  <2>4. CASE t = "buscado"
    <3>1. CASE e = d
      BY <1>7, <1>10, <2>4, <3>1 DEF Encargo
    <3>2. CASE e # d
      BY <1>6, <1>10, <2>4, <3>2 DEF Encargo
    <3> QED
      BY <3>1, <3>2
  <2> QED
    BY <1>10, <2>1, <2>2, <2>3, <2>4 DEF Encargo
<1>11. ASSUME NEW e \in Dispositivos, NEW q \in Pids, EnClase(e, q),
              e # d \/ q # p \/ ~ EnLista(p, block[d])
       PROVE  EnClase(e, q)'
  <2>1. EnLista(q, block[e]) => EnLista(q, block'[e])
    BY <1>5, <1>6, <1>11
  <2> QED
    BY <1>2, <1>11, <2>1 DEF EnClase
<1>12. EncargoUnico(d, p)'
  <2>1. \A t, x : Encargo(d, p, t, x)' => t = "buscado" /\ x = d /\ ~ EnLista(p, block[d])
    BY <1>9, <1>10 DEF EncargoUnico
  <2>2. ~ EnLista(p, block[d]) => EnClase(d, p)'
    BY <1>9, <1>11 DEF EncargoUnico
  <2> QED
    BY <2>1, <2>2 DEF EncargoUnico
<1> QED
  BY <1>8, <1>10, <1>11, <1>12, EncargoMovido

LEMMA BuscarSuspEncargo ==
  ASSUME TipoDispositivos, TipoBloqueos, FueraBien, EncargosBien, HilosSiguen,
         NEW d \in Dispositivos, BuscarSusp(d)
  PROVE  EncargosBien'
<1>0. /\ pc_d \in [Dispositivos -> {"recibir", "buscar_susp", "escribir", "confirmar",
                                    "encolar", "avisar"}]
      /\ pcb_d \in [Dispositivos -> Pids \cup {NADIE}]
      /\ susp \in [Clases -> Seq(Pids)] /\ susp[d] \in Seq(Pids) /\ d \in Clases
      /\ SinRepetidos(susp[d])
  BY DEF TipoDispositivos, TipoBloqueos, FueraBien, Clases, Dispositivos
<1>1. PICK p \in Pids : p = pcb_d[d]
  BY DEF BuscarSusp, TipoDispositivos
<1>2. /\ pc_d[d] = "buscar_susp" /\ pcb_d[d] = p
      /\ pc_d' = [pc_d EXCEPT ![d] = IF EnLista(p, susp[d]) THEN TrasEncontrar(d) ELSE "recibir"]
      /\ susp' = [susp EXCEPT ![d] = Quitar(p, @)]
      /\ UNCHANGED <<block, retirados, pedidos_d, respuestas_d>>
  BY <1>1 DEF BuscarSusp
<1>3. \A e \in Dispositivos : e # d => pcb_d'[e] = pcb_d[e]
  BY <1>0 DEF BuscarSusp
<1>4. \A q : EnLista(q, susp'[d]) <=> EnLista(q, susp[d]) /\ q # p
  <2>1. susp'[d] = Quitar(p, susp[d])
    BY <1>0, <1>2
  <2> QED
    BY <1>0, <2>1, QuitarSinRepetir
<1>5. /\ \A e \in Dispositivos : e # d => pc_d'[e] = pc_d[e] /\ susp'[e] = susp[e]
      /\ pc_d'[d] # "buscar_susp"
  BY <1>0, <1>2 DEF TrasEncontrar, Clases, Dispositivos
<1>6. PedidosBien' /\ LlamadasBien'
  BY <1>2 DEF PedidosBien, EncargosBien, HilosSiguen
<1>7. Encargo(d, p, "buscado", d) /\ EncargoUnico(d, p)
  BY <1>2 DEF Encargo, EncargosBien
<1>8. ASSUME NEW e \in Dispositivos, NEW q \in Pids, NEW t, NEW x, Encargo(e, q, t, x)'
      PROVE  Encargo(e, q, t, x) /\ ~ (e = d /\ t = "buscado")
  <2>1. CASE t = "hilo"
    BY <1>8, <2>1, HiloEncargo
  <2>2. CASE t \in {"pedido", "respuesta"}
    BY <1>2, <1>8, <2>2 DEF Encargo
  <2>3. CASE t = "buscado"
    BY <1>3, <1>5, <1>8, <2>3 DEF Encargo
  <2> QED
    BY <1>8, <2>1, <2>2, <2>3 DEF Encargo
<1>9. ASSUME NEW e \in Dispositivos, NEW q \in Pids, EnClase(e, q), e # d \/ q # p
      PROVE  EnClase(e, q)'
  <2>1. EnLista(q, susp[e]) => EnLista(q, susp'[e])
    BY <1>4, <1>5, <1>9
  <2> QED
    BY <1>2, <1>9, <2>1 DEF EnClase
<1>10. EncargoUnico(d, p)'
  <2>1. \A t, x : ~ Encargo(d, p, t, x)'
    BY <1>7, <1>8 DEF EncargoUnico
  <2> QED
    BY <2>1 DEF EncargoUnico
<1> QED
  BY <1>6, <1>8, <1>9, <1>10, EncargoMovido

LEMMA AgregarEnLista ==
  ASSUME NEW s \in Seq(Pids), NEW p \in Pids
  PROVE  \A q : EnLista(q, s) \/ q = p => EnLista(q, Append(s, p))
<1> DEFINE n == Len(s)
<1>1. /\ DOMAIN s = 1 .. n /\ DOMAIN Append(s, p) = 1 .. n + 1 /\ n \in Nat
      /\ Append(s, p)[n + 1] = p /\ \A i \in 1 .. n : Append(s, p)[i] = s[i]
  OBVIOUS
<1> HIDE DEF n
<1>2. n + 1 \in 1 .. n + 1 /\ \A i \in 1 .. n : i \in 1 .. n + 1
  BY <1>1
<1> QED
  BY <1>1, <1>2 DEF EnLista

LEMMA RelojEncargo ==
  ASSUME TipoBloqueos, FueraBien, EncargosBien, HilosSiguen, NEW k \in Clases, NEW p \in Pids,
         RetirarDe(k, p) \/ SuspenderEn(k, p)
  PROVE  EncargosBien'
<1>0. /\ block \in [Clases -> Seq(Pids)] /\ susp \in [Clases -> Seq(Pids)]
      /\ retirados \in [Clases -> SUBSET Pids]
      /\ block[k] \in Seq(Pids) /\ susp[k] \in Seq(Pids) /\ SinRepetidos(block[k])
  BY DEF TipoBloqueos, FueraBien
<1>1. DispositivosSiguen
  BY DEF RetirarDe, SuspenderEn, dispositivos, DispositivosSiguen
<1>2. ASSUME NEW e \in Clases, NEW q \in Pids, EnClase(e, q)
      PROVE  EnClase(e, q)'
  <2>1. CASE RetirarDe(k, p)
    <3>1. /\ block' = [block EXCEPT ![k] = Quitar(p, @)]
          /\ retirados' = [retirados EXCEPT ![k] = @ \cup Alcanzados(k, p)]
          /\ susp' = susp
      BY <2>1 DEF RetirarDe
    <3>2. EnLista(q, block[e]) => EnLista(q, block'[e]) \/ q \in retirados'[e]
      <4>1. CASE e = k
        <5>1. EnLista(q, Quitar(p, block[k])) <=> EnLista(q, block[k]) /\ q # p
          BY <1>0, QuitarSinRepetir
        <5> QED
          BY <1>0, <3>1, <4>1, <5>1 DEF Alcanzados
      <4>2. CASE e # k
        BY <1>0, <3>1, <4>2
      <4> QED
        BY <4>1, <4>2
    <3>3. q \in retirados[e] => q \in retirados'[e]
      BY <1>0, <3>1
    <3> QED
      BY <1>2, <3>1, <3>2, <3>3 DEF EnClase
  <2>2. CASE SuspenderEn(k, p)
    <3>1. /\ susp' = [susp EXCEPT ![k] = Append(@, p)]
          /\ retirados' = [retirados EXCEPT ![k] = @ \ {p}]
          /\ block' = block
      BY <2>2 DEF SuspenderEn, ListaSusp
    <3>2. /\ EnLista(q, susp[e]) => EnLista(q, susp'[e])
          /\ q \in retirados[e] => EnLista(q, susp'[e]) \/ q \in retirados'[e]
      <4>1. CASE e = k
        <5>1. susp'[k] = Append(susp[k], p)
          BY <1>0, <3>1
        <5>2. EnLista(q, susp[k]) \/ q = p => EnLista(q, susp'[k])
          BY <1>0, <5>1, AgregarEnLista
        <5>3. q \in retirados[k] /\ q # p => q \in retirados'[k]
          BY <1>0, <3>1
        <5> QED
          BY <4>1, <5>2, <5>3
      <4>2. CASE e # k
        BY <1>0, <3>1, <4>2
      <4> QED
        BY <4>1, <4>2
    <3> QED
      BY <1>2, <3>1, <3>2 DEF EnClase
  <2> QED
    BY <2>1, <2>2
<1>3. Dispositivos \subseteq Clases
  BY DEF Dispositivos, Clases
<1> QED
  BY <1>1, <1>2, <1>3, EncargosQuietos

LEMMA QuietasEncargos ==
  ASSUME TipoK, SitioK, EncargosBien, Quietas
  PROVE  EncargosBien'
<1>0. /\ TipoBloqueos /\ TipoDispositivos /\ FueraBien
      /\ pc_d \in [Dispositivos -> {"recibir", "buscar_susp", "escribir", "confirmar",
                                    "encolar", "avisar"}]
  BY DEF TipoK, SitioK, TipoDispositivos
<1>1. HilosSiguen
  BY QuietasEn, HilosQuietos DEF EncargosBien
<1>2. ASSUME UNCHANGED <<block, susp, retirados, pedidos_d, respuestas_d, pc_d, pcb_d>>
      PROVE  EncargosBien'
  BY <1>1, <1>2, ClaseQuieta, EncargosQuietos DEF DispositivosSiguen
<1>3. CASE \E d \in Dispositivos : Servir(d) \/ BuscarBlock(d) \/ BuscarSusp(d)
  BY <1>0, <1>1, <1>3, ServirEncargo, BuscarBlockEncargo, BuscarSuspEncargo
<1>4. CASE StdinEscribir \/ StdinConfirmar
  <2>1. /\ UNCHANGED <<block, susp, retirados, pedidos_d, respuestas_d, pcb_d>>
        /\ \E paso \in {"confirmar", "encolar"} : pc_d' = [pc_d EXCEPT !["stdin"] = paso]
    BY <1>4 DEF StdinEscribir, StdinConfirmar, bloqueos
  <2>2. DispositivosSiguen
    BY <1>0, <2>1 DEF DispositivosSiguen
  <2> QED
    BY <1>1, <2>1, <2>2, ClaseQuieta, EncargosQuietos
<1>5. CASE \E k \in Clases, p \in Pids : RetirarDe(k, p) \/ SuspenderEn(k, p)
  BY <1>0, <1>1, <1>5, RelojEncargo
<1>6. CASE \/ KmCrearSegmento \/ KmConfirmada \/ KmEliminarSegmento \/ KmLectura
           \/ KmEscritura \/ KmStickNuevo
  <2>1. UNCHANGED <<bloqueos, dispositivos>>
    BY <1>6 DEF KmCrearSegmento, KmConfirmada, KmEliminarSegmento, KmLectura, KmEscritura,
        KmStickNuevo
  <2> QED
    BY <1>2, <2>1 DEF bloqueos, dispositivos
<1>7. CASE \/ EscucharPaquete \/ EscucharCuerpo \/ EscucharDesconocida \/ EscucharAviso
           \/ \E c \in Cpus : CpuMemoria(c)
  <2>1. UNCHANGED <<bloqueos, dispositivos>>
    BY <1>7 DEF EscucharPaquete, EscucharCuerpo, EscucharDesconocida, EscucharAviso,
        CpuMemoria, propias
  <2> QED
    BY <1>2, <2>1 DEF bloqueos, dispositivos
<1> QED
  BY <1>3, <1>4, <1>5, <1>6, <1>7 DEF Quietas

LEMMA DispEncargos ==
  ASSUME TipoK, EncargosBien, NEW d \in Dispositivos, Encolar(d) \/ Avisar(d)
  PROVE  EncargosBien'
<1>0. /\ pc_d \in [Dispositivos -> {"recibir", "buscar_susp", "escribir", "confirmar",
                                    "encolar", "avisar"}]
      /\ pcb_d \in [Dispositivos -> Pids \cup {NADIE}]
  BY DEF TipoK, TipoDispositivos
<1>1. /\ UNCHANGED <<pc, pcb_h, msg, block, susp, retirados, pedidos_d, respuestas_d>>
      /\ \E paso \in {"avisar", "recibir"} : pc_d' = [pc_d EXCEPT ![d] = paso]
      /\ pcb_d' = pcb_d \/ pcb_d' = [pcb_d EXCEPT ![d] = NADIE]
  BY DEF Encolar, Avisar, hilos, bloqueos
<1>2. DispositivosSiguen
  BY <1>0, <1>1 DEF DispositivosSiguen
<1>3. HilosSiguen
  BY <1>1, HilosQuietos DEF EncargosBien
<1> QED
  BY <1>1, <1>2, <1>3, ClaseQuieta, EncargosQuietos

(* A handler sends its request to the device.                               *)
LEMMA PedirEncargo ==
  ASSUME TipoK, EncargosBien, NEW c \in Cpus, NEW d \in Dispositivos,
         pc[c] \in {"block_io", "leer_cuerpo"}, msg[c].syscall = LlamadaDe(d), SoltarPcb(c),
         NEW dato \in Pids \cup {NADIE},
         pedidos_d' = [pedidos_d EXCEPT ![d] = Append(@, [pid |-> pcb_h[c], dato |-> dato])],
         UNCHANGED <<block, susp, retirados, respuestas_d, pc_d, pcb_d>>
  PROVE  EncargosBien'
<1> DEFINE S == [pid : Pids, dato : Pids \cup {NADIE}]
<1>0. /\ pedidos_d[d] \in Seq(S) /\ pedidos_d \in [Dispositivos -> Seq(S)]
      /\ \A e \in S : e.pid \in Pids
      /\ TipoBaseK /\ TipoHilosEn(PasosK, MensajesK)
  BY DEF TipoK, TipoDispositivos, TipoBaseK, TipoBaseEn
<1>1. PICK p \in Pids : p = pcb_h[c]
  BY <1>0, TrabajaTipo
<1>2. PICK r \in S : r = [pid |-> p, dato |-> dato]
  OBVIOUS
<1>3. r.pid = p
  BY <1>2
<1> HIDE DEF S
<1>4. PICK s \in Seq(Pids) : s = PidsDe(pedidos_d[d])
  BY <1>0, PidsDeColas
<1>5. PidsDe(pedidos_d'[d]) = Append(s, p)
  <2>1. pedidos_d'[d] = Append(pedidos_d[d], r)
    BY <1>0, <1>1, <1>2
  <2> QED
    BY <1>0, <1>3, <1>4, <2>1, PidsDeColas
<1>6. Encargo(d, p, "hilo", c) /\ EncargoUnico(d, p)
  BY <1>1 DEF Encargo, PasosEncargo, EncargosBien
<1>7. ~ EnLista(p, s) /\ SinRepetidos(s)
  <2>1. EnLista(p, s) => Encargo(d, p, "pedido", d)
    BY <1>4 DEF Encargo
  <2> QED
    BY <1>4, <1>6, <2>1 DEF EncargoUnico, EncargosBien, PedidosBien
<1>8. /\ SinRepetidos(Append(s, p))
      /\ \A q : EnLista(q, Append(s, p)) <=> EnLista(q, s) \/ q = p
  BY <1>7, AgregarSinRepetir
<1>9. \A e \in Dispositivos : e # d => pedidos_d'[e] = pedidos_d[e]
  BY <1>0
<1>10. /\ pc'[c] = "recibir"
       /\ \A b \in Cpus : b # c => pc'[b] = pc[b] /\ pcb_h'[b] = pcb_h[b] /\ msg'[b] = msg[b]
  BY <1>0 DEF SoltarPcb, Ir, TipoHilosEn
<1>11. PedidosBien' /\ LlamadasBien'
  BY <1>5, <1>8, <1>9, <1>10 DEF PedidosBien, LlamadasBien, EncargosBien
<1>12. \A e, q : EnClase(e, q) => EnClase(e, q)'
  BY ClaseQuieta
<1>13. ASSUME NEW e \in Dispositivos, NEW q \in Pids, NEW t, NEW x, Encargo(e, q, t, x)'
       PROVE  \/ Encargo(e, q, t, x) /\ ~ (t = "hilo" /\ x = c)
              \/ e = d /\ q = p /\ t = "pedido" /\ x = d
  <2>1. CASE t = "hilo"
    BY <1>10, <1>13, <2>1 DEF Encargo, PasosEncargo
  <2>2. CASE t \in {"respuesta", "buscado"}
    BY <1>13, <2>2 DEF Encargo
  <2>3. CASE t = "pedido"
    <3>1. CASE e = d
      BY <1>4, <1>5, <1>8, <1>13, <2>3, <3>1 DEF Encargo
    <3>2. CASE e # d
      BY <1>9, <1>13, <2>3, <3>2 DEF Encargo
    <3> QED
      BY <3>1, <3>2
  <2> QED
    BY <1>13, <2>1, <2>2, <2>3 DEF Encargo
<1>14. EncargoUnico(d, p)'
  <2>1. \A t, x : Encargo(d, p, t, x)' => t = "pedido" /\ x = d
    BY <1>6, <1>13 DEF EncargoUnico
  <2>2. EnClase(d, p)'
    BY <1>6, <1>12 DEF EncargoUnico
  <2> QED
    BY <2>1, <2>2 DEF EncargoUnico
<1> QED
  BY <1>11, <1>12, <1>13, <1>14, EncargoMovido

(* A handler blocks its process: from then on it has a request to send.     *)
LEMMA BloquearEncargo ==
  ASSUME TipoK, CpuDelHiloEn(PasosConCpuK), LugaresSin(Fuera), EncargosBien,
         NEW c \in Cpus, BloquearEn(c)
  PROVE  EncargosBien'
<1>0. /\ TipoBaseK /\ TipoHilosEn(PasosK, MensajesK) /\ pc[c] = "bloquear_en"
      /\ block \in [Clases -> Seq(Pids)] /\ PasosBien
      /\ \A j \in Clases : block[j] \in Seq(Pids)
  BY DEF BloquearEn, TipoK, TipoBaseK, TipoBaseEn, TipoBloqueos
<1>1. PICK p \in Pids : pcb_h[c] = p /\ ejecutando[c] = p
  BY <1>0, TrabajaTipo DEF CpuDelHiloEn, PasosConCpuK
<1>2. PICK k \in Clases :
        /\ k = ClaseDe(msg[c].syscall)
        /\ k \in Dispositivos => msg[c].syscall = LlamadaDe(k)
        /\ k \notin Dispositivos => msg[c].syscall \notin {"S_STDIN", "S_STDOUT"}
  <2>1. msg[c].syscall \in {"S_STDIN", "S_STDOUT", "S_MEM_ALLOC"}
    BY <1>0 DEF PasosBien
  <2> QED
    BY <2>1 DEF ClaseDe, Clases, Dispositivos, LlamadaDe
<1>3. /\ block' = [block EXCEPT ![k] = Append(@, p)] /\ Ir(c, "block_liberar")
      /\ UNCHANGED <<pcb_h, msg, susp, retirados, pedidos_d, respuestas_d, pc_d, pcb_d>>
  BY <1>1, <1>2 DEF BloquearEn, dispositivos
<1>4. /\ pc'[c] = "block_liberar" /\ \A b \in Cpus : b # c => pc'[b] = pc[b]
  BY <1>0, <1>3, IrK
<1>5. LlamadasBien'
  BY <1>3, <1>4 DEF LlamadasBien, EncargosBien
<1>6. /\ \A e \in Clases : \A q : EnLista(q, block[e]) => EnLista(q, block'[e])
      /\ EnLista(p, block'[k])
  <2>1. block'[k] = Append(block[k], p) /\ \A e \in Clases : e # k => block'[e] = block[e]
    BY <1>0, <1>3
  <2>2. \A q : EnLista(q, block[k]) \/ q = p => EnLista(q, block'[k])
    BY <1>0, <2>1, AgregarEnLista
  <2> QED
    BY <2>1, <2>2
<1>7. \A e \in Dispositivos, q \in Pids : EnClase(e, q) => EnClase(e, q)'
  BY <1>3, <1>6 DEF EnClase, Clases, Dispositivos
<1>8. CASE k \notin Dispositivos
  <2>1. HilosSiguen
    BY <1>2, <1>3, <1>4, <1>5, <1>8 DEF HilosSiguen
  <2>2. DispositivosSiguen
    BY <1>3 DEF DispositivosSiguen
  <2> QED
    BY <1>7, <2>1, <2>2, EncargosQuietos
<1>9. CASE k \in Dispositivos
  <2>1. ~ EnClase(k, p)
    <3>1. PICK F : F = Fuera
      OBVIOUS
    <3>2. En(p, "cpu", c)
      BY <1>0, <1>1 DEF En
    <3>3. p \notin F
      BY <1>1, <3>1, <3>2, Unico
    <3> QED
      BY <1>1, <1>2, <3>1, <3>3 DEF EnClase, Fuera, EnFuera
  <2>2. \A t, x : ~ Encargo(k, p, t, x)
    BY <1>1, <1>9, <2>1 DEF EncargosBien, EncargoUnico
  <2>3. ASSUME NEW e \in Dispositivos, NEW q \in Pids, NEW t, NEW x, Encargo(e, q, t, x)'
        PROVE  Encargo(e, q, t, x) \/ (e = k /\ q = p /\ t = "hilo" /\ x = c)
    <3>1. CASE t = "hilo" /\ x # c
      BY <1>3, <1>4, <2>3, <3>1 DEF Encargo
    <3>2. CASE t = "hilo" /\ x = c
      <4>1. q = p /\ msg[c].syscall = LlamadaDe(e)
        BY <1>1, <1>3, <2>3, <3>2 DEF Encargo
      <4>2. e = k
        BY <1>2, <1>9, <4>1 DEF LlamadaDe, Dispositivos
      <4> QED
        BY <3>2, <4>1, <4>2
    <3>3. CASE t # "hilo"
      BY <1>3, <2>3, <3>3 DEF Encargo
    <3> QED
      BY <3>1, <3>2, <3>3
  <2>4. EncargoUnico(k, p)'
    <3>1. EnClase(k, p)'
      BY <1>6 DEF EnClase
    <3>2. \A t, x : Encargo(k, p, t, x)' => t = "hilo" /\ x = c
      BY <1>1, <1>9, <2>2, <2>3
    <3> QED
      BY <3>1, <3>2 DEF EncargoUnico
  <2>5. PedidosBien'
    BY <1>3 DEF PedidosBien, EncargosBien
  <2> QED
    BY <1>1, <1>5, <1>7, <1>9, <2>3, <2>4, <2>5, EncargoMovido
<1> QED
  BY <1>8, <1>9

(* The handlers of the memory calls.                                        *)
LEMMA AtenderEncargos ==
  ASSUME TipoK, CpuDelHiloEn(PasosConCpuK), LugaresSin(Fuera), EncargosBien,
         NEW c \in Cpus, AtenderMemoria(c)
  PROVE  EncargosBien'
<1>0. /\ TipoBaseK /\ TipoHilosEn(PasosK, MensajesK) /\ LlamadasBien
      /\ TipoKmK /\ CuerposBien
  BY DEF TipoK, TipoBaseK, TipoBaseEn, EncargosBien
<1>1. ASSUME UNCHANGED <<block, susp, retirados, pedidos_d, respuestas_d, pc_d, pcb_d>>,
             HilosSiguen
      PROVE  EncargosBien'
  BY <1>1, ClaseQuieta, EncargosQuietos DEF DispositivosSiguen
<1>2. ASSUME NEW paso, Ir(c, paso), paso \notin PasosEncargo, paso # "bloquear",
             \A b \in Cpus : b # c => pcb_h'[b] = pcb_h[b] /\ msg'[b] = msg[b]
      PROVE  HilosSiguen
  <2>1. pc'[c] = paso /\ \A b \in Cpus : b # c => pc'[b] = pc[b]
    BY <1>0, <1>2, IrK
  <2>2. LlamadasBien'
    BY <1>0, <1>2, <2>1 DEF LlamadasBien, PasosEncargo
  <2> QED
    BY <1>2, <2>1, <2>2 DEF HilosSiguen
<1>3. ASSUME NEW paso, Ir(c, paso), UNCHANGED <<pcb_h, msg>>, pc[c] \in PasosEncargo,
             paso \in PasosEncargo,
             paso \in {"leer_op", "leer_cuerpo"} => msg[c].syscall = "S_STDOUT"
      PROVE  HilosSiguen
  <2>1. pc'[c] = paso /\ \A b \in Cpus : b # c => pc'[b] = pc[b]
    BY <1>0, <1>3, IrK
  <2>2. LlamadasBien'
    BY <1>0, <1>3, <2>1 DEF LlamadasBien, PasosEncargo
  <2> QED
    BY <1>3, <2>1, <2>2 DEF HilosSiguen
<1>4. ASSUME SoltarPcb(c)
      PROVE  HilosSiguen
  <2>1. /\ Ir(c, "recibir") /\ "recibir" \notin PasosEncargo
        /\ \A b \in Cpus : b # c => pcb_h'[b] = pcb_h[b] /\ msg'[b] = msg[b]
    BY <1>0, <1>4 DEF SoltarPcb, PasosEncargo, TipoHilosEn
  <2> QED
    BY <1>2, <2>1
<1>5. CASE RecibirBloqueante(c) \/ RecibirMemFree(c)
  <2>1. PICK paso \in {"bloquear_en", "mem_free"} : \E s : RecibirLlamada(c, s, paso)
    BY <1>5 DEF RecibirBloqueante, RecibirMemFree
  <2>2. /\ Ir(c, paso) /\ paso \notin PasosEncargo /\ paso # "bloquear"
        /\ \A b \in Cpus : b # c => pcb_h'[b] = pcb_h[b] /\ msg'[b] = msg[b]
    BY <1>0, <2>1 DEF RecibirLlamada, Recibir, PasosEncargo, TipoHilosEn
  <2>3. UNCHANGED <<block, susp, retirados, pedidos_d, respuestas_d, pc_d, pcb_d>>
    BY <2>1 DEF RecibirLlamada, propias, bloqueos, dispositivos
  <2> QED
    BY <1>1, <1>2, <2>2, <2>3
<1>6. CASE RecibirYNada(c)
  <2>1. UNCHANGED <<hilos, propias>>
    BY <1>6 DEF RecibirYNada
  <2> QED
    BY <1>0, <1>1, <2>1, HilosQuietos DEF hilos, propias, bloqueos, dispositivos
<1>7. CASE MemAllocPedir(c)
  <2>1. SoltarPcb(c) /\ UNCHANGED propias
    BY <1>7 DEF MemAllocPedir
  <2> QED
    BY <1>1, <1>4, <2>1 DEF propias, bloqueos, dispositivos
<1>8. CASE StdinPedir(c)
  <2>1. /\ pc[c] = "block_io" /\ msg[c].syscall = "S_STDIN" /\ SoltarPcb(c)
        /\ pedidos_d' = [pedidos_d EXCEPT !["stdin"] =
                           Append(@, [pid |-> pcb_h[c], dato |-> NADIE])]
        /\ UNCHANGED <<block, susp, retirados, respuestas_d, pc_d, pcb_d>>
    BY <1>8 DEF StdinPedir, bloqueos
  <2>2. "stdin" \in Dispositivos /\ LlamadaDe("stdin") = "S_STDIN"
    BY DEF Dispositivos, LlamadaDe
  <2> QED
    BY <2>1, <2>2, PedirEncargo
<1>9. ASSUME NEW dato \in Pids \cup {NADIE}, Imprimir(c, dato), pc[c] = "leer_cuerpo",
             UNCHANGED <<block, susp, retirados, respuestas_d, pc_d, pcb_d>>
      PROVE  EncargosBien'
  <2>1. /\ msg[c].syscall = "S_STDOUT" /\ SoltarPcb(c)
        /\ pedidos_d' = [pedidos_d EXCEPT !["stdout"] =
                           Append(@, [pid |-> pcb_h[c], dato |-> dato])]
    BY <1>0, <1>9 DEF Imprimir, LlamadasBien
  <2>2. "stdout" \in Dispositivos /\ LlamadaDe("stdout") = "S_STDOUT"
    BY DEF Dispositivos, LlamadaDe
  <2> QED
    BY <1>9, <2>1, <2>2, PedirEncargo
<1>10. CASE StdoutPedir(c)
  <2>1. /\ pc[c] = "block_io" /\ msg[c].syscall = "S_STDOUT" /\ Ir(c, "leer_op")
        /\ UNCHANGED <<pcb_h, msg, bloqueos, dispositivos>>
    BY <1>10 DEF StdoutPedir
  <2>2. HilosSiguen
    BY <1>3, <2>1 DEF PasosEncargo
  <2> QED
    BY <1>1, <2>1, <2>2 DEF bloqueos, dispositivos
<1>11. CASE StdoutCodigo(c)
  <2>1. /\ pc[c] = "leer_op" /\ msg[c].syscall = "S_STDOUT"
        /\ SoltarPcb(c) \/ (Ir(c, "leer_cuerpo") /\ UNCHANGED <<pcb_h, msg>>)
        /\ UNCHANGED <<bloqueos, dispositivos>>
    BY <1>0, <1>11 DEF StdoutCodigo, LlamadasBien
  <2>2. HilosSiguen
    BY <1>3, <1>4, <2>1 DEF PasosEncargo
  <2> QED
    BY <1>1, <2>1, <2>2 DEF bloqueos, dispositivos
<1>12. CASE StdoutDatos(c)
  <2>1. /\ pc[c] = "leer_cuerpo" /\ TomarPalabra
        /\ UNCHANGED <<block, susp, retirados, respuestas_d, pc_d, pcb_d>>
        /\ \/ Palabra = "CUERPO" /\ Imprimir(c, Head(cuerpos))
           \/ Imprimir(c, NADIE)
           \/ UNCHANGED <<pedidos_d, hilos>>
    BY <1>12 DEF StdoutDatos, bloqueos
  <2>2. Palabra = "CUERPO" => Head(cuerpos) \in Pids
    BY <1>0, <2>1, TomarTipo
  <2>3. CASE UNCHANGED <<pedidos_d, hilos>>
    BY <1>0, <1>1, <2>1, <2>3, HilosQuietos DEF hilos
  <2>4. CASE Imprimir(c, NADIE)
    BY <1>9, <2>1, <2>4
  <2>5. CASE Palabra = "CUERPO" /\ Imprimir(c, Head(cuerpos))
    BY <1>9, <2>1, <2>2, <2>5
  <2> QED
    BY <2>1, <2>3, <2>4, <2>5
<1>13. CASE MemFreePedir(c)
  <2>1. Ir(c, "ready_liberar") /\ UNCHANGED <<pcb_h, msg, propias>>
    BY <1>13 DEF MemFreePedir
  <2>2. HilosSiguen
    BY <1>2, <2>1 DEF PasosEncargo
  <2> QED
    BY <1>1, <2>1, <2>2 DEF propias, bloqueos, dispositivos
<1>14. CASE BloquearEn(c)
  BY <1>14, BloquearEncargo
<1> QED
  BY <1>5, <1>6, <1>7, <1>8, <1>10, <1>11, <1>12, <1>13, <1>14 DEF AtenderMemoria

LEMMA NextEncargos ==
  ASSUME InvK, SitioK, EncargosBien, ~ compactacion_en_progreso, [NextK]_varsK
  PROVE  EncargosBien'
<1>1. TipoK /\ CpuDelHiloEn(PasosConCpuK) /\ LugaresSin(Fuera)
  BY MotivosK DEF InvMotivosEn, InvCpuEn, SitioK
<1>2. ~ AvisoDesalojar
  BY <1>1 DEF AvisoDesalojar, DesalojarCon, TipoK, PasosBien
<1>3. CASE Comunes /\ PropiasQuietas
  <2>1. HilosSiguen
    BY <1>1, <1>3, ComunesHilos DEF EncargosBien
  <2>2. /\ UNCHANGED <<block, susp, retirados>>
        /\ DispositivosSiguen
    BY <1>3 DEF PropiasQuietas, bloqueos, dispositivos, DispositivosSiguen
  <2> QED
    BY <2>1, <2>2, ClaseQuieta, EncargosQuietos
<1> QED
  BY <1>1, <1>2, <1>3, ClasesDePasos, QuietasEncargos, DispEncargos, AtenderEncargos

LEMMA InitEncargos == InitK => EncargosBien
<1> SUFFICES ASSUME InitK PROVE EncargosBien
  OBVIOUS
<1>1. /\ \A c \in Cpus : pc[c] = "sin_conectar"
      /\ \A d \in Dispositivos : pedidos_d[d] = <<>> /\ respuestas_d[d] = <<>>
                                 /\ pc_d[d] = "recibir"
  BY DEF InitK, Init
<1>2. SinRepetidos(<<>>) /\ PidsDe(<<>>) = <<>> /\ \A p : ~ EnLista(p, <<>>)
  BY DEF SinRepetidos, PidsDe, EnLista
<1>3. \A d \in Dispositivos : \A p, t, x : ~ Encargo(d, p, t, x)
  BY <1>1, <1>2 DEF Encargo, PasosEncargo
<1> QED
  BY <1>1, <1>2, <1>3 DEF EncargosBien, LlamadasBien, PedidosBien, EncargoUnico

\* How many times a process is in a list without repetitions.
LEMMA UnaVez ==
  ASSUME NEW s \in Seq(Pids), SinRepetidos(s), NEW p
  PROVE  Cardinality({i \in DOMAIN s : s[i] = p}) = Si(EnLista(p, s))
<1>1. CASE EnLista(p, s)
  <2>1. PICK i \in DOMAIN s : s[i] = p
    BY <1>1 DEF EnLista
  <2>2. {j \in DOMAIN s : s[j] = p} = {i}
    BY <2>1 DEF SinRepetidos
  <2> QED
    BY <1>1, <2>2, FS_Singleton DEF Si
<1>2. CASE ~ EnLista(p, s)
  <2>1. {j \in DOMAIN s : s[j] = p} = {}
    BY <1>2 DEF EnLista
  <2> QED
    BY <1>2, <2>1, FS_EmptySet DEF Si
<1> QED
  BY <1>1, <1>2

LEMMA EncargosAlcanzan ==
  ASSUME TipoDispositivos, EncargosBien
  PROVE  EsperaSuDispositivo
<1> SUFFICES ASSUME NEW d \in Dispositivos, NEW p \in Pids
             PROVE  EnDispositivo(d, p) <= Si(EnClase(d, p))
  BY DEF EsperaSuDispositivo
<1> DEFINE S == [pid : Pids, dato : Pids \cup {NADIE}]
           E == {i \in DOMAIN pedidos_d[d] : pedidos_d[d][i].pid = p}
<1>1. /\ pedidos_d[d] \in Seq(S) /\ respuestas_d[d] \in Seq(Pids) /\ \A e \in S : e.pid \in Pids
  BY DEF TipoDispositivos
<1> HIDE DEF S
<1>2. PICK s \in Seq(Pids) : s = PidsDe(pedidos_d[d])
  BY <1>1, PidsDeColas
<1>3. SinRepetidos(s) /\ SinRepetidos(respuestas_d[d])
  BY <1>2 DEF EncargosBien, PedidosBien
<1>4. E = {i \in DOMAIN s : s[i] = p}
  BY <1>2 DEF PidsDe
<1>5. EnDispositivo(d, p) = Si(EnLista(p, s)) + Si(EnLista(p, respuestas_d[d]))
  <2>1. Cardinality(E) = Si(EnLista(p, s))
    BY <1>3, <1>4, UnaVez
  <2>2. Cardinality({i \in DOMAIN respuestas_d[d] : respuestas_d[d][i] = p})
          = Si(EnLista(p, respuestas_d[d]))
    BY <1>1, <1>3, UnaVez
  <2> QED
    BY <2>1, <2>2 DEF EnDispositivo
<1>6. EncargoUnico(d, p)
  BY DEF EncargosBien
<1>7. /\ EnLista(p, s) => Encargo(d, p, "pedido", d)
      /\ EnLista(p, respuestas_d[d]) => Encargo(d, p, "respuesta", d)
  BY <1>2 DEF Encargo
<1>8. CASE EnLista(p, s)
  <2>1. EnClase(d, p) /\ ~ EnLista(p, respuestas_d[d])
    BY <1>6, <1>7, <1>8 DEF EncargoUnico
  <2> QED
    BY <1>5, <1>8, <2>1 DEF Si
<1>9. CASE ~ EnLista(p, s) /\ EnLista(p, respuestas_d[d])
  <2>1. EnClase(d, p)
    BY <1>6, <1>7, <1>9 DEF EncargoUnico
  <2> QED
    BY <1>5, <1>9, <2>1 DEF Si
<1>10. CASE ~ EnLista(p, s) /\ ~ EnLista(p, respuestas_d[d])
  BY <1>5, <1>10 DEF Si
<1> QED
  BY <1>8, <1>9, <1>10

EncargosK == compactacion_en_progreso \/ EncargosBien

(* RespuestasHastaCompactar: until a compaction is announced, whatever a    *)
(* device has been asked for or has answered belongs to a process blocked   *)
(* for it, and once: no answer of io.c wakes a process that already went on.*)
THEOREM RespuestasHastaCompactar ==
  ASSUME UnCreador
  PROVE  SpecK => [](compactacion_en_progreso \/ EsperaSuDispositivo)
<1>1. InitK => EncargosK
  BY InitEncargos DEF EncargosK
<1>2. InvK /\ SitiosK /\ EncargosK /\ [NextK]_varsK => EncargosK'
  BY NextEncargos, CompactaSigue DEF EncargosK, SitiosK
<1>3. InvK /\ EncargosK => compactacion_en_progreso \/ EsperaSuDispositivo
  BY EncargosAlcanzan DEF EncargosK, InvK, TipoK
<1> QED
  BY <1>1, <1>2, <1>3, MemoriaInvariante, SitiosInvariante, PTL DEF SpecK

(* RespuestasSinCompactar: with no compaction, the whole of                 *)
(* EsperaSuDispositivo.                                                      *)
THEOREM RespuestasSinCompactar ==
  ASSUME UnCreador, MaxCompactaciones = 0
  PROVE  SpecK => []EsperaSuDispositivo
<1>1. NadieCompacta /\ (compactacion_en_progreso \/ EsperaSuDispositivo)
      => EsperaSuDispositivo
  BY Zenon DEF NadieCompacta
<1> QED
  BY <1>1, SinCompactaciones, RespuestasHastaCompactar, PTL

=============================================================================

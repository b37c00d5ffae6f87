------------------------------ MODULE Segmentos ------------------------------
(***************************************************************************)
(* Kernel Memory's allocator: the segments of every process, the list of   *)
(* holes, the count of free memory, compaction, and the memory sticks that *)
(* give the memory (kernel_memory.c).                                      *)
(*                                                                         *)
(* One thread serves the scheduler's socket, so CREAR_SEGMENTO,            *)
(* ELIMINAR_SEGMENTO and FINALIZAR_PROCESO are handled one at a time, in   *)
(* the order they were sent.  It runs beside the threads of the CPUs,      *)
(* which hand contexts out and take them back (ContextoKM has the order of *)
(* those messages), and beside the thread of a memory stick that connects. *)
(* The scheduler is any client that follows the protocol: a process has    *)
(* one request on its way at a time.                                       *)
(***************************************************************************)
EXTENDS Naturals, Sequences, FiniteSets, FiniteSetsExt

CONSTANTS
  Procesos,          \* the pids
  Ids,               \* segment ids of one process
  Tamanos,           \* sizes asked for
  Instalados,        \* the sticks connected at the start
  Nuevos,            \* limits of the sticks that connect later
  TAMANO_MAXIMO,     \* tamano_maximo of the configuration
  ESTRATEGIA,        \* ALLOCATION_STRATEGY
  MaxEntrada,        \* bound: requests waiting in the scheduler's socket
  MaxCompactaciones, \* bound: compactions
  NADA               \* no request waits for a compaction

ASSUME TamanosOK == Tamanos \subseteq Nat \ {0}
ASSUME EstrategiaOK == ESTRATEGIA \in {"BEST", "WORST"}
ASSUME FinitosOK == IsFiniteSet(Procesos) /\ IsFiniteSet(Ids)

VARIABLES
  lista_memory_sticks, capacidad_memoria_total, memoria_libre_actual,
  lista_huecos_memoria,
  lista_procesos, tabla_segmentos, proceso_actulizado, peticion_eliminacion,
  viva,                    \* FALSE once Kernel Memory dereferences NULL
  por_conectar, paso_ms,   \* the thread of the stick that connects
  esperando,               \* the CREAR_SEGMENTO that waits for the confirmation
  respuesta,               \* what the last request came to
  compactaciones,
  entrada,                 \* what the scheduler has sent and is not read
  aviso,                   \* AVISO_COMPACTACION on its way to the scheduler
  desalineado,             \* a word of the stream was taken for another
  cargados                 \* pids loaded so far

memoria == <<lista_memory_sticks, capacidad_memoria_total>>
procesos == <<lista_procesos, tabla_segmentos, proceso_actulizado, peticion_eliminacion>>
conexion == <<por_conectar, paso_ms>>
protocolo == <<entrada, aviso, desalineado>>
varsS == <<memoria, memoria_libre_actual, lista_huecos_memoria, procesos, viva, conexion,
           esperando, respuesta, compactaciones, protocolo, cargados>>

Tramo(b, n) == [base |-> b, limite |-> n]
Fin(t) == t.base + t.limite
SumaLimites(s) == FoldSet(LAMBDA i, n : s[i].limite + n, 0, DOMAIN s)

\* The sticks connected at the start follow one another, as those that
\* connect later do.
ASSUME SticksOK ==
  /\ Nuevos \in Seq(Nat) /\ Instalados \in Seq([base : Nat, limite : Nat])
  /\ \A i \in DOMAIN Instalados :
       /\ Instalados[i].base = IF i = 1 THEN 0 ELSE Fin(Instalados[i - 1])
       /\ \A j \in DOMAIN Instalados : i < j => Fin(Instalados[i]) <= Instalados[j].base

Init ==
  /\ lista_memory_sticks = Instalados
  /\ capacidad_memoria_total = SumaLimites(lista_memory_sticks)
  /\ memoria_libre_actual = capacidad_memoria_total
  /\ lista_huecos_memoria = lista_memory_sticks
  /\ lista_procesos = {} /\ cargados = {} /\ tabla_segmentos = [p \in Procesos |-> <<>>]
  /\ proceso_actulizado = [p \in Procesos |-> FALSE]
  /\ peticion_eliminacion = [p \in Procesos |-> FALSE]
  /\ viva = TRUE /\ por_conectar = Nuevos /\ paso_ms = "contar"
  /\ esperando = NADA /\ respuesta = "ninguna" /\ compactaciones = 0
  /\ entrada = <<>> /\ aviso = FALSE /\ desalineado = FALSE

-----------------------------------------------------------------------------
(* The thread of a memory stick that connects.  It holds mutex_modulos,     *)
(* which no request takes: each list and counter changes on its own.        *)

ConectarContar ==
  /\ viva /\ por_conectar # <<>> /\ paso_ms = "contar"
  /\ capacidad_memoria_total' = capacidad_memoria_total + Head(por_conectar)
  /\ memoria_libre_actual' = memoria_libre_actual + Head(por_conectar)
  /\ paso_ms' = "listar"
  /\ UNCHANGED <<lista_memory_sticks, lista_huecos_memoria, procesos, viva, por_conectar,
                 esperando, respuesta, compactaciones, protocolo, cargados>>

BaseSiguiente ==
  IF lista_memory_sticks = <<>> THEN 0 ELSE Fin(lista_memory_sticks[Len(lista_memory_sticks)])

ConectarListar ==
  /\ viva /\ paso_ms = "listar"
  /\ lista_memory_sticks' = Append(lista_memory_sticks, Tramo(BaseSiguiente, Head(por_conectar)))
  /\ paso_ms' = "hueco"
  /\ UNCHANGED <<capacidad_memoria_total, memoria_libre_actual, lista_huecos_memoria, procesos,
                 viva, por_conectar, esperando, respuesta, compactaciones, protocolo, cargados>>

ConectarHueco ==
  /\ viva /\ paso_ms = "hueco"
  /\ lista_huecos_memoria' =
       Append(lista_huecos_memoria, lista_memory_sticks[Len(lista_memory_sticks)])
  /\ paso_ms' = "contar" /\ por_conectar' = Tail(por_conectar)
  /\ UNCHANGED <<memoria, memoria_libre_actual, procesos, viva, esperando, respuesta,
                 compactaciones, protocolo, cargados>>

-----------------------------------------------------------------------------
(* The scheduler.                                                           *)

Pedido(op, p, i, n) == [op |-> op, pid |-> p, id |-> i, tam |-> n]
Confirmacion == Pedido("OK", NADA, NADA, 0)

\* A creation waits for its answer, so it is one step; it touches no segment.
CargarProceso(p) ==
  /\ viva /\ ~ desalineado /\ esperando = NADA /\ p \notin cargados
  /\ lista_procesos' = lista_procesos \cup {p} /\ cargados' = cargados \cup {p}
  /\ UNCHANGED <<memoria, memoria_libre_actual, lista_huecos_memoria, tabla_segmentos,
                 proceso_actulizado, peticion_eliminacion, viva, conexion, esperando,
                 respuesta, compactaciones, protocolo>>

PuedePedir(p) ==
  /\ p \in lista_procesos /\ ~ peticion_eliminacion[p]
  /\ \A k \in DOMAIN entrada : entrada[k].pid # p
  /\ esperando # NADA => esperando.pid # p
  /\ Len(entrada) < MaxEntrada

IdsDe(p) == {tabla_segmentos[p][k].id : k \in DOMAIN tabla_segmentos[p]}

PedidosDe(p) ==
  {Pedido("CREAR_SEGMENTO", p, i, n) : i \in Ids \ IdsDe(p), n \in Tamanos}
    \cup {Pedido("ELIMINAR_SEGMENTO", p, i, 0) : i \in Ids}
    \cup {Pedido("FINALIZAR_PROCESO", p, NADA, 0)}

Pedir(p) ==
  /\ PuedePedir(p)
  /\ \E m \in PedidosDe(p) : entrada' = Append(entrada, m)
  /\ UNCHANGED <<memoria, memoria_libre_actual, lista_huecos_memoria, procesos, viva, conexion,
                 esperando, respuesta, compactaciones, aviso, desalineado, cargados>>

\* escuchar_kernel_memory on AVISO_COMPACTACION.
ConfirmarCompactacion ==
  /\ aviso /\ aviso' = FALSE /\ entrada' = Append(entrada, Confirmacion)
  /\ UNCHANGED <<memoria, memoria_libre_actual, lista_huecos_memoria, procesos, viva, conexion,
                 esperando, respuesta, compactaciones, desalineado, cargados>>

-----------------------------------------------------------------------------
(* The contexts, as far as a finalization looks at them.                    *)

ObtenerContexto(p) ==
  /\ viva /\ p \in lista_procesos /\ ~ peticion_eliminacion[p] /\ proceso_actulizado[p]
  /\ \A k \in DOMAIN entrada : entrada[k].pid # p
  /\ proceso_actulizado' = [proceso_actulizado EXCEPT ![p] = FALSE]
  /\ UNCHANGED <<memoria, memoria_libre_actual, lista_huecos_memoria, lista_procesos,
                 tabla_segmentos, peticion_eliminacion, viva, conexion, esperando, respuesta,
                 compactaciones, protocolo, cargados>>

\* A removal that was left for later frees the process and nothing else.
ActualizarContexto(p) ==
  /\ viva /\ p \in lista_procesos /\ ~ proceso_actulizado[p]
  /\ proceso_actulizado' = [proceso_actulizado EXCEPT ![p] = TRUE]
  /\ IF peticion_eliminacion[p]
       THEN /\ lista_procesos' = lista_procesos \ {p}
            /\ tabla_segmentos' = [tabla_segmentos EXCEPT ![p] = <<>>]
       ELSE UNCHANGED <<lista_procesos, tabla_segmentos>>
  /\ UNCHANGED <<memoria, memoria_libre_actual, lista_huecos_memoria, peticion_eliminacion,
                 viva, conexion, esperando, respuesta, compactaciones, protocolo, cargados>>

-----------------------------------------------------------------------------
(* CREAR_SEGMENTO.                                                          *)

Atiende(op) ==
  /\ viva /\ ~ desalineado /\ esperando = NADA
  /\ entrada # <<>> /\ Head(entrada).op = op
  /\ entrada' = Tail(entrada)

\* Mutant: the free memory is not looked at.
RechazaSinLibre(m) == m.tam > TAMANO_MAXIMO \/ capacidad_memoria_total < m.tam

Rechaza(m) ==
  m.tam > TAMANO_MAXIMO \/ capacidad_memoria_total < m.tam \/ memoria_libre_actual < m.tam

\* The index of the hole chosen: the first of the smallest, or largest, that fit.
Elegidos(huecos, n) ==
  LET entran == {i \in DOMAIN huecos : huecos[i].limite >= n}
      Mejor(i, j) == IF ESTRATEGIA = "BEST" THEN huecos[i].limite < huecos[j].limite
                                            ELSE huecos[i].limite > huecos[j].limite
  IN {i \in entran : \A j \in entran \ {i} :
        Mejor(i, j) \/ (~ Mejor(j, i) /\ i < j)}

Sin(s, i) == SubSeq(s, 1, i - 1) \o SubSeq(s, i + 1, Len(s))

\* Mutant: the hole shrinks from the wrong end.
OcuparDelFinal(huecos, i, n) ==
  IF huecos[i].limite = n THEN Sin(huecos, i)
                          ELSE [huecos EXCEPT ![i] = Tramo(@.base, @.limite - n)]

Ocupar(huecos, i, n) ==
  IF huecos[i].limite = n THEN Sin(huecos, i)
                          ELSE [huecos EXCEPT ![i] = Tramo(@.base + n, @.limite - n)]

\* The new segment takes hole i of "huecos".
Asignar(m, tablas, huecos, i) ==
  /\ tabla_segmentos' = [tablas EXCEPT ![m.pid] =
       Append(@, [id |-> m.id, base |-> huecos[i].base, limite |-> m.tam])]
  /\ lista_huecos_memoria' = Ocupar(huecos, i, m.tam)
  /\ memoria_libre_actual' = memoria_libre_actual - m.tam

CrearRechazar ==
  /\ Atiende("CREAR_SEGMENTO") /\ Rechaza(Head(entrada))
  /\ respuesta' = "ERROR_CREACION_SEGMENTO"
  /\ UNCHANGED <<memoria, memoria_libre_actual, lista_huecos_memoria, procesos, viva, conexion,
                 esperando, compactaciones, aviso, desalineado, cargados>>

CrearEnHueco ==
  LET m == Head(entrada) IN
  /\ Atiende("CREAR_SEGMENTO") /\ ~ Rechaza(m)
  /\ \E i \in Elegidos(lista_huecos_memoria, m.tam) :
       Asignar(m, tabla_segmentos, lista_huecos_memoria, i)
  /\ respuesta' = "SEGMENTO_CREADO"
  /\ UNCHANGED <<memoria, lista_procesos, proceso_actulizado, peticion_eliminacion, viva,
                 conexion, esperando, compactaciones, aviso, desalineado, cargados>>

\* Enough memory is free but no hole is large enough.
CrearAvisar ==
  LET m == Head(entrada) IN
  /\ Atiende("CREAR_SEGMENTO") /\ ~ Rechaza(m)
  /\ Elegidos(lista_huecos_memoria, m.tam) = {} /\ compactaciones < MaxCompactaciones
  /\ esperando' = m /\ aviso' = TRUE
  /\ UNCHANGED <<memoria, memoria_libre_actual, lista_huecos_memoria, procesos, viva, conexion,
                 respuesta, compactaciones, desalineado, cargados>>

-----------------------------------------------------------------------------
(* compactacion.                                                            *)

Vivos == {v \in Procesos \X (1..Cardinality(Ids)) :
            v[1] \in lista_procesos /\ v[2] \in DOMAIN tabla_segmentos[v[1]]}
Segmento(v) == tabla_segmentos[v[1]][v[2]]

\* list_sorted by base; segments of equal base in any order.
Ordenes ==
  {o \in [1..Cardinality(Vivos) -> Vivos] :
     \A i, j \in DOMAIN o : i < j =>
       o[i] # o[j] /\ Segmento(o[i]).base <= Segmento(o[j]).base}

\* Mutant: the first segment stays where it was.
BasesSinMover(o) ==
  LET base[i \in DOMAIN o] == IF i = 1 THEN Segmento(o[1]).base
                                       ELSE base[i - 1] + Segmento(o[i - 1]).limite
  IN base

\* Each segment starts where the one before it ends.
Bases(o) ==
  LET base[i \in DOMAIN o] == IF i = 1 THEN 0 ELSE base[i - 1] + Segmento(o[i - 1]).limite
  IN base

TablasCompactas(o) ==
  LET Base(v) == Bases(o)[CHOOSE i \in DOMAIN o : o[i] = v]
  IN [p \in Procesos |-> [k \in DOMAIN tabla_segmentos[p] |->
       IF p \in lista_procesos THEN [tabla_segmentos[p][k] EXCEPT !.base = Base(<<p, k>>)]
                               ELSE tabla_segmentos[p][k]]]

MemoriaUsada == MapThenSumSet(LAMBDA v : Segmento(v).limite, Vivos)

\* buscar_ms_por_base
SticksDe(b) ==
  {i \in DOMAIN lista_memory_sticks :
     b \in lista_memory_sticks[i].base..(Fin(lista_memory_sticks[i]) - 1)}

\* The holes after the last segment, one per stick.
HuecosPorStick(b) ==
  IF Vivos = {} \/ b = capacidad_memoria_total THEN <<>>
  ELSE LET s == CHOOSE i \in SticksDe(b) : TRUE
           f == Fin(lista_memory_sticks[s])
       IN <<Tramo(b, f - b)>> \o
            (IF f = capacidad_memoria_total THEN <<>>
             ELSE SubSeq(lista_memory_sticks, s + 1, Len(lista_memory_sticks)))

\* Mutant: the hole across the sticks is not built.
SinHuecoFinal(b) == <<>>

HuecoFinal(b) ==
  IF b < capacidad_memoria_total THEN <<Tramo(b, capacidad_memoria_total - b)>> ELSE <<>>

HuecosTras(b) == HuecosPorStick(b) \o HuecoFinal(b)

\* crear_segmento goes on: whatever word comes next is taken as the
\* confirmation.  What a stream out of step is read as is not modelled.
CrearCompactar ==
  /\ viva /\ ~ desalineado /\ esperando # NADA /\ entrada # <<>>
  /\ entrada' = Tail(entrada)
  /\ desalineado' = (Head(entrada) # Confirmacion)
  /\ compactaciones' = compactaciones + 1 /\ esperando' = NADA
  /\ IF MemoriaUsada < capacidad_memoria_total /\ SticksDe(MemoriaUsada) = {}
       THEN /\ viva' = FALSE
            /\ UNCHANGED <<tabla_segmentos, lista_huecos_memoria, memoria_libre_actual, respuesta>>
       ELSE /\ UNCHANGED viva
            /\ \E o \in Ordenes :
                 LET huecos == HuecosTras(MemoriaUsada)
                     elegidos == Elegidos(huecos, esperando.tam)
                 IN IF elegidos = {}
                      THEN /\ tabla_segmentos' = TablasCompactas(o)
                           /\ lista_huecos_memoria' = huecos
                           /\ respuesta' = "SIN_HUECO" /\ UNCHANGED memoria_libre_actual
                      ELSE /\ \E i \in elegidos :
                                Asignar(esperando, TablasCompactas(o), huecos, i)
                           /\ respuesta' = "SEGMENTO_CREADO_COMPACTANDO"
  /\ UNCHANGED <<memoria, lista_procesos, proceso_actulizado, peticion_eliminacion, conexion,
                 aviso, cargados>>

-----------------------------------------------------------------------------
(* ELIMINAR_SEGMENTO and FINALIZAR_PROCESO.                                 *)

Liberado(s) == Tramo(s.base, s.limite)

\* Mutant: the free memory is not given back.
EliminarSinSumar ==
  LET m == Head(entrada) IN
  /\ Atiende("ELIMINAR_SEGMENTO")
  /\ \E k \in DOMAIN tabla_segmentos[m.pid] :
       LET s == tabla_segmentos[m.pid][k] IN
       /\ s.id = m.id
       /\ lista_huecos_memoria' = Append(lista_huecos_memoria, Liberado(s))
       /\ tabla_segmentos' = [tabla_segmentos EXCEPT ![m.pid] = Sin(@, k)]
  /\ respuesta' = "OK"
  /\ UNCHANGED <<memoria, memoria_libre_actual, lista_procesos, proceso_actulizado,
                 peticion_eliminacion, viva, conexion, esperando, compactaciones, aviso,
                 desalineado, cargados>>

EliminarSegmento ==
  LET m == Head(entrada) IN
  /\ Atiende("ELIMINAR_SEGMENTO")
  /\ \E k \in DOMAIN tabla_segmentos[m.pid] :
       LET s == tabla_segmentos[m.pid][k] IN
       /\ s.id = m.id
       /\ lista_huecos_memoria' = Append(lista_huecos_memoria, Liberado(s))
       /\ memoria_libre_actual' = memoria_libre_actual + s.limite
       /\ tabla_segmentos' = [tabla_segmentos EXCEPT ![m.pid] = Sin(@, k)]
  /\ respuesta' = "OK"
  /\ UNCHANGED <<memoria, lista_procesos, proceso_actulizado, peticion_eliminacion, viva,
                 conexion, esperando, compactaciones, aviso, desalineado, cargados>>

\* The id is not in the table: no answer.
EliminarInexistente ==
  LET m == Head(entrada) IN
  /\ Atiende("ELIMINAR_SEGMENTO") /\ m.id \notin IdsDe(m.pid)
  /\ UNCHANGED <<memoria, memoria_libre_actual, lista_huecos_memoria, procesos, viva, conexion,
                 esperando, respuesta, compactaciones, aviso, desalineado, cargados>>

\* The context comes back before the process is forgotten.
FinalizarInmediato ==
  LET p == Head(entrada).pid
      t == tabla_segmentos[p] IN
  /\ Atiende("FINALIZAR_PROCESO") /\ proceso_actulizado[p]
  /\ memoria_libre_actual' = memoria_libre_actual + SumaLimites(t)
  /\ lista_huecos_memoria' = lista_huecos_memoria \o [k \in DOMAIN t |-> Liberado(t[k])]
  /\ lista_procesos' = lista_procesos \ {p}
  /\ tabla_segmentos' = [tabla_segmentos EXCEPT ![p] = <<>>]
  /\ respuesta' = "OK"
  /\ UNCHANGED <<memoria, proceso_actulizado, peticion_eliminacion, viva, conexion, esperando,
                 compactaciones, aviso, desalineado, cargados>>

\* Mutant: the memory is counted as free while the process still has it.
DiferirSumando ==
  LET p == Head(entrada).pid IN
  /\ Atiende("FINALIZAR_PROCESO") /\ ~ proceso_actulizado[p]
  /\ peticion_eliminacion' = [peticion_eliminacion EXCEPT ![p] = TRUE]
  /\ memoria_libre_actual' = memoria_libre_actual + SumaLimites(tabla_segmentos[p])
  /\ respuesta' = "OK"
  /\ UNCHANGED <<memoria, lista_huecos_memoria, lista_procesos, tabla_segmentos,
                 proceso_actulizado, viva, conexion, esperando, compactaciones, aviso,
                 desalineado, cargados>>

FinalizarDiferido ==
  LET p == Head(entrada).pid IN
  /\ Atiende("FINALIZAR_PROCESO") /\ ~ proceso_actulizado[p]
  /\ peticion_eliminacion' = [peticion_eliminacion EXCEPT ![p] = TRUE]
  /\ respuesta' = "OK"
  /\ UNCHANGED <<memoria, memoria_libre_actual, lista_huecos_memoria, lista_procesos,
                 tabla_segmentos, proceso_actulizado, viva, conexion, esperando, compactaciones,
                 aviso, desalineado, cargados>>

-----------------------------------------------------------------------------
ConectarMs == ConectarContar \/ ConectarListar \/ ConectarHueco
CrearSegmento == CrearRechazar \/ CrearEnHueco \/ CrearAvisar \/ CrearCompactar
Eliminar == EliminarSegmento \/ EliminarInexistente
Finalizar == FinalizarInmediato \/ FinalizarDiferido

Next ==
  \/ ConectarMs \/ CrearSegmento \/ Eliminar \/ Finalizar \/ ConfirmarCompactacion
  \/ \E p \in Procesos :
       CargarProceso(p) \/ Pedir(p) \/ ObtenerContexto(p) \/ ActualizarContexto(p)

Spec == Init /\ [][Next]_varsS

-----------------------------------------------------------------------------
(* Properties.                                                              *)

Direcciones(t) == t.base..(Fin(t) - 1)
Reservado == UNION {Direcciones(Segmento(v)) : v \in Vivos}

Tramos == [base : Nat, limite : Nat]
Ops == {"CREAR_SEGMENTO", "ELIMINAR_SEGMENTO", "FINALIZAR_PROCESO", "OK"}
PedidosKs == [op : Ops, pid : Procesos \cup {NADA}, id : Ids \cup {NADA}, tam : Nat]

(* TipoSegmentos: the type of every variable; memoria_libre_actual is a     *)
(* uint32_t, so it never goes below zero.                                   *)
TipoSegmentos ==
  /\ lista_memory_sticks \in Seq(Tramos) /\ lista_huecos_memoria \in Seq(Tramos)
  /\ capacidad_memoria_total \in Nat /\ memoria_libre_actual \in Nat
  /\ lista_procesos \subseteq cargados /\ cargados \subseteq Procesos
  /\ tabla_segmentos \in [Procesos -> Seq([id : Ids, base : Nat, limite : Nat])]
  /\ proceso_actulizado \in [Procesos -> BOOLEAN]
  /\ peticion_eliminacion \in [Procesos -> BOOLEAN]
  /\ por_conectar \in Seq(Nat) /\ paso_ms \in {"contar", "listar", "hueco"}
  /\ esperando \in PedidosKs \cup {NADA} /\ entrada \in Seq(PedidosKs)
  /\ {viva, aviso, desalineado} \subseteq BOOLEAN /\ compactaciones \in Nat

(* SinSolape: until a compaction, the segments of the live processes and    *)
(* the holes share no address and stay inside the sticks: no process can    *)
(* write another's memory, and no address is given twice.                   *)
Ajenos(a, b) == Fin(a) <= b.base \/ Fin(b) <= a.base
SinSolape ==
  compactaciones = 0 =>
    /\ \A v \in Vivos :
         /\ Fin(Segmento(v)) <= BaseSiguiente
         /\ \A w \in Vivos : v # w => Ajenos(Segmento(v), Segmento(w))
         /\ \A i \in DOMAIN lista_huecos_memoria : Ajenos(Segmento(v), lista_huecos_memoria[i])
    /\ \A i \in DOMAIN lista_huecos_memoria :
         /\ Fin(lista_huecos_memoria[i]) <= BaseSiguiente
         /\ \A j \in DOMAIN lista_huecos_memoria :
              i # j => Ajenos(lista_huecos_memoria[i], lista_huecos_memoria[j])

(* LibreSonHuecos: until a compaction, the count of free memory is what the *)
(* holes add up to, so the check that rejects a request is about memory     *)
(* that can be found.                                                       *)
LibreSonHuecos ==
  compactaciones = 0 /\ paso_ms = "contar" =>
    memoria_libre_actual = SumaLimites(lista_huecos_memoria)

(* LibreNoSobra: memory that a live process holds is never counted as free, *)
(* across requests, compactions, removals and sticks.                       *)
LibreNoSobra == memoria_libre_actual + MemoriaUsada <= capacidad_memoria_total

(* CompactaBien: a compaction puts the segments of all processes one after  *)
(* another from address 0, in the order they were in, whatever overlap an   *)
(* earlier one led to; the segment it made room for overlaps none of them.  *)
CompactaBien ==
  [][compactaciones' > compactaciones /\ viva' =>
       /\ UNION {Direcciones(tabla_segmentos'[v[1]][v[2]]) : v \in Vivos} = 0..(MemoriaUsada - 1)
       /\ Cardinality(Reservado') = MemoriaUsada'
       /\ \A v, w \in Vivos :
            Segmento(v).base < Segmento(w).base =>
              tabla_segmentos'[v[1]][v[2]].base < tabla_segmentos'[w[1]][w[2]].base]_varsS

(* CompactarAlcanza: a request that the check of crear_segmento lets        *)
(* through always gets its segment: the return without an answer after a    *)
(* compaction is never taken.                                               *)
CompactarAlcanza == respuesta # "SIN_HUECO"

(* UnicoHueco: a compaction leaves one hole ("Crear el unico hueco libre    *)
(* restante luego de compactar"), which the new segment then takes from.    *)
UnicoHueco == respuesta = "SEGMENTO_CREADO_COMPACTANDO" => Len(lista_huecos_memoria) <= 1

(* EsperarConfirmacion: what crear_segmento reads before it compacts is the *)
(* scheduler's confirmation ("Esperar confirmacion").                       *)
EsperarConfirmacion == ~ desalineado

(* LiberaSusEstructuras: when every process has been removed all the memory *)
(* is free again ("LE avisamos a la memoria que termino un proceso para que *)
(* libere sus estructuras").                                                *)
LiberaSusEstructuras ==
  lista_procesos = {} => memoria_libre_actual = capacidad_memoria_total

(* HuecoConStick: compactacion finds the stick of the hole it builds        *)
(* ("Busco a que MS pertence el hueco") and does not use a NULL one.        *)
HuecoConStick == viva
=============================================================================

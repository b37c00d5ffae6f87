--------------------------- MODULE SegmentosProofs ---------------------------
(***************************************************************************)
(* What Kernel Memory's allocator keeps, in two halves.                    *)
(*                                                                         *)
(* Addresses: none is given twice before a compaction.  The segments of    *)
(* every table and the holes are looked at as one set of pieces, each      *)
(* named by its list and its position, so that two pieces of any kind are  *)
(* apart for one reason.  A step then maps each piece to the piece it      *)
(* comes from: the requests that give memory back rename pieces (Mudar),   *)
(* those that ask for it cut one in two (Partir).  SinSolape alone is not  *)
(* inductive: it speaks of the tables of live processes, while a table     *)
(* that is not theirs could come back to life, and it lets a piece reach   *)
(* into the stick whose hole the connecting thread has not added yet;      *)
(* hence every table counts, and the pieces end at Tope.                   *)
(*                                                                         *)
(* Counts: what the free memory, the holes and the segments add up to,     *)
(* across compactions.  SumaLimites and MemoriaUsada are sums over finite  *)
(* sets, Bases a recursive function; what they compute is proved first,    *)
(* from smallest counterexamples (NatMin) where one would use induction.   *)
(* CuentaInv then relates them to the queue of requests: that a request    *)
(* which waits for a compaction fits afterwards depends on every other     *)
(* thing that can happen in between.                                       *)
(***************************************************************************)
EXTENDS Segmentos, SequenceTheorems, FiniteSetTheorems, WellFoundedInduction, TLAPS

-----------------------------------------------------------------------------
(* The pieces of memory: the segments in the tables and the holes.          *)

Segs == [id : Ids, base : Nat, limite : Nat]

EsPieza(x) ==
  \/ \E p \in Procesos : \E k \in DOMAIN tabla_segmentos[p] : x = <<"seg", p, k>>
  \/ \E i \in DOMAIN lista_huecos_memoria : x = <<"hueco", NADA, i>>

Pieza(x) ==
  IF x[1] = "seg" THEN tabla_segmentos[x[2]][x[3]] ELSE lista_huecos_memoria[x[3]]

(* Where the memory in use ends: the stick that is in the list and has no   *)
(* hole yet does not count.                                                 *)
Tope ==
  IF paso_ms = "hueco" THEN lista_memory_sticks[Len(lista_memory_sticks)].base
                       ELSE BaseSiguiente

TipoPiezas ==
  /\ tabla_segmentos \in [Procesos -> Seq(Segs)]
  /\ lista_huecos_memoria \in Seq(Tramos)

Apartadas ==
  /\ \A x : EsPieza(x) => Fin(Pieza(x)) <= Tope
  /\ \A x, y : EsPieza(x) /\ EsPieza(y) /\ x # y => Ajenos(Pieza(x), Pieza(y))

(* The words of the scheduler, and the thread of the stick that connects.   *)
Ordenados ==
  {m \in PedidosKs : /\ m.op # "OK" => m.pid \in Procesos
                     /\ m.op = "CREAR_SEGMENTO" => m.id \in Ids}
TipoConexion ==
  /\ lista_memory_sticks \in Seq(Tramos) /\ por_conectar \in Seq(Nat)
  /\ paso_ms \in {"contar", "listar", "hueco"}
  /\ paso_ms # "contar" => por_conectar # <<>>
  /\ paso_ms = "hueco" => lista_memory_sticks # <<>>
TipoEntrada == entrada \in Seq(Ordenados) /\ compactaciones \in Nat

InvSegmentos ==
  TipoConexion /\ TipoEntrada /\ (compactaciones = 0 => TipoPiezas /\ Apartadas)

LEMMA PiezaTipo ==
  ASSUME TipoPiezas, NEW x, EsPieza(x)
  PROVE  Pieza(x).base \in Nat /\ Pieza(x).limite \in Nat /\ Fin(Pieza(x)) \in Nat
<1>1. Pieza(x) \in Segs \cup Tramos
  <2>1. ASSUME NEW p \in Procesos, NEW k \in DOMAIN tabla_segmentos[p], x = <<"seg", p, k>>
        PROVE  Pieza(x) \in Segs
    BY <2>1 DEF TipoPiezas, Pieza
  <2>2. ASSUME NEW i \in DOMAIN lista_huecos_memoria, x = <<"hueco", NADA, i>>
        PROVE  Pieza(x) \in Tramos
    BY <2>2 DEF TipoPiezas, Pieza
  <2> QED
    BY <2>1, <2>2 DEF EsPieza
<1>2. Pieza(x).base \in Nat /\ Pieza(x).limite \in Nat
  BY <1>1 DEF Segs, Tramos
<1> QED
  BY <1>2 DEF Fin

PiezasNaturales ==
  \A x : EsPieza(x) => /\ Pieza(x).base \in Nat /\ Pieza(x).limite \in Nat
                       /\ Fin(Pieza(x)) \in Nat

LEMMA PiezasTipo == TipoPiezas => PiezasNaturales
  BY PiezaTipo DEF PiezasNaturales

LEMMA PiezasTipoSig == TipoPiezas' => PiezasNaturales'
  BY PiezasTipo, PTL

LEMMA TopeTipo ==
  ASSUME TipoConexion
  PROVE  Tope \in Nat /\ BaseSiguiente \in Nat /\ Tope <= BaseSiguiente
<1>1. CASE lista_memory_sticks = <<>>
  BY <1>1 DEF TipoConexion, Tope, BaseSiguiente
<1>2. CASE lista_memory_sticks # <<>>
  <2> DEFINE s == lista_memory_sticks[Len(lista_memory_sticks)]
  <2>1. s \in Tramos
    BY <1>2 DEF TipoConexion
  <2>2. s.base \in Nat /\ s.limite \in Nat
    BY <2>1 DEF Tramos
  <2>3. BaseSiguiente = s.base + s.limite
    BY <1>2 DEF BaseSiguiente, Fin
  <2>4. Tope \in {s.base, BaseSiguiente}
    BY DEF Tope
  <2> HIDE DEF s
  <2> QED
    BY <2>2, <2>3, <2>4
<1> QED
  BY <1>1, <1>2

(* A step after which every piece lies inside one that was there before,    *)
(* and those that come from the same one are apart.                         *)
LEMMA Partir ==
  ASSUME TipoPiezas, Apartadas, TipoConexion, TipoPiezas', Tope' = Tope, NEW g,
         \A x : EsPieza(x)' =>
           /\ EsPieza(g[x])
           /\ Pieza(g[x]).base <= Pieza(x)'.base /\ Fin(Pieza(x)') <= Fin(Pieza(g[x])),
         \A x, y : EsPieza(x)' /\ EsPieza(y)' /\ x # y /\ g[x] = g[y] =>
           Ajenos(Pieza(x)', Pieza(y)')
  PROVE  Apartadas'
<1>1. PiezasNaturales /\ PiezasNaturales'
  BY PiezasTipo, PiezasTipoSig
<1>2. ASSUME NEW x, EsPieza(x)'
      PROVE  Fin(Pieza(x)') <= Tope'
  <2>1. Fin(Pieza(g[x])) <= Tope /\ Fin(Pieza(x)') <= Fin(Pieza(g[x]))
    BY <1>2 DEF Apartadas
  <2>2. Fin(Pieza(x)') \in Nat /\ Fin(Pieza(g[x])) \in Nat /\ Tope \in Nat
    BY <1>1, <1>2, TopeTipo DEF PiezasNaturales, Fin
  <2> QED
    BY <2>1, <2>2
<1>3. ASSUME NEW x, NEW y, EsPieza(x)', EsPieza(y)', x # y, g[x] # g[y]
      PROVE  Ajenos(Pieza(x)', Pieza(y)')
  <2> DEFINE a == Pieza(g[x])
             b == Pieza(g[y])
             c == Pieza(x)'
             d == Pieza(y)'
  <2>1. Fin(a) <= b.base \/ Fin(b) <= a.base
    BY <1>3 DEF Apartadas, Ajenos
  <2>2. a.base <= c.base /\ Fin(c) <= Fin(a) /\ b.base <= d.base /\ Fin(d) <= Fin(b)
    BY <1>3
  <2>3. /\ a.base \in Nat /\ b.base \in Nat /\ Fin(a) \in Nat /\ Fin(b) \in Nat
        /\ c.base \in Nat /\ d.base \in Nat /\ Fin(c) \in Nat /\ Fin(d) \in Nat
    BY <1>1, <1>3 DEF PiezasNaturales, Fin
  <2> HIDE DEF a, b, c, d
  <2>4. Fin(c) <= d.base \/ Fin(d) <= c.base
    BY <2>1, <2>2, <2>3
  <2> QED
    BY <2>4 DEF Ajenos, c, d
<1> QED
  BY <1>2, <1>3 DEF Apartadas

(* list_remove.                                                             *)
LEMMA SinSon ==
  ASSUME NEW S, NEW s \in Seq(S), NEW i \in DOMAIN s
  PROVE  /\ Sin(s, i) \in Seq(S) /\ Len(Sin(s, i)) = Len(s) - 1
         /\ \A j \in DOMAIN Sin(s, i) :
              /\ j < i => j \in DOMAIN s /\ Sin(s, i)[j] = s[j]
              /\ j >= i => j + 1 \in DOMAIN s /\ Sin(s, i)[j] = s[j + 1]
<1> DEFINE a == SubSeq(s, 1, i - 1)
           b == SubSeq(s, i + 1, Len(s))
<1>0. i \in Nat /\ Len(s) \in Nat /\ 1 <= i /\ i <= Len(s)
  OBVIOUS
<1>1. a \in Seq(S) /\ Len(a) = i - 1 /\ \A j \in 1 .. i - 1 : a[j] = s[j]
  BY <1>0
<1>2. b \in Seq(S) /\ Len(b) = Len(s) - i /\ \A j \in 1 .. Len(s) - i : b[j] = s[i + j]
  BY <1>0
<1>3. Sin(s, i) = a \o b
  BY DEF Sin
<1> HIDE DEF a, b
<1>4. a \o b \in Seq(S) /\ Len(a \o b) = Len(s) - 1
  BY <1>0, <1>1, <1>2
<1>5. ASSUME NEW j \in DOMAIN (a \o b), j < i
      PROVE  j \in DOMAIN s /\ (a \o b)[j] = s[j]
  <2>1. j \in 1 .. i - 1 /\ j \in DOMAIN s
    BY <1>0, <1>4, <1>5
  <2>2. (a \o b)[j] = a[j]
    <3>1. j \in 1 .. Len(a)
      BY <1>1, <2>1
    <3> QED
      BY <1>1, <1>2, <3>1
  <2> QED
    BY <1>1, <2>1, <2>2
<1>6. ASSUME NEW j \in DOMAIN (a \o b), j >= i
      PROVE  j + 1 \in DOMAIN s /\ (a \o b)[j] = s[j + 1]
  <2>1. j \in Nat /\ j - (i - 1) \in 1 .. Len(s) - i /\ j + 1 \in DOMAIN s
    BY <1>0, <1>4, <1>6
  <2>2. (a \o b)[j] = b[j - (i - 1)]
    <3>1. j \in 1 .. Len(a) + Len(b) /\ ~ (j <= Len(a))
      BY <1>0, <1>1, <1>2, <1>6, <2>1
    <3> QED
      BY <1>1, <1>2, <3>1, ConcatProperties
  <2>3. i + (j - (i - 1)) = j + 1
    BY <1>0, <2>1
  <2> QED
    BY <1>2, <2>1, <2>2, <2>3
<1> QED
  BY <1>3, <1>4, <1>5, <1>6

-----------------------------------------------------------------------------
(* The types that no compaction disturbs.                                   *)

LEMMA Atendido ==
  ASSUME TipoEntrada, NEW op \in Ops \ {"OK"}, Atiende(op)
  PROVE  /\ Head(entrada) \in Ordenados /\ Head(entrada).pid \in Procesos
         /\ op = "CREAR_SEGMENTO" => Head(entrada).id \in Ids /\ Head(entrada).tam \in Nat
         /\ entrada' \in Seq(Ordenados)
<1>1. entrada \in Seq(Ordenados) /\ entrada # <<>> /\ entrada' = Tail(entrada)
      /\ Head(entrada).op = op
  BY DEF TipoEntrada, Atiende
<1>2. Head(entrada) \in Ordenados /\ entrada' \in Seq(Ordenados)
  BY <1>1
<1> QED
  BY <1>1, <1>2 DEF Ordenados, PedidosKs

LEMMA EntradaTipo ==
  ASSUME TipoEntrada, [Next]_varsS
  PROVE  TipoEntrada' /\ (compactaciones' = compactaciones \/ compactaciones' # 0)
<1>1. CASE UNCHANGED <<protocolo, compactaciones>>
  BY <1>1 DEF protocolo, TipoEntrada
<1>2. CASE ConectarMs \/ \E p \in Procesos : CargarProceso(p) \/ ObtenerContexto(p)
                                              \/ ActualizarContexto(p)
  BY <1>1, <1>2
  DEF ConectarMs, ConectarContar, ConectarListar, ConectarHueco, CargarProceso,
      ObtenerContexto, ActualizarContexto
<1>3. ASSUME NEW p \in Procesos, Pedir(p)
      PROVE  TipoEntrada' /\ compactaciones' = compactaciones
  <2>1. PedidosDe(p) \subseteq Ordenados
    BY TamanosOK DEF PedidosDe, Pedido, Ordenados, PedidosKs, Ops
  <2>2. PICK m \in PedidosDe(p) : entrada' = Append(entrada, m)
    BY <1>3 DEF Pedir
  <2> QED
    BY <1>3, <2>1, <2>2 DEF Pedir, TipoEntrada
<1>4. CASE ConfirmarCompactacion
  <2>1. Confirmacion \in Ordenados
    BY DEF Confirmacion, Pedido, Ordenados, PedidosKs, Ops
  <2> QED
    BY <1>4, <2>1 DEF ConfirmarCompactacion, TipoEntrada
<1>5. CASE CrearRechazar \/ CrearEnHueco \/ CrearAvisar
  BY <1>5, Atendido DEF CrearRechazar, CrearEnHueco, CrearAvisar, TipoEntrada, Ops
<1>6. CASE Eliminar \/ Finalizar
  BY <1>6, Atendido
  DEF Eliminar, EliminarSegmento, EliminarInexistente, Finalizar, FinalizarInmediato,
      FinalizarDiferido, TipoEntrada, Ops
<1>7. CASE CrearCompactar
  BY <1>7 DEF CrearCompactar, TipoEntrada
<1> QED
  BY <1>1, <1>2, <1>3, <1>4, <1>5, <1>6, <1>7 DEF Next, CrearSegmento, varsS

LEMMA ConexionTipo ==
  ASSUME TipoConexion, [Next]_varsS
  PROVE  TipoConexion'
<1>0. /\ lista_memory_sticks \in Seq(Tramos) /\ por_conectar \in Seq(Nat)
  BY DEF TipoConexion
<1>1. CASE ConectarContar
  BY <1>1 DEF ConectarContar, TipoConexion
<1>2. CASE ConectarListar
  <2>1. Head(por_conectar) \in Nat
    BY <1>2 DEF ConectarListar, TipoConexion
  <2>2. Tramo(BaseSiguiente, Head(por_conectar)) \in Tramos
    BY <2>1, TopeTipo DEF Tramo, Tramos
  <2>3. /\ lista_memory_sticks' \in Seq(Tramos) /\ lista_memory_sticks' # <<>>
    BY <1>0, <1>2, <2>2 DEF ConectarListar
  <2> QED
    BY <1>2, <2>3 DEF ConectarListar, TipoConexion
<1>3. CASE ConectarHueco
  BY <1>3 DEF ConectarHueco, TipoConexion, memoria
<1>4. CASE UNCHANGED <<memoria, conexion>>
  BY <1>4 DEF memoria, conexion, TipoConexion
<1>5. CASE CrearSegmento \/ Eliminar \/ Finalizar \/ ConfirmarCompactacion
  BY <1>4, <1>5
  DEF CrearSegmento, CrearRechazar, CrearEnHueco, CrearAvisar, CrearCompactar, Eliminar,
      EliminarSegmento, EliminarInexistente, Finalizar, FinalizarInmediato,
      FinalizarDiferido, ConfirmarCompactacion
<1>6. CASE \E p \in Procesos : CargarProceso(p) \/ Pedir(p) \/ ObtenerContexto(p)
                              \/ ActualizarContexto(p)
  BY <1>4, <1>6 DEF CargarProceso, Pedir, ObtenerContexto, ActualizarContexto
<1> QED
  BY <1>1, <1>2, <1>3, <1>4, <1>5, <1>6 DEF Next, ConectarMs, varsS

-----------------------------------------------------------------------------
(* The steps that move pieces.                                              *)

Cosas == {"seg", "hueco"} \X (Procesos \cup {NADA}) \X Nat
Seg(p, k) == <<"seg", p, k>>
Hueco(i) == <<"hueco", NADA, i>>

LEMMA NombresDistintos ==
  /\ \A p, k, q, j : Seg(p, k) = Seg(q, j) <=> p = q /\ k = j
  /\ \A i, j : Hueco(i) = Hueco(j) <=> i = j
  /\ \A p, k, i : Seg(p, k) # Hueco(i)
  BY DEF Seg, Hueco

LEMMA SegOHueco ==
  ASSUME TipoPiezas, NEW x, EsPieza(x)
  PROVE  /\ x \in Cosas
         /\ \/ \E p \in Procesos : \E k \in DOMAIN tabla_segmentos[p] :
                x = Seg(p, k) /\ Pieza(x) = tabla_segmentos[p][k]
            \/ \E i \in DOMAIN lista_huecos_memoria :
                x = Hueco(i) /\ Pieza(x) = lista_huecos_memoria[i]
<1>1. ASSUME NEW p \in Procesos, NEW k \in DOMAIN tabla_segmentos[p], x = Seg(p, k)
      PROVE  x \in Cosas /\ Pieza(x) = tabla_segmentos[p][k]
  BY <1>1 DEF TipoPiezas, Pieza, Cosas, Seg
<1>2. ASSUME NEW i \in DOMAIN lista_huecos_memoria, x = Hueco(i)
      PROVE  x \in Cosas /\ Pieza(x) = lista_huecos_memoria[i]
  BY <1>2 DEF TipoPiezas, Pieza, Cosas, Hueco
<1> QED
  BY <1>1, <1>2 DEF EsPieza, Seg, Hueco

PiezasSon ==
  \A x : EsPieza(x) =>
    /\ x \in Cosas
    /\ \/ \E p \in Procesos : \E k \in DOMAIN tabla_segmentos[p] :
           x = Seg(p, k) /\ Pieza(x) = tabla_segmentos[p][k]
       \/ \E i \in DOMAIN lista_huecos_memoria :
           x = Hueco(i) /\ Pieza(x) = lista_huecos_memoria[i]

LEMMA PiezasSonTipo == TipoPiezas => PiezasSon
  BY SegOHueco DEF PiezasSon

LEMMA PiezasSonSig == TipoPiezas' => PiezasSon'
  BY PiezasSonTipo, PTL

LEMMA EsSegOHueco ==
  /\ \A p \in Procesos : \A k \in DOMAIN tabla_segmentos[p] :
       EsPieza(Seg(p, k)) /\ Pieza(Seg(p, k)) = tabla_segmentos[p][k]
  /\ \A i \in DOMAIN lista_huecos_memoria :
       EsPieza(Hueco(i)) /\ Pieza(Hueco(i)) = lista_huecos_memoria[i]
  BY DEF EsPieza, Pieza, Seg, Hueco

(* Pieces that change their name and nothing else.                          *)
LEMMA Mudar ==
  ASSUME TipoPiezas, Apartadas, TipoConexion, TipoPiezas', Tope' = Tope, NEW g,
         \A x : EsPieza(x)' =>
           /\ EsPieza(g[x])
           /\ Pieza(x)'.base = Pieza(g[x]).base /\ Pieza(x)'.limite = Pieza(g[x]).limite,
         \A x, y : EsPieza(x)' /\ EsPieza(y)' /\ x # y => g[x] # g[y]
  PROVE  Apartadas'
<1>1. PiezasNaturales
  BY PiezasTipo
<1>2. \A x : EsPieza(x)' =>
        /\ EsPieza(g[x])
        /\ Pieza(g[x]).base <= Pieza(x)'.base /\ Fin(Pieza(x)') <= Fin(Pieza(g[x]))
  <2> SUFFICES ASSUME NEW x, EsPieza(x)'
               PROVE  /\ EsPieza(g[x])
                      /\ Pieza(g[x]).base <= Pieza(x)'.base
                      /\ Fin(Pieza(x)') <= Fin(Pieza(g[x]))
    OBVIOUS
  <2>1. EsPieza(g[x]) /\ Pieza(x)'.base = Pieza(g[x]).base
    OBVIOUS
  <2>2. Fin(Pieza(x)') = Fin(Pieza(g[x]))
    BY DEF Fin
  <2>3. Pieza(g[x]).base \in Nat /\ Fin(Pieza(g[x])) \in Nat
    BY <1>1, <2>1 DEF PiezasNaturales
  <2> QED
    BY <2>1, <2>2, <2>3
<1> QED
  BY <1>2, Partir

(* Nothing moves, or a process that was removed loses its table.            *)
LEMMA SinMoverPiezas ==
  ASSUME TipoPiezas, Apartadas, TipoConexion, TipoPiezas', Tope' = Tope,
         UNCHANGED lista_huecos_memoria,
         \A p \in Procesos : tabla_segmentos'[p] = tabla_segmentos[p] \/ tabla_segmentos'[p] = <<>>
  PROVE  Apartadas'
<1> DEFINE g == [x \in Cosas |-> x]
<1>1. ASSUME NEW x, EsPieza(x)'
      PROVE  EsPieza(x) /\ g[x] = x /\ Pieza(x)' = Pieza(x)
  <2>1. x \in Cosas
    BY <1>1, PiezasSonSig DEF PiezasSon
  <2>2. CASE \E p \in Procesos : \E k \in DOMAIN tabla_segmentos'[p] :
               x = Seg(p, k) /\ Pieza(x)' = tabla_segmentos'[p][k]
    BY <2>1, <2>2, EsSegOHueco
  <2>3. CASE \E i \in DOMAIN lista_huecos_memoria' :
               x = Hueco(i) /\ Pieza(x)' = lista_huecos_memoria'[i]
    BY <2>1, <2>3, EsSegOHueco
  <2> QED
    BY <1>1, <2>2, <2>3, PiezasSonSig DEF PiezasSon
<1> HIDE DEF g
<1> QED
  BY <1>1, Mudar

(* ELIMINAR_SEGMENTO: the segment becomes the last hole.                    *)
LEMMA EliminarPiezas ==
  ASSUME TipoPiezas, Apartadas, TipoConexion, TipoPiezas', Tope' = Tope,
         NEW p \in Procesos, NEW k \in DOMAIN tabla_segmentos[p],
         lista_huecos_memoria' = Append(lista_huecos_memoria, Liberado(tabla_segmentos[p][k])),
         tabla_segmentos' = [tabla_segmentos EXCEPT ![p] = Sin(@, k)]
  PROVE  Apartadas'
<1> DEFINE h == Len(lista_huecos_memoria)
           t == tabla_segmentos[p]
           g == [x \in Cosas |-> IF x = Hueco(h + 1) THEN Seg(p, k)
                                 ELSE IF x[1] = "seg" /\ x[2] = p /\ x[3] >= k
                                        THEN Seg(p, x[3] + 1) ELSE x]
           Igual(x, y) == /\ g[x] = y /\ EsPieza(y)
                          /\ Pieza(x)'.base = Pieza(y).base
                          /\ Pieza(x)'.limite = Pieza(y).limite
<1>0. h \in Nat /\ t \in Seq(Segs) /\ k \in Nat
  BY DEF TipoPiezas
<1>1. ASSUME NEW q \in Procesos, NEW j \in DOMAIN tabla_segmentos'[q]
      PROVE  \/ q # p /\ Igual(Seg(q, j), Seg(q, j))
             \/ q = p /\ j < k /\ Igual(Seg(q, j), Seg(p, j))
             \/ q = p /\ j >= k /\ Igual(Seg(q, j), Seg(p, j + 1))
  <2>1. Seg(q, j) \in Cosas /\ Seg(q, j) # Hueco(h + 1) /\ j \in Nat
    BY <1>1 DEF Seg, Hueco, Cosas, TipoPiezas
  <2>2. Pieza(Seg(q, j))' = tabla_segmentos'[q][j]
    BY <1>1 DEF Pieza, Seg
  <2>3. CASE q # p
    <3>1. tabla_segmentos'[q] = tabla_segmentos[q]
      BY <2>3 DEF TipoPiezas
    <3>2. g[Seg(q, j)] = Seg(q, j)
      BY <2>1, <2>3 DEF Seg
    <3> QED
      BY <1>1, <2>2, <2>3, <3>1, <3>2, EsSegOHueco
  <2>4. CASE q = p
    <3>1. tabla_segmentos'[q] = Sin(t, k)
      BY <2>4 DEF TipoPiezas
    <3>2. /\ j < k => j \in DOMAIN t /\ tabla_segmentos'[q][j] = t[j]
          /\ j >= k => j + 1 \in DOMAIN t /\ tabla_segmentos'[q][j] = t[j + 1]
      <4>1. k \in DOMAIN t /\ j \in DOMAIN Sin(t, k)
        BY <1>1, <2>4, <3>1
      <4>2. /\ j < k => j \in DOMAIN t /\ Sin(t, k)[j] = t[j]
            /\ j >= k => j + 1 \in DOMAIN t /\ Sin(t, k)[j] = t[j + 1]
        BY <1>0, <4>1, SinSon
      <4> QED
        BY <3>1, <4>2
    <3>3. /\ j < k => g[Seg(q, j)] = Seg(p, j)
          /\ j >= k => g[Seg(q, j)] = Seg(p, j + 1)
      BY <1>0, <2>1, <2>4 DEF Seg
    <3>4. j < k \/ j >= k
      BY <1>0, <2>1
    <3> QED
      BY <2>2, <2>4, <3>2, <3>3, <3>4, EsSegOHueco
  <2> QED
    BY <2>3, <2>4
<1>2. ASSUME NEW i \in DOMAIN lista_huecos_memoria'
      PROVE  \/ i # h + 1 /\ Igual(Hueco(i), Hueco(i))
             \/ i = h + 1 /\ Igual(Hueco(i), Seg(p, k))
  <2>1. Hueco(i) \in Cosas /\ i \in 1 .. h + 1
    BY <1>0, <1>2 DEF Hueco, Cosas, TipoPiezas
  <2>2. Pieza(Hueco(i))' = lista_huecos_memoria'[i]
    BY <1>2 DEF Pieza, Hueco
  <2>3. CASE i # h + 1
    <3>1. i \in DOMAIN lista_huecos_memoria /\ lista_huecos_memoria'[i] = lista_huecos_memoria[i]
      BY <1>0, <2>1, <2>3 DEF TipoPiezas
    <3>2. g[Hueco(i)] = Hueco(i)
      BY <2>1, <2>3 DEF Hueco
    <3> QED
      BY <2>2, <2>3, <3>1, <3>2, EsSegOHueco
  <2>4. CASE i = h + 1
    <3>1. lista_huecos_memoria'[i] = Liberado(t[k])
      BY <1>0, <2>4 DEF TipoPiezas
    <3>2. g[Hueco(i)] = Seg(p, k)
      BY <2>1, <2>4
    <3> QED
      BY <2>2, <2>4, <3>1, <3>2, EsSegOHueco DEF Liberado, Tramo
  <2> QED
    BY <2>3, <2>4
<1>3. ASSUME NEW x, EsPieza(x)'
      PROVE  /\ Igual(x, g[x])
             /\ \/ \E q \in Procesos, j \in Nat :
                      /\ x = Seg(q, j)
                      /\ \/ q # p /\ g[x] = Seg(q, j)
                         \/ q = p /\ j < k /\ g[x] = Seg(p, j)
                         \/ q = p /\ j >= k /\ g[x] = Seg(p, j + 1)
                \/ \E i \in Nat :
                      /\ x = Hueco(i)
                      /\ g[x] = IF i = h + 1 THEN Seg(p, k) ELSE Hueco(i)
  <2> HIDE DEF g, h
  <2>1. ASSUME NEW q \in Procesos, NEW j \in DOMAIN tabla_segmentos'[q], x = Seg(q, j)
        PROVE  j \in Nat
    BY <2>1 DEF TipoPiezas
  <2>2. ASSUME NEW i \in DOMAIN lista_huecos_memoria', x = Hueco(i)
        PROVE  i \in Nat
    BY <2>2 DEF TipoPiezas
  <2> QED
    BY <1>1, <1>2, <1>3, <2>1, <2>2, PiezasSonSig DEF PiezasSon
<1> HIDE DEF g, h
<1>4. ASSUME NEW x, NEW y, EsPieza(x)', EsPieza(y)', x # y
      PROVE  g[x] # g[y]
  BY <1>0, <1>3, <1>4, NombresDistintos
<1> QED
  BY <1>3, <1>4, Mudar

LEMMA TodosLiberados ==
  ASSUME NEW t \in Seq(Segs), NEW n, n = [k \in DOMAIN t |-> Liberado(t[k])]
  PROVE  /\ n \in Seq(Tramos) /\ Len(n) = Len(t)
         /\ \A k \in 1 .. Len(t) : n[k] = Liberado(t[k])
<1>1. ASSUME NEW k \in DOMAIN t
      PROVE  Liberado(t[k]) \in Tramos
  <2>1. t[k] \in Segs
    OBVIOUS
  <2> QED
    BY <2>1 DEF Liberado, Tramo, Tramos, Segs
<1>2. DOMAIN t = 1 .. Len(t) /\ Len(t) \in Nat
  OBVIOUS
<1>3. n \in [1 .. Len(t) -> Tramos]
  BY <1>1, <1>2
<1> QED
  BY <1>2, <1>3

(* FINALIZAR_PROCESO with the context back: every segment becomes a hole.   *)
LEMMA FinalizarPiezas ==
  ASSUME TipoPiezas, Apartadas, TipoConexion, TipoPiezas', Tope' = Tope,
         NEW p \in Procesos,
         lista_huecos_memoria' = lista_huecos_memoria \o
           [k \in DOMAIN tabla_segmentos[p] |-> Liberado(tabla_segmentos[p][k])],
         tabla_segmentos' = [tabla_segmentos EXCEPT ![p] = <<>>]
  PROVE  Apartadas'
<1> DEFINE h == Len(lista_huecos_memoria)
           t == tabla_segmentos[p]
           nuevos == [k \in DOMAIN t |-> Liberado(t[k])]
           g == [x \in Cosas |-> IF x[1] = "hueco" /\ x[3] > h THEN Seg(p, x[3] - h) ELSE x]
           Igual(x, y) == /\ g[x] = y /\ EsPieza(y)
                          /\ Pieza(x)'.base = Pieza(y).base
                          /\ Pieza(x)'.limite = Pieza(y).limite
<1>0. h \in Nat /\ t \in Seq(Segs) /\ Len(t) \in Nat
  BY DEF TipoPiezas
<1>1. nuevos \in Seq(Tramos) /\ Len(nuevos) = Len(t)
  BY <1>0, TodosLiberados
<1>2. /\ \A i \in 1 .. h : lista_huecos_memoria'[i] = lista_huecos_memoria[i]
      /\ \A i \in h + 1 .. h + Len(t) : lista_huecos_memoria'[i] = Liberado(t[i - h])
      /\ Len(lista_huecos_memoria') = h + Len(t)
  <2>1. lista_huecos_memoria \in Seq(Tramos) /\ lista_huecos_memoria' = lista_huecos_memoria \o nuevos
    BY DEF TipoPiezas
  <2>2. \A k \in 1 .. Len(t) : nuevos[k] = Liberado(t[k])
    BY <1>0, TodosLiberados
  <2> HIDE DEF nuevos, t
  <2>3. /\ Len(lista_huecos_memoria') = h + Len(t)
        /\ \A i \in 1 .. h + Len(t) : lista_huecos_memoria'[i] =
              IF i <= h THEN lista_huecos_memoria[i] ELSE nuevos[i - h]
    <3> DEFINE s == lista_huecos_memoria
    <3>1. s \in Seq(Tramos) /\ h = Len(s) /\ lista_huecos_memoria' = s \o nuevos
      BY <2>1
    <3> HIDE DEF s, h
    <3>2. /\ Len(s \o nuevos) = Len(s) + Len(nuevos)
          /\ \A i \in 1 .. Len(s) + Len(nuevos) :
               (s \o nuevos)[i] = IF i <= Len(s) THEN s[i] ELSE nuevos[i - Len(s)]
      BY <1>1, <3>1, ConcatProperties
    <3> QED
      BY <1>1, <3>1, <3>2 DEF s
  <2>4. \A i \in h + 1 .. h + Len(t) : ~ (i <= h) /\ i - h \in 1 .. Len(t) /\ i \in 1 .. h + Len(t)
    BY <1>0
  <2>5. \A i \in 1 .. h : i <= h /\ i \in 1 .. h + Len(t)
    BY <1>0
  <2> QED
    BY <2>2, <2>3, <2>4, <2>5
<1>3. ASSUME NEW q \in Procesos, NEW j \in DOMAIN tabla_segmentos'[q]
      PROVE  q # p /\ j \in Nat /\ Igual(Seg(q, j), Seg(q, j))
  <2>0. q # p
    BY <1>3 DEF TipoPiezas
  <2>1. Seg(q, j) \in Cosas /\ j \in Nat
    BY <1>3 DEF Seg, Cosas, TipoPiezas
  <2>2. Pieza(Seg(q, j))' = tabla_segmentos'[q][j]
    BY <1>3 DEF Pieza, Seg
  <2>3. tabla_segmentos'[q] = tabla_segmentos[q]
    BY <2>0 DEF TipoPiezas
  <2>4. g[Seg(q, j)] = Seg(q, j)
    BY <2>1 DEF Seg
  <2> QED
    BY <1>3, <2>0, <2>1, <2>2, <2>3, <2>4, EsSegOHueco
<1>4. ASSUME NEW i \in DOMAIN lista_huecos_memoria'
      PROVE  /\ i \in Nat
             /\ \/ i <= h /\ Igual(Hueco(i), Hueco(i))
                \/ i > h /\ Igual(Hueco(i), Seg(p, i - h))
  <2>1. Hueco(i) \in Cosas /\ i \in 1 .. h + Len(t)
    BY <1>0, <1>2, <1>4 DEF Hueco, Cosas, TipoPiezas
  <2>2. Pieza(Hueco(i))' = lista_huecos_memoria'[i]
    BY <1>4 DEF Pieza, Hueco
  <2>3. CASE i <= h
    <3>1. i \in DOMAIN lista_huecos_memoria /\ lista_huecos_memoria'[i] = lista_huecos_memoria[i]
      BY <1>0, <1>2, <2>1, <2>3 DEF TipoPiezas
    <3>2. g[Hueco(i)] = Hueco(i)
      BY <1>0, <2>1, <2>3 DEF Hueco
    <3> QED
      BY <2>1, <2>2, <2>3, <3>1, <3>2, EsSegOHueco
  <2>4. CASE i > h
    <3>1. i - h \in DOMAIN t /\ i \in h + 1 .. h + Len(t)
      BY <1>0, <2>1, <2>4
    <3>2. lista_huecos_memoria'[i] = Liberado(t[i - h])
      BY <1>2, <3>1
    <3>3. g[Hueco(i)] = Seg(p, i - h)
      BY <2>1, <2>4 DEF Hueco
    <3> QED
      BY <2>1, <2>2, <2>4, <3>1, <3>2, <3>3, EsSegOHueco DEF Liberado, Tramo
  <2> QED
    BY <1>0, <2>1, <2>3, <2>4
<1>5. ASSUME NEW x, EsPieza(x)'
      PROVE  /\ Igual(x, g[x])
             /\ \/ \E q \in Procesos \ {p}, j \in Nat : x = Seg(q, j) /\ g[x] = x
                \/ \E i \in Nat : i <= h /\ x = Hueco(i) /\ g[x] = x
                \/ \E i \in Nat : i > h /\ x = Hueco(i) /\ g[x] = Seg(p, i - h)
  <2>1. ASSUME NEW q \in Procesos, NEW j \in DOMAIN tabla_segmentos'[q], x = Seg(q, j)
        PROVE  q # p /\ j \in Nat /\ Igual(x, x) /\ g[x] = x
    BY <1>3, <2>1
  <2>2. ASSUME NEW i \in DOMAIN lista_huecos_memoria', x = Hueco(i)
        PROVE  /\ i \in Nat
               /\ \/ i <= h /\ Igual(x, x) /\ g[x] = x
                  \/ i > h /\ Igual(x, Seg(p, i - h)) /\ g[x] = Seg(p, i - h)
    BY <1>4, <2>2
  <2> HIDE DEF g, h, Igual
  <2>3. \/ \E q \in Procesos : \E j \in DOMAIN tabla_segmentos'[q] : x = Seg(q, j)
        \/ \E i \in DOMAIN lista_huecos_memoria' : x = Hueco(i)
    BY <1>5, PiezasSonSig DEF PiezasSon
  <2> QED
    BY <2>1, <2>2, <2>3
<1> HIDE DEF g, h
<1>6. ASSUME NEW x, NEW y, EsPieza(x)', EsPieza(y)', x # y
      PROVE  g[x] # g[y]
  BY <1>0, <1>5, <1>6, NombresDistintos
<1> QED
  BY <1>5, <1>6, Mudar

(* CREAR_SEGMENTO: a hole gives its first addresses to a new segment.       *)
LEMMA CrearPiezas ==
  ASSUME TipoPiezas, Apartadas, TipoConexion, TipoPiezas', Tope' = Tope,
         NEW p \in Procesos, NEW n \in Nat, NEW d,
         NEW i \in DOMAIN lista_huecos_memoria, lista_huecos_memoria[i].limite >= n,
         lista_huecos_memoria' = Ocupar(lista_huecos_memoria, i, n),
         tabla_segmentos' = [tabla_segmentos EXCEPT ![p] =
           Append(@, [id |-> d, base |-> lista_huecos_memoria[i].base, limite |-> n])]
  PROVE  Apartadas'
<1> DEFINE hs == lista_huecos_memoria
           b == hs[i].base
           f == hs[i].base + hs[i].limite
           t == tabla_segmentos[p]
           l == Len(t) + 1
           Justo == hs[i].limite = n
           g == [x \in Cosas |-> IF x = Seg(p, l) THEN Hueco(i)
                                 ELSE IF x[1] = "hueco" /\ Justo /\ x[3] >= i
                                        THEN Hueco(x[3] + 1) ELSE x]
           Dentro(x, y) == /\ g[x] = y /\ EsPieza(y)
                           /\ Pieza(y).base <= Pieza(x)'.base
                           /\ Fin(Pieza(x)') <= Fin(Pieza(y))
<1>0. /\ hs \in Seq(Tramos) /\ t \in Seq(Segs) /\ Len(t) \in Nat /\ i \in Nat
      /\ b \in Nat /\ f \in Nat /\ hs[i].limite \in Nat
  <2>1. hs \in Seq(Tramos) /\ t \in Seq(Segs)
    BY DEF TipoPiezas
  <2>2. hs[i] \in Tramos /\ i \in Nat /\ Len(t) \in Nat
    <3> HIDE DEF hs, t
    <3>1. i \in DOMAIN hs
      BY DEF hs
    <3> QED
      BY <2>1, <3>1
  <2>3. hs[i].base \in Nat /\ hs[i].limite \in Nat
    BY <2>2 DEF Tramos
  <2> QED
    BY <2>1, <2>2, <2>3
<1>1. PiezasNaturales
  BY PiezasTipo
<1>2. ASSUME NEW x, NEW y, g[x] = y, EsPieza(y),
             Pieza(x)'.base = Pieza(y).base, Pieza(x)'.limite = Pieza(y).limite
      PROVE  Dentro(x, y)
  <2>1. Fin(Pieza(x)') = Fin(Pieza(y))
    BY <1>2 DEF Fin
  <2>2. Pieza(y).base \in Nat /\ Fin(Pieza(y)) \in Nat
    BY <1>1, <1>2 DEF PiezasNaturales
  <2> QED
    BY <1>2, <2>1, <2>2
<1>3. ASSUME NEW q \in Procesos, NEW j \in DOMAIN tabla_segmentos'[q]
      PROVE  /\ j \in Nat
             /\ \/ Seg(q, j) # Seg(p, l) /\ Dentro(Seg(q, j), Seg(q, j))
                \/ /\ Seg(q, j) = Seg(p, l) /\ Dentro(Seg(q, j), Hueco(i))
                   /\ Fin(Pieza(Seg(q, j))') = b + n
  <2>1. Seg(q, j) \in Cosas /\ j \in Nat
    BY <1>3 DEF Seg, Cosas, TipoPiezas
  <2>2. Pieza(Seg(q, j))' = tabla_segmentos'[q][j]
    BY <1>3 DEF Pieza, Seg
  <2>3. CASE Seg(q, j) # Seg(p, l)
    <3>1. j \in DOMAIN tabla_segmentos[q] /\ tabla_segmentos'[q][j] = tabla_segmentos[q][j]
      <4>1. CASE q # p
        BY <1>3, <4>1 DEF TipoPiezas
      <4>2. CASE q = p
        BY <1>0, <1>3, <2>3, <4>2, NombresDistintos DEF TipoPiezas
      <4> QED
        BY <4>1, <4>2
    <3>2. g[Seg(q, j)] = Seg(q, j)
      BY <2>1, <2>3 DEF Seg
    <3> HIDE DEF g
    <3> QED
      BY <1>2, <2>1, <2>2, <2>3, <3>1, <3>2, EsSegOHueco
  <2>4. CASE Seg(q, j) = Seg(p, l)
    <3>1. tabla_segmentos'[q][j] = [id |-> d, base |-> b, limite |-> n]
      BY <1>0, <2>4, NombresDistintos DEF TipoPiezas
    <3>2. g[Seg(q, j)] = Hueco(i)
      BY <2>1, <2>4
    <3>3. EsPieza(Hueco(i)) /\ Pieza(Hueco(i)) = hs[i]
      BY EsSegOHueco
    <3>4. Pieza(Seg(q, j))'.base = b /\ Fin(Pieza(Seg(q, j))') = b + n
      BY <2>2, <3>1 DEF Fin
    <3>5. Fin(hs[i]) = f /\ b + n <= f /\ b <= b
      BY <1>0 DEF Fin
    <3> HIDE DEF g, b, f
    <3> QED
      BY <2>1, <2>4, <3>2, <3>3, <3>4, <3>5 DEF b
  <2> QED
    BY <2>3, <2>4
<1>4. ASSUME NEW j \in DOMAIN lista_huecos_memoria'
      PROVE  /\ j \in Nat
             /\ \/ ~ Justo /\ j # i /\ Dentro(Hueco(j), Hueco(j))
                \/ ~ Justo /\ j = i /\ Dentro(Hueco(j), Hueco(i)) /\ Pieza(Hueco(j))'.base = b + n
                \/ Justo /\ j < i /\ Dentro(Hueco(j), Hueco(j))
                \/ Justo /\ j >= i /\ Dentro(Hueco(j), Hueco(j + 1))
  <2>1. Hueco(j) \in Cosas /\ j \in Nat /\ Hueco(j) # Seg(p, l)
    BY <1>4 DEF Hueco, Seg, Cosas, TipoPiezas
  <2>2. Pieza(Hueco(j))' = lista_huecos_memoria'[j]
    BY <1>4 DEF Pieza, Hueco
  <2>3. CASE Justo
    <3>1. lista_huecos_memoria' = Sin(hs, i)
      BY <2>3 DEF Ocupar
    <3>2. j \in DOMAIN Sin(hs, i)
      BY <1>4, <3>1
    <3>3. /\ j < i => j \in DOMAIN hs /\ Sin(hs, i)[j] = hs[j]
          /\ j >= i => j + 1 \in DOMAIN hs /\ Sin(hs, i)[j] = hs[j + 1]
      BY <1>0, <3>2, SinSon
    <3>4. /\ j < i => g[Hueco(j)] = Hueco(j)
          /\ j >= i => g[Hueco(j)] = Hueco(j + 1)
      BY <1>0, <2>1, <2>3 DEF Hueco
    <3>5. j < i \/ j >= i
      BY <1>0, <2>1
    <3> HIDE DEF g, Justo
    <3> QED
      BY <1>2, <2>1, <2>2, <2>3, <3>1, <3>3, <3>4, <3>5, EsSegOHueco
  <2>4. CASE ~ Justo
    <3>1. lista_huecos_memoria' = [hs EXCEPT ![i] = Tramo(hs[i].base + n, hs[i].limite - n)]
      BY <2>4 DEF Ocupar
    <3>2. j \in DOMAIN hs /\ g[Hueco(j)] = Hueco(j)
      BY <1>4, <2>1, <2>4, <3>1 DEF Hueco
    <3>3. EsPieza(Hueco(j)) /\ Pieza(Hueco(j)) = hs[j]
      BY <3>2, EsSegOHueco
    <3>4. CASE j # i
      <4>1. lista_huecos_memoria'[j] = hs[j]
        BY <3>1, <3>2, <3>4
      <4> HIDE DEF g, Justo
      <4> QED
        BY <1>2, <2>1, <2>2, <2>4, <3>2, <3>3, <3>4, <4>1
    <3>5. CASE j = i
      <4>1. lista_huecos_memoria'[j] = Tramo(b + n, hs[i].limite - n)
        BY <1>0, <3>1, <3>2, <3>5
      <4>2. Pieza(Hueco(j))'.base = b + n /\ Fin(Pieza(Hueco(j))') = (b + n) + (hs[i].limite - n)
        BY <2>2, <4>1 DEF Fin, Tramo
      <4>3. (b + n) + (hs[i].limite - n) = f /\ b <= b + n /\ f <= f /\ Fin(hs[i]) = f
        BY <1>0 DEF Fin
      <4> HIDE DEF g, Justo, b, f
      <4> QED
        BY <2>1, <2>4, <3>2, <3>3, <3>5, <4>2, <4>3 DEF b
    <3> QED
      BY <3>4, <3>5
  <2> QED
    BY <2>3, <2>4
<1>5. ASSUME NEW x, EsPieza(x)'
      PROVE  /\ Dentro(x, g[x])
             /\ \/ \E q, j : x = Seg(q, j) /\ x # Seg(p, l) /\ g[x] = x
                \/ x = Seg(p, l) /\ g[x] = Hueco(i) /\ Fin(Pieza(x)') = b + n
                \/ \E j \in Nat : ~ Justo /\ j # i /\ x = Hueco(j) /\ g[x] = Hueco(j)
                \/ ~ Justo /\ x = Hueco(i) /\ g[x] = Hueco(i) /\ Pieza(x)'.base = b + n
                \/ \E j \in Nat : Justo /\ j < i /\ x = Hueco(j) /\ g[x] = Hueco(j)
                \/ \E j \in Nat : Justo /\ j >= i /\ x = Hueco(j) /\ g[x] = Hueco(j + 1)
  <2>0. \A y : Dentro(x, y) => g[x] = y
    OBVIOUS
  <2>1. ASSUME NEW q \in Procesos, NEW j \in DOMAIN tabla_segmentos'[q], x = Seg(q, j)
        PROVE  \/ x # Seg(p, l) /\ Dentro(x, x)
               \/ x = Seg(p, l) /\ Dentro(x, Hueco(i)) /\ Fin(Pieza(x)') = b + n
    <3> HIDE DEF g, Justo, Dentro, b, l
    <3> QED
      BY <1>3, <2>1
  <2>2. ASSUME NEW j \in DOMAIN lista_huecos_memoria', x = Hueco(j)
        PROVE  /\ j \in Nat
               /\ \/ ~ Justo /\ j # i /\ Dentro(x, x)
                  \/ ~ Justo /\ j = i /\ Dentro(x, Hueco(i)) /\ Pieza(x)'.base = b + n
                  \/ Justo /\ j < i /\ Dentro(x, x)
                  \/ Justo /\ j >= i /\ Dentro(x, Hueco(j + 1))
    <3> HIDE DEF g, Justo, Dentro, b, l
    <3> QED
      BY <1>4, <2>2
  <2>3. \/ \E q \in Procesos : \E j \in DOMAIN tabla_segmentos'[q] : x = Seg(q, j)
        \/ \E j \in DOMAIN lista_huecos_memoria' : x = Hueco(j)
    BY <1>5, PiezasSonSig DEF PiezasSon
  <2> HIDE DEF g, Justo, Dentro, b, l
  <2> QED
    BY <2>0, <2>1, <2>2, <2>3
<1>6. ASSUME NEW x, NEW y, EsPieza(x)', EsPieza(y)', x # y, g[x] = g[y]
      PROVE  \/ Fin(Pieza(x)') = b + n /\ Pieza(y)'.base = b + n
             \/ Fin(Pieza(y)') = b + n /\ Pieza(x)'.base = b + n
  <2>0. ASSUME NEW z, EsPieza(z)', z # Seg(p, l), g[z] = Hueco(i)
        PROVE  Pieza(z)'.base = b + n
    <3> HIDE DEF g, Justo, b, l, Dentro
    <3> QED
      BY <1>0, <1>5, <2>0, NombresDistintos
  <2>1. \A z : EsPieza(z)' /\ z = Seg(p, l) => g[z] = Hueco(i) /\ Fin(Pieza(z)') = b + n
    <3> HIDE DEF g, Justo, b, l, Dentro
    <3> QED
      BY <1>5, NombresDistintos
  <2>2. x = Seg(p, l) \/ y = Seg(p, l)
    <3> SUFFICES ASSUME x # Seg(p, l), y # Seg(p, l)
                 PROVE  FALSE
      OBVIOUS
    <3> DEFINE EsSeg(z) == \E q, j : z = Seg(q, j) /\ g[z] = z
               Sube(z) == \E j \in Nat : Justo /\ j >= i /\ z = Hueco(j) /\ g[z] = Hueco(j + 1)
               Queda(z) == \E j \in Nat : z = Hueco(j) /\ g[z] = z /\ (Justo => j < i)
    <3>1. ASSUME NEW z, EsPieza(z)', z # Seg(p, l)
          PROVE  EsSeg(z) \/ Sube(z) \/ Queda(z)
      <4> HIDE DEF g, Justo, b, l, Dentro
      <4> QED
        BY <1>0, <1>5, <3>1
    <3> HIDE DEF g, Justo, b, l, Dentro
    <3>2. ~ EsSeg(x) \/ ~ EsSeg(y)
      BY <1>6
    <3>3. ~ EsSeg(x) \/ ~ (Sube(y) \/ Queda(y))
      BY <1>6, NombresDistintos
    <3>4. ~ EsSeg(y) \/ ~ (Sube(x) \/ Queda(x))
      BY <1>6, NombresDistintos
    <3>5. ~ (Queda(x) /\ Queda(y))
      BY <1>6
    <3>6. ~ (Sube(x) /\ Sube(y))
      <4> SUFFICES ASSUME Sube(x), Sube(y)
                   PROVE  FALSE
        OBVIOUS
      <4>1. PICK j \in Nat : x = Hueco(j) /\ g[x] = Hueco(j + 1)
        OBVIOUS
      <4>2. PICK k \in Nat : y = Hueco(k) /\ g[y] = Hueco(k + 1)
        OBVIOUS
      <4>3. j + 1 = k + 1
        BY <1>6, <4>1, <4>2, NombresDistintos
      <4>4. j = k
        BY <4>1, <4>2, <4>3
      <4> QED
        BY <1>6, <4>1, <4>2, <4>4
    <3>7. \A v, w : ~ (Sube(v) /\ Queda(w) /\ g[v] = g[w])
      <4> SUFFICES ASSUME NEW v, NEW w, Sube(v), Queda(w), g[v] = g[w]
                   PROVE  FALSE
        OBVIOUS
      <4>1. PICK j \in Nat : Justo /\ j >= i /\ g[v] = Hueco(j + 1)
        OBVIOUS
      <4>2. PICK k \in Nat : g[w] = Hueco(k) /\ (Justo => k < i)
        OBVIOUS
      <4>3. j + 1 = k
        BY <4>1, <4>2, NombresDistintos
      <4> QED
        BY <1>0, <4>1, <4>2, <4>3
    <3> HIDE DEF EsSeg, Sube, Queda
    <3> QED
      BY <1>6, <3>1, <3>2, <3>3, <3>4, <3>5, <3>6, <3>7
  <2> HIDE DEF g, Justo, b, l, Dentro
  <2> QED
    BY <1>6, <2>0, <2>1, <2>2
<1>7. \A x, y : EsPieza(x)' /\ EsPieza(y)' /\ x # y /\ g[x] = g[y] =>
                 Ajenos(Pieza(x)', Pieza(y)')
  <2>1. b + n <= b + n
    BY <1>0
  <2> HIDE DEF g, b
  <2> QED
    BY <1>6, <2>1 DEF Ajenos
<1> HIDE DEF g
<1> QED
  BY <1>5, <1>7, Partir

(* The hole of a stick that connects starts where the others end.           *)
LEMMA ConectarPiezas ==
  ASSUME TipoPiezas, Apartadas, TipoConexion, ConectarHueco
  PROVE  TipoPiezas' /\ Apartadas'
<1> DEFINE s == lista_memory_sticks[Len(lista_memory_sticks)]
           h == Len(lista_huecos_memoria)
<1>1. s \in Tramos /\ lista_memory_sticks # <<>>
  BY DEF TipoConexion, ConectarHueco
<1>2. s.base \in Nat /\ s.limite \in Nat /\ Fin(s) \in Nat
  BY <1>1 DEF Tramos, Fin
<1>3. Tope = s.base /\ Tope' = Fin(s) /\ s.base <= Fin(s)
  BY <1>1, <1>2 DEF Tope, BaseSiguiente, ConectarHueco, memoria, Fin
<1>4. lista_huecos_memoria' = Append(lista_huecos_memoria, s) /\ h \in Nat
  BY DEF ConectarHueco, TipoPiezas
<1>5. UNCHANGED tabla_segmentos
  BY DEF ConectarHueco, procesos
<1> HIDE DEF s
<1>6. TipoPiezas'
  BY <1>1, <1>4, <1>5 DEF TipoPiezas
<1>7. ASSUME NEW x, EsPieza(x)'
      PROVE  \/ x # Hueco(h + 1) /\ EsPieza(x) /\ Pieza(x)' = Pieza(x)
             \/ x = Hueco(h + 1) /\ Pieza(x)' = s
  <2>1. ASSUME NEW p \in Procesos, NEW k \in DOMAIN tabla_segmentos'[p],
               x = Seg(p, k), Pieza(x)' = tabla_segmentos'[p][k]
        PROVE  x # Hueco(h + 1) /\ EsPieza(x) /\ Pieza(x)' = Pieza(x)
    BY <1>5, <2>1, EsSegOHueco, NombresDistintos
  <2>2. ASSUME NEW i \in DOMAIN lista_huecos_memoria',
               x = Hueco(i), Pieza(x)' = lista_huecos_memoria'[i]
        PROVE  \/ x # Hueco(h + 1) /\ EsPieza(x) /\ Pieza(x)' = Pieza(x)
               \/ x = Hueco(h + 1) /\ Pieza(x)' = s
    <3>1. i \in 1 .. h + 1
      BY <1>4, <2>2 DEF TipoPiezas
    <3>2. CASE i = h + 1
      BY <1>4, <2>2, <3>2 DEF TipoPiezas
    <3>3. CASE i # h + 1
      <4>1. i \in DOMAIN lista_huecos_memoria /\ lista_huecos_memoria'[i] = lista_huecos_memoria[i]
        BY <1>4, <3>1, <3>3 DEF TipoPiezas
      <4> QED
        BY <2>2, <3>3, <4>1, EsSegOHueco, NombresDistintos
    <3> QED
      BY <3>2, <3>3
  <2> QED
    BY <1>6, <1>7, <2>1, <2>2, PiezasSonSig DEF PiezasSon
<1>8. ASSUME NEW x, EsPieza(x)', x # Hueco(h + 1)
      PROVE  /\ EsPieza(x) /\ Pieza(x)' = Pieza(x) /\ Fin(Pieza(x)) <= s.base
             /\ Fin(Pieza(x)) \in Nat
  BY <1>3, <1>7, <1>8, PiezasTipo DEF Apartadas, PiezasNaturales
<1>9. ASSUME NEW x, EsPieza(x)'
      PROVE  Fin(Pieza(x)') <= Tope'
  <2>1. CASE x = Hueco(h + 1)
    BY <1>2, <1>3, <1>7, <1>9, <2>1
  <2>2. CASE x # Hueco(h + 1)
    <3>1. Fin(Pieza(x)') = Fin(Pieza(x))
      BY <1>8, <1>9, <2>2
    <3> QED
      BY <1>2, <1>3, <1>8, <1>9, <2>2, <3>1
  <2> QED
    BY <2>1, <2>2
<1>10. ASSUME NEW x, NEW y, EsPieza(x)', EsPieza(y)', x # y
       PROVE  Ajenos(Pieza(x)', Pieza(y)')
  <2>1. CASE x = Hueco(h + 1)
    BY <1>7, <1>8, <1>10, <2>1 DEF Ajenos
  <2>2. CASE y = Hueco(h + 1)
    BY <1>7, <1>8, <1>10, <2>2 DEF Ajenos
  <2>3. CASE x # Hueco(h + 1) /\ y # Hueco(h + 1)
    BY <1>8, <1>10, <2>3 DEF Apartadas
  <2> QED
    BY <2>1, <2>2, <2>3
<1> QED
  BY <1>6, <1>9, <1>10 DEF Apartadas

(* No other step moves the end of the memory in use.                        *)
LEMMA TopeFijo ==
  ASSUME TipoConexion, [Next]_varsS, ~ ConectarHueco
  PROVE  Tope' = Tope
<1>1. CASE ConectarContar
  BY <1>1 DEF ConectarContar, Tope, BaseSiguiente
<1>2. CASE ConectarListar
  <2> DEFINE t == Tramo(BaseSiguiente, Head(por_conectar))
             s == lista_memory_sticks
  <2>1. s \in Seq(Tramos) /\ Head(por_conectar) \in Nat /\ BaseSiguiente \in Nat
    BY <1>2, TopeTipo DEF ConectarListar, TipoConexion
  <2>2. t \in Tramos
    BY <2>1 DEF Tramo, Tramos
  <2>3. s' = Append(s, t) /\ t.base = BaseSiguiente
    BY <1>2 DEF ConectarListar, Tramo
  <2>4. Tope = BaseSiguiente /\ Tope' = s'[Len(s')].base
    BY <1>2 DEF ConectarListar, Tope
  <2>5. s'[Len(s')] = t
    <3> HIDE DEF t, s
    <3> QED
      BY <2>1, <2>2, <2>3
  <2> QED
    BY <2>3, <2>4, <2>5
<1>3. CASE UNCHANGED <<memoria, conexion>>
  BY <1>3 DEF memoria, conexion, Tope, BaseSiguiente
<1>4. CASE CrearSegmento \/ Eliminar \/ Finalizar \/ ConfirmarCompactacion
  BY <1>3, <1>4
  DEF CrearSegmento, CrearRechazar, CrearEnHueco, CrearAvisar, CrearCompactar, Eliminar,
      EliminarSegmento, EliminarInexistente, Finalizar, FinalizarInmediato,
      FinalizarDiferido, ConfirmarCompactacion
<1>5. CASE \E p \in Procesos : CargarProceso(p) \/ Pedir(p) \/ ObtenerContexto(p)
                              \/ ActualizarContexto(p)
  BY <1>3, <1>5 DEF CargarProceso, Pedir, ObtenerContexto, ActualizarContexto
<1> QED
  BY <1>1, <1>2, <1>3, <1>4, <1>5 DEF Next, ConectarMs, varsS

(* What a new segment leaves of its hole is a hole.                         *)
LEMMA OcuparTipo ==
  ASSUME NEW h \in Seq(Tramos), NEW i \in DOMAIN h, NEW n \in Nat, h[i].limite >= n
  PROVE  Ocupar(h, i, n) \in Seq(Tramos)
<1>1. CASE h[i].limite = n
  BY <1>1, SinSon DEF Ocupar
<1>2. CASE h[i].limite # n
  <2>1. h[i] \in Tramos
    OBVIOUS
  <2>2. h[i].base \in Nat /\ h[i].limite \in Nat
    BY <2>1 DEF Tramos
  <2>3. Tramo(h[i].base + n, h[i].limite - n) \in Tramos
    BY <2>2 DEF Tramo, Tramos
  <2>4. Ocupar(h, i, n) = [h EXCEPT ![i] = Tramo(h[i].base + n, h[i].limite - n)]
    BY <1>2 DEF Ocupar
  <2> QED
    BY <2>3, <2>4
<1> QED
  BY <1>1, <1>2

-----------------------------------------------------------------------------
(* The steps of Next.                                                       *)

LEMMA CrearEnHuecoPiezas ==
  ASSUME TipoConexion, TipoEntrada, TipoPiezas, Apartadas, Tope' = Tope, CrearEnHueco
  PROVE  TipoPiezas' /\ Apartadas'
<1> DEFINE m == Head(entrada)
           hs == lista_huecos_memoria
<1>1. m.pid \in Procesos /\ m.id \in Ids /\ m.tam \in Nat
  BY Atendido DEF CrearEnHueco, Ops
<1>2. PICK i \in Elegidos(hs, m.tam) : Asignar(m, tabla_segmentos, hs, i)
  BY DEF CrearEnHueco
<1>3. i \in DOMAIN hs /\ hs[i].limite >= m.tam
  BY DEF Elegidos
<1>4. hs \in Seq(Tramos)
  BY DEF TipoPiezas
<1> DEFINE s == [id |-> m.id, base |-> hs[i].base, limite |-> m.tam]
<1>5. /\ tabla_segmentos' = [tabla_segmentos EXCEPT ![m.pid] = Append(@, s)]
      /\ lista_huecos_memoria' = Ocupar(hs, i, m.tam)
  BY <1>2 DEF Asignar
<1>6. s \in Segs
  <2>1. hs[i] \in Tramos
    <3> HIDE DEF hs
    <3> QED
      BY <1>3, <1>4
  <2> QED
    BY <1>1, <2>1 DEF Segs, Tramos
<1>7. lista_huecos_memoria' \in Seq(Tramos)
  BY <1>1, <1>3, <1>4, <1>5, OcuparTipo
<1>8. TipoPiezas'
  <2> HIDE DEF m, s
  <2> QED
    BY <1>1, <1>5, <1>6, <1>7 DEF TipoPiezas
<1> HIDE DEF m
<1> QED
  BY <1>1, <1>3, <1>5, <1>8, CrearPiezas

LEMMA EliminarSegmentoPiezas ==
  ASSUME TipoConexion, TipoEntrada, TipoPiezas, Apartadas, Tope' = Tope, EliminarSegmento
  PROVE  TipoPiezas' /\ Apartadas'
<1> DEFINE p == Head(entrada).pid
           t == tabla_segmentos[p]
<1>1. p \in Procesos
  BY Atendido DEF EliminarSegmento, Ops
<1>2. PICK k \in DOMAIN t :
        /\ lista_huecos_memoria' = Append(lista_huecos_memoria, Liberado(t[k]))
        /\ tabla_segmentos' = [tabla_segmentos EXCEPT ![p] = Sin(@, k)]
  BY DEF EliminarSegmento
<1> HIDE DEF p
<1>3. t \in Seq(Segs) /\ k \in DOMAIN t
  BY <1>1, <1>2 DEF TipoPiezas
<1>4. Liberado(t[k]) \in Tramos /\ Sin(t, k) \in Seq(Segs)
  <2> HIDE DEF t
  <2>1. t[k] \in Segs
    BY <1>3
  <2> QED
    BY <1>3, <2>1, SinSon DEF Liberado, Tramo, Tramos, Segs
<1>5. TipoPiezas'
  BY <1>1, <1>2, <1>4 DEF TipoPiezas
<1> QED
  BY <1>1, <1>2, <1>3, <1>5, EliminarPiezas

LEMMA FinalizarInmediatoPiezas ==
  ASSUME TipoConexion, TipoEntrada, TipoPiezas, Apartadas, Tope' = Tope, FinalizarInmediato
  PROVE  TipoPiezas' /\ Apartadas'
<1> DEFINE p == Head(entrada).pid
           t == tabla_segmentos[p]
           n == [k \in DOMAIN t |-> Liberado(t[k])]
<1>1. p \in Procesos
  BY Atendido DEF FinalizarInmediato, Ops
<1>2. /\ lista_huecos_memoria' = lista_huecos_memoria \o n
      /\ tabla_segmentos' = [tabla_segmentos EXCEPT ![p] = <<>>]
  BY DEF FinalizarInmediato
<1> HIDE DEF p
<1>3. t \in Seq(Segs)
  BY <1>1 DEF TipoPiezas
<1>4. n \in Seq(Tramos)
  BY <1>3, TodosLiberados
<1>5. TipoPiezas'
  <2> HIDE DEF n
  <2> QED
    BY <1>1, <1>2, <1>4 DEF TipoPiezas
<1> QED
  BY <1>1, <1>2, <1>5, FinalizarPiezas

LEMMA QuietosPiezas ==
  ASSUME TipoConexion, TipoPiezas, Apartadas, Tope' = Tope, UNCHANGED lista_huecos_memoria,
         \/ UNCHANGED tabla_segmentos
         \/ \E p \in Procesos : tabla_segmentos' = [tabla_segmentos EXCEPT ![p] = <<>>]
  PROVE  TipoPiezas' /\ Apartadas'
<1>1. TipoPiezas'
  <2>1. <<>> \in Seq(Segs)
    OBVIOUS
  <2>2. CASE UNCHANGED tabla_segmentos
    BY <2>2 DEF TipoPiezas
  <2>3. CASE \E p \in Procesos : tabla_segmentos' = [tabla_segmentos EXCEPT ![p] = <<>>]
    BY <2>1, <2>3 DEF TipoPiezas
  <2> QED
    BY <2>2, <2>3
<1>2. \A p \in Procesos :
        tabla_segmentos'[p] = tabla_segmentos[p] \/ tabla_segmentos'[p] = <<>>
  BY DEF TipoPiezas
<1> QED
  BY <1>1, <1>2, SinMoverPiezas

LEMMA PasoPiezas ==
  ASSUME TipoConexion, TipoEntrada, TipoPiezas, Apartadas, [Next]_varsS,
         compactaciones = 0, compactaciones' = 0
  PROVE  TipoPiezas' /\ Apartadas'
<1>1. CASE ConectarHueco
  BY <1>1, ConectarPiezas
<1>2. CASE ~ ConectarHueco
  <2>0. Tope' = Tope
    BY <1>2, TopeFijo
  <2>1. CASE CrearEnHueco
    BY <2>0, <2>1, CrearEnHuecoPiezas
  <2>2. CASE EliminarSegmento
    BY <2>0, <2>2, EliminarSegmentoPiezas
  <2>3. CASE FinalizarInmediato
    BY <2>0, <2>3, FinalizarInmediatoPiezas
  <2>4. CASE UNCHANGED <<tabla_segmentos, lista_huecos_memoria>>
    BY <2>0, <2>4, QuietosPiezas
  <2>5. ASSUME NEW p \in Procesos, ActualizarContexto(p)
        PROVE  TipoPiezas' /\ Apartadas'
    <3>1. UNCHANGED lista_huecos_memoria
      BY <2>5 DEF ActualizarContexto
    <3>2. \/ UNCHANGED tabla_segmentos
          \/ tabla_segmentos' = [tabla_segmentos EXCEPT ![p] = <<>>]
      BY <2>5 DEF ActualizarContexto
    <3> QED
      BY <2>0, <3>1, <3>2, QuietosPiezas
  <2>6. CASE ConectarContar \/ ConectarListar \/ CrearRechazar \/ CrearAvisar
             \/ EliminarInexistente \/ FinalizarDiferido \/ ConfirmarCompactacion
    BY <2>4, <2>6
    DEF ConectarContar, ConectarListar, CrearRechazar, CrearAvisar, EliminarInexistente,
        FinalizarDiferido, ConfirmarCompactacion, procesos
  <2>7. CASE \E p \in Procesos : CargarProceso(p) \/ Pedir(p) \/ ObtenerContexto(p)
    BY <2>4, <2>7 DEF CargarProceso, Pedir, ObtenerContexto, procesos
  <2>8. ~ CrearCompactar
    BY DEF CrearCompactar
  <2>9. CASE UNCHANGED varsS
    BY <2>4, <2>9 DEF varsS, procesos
  <2> QED
    BY <1>2, <2>1, <2>2, <2>3, <2>5, <2>6, <2>7, <2>8, <2>9
    DEF Next, ConectarMs, CrearSegmento, Eliminar, Finalizar
<1> QED
  BY <1>1, <1>2

LEMMA InicioSegmentos == Init => InvSegmentos
<1> SUFFICES ASSUME Init
             PROVE  InvSegmentos
  OBVIOUS
<1>1. Instalados \in Seq(Tramos)
  BY SticksOK DEF Tramos
<1>2. TipoConexion
  BY <1>1, SticksOK DEF Init, TipoConexion
<1>3. TipoEntrada
  BY DEF Init, TipoEntrada
<1>4. TipoPiezas
  BY <1>1 DEF Init, TipoPiezas
<1>5. ASSUME NEW x, EsPieza(x)
      PROVE  \E i \in DOMAIN Instalados : x = Hueco(i) /\ Pieza(x) = Instalados[i]
  <2>1. ASSUME NEW p \in Procesos
        PROVE  DOMAIN tabla_segmentos[p] = {}
    BY <2>1 DEF Init
  <2> QED
    BY <1>4, <1>5, <2>1, PiezasSonTipo DEF PiezasSon, Init
<1>6. ASSUME NEW i \in DOMAIN Instalados
      PROVE  /\ Fin(Instalados[i]) <= Tope
             /\ \A j \in DOMAIN Instalados : i # j => Ajenos(Instalados[i], Instalados[j])
  <2> DEFINE n == Len(Instalados)
  <2>1. i \in 1 .. n /\ n \in DOMAIN Instalados /\ n \in Nat
    BY <1>1, <1>6
  <2>2. Tope = Fin(Instalados[n])
    BY <1>1, <2>1 DEF Init, Tope, BaseSiguiente
  <2>3. \A j \in DOMAIN Instalados :
          /\ Instalados[j] \in Tramos /\ Instalados[j].base \in Nat
          /\ Instalados[j].limite \in Nat /\ Fin(Instalados[j]) \in Nat
          /\ Instalados[j].base <= Fin(Instalados[j])
    <3> SUFFICES ASSUME NEW j \in DOMAIN Instalados
                 PROVE  /\ Instalados[j] \in Tramos /\ Instalados[j].base \in Nat
                        /\ Instalados[j].limite \in Nat /\ Fin(Instalados[j]) \in Nat
                        /\ Instalados[j].base <= Fin(Instalados[j])
      OBVIOUS
    <3>1. Instalados[j] \in Tramos
      BY <1>1
    <3>2. Instalados[j].base \in Nat /\ Instalados[j].limite \in Nat
      BY <3>1 DEF Tramos
    <3> QED
      BY <3>1, <3>2 DEF Fin
  <2>4. Fin(Instalados[i]) <= Fin(Instalados[n])
    <3>1. CASE i = n
      BY <2>1, <2>3, <3>1
    <3>2. CASE i < n
      <4>1. Fin(Instalados[i]) <= Instalados[n].base
        BY <2>1, <3>2, SticksOK
      <4>2. /\ Fin(Instalados[i]) \in Nat /\ Instalados[n].base \in Nat
            /\ Fin(Instalados[n]) \in Nat /\ Instalados[n].base <= Fin(Instalados[n])
        BY <1>6, <2>1, <2>3
      <4> QED
        BY <4>1, <4>2
    <3> QED
      BY <2>1, <3>1, <3>2
  <2>5. ASSUME NEW j \in DOMAIN Instalados, i # j
        PROVE  Ajenos(Instalados[i], Instalados[j])
    <3>1. i < j \/ j < i
      BY <1>1, <2>1, <2>5
    <3> QED
      BY <2>5, <3>1, SticksOK DEF Ajenos
  <2> QED
    BY <2>2, <2>4, <2>5
<1>7. Apartadas
  BY <1>5, <1>6, NombresDistintos DEF Apartadas
<1> QED
  BY <1>2, <1>3, <1>4, <1>7 DEF InvSegmentos

LEMMA ApartadasSinSolape == InvSegmentos => SinSolape
<1> SUFFICES ASSUME TipoConexion, TipoPiezas, Apartadas
             PROVE  /\ \A v \in Vivos :
                         /\ Fin(Segmento(v)) <= BaseSiguiente
                         /\ \A w \in Vivos : v # w => Ajenos(Segmento(v), Segmento(w))
                         /\ \A i \in DOMAIN lista_huecos_memoria :
                              Ajenos(Segmento(v), lista_huecos_memoria[i])
                    /\ \A i \in DOMAIN lista_huecos_memoria :
                         /\ Fin(lista_huecos_memoria[i]) <= BaseSiguiente
                         /\ \A j \in DOMAIN lista_huecos_memoria :
                              i # j => Ajenos(lista_huecos_memoria[i], lista_huecos_memoria[j])
  BY DEF InvSegmentos, SinSolape
<1>1. \A x : EsPieza(x) => Fin(Pieza(x)) <= BaseSiguiente
  <2> SUFFICES ASSUME NEW x, EsPieza(x)
               PROVE  Fin(Pieza(x)) <= BaseSiguiente
    OBVIOUS
  <2>1. Fin(Pieza(x)) <= Tope /\ Fin(Pieza(x)) \in Nat
    BY PiezaTipo DEF Apartadas
  <2> QED
    BY <2>1, TopeTipo
<1>2. ASSUME NEW v \in Vivos
      PROVE  /\ EsPieza(Seg(v[1], v[2])) /\ Pieza(Seg(v[1], v[2])) = Segmento(v)
             /\ v = <<v[1], v[2]>>
  BY <1>2, EsSegOHueco DEF Vivos, Segmento
<1>3. ASSUME NEW v \in Vivos, NEW w \in Vivos, v # w
      PROVE  Ajenos(Segmento(v), Segmento(w))
  <2>1. Seg(v[1], v[2]) # Seg(w[1], w[2])
    BY <1>2, <1>3, NombresDistintos
  <2> QED
    BY <1>2, <2>1 DEF Apartadas
<1>4. ASSUME NEW v \in Vivos, NEW i \in DOMAIN lista_huecos_memoria
      PROVE  Ajenos(Segmento(v), lista_huecos_memoria[i])
  BY <1>2, NombresDistintos, EsSegOHueco DEF Apartadas
<1>5. ASSUME NEW i \in DOMAIN lista_huecos_memoria
      PROVE  /\ Fin(lista_huecos_memoria[i]) <= BaseSiguiente
             /\ \A j \in DOMAIN lista_huecos_memoria :
                  i # j => Ajenos(lista_huecos_memoria[i], lista_huecos_memoria[j])
  BY <1>1, NombresDistintos, EsSegOHueco DEF Apartadas
<1> QED
  BY <1>1, <1>2, <1>3, <1>4, <1>5

(* SegmentosAparte: whatever the sticks, the sizes and the strategy, and    *)
(* however requests, contexts and connections interleave, no address is     *)
(* given twice until a compaction (crear_segmento, eliminar_segmento,       *)
(* finalizar_proceso and the thread of a stick that connects).              *)
THEOREM SegmentosAparte == Spec => []SinSolape
<1>1. InvSegmentos /\ [Next]_varsS => InvSegmentos'
  BY EntradaTipo, ConexionTipo, PasoPiezas DEF InvSegmentos
<1> QED
  BY <1>1, InicioSegmentos, ApartadasSinSolape, PTL DEF Spec

-----------------------------------------------------------------------------
(* Sums over finite sets.                                                   *)

(* A sum over a finite set, as the folds of the community modules compute   *)
(* it: an element at a time, whichever CHOOSE gives. Acumula has the sum of *)
(* every subset.                                                            *)
Elem(t) == CHOOSE x \in t : TRUE
Paso(h, t, it) == IF t = {} THEN 0 ELSE h[Elem(t)] + it[t \ {Elem(t)}]
EsSuma(it, h, S) == it = [t \in SUBSET S |-> Paso(h, t, it)]
Acumula(h, S) == CHOOSE it : EsSuma(it, h, S)
Suma(h, S) == Acumula(h, S)[S]

(* What would be an induction is an argument by the smallest                *)
(* counterexample.                                                          *)
LEMMA NatMin ==
  ASSUME NEW T, T \subseteq Nat, T # {}
  PROVE  \E m \in T : \A n \in T : m <= n
<1>1. IsWellFoundedOn(OpToRel(<, Nat), Nat)
  BY NatLessThanWellFounded
<1>2. PICK m \in T : \A n \in T : ~ (<<n, m>> \in OpToRel(<, Nat))
  BY <1>1, WFMin
<1>3. ASSUME NEW n \in T
      PROVE  m <= n
  <2>1. ~ (<<n, m>> \in OpToRel(<, Nat)) /\ <<n, m>> \in Nat \X Nat
    BY <1>2
  <2>2. ~ (n < m)
    BY <2>1 DEF OpToRel
  <2> QED
    BY <2>2
<1> QED
  BY <1>3

(* A set of subsets of U that has a subset whenever it has those that are   *)
(* smaller has them all.                                                    *)
LEMMA PorSubconjuntos ==
  ASSUME NEW U, IsFiniteSet(U), NEW G,
         \A t \in SUBSET U : (\A r \in SUBSET t : r # t => r \in G) => t \in G
  PROVE  \A t \in SUBSET U : t \in G
<1> DEFINE T == {n \in Nat : \E t \in SUBSET U : t \notin G /\ Cardinality(t) = n}
<1> SUFFICES ASSUME NEW t0 \in SUBSET U, t0 \notin G
             PROVE  FALSE
  OBVIOUS
<1>1. \A t \in SUBSET U : IsFiniteSet(t) /\ Cardinality(t) \in Nat
  BY FS_Subset, FS_CardinalityType
<1>2. Cardinality(t0) \in T
  BY <1>1
<1>3. PICK m \in T : \A n \in T : m <= n
  <2> HIDE DEF T
  <2>1. T # {} /\ T \subseteq Nat
    BY <1>2 DEF T
  <2> QED
    BY <2>1, NatMin
<1>4. PICK t \in SUBSET U : t \notin G /\ Cardinality(t) = m
  BY <1>3
<1>5. ASSUME NEW r \in SUBSET t, r # t
      PROVE  r \in G
  <2>1. Cardinality(r) < Cardinality(t)
    BY <1>1, <1>5, FS_Subset, FS_CardinalityType
  <2>2. r \in SUBSET U /\ Cardinality(r) \in Nat /\ m \in Nat
    BY <1>1
  <2>3. ~ (Cardinality(r) \in T)
    BY <1>3, <1>4, <2>1, <2>2
  <2> QED
    BY <2>2, <2>3
<1> QED
  BY <1>4, <1>5

(* The recursive definition has one solution.                               *)
LEMMA SumaUnica ==
  ASSUME NEW h, NEW S, NEW R, IsFiniteSet(S), NEW it, NEW jt, EsSuma(it, h, S), EsSuma(jt, h, R)
  PROVE  \A t \in SUBSET (S \cap R) : it[t] = jt[t]
<1> DEFINE G == {t \in SUBSET (S \cap R) : it[t] = jt[t]}
<1>1. IsFiniteSet(S \cap R)
  BY FS_Subset, S \cap R \subseteq S
<1>2. ASSUME NEW t \in SUBSET (S \cap R), \A r \in SUBSET t : r # t => r \in G
      PROVE  t \in G
  <2>1. it[t] = Paso(h, t, it) /\ jt[t] = Paso(h, t, jt)
    BY DEF EsSuma
  <2>2. CASE t = {}
    BY <2>1, <2>2 DEF Paso
  <2>3. CASE t # {}
    <3> DEFINE r == t \ {Elem(t)}
    <3>1. Elem(t) \in t
      BY <2>3 DEF Elem
    <3>2. r \in SUBSET t /\ r # t
      BY <3>1
    <3>3. it[r] = jt[r]
      BY <1>2, <3>2
    <3> QED
      BY <2>1, <2>3, <3>3 DEF Paso
  <2> QED
    BY <2>2, <2>3
<1>3. \A t \in SUBSET (S \cap R) : t \in G
  <2> HIDE DEF G
  <2> QED
    BY <1>1, <1>2, PorSubconjuntos
<1> QED
  BY <1>3

(* ... and it has one.                                                      *)
LEMMA SumaHay ==
  ASSUME NEW h, NEW U, IsFiniteSet(U)
  PROVE  EsSuma(Acumula(h, U), h, U)
<1> DEFINE G == {t \in SUBSET U : EsSuma(Acumula(h, t), h, t)}
<1>1. ASSUME NEW t \in SUBSET U, \A r \in SUBSET t : r # t => r \in G
      PROVE  t \in G
  <2> DEFINE it == [r \in SUBSET t |-> IF r = {} THEN 0 ELSE h[Elem(r)] + Suma(h, r \ {Elem(r)})]
  <2>1. ASSUME NEW q \in SUBSET t, q # t
        PROVE  it[q] = Suma(h, q)
    <3>1. EsSuma(Acumula(h, q), h, q)
      BY <1>1, <2>1
    <3>2. Suma(h, q) = Paso(h, q, Acumula(h, q))
      BY <3>1, q \in SUBSET q DEF EsSuma, Suma
    <3>3. CASE q = {}
      BY <3>2, <3>3 DEF Paso
    <3>4. CASE q # {}
      <4> DEFINE p == q \ {Elem(q)}
      <4>1. Elem(q) \in q
        BY <3>4 DEF Elem
      <4>2. p \in SUBSET t /\ p # t /\ p \in SUBSET (p \cap q)
        BY <4>1, <2>1
      <4>3. EsSuma(Acumula(h, p), h, p)
        BY <1>1, <4>2
      <4>4. IsFiniteSet(p)
        BY FS_Subset
      <4> HIDE DEF p
      <4>5. Acumula(h, q)[p] = Acumula(h, p)[p]
        BY <3>1, <4>2, <4>3, <4>4, SumaUnica
      <4>6. Suma(h, q) = h[Elem(q)] + Acumula(h, q)[p]
        BY <3>2, <3>4 DEF Paso, p
      <4>7. it[q] = h[Elem(q)] + Suma(h, p)
        BY <3>4 DEF p
      <4> QED
        BY <4>5, <4>6, <4>7 DEF Suma
    <3> QED
      BY <3>3, <3>4
  <2>2. ASSUME NEW r \in SUBSET t
        PROVE  it[r] = Paso(h, r, it)
    <3>1. CASE r = {}
      BY <3>1 DEF Paso
    <3>2. CASE r # {}
      <4> DEFINE q == r \ {Elem(r)}
      <4>1. Elem(r) \in r
        BY <3>2 DEF Elem
      <4>2. q \in SUBSET t /\ q # t
        BY <4>1
      <4>3. it[q] = Suma(h, q)
        BY <2>1, <4>2
      <4>4. it[r] = h[Elem(r)] + Suma(h, q)
        BY <3>2
      <4> HIDE DEF it
      <4> QED
        BY <3>2, <4>3, <4>4 DEF Paso
    <3> QED
      BY <3>1, <3>2
  <2>3. EsSuma(it, h, t)
    <3>1. it = [r \in SUBSET t |-> it[r]]
      OBVIOUS
    <3> HIDE DEF it
    <3> QED
      BY <3>1, <2>2 DEF EsSuma
  <2>4. EsSuma(Acumula(h, t), h, t)
    <3> HIDE DEF it
    <3> QED
      BY <2>3 DEF Acumula
  <2> QED
    BY <2>4
<1>2. \A t \in SUBSET U : t \in G
  <2> HIDE DEF G
  <2> QED
    BY <1>1, PorSubconjuntos
<1> QED
  BY <1>2

LEMMA SumaPaso ==
  ASSUME NEW h, NEW S, IsFiniteSet(S)
  PROVE  /\ S = {} => Suma(h, S) = 0
         /\ S # {} => Elem(S) \in S /\ Suma(h, S) = h[Elem(S)] + Suma(h, S \ {Elem(S)})
<1> DEFINE r == S \ {Elem(S)}
<1>1. EsSuma(Acumula(h, S), h, S)
  BY SumaHay
<1>2. Suma(h, S) = Paso(h, S, Acumula(h, S))
  BY <1>1, S \in SUBSET S DEF EsSuma, Suma
<1>3. S # {} => Elem(S) \in S
  BY DEF Elem
<1>4. IsFiniteSet(r) /\ r \in SUBSET (r \cap S)
  BY FS_Subset
<1>5. EsSuma(Acumula(h, r), h, r)
  BY <1>4, SumaHay
<1>6. Acumula(h, S)[r] = Suma(h, r)
  <2> HIDE DEF r
  <2> QED
    BY <1>1, <1>4, <1>5, SumaUnica DEF Suma
<1> QED
  BY <1>2, <1>3, <1>6 DEF Paso

Naturales(h, S) == \A x \in S : h[x] \in Nat

LEMMA SumaTipo ==
  ASSUME NEW h, NEW S, IsFiniteSet(S), Naturales(h, S)
  PROVE  Suma(h, S) \in Nat
<1> DEFINE G == {t \in SUBSET S : Suma(h, t) \in Nat}
<1>1. ASSUME NEW t \in SUBSET S, \A r \in SUBSET t : r # t => r \in G
      PROVE  t \in G
  <2>1. IsFiniteSet(t)
    BY FS_Subset
  <2>2. CASE t = {}
    <3>1. Suma(h, t) = 0
      BY <2>1, <2>2, SumaPaso
    <3> QED
      BY <3>1
  <2>3. CASE t # {}
    <3> DEFINE r == t \ {Elem(t)}
    <3>1. Elem(t) \in t /\ Suma(h, t) = h[Elem(t)] + Suma(h, r)
      BY <2>1, <2>3, SumaPaso
    <3>2. Suma(h, r) \in Nat
      BY <1>1, <3>1
    <3>3. h[Elem(t)] \in Nat
      BY <3>1 DEF Naturales
    <3> QED
      BY <3>1, <3>2, <3>3
  <2> QED
    BY <2>2, <2>3
<1>2. \A t \in SUBSET S : t \in G
  <2> HIDE DEF G
  <2> QED
    BY <1>1, PorSubconjuntos
<1> QED
  BY <1>2

(* Any element can be taken out first, not only the one chosen.             *)
LEMMA SumaSin ==
  ASSUME NEW h, NEW S, IsFiniteSet(S), Naturales(h, S), NEW x0 \in S
  PROVE  Suma(h, S) = h[x0] + Suma(h, S \ {x0})
<1> DEFINE G == {t \in SUBSET S : \A x \in t : Suma(h, t) = h[x] + Suma(h, t \ {x})}
<1>1. ASSUME NEW t \in SUBSET S, \A r \in SUBSET t : r # t => r \in G
      PROVE  t \in G
  <2> SUFFICES ASSUME NEW x \in t
               PROVE  Suma(h, t) = h[x] + Suma(h, t \ {x})
    OBVIOUS
  <2> DEFINE e == Elem(t)
             q == t \ {e, x}
  <2>1. /\ IsFiniteSet(t) /\ IsFiniteSet(t \ {x}) /\ IsFiniteSet(q)
        /\ Naturales(h, t) /\ Naturales(h, q)
    BY FS_Subset DEF Naturales
  <2>2. e \in t /\ Suma(h, t) = h[e] + Suma(h, t \ {e})
    BY <2>1, SumaPaso
  <2>3. CASE e = x
    BY <2>2, <2>3
  <2>4. CASE e # x
    <3>1. t \ {e} \in G /\ t \ {x} \in G
      BY <1>1, <2>2
    <3>2. (t \ {e}) \ {x} = q /\ (t \ {x}) \ {e} = q
      OBVIOUS
    <3>3. Suma(h, t \ {e}) = h[x] + Suma(h, q) /\ Suma(h, t \ {x}) = h[e] + Suma(h, q)
      BY <2>2, <2>4, <3>1, <3>2
    <3>4. h[e] \in Nat /\ h[x] \in Nat /\ Suma(h, q) \in Nat
      BY <2>1, <2>2, SumaTipo DEF Naturales
    <3> HIDE DEF e, q
    <3> QED
      BY <2>2, <3>3, <3>4
  <2> QED
    BY <2>3, <2>4
<1>2. \A t \in SUBSET S : t \in G
  <2> HIDE DEF G
  <2> QED
    BY <1>1, PorSubconjuntos
<1> QED
  BY <1>2

Imagen(f, S) == {f[x] : x \in S}
Inyecta(f, S) == \A x, y \in S : f[x] = f[y] => x = y

(* A sum does not depend on how the summands are named.                     *)
LEMMA SumaRenombra ==
  ASSUME NEW h, NEW g, NEW f, NEW S, IsFiniteSet(S), Naturales(h, S), Inyecta(f, S),
         \A x \in S : g[f[x]] = h[x], IsFiniteSet(Imagen(f, S))
  PROVE  Suma(g, Imagen(f, S)) = Suma(h, S)
<1> DEFINE G == {t \in SUBSET S : Suma(g, Imagen(f, t)) = Suma(h, t)}
<1>1. ASSUME NEW t \in SUBSET S, \A r \in SUBSET t : r # t => r \in G
      PROVE  t \in G
  <2>1. IsFiniteSet(t) /\ IsFiniteSet(Imagen(f, t)) /\ Naturales(g, Imagen(f, t))
    <3>1. Imagen(f, t) \subseteq Imagen(f, S)
      BY DEF Imagen
    <3>2. Naturales(g, Imagen(f, t))
      BY DEF Naturales, Imagen
    <3> QED
      BY <3>1, <3>2, FS_Subset
  <2>2. CASE t = {}
    <3>1. Imagen(f, t) = {}
      BY <2>2 DEF Imagen
    <3> QED
      BY <2>1, <2>2, <3>1, SumaPaso
  <2>3. CASE t # {}
    <3> DEFINE e == Elem(t)
    <3>1. e \in t /\ Suma(h, t) = h[e] + Suma(h, t \ {e})
      BY <2>1, <2>3, SumaPaso
    <3>2. f[e] \in Imagen(f, t) /\ Imagen(f, t) \ {f[e]} = Imagen(f, t \ {e})
      BY <3>1 DEF Imagen, Inyecta
    <3>3. Suma(g, Imagen(f, t)) = g[f[e]] + Suma(g, Imagen(f, t \ {e}))
      <4> DEFINE I == Imagen(f, t)
                 y == f[e]
      <4>1. IsFiniteSet(I) /\ Naturales(g, I) /\ y \in I
        BY <2>1, <3>2
      <4>2. I \ {y} = Imagen(f, t \ {e})
        BY <3>2
      <4> HIDE DEF I, y
      <4>3. Suma(g, I) = g[y] + Suma(g, I \ {y})
        BY <4>1, SumaSin
      <4> QED
        BY <4>2, <4>3 DEF I, y
    <3>4. Suma(g, Imagen(f, t \ {e})) = Suma(h, t \ {e})
      BY <1>1, <3>1
    <3> QED
      BY <3>1, <3>3, <3>4
  <2> QED
    BY <2>2, <2>3
<1>2. \A t \in SUBSET S : t \in G
  <2> HIDE DEF G
  <2> QED
    BY <1>1, PorSubconjuntos
<1> QED
  BY <1>2

LEMMA SumaIgual ==
  ASSUME NEW h, NEW g, NEW S, IsFiniteSet(S), Naturales(h, S), \A x \in S : g[x] = h[x]
  PROVE  Suma(g, S) = Suma(h, S)
<1> DEFINE f == [x \in S |-> x]
<1>1. Imagen(f, S) = S /\ Inyecta(f, S) /\ \A x \in S : g[f[x]] = h[x]
  BY DEF Imagen, Inyecta
<1> HIDE DEF f
<1>2. Suma(g, Imagen(f, S)) = Suma(h, S)
  BY <1>1, SumaRenombra
<1> QED
  BY <1>1, <1>2

LEMMA SumaUnion ==
  ASSUME NEW h, NEW S, NEW T, IsFiniteSet(S), IsFiniteSet(T), S \cap T = {},
         Naturales(h, S), Naturales(h, T)
  PROVE  Suma(h, S \cup T) = Suma(h, S) + Suma(h, T)
<1> DEFINE G == {t \in SUBSET T : Suma(h, S \cup t) = Suma(h, S) + Suma(h, t)}
<1>1. ASSUME NEW t \in SUBSET T, \A r \in SUBSET t : r # t => r \in G
      PROVE  t \in G
  <2>1. IsFiniteSet(t) /\ IsFiniteSet(S \cup t) /\ Naturales(h, t) /\ Naturales(h, S \cup t)
    BY FS_Subset, FS_Union DEF Naturales
  <2>2. Suma(h, S) \in Nat
    BY SumaTipo
  <2>3. CASE t = {}
    <3>1. Suma(h, t) = 0
      BY <2>1, <2>3, SumaPaso
    <3>2. S \cup t = S
      BY <2>3
    <3> QED
      BY <2>2, <3>1, <3>2
  <2>4. CASE t # {}
    <3> DEFINE e == Elem(t)
               r == t \ {e}
    <3>1. e \in t /\ Suma(h, t) = h[e] + Suma(h, r)
      BY <2>1, <2>4, SumaPaso
    <3>2. (S \cup t) \ {e} = S \cup r /\ e \in S \cup t
      BY <3>1
    <3>3. Suma(h, S \cup t) = h[e] + Suma(h, S \cup r)
      BY <2>1, <3>2, SumaSin
    <3>4. Suma(h, S \cup r) = Suma(h, S) + Suma(h, r)
      BY <1>1, <3>1
    <3>5. IsFiniteSet(r) /\ Naturales(h, r) /\ h[e] \in Nat
      BY <2>1, <3>1, FS_Subset DEF Naturales
    <3>6. Suma(h, r) \in Nat
      BY <3>5, SumaTipo
    <3> HIDE DEF e, r
    <3> QED
      BY <2>2, <3>1, <3>3, <3>4, <3>5, <3>6
  <2> QED
    BY <2>3, <2>4
<1>2. \A t \in SUBSET T : t \in G
  <2> HIDE DEF G
  <2> QED
    BY <1>1, PorSubconjuntos
<1> QED
  BY <1>2

-----------------------------------------------------------------------------
(* The limits of a list and of the live segments, as sums.                  *)

(* SumaLimites and MemoriaUsada are such sums.                              *)
Limites(s) == [i \in DOMAIN s |-> s[i].limite]
SumaDeTramos(it, s) ==
  it = [t \in SUBSET DOMAIN s |->
          IF t = {} THEN 0
          ELSE s[CHOOSE x \in t : TRUE].limite + it[t \ {CHOOSE x \in t : TRUE}]]

LEMMA LimitesSuma ==
  ASSUME NEW s, IsFiniteSet(DOMAIN s)
  PROVE  SumaLimites(s) = Suma(Limites(s), DOMAIN s)
<1> DEFINE D == DOMAIN s
           h == Limites(s)
           J == CHOOSE it : SumaDeTramos(it, s)
<1>1. SumaLimites(s) = J[D]
  BY DEF SumaLimites, FoldSet, MapThenFoldSet, SumaDeTramos
<1>2. ASSUME NEW it
      PROVE  EsSuma(it, h, D) <=> SumaDeTramos(it, s)
  <2>1. ASSUME NEW t \in SUBSET D
        PROVE  Paso(h, t, it) =
                 IF t = {} THEN 0
                 ELSE s[CHOOSE x \in t : TRUE].limite + it[t \ {CHOOSE x \in t : TRUE}]
    <3>1. t # {} => Elem(t) \in D
      BY DEF Elem
    <3>2. t # {} => h[Elem(t)] = s[Elem(t)].limite
      BY <3>1 DEF Limites
    <3> QED
      BY <3>2 DEF Paso, Elem
  <2> QED
    BY <2>1 DEF EsSuma, SumaDeTramos
<1>3. EsSuma(Acumula(h, D), h, D)
  BY SumaHay
<1> HIDE DEF h
<1>4. SumaDeTramos(J, s)
  <2>1. \E it : SumaDeTramos(it, s)
    BY <1>2, <1>3
  <2> QED
    BY <2>1
<1>5. EsSuma(J, h, D)
  BY <1>2, <1>4
<1>6. J[D] = Acumula(h, D)[D]
  <2> HIDE DEF J
  <2> QED
    BY <1>3, <1>5, SumaUnica, D \in SUBSET (D \cap D)
<1> QED
  BY <1>1, <1>6 DEF Suma, h

(* A table has no id twice, so no more segments than there are ids: Vivos,  *)
(* which is finite, then holds them all.                                    *)
CabenTablas(T) ==
  /\ T \in [Procesos -> Seq(Segs)]
  /\ \A p \in Procesos : \A j, k \in DOMAIN T[p] : T[p][j].id = T[p][k].id => j = k

VivosDe(T, L) ==
  {v \in Procesos \X (1..Cardinality(Ids)) : v[1] \in L /\ v[2] \in DOMAIN T[v[1]]}
LimitesDe(T, L) == [v \in VivosDe(T, L) |-> T[v[1]][v[2]].limite]
UsadaDe(T, L) == Suma(LimitesDe(T, L), VivosDe(T, L))

SumaDeVivos(it) ==
  it = [t \in SUBSET Vivos |->
          IF t = {} THEN 0
          ELSE Segmento(CHOOSE x \in t : TRUE).limite + it[t \ {CHOOSE x \in t : TRUE}]]

LEMMA VivosFinitos ==
  ASSUME IsFiniteSet(Procesos), IsFiniteSet(Ids), NEW T, NEW L
  PROVE  IsFiniteSet(VivosDe(T, L))
<1>1. IsFiniteSet(1..Cardinality(Ids))
  BY FS_Interval, FS_CardinalityType
<1>2. IsFiniteSet(Procesos \X (1..Cardinality(Ids)))
  BY <1>1, FS_Product
<1>3. VivosDe(T, L) \in SUBSET (Procesos \X (1..Cardinality(Ids)))
  BY DEF VivosDe
<1> QED
  BY <1>2, <1>3, FS_Subset

(* The same of the segments of the live processes.                          *)
LEMMA UsadaSon ==
  ASSUME IsFiniteSet(Procesos), IsFiniteSet(Ids)
  PROVE  /\ Vivos = VivosDe(tabla_segmentos, lista_procesos)
         /\ MemoriaUsada = UsadaDe(tabla_segmentos, lista_procesos)
<1> DEFINE D == Vivos
           h == LimitesDe(tabla_segmentos, lista_procesos)
           J == CHOOSE it : SumaDeVivos(it)
<1>0. Vivos = VivosDe(tabla_segmentos, lista_procesos)
  BY DEF Vivos, VivosDe
<1>a. IsFiniteSet(D)
  BY <1>0, VivosFinitos
<1>1. MemoriaUsada = J[D]
  BY DEF MemoriaUsada, MapThenSumSet, MapThenFoldSet, SumaDeVivos
<1>2. ASSUME NEW it
      PROVE  EsSuma(it, h, D) <=> SumaDeVivos(it)
  <2>1. ASSUME NEW t \in SUBSET D
        PROVE  Paso(h, t, it) =
                 IF t = {} THEN 0
                 ELSE Segmento(CHOOSE x \in t : TRUE).limite + it[t \ {CHOOSE x \in t : TRUE}]
    <3>1. t # {} => Elem(t) \in D
      BY DEF Elem
    <3>2. t # {} => h[Elem(t)] = Segmento(Elem(t)).limite
      BY <1>0, <3>1 DEF LimitesDe, Segmento
    <3> QED
      BY <3>2 DEF Paso, Elem
  <2> QED
    BY <2>1 DEF EsSuma, SumaDeVivos
<1> HIDE DEF h
<1>3. EsSuma(Acumula(h, D), h, D)
  BY <1>a, SumaHay
<1>4. SumaDeVivos(J)
  <2>1. \E it : SumaDeVivos(it)
    BY <1>2, <1>3
  <2> QED
    BY <2>1
<1>5. EsSuma(J, h, D)
  BY <1>2, <1>4
<1>6. J[D] = Acumula(h, D)[D]
  <2> HIDE DEF J
  <2> QED
    BY <1>a, <1>3, <1>5, SumaUnica, D \in SUBSET (D \cap D)
<1> QED
  BY <1>0, <1>1, <1>6 DEF Suma, h, UsadaDe

(* Sums over lists: SumaLimites of an empty list, of a list without one of  *)
(* its elements, of two lists one after the other, of a list with one more, *)
(* and of a list with one changed.                                          *)
ConLimite(S) == \A x \in S : x.limite \in Nat

LEMMA TramosConLimite == ConLimite(Tramos) /\ ConLimite(Segs)
  BY DEF ConLimite, Tramos, Segs

LEMMA SumaSeq ==
  ASSUME NEW S, ConLimite(S), NEW s \in Seq(S)
  PROVE  /\ IsFiniteSet(DOMAIN s) /\ Naturales(Limites(s), DOMAIN s)
         /\ SumaLimites(s) = Suma(Limites(s), DOMAIN s) /\ SumaLimites(s) \in Nat
<1>1. IsFiniteSet(1..Len(s)) /\ DOMAIN s = 1..Len(s)
  BY FS_Interval
<1>2. Naturales(Limites(s), DOMAIN s)
  BY DEF Naturales, Limites, ConLimite
<1> QED
  BY <1>1, <1>2, LimitesSuma, SumaTipo

LEMMA SumaSeqVacia == SumaLimites(<<>>) = 0
<1>1. <<>> \in Seq(Tramos) /\ DOMAIN <<>> = {}
  OBVIOUS
<1>2. SumaLimites(<<>>) = Suma(Limites(<<>>), {}) /\ IsFiniteSet({})
  BY <1>1, TramosConLimite, SumaSeq
<1>3. Suma(Limites(<<>>), {}) = 0
  BY <1>2, SumaPaso
<1> QED
  BY <1>2, <1>3

LEMMA SumaSeqSin ==
  ASSUME NEW S, ConLimite(S), NEW s \in Seq(S), NEW i \in DOMAIN s
  PROVE  SumaLimites(s) = s[i].limite + SumaLimites(Sin(s, i))
<1> DEFINE D == DOMAIN s
           r == Sin(s, i)
           E == DOMAIN r
           f == [j \in E |-> IF j < i THEN j ELSE j + 1]
<1>1. /\ r \in Seq(S) /\ Len(r) = Len(s) - 1
      /\ \A j \in E : /\ j < i => j \in D /\ r[j] = s[j]
                      /\ j >= i => j + 1 \in D /\ r[j] = s[j + 1]
  BY SinSon
<1>2. i \in 1..Len(s) /\ Len(s) \in Nat /\ D = 1..Len(s) /\ E = 1..(Len(s) - 1)
  BY <1>1
<1>3. Imagen(f, E) = D \ {i}
  <2>1. ASSUME NEW j \in E
        PROVE  f[j] \in D \ {i}
    BY <1>2, <2>1
  <2>2. ASSUME NEW k \in D \ {i}
        PROVE  \E j \in E : f[j] = k
    <3>1. CASE k < i
      BY <1>2, <3>1
    <3>2. CASE k > i
      <4>1. k - 1 \in E /\ ~ (k - 1 < i) /\ (k - 1) + 1 = k
        BY <1>2, <3>2
      <4> QED
        BY <4>1
    <3> QED
      BY <1>2, <2>2, <3>1, <3>2
  <2> QED
    BY <2>1, <2>2 DEF Imagen
<1>4. Inyecta(f, E)
  BY <1>2 DEF Inyecta
<1>5. \A j \in E : Limites(s)[f[j]] = Limites(r)[j]
  <2> SUFFICES ASSUME NEW j \in E
               PROVE  Limites(s)[f[j]] = Limites(r)[j]
    OBVIOUS
  <2>1. f[j] \in D /\ s[f[j]] = r[j]
    BY <1>1, <1>2
  <2> HIDE DEF r, f
  <2> QED
    BY <2>1 DEF Limites
<1>6. /\ IsFiniteSet(E) /\ Naturales(Limites(r), E) /\ SumaLimites(r) = Suma(Limites(r), E)
      /\ IsFiniteSet(D) /\ Naturales(Limites(s), D) /\ SumaLimites(s) = Suma(Limites(s), D)
  BY <1>1, SumaSeq
<1>7. Suma(Limites(s), D) = Limites(s)[i] + Suma(Limites(s), D \ {i})
  BY <1>6, SumaSin
<1>8. Suma(Limites(s), D \ {i}) = Suma(Limites(r), E)
  <2> HIDE DEF f, r, E, D
  <2>1. IsFiniteSet(Imagen(f, E))
    BY <1>3, <1>6, FS_Subset
  <2>2. Suma(Limites(s), Imagen(f, E)) = Suma(Limites(r), E)
    BY <1>4, <1>5, <1>6, <2>1, SumaRenombra
  <2> QED
    BY <1>3, <2>2
<1>9. Limites(s)[i] = s[i].limite
  BY DEF Limites
<1> HIDE DEF r
<1> QED
  BY <1>6, <1>7, <1>8, <1>9 DEF r

LEMMA SumaSeqIgual ==
  ASSUME NEW S, ConLimite(S), NEW s \in Seq(S), NEW R, ConLimite(R), NEW r \in Seq(R),
         DOMAIN r = DOMAIN s, \A i \in DOMAIN s : r[i].limite = s[i].limite
  PROVE  SumaLimites(r) = SumaLimites(s)
<1>1. \A i \in DOMAIN s : Limites(r)[i] = Limites(s)[i]
  BY DEF Limites
<1>2. Suma(Limites(r), DOMAIN s) = Suma(Limites(s), DOMAIN s)
  BY <1>1, SumaSeq, SumaIgual
<1> QED
  BY <1>2, SumaSeq

LEMMA SumaSeqConcat ==
  ASSUME NEW S, ConLimite(S), NEW s \in Seq(S), NEW r \in Seq(S)
  PROVE  SumaLimites(s \o r) = SumaLimites(s) + SumaLimites(r)
<1> DEFINE c == s \o r
           n == Len(s)
           A == 1..n
           B == (n + 1)..(n + Len(r))
           f == [j \in DOMAIN r |-> n + j]
           h == Limites(c)
<1>1. /\ c \in Seq(S) /\ Len(c) = n + Len(r) /\ n \in Nat /\ Len(r) \in Nat
      /\ DOMAIN s = A /\ DOMAIN r = 1..Len(r) /\ DOMAIN c = A \cup B /\ A \cap B = {}
  <2>1. c \in Seq(S) /\ Len(c) = n + Len(r) /\ n \in Nat /\ Len(r) \in Nat
    OBVIOUS
  <2>2. DOMAIN c = 1..Len(c)
    BY <2>1
  <2>3. 1..(n + Len(r)) = A \cup B
    BY <2>1
  <2> QED
    BY <2>1, <2>2, <2>3
<1>2. \A i \in A : c[i] = s[i]
  BY <1>1, ConcatProperties
<1>3. \A j \in DOMAIN r : c[n + j] = r[j] /\ n + j \in B
  <2> SUFFICES ASSUME NEW j \in DOMAIN r
               PROVE  c[n + j] = r[j] /\ n + j \in B
    OBVIOUS
  <2>1. j \in 1..Len(r) /\ n + j \in 1..(n + Len(r)) /\ n + j > n /\ (n + j) - n = j
    BY <1>1
  <2> QED
    BY <1>1, <2>1, ConcatProperties
<1>4. /\ IsFiniteSet(DOMAIN c) /\ Naturales(h, DOMAIN c) /\ SumaLimites(c) = Suma(h, DOMAIN c)
      /\ IsFiniteSet(A) /\ Naturales(Limites(s), A) /\ SumaLimites(s) = Suma(Limites(s), A)
      /\ IsFiniteSet(DOMAIN r) /\ Naturales(Limites(r), DOMAIN r)
      /\ SumaLimites(r) = Suma(Limites(r), DOMAIN r)
  <2>1. /\ IsFiniteSet(DOMAIN c) /\ Naturales(h, DOMAIN c) /\ SumaLimites(c) = Suma(h, DOMAIN c)
    <3> HIDE DEF c
    <3> QED
      BY <1>1, SumaSeq
  <2> QED
    BY <1>1, <2>1, SumaSeq
<1>5. Naturales(h, A) /\ Naturales(h, B) /\ IsFiniteSet(B)
  <2>1. n + 1 \in Int /\ n + Len(r) \in Int
    BY <1>1
  <2>2. IsFiniteSet(B)
    BY <2>1, FS_Interval
  <2> QED
    BY <1>1, <1>4, <2>2 DEF Naturales
<1>6. Suma(h, A \cup B) = Suma(h, A) + Suma(h, B)
  <2> HIDE DEF h, A, B
  <2> QED
    BY <1>1, <1>4, <1>5, SumaUnion
<1>7. Suma(h, A) = Suma(Limites(s), A)
  <2>1. \A i \in A : h[i] = Limites(s)[i]
    BY <1>1, <1>2 DEF Limites
  <2> HIDE DEF h, A
  <2> QED
    BY <1>4, <2>1, SumaIgual
<1>8. Suma(h, B) = Suma(Limites(r), DOMAIN r)
  <2>1. Imagen(f, DOMAIN r) = B
    <3>1. ASSUME NEW k \in B
          PROVE  \E j \in DOMAIN r : f[j] = k
      <4>1. k - n \in DOMAIN r /\ n + (k - n) = k
        BY <1>1, <3>1
      <4> QED
        BY <4>1
    <3> QED
      BY <1>3, <3>1 DEF Imagen
  <2>2. Inyecta(f, DOMAIN r)
    BY <1>1 DEF Inyecta
  <2>3. \A j \in DOMAIN r : h[f[j]] = Limites(r)[j]
    <3> SUFFICES ASSUME NEW j \in DOMAIN r
                 PROVE  h[f[j]] = Limites(r)[j]
      OBVIOUS
    <3>1. f[j] \in DOMAIN c /\ c[f[j]] = r[j]
      BY <1>1, <1>3
    <3> QED
      BY <3>1 DEF Limites
  <2> HIDE DEF h, f, B
  <2> QED
    BY <1>4, <1>5, <2>1, <2>2, <2>3, SumaRenombra
<1> QED
  BY <1>1, <1>4, <1>6, <1>7, <1>8

LEMMA SumaSeqAppend ==
  ASSUME NEW S, ConLimite(S), NEW s \in Seq(S), NEW x \in S
  PROVE  SumaLimites(Append(s, x)) = SumaLimites(s) + x.limite
<1> DEFINE u == <<x>>
<1>1. u \in Seq(S) /\ Append(s, x) = s \o u
  BY AppendIsConcat
<1>2. Sin(u, 1) = <<>> /\ 1 \in DOMAIN u /\ u[1] = x
  BY DEF Sin
<1>3. SumaLimites(u) = x.limite + 0
  <2> HIDE DEF u
  <2> QED
    BY <1>1, <1>2, SumaSeqSin, SumaSeqVacia
<1>4. x.limite \in Nat
  BY DEF ConLimite
<1> HIDE DEF u
<1> QED
  BY <1>1, <1>3, <1>4, SumaSeqConcat

LEMMA SumaSeqCambia ==
  ASSUME NEW S, ConLimite(S), NEW s \in Seq(S), NEW i \in DOMAIN s, NEW x \in S
  PROVE  SumaLimites([s EXCEPT ![i] = x]) + s[i].limite = SumaLimites(s) + x.limite
<1> DEFINE r == [s EXCEPT ![i] = x]
           D == DOMAIN s
<1>1. r \in Seq(S) /\ DOMAIN r = D /\ r[i] = x /\ \A j \in D \ {i} : r[j] = s[j]
  OBVIOUS
<1> HIDE DEF r
<1>2. /\ IsFiniteSet(D) /\ Naturales(Limites(r), D) /\ SumaLimites(r) = Suma(Limites(r), D)
      /\ Naturales(Limites(s), D) /\ SumaLimites(s) = Suma(Limites(s), D)
  BY <1>1, SumaSeq
<1>3. IsFiniteSet(D \ {i}) /\ Naturales(Limites(s), D \ {i}) /\ Naturales(Limites(r), D \ {i})
  BY <1>2, FS_Subset DEF Naturales
<1>4. Suma(Limites(r), D \ {i}) = Suma(Limites(s), D \ {i})
  <2>1. \A j \in D \ {i} : Limites(r)[j] = Limites(s)[j]
    BY <1>1 DEF Limites
  <2> QED
    BY <1>3, <2>1, SumaIgual
<1>5. /\ SumaLimites(r) = Limites(r)[i] + Suma(Limites(r), D \ {i})
      /\ SumaLimites(s) = Limites(s)[i] + Suma(Limites(s), D \ {i})
  BY <1>2, SumaSin
<1>6. Limites(r)[i] = x.limite /\ Limites(s)[i] = s[i].limite
  BY <1>1 DEF Limites
<1>7. x.limite \in Nat /\ s[i].limite \in Nat /\ Suma(Limites(s), D \ {i}) \in Nat
  BY <1>3, SumaTipo DEF ConLimite
<1>8. SumaLimites(r) + s[i].limite = SumaLimites(s) + x.limite
  BY <1>4, <1>5, <1>6, <1>7
<1> QED
  BY <1>8 DEF r

LEMMA CabenIds ==
  ASSUME NEW T, CabenTablas(T), NEW p \in Procesos
  PROVE  DOMAIN T[p] \subseteq 1..Cardinality(Ids)
<1> DEFINE n == Len(T[p])
           f == [k \in 1..n |-> T[p][k].id]
<1>1. T[p] \in Seq(Segs) /\ n \in Nat /\ DOMAIN T[p] = 1..n
  BY DEF CabenTablas
<1>2. \A k \in 1..n : T[p][k].id \in Ids
  <2> SUFFICES ASSUME NEW k \in 1..n
               PROVE  T[p][k].id \in Ids
    OBVIOUS
  <2>1. T[p][k] \in Segs
    BY <1>1
  <2> QED
    BY <2>1 DEF Segs
<1>3. f \in Injection(1..n, Ids)
  BY <1>1, <1>2 DEF CabenTablas, Injection, IsInjective
<1>4. Cardinality(1..n) <= Cardinality(Ids)
  BY <1>3, FinitosOK, FS_Injection
<1>5. Cardinality(1..n) = n
  BY <1>1, FS_Interval
<1>6. Cardinality(Ids) \in Nat
  BY FinitosOK, FS_CardinalityType
<1> QED
  BY <1>1, <1>4, <1>5, <1>6

LEMMA VivosSon ==
  ASSUME NEW T, CabenTablas(T), NEW L, L \subseteq Procesos
  PROVE  \A v : v \in VivosDe(T, L) <=> \E p \in L : \E k \in DOMAIN T[p] : v = <<p, k>>
<1>1. ASSUME NEW p \in L, NEW k \in DOMAIN T[p]
      PROVE  <<p, k>> \in VivosDe(T, L)
  BY CabenIds DEF VivosDe
<1>2. ASSUME NEW v \in VivosDe(T, L)
      PROVE  \E p \in L : \E k \in DOMAIN T[p] : v = <<p, k>>
  BY DEF VivosDe
<1> QED
  BY <1>1, <1>2

LEMMA UsadaTipo ==
  ASSUME NEW T, CabenTablas(T), NEW L, L \subseteq Procesos
  PROVE  /\ IsFiniteSet(VivosDe(T, L)) /\ Naturales(LimitesDe(T, L), VivosDe(T, L))
         /\ UsadaDe(T, L) \in Nat
<1>1. IsFiniteSet(VivosDe(T, L))
  BY FinitosOK, VivosFinitos
<1>2. ASSUME NEW v \in VivosDe(T, L)
      PROVE  LimitesDe(T, L)[v] \in Nat
  <2>1. T[v[1]][v[2]] \in Segs
    BY DEF VivosDe, CabenTablas
  <2> QED
    BY <2>1 DEF LimitesDe, Segs
<1> QED
  BY <1>1, <1>2, SumaTipo DEF Naturales, UsadaDe

(* The memory in use is what each table adds up to, table by table.         *)
LEMMA UsadaPorTabla ==
  ASSUME NEW T, CabenTablas(T), NEW L, L \subseteq Procesos, NEW p \in L
  PROVE  UsadaDe(T, L) = UsadaDe(T, L \ {p}) + SumaLimites(T[p])
<1> DEFINE V == VivosDe(T, L)
           W == VivosDe(T, L \ {p})
           f == [k \in DOMAIN T[p] |-> <<p, k>>]
           I == Imagen(f, DOMAIN T[p])
           h == LimitesDe(T, L)
           K == DOMAIN T[p]
<1>1. \A v : v \in V <=> \E q \in L : \E k \in DOMAIN T[q] : v = <<q, k>>
  BY VivosSon
<1>2. \A v : v \in W <=> \E q \in L \ {p} : \E k \in DOMAIN T[q] : v = <<q, k>>
  BY VivosSon
<1>3. \A v : v \in I <=> \E k \in DOMAIN T[p] : v = <<p, k>>
  BY DEF Imagen
<1>4. V = W \cup I /\ W \cap I = {}
  <2> HIDE DEF V, W, I
  <2> QED
    BY <1>1, <1>2, <1>3
<1>5. IsFiniteSet(V) /\ Naturales(h, V) /\ IsFiniteSet(W) /\ Naturales(LimitesDe(T, L \ {p}), W)
  BY UsadaTipo
<1>6. IsFiniteSet(I) /\ Naturales(h, W) /\ Naturales(h, I)
  <2> HIDE DEF V, W, I, h
  <2> QED
    BY <1>4, <1>5, FS_Subset DEF Naturales
<1>7. UsadaDe(T, L) = Suma(h, W) + Suma(h, I)
  <2>1. UsadaDe(T, L) = Suma(h, V)
    BY DEF UsadaDe
  <2> HIDE DEF V, W, I, h
  <2> QED
    BY <1>4, <1>5, <1>6, <2>1, SumaUnion
<1>8. Suma(h, W) = UsadaDe(T, L \ {p})
  <2>1. \A v \in W : h[v] = LimitesDe(T, L \ {p})[v]
    BY <1>4 DEF LimitesDe
  <2>2. Suma(h, W) = Suma(LimitesDe(T, L \ {p}), W)
    <3> HIDE DEF W, h
    <3> QED
      BY <1>5, <2>1, SumaIgual
  <2> QED
    BY <2>2 DEF UsadaDe
<1>9. Suma(h, I) = SumaLimites(T[p])
  <2>1. T[p] \in Seq(Segs)
    BY DEF CabenTablas
  <2>2. /\ IsFiniteSet(K) /\ Naturales(Limites(T[p]), K)
        /\ SumaLimites(T[p]) = Suma(Limites(T[p]), K)
    BY <2>1, TramosConLimite, SumaSeq
  <2>3. Inyecta(f, K)
    BY DEF Inyecta
  <2>4. \A k \in K : h[f[k]] = Limites(T[p])[k]
    <3> SUFFICES ASSUME NEW k \in K
                 PROVE  h[f[k]] = Limites(T[p])[k]
      OBVIOUS
    <3>1. f[k] = <<p, k>> /\ <<p, k>> \in V
      BY <1>1
    <3>2. h[<<p, k>>] = T[p][k].limite
      BY <3>1 DEF LimitesDe
    <3> QED
      BY <3>1, <3>2 DEF Limites
  <2> HIDE DEF f, h, K
  <2>5. Suma(h, Imagen(f, K)) = Suma(Limites(T[p]), K)
    BY <1>6, <2>2, <2>3, <2>4, SumaRenombra DEF K
  <2> QED
    BY <2>2, <2>5 DEF K
<1> QED
  BY <1>7, <1>8, <1>9

(* Only the limits matter to the memory in use.                             *)
LEMMA UsadaFija ==
  ASSUME NEW T, CabenTablas(T), NEW R, CabenTablas(R), NEW L, L \subseteq Procesos,
         \A p \in L : /\ DOMAIN R[p] = DOMAIN T[p]
                      /\ \A k \in DOMAIN T[p] : R[p][k].limite = T[p][k].limite
  PROVE  UsadaDe(R, L) = UsadaDe(T, L) /\ VivosDe(R, L) = VivosDe(T, L)
<1> DEFINE V == VivosDe(T, L)
<1>1. VivosDe(R, L) = V
  <2>1. \A v : v \in VivosDe(R, L) <=> v \in V
    BY VivosSon
  <2> QED
    BY <2>1
<1>2. IsFiniteSet(V) /\ Naturales(LimitesDe(T, L), V)
  BY UsadaTipo
<1>3. \A v \in V : LimitesDe(R, L)[v] = LimitesDe(T, L)[v]
  <2> SUFFICES ASSUME NEW v \in V
               PROVE  LimitesDe(R, L)[v] = LimitesDe(T, L)[v]
    OBVIOUS
  <2>1. R[v[1]][v[2]].limite = T[v[1]][v[2]].limite
    BY DEF VivosDe
  <2> QED
    BY <1>1, <2>1 DEF LimitesDe
<1>4. Suma(LimitesDe(R, L), V) = Suma(LimitesDe(T, L), V)
  BY <1>2, <1>3, SumaIgual
<1> QED
  BY <1>1, <1>4 DEF UsadaDe

-----------------------------------------------------------------------------
(* The tables.                                                              *)

(* The tables of the processes that are not live are empty, and no segment  *)
(* has limit 0.                                                             *)
IdsEn(T, p) == {T[p][k].id : k \in DOMAIN T[p]}

TablasEn(T, L) ==
  /\ CabenTablas(T) /\ L \subseteq Procesos
  /\ \A p \in Procesos : /\ p \notin L => T[p] = <<>>
                         /\ \A k \in DOMAIN T[p] : T[p][k].limite # 0

(* What each change of a table does to the memory in use: a segment more    *)
(* (crear_segmento), one less (eliminar_segmento), a table that goes        *)
(* (finalizar_proceso) and an empty one that comes (CREAR_PROCESO).         *)
LEMMA AgregaSegmento ==
  ASSUME NEW T, NEW L, TablasEn(T, L), NEW p \in L, NEW s \in Segs, s.limite # 0,
         s.id \notin IdsEn(T, p), NEW R, R = [T EXCEPT ![p] = Append(@, s)]
  PROVE  /\ TablasEn(R, L) /\ UsadaDe(R, L) = UsadaDe(T, L) + s.limite
         /\ \A q \in Procesos : q # p => R[q] = T[q]
<1> DEFINE t == T[p]
           r == Append(t, s)
<1>1. p \in Procesos /\ t \in Seq(Segs) /\ CabenTablas(T)
  BY DEF TablasEn, CabenTablas
<1>2. R \in [Procesos -> Seq(Segs)] /\ R[p] = r /\ \A q \in Procesos : q # p => R[q] = T[q]
  BY <1>1 DEF CabenTablas
<1>3. /\ r \in Seq(Segs) /\ DOMAIN r = DOMAIN t \cup {Len(t) + 1} /\ r[Len(t) + 1] = s
      /\ \A k \in DOMAIN t : r[k] = t[k]
  BY <1>1
<1>4. \A j, k \in DOMAIN r : r[j].id = r[k].id => j = k
  <2>1. \A k \in DOMAIN t : t[k].id # s.id
    BY DEF IdsEn
  <2>2. \A j, k \in DOMAIN t : t[j].id = t[k].id => j = k
    BY <1>1 DEF CabenTablas
  <2> HIDE DEF r, t
  <2> QED
    BY <1>3, <2>1, <2>2
<1>5. CabenTablas(R)
  <2> HIDE DEF r
  <2> QED
    BY <1>1, <1>2, <1>4 DEF CabenTablas
<1>6. TablasEn(R, L)
  <2>1. \A k \in DOMAIN r : r[k].limite # 0
    <3> HIDE DEF r
    <3> QED
      BY <1>1, <1>3 DEF TablasEn
  <2> HIDE DEF r, t
  <2> QED
    BY <1>2, <1>5, <2>1 DEF TablasEn
<1>7. UsadaDe(R, L) = UsadaDe(R, L \ {p}) + SumaLimites(r)
  <2> HIDE DEF r
  <2> QED
    BY <1>2, <1>6, UsadaPorTabla DEF TablasEn
<1>8. UsadaDe(T, L) = UsadaDe(T, L \ {p}) + SumaLimites(t)
  BY <1>1, UsadaPorTabla DEF TablasEn
<1>9. UsadaDe(R, L \ {p}) = UsadaDe(T, L \ {p})
  <2>1. \A q \in L \ {p} : R[q] = T[q]
    BY <1>2 DEF TablasEn
  <2>2. L \ {p} \subseteq Procesos
    BY DEF TablasEn
  <2> QED
    BY <1>1, <1>5, <2>1, <2>2, UsadaFija
<1>10. SumaLimites(r) = SumaLimites(t) + s.limite
  BY <1>1, TramosConLimite, SumaSeqAppend
<1>11. SumaLimites(t) \in Nat /\ UsadaDe(T, L \ {p}) \in Nat /\ s.limite \in Nat
  <2>1. L \ {p} \subseteq Procesos
    BY DEF TablasEn
  <2> QED
    BY <1>1, <2>1, TramosConLimite, SumaSeq, UsadaTipo DEF Segs
<1>12. UsadaDe(R, L) = UsadaDe(T, L) + s.limite
  <2> HIDE DEF r, t
  <2> QED
    BY <1>7, <1>8, <1>9, <1>10, <1>11
<1> QED
  BY <1>2, <1>6, <1>12

LEMMA QuitaSegmento ==
  ASSUME NEW T, NEW L, TablasEn(T, L), NEW p \in L, NEW k \in DOMAIN T[p],
         NEW R, R = [T EXCEPT ![p] = Sin(@, k)]
  PROVE  /\ TablasEn(R, L) /\ UsadaDe(T, L) = UsadaDe(R, L) + T[p][k].limite
         /\ \A q \in Procesos : q # p => R[q] = T[q]
<1> DEFINE t == T[p]
           r == Sin(t, k)
<1>1. p \in Procesos /\ t \in Seq(Segs) /\ CabenTablas(T)
  BY DEF TablasEn, CabenTablas
<1>2. /\ r \in Seq(Segs) /\ Len(r) = Len(t) - 1
      /\ \A j \in DOMAIN r : /\ j < k => j \in DOMAIN t /\ r[j] = t[j]
                             /\ j >= k => j + 1 \in DOMAIN t /\ r[j] = t[j + 1]
  BY <1>1, SinSon
<1>3. R \in [Procesos -> Seq(Segs)] /\ R[p] = r /\ \A q \in Procesos : q # p => R[q] = T[q]
  BY <1>1, <1>2 DEF CabenTablas
<1>4. \A i, j \in DOMAIN r : r[i].id = r[j].id => i = j
  <2> SUFFICES ASSUME NEW i \in DOMAIN r, NEW j \in DOMAIN r, r[i].id = r[j].id
               PROVE  i = j
    OBVIOUS
  <2>1. \A a, b \in DOMAIN t : t[a].id = t[b].id => a = b
    BY <1>1 DEF CabenTablas
  <2>2. i \in Nat /\ j \in Nat /\ k \in Nat
    BY <1>1, <1>2
  <2> HIDE DEF r, t
  <2> QED
    BY <1>2, <2>1, <2>2
<1>5. CabenTablas(R)
  <2> HIDE DEF r
  <2> QED
    BY <1>1, <1>3, <1>4 DEF CabenTablas
<1>6. TablasEn(R, L)
  <2>1. \A j \in DOMAIN r : r[j].limite # 0
    <3> SUFFICES ASSUME NEW j \in DOMAIN r
                 PROVE  r[j].limite # 0
      OBVIOUS
    <3>1. j \in Nat /\ k \in Nat /\ \A i \in DOMAIN t : t[i].limite # 0
      BY <1>1, <1>2 DEF TablasEn
    <3> HIDE DEF r, t
    <3> QED
      BY <1>2, <3>1
  <2> HIDE DEF r, t
  <2> QED
    BY <1>1, <1>3, <1>5, <2>1 DEF TablasEn
<1>7. UsadaDe(R, L) = UsadaDe(R, L \ {p}) + SumaLimites(r)
  <2> HIDE DEF r
  <2> QED
    BY <1>3, <1>6, UsadaPorTabla DEF TablasEn
<1>8. UsadaDe(T, L) = UsadaDe(T, L \ {p}) + SumaLimites(t)
  BY <1>1, UsadaPorTabla DEF TablasEn
<1>9. L \ {p} \subseteq Procesos
  BY DEF TablasEn
<1>10. UsadaDe(R, L \ {p}) = UsadaDe(T, L \ {p})
  <2>1. \A q \in L \ {p} : R[q] = T[q]
    BY <1>3 DEF TablasEn
  <2> QED
    BY <1>1, <1>5, <1>9, <2>1, UsadaFija
<1>11. SumaLimites(t) = t[k].limite + SumaLimites(r)
  BY <1>1, TramosConLimite, SumaSeqSin
<1>12. SumaLimites(r) \in Nat /\ UsadaDe(T, L \ {p}) \in Nat /\ t[k].limite \in Nat
  <2>1. t[k] \in Segs
    BY <1>1
  <2>2. SumaLimites(r) \in Nat
    <3> HIDE DEF r
    <3> QED
      BY <1>2, TramosConLimite, SumaSeq
  <2> QED
    BY <1>1, <1>9, <2>1, <2>2, UsadaTipo DEF Segs
<1>13. UsadaDe(T, L) = UsadaDe(R, L) + t[k].limite
  <2> HIDE DEF r, t
  <2> QED
    BY <1>7, <1>8, <1>10, <1>11, <1>12
<1> QED
  BY <1>3, <1>6, <1>13

LEMMA BorraTabla ==
  ASSUME NEW T, NEW L, TablasEn(T, L), NEW p \in L, NEW R, R = [T EXCEPT ![p] = <<>>]
  PROVE  /\ TablasEn(R, L \ {p}) /\ UsadaDe(T, L) = UsadaDe(R, L \ {p}) + SumaLimites(T[p])
         /\ \A q \in Procesos : q # p => R[q] = T[q]
<1>1. p \in Procesos /\ CabenTablas(T) /\ L \ {p} \subseteq Procesos
  BY DEF TablasEn
<1>2. <<>> \in Seq(Segs) /\ DOMAIN <<>> = {}
  OBVIOUS
<1>3. R \in [Procesos -> Seq(Segs)] /\ R[p] = <<>> /\ \A q \in Procesos : q # p => R[q] = T[q]
  BY <1>1, <1>2 DEF CabenTablas
<1>4. CabenTablas(R)
  BY <1>1, <1>2, <1>3 DEF CabenTablas
<1>5. TablasEn(R, L \ {p})
  BY <1>1, <1>2, <1>3, <1>4 DEF TablasEn
<1>6. UsadaDe(T, L) = UsadaDe(T, L \ {p}) + SumaLimites(T[p])
  BY <1>1, UsadaPorTabla DEF TablasEn
<1>7. UsadaDe(R, L \ {p}) = UsadaDe(T, L \ {p})
  <2>1. \A q \in L \ {p} : R[q] = T[q]
    BY <1>1, <1>3
  <2> QED
    BY <1>1, <1>4, <2>1, UsadaFija
<1> QED
  BY <1>3, <1>5, <1>6, <1>7

LEMMA CargaTabla ==
  ASSUME NEW T, NEW L, TablasEn(T, L), NEW p \in Procesos, p \notin L
  PROVE  TablasEn(T, L \cup {p}) /\ UsadaDe(T, L \cup {p}) = UsadaDe(T, L)
<1>1. TablasEn(T, L \cup {p}) /\ T[p] = <<>> /\ CabenTablas(T)
  BY DEF TablasEn
<1>2. UsadaDe(T, L \cup {p}) = UsadaDe(T, (L \cup {p}) \ {p}) + SumaLimites(T[p])
  BY <1>1, UsadaPorTabla DEF TablasEn
<1>3. (L \cup {p}) \ {p} = L
  OBVIOUS
<1>4. UsadaDe(T, L) \in Nat
  BY UsadaTipo DEF TablasEn
<1>5. SumaLimites(T[p]) = 0
  BY <1>1, SumaSeqVacia
<1>6. UsadaDe(T, L \cup {p}) = UsadaDe(T, L) + 0
  BY <1>2, <1>3, <1>5
<1> QED
  BY <1>1, <1>4, <1>6

(* The queue of requests. Each live process has one request at most, on its *)
(* way or waiting for a compaction; what it asks for can be served as long  *)
(* as the process is live, and its ids stay free.                           *)
Pide(m) == m.op # "OK"
VivoEn(m, T, L, B) ==
  /\ m.pid \in L /\ ~ B[m.pid]
  /\ m.op = "CREAR_SEGMENTO" => m.id \in Ids \ IdsEn(T, m.pid) /\ m.tam \in Nat \ {0}
ColaEn(e, T, L, B) ==
  /\ \A j, k \in DOMAIN e : Pide(e[j]) /\ Pide(e[k]) /\ e[j].pid = e[k].pid => j = k
  /\ \A k \in DOMAIN e : Pide(e[k]) => VivoEn(e[k], T, L, B)
EsperaEn(w, e, T, L, B, n) ==
  w # NADA =>
    /\ w \in Ordenados /\ w.op = "CREAR_SEGMENTO" /\ VivoEn(w, T, L, B) /\ w.tam <= n
    /\ \A k \in DOMAIN e : Pide(e[k]) => e[k].pid # w.pid

(* Nothing that a request of p relies on has changed.                       *)
Sigue(p, T, L, B, T2, L2, B2) ==
  p \in L => p \in L2 /\ B2[p] = B[p] /\ IdsEn(T2, p) \subseteq IdsEn(T, p)

LEMMA VivoSigue ==
  ASSUME NEW m, NEW T, NEW L, NEW B, NEW T2, NEW L2, NEW B2, VivoEn(m, T, L, B),
         Sigue(m.pid, T, L, B, T2, L2, B2)
  PROVE  VivoEn(m, T2, L2, B2)
<1>1. m.pid \in L2 /\ B2[m.pid] = B[m.pid] /\ IdsEn(T2, m.pid) \subseteq IdsEn(T, m.pid)
  BY DEF VivoEn, Sigue
<1>2. ~ B2[m.pid]
  BY <1>1, Zenon DEF VivoEn
<1> QED
  BY <1>1, <1>2 DEF VivoEn

LEMMA ColaSigue ==
  ASSUME NEW e, NEW T, NEW L, NEW B, NEW T2, NEW L2, NEW B2, ColaEn(e, T, L, B),
         \A k \in DOMAIN e : Pide(e[k]) => Sigue(e[k].pid, T, L, B, T2, L2, B2)
  PROVE  ColaEn(e, T2, L2, B2)
  BY VivoSigue DEF ColaEn

(* A request is taken from the queue, and the others keep what they rely    *)
(* on.                                                                      *)
LEMMA ColaTail ==
  ASSUME NEW e \in Seq(Ordenados), e # <<>>, NEW T, NEW L, NEW B, NEW T2, NEW L2, NEW B2,
         ColaEn(e, T, L, B),
         \A k \in DOMAIN e : k # 1 /\ Pide(e[k]) => Sigue(e[k].pid, T, L, B, T2, L2, B2)
  PROVE  ColaEn(Tail(e), T2, L2, B2)
<1> DEFINE t == Tail(e)
<1>1. \A k \in DOMAIN t : t[k] = e[k + 1] /\ k + 1 \in DOMAIN e /\ k + 1 # 1 /\ k \in Nat
  OBVIOUS
<1> HIDE DEF t
<1>2. \A k \in DOMAIN t : Pide(t[k]) => VivoEn(t[k], T2, L2, B2)
  <2> SUFFICES ASSUME NEW k \in DOMAIN t, Pide(t[k])
               PROVE  VivoEn(t[k], T2, L2, B2)
    OBVIOUS
  <2>1. VivoEn(e[k + 1], T, L, B) /\ Sigue(e[k + 1].pid, T, L, B, T2, L2, B2)
    BY <1>1 DEF ColaEn
  <2> QED
    BY <1>1, <2>1, VivoSigue
<1>3. ASSUME NEW j \in DOMAIN t, NEW k \in DOMAIN t, Pide(t[j]), Pide(t[k]), t[j].pid = t[k].pid
      PROVE  j = k
  <2>1. j + 1 = k + 1
    BY <1>1, <1>3 DEF ColaEn
  <2> QED
    BY <1>1, <2>1
<1> QED
  BY <1>2, <1>3 DEF ColaEn, t

(* The others do not ask for the process of the first.                      *)
LEMMA ColaOtros ==
  ASSUME NEW e \in Seq(Ordenados), e # <<>>, NEW T, NEW L, NEW B, ColaEn(e, T, L, B), Pide(Head(e))
  PROVE  /\ VivoEn(Head(e), T, L, B)
         /\ \A k \in DOMAIN e : k # 1 /\ Pide(e[k]) => e[k].pid # Head(e).pid
<1>1. 1 \in DOMAIN e /\ Head(e) = e[1]
  OBVIOUS
<1> QED
  BY <1>1 DEF ColaEn

LEMMA ColaAppend ==
  ASSUME NEW e \in Seq(Ordenados), NEW m \in Ordenados, NEW T, NEW L, NEW B, ColaEn(e, T, L, B),
         Pide(m) => VivoEn(m, T, L, B) /\ \A k \in DOMAIN e : Pide(e[k]) => e[k].pid # m.pid
  PROVE  ColaEn(Append(e, m), T, L, B)
<1> DEFINE t == Append(e, m)
           n == Len(e) + 1
<1>1. DOMAIN t = DOMAIN e \cup {n} /\ t[n] = m /\ \A k \in DOMAIN e : t[k] = e[k] /\ k # n
  OBVIOUS
<1> HIDE DEF t, n
<1>2. ColaEn(t, T, L, B)
  BY <1>1 DEF ColaEn
<1> QED
  BY <1>2 DEF t

-----------------------------------------------------------------------------
(* compactacion.                                                            *)

(* BEST and WORST find a hole whenever one is large enough.                 *)
LEMMA ElegidosAlguno ==
  ASSUME NEW huecos \in Seq(Tramos), NEW n \in Nat, NEW a \in DOMAIN huecos, huecos[a].limite >= n
  PROVE  Elegidos(huecos, n) # {}
<1> DEFINE entran == {i \in DOMAIN huecos : huecos[i].limite >= n}
           lim(i) == huecos[i].limite
           Mejor(i, j) == IF ESTRATEGIA = "BEST" THEN lim(i) < lim(j) ELSE lim(i) > lim(j)
<1>1. \A i \in DOMAIN huecos : i \in Nat /\ lim(i) \in Nat
  <2> SUFFICES ASSUME NEW i \in DOMAIN huecos
               PROVE  i \in Nat /\ lim(i) \in Nat
    OBVIOUS
  <2>1. huecos[i] \in Tramos
    OBVIOUS
  <2> QED
    BY <2>1 DEF Tramos
<1>2. \E b \in entran : \A j \in entran :
        IF ESTRATEGIA = "BEST" THEN lim(b) <= lim(j) ELSE lim(b) >= lim(j)
  <2>1. CASE ESTRATEGIA = "BEST"
    <3> DEFINE T == {lim(i) : i \in entran}
    <3>1. T \subseteq Nat /\ T # {}
      BY <1>1
    <3>2. PICK m \in T : \A x \in T : m <= x
      <4> HIDE DEF T
      <4> QED
        BY <3>1, NatMin
    <3> QED
      BY <2>1, <3>2
  <2>2. CASE ESTRATEGIA # "BEST"
    <3> DEFINE T == {x \in Nat : \A i \in entran : lim(i) <= x}
    <3>1. SumaLimites(huecos) \in T
      <4>1. SumaLimites(huecos) \in Nat
        BY TramosConLimite, SumaSeq
      <4>2. ASSUME NEW i \in entran
            PROVE  lim(i) <= SumaLimites(huecos)
        <5>1. SumaLimites(huecos) = lim(i) + SumaLimites(Sin(huecos, i))
          BY TramosConLimite, SumaSeqSin
        <5>2. SumaLimites(Sin(huecos, i)) \in Nat
          BY SinSon, TramosConLimite, SumaSeq
        <5>3. lim(i) \in Nat
          BY <1>1
        <5> HIDE DEF lim
        <5> QED
          BY <5>1, <5>2, <5>3
      <4> QED
        BY <4>1, <4>2
    <3>2. PICK m \in T : \A x \in T : m <= x
      <4>1. T \subseteq Nat /\ T # {}
        BY <3>1
      <4> HIDE DEF T
      <4> QED
        BY <4>1, NatMin
    <3>3. m \in Nat /\ \A i \in entran : lim(i) <= m
      OBVIOUS
    <3>4. ASSUME \A i \in entran : lim(i) # m
          PROVE  FALSE
      <4>1. a \in entran /\ lim(a) \in Nat
        BY <1>1
      <4>2. m - 1 \in Nat
        BY <1>1, <3>3, <3>4, <4>1
      <4>3. \A i \in entran : lim(i) <= m - 1
        BY <1>1, <3>3, <3>4
      <4>4. m - 1 \in T
        BY <4>2, <4>3
      <4> QED
        BY <3>2, <3>3, <4>4
    <3> QED
      BY <2>2, <3>3, <3>4
  <2> QED
    BY <2>1, <2>2
<1>3. PICK b \in entran : \A j \in entran :
        IF ESTRATEGIA = "BEST" THEN lim(b) <= lim(j) ELSE lim(b) >= lim(j)
  BY <1>2
<1>4. PICK c \in {i \in entran : lim(i) = lim(b)} :
        \A j \in {i \in entran : lim(i) = lim(b)} : c <= j
  <2> DEFINE T == {i \in entran : lim(i) = lim(b)}
  <2>1. T \subseteq Nat /\ T # {}
    BY <1>1
  <2> HIDE DEF T
  <2>2. \E c \in T : \A j \in T : c <= j
    BY <2>1, NatMin
  <2> QED
    BY <2>2 DEF T
<1>5. ASSUME NEW j \in entran \ {c}
      PROVE  Mejor(c, j) \/ (~ Mejor(j, c) /\ c < j)
  <2>1. c \in Nat /\ j \in Nat /\ lim(c) \in Nat /\ lim(j) \in Nat /\ lim(c) = lim(b)
    BY <1>1
  <2>2. IF ESTRATEGIA = "BEST" THEN lim(c) <= lim(j) ELSE lim(c) >= lim(j)
    BY <1>3, <2>1
  <2>3. lim(j) = lim(c) => c < j
    BY <1>4, <2>1
  <2> HIDE DEF lim, entran
  <2> QED
    BY <2>1, <2>2, <2>3
<1> QED
  BY <1>5 DEF Elegidos

(* Previo(o, i) is the memory of the segments that a compaction puts before *)
(* the i-th.                                                                *)
Peso(o) == [i \in DOMAIN o |-> Segmento(o[i]).limite]
Previo(o, i) == Suma(Peso(o), 1..(i - 1))
EsBases(b, o) ==
  b = [i \in DOMAIN o |-> IF i = 1 THEN 0 ELSE b[i - 1] + Segmento(o[i - 1]).limite]

(* list_sorted has each live segment once.                                  *)
LEMMA OrdenBiyecta ==
  ASSUME TablasEn(tabla_segmentos, lista_procesos), NEW o \in Ordenes
  PROVE  /\ Cardinality(Vivos) \in Nat /\ IsFiniteSet(Vivos) /\ IsFiniteSet(DOMAIN o)
         /\ DOMAIN o = 1..Cardinality(Vivos) /\ \A i \in DOMAIN o : o[i] \in Vivos
         /\ \A i, j \in DOMAIN o : o[i] = o[j] => i = j
         /\ \A v \in Vivos : \E i \in DOMAIN o : o[i] = v
         /\ Naturales(Peso(o), DOMAIN o)
<1> DEFINE n == Cardinality(Vivos)
<1>1. IsFiniteSet(Vivos) /\ n \in Nat
  BY FinitosOK, UsadaSon, VivosFinitos, FS_CardinalityType
<1>2. o \in [1..n -> Vivos] /\ \A i, j \in 1..n : i < j => o[i] # o[j]
  BY DEF Ordenes
<1>3. \A i, j \in 1..n : o[i] = o[j] => i = j
  BY <1>1, <1>2
<1>4. o \in Injection(1..n, Vivos)
  BY <1>2, <1>3 DEF Injection, IsInjective
<1>5. IsFiniteSet(1..n) /\ Cardinality(1..n) = n
  BY <1>1, FS_Interval
<1>6. o \in Surjection(1..n, Vivos)
  BY <1>1, <1>4, <1>5, FS_Injection
<1>7. \A v \in Vivos : \E i \in 1..n : o[i] = v
  BY <1>6 DEF Surjection
<1>8. \A i \in 1..n : Segmento(o[i]).limite \in Nat
  <2> SUFFICES ASSUME NEW i \in 1..n
               PROVE  Segmento(o[i]).limite \in Nat
    OBVIOUS
  <2>1. o[i] \in Vivos
    BY <1>2
  <2>2. Segmento(o[i]) \in Segs
    BY <2>1 DEF Segmento, Vivos, TablasEn, CabenTablas
  <2> QED
    BY <2>2 DEF Segs
<1> QED
  BY <1>1, <1>2, <1>3, <1>5, <1>7, <1>8 DEF Naturales, Peso

(* The partial sums, from nothing to all the memory in use.                 *)
LEMMA PrevioPaso ==
  ASSUME TablasEn(tabla_segmentos, lista_procesos), NEW o \in Ordenes
  PROVE  /\ Previo(o, 1) = 0
         /\ \A i \in DOMAIN o : /\ i \in Nat /\ Previo(o, i) \in Nat
                                /\ Segmento(o[i]).limite \in Nat
                                /\ Previo(o, i + 1) = Previo(o, i) + Segmento(o[i]).limite
<1> DEFINE D == DOMAIN o
           h == Peso(o)
           n == Cardinality(Vivos)
<1>1. D = 1..n /\ n \in Nat /\ IsFiniteSet(D) /\ Naturales(h, D)
  BY OrdenBiyecta
<1>2. Previo(o, 1) = 0
  <2>1. 1..(1 - 1) = {} /\ IsFiniteSet({})
    BY FS_EmptySet
  <2> QED
    BY <2>1, SumaPaso DEF Previo
<1>3. ASSUME NEW i \in D
      PROVE  /\ i \in Nat /\ Previo(o, i) \in Nat /\ Segmento(o[i]).limite \in Nat
             /\ Previo(o, i + 1) = Previo(o, i) + Segmento(o[i]).limite
  <2> DEFINE A == 1..((i + 1) - 1)
             B == 1..(i - 1)
  <2>1. i \in Nat /\ A \subseteq D /\ B \subseteq D /\ i \in A /\ A \ {i} = B
    BY <1>1
  <2>2. IsFiniteSet(A) /\ IsFiniteSet(B) /\ Naturales(h, A) /\ Naturales(h, B)
    BY <1>1, <2>1, FS_Subset DEF Naturales
  <2>3. Suma(h, A) = h[i] + Suma(h, B)
    <3> HIDE DEF A, B, h
    <3> QED
      BY <2>1, <2>2, SumaSin
  <2>4. Suma(h, B) \in Nat
    <3> HIDE DEF A, B, h
    <3> QED
      BY <2>2, SumaTipo
  <2>5. h[i] = Segmento(o[i]).limite /\ h[i] \in Nat
    BY <1>1 DEF Peso, Naturales
  <2> HIDE DEF h
  <2>6. Suma(h, A) = Suma(h, B) + h[i]
    BY <2>3, <2>4, <2>5
  <2> QED
    BY <2>1, <2>4, <2>5, <2>6 DEF Previo, h
<1> QED
  BY <1>2, <1>3

(* ... and they are the addresses that compactacion gives.                  *)
LEMMA BasesSon ==
  ASSUME TablasEn(tabla_segmentos, lista_procesos), NEW o \in Ordenes
  PROVE  \A i \in DOMAIN o : Bases(o)[i] = Previo(o, i)
<1> DEFINE D == DOMAIN o
           b == Bases(o)
<1>1. D = 1..Cardinality(Vivos) /\ Cardinality(Vivos) \in Nat
  BY OrdenBiyecta
<1>2. b = CHOOSE c : EsBases(c, o)
  BY DEF Bases, EsBases
<1>3. EsBases([i \in D |-> Previo(o, i)], o)
  <2> DEFINE c == [i \in D |-> Previo(o, i)]
  <2>1. ASSUME NEW i \in D
        PROVE  c[i] = IF i = 1 THEN 0 ELSE c[i - 1] + Segmento(o[i - 1]).limite
    <3>1. CASE i = 1
      BY <3>1, PrevioPaso
    <3>2. CASE i # 1
      <4>1. i - 1 \in D /\ (i - 1) + 1 = i
        BY <1>1, <3>2
      <4>2. Previo(o, i) = Previo(o, i - 1) + Segmento(o[i - 1]).limite
        <5>1. Previo(o, (i - 1) + 1) = Previo(o, i - 1) + Segmento(o[i - 1]).limite
          BY <4>1, PrevioPaso
        <5> QED
          BY <4>1, <5>1
      <4> QED
        BY <3>2, <4>1, <4>2
    <3> QED
      BY <3>1, <3>2
  <2>2. c = [i \in D |-> c[i]]
    OBVIOUS
  <2> HIDE DEF c
  <2>3. EsBases(c, o)
    BY <2>1, <2>2 DEF EsBases
  <2> QED
    BY <2>3 DEF c
<1>4. EsBases(b, o)
  <2>1. \E c : EsBases(c, o)
    BY <1>3
  <2> HIDE DEF b
  <2> QED
    BY <1>2, <2>1
<1> HIDE DEF b
<1> DEFINE T == {i \in D : b[i] # Previo(o, i)}
<1>5. T = {}
  <2> SUFFICES ASSUME T # {}
               PROVE  FALSE
    OBVIOUS
  <2>1. PICK m \in T : \A i \in T : m <= i
    <3>1. T \subseteq Nat
      BY <1>1
    <3> HIDE DEF T
    <3> QED
      BY <3>1, NatMin
  <2>2. m \in D /\ b[m] # Previo(o, m)
    OBVIOUS
  <2>3. b[m] = IF m = 1 THEN 0 ELSE b[m - 1] + Segmento(o[m - 1]).limite
    BY <1>4, <2>2 DEF EsBases
  <2>4. m # 1
    BY <2>2, <2>3, PrevioPaso
  <2>5. m - 1 \in D /\ (m - 1) + 1 = m /\ ~ (m <= m - 1)
    BY <1>1, <2>2, <2>4
  <2>6. b[m - 1] = Previo(o, m - 1)
    BY <2>1, <2>5
  <2>7. Previo(o, (m - 1) + 1) = Previo(o, m - 1) + Segmento(o[m - 1]).limite
    BY <2>5, PrevioPaso
  <2> QED
    BY <2>2, <2>3, <2>4, <2>5, <2>6, <2>7
<1> QED
  BY <1>5 DEF b

LEMMA PrevioTotal ==
  ASSUME TablasEn(tabla_segmentos, lista_procesos), NEW o \in Ordenes
  PROVE  Previo(o, Cardinality(Vivos) + 1) = MemoriaUsada
<1> DEFINE D == DOMAIN o
           h == Peso(o)
           n == Cardinality(Vivos)
           g == LimitesDe(tabla_segmentos, lista_procesos)
<1>1. /\ D = 1..n /\ n \in Nat /\ IsFiniteSet(D) /\ Naturales(h, D) /\ IsFiniteSet(Vivos)
      /\ Inyecta(o, D) /\ Imagen(o, D) = Vivos
  BY OrdenBiyecta DEF Inyecta, Imagen
<1>2. MemoriaUsada = Suma(g, Vivos)
  BY FinitosOK, UsadaSon DEF UsadaDe
<1>3. \A i \in D : g[o[i]] = h[i]
  <2> SUFFICES ASSUME NEW i \in D
               PROVE  g[o[i]] = h[i]
    OBVIOUS
  <2>1. o[i] \in VivosDe(tabla_segmentos, lista_procesos)
    BY OrdenBiyecta, FinitosOK, UsadaSon
  <2> QED
    BY <2>1 DEF LimitesDe, Peso, Segmento
<1>4. Suma(g, Imagen(o, D)) = Suma(h, D)
  <2> HIDE DEF g, h, D
  <2> QED
    BY <1>1, <1>3, SumaRenombra
<1>5. D = 1..((n + 1) - 1)
  BY <1>1
<1> QED
  BY <1>1, <1>2, <1>4, <1>5 DEF Previo

(* Tables that differ in the bases alone.                                   *)
LEMMA MismasTablas ==
  ASSUME NEW T, NEW L, TablasEn(T, L), NEW R, R \in [Procesos -> Seq(Segs)],
         \A p \in Procesos :
           /\ DOMAIN R[p] = DOMAIN T[p]
           /\ \A k \in DOMAIN T[p] :
                R[p][k].limite = T[p][k].limite /\ R[p][k].id = T[p][k].id
  PROVE  /\ TablasEn(R, L) /\ UsadaDe(R, L) = UsadaDe(T, L)
         /\ \A p \in Procesos : IdsEn(R, p) = IdsEn(T, p)
<1>0. L \subseteq Procesos /\ CabenTablas(T)
  BY DEF TablasEn
<1>1. CabenTablas(R)
  BY <1>0 DEF CabenTablas
<1>2. ASSUME NEW p \in Procesos
      PROVE  /\ p \notin L => R[p] = <<>>
             /\ \A k \in DOMAIN R[p] : R[p][k].limite # 0
  <2> DEFINE r == R[p]
  <2>1. r \in Seq(Segs) /\ DOMAIN r = DOMAIN T[p]
    OBVIOUS
  <2>2. p \notin L => DOMAIN r = {}
    BY <2>1 DEF TablasEn
  <2>3. p \notin L => r = <<>>
    <3> HIDE DEF r
    <3> QED
      BY <2>1, <2>2
  <2> QED
    BY <2>3 DEF TablasEn
<1>3. TablasEn(R, L)
  BY <1>0, <1>1, <1>2 DEF TablasEn
<1>4. UsadaDe(R, L) = UsadaDe(T, L)
  <2>1. \A p \in L : /\ DOMAIN R[p] = DOMAIN T[p]
                     /\ \A k \in DOMAIN T[p] : R[p][k].limite = T[p][k].limite
    BY <1>0
  <2> QED
    BY <1>0, <1>1, <2>1, UsadaFija
<1>5. ASSUME NEW p \in Procesos
      PROVE  IdsEn(R, p) = IdsEn(T, p)
  BY <1>5 DEF IdsEn
<1> QED
  BY <1>3, <1>4, <1>5

(* A compaction changes the bases alone.                                    *)
LEMMA CompactaTablas ==
  ASSUME TablasEn(tabla_segmentos, lista_procesos), NEW o \in Ordenes,
         NEW R, R = TablasCompactas(o)
  PROVE  /\ TablasEn(R, lista_procesos) /\ UsadaDe(R, lista_procesos) = MemoriaUsada
         /\ \A p \in Procesos : /\ DOMAIN R[p] = DOMAIN tabla_segmentos[p]
                                /\ IdsEn(R, p) = IdsEn(tabla_segmentos, p)
                                /\ \A k \in DOMAIN R[p] :
                                     R[p][k].limite = tabla_segmentos[p][k].limite
         /\ \A i \in DOMAIN o : R[o[i][1]][o[i][2]].base = Previo(o, i)
<1> DEFINE T == tabla_segmentos
           L == lista_procesos
           Base(v) == Bases(o)[CHOOSE i \in DOMAIN o : o[i] = v]
<1>0. T \in [Procesos -> Seq(Segs)] /\ L \subseteq Procesos /\ CabenTablas(T)
  BY DEF TablasEn, CabenTablas
<1>1. \A p \in L : \A k \in DOMAIN T[p] : <<p, k>> \in Vivos
  BY <1>0, VivosSon, FinitosOK, UsadaSon
<1>2. ASSUME NEW i \in DOMAIN o
      PROVE  Base(o[i]) = Previo(o, i) /\ Previo(o, i) \in Nat
  <2>1. (CHOOSE j \in DOMAIN o : o[j] = o[i]) = i
    BY OrdenBiyecta
  <2> QED
    BY <2>1, BasesSon, PrevioPaso
<1>3. \A v \in Vivos : Base(v) \in Nat
  BY <1>2, OrdenBiyecta
<1>4. ASSUME NEW p \in Procesos
      PROVE  /\ R[p] \in Seq(Segs) /\ DOMAIN R[p] = DOMAIN T[p]
             /\ \A k \in DOMAIN T[p] :
                  /\ R[p][k].limite = T[p][k].limite /\ R[p][k].id = T[p][k].id
                  /\ p \in L => R[p][k].base = Base(<<p, k>>)
  <2> DEFINE n == Len(T[p])
             nuevo(k) == IF p \in L THEN [T[p][k] EXCEPT !.base = Base(<<p, k>>)] ELSE T[p][k]
  <2>1. R[p] = [k \in DOMAIN T[p] |-> nuevo(k)]
    BY DEF TablasCompactas
  <2>2. DOMAIN T[p] = 1..n /\ n \in Nat /\ \A k \in DOMAIN T[p] : T[p][k] \in Segs
    BY <1>0
  <2>3. ASSUME NEW k \in DOMAIN T[p]
        PROVE  /\ nuevo(k) \in Segs /\ nuevo(k).limite = T[p][k].limite
               /\ nuevo(k).id = T[p][k].id /\ (p \in L => nuevo(k).base = Base(<<p, k>>))
    <3> DEFINE s == T[p][k]
               b == Base(<<p, k>>)
    <3>1. s \in Segs
      BY <2>2
    <3>2. CASE p \notin L
      BY <3>1, <3>2
    <3>3. CASE p \in L
      <4>1. b \in Nat
        BY <1>1, <1>3, <3>3
      <4>2. nuevo(k) = [s EXCEPT !.base = b]
        BY <3>3
      <4> HIDE DEF s, b, nuevo
      <4>3. /\ [s EXCEPT !.base = b] \in Segs /\ [s EXCEPT !.base = b].limite = s.limite
            /\ [s EXCEPT !.base = b].id = s.id /\ [s EXCEPT !.base = b].base = b
        BY <3>1, <4>1 DEF Segs
      <4> QED
        BY <4>2, <4>3 DEF s, b
    <3> QED
      BY <3>2, <3>3
  <2> HIDE DEF nuevo
  <2>4. /\ R[p] = [k \in 1..n |-> R[p][k]] /\ DOMAIN R[p] = 1..n
        /\ \A k \in 1..n : R[p][k] = nuevo(k)
    BY <2>1, <2>2
  <2>5. \A k \in 1..n : R[p][k] \in Segs
    BY <2>2, <2>3, <2>4
  <2>6. R[p] \in [1..n -> Segs]
    BY <2>4, <2>5
  <2>7. R[p] \in Seq(Segs)
    BY <2>2, <2>6
  <2>8. ASSUME NEW k \in DOMAIN T[p]
        PROVE  R[p][k] = nuevo(k)
    BY <2>2, <2>4
  <2> HIDE DEF Base
  <2> QED
    BY <2>2, <2>3, <2>4, <2>7, <2>8
<1>5. R \in [Procesos -> Seq(Segs)]
  <2>1. R = [p \in Procesos |-> R[p]]
    BY DEF TablasCompactas
  <2> QED
    BY <1>4, <2>1
<1>6. /\ TablasEn(R, L) /\ UsadaDe(R, L) = UsadaDe(T, L)
      /\ \A p \in Procesos : IdsEn(R, p) = IdsEn(T, p)
  <2> HIDE DEF Base
  <2>1. \A p \in Procesos :
          /\ DOMAIN R[p] = DOMAIN T[p]
          /\ \A k \in DOMAIN T[p] :
               R[p][k].limite = T[p][k].limite /\ R[p][k].id = T[p][k].id
    BY <1>4
  <2> QED
    BY <1>5, <2>1, MismasTablas
<1>10. ASSUME NEW i \in DOMAIN o
       PROVE  R[o[i][1]][o[i][2]].base = Previo(o, i)
  <2>1. o[i] \in Vivos
    BY OrdenBiyecta
  <2>2. o[i][1] \in L /\ o[i][2] \in DOMAIN T[o[i][1]] /\ o[i] = <<o[i][1], o[i][2]>>
    BY <2>1 DEF Vivos
  <2>3. R[o[i][1]][o[i][2]].base = Base(<<o[i][1], o[i][2]>>)
    BY <1>0, <1>4, <2>2
  <2> QED
    BY <1>2, <2>2, <2>3
<1>11. UsadaDe(T, L) = MemoriaUsada
  BY FinitosOK, UsadaSon
<1> QED
  BY <1>4, <1>6, <1>10, <1>11

(* The sticks follow one another; a list of holes from address b on.        *)
SticksEnOrden ==
  /\ lista_memory_sticks \in Seq(Tramos)
  /\ \A i, j \in DOMAIN lista_memory_sticks :
       i < j => Fin(lista_memory_sticks[i]) <= lista_memory_sticks[j].base

Desde(h, b) == h \in Seq(Tramos) /\ \A i \in DOMAIN h : h[i].base >= b

Contiene(h, g) == \A i \in DOMAIN g : \E j \in DOMAIN h : h[j] = g[i]

LEMMA DesdeConcat ==
  ASSUME NEW b, NEW f, NEW g, Desde(f, b), Desde(g, b)
  PROVE  Desde(f \o g, b) /\ Contiene(f \o g, g)
<1>0. f \in Seq(Tramos) /\ g \in Seq(Tramos)
  BY DEF Desde
<1>1. /\ f \o g \in Seq(Tramos) /\ Len(f \o g) = Len(f) + Len(g)
      /\ Len(f) \in Nat /\ Len(g) \in Nat
  BY <1>0
<1>2. \A j \in DOMAIN (f \o g) : IF j \in DOMAIN f THEN (f \o g)[j] = f[j]
                                 ELSE j - Len(f) \in DOMAIN g /\ (f \o g)[j] = g[j - Len(f)]
  BY <1>0, <1>1, ConcatProperties
<1>3. ASSUME NEW i \in DOMAIN g
      PROVE  \E j \in DOMAIN (f \o g) : (f \o g)[j] = g[i]
  <2>1. /\ Len(f) + i \in DOMAIN (f \o g) /\ ~ (Len(f) + i \in DOMAIN f)
        /\ (Len(f) + i) - Len(f) = i
    BY <1>0, <1>1, <1>3
  <2> QED
    BY <1>2, <2>1
<1>4. \A j \in DOMAIN (f \o g) : (f \o g)[j].base >= b
  BY <1>0, <1>1, <1>2 DEF Desde
<1> QED
  BY <1>1, <1>3, <1>4 DEF Desde, Contiene

(* The holes that a compaction leaves.                                      *)
LEMMA HuecosTrasSon ==
  ASSUME SticksEnOrden, NEW b \in Nat, capacidad_memoria_total \in Nat,
         b <= capacidad_memoria_total,
         b < capacidad_memoria_total => SticksDe(b) # {}
  PROVE  /\ HuecosTras(b) \in Seq(Tramos)
         /\ \A i \in DOMAIN HuecosTras(b) : HuecosTras(b)[i].base >= b
         /\ b < capacidad_memoria_total =>
              \E i \in DOMAIN HuecosTras(b) :
                HuecosTras(b)[i].limite = capacidad_memoria_total - b
<1> DEFINE cap == capacidad_memoria_total
           ms == lista_memory_sticks
<1>2. ASSUME NEW t \in Tramos, t.base >= b
      PROVE  Desde(<<t>>, b)
  BY <1>2 DEF Desde
<1>3. Desde(<<>>, b)
  BY DEF Desde
<1>4. Desde(HuecosPorStick(b), b)
  <2>1. CASE Vivos = {} \/ b = cap
    <3>1. HuecosPorStick(b) = <<>>
      BY <2>1 DEF HuecosPorStick
    <3> QED
      BY <1>3, <3>1
  <2>2. CASE ~ (Vivos = {} \/ b = cap)
    <3> DEFINE s == CHOOSE i \in SticksDe(b) : TRUE
               f == Fin(ms[s])
               r == SubSeq(ms, s + 1, Len(ms))
               g == IF f = cap THEN <<>> ELSE r
    <3>1. SticksDe(b) # {}
      BY <2>2
    <3>2. s \in SticksDe(b)
      BY <3>1
    <3>3. s \in DOMAIN ms /\ b \in ms[s].base..(f - 1)
      BY <3>2 DEF SticksDe
    <3>4. ms \in Seq(Tramos) /\ ms[s] \in Tramos
      BY <3>3 DEF SticksEnOrden
    <3>5. ms[s].base \in Nat /\ ms[s].limite \in Nat
      BY <3>4 DEF Tramos
    <3>6. f \in Nat /\ b < f /\ f - b \in Nat
      BY <3>3, <3>5 DEF Fin
    <3>7. HuecosPorStick(b) = <<Tramo(b, f - b)>> \o g
      BY <2>2 DEF HuecosPorStick
    <3>8. Tramo(b, f - b) \in Tramos /\ Tramo(b, f - b).base >= b
      BY <3>6 DEF Tramo, Tramos
    <3> HIDE DEF f, s
    <3>9. Desde(r, b)
      <4>1. s \in 1..Len(ms) /\ Len(ms) \in Nat
        BY <3>3, <3>4
      <4>2. /\ r \in Seq(Tramos) /\ Len(r) = Len(ms) - s
            /\ \A i \in 1..(Len(ms) - s) : r[i] = ms[s + i]
        BY <3>4, <4>1
      <4>3. ASSUME NEW i \in 1..(Len(ms) - s)
            PROVE  ms[s + i].base >= b
        <5>1. s + i \in DOMAIN ms /\ s < s + i
          BY <3>4, <4>1, <4>3
        <5>2. f <= ms[s + i].base
          BY <3>3, <5>1 DEF SticksEnOrden, f
        <5>3. ms[s + i] \in Tramos
          BY <3>4, <5>1
        <5>4. ms[s + i].base \in Nat
          BY <5>3 DEF Tramos
        <5> QED
          BY <3>6, <5>2, <5>4
      <4>4. DOMAIN r = 1..(Len(ms) - s)
        BY <4>1, <4>2
      <4> HIDE DEF r
      <4> QED
        BY <4>2, <4>3, <4>4 DEF Desde
    <3> HIDE DEF r
    <3>10. Desde(<<Tramo(b, f - b)>>, b)
      BY <1>2, <3>8
    <3>11. Desde(g, b)
      BY <1>3, <3>9
    <3> HIDE DEF g
    <3>12. Desde(<<Tramo(b, f - b)>> \o g, b)
      BY <3>10, <3>11, DesdeConcat
    <3> QED
      BY <3>7, <3>12
  <2> QED
    BY <2>1, <2>2
<1>5. Desde(HuecoFinal(b), b)
  <2>1. CASE b < cap
    <3>1. HuecoFinal(b) = <<Tramo(b, cap - b)>> /\ cap - b \in Nat
      BY <2>1 DEF HuecoFinal
    <3>2. Tramo(b, cap - b) \in Tramos /\ Tramo(b, cap - b).base >= b
      BY <3>1 DEF Tramo, Tramos
    <3> QED
      BY <1>2, <3>1, <3>2
  <2>2. CASE ~ (b < cap)
    <3>1. HuecoFinal(b) = <<>>
      BY <2>2 DEF HuecoFinal
    <3> QED
      BY <1>3, <3>1
  <2> QED
    BY <2>1, <2>2
<1>6. ASSUME b < cap
      PROVE  \E i \in DOMAIN HuecoFinal(b) : HuecoFinal(b)[i].limite = cap - b
  <2>1. HuecoFinal(b) = <<Tramo(b, cap - b)>>
    BY <1>6 DEF HuecoFinal
  <2>2. 1 \in DOMAIN HuecoFinal(b) /\ HuecoFinal(b)[1].limite = cap - b
    BY <2>1 DEF Tramo
  <2> QED
    BY <2>2
<1> DEFINE F == HuecosPorStick(b)
           G == HuecoFinal(b)
<1>7. HuecosTras(b) = F \o G
  BY DEF HuecosTras
<1> HIDE DEF F, G
<1>8. Desde(F, b) /\ Desde(G, b)
  BY <1>4, <1>5 DEF F, G
<1>9. Desde(F \o G, b) /\ Contiene(F \o G, G)
  BY <1>8, DesdeConcat
<1>10. b < cap => \E j \in DOMAIN (F \o G) : (F \o G)[j].limite = cap - b
  BY <1>6, <1>9 DEF G, Contiene
<1> QED
  BY <1>7, <1>9, <1>10 DEF Desde

-----------------------------------------------------------------------------
(* The invariant of the counts.                                             *)

(* What the counts of the allocator keep, request after request. The limit  *)
(* of a stick is counted as free before its hole is in the list             *)
(* (PorEntrar); what the live processes hold is not free; and a request     *)
(* that waits for a compaction asks for no more than is free.               *)
PorEntrar == IF paso_ms = "contar" THEN 0 ELSE Head(por_conectar)

CuentaTipos ==
  /\ lista_procesos \subseteq cargados /\ cargados \subseteq Procesos
  /\ proceso_actulizado \in [Procesos -> BOOLEAN]
  /\ peticion_eliminacion \in [Procesos -> BOOLEAN]
  /\ viva \in BOOLEAN /\ aviso \in BOOLEAN /\ desalineado \in BOOLEAN
  /\ capacidad_memoria_total \in Nat

CuentaSticks ==
  /\ SticksEnOrden
  /\ paso_ms = "hueco" =>
       lista_memory_sticks[Len(lista_memory_sticks)].limite = Head(por_conectar)

CuentaHuecos ==
  /\ lista_huecos_memoria \in Seq(Tramos)
  /\ compactaciones = 0 =>
       memoria_libre_actual = SumaLimites(lista_huecos_memoria) + PorEntrar

CuentaTablas == TablasEn(tabla_segmentos, lista_procesos)

CuentaLibre ==
  /\ memoria_libre_actual \in Nat
  /\ memoria_libre_actual + UsadaDe(tabla_segmentos, lista_procesos)
       <= capacidad_memoria_total

CuentaCola == ColaEn(entrada, tabla_segmentos, lista_procesos, peticion_eliminacion)

CuentaEspera ==
  EsperaEn(esperando, entrada, tabla_segmentos, lista_procesos, peticion_eliminacion,
           memoria_libre_actual)

CuentaRespuesta == respuesta # "SIN_HUECO"

CuentaInv ==
  /\ TipoConexion /\ TipoEntrada /\ CuentaTipos /\ CuentaSticks /\ CuentaHuecos
  /\ CuentaTablas /\ CuentaLibre /\ CuentaCola /\ CuentaEspera /\ CuentaRespuesta

(* What each request that changes a table finds and does.                   *)
Atendida(m, op) ==
  /\ m = Head(entrada) /\ m \in Ordenados /\ m.op = op /\ m.pid \in Procesos
  /\ VivoEn(m, tabla_segmentos, lista_procesos, peticion_eliminacion)
  /\ entrada \in Seq(Ordenados) /\ entrada # <<>> /\ esperando = NADA
  /\ \A k \in DOMAIN entrada : k # 1 /\ Pide(entrada[k]) => entrada[k].pid # m.pid

LEMMA AtiendeSon ==
  ASSUME TipoEntrada, CuentaCola, CuentaTablas, NEW op \in Ops \ {"OK"}, Atiende(op)
  PROVE  Atendida(Head(entrada), op) /\ entrada' = Tail(entrada)
<1>1. /\ entrada \in Seq(Ordenados) /\ entrada # <<>> /\ esperando = NADA
      /\ Head(entrada).op = op /\ entrada' = Tail(entrada)
  BY DEF Atiende, TipoEntrada
<1>2. Head(entrada) \in Ordenados /\ Pide(Head(entrada))
  BY <1>1 DEF Pide
<1>3. /\ VivoEn(Head(entrada), tabla_segmentos, lista_procesos, peticion_eliminacion)
      /\ \A k \in DOMAIN entrada : k # 1 /\ Pide(entrada[k]) => entrada[k].pid # Head(entrada).pid
  BY <1>1, <1>2, ColaOtros DEF CuentaCola
<1>4. Head(entrada).pid \in Procesos
  BY <1>3 DEF VivoEn, CuentaTablas, TablasEn
<1> QED
  BY <1>1, <1>2, <1>3, <1>4 DEF Atendida

(* A hole gives as much as is asked of it.                                  *)
LEMMA OcuparSuma ==
  ASSUME NEW h \in Seq(Tramos), NEW i \in DOMAIN h, NEW n \in Nat, h[i].limite >= n
  PROVE  /\ Ocupar(h, i, n) \in Seq(Tramos)
         /\ SumaLimites(Ocupar(h, i, n)) + n = SumaLimites(h)
<1>0. h[i] \in Tramos /\ h[i].base \in Nat /\ h[i].limite \in Nat
  <2>1. h[i] \in Tramos
    OBVIOUS
  <2> QED
    BY <2>1 DEF Tramos
<1>1. CASE h[i].limite = n
  <2>1. Ocupar(h, i, n) = Sin(h, i) /\ Sin(h, i) \in Seq(Tramos)
    BY <1>1, SinSon DEF Ocupar
  <2>2. SumaLimites(h) = n + SumaLimites(Sin(h, i))
    BY <1>1, TramosConLimite, SumaSeqSin
  <2>3. SumaLimites(Sin(h, i)) \in Nat
    BY <2>1, TramosConLimite, SumaSeq
  <2>4. SumaLimites(Sin(h, i)) + n = SumaLimites(h)
    BY <2>2, <2>3
  <2> QED
    BY <2>1, <2>4
<1>2. CASE h[i].limite # n
  <2> DEFINE x == Tramo(h[i].base + n, h[i].limite - n)
             r == [h EXCEPT ![i] = x]
  <2>1. x \in Tramos /\ x.limite = h[i].limite - n
    BY <1>0, <1>2 DEF Tramo, Tramos
  <2>2. Ocupar(h, i, n) = r
    BY <1>2 DEF Ocupar
  <2> HIDE DEF x
  <2>3. r \in Seq(Tramos)
    BY <2>1
  <2>4. SumaLimites(r) + h[i].limite = SumaLimites(h) + x.limite
    BY <2>1, TramosConLimite, SumaSeqCambia
  <2>5. SumaLimites(r) \in Nat /\ SumaLimites(h) \in Nat
    <3> HIDE DEF r
    <3> QED
      BY <2>3, TramosConLimite, SumaSeq
  <2> HIDE DEF r
  <2>6. SumaLimites(r) + n = SumaLimites(h)
    BY <1>0, <2>1, <2>4, <2>5
  <2> QED
    BY <2>2, <2>3, <2>6
<1> QED
  BY <1>1, <1>2

LEMMA ElegidosSon ==
  ASSUME NEW h \in Seq(Tramos), NEW n \in Nat, NEW i \in Elegidos(h, n)
  PROVE  i \in DOMAIN h /\ h[i].limite >= n /\ h[i].base \in Nat /\ h[i].limite \in Nat
<1>1. i \in DOMAIN h /\ h[i].limite >= n
  BY DEF Elegidos
<1>2. h[i] \in Tramos
  BY <1>1
<1> QED
  BY <1>1, <1>2 DEF Tramos

(* The segment that crear_segmento builds.                                  *)
Creado(m, h, i) == [id |-> m.id, base |-> h[i].base, limite |-> m.tam]
Ocupado(m, T, h, i) ==
  /\ i \in DOMAIN h /\ h[i].limite >= m.tam /\ Creado(m, h, i) \in Segs
  /\ tabla_segmentos' = [T EXCEPT ![m.pid] = Append(@, Creado(m, h, i))]
  /\ lista_huecos_memoria' = Ocupar(h, i, m.tam)
  /\ memoria_libre_actual' = memoria_libre_actual - m.tam

LEMMA AsignarSon ==
  ASSUME NEW m \in Ordenados, m.op = "CREAR_SEGMENTO",
         VivoEn(m, tabla_segmentos, lista_procesos, peticion_eliminacion),
         NEW T, NEW h \in Seq(Tramos), NEW i \in Elegidos(h, m.tam), Asignar(m, T, h, i)
  PROVE  Ocupado(m, T, h, i)
<1>1. m.tam \in Nat \ {0} /\ m.id \in Ids
  BY DEF VivoEn
<1>2. i \in DOMAIN h /\ h[i].limite >= m.tam /\ h[i].base \in Nat
  BY <1>1, ElegidosSon
<1>3. Creado(m, h, i) \in Segs
  BY <1>1, <1>2 DEF Creado, Segs
<1> QED
  BY <1>2, <1>3 DEF Asignar, Ocupado, Creado

LEMMA EfectoCrear ==
  ASSUME CuentaInv, CrearEnHueco
  PROVE  /\ Atendida(Head(entrada), "CREAR_SEGMENTO") /\ entrada' = Tail(entrada)
         /\ Head(entrada).tam <= memoria_libre_actual
         /\ \E i : Ocupado(Head(entrada), tabla_segmentos, lista_huecos_memoria, i)
<1> DEFINE m == Head(entrada)
<1>1. Atendida(m, "CREAR_SEGMENTO") /\ entrada' = Tail(entrada)
  BY AtiendeSon DEF CrearEnHueco, CuentaInv, Ops
<1>2. m \in Ordenados /\ m.op = "CREAR_SEGMENTO" /\ m.tam \in Nat
      /\ VivoEn(m, tabla_segmentos, lista_procesos, peticion_eliminacion)
  BY <1>1 DEF Atendida, VivoEn
<1>3. m.tam <= memoria_libre_actual
  BY <1>2 DEF CrearEnHueco, Rechaza, CuentaInv, CuentaLibre
<1>4. PICK i \in Elegidos(lista_huecos_memoria, m.tam) :
        Asignar(m, tabla_segmentos, lista_huecos_memoria, i)
  BY DEF CrearEnHueco
<1>5. lista_huecos_memoria \in Seq(Tramos)
  BY DEF CuentaInv, CuentaHuecos
<1> HIDE DEF m
<1>6. Ocupado(m, tabla_segmentos, lista_huecos_memoria, i)
  BY <1>2, <1>4, <1>5, AsignarSon
<1> QED
  BY <1>1, <1>3, <1>6 DEF m

(* A compaction either finds no stick for its hole or gives the segment: no *)
(* request is left without one.                                             *)
LEMMA EfectoCompactar ==
  ASSUME CuentaInv, CrearCompactar
  PROVE  \/ /\ viva' = FALSE /\ UNCHANGED <<tabla_segmentos, lista_huecos_memoria,
                                            memoria_libre_actual, respuesta>>
         \/ /\ UNCHANGED viva /\ respuesta' = "SEGMENTO_CREADO_COMPACTANDO"
            /\ \E o \in Ordenes : \E h \in Seq(Tramos) : \E i :
                 /\ \A j \in DOMAIN h : h[j].base >= MemoriaUsada
                 /\ Ocupado(esperando, TablasCompactas(o), h, i)
<1> DEFINE U == MemoriaUsada
           m == esperando
           h == HuecosTras(U)
<1>1. CASE U < capacidad_memoria_total /\ SticksDe(U) = {}
  BY <1>1 DEF CrearCompactar
<1>2. CASE ~ (U < capacidad_memoria_total /\ SticksDe(U) = {})
  <2>1. UNCHANGED viva
    BY <1>2 DEF CrearCompactar
  <2>2. PICK o \in Ordenes :
          IF Elegidos(h, m.tam) = {}
            THEN TRUE
            ELSE /\ \E i \in Elegidos(h, m.tam) : Asignar(m, TablasCompactas(o), h, i)
                 /\ respuesta' = "SEGMENTO_CREADO_COMPACTANDO"
    BY <1>2 DEF CrearCompactar
  <2>3. /\ m \in Ordenados /\ m.op = "CREAR_SEGMENTO" /\ m.tam \in Nat \ {0}
        /\ VivoEn(m, tabla_segmentos, lista_procesos, peticion_eliminacion)
        /\ m.tam <= memoria_libre_actual
    BY DEF CrearCompactar, CuentaInv, CuentaEspera, EsperaEn, VivoEn
  <2>4. U = UsadaDe(tabla_segmentos, lista_procesos) /\ U \in Nat
    BY FinitosOK, UsadaSon, UsadaTipo DEF CuentaInv, CuentaTablas, TablasEn
  <2>5. /\ capacidad_memoria_total \in Nat /\ memoria_libre_actual \in Nat
        /\ memoria_libre_actual + U <= capacidad_memoria_total
    BY <2>4 DEF CuentaInv, CuentaTipos, CuentaLibre
  <2>6. /\ U < capacidad_memoria_total /\ capacidad_memoria_total - U >= m.tam
    BY <2>3, <2>4, <2>5
  <2>7. /\ h \in Seq(Tramos) /\ \A j \in DOMAIN h : h[j].base >= U
        /\ \E j \in DOMAIN h : h[j].limite = capacidad_memoria_total - U
    <3>1. SticksEnOrden
      BY DEF CuentaInv, CuentaSticks
    <3>2. SticksDe(U) # {} /\ U \in Nat /\ U <= capacidad_memoria_total
      BY <1>2, <2>4, <2>5, <2>6
    <3> HIDE DEF U
    <3>3. /\ HuecosTras(U) \in Seq(Tramos)
          /\ \A j \in DOMAIN HuecosTras(U) : HuecosTras(U)[j].base >= U
          /\ \E j \in DOMAIN HuecosTras(U) :
               HuecosTras(U)[j].limite = capacidad_memoria_total - U
      BY <2>5, <2>6, <3>1, <3>2, HuecosTrasSon
    <3> QED
      BY <3>3
  <2> HIDE DEF h, m, U
  <2>8. Elegidos(h, m.tam) # {}
    <3>1. PICK j \in DOMAIN h : h[j].limite >= m.tam
      BY <2>6, <2>7
    <3> QED
      BY <2>3, <2>7, <3>1, ElegidosAlguno
  <2>9. PICK i \in Elegidos(h, m.tam) : Asignar(m, TablasCompactas(o), h, i)
    BY <2>2, <2>8
  <2>10. Ocupado(m, TablasCompactas(o), h, i)
    BY <2>3, <2>7, <2>9, AsignarSon
  <2> QED
    BY <2>1, <2>2, <2>7, <2>8, <2>10 DEF m, U
<1> QED
  BY <1>1, <1>2

-----------------------------------------------------------------------------
(* The steps.                                                               *)

(* Every step keeps each part of CuentaInv.                                 *)
LEMMA TiposPaso ==
  ASSUME CuentaTipos, TipoConexion, [Next]_varsS
  PROVE  CuentaTipos'
<1>1. CASE ConectarMs
  <2>1. por_conectar # <<>> => Head(por_conectar) \in Nat
    BY DEF TipoConexion
  <2> QED
    BY <1>1, <2>1
    DEF ConectarMs, ConectarContar, ConectarListar, ConectarHueco, CuentaTipos, procesos,
        protocolo, memoria
<1>2. CASE CrearSegmento
  BY <1>2
  DEF CrearSegmento, CrearRechazar, CrearEnHueco, CrearAvisar, CrearCompactar, CuentaTipos,
      procesos, memoria
<1>3. CASE Eliminar \/ Finalizar
  BY <1>3
  DEF Eliminar, EliminarSegmento, EliminarInexistente, Finalizar, FinalizarInmediato,
      FinalizarDiferido, CuentaTipos, procesos, memoria
<1>4. CASE ConfirmarCompactacion
  BY <1>4 DEF ConfirmarCompactacion, CuentaTipos, procesos, memoria
<1>5. ASSUME NEW p \in Procesos,
             CargarProceso(p) \/ Pedir(p) \/ ObtenerContexto(p) \/ ActualizarContexto(p)
      PROVE  CuentaTipos'
  BY <1>5
  DEF CargarProceso, Pedir, ObtenerContexto, ActualizarContexto, CuentaTipos, procesos,
      memoria, protocolo
<1>6. CASE UNCHANGED varsS
  BY <1>6 DEF varsS, CuentaTipos, procesos, memoria, protocolo
<1> QED
  BY <1>1, <1>2, <1>3, <1>4, <1>5, <1>6 DEF Next

(* The stick that connects goes after the last.                             *)
LEMMA SticksPaso ==
  ASSUME CuentaSticks, TipoConexion, [Next]_varsS
  PROVE  CuentaSticks'
<1>0. SticksEnOrden /\ lista_memory_sticks \in Seq(Tramos)
  BY DEF CuentaSticks, SticksEnOrden
<1>1. CASE ConectarContar
  BY <1>0, <1>1 DEF ConectarContar, CuentaSticks, SticksEnOrden
<1>2. CASE ConectarListar
  <2> DEFINE ms == lista_memory_sticks
             n == Len(ms)
             x == Tramo(BaseSiguiente, Head(por_conectar))
             r == Append(ms, x)
  <2>1. Head(por_conectar) \in Nat /\ BaseSiguiente \in Nat
    BY <1>2, TopeTipo DEF ConectarListar, TipoConexion
  <2>2. x \in Tramos /\ x.base = BaseSiguiente /\ x.limite = Head(por_conectar)
    BY <2>1 DEF Tramo, Tramos
  <2>3. lista_memory_sticks' = r /\ paso_ms' = "hueco" /\ por_conectar' = por_conectar
    BY <1>2 DEF ConectarListar
  <2> HIDE DEF x
  <2>4. /\ r \in Seq(Tramos) /\ Len(r) = n + 1 /\ n \in Nat /\ r[n + 1] = x
        /\ DOMAIN r = 1..(n + 1) /\ DOMAIN ms = 1..n /\ \A i \in DOMAIN ms : r[i] = ms[i]
    BY <1>0, <2>2
  <2>5. ASSUME NEW i \in DOMAIN ms
        PROVE  Fin(ms[i]) <= BaseSiguiente
    <3>1. /\ ms[i] \in Tramos /\ ms[n] \in Tramos /\ n \in DOMAIN ms /\ i \in Nat
      BY <1>0, <2>5
    <3>2. /\ ms[i].base \in Nat /\ ms[i].limite \in Nat
          /\ ms[n].base \in Nat /\ ms[n].limite \in Nat
      BY <3>1 DEF Tramos
    <3>3. BaseSiguiente = Fin(ms[n]) /\ Fin(ms[n]) = ms[n].base + ms[n].limite
      BY <3>1 DEF BaseSiguiente, Fin
    <3>4. Fin(ms[i]) \in Nat
      BY <3>2 DEF Fin
    <3>5. CASE i = n
      BY <3>3, <3>4, <3>5
    <3>6. CASE i < n
      <4>1. Fin(ms[i]) <= ms[n].base
        BY <1>0, <3>1, <3>6 DEF SticksEnOrden
      <4> QED
        BY <3>2, <3>3, <3>4, <4>1
    <3> QED
      BY <2>4, <3>1, <3>5, <3>6
  <2>6. ASSUME NEW i \in DOMAIN r, NEW j \in DOMAIN r, i < j
        PROVE  Fin(r[i]) <= r[j].base
    <3>1. i \in DOMAIN ms /\ (j \in DOMAIN ms \/ j = n + 1)
      BY <2>4, <2>6
    <3>2. CASE j = n + 1
      BY <2>2, <2>4, <2>5, <3>1, <3>2
    <3>3. CASE j \in DOMAIN ms
      <4>1. Fin(ms[i]) <= ms[j].base /\ r[i] = ms[i] /\ r[j] = ms[j]
        BY <1>0, <2>4, <2>6, <3>1, <3>3 DEF SticksEnOrden
      <4> QED
        BY <4>1
    <3> QED
      BY <3>1, <3>2, <3>3
  <2> HIDE DEF r
  <2>7. SticksEnOrden'
    BY <2>3, <2>4, <2>6 DEF SticksEnOrden
  <2>8. lista_memory_sticks'[Len(lista_memory_sticks')].limite = Head(por_conectar)
    BY <2>2, <2>3, <2>4
  <2> QED
    BY <2>3, <2>7, <2>8 DEF CuentaSticks
<1>3. CASE ConectarHueco
  BY <1>0, <1>3 DEF ConectarHueco, CuentaSticks, SticksEnOrden, memoria
<1>4. CASE UNCHANGED <<memoria, conexion>>
  BY <1>4 DEF memoria, conexion, CuentaSticks, SticksEnOrden
<1>5. CASE CrearSegmento \/ Eliminar \/ Finalizar \/ ConfirmarCompactacion
  BY <1>4, <1>5
  DEF CrearSegmento, CrearRechazar, CrearEnHueco, CrearAvisar, CrearCompactar, Eliminar,
      EliminarSegmento, EliminarInexistente, Finalizar, FinalizarInmediato,
      FinalizarDiferido, ConfirmarCompactacion
<1>6. CASE \E p \in Procesos : CargarProceso(p) \/ Pedir(p) \/ ObtenerContexto(p)
                              \/ ActualizarContexto(p)
  BY <1>4, <1>6 DEF CargarProceso, Pedir, ObtenerContexto, ActualizarContexto
<1> QED
  BY <1>1, <1>2, <1>3, <1>4, <1>5, <1>6 DEF Next, ConectarMs, varsS

(* Until a compaction the count of free memory follows the holes.           *)
LEMMA HuecosPaso ==
  ASSUME CuentaInv, [Next]_varsS
  PROVE  CuentaHuecos'
<1> DEFINE H == lista_huecos_memoria
           libre == memoria_libre_actual
<1>0. /\ H \in Seq(Tramos) /\ SumaLimites(H) \in Nat /\ libre \in Nat
      /\ TipoConexion /\ TipoEntrada /\ compactaciones \in Nat
      /\ compactaciones = 0 => libre = SumaLimites(H) + PorEntrar
  BY TramosConLimite, SumaSeq DEF CuentaInv, CuentaHuecos, CuentaLibre, TipoEntrada
<1>a. paso_ms # "contar" => Head(por_conectar) \in Nat
  BY <1>0 DEF TipoConexion
<1>b. PorEntrar \in Nat
  BY <1>a DEF PorEntrar
<1>1. CASE ConectarContar
  <2>1. Head(por_conectar) \in Nat
    BY <1>0, <1>1 DEF ConectarContar, TipoConexion
  <2>2. /\ libre' = libre + Head(por_conectar) /\ H' = H /\ compactaciones' = compactaciones
        /\ PorEntrar = 0 /\ PorEntrar' = Head(por_conectar)
    BY <1>1 DEF ConectarContar, PorEntrar
  <2> QED
    BY <1>0, <2>1, <2>2 DEF CuentaHuecos
<1>2. CASE ConectarListar
  <2>1. libre' = libre /\ H' = H /\ compactaciones' = compactaciones /\ PorEntrar' = PorEntrar
    BY <1>2 DEF ConectarListar, PorEntrar
  <2> QED
    BY <1>0, <2>1 DEF CuentaHuecos
<1>3. CASE ConectarHueco
  <2> DEFINE x == lista_memory_sticks[Len(lista_memory_sticks)]
  <2>1. x \in Tramos /\ x.limite = Head(por_conectar) /\ Head(por_conectar) \in Nat
    BY <1>0, <1>3 DEF ConectarHueco, TipoConexion, CuentaInv, CuentaSticks
  <2>2. /\ libre' = libre /\ H' = Append(H, x) /\ compactaciones' = compactaciones
        /\ PorEntrar' = 0 /\ PorEntrar = Head(por_conectar)
    BY <1>3 DEF ConectarHueco, PorEntrar
  <2> HIDE DEF x
  <2>3. SumaLimites(Append(H, x)) = SumaLimites(H) + x.limite /\ Append(H, x) \in Seq(Tramos)
    BY <1>0, <2>1, TramosConLimite, SumaSeqAppend
  <2>4. H' \in Seq(Tramos) /\ SumaLimites(H') = SumaLimites(H) + Head(por_conectar)
    BY <2>1, <2>2, <2>3
  <2> QED
    BY <1>0, <2>1, <2>2, <2>4 DEF CuentaHuecos
<1>4. CASE UNCHANGED <<H, libre, compactaciones, conexion>>
  BY <1>0, <1>4 DEF conexion, CuentaHuecos, PorEntrar
<1>5. CASE CrearEnHueco
  <2> DEFINE m == Head(entrada)
  <2>1. PICK i : Ocupado(m, tabla_segmentos, H, i)
    BY <1>5, EfectoCrear
  <2>2. m.tam \in Nat /\ m.tam <= libre
    BY <1>5, EfectoCrear DEF Atendida, VivoEn
  <2> HIDE DEF m
  <2>3. i \in DOMAIN H /\ H[i].limite >= m.tam /\ H' = Ocupar(H, i, m.tam) /\ libre' = libre - m.tam
    BY <2>1 DEF Ocupado
  <2>4. /\ Ocupar(H, i, m.tam) \in Seq(Tramos)
        /\ SumaLimites(Ocupar(H, i, m.tam)) + m.tam = SumaLimites(H)
    BY <1>0, <2>2, <2>3, OcuparSuma
  <2>5. SumaLimites(Ocupar(H, i, m.tam)) \in Nat
    BY <2>4, TramosConLimite, SumaSeq
  <2>6. H' \in Seq(Tramos) /\ SumaLimites(H') + m.tam = SumaLimites(H) /\ SumaLimites(H') \in Nat
    BY <2>3, <2>4, <2>5
  <2>7. compactaciones' = compactaciones /\ PorEntrar' = PorEntrar
    BY <1>5 DEF CrearEnHueco, conexion, PorEntrar
  <2> QED
    BY <1>0, <1>b, <2>2, <2>3, <2>6, <2>7 DEF CuentaHuecos
<1>6. CASE CrearCompactar
  <2>1. compactaciones' # 0
    BY <1>0, <1>6 DEF CrearCompactar
  <2>2. H' \in Seq(Tramos)
    <3>1. CASE UNCHANGED H
      BY <1>0, <3>1
    <3>2. ASSUME NEW o \in Ordenes, NEW h \in Seq(Tramos), NEW i,
                 Ocupado(esperando, TablasCompactas(o), h, i)
          PROVE  H' \in Seq(Tramos)
      <4>1. esperando.tam \in Nat
        BY <1>6 DEF CrearCompactar, CuentaInv, CuentaEspera, EsperaEn, VivoEn
      <4>2. i \in DOMAIN h /\ h[i].limite >= esperando.tam /\ H' = Ocupar(h, i, esperando.tam)
        BY <3>2 DEF Ocupado
      <4> QED
        BY <4>1, <4>2, OcuparSuma
    <3> QED
      BY <1>6, <3>1, <3>2, EfectoCompactar
  <2> QED
    BY <2>1, <2>2 DEF CuentaHuecos
<1>7. CASE EliminarSegmento
  <2> DEFINE p == Head(entrada).pid
             t == tabla_segmentos[p]
  <2>1. p \in Procesos
    BY <1>7, AtiendeSon DEF EliminarSegmento, Ops, CuentaInv, Atendida
  <2>2. t \in Seq(Segs)
    BY <2>1 DEF CuentaInv, CuentaTablas, TablasEn, CabenTablas
  <2>3. PICK k \in DOMAIN t : /\ H' = Append(H, Liberado(t[k])) /\ libre' = libre + t[k].limite
    BY <1>7 DEF EliminarSegmento
  <2> HIDE DEF t
  <2> DEFINE x == Liberado(t[k])
             l == t[k].limite
  <2>4. x \in Tramos /\ x.limite = l /\ l \in Nat
    <3>1. t[k] \in Segs
      BY <2>2
    <3> QED
      BY <3>1 DEF Liberado, Tramo, Tramos, Segs
  <2> HIDE DEF x, l
  <2>5. SumaLimites(Append(H, x)) = SumaLimites(H) + l /\ Append(H, x) \in Seq(Tramos)
    BY <1>0, <2>4, TramosConLimite, SumaSeqAppend
  <2>6. H' \in Seq(Tramos) /\ SumaLimites(H') = SumaLimites(H) + l /\ libre' = libre + l
    BY <2>3, <2>5 DEF x, l
  <2>7. compactaciones' = compactaciones /\ PorEntrar' = PorEntrar
    BY <1>7 DEF EliminarSegmento, conexion, PorEntrar
  <2>8. libre = SumaLimites(H) + PorEntrar => libre' = SumaLimites(H') + PorEntrar'
    BY <1>0, <1>b, <2>4, <2>6, <2>7
  <2> QED
    BY <1>0, <2>6, <2>7, <2>8 DEF CuentaHuecos
<1>8. CASE FinalizarInmediato
  <2> DEFINE p == Head(entrada).pid
             t == tabla_segmentos[p]
             n == [k \in DOMAIN t |-> Liberado(t[k])]
  <2>1. p \in Procesos
    BY <1>8, AtiendeSon DEF FinalizarInmediato, Ops, CuentaInv, Atendida
  <2>2. t \in Seq(Segs)
    BY <2>1 DEF CuentaInv, CuentaTablas, TablasEn, CabenTablas
  <2>3. H' = H \o n /\ libre' = libre + SumaLimites(t)
    BY <1>8 DEF FinalizarInmediato
  <2> HIDE DEF t
  <2>4. n \in Seq(Tramos) /\ Len(n) = Len(t) /\ \A k \in 1 .. Len(t) : n[k] = Liberado(t[k])
    BY <2>2, TodosLiberados
  <2> HIDE DEF n
  <2>5. DOMAIN n = DOMAIN t /\ \A k \in DOMAIN t : n[k].limite = t[k].limite
    <3>1. DOMAIN t = 1..Len(t) /\ DOMAIN n = 1..Len(n)
      BY <2>2, <2>4
    <3> QED
      BY <2>4, <3>1 DEF Liberado, Tramo
  <2>6. SumaLimites(n) = SumaLimites(t)
    BY <2>2, <2>4, <2>5, TramosConLimite, SumaSeqIgual
  <2>7. SumaLimites(H \o n) = SumaLimites(H) + SumaLimites(n)
    BY <1>0, <2>4, TramosConLimite, SumaSeqConcat
  <2>8. SumaLimites(t) \in Nat
    BY <2>2, TramosConLimite, SumaSeq
  <2>9. H' \in Seq(Tramos) /\ SumaLimites(H') = SumaLimites(H) + SumaLimites(t)
    BY <1>0, <2>3, <2>4, <2>6, <2>7
  <2>10. compactaciones' = compactaciones /\ PorEntrar' = PorEntrar
    BY <1>8 DEF FinalizarInmediato, conexion, PorEntrar
  <2> QED
    BY <1>0, <1>b, <2>3, <2>8, <2>9, <2>10 DEF CuentaHuecos
<1>9. CASE CrearRechazar \/ CrearAvisar \/ EliminarInexistente \/ FinalizarDiferido
           \/ ConfirmarCompactacion
  BY <1>4, <1>9
  DEF CrearRechazar, CrearAvisar, EliminarInexistente, FinalizarDiferido, ConfirmarCompactacion
<1>10. CASE \E p \in Procesos : CargarProceso(p) \/ Pedir(p) \/ ObtenerContexto(p)
                               \/ ActualizarContexto(p)
  BY <1>4, <1>10 DEF CargarProceso, Pedir, ObtenerContexto, ActualizarContexto
<1>11. CASE UNCHANGED varsS
  BY <1>4, <1>11 DEF varsS
<1> QED
  BY <1>1, <1>2, <1>3, <1>5, <1>6, <1>7, <1>8, <1>9, <1>10, <1>11
  DEF Next, ConectarMs, CrearSegmento, Eliminar, Finalizar

(* The tables, with the memory that is counted as free beside them.         *)
LEMMA TablasPaso ==
  ASSUME CuentaInv, [Next]_varsS
  PROVE  CuentaTablas' /\ CuentaLibre'
<1> DEFINE T == tabla_segmentos
           L == lista_procesos
           U == UsadaDe(T, L)
           libre == memoria_libre_actual
           cap == capacidad_memoria_total
<1>0. /\ TablasEn(T, L) /\ CabenTablas(T) /\ L \subseteq Procesos /\ U \in Nat
      /\ libre \in Nat /\ cap \in Nat /\ libre + U <= cap
  <2>1. TablasEn(T, L) /\ CabenTablas(T) /\ L \subseteq Procesos
    BY DEF CuentaInv, CuentaTablas, TablasEn
  <2> QED
    BY <2>1, UsadaTipo DEF CuentaInv, CuentaLibre, CuentaTipos
<1>1. CASE ConectarContar
  <2>1. Head(por_conectar) \in Nat
    BY <1>1 DEF ConectarContar, CuentaInv, TipoConexion
  <2>2. /\ T' = T /\ L' = L /\ libre' = libre + Head(por_conectar)
        /\ cap' = cap + Head(por_conectar)
    BY <1>1 DEF ConectarContar, procesos
  <2>3. libre' \in Nat /\ libre' + U <= cap'
    BY <1>0, <2>1, <2>2
  <2> QED
    BY <1>0, <2>2, <2>3 DEF CuentaTablas, CuentaLibre
<1>2. CASE UNCHANGED <<T, L, libre, cap>>
  BY <1>0, <1>2 DEF CuentaTablas, CuentaLibre
<1>3. CASE CrearEnHueco
  <2> DEFINE m == Head(entrada)
  <2>1. Atendida(m, "CREAR_SEGMENTO") /\ m.tam <= libre
    BY <1>3, EfectoCrear
  <2>2. PICK i : Ocupado(m, T, lista_huecos_memoria, i)
    BY <1>3, EfectoCrear
  <2>3. L' = L /\ cap' = cap
    BY <1>3 DEF CrearEnHueco, memoria
  <2> HIDE DEF m
  <2> DEFINE s == Creado(m, lista_huecos_memoria, i)
             R == [T EXCEPT ![m.pid] = Append(@, s)]
  <2>4. m.pid \in L /\ m.id \notin IdsEn(T, m.pid) /\ m.tam \in Nat \ {0}
    BY <2>1 DEF Atendida, VivoEn
  <2>5. s \in Segs /\ s.limite = m.tam /\ s.id = m.id
    BY <2>2 DEF Ocupado, Creado
  <2>6. T' = R /\ libre' = libre - m.tam
    BY <2>2 DEF Ocupado
  <2> HIDE DEF s
  <2>7. TablasEn(R, L) /\ UsadaDe(R, L) = U + m.tam
    BY <1>0, <2>4, <2>5, AgregaSegmento
  <2>8. libre' \in Nat /\ libre' + (U + m.tam) <= cap
    BY <1>0, <2>1, <2>4, <2>6
  <2> HIDE DEF R
  <2> QED
    BY <2>3, <2>6, <2>7, <2>8 DEF CuentaTablas, CuentaLibre
<1>4. CASE CrearCompactar
  <2> DEFINE m == esperando
  <2>1. L' = L /\ cap' = cap
    BY <1>4 DEF CrearCompactar, memoria
  <2>2. /\ m.op = "CREAR_SEGMENTO" /\ m \in Ordenados /\ m.tam <= libre
        /\ VivoEn(m, T, L, peticion_eliminacion)
    BY <1>4 DEF CrearCompactar, CuentaInv, CuentaEspera, EsperaEn
  <2>3. m.pid \in L /\ m.id \notin IdsEn(T, m.pid) /\ m.tam \in Nat \ {0}
    BY <2>2 DEF VivoEn
  <2>4. CASE UNCHANGED <<T, libre>>
    BY <1>2, <2>1, <2>4
  <2>5. ASSUME NEW o \in Ordenes, NEW h, NEW i, Ocupado(m, TablasCompactas(o), h, i)
        PROVE  CuentaTablas' /\ CuentaLibre'
    <3> DEFINE Q == TablasCompactas(o)
               s == Creado(m, h, i)
               R == [Q EXCEPT ![m.pid] = Append(@, s)]
    <3>1. s \in Segs /\ s.limite = m.tam /\ s.id = m.id
      BY <2>5 DEF Ocupado, Creado
    <3>2. T' = R /\ libre' = libre - m.tam
      BY <2>5 DEF Ocupado
    <3>3. /\ TablasEn(Q, L) /\ UsadaDe(Q, L) = U
          /\ \A p \in Procesos : IdsEn(Q, p) = IdsEn(T, p)
      <4>1. MemoriaUsada = U
        BY FinitosOK, UsadaSon
      <4> QED
        BY <1>0, <4>1, CompactaTablas
    <3> HIDE DEF s, Q
    <3>4. s.id \notin IdsEn(Q, m.pid)
      BY <1>0, <2>3, <3>1, <3>3
    <3>5. TablasEn(R, L) /\ UsadaDe(R, L) = U + m.tam
      BY <2>3, <3>1, <3>3, <3>4, AgregaSegmento
    <3>6. libre' \in Nat /\ libre' + (U + m.tam) <= cap
      BY <1>0, <2>2, <2>3, <3>2
    <3> HIDE DEF R
    <3> QED
      BY <2>1, <3>2, <3>5, <3>6 DEF CuentaTablas, CuentaLibre
  <2> QED
    BY <1>4, <2>4, <2>5, EfectoCompactar
<1>5. CASE EliminarSegmento
  <2> DEFINE p == Head(entrada).pid
  <2>1. p \in L
    BY <1>5, AtiendeSon DEF EliminarSegmento, Ops, CuentaInv, Atendida, VivoEn
  <2>2. PICK k \in DOMAIN T[p] : libre' = libre + T[p][k].limite
                                 /\ T' = [T EXCEPT ![p] = Sin(@, k)]
    BY <1>5 DEF EliminarSegmento
  <2>3. L' = L /\ cap' = cap
    BY <1>5 DEF EliminarSegmento, memoria
  <2> HIDE DEF p
  <2> DEFINE R == [T EXCEPT ![p] = Sin(@, k)]
             l == T[p][k].limite
  <2>4. TablasEn(R, L) /\ U = UsadaDe(R, L) + l
    BY <1>0, <2>1, QuitaSegmento
  <2>5. UsadaDe(R, L) \in Nat
    BY <1>0, <2>4, UsadaTipo DEF TablasEn
  <2>6. l \in Nat
    <3>1. T[p][k] \in Segs
      BY <1>0, <2>1 DEF CabenTablas
    <3> QED
      BY <3>1 DEF Segs
  <2>7. T' = R /\ libre' = libre + l
    BY <2>2
  <2> HIDE DEF R, l
  <2>8. libre' \in Nat /\ libre' + UsadaDe(R, L) <= cap
    BY <1>0, <2>4, <2>5, <2>6, <2>7
  <2> QED
    BY <2>3, <2>4, <2>7, <2>8 DEF CuentaTablas, CuentaLibre
<1>6. ASSUME NEW p \in L, L' = L \ {p}, T' = [T EXCEPT ![p] = <<>>], cap' = cap,
             libre' = libre \/ libre' = libre + SumaLimites(T[p])
      PROVE  CuentaTablas' /\ CuentaLibre'
  <2> DEFINE R == [T EXCEPT ![p] = <<>>]
             W == UsadaDe(R, L \ {p})
             l == SumaLimites(T[p])
  <2>1. TablasEn(R, L \ {p}) /\ U = W + l
    BY <1>0, BorraTabla
  <2>2. W \in Nat
    BY <1>0, <2>1, UsadaTipo DEF TablasEn
  <2>3. l \in Nat
    <3>1. T[p] \in Seq(Segs)
      BY <1>0 DEF CabenTablas
    <3> QED
      BY <3>1, TramosConLimite, SumaSeq
  <2> HIDE DEF l, W
  <2>4. libre' \in Nat /\ libre' + W <= cap
    BY <1>0, <1>6, <2>1, <2>2, <2>3 DEF l
  <2> QED
    BY <1>6, <2>1, <2>4 DEF CuentaTablas, CuentaLibre, W
<1>7. CASE FinalizarInmediato
  <2> DEFINE p == Head(entrada).pid
  <2>1. p \in L
    BY <1>7, AtiendeSon DEF FinalizarInmediato, Ops, CuentaInv, Atendida, VivoEn
  <2>2. /\ L' = L \ {p} /\ T' = [T EXCEPT ![p] = <<>>] /\ cap' = cap
        /\ libre' = libre + SumaLimites(T[p])
    BY <1>7 DEF FinalizarInmediato, memoria
  <2> HIDE DEF p
  <2> QED
    BY <1>6, <2>1, <2>2
<1>8. ASSUME NEW p \in Procesos, ActualizarContexto(p)
      PROVE  CuentaTablas' /\ CuentaLibre'
  <2>1. libre' = libre /\ cap' = cap /\ p \in L
    BY <1>8 DEF ActualizarContexto, memoria
  <2>2. \/ T' = T /\ L' = L
        \/ L' = L \ {p} /\ T' = [T EXCEPT ![p] = <<>>]
    BY <1>8 DEF ActualizarContexto
  <2> QED
    BY <1>2, <1>6, <2>1, <2>2
<1>9. ASSUME NEW p \in Procesos, CargarProceso(p)
      PROVE  CuentaTablas' /\ CuentaLibre'
  <2>1. /\ T' = T /\ L' = L \cup {p} /\ libre' = libre /\ cap' = cap /\ p \notin L
    BY <1>9 DEF CargarProceso, memoria, CuentaInv, CuentaTipos
  <2>2. TablasEn(T, L \cup {p}) /\ UsadaDe(T, L \cup {p}) = U
    BY <1>0, <2>1, CargaTabla
  <2> QED
    BY <1>0, <2>1, <2>2 DEF CuentaTablas, CuentaLibre
<1>10. CASE ConectarListar \/ ConectarHueco
  <2>1. UNCHANGED <<T, L, libre, cap>>
    BY <1>10 DEF ConectarListar, ConectarHueco, procesos, memoria
  <2> QED
    BY <1>2, <2>1
<1>11. CASE CrearRechazar \/ CrearAvisar \/ EliminarInexistente \/ FinalizarDiferido
            \/ ConfirmarCompactacion
  <2>1. UNCHANGED <<T, L, libre, cap>>
    BY <1>11
    DEF CrearRechazar, CrearAvisar, EliminarInexistente, FinalizarDiferido,
        ConfirmarCompactacion, procesos, memoria
  <2> QED
    BY <1>2, <2>1
<1>12. CASE \E p \in Procesos : Pedir(p) \/ ObtenerContexto(p)
  <2>1. UNCHANGED <<T, L, libre, cap>>
    BY <1>12 DEF Pedir, ObtenerContexto, procesos, memoria
  <2> QED
    BY <1>2, <2>1
<1>13. CASE UNCHANGED varsS
  BY <1>2, <1>13 DEF varsS, procesos, memoria
<1> QED
  BY <1>1, <1>3, <1>4, <1>5, <1>7, <1>8, <1>9, <1>10, <1>11, <1>12, <1>13
  DEF Next, ConectarMs, CrearSegmento, Eliminar, Finalizar

(* No request is left without an answer after a compaction.                 *)
LEMMA RespuestaPaso ==
  ASSUME CuentaInv, [Next]_varsS
  PROVE  CuentaRespuesta'
<1>1. CASE UNCHANGED respuesta
  BY <1>1 DEF CuentaInv, CuentaRespuesta
<1>2. CASE CrearCompactar
  BY <1>1, <1>2, EfectoCompactar DEF CuentaRespuesta
<1>3. CASE CrearRechazar \/ CrearEnHueco \/ EliminarSegmento \/ Finalizar
  BY <1>3
  DEF CrearRechazar, CrearEnHueco, EliminarSegmento, Finalizar, FinalizarInmediato,
      FinalizarDiferido, CuentaRespuesta
<1>4. CASE ConectarMs \/ CrearAvisar \/ EliminarInexistente \/ ConfirmarCompactacion
  BY <1>1, <1>4
  DEF ConectarMs, ConectarContar, ConectarListar, ConectarHueco, CrearAvisar,
      EliminarInexistente, ConfirmarCompactacion
<1>5. CASE \E p \in Procesos : CargarProceso(p) \/ Pedir(p) \/ ObtenerContexto(p)
                              \/ ActualizarContexto(p)
  BY <1>1, <1>5 DEF CargarProceso, Pedir, ObtenerContexto, ActualizarContexto
<1>6. CASE UNCHANGED varsS
  BY <1>1, <1>6 DEF varsS
<1> QED
  BY <1>2, <1>3, <1>4, <1>5, <1>6 DEF Next, CrearSegmento, Eliminar

(* What the scheduler asks for.                                             *)
LEMMA PedidoVivo ==
  ASSUME CuentaTipos, NEW p \in Procesos, PuedePedir(p), NEW m \in PedidosDe(p)
  PROVE  /\ m \in Ordenados /\ m.pid = p
         /\ VivoEn(m, tabla_segmentos, lista_procesos, peticion_eliminacion)
<1>1. m \in Ordenados
  BY TamanosOK DEF PedidosDe, Pedido, Ordenados, PedidosKs, Ops
<1>2. m.pid = p
  BY DEF PedidosDe, Pedido
<1>3. m.op = "CREAR_SEGMENTO" => m.id \in Ids \ IdsDe(p) /\ m.tam \in Nat \ {0}
  BY TamanosOK DEF PedidosDe, Pedido
<1>4. p \in lista_procesos /\ ~ peticion_eliminacion[p]
  BY DEF PuedePedir
<1>5. IdsDe(p) = IdsEn(tabla_segmentos, p)
  BY DEF IdsDe, IdsEn
<1> QED
  BY <1>1, <1>2, <1>3, <1>4, <1>5 DEF VivoEn

LEMMA SigueIgual ==
  ASSUME NEW q, NEW T, NEW L, NEW B, NEW T2, NEW L2, NEW B2, q \in L => q \in L2,
         B2[q] = B[q], T2[q] = T[q]
  PROVE  Sigue(q, T, L, B, T2, L2, B2)
<1>1. IdsEn(T2, q) \subseteq IdsEn(T, q)
  BY DEF IdsEn
<1> QED
  BY <1>1, Zenon DEF Sigue

(* The queue, while requests are added and taken.                           *)
LEMMA ColaPaso ==
  ASSUME CuentaInv, [Next]_varsS
  PROVE  CuentaCola'
<1> DEFINE e == entrada
           T == tabla_segmentos
           L == lista_procesos
           B == peticion_eliminacion
           sigue(q) == Sigue(q, T, L, B, T', L', B')
<1>0. /\ e \in Seq(Ordenados) /\ ColaEn(e, T, L, B) /\ CuentaTipos /\ CuentaTablas
      /\ TipoEntrada /\ CuentaCola /\ L \subseteq Procesos
      /\ T \in [Procesos -> Seq(Segs)] /\ B \in [Procesos -> BOOLEAN]
  BY DEF CuentaInv, TipoEntrada, CuentaCola, CuentaTipos, CuentaTablas, TablasEn, CabenTablas
<1>1. CASE UNCHANGED <<e, T, L, B>>
  BY <1>0, <1>1 DEF CuentaCola
<1>2. ASSUME e' = e, \A k \in DOMAIN e : Pide(e[k]) => sigue(e[k].pid)
      PROVE  CuentaCola'
  BY <1>0, <1>2, ColaSigue DEF CuentaCola
<1>3. ASSUME e' = Tail(e), e # <<>>, \A k \in DOMAIN e : k # 1 /\ Pide(e[k]) => sigue(e[k].pid)
      PROVE  CuentaCola'
  BY <1>0, <1>3, ColaTail DEF CuentaCola
<1>4. ASSUME UNCHANGED <<T, L, B>>, NEW m \in Ordenados, e' = Append(e, m),
             Pide(m) => VivoEn(m, T, L, B) /\ \A k \in DOMAIN e : Pide(e[k]) => e[k].pid # m.pid
      PROVE  CuentaCola'
  BY <1>0, <1>4, ColaAppend DEF CuentaCola
<1>5. ASSUME NEW op \in Ops \ {"OK"}, Atiende(op), NEW p, p = Head(e).pid,
             \A q \in L : q # p => q \in L' /\ B'[q] = B[q] /\ T'[q] = T[q]
      PROVE  CuentaCola'
  <2>1. Atendida(Head(e), op) /\ e' = Tail(e)
    BY <1>0, <1>5, AtiendeSon
  <2>2. ASSUME NEW k \in DOMAIN e, k # 1, Pide(e[k])
        PROVE  sigue(e[k].pid)
    <3>1. e[k].pid # p /\ e[k].pid \in L
      BY <1>0, <1>5, <2>1, <2>2 DEF Atendida, ColaEn, VivoEn
    <3> QED
      BY <1>5, <3>1, SigueIgual
  <2> QED
    BY <1>3, <2>1, <2>2 DEF Atendida
<1>6. CASE CrearRechazar \/ CrearAvisar \/ EliminarInexistente
  <2>1. UNCHANGED <<T, L, B>>
    BY <1>6 DEF CrearRechazar, CrearAvisar, EliminarInexistente, procesos
  <2>2. PICK op \in Ops \ {"OK"} : Atiende(op)
    BY <1>6 DEF CrearRechazar, CrearAvisar, EliminarInexistente, Ops
  <2> QED
    BY <1>5, <2>1, <2>2
<1>7. CASE CrearEnHueco
  <2> DEFINE m == Head(e)
  <2>1. Atiende("CREAR_SEGMENTO") /\ "CREAR_SEGMENTO" \in Ops \ {"OK"} /\ L' = L /\ B' = B
    BY <1>7 DEF CrearEnHueco, Ops
  <2>2. PICK i : Ocupado(m, T, lista_huecos_memoria, i)
    BY <1>7, EfectoCrear
  <2>3. \A q \in L : q # m.pid => T'[q] = T[q]
    <3> DEFINE s == Creado(m, lista_huecos_memoria, i)
    <3>1. T' = [T EXCEPT ![m.pid] = Append(@, s)]
      BY <2>2 DEF Ocupado
    <3> HIDE DEF s, m
    <3> QED
      BY <1>0, <3>1
  <2> QED
    BY <1>5, <2>1, <2>3
<1>8. CASE CrearCompactar
  <2> DEFINE m == esperando
  <2>1. e' = Tail(e) /\ e # <<>> /\ L' = L /\ B' = B
    BY <1>8 DEF CrearCompactar
  <2>2. \A k \in DOMAIN e : Pide(e[k]) => e[k].pid # m.pid
    BY <1>8 DEF CrearCompactar, CuentaInv, CuentaEspera, EsperaEn
  <2>3. \A q \in L : q # m.pid => IdsEn(T', q) = IdsEn(T, q)
    <3>1. CASE T' = T
      BY <3>1
    <3>2. ASSUME NEW o \in Ordenes, NEW h, NEW i, Ocupado(m, TablasCompactas(o), h, i)
          PROVE  \A q \in L : q # m.pid => IdsEn(T', q) = IdsEn(T, q)
      <4> DEFINE Q == TablasCompactas(o)
                 s == Creado(m, h, i)
      <4>1. T' = [Q EXCEPT ![m.pid] = Append(@, s)]
        BY <3>2 DEF Ocupado
      <4>2. TablasEn(Q, L) /\ \A p \in Procesos : IdsEn(Q, p) = IdsEn(T, p)
        BY <1>0, CompactaTablas DEF CuentaTablas
      <4>3. Q \in [Procesos -> Seq(Segs)]
        BY <4>2 DEF TablasEn, CabenTablas
      <4> HIDE DEF Q, s, m
      <4>4. ASSUME NEW q \in L, q # m.pid
            PROVE  IdsEn(T', q) = IdsEn(T, q)
        <5>1. T'[q] = Q[q]
          BY <1>0, <4>1, <4>3, <4>4
        <5>2. IdsEn(T', q) = IdsEn(Q, q)
          BY <5>1 DEF IdsEn
        <5> QED
          BY <1>0, <4>2, <5>2
      <4> QED
        BY <4>4
    <3> QED
      BY <1>8, <3>1, <3>2, EfectoCompactar
  <2>4. ASSUME NEW k \in DOMAIN e, Pide(e[k])
        PROVE  sigue(e[k].pid)
    <3>1. e[k].pid \in L
      BY <1>0, <2>4 DEF ColaEn, VivoEn
    <3>2. IdsEn(T', e[k].pid) = IdsEn(T, e[k].pid)
      BY <2>2, <2>3, <2>4, <3>1
    <3> QED
      BY <2>1, <3>1, <3>2 DEF Sigue
  <2> QED
    BY <1>3, <2>1, <2>4
<1>9. CASE EliminarSegmento
  <2> DEFINE p == Head(e).pid
  <2>1. /\ Atiende("ELIMINAR_SEGMENTO") /\ "ELIMINAR_SEGMENTO" \in Ops \ {"OK"}
        /\ L' = L /\ B' = B
    BY <1>9 DEF EliminarSegmento, Ops
  <2>2. PICK k \in DOMAIN T[p] : T' = [T EXCEPT ![p] = Sin(@, k)]
    BY <1>9 DEF EliminarSegmento
  <2>3. \A q \in L : q # p => T'[q] = T[q]
    <3> HIDE DEF p
    <3> QED
      BY <1>0, <2>2
  <2> QED
    BY <1>5, <2>1, <2>3
<1>10. CASE FinalizarInmediato
  <2> DEFINE p == Head(e).pid
  <2>1. /\ Atiende("FINALIZAR_PROCESO") /\ "FINALIZAR_PROCESO" \in Ops \ {"OK"}
        /\ L' = L \ {p} /\ B' = B /\ T' = [T EXCEPT ![p] = <<>>]
    BY <1>10 DEF FinalizarInmediato, Ops
  <2>2. \A q \in L : q # p => q \in L' /\ T'[q] = T[q]
    <3> HIDE DEF p
    <3> QED
      BY <1>0, <2>1
  <2> QED
    BY <1>5, <2>1, <2>2
<1>11. CASE FinalizarDiferido
  <2> DEFINE p == Head(e).pid
  <2>1. /\ Atiende("FINALIZAR_PROCESO") /\ "FINALIZAR_PROCESO" \in Ops \ {"OK"}
        /\ L' = L /\ T' = T /\ B' = [B EXCEPT ![p] = TRUE]
    BY <1>11 DEF FinalizarDiferido, Ops
  <2>2. \A q \in L : q # p => B'[q] = B[q]
    <3> HIDE DEF p
    <3> QED
      BY <1>0, <2>1
  <2> QED
    BY <1>5, <2>1, <2>2
<1>12. ASSUME NEW p \in Procesos, Pedir(p)
       PROVE  CuentaCola'
  <2>1. PICK m \in PedidosDe(p) : e' = Append(e, m)
    BY <1>12 DEF Pedir
  <2>2. PuedePedir(p) /\ UNCHANGED <<T, L, B>>
    BY <1>12 DEF Pedir, procesos
  <2>3. m \in Ordenados /\ m.pid = p /\ VivoEn(m, T, L, B)
    BY <1>0, <2>2, PedidoVivo
  <2>4. \A k \in DOMAIN e : e[k].pid # m.pid
    BY <2>2, <2>3 DEF PuedePedir
  <2> QED
    BY <1>4, <2>1, <2>2, <2>3, <2>4
<1>13. CASE ConfirmarCompactacion
  <2>1. UNCHANGED <<T, L, B>> /\ e' = Append(e, Confirmacion)
    BY <1>13 DEF ConfirmarCompactacion, procesos
  <2>2. Confirmacion \in Ordenados /\ ~ Pide(Confirmacion)
    BY DEF Confirmacion, Pedido, Ordenados, PedidosKs, Ops, Pide
  <2> QED
    BY <1>4, <2>1, <2>2
<1>14. ASSUME NEW p \in Procesos, CargarProceso(p)
       PROVE  CuentaCola'
  <2>1. e' = e /\ T' = T /\ B' = B /\ L' = L \cup {p}
    BY <1>14 DEF CargarProceso, protocolo
  <2>2. \A q : sigue(q)
    BY <2>1, SigueIgual
  <2> QED
    BY <1>2, <2>1, <2>2
<1>15. ASSUME NEW p \in Procesos, ActualizarContexto(p)
       PROVE  CuentaCola'
  <2>1. e' = e /\ B' = B
    BY <1>15 DEF ActualizarContexto, protocolo
  <2>2. CASE T' = T /\ L' = L
    BY <1>1, <2>1, <2>2
  <2>3. CASE B[p] /\ L' = L \ {p} /\ T' = [T EXCEPT ![p] = <<>>]
    <3>1. ASSUME NEW k \in DOMAIN e, Pide(e[k])
          PROVE  sigue(e[k].pid)
      <4> DEFINE q == e[k].pid
      <4>1. q \in L /\ ~ B[q]
        BY <1>0, <3>1 DEF ColaEn, VivoEn
      <4>2. q # p
        BY <2>3, <4>1
      <4>3. q \in L' /\ T'[q] = T[q]
        <5> HIDE DEF q
        <5> QED
          BY <1>0, <2>3, <4>1, <4>2
      <4> QED
        BY <2>1, <4>3, SigueIgual
    <3> QED
      BY <1>2, <2>1, <3>1
  <2> QED
    BY <1>15, <2>2, <2>3 DEF ActualizarContexto
<1>16. CASE ConectarMs
  BY <1>1, <1>16
  DEF ConectarMs, ConectarContar, ConectarListar, ConectarHueco, procesos, protocolo
<1>17. CASE \E p \in Procesos : ObtenerContexto(p)
  BY <1>1, <1>17 DEF ObtenerContexto, protocolo
<1>18. CASE UNCHANGED varsS
  BY <1>1, <1>18 DEF varsS, procesos, protocolo
<1> QED
  BY <1>6, <1>7, <1>8, <1>9, <1>10, <1>11, <1>12, <1>13, <1>14, <1>15, <1>16, <1>17, <1>18
  DEF Next, CrearSegmento, Eliminar, Finalizar

(* The request that waits for the confirmation of a compaction: nothing     *)
(* takes the memory it was promised, since no request is handled until      *)
(* then.                                                                    *)
LEMMA EsperaPaso ==
  ASSUME CuentaInv, [Next]_varsS
  PROVE  CuentaEspera'
<1> DEFINE e == entrada
           w == esperando
           T == tabla_segmentos
           L == lista_procesos
           B == peticion_eliminacion
           libre == memoria_libre_actual
<1>0. /\ e \in Seq(Ordenados) /\ ColaEn(e, T, L, B) /\ CuentaTipos /\ CuentaTablas
      /\ TipoEntrada /\ CuentaCola /\ L \subseteq Procesos
      /\ T \in [Procesos -> Seq(Segs)] /\ B \in [Procesos -> BOOLEAN]
      /\ EsperaEn(w, e, T, L, B, libre) /\ libre \in Nat
  BY DEF CuentaInv, TipoEntrada, CuentaCola, CuentaTipos, CuentaTablas, TablasEn, CabenTablas,
         CuentaEspera, CuentaLibre
<1>1. CASE UNCHANGED <<e, w, T, L, B, libre>>
  BY <1>0, <1>1 DEF CuentaEspera
<1>2. ASSUME w' = NADA
      PROVE  CuentaEspera'
  BY <1>2 DEF CuentaEspera, EsperaEn
<1>3. ASSUME NEW op \in Ops \ {"OK"}, Atiende(op), w' = w
      PROVE  CuentaEspera'
  BY <1>2, <1>3 DEF Atiende
<1>4. CASE CrearAvisar
  <2> DEFINE m == Head(e)
             t == Tail(e)
  <2>1. Atendida(m, "CREAR_SEGMENTO") /\ e' = t /\ w' = m
    BY <1>0, <1>4, AtiendeSon DEF CrearAvisar, Ops
  <2>2. UNCHANGED <<T, L, B, libre>>
    BY <1>4 DEF CrearAvisar, procesos
  <2>3. m.tam <= libre
    <3>1. m.tam \in Nat
      BY <2>1 DEF Atendida, VivoEn
    <3> QED
      BY <1>0, <1>4, <3>1 DEF CrearAvisar, Rechaza
  <2>4. \A k \in DOMAIN t : Pide(t[k]) => t[k].pid # m.pid
    <3>1. \A k \in DOMAIN t : t[k] = e[k + 1] /\ k + 1 \in DOMAIN e /\ k + 1 # 1
      BY <1>0, <2>1 DEF Atendida
    <3> HIDE DEF t, m
    <3> QED
      BY <2>1, <3>1 DEF Atendida
  <2>5. m \in Ordenados /\ m.op = "CREAR_SEGMENTO" /\ VivoEn(m, T, L, B)
    BY <2>1 DEF Atendida
  <2> HIDE DEF m, t
  <2>6. EsperaEn(m, t, T, L, B, libre)
    BY <2>3, <2>4, <2>5 DEF EsperaEn
  <2> QED
    BY <2>1, <2>2, <2>6 DEF CuentaEspera
<1>5. CASE CrearRechazar \/ CrearEnHueco \/ Eliminar \/ Finalizar
  <2>1. w' = w
    BY <1>5
    DEF CrearRechazar, CrearEnHueco, Eliminar, EliminarSegmento, EliminarInexistente,
        Finalizar, FinalizarInmediato, FinalizarDiferido
  <2>2. \E op \in Ops \ {"OK"} : Atiende(op)
    BY <1>5
    DEF CrearRechazar, CrearEnHueco, Eliminar, EliminarSegmento, EliminarInexistente,
        Finalizar, FinalizarInmediato, FinalizarDiferido, Ops
  <2> QED
    BY <1>3, <2>1, <2>2
<1>6. CASE CrearCompactar
  BY <1>2, <1>6 DEF CrearCompactar
<1>7. ASSUME UNCHANGED <<w, T, L, B, libre>>, NEW m \in Ordenados, e' = Append(e, m),
             Pide(m) => (w # NADA => m.pid # w.pid)
      PROVE  CuentaEspera'
  <2> DEFINE t == Append(e, m)
             n == Len(e) + 1
  <2>1. DOMAIN t = DOMAIN e \cup {n} /\ t[n] = m /\ \A k \in DOMAIN e : t[k] = e[k]
    BY <1>0
  <2> HIDE DEF t, n
  <2>2. EsperaEn(w, t, T, L, B, libre)
    BY <1>0, <1>7, <2>1 DEF EsperaEn
  <2> QED
    BY <1>7, <2>2 DEF CuentaEspera, t
<1>8. ASSUME NEW p \in Procesos, Pedir(p)
      PROVE  CuentaEspera'
  <2>1. PICK m \in PedidosDe(p) : e' = Append(e, m)
    BY <1>8 DEF Pedir
  <2>2. PuedePedir(p) /\ UNCHANGED <<w, T, L, B, libre>>
    BY <1>8 DEF Pedir, procesos
  <2>3. m \in Ordenados /\ m.pid = p
    BY <1>0, <2>2, PedidoVivo
  <2>4. w # NADA => m.pid # w.pid
    BY <2>2, <2>3 DEF PuedePedir
  <2> QED
    BY <1>7, <2>1, <2>2, <2>3, <2>4
<1>9. CASE ConfirmarCompactacion
  <2>1. UNCHANGED <<w, T, L, B, libre>> /\ e' = Append(e, Confirmacion)
    BY <1>9 DEF ConfirmarCompactacion, procesos
  <2>2. Confirmacion \in Ordenados /\ ~ Pide(Confirmacion)
    BY DEF Confirmacion, Pedido, Ordenados, PedidosKs, Ops, Pide
  <2> QED
    BY <1>7, <2>1, <2>2
<1>10. ASSUME w' = w, e' = e, libre' >= libre, libre' \in Nat,
              w # NADA => Sigue(w.pid, T, L, B, T', L', B')
       PROVE  CuentaEspera'
  <2> SUFFICES ASSUME w # NADA
               PROVE  CuentaEspera'
    BY <1>2, <1>10
  <2>1. /\ w \in Ordenados /\ w.op = "CREAR_SEGMENTO" /\ VivoEn(w, T, L, B) /\ w.tam <= libre
        /\ \A k \in DOMAIN e : Pide(e[k]) => e[k].pid # w.pid
    BY <1>0 DEF EsperaEn
  <2>2. w.tam \in Nat
    BY <2>1 DEF VivoEn
  <2>3. w.tam <= libre'
    BY <1>0, <1>10, <2>1, <2>2
  <2>4. VivoEn(w, T', L', B')
    BY <1>10, <2>1, VivoSigue
  <2> QED
    BY <1>10, <2>1, <2>3, <2>4 DEF CuentaEspera, EsperaEn
<1>11. CASE ConectarMs
  <2>1. w' = w /\ e' = e /\ T' = T /\ L' = L /\ B' = B
    BY <1>11 DEF ConectarMs, ConectarContar, ConectarListar, ConectarHueco, procesos, protocolo
  <2>2. por_conectar # <<>> => Head(por_conectar) \in Nat
    BY DEF CuentaInv, TipoConexion
  <2>3. libre' >= libre /\ libre' \in Nat
    BY <1>0, <1>11, <2>2 DEF ConectarMs, ConectarContar, ConectarListar, ConectarHueco
  <2>4. Sigue(w.pid, T, L, B, T', L', B')
    BY <2>1, SigueIgual
  <2> QED
    BY <1>10, <2>1, <2>3, <2>4
<1>12. ASSUME NEW p \in Procesos, CargarProceso(p)
       PROVE  CuentaEspera'
  <2>1. e' = e /\ T' = T /\ B' = B /\ L' = L \cup {p} /\ w' = w /\ libre' = libre
    BY <1>12 DEF CargarProceso, protocolo
  <2>2. Sigue(w.pid, T, L, B, T', L', B')
    BY <2>1, SigueIgual
  <2> QED
    BY <1>0, <1>10, <2>1, <2>2
<1>13. ASSUME NEW p \in Procesos, ActualizarContexto(p)
       PROVE  CuentaEspera'
  <2>1. e' = e /\ B' = B /\ w' = w /\ libre' = libre
    BY <1>13 DEF ActualizarContexto, protocolo
  <2>2. CASE T' = T /\ L' = L
    BY <1>1, <2>1, <2>2
  <2>3. CASE B[p] /\ L' = L \ {p} /\ T' = [T EXCEPT ![p] = <<>>]
    <3>1. ASSUME w # NADA
          PROVE  Sigue(w.pid, T, L, B, T', L', B')
      <4> DEFINE q == w.pid
      <4>1. q \in L /\ ~ B[q]
        BY <1>0, <3>1 DEF EsperaEn, VivoEn
      <4>2. q # p
        BY <2>3, <4>1
      <4>3. q \in L' /\ T'[q] = T[q]
        <5> HIDE DEF q
        <5> QED
          BY <1>0, <2>3, <4>1, <4>2
      <4> QED
        BY <2>1, <4>3, SigueIgual
    <3> QED
      BY <1>0, <1>10, <2>1, <3>1
  <2> QED
    BY <1>13, <2>2, <2>3 DEF ActualizarContexto
<1>14. CASE \E p \in Procesos : ObtenerContexto(p)
  BY <1>1, <1>14 DEF ObtenerContexto, protocolo
<1>15. CASE UNCHANGED varsS
  BY <1>1, <1>15 DEF varsS, procesos, protocolo
<1> QED
  BY <1>4, <1>5, <1>6, <1>8, <1>9, <1>11, <1>12, <1>13, <1>14, <1>15 DEF Next, CrearSegmento

(* CuentaInv is inductive, and implies the properties.                      *)
LEMMA InicioCuenta == Init => CuentaInv
<1> SUFFICES ASSUME Init
             PROVE  CuentaInv
  OBVIOUS
<1> DEFINE T == tabla_segmentos
           L == lista_procesos
           ms == lista_memory_sticks
<1>0. TipoConexion /\ TipoEntrada
  BY InicioSegmentos DEF InvSegmentos
<1>1. ms = Instalados /\ Instalados \in Seq(Tramos)
  BY SticksOK DEF Init, Tramos
<1>2. SumaLimites(ms) \in Nat
  BY <1>1, TramosConLimite, SumaSeq
<1>3. CuentaTipos
  BY <1>2 DEF Init, CuentaTipos
<1>4. CuentaSticks
  <2>1. \A i, j \in DOMAIN ms : i < j => Fin(ms[i]) <= ms[j].base
    BY <1>1, SticksOK
  <2> QED
    BY <1>1, <2>1 DEF Init, CuentaSticks, SticksEnOrden
<1>5. CuentaHuecos
  <2>1. memoria_libre_actual = SumaLimites(lista_huecos_memoria) /\ PorEntrar = 0
    BY DEF Init, PorEntrar
  <2>2. lista_huecos_memoria \in Seq(Tramos) /\ SumaLimites(lista_huecos_memoria) \in Nat
    BY <1>1, <1>2 DEF Init
  <2> QED
    BY <2>1, <2>2 DEF CuentaHuecos
<1>6. CuentaTablas
  <2>1. T \in [Procesos -> Seq(Segs)] /\ \A p \in Procesos : T[p] = <<>> /\ DOMAIN T[p] = {}
    BY DEF Init
  <2>2. L = {}
    BY DEF Init
  <2> QED
    BY <2>1, <2>2 DEF CuentaTablas, TablasEn, CabenTablas
<1>7. UsadaDe(T, L) = 0
  <2>1. L = {}
    BY DEF Init
  <2>2. VivosDe(T, L) = {}
    BY <2>1 DEF VivosDe
  <2> QED
    BY <2>2, FS_EmptySet, SumaPaso DEF UsadaDe
<1>8. CuentaLibre
  <2>1. memoria_libre_actual = SumaLimites(ms) /\ capacidad_memoria_total = SumaLimites(ms)
    BY DEF Init
  <2> QED
    BY <1>2, <1>7, <2>1 DEF CuentaLibre
<1>9. CuentaCola /\ CuentaEspera /\ CuentaRespuesta
  BY DEF Init, CuentaCola, CuentaEspera, CuentaRespuesta, ColaEn, EsperaEn
<1> QED
  BY <1>0, <1>3, <1>4, <1>5, <1>6, <1>8, <1>9 DEF CuentaInv

LEMMA PasoCuenta == CuentaInv /\ [Next]_varsS => CuentaInv'
<1> SUFFICES ASSUME CuentaInv, [Next]_varsS
             PROVE  CuentaInv'
  OBVIOUS
<1>1. TipoConexion' /\ TipoEntrada'
  BY EntradaTipo, ConexionTipo DEF CuentaInv
<1>2. CuentaTipos' /\ CuentaSticks' /\ CuentaHuecos'
  BY TiposPaso, SticksPaso, HuecosPaso DEF CuentaInv
<1>3. CuentaTablas' /\ CuentaLibre' /\ CuentaRespuesta'
  BY TablasPaso, RespuestaPaso
<1>4. CuentaCola' /\ CuentaEspera'
  BY ColaPaso, EsperaPaso
<1> QED
  BY <1>1, <1>2, <1>3, <1>4 DEF CuentaInv

LEMMA CuentaTipo == CuentaInv => TipoSegmentos
<1> SUFFICES ASSUME CuentaInv
             PROVE  TipoSegmentos
  OBVIOUS
<1>1. /\ lista_memory_sticks \in Seq(Tramos) /\ por_conectar \in Seq(Nat)
      /\ paso_ms \in {"contar", "listar", "hueco"}
  BY DEF CuentaInv, TipoConexion
<1>2. lista_huecos_memoria \in Seq(Tramos) /\ memoria_libre_actual \in Nat
  BY DEF CuentaInv, CuentaHuecos, CuentaLibre
<1>3. /\ capacidad_memoria_total \in Nat /\ lista_procesos \subseteq cargados
      /\ cargados \subseteq Procesos
      /\ proceso_actulizado \in [Procesos -> BOOLEAN]
      /\ peticion_eliminacion \in [Procesos -> BOOLEAN]
      /\ {viva, aviso, desalineado} \subseteq BOOLEAN
  BY DEF CuentaInv, CuentaTipos
<1>4. tabla_segmentos \in [Procesos -> Seq([id : Ids, base : Nat, limite : Nat])]
  BY DEF CuentaInv, CuentaTablas, TablasEn, CabenTablas, Segs
<1>5. esperando \in PedidosKs \cup {NADA}
  BY DEF CuentaInv, CuentaEspera, EsperaEn, Ordenados
<1>6. entrada \in Seq(PedidosKs) /\ compactaciones \in Nat
  <2>1. Ordenados \subseteq PedidosKs
    BY DEF Ordenados
  <2> QED
    BY <2>1 DEF CuentaInv, TipoEntrada
<1> QED
  BY <1>1, <1>2, <1>3, <1>4, <1>5, <1>6 DEF TipoSegmentos

LEMMA CuentaImplica == CuentaInv => LibreSonHuecos /\ LibreNoSobra /\ CompactarAlcanza
<1> SUFFICES ASSUME CuentaInv
             PROVE  LibreSonHuecos /\ LibreNoSobra /\ CompactarAlcanza
  OBVIOUS
<1>1. LibreSonHuecos
  <2> SUFFICES ASSUME compactaciones = 0, paso_ms = "contar"
               PROVE  memoria_libre_actual = SumaLimites(lista_huecos_memoria)
    BY DEF LibreSonHuecos
  <2>1. /\ memoria_libre_actual = SumaLimites(lista_huecos_memoria) + PorEntrar
        /\ PorEntrar = 0 /\ lista_huecos_memoria \in Seq(Tramos)
    BY DEF CuentaInv, CuentaHuecos, PorEntrar
  <2>2. SumaLimites(lista_huecos_memoria) \in Nat
    BY <2>1, TramosConLimite, SumaSeq
  <2> QED
    BY <2>1, <2>2
<1>2. LibreNoSobra
  BY FinitosOK, UsadaSon DEF CuentaInv, CuentaLibre, LibreNoSobra
<1>3. CompactarAlcanza
  BY DEF CuentaInv, CuentaRespuesta, CompactarAlcanza
<1> QED
  BY <1>1, <1>2, <1>3

LEMMA CuentaSiempre == Spec => []CuentaInv
  BY InicioCuenta, PasoCuenta, PTL DEF Spec

(* TiposDeSegmentos: every variable of the allocator has its type, and in   *)
(* particular the count of free memory, a uint32_t, is never taken below    *)
(* zero: crear_segmento subtracts after its check, at once or after a       *)
(* compaction, and nothing in between takes what it checked.                *)
THEOREM TiposDeSegmentos == Spec => []TipoSegmentos
  BY CuentaSiempre, CuentaTipo, PTL

(* LibreEsLaDeLosHuecos: until a compaction memoria_libre_actual is the sum *)
(* of the holes, whatever is created, removed and finalized, but while a    *)
(* stick is between its count and its hole.                                 *)
THEOREM LibreEsLaDeLosHuecos == Spec => []LibreSonHuecos
  BY CuentaSiempre, CuentaImplica, PTL

(* NadaUsadoEsLibre: with any number of requests, compactions, deferred     *)
(* removals and sticks, what is counted as free and what the live processes *)
(* hold never exceed the memory there is.                                   *)
THEOREM NadaUsadoEsLibre == Spec => []LibreNoSobra
  BY CuentaSiempre, CuentaImplica, PTL

(* NingunPedidoSinHueco: compactacion always leaves a hole large enough for *)
(* the request it was made for, so crear_segmento never returns without an  *)
(* answer.                                                                  *)
THEOREM NingunPedidoSinHueco == Spec => []CompactarAlcanza
  BY CuentaSiempre, CuentaImplica, PTL

-----------------------------------------------------------------------------
(* What a compaction leaves.                                                *)

(* The addresses that compactacion gives: they grow, and between them the   *)
(* segments cover every address of the memory in use.                       *)
LEMMA PrevioCrece ==
  ASSUME TablasEn(tabla_segmentos, lista_procesos), NEW o \in Ordenes
  PROVE  \A i, j \in 1..(Cardinality(Vivos) + 1) : i <= j => Previo(o, i) <= Previo(o, j)
<1> DEFINE n == Cardinality(Vivos)
           P(i) == Previo(o, i)
           M == {j \in 1..(n + 1) : \E i \in 1..j : ~ (P(i) <= P(j))}
<1>1. n \in Nat /\ DOMAIN o = 1..n
  BY OrdenBiyecta
<1>2. \A i \in 1..n : P(i) \in Nat /\ Segmento(o[i]).limite \in Nat
                      /\ P(i + 1) = P(i) + Segmento(o[i]).limite
  BY <1>1, PrevioPaso
<1>3. \A i \in 1..(n + 1) : P(i) \in Nat
  <2>1. P(n + 1) = MemoriaUsada
    BY PrevioTotal
  <2>2. MemoriaUsada \in Nat
    BY FinitosOK, UsadaSon, UsadaTipo DEF TablasEn
  <2>3. \A i \in 1..(n + 1) : i \in 1..n \/ i = n + 1
    BY <1>1
  <2> HIDE DEF P, n
  <2> QED
    BY <1>2, <2>1, <2>2, <2>3
<1> HIDE DEF P, n
<1>4. M = {}
  <2> SUFFICES ASSUME M # {}
               PROVE  FALSE
    OBVIOUS
  <2>1. M \subseteq Nat
    BY <1>1
  <2>2. PICK m \in M : \A k \in M : m <= k
    BY <2>1, NatMin
  <2>3. PICK i \in 1..m : ~ (P(i) <= P(m))
    BY <2>2
  <2>4. m \in 1..(n + 1) /\ i \in 1..(n + 1) /\ i # m /\ m - 1 \in 1..n /\ i \in 1..(m - 1)
    BY <1>1, <1>3, <2>2, <2>3
  <2>5. ~ (m - 1 \in M)
    BY <1>1, <2>2, <2>4
  <2>6. P(i) <= P(m - 1)
    BY <1>1, <2>4, <2>5
  <2>7. P(m) = P(m - 1) + Segmento(o[m - 1]).limite
    <3>1. (m - 1) + 1 = m
      BY <2>4
    <3> QED
      BY <1>2, <2>4, <3>1
  <2>8. P(m - 1) <= P(m)
    BY <1>2, <2>4, <2>7
  <2> QED
    BY <1>1, <1>2, <1>3, <2>3, <2>4, <2>6, <2>8
<1>5. ASSUME NEW i \in 1..(n + 1), NEW j \in 1..(n + 1), i <= j
      PROVE  P(i) <= P(j)
  <2>1. i \in 1..j
    BY <1>1, <1>5
  <2> QED
    BY <1>4, <2>1
<1> QED
  BY <1>5 DEF P, n

LEMMA PrevioCubre ==
  ASSUME TablasEn(tabla_segmentos, lista_procesos), NEW o \in Ordenes, NEW x \in Nat
  PROVE  x < MemoriaUsada <=>
           \E i \in DOMAIN o : Previo(o, i) <= x /\ x < Previo(o, i) + Segmento(o[i]).limite
<1> DEFINE n == Cardinality(Vivos)
           P(i) == Previo(o, i)
           M == {i \in 1..(n + 1) : x < P(i)}
<1>1. n \in Nat /\ DOMAIN o = 1..n
  BY OrdenBiyecta
<1>2. /\ P(1) = 0
      /\ \A i \in 1..n : P(i) \in Nat /\ Segmento(o[i]).limite \in Nat
                         /\ P(i + 1) = P(i) + Segmento(o[i]).limite
  BY <1>1, PrevioPaso
<1>3. P(n + 1) = MemoriaUsada /\ MemoriaUsada \in Nat
  BY PrevioTotal, FinitosOK, UsadaSon, UsadaTipo DEF TablasEn
<1>4. \A i \in 1..(n + 1) : P(i) <= P(n + 1)
  BY <1>1, PrevioCrece
<1> HIDE DEF P, n
<1>5. ASSUME x < MemoriaUsada
      PROVE  \E i \in 1..n : P(i) <= x /\ x < P(i) + Segmento(o[i]).limite
  <2>1. M \subseteq Nat /\ M # {}
    BY <1>1, <1>3, <1>5
  <2>2. PICK m \in M : \A k \in M : m <= k
    BY <2>1, NatMin
  <2>3. m # 1 /\ m \in 1..(n + 1) /\ x < P(m)
    BY <1>2, <2>2
  <2>4. m - 1 \in 1..n /\ (m - 1) + 1 = m /\ ~ (m - 1 \in M)
    BY <1>1, <2>1, <2>2, <2>3
  <2>5. ~ (x < P(m - 1))
    BY <1>1, <2>4
  <2>6. P(m - 1) \in Nat /\ P(m) = P(m - 1) + Segmento(o[m - 1]).limite
    BY <1>2, <2>4
  <2>7. P(m - 1) <= x /\ x < P(m - 1) + Segmento(o[m - 1]).limite
    BY <2>3, <2>5, <2>6
  <2> QED
    BY <2>4, <2>7
<1>6. ASSUME NEW i \in 1..n, P(i) <= x, x < P(i) + Segmento(o[i]).limite
      PROVE  x < MemoriaUsada
  <2>1. i + 1 \in 1..(n + 1)
    BY <1>1
  <2>2. P(i + 1) <= MemoriaUsada
    BY <1>3, <1>4, <2>1
  <2>3. P(i) \in Nat /\ Segmento(o[i]).limite \in Nat /\ P(i + 1) = P(i) + Segmento(o[i]).limite
    BY <1>2
  <2> QED
    BY <1>3, <1>6, <2>2, <2>3
<1> QED
  BY <1>1, <1>5, <1>6 DEF P

LEMMA UsadaSonSig ==
  /\ Vivos' = VivosDe(tabla_segmentos', lista_procesos')
  /\ MemoriaUsada' = UsadaDe(tabla_segmentos', lista_procesos')
<1>1. /\ Vivos = VivosDe(tabla_segmentos, lista_procesos)
      /\ MemoriaUsada = UsadaDe(tabla_segmentos, lista_procesos)
  BY FinitosOK, UsadaSon
<1>2. /\ (Vivos = VivosDe(tabla_segmentos, lista_procesos))'
      /\ (MemoriaUsada = UsadaDe(tabla_segmentos, lista_procesos))'
  BY <1>1, PTL
<1> QED
  BY <1>2

(* Two ranges that do not meet.                                             *)
LEMMA JuntoTramos ==
  ASSUME NEW u \in Nat, NEW b \in Nat, NEW n \in Nat, u <= b
  PROVE  Cardinality((0..(u - 1)) \cup (b..(b + n - 1))) = u + n
<1> DEFINE A == 0..(u - 1)
           B == b..(b + n - 1)
<1>1. IsFiniteSet(A) /\ Cardinality(A) = u
  <2>1. IsFiniteSet(A) /\ Cardinality(A) = IF 0 > u - 1 THEN 0 ELSE (u - 1) - 0 + 1
    BY FS_Interval
  <2> QED
    BY <2>1
<1>2. IsFiniteSet(B) /\ Cardinality(B) = n
  <2>1. IsFiniteSet(B) /\ Cardinality(B) = IF b > b + n - 1 THEN 0 ELSE (b + n - 1) - b + 1
    BY FS_Interval
  <2> QED
    BY <2>1
<1>3. A \cap B = {}
  OBVIOUS
<1> HIDE DEF A, B
<1>4. Cardinality(A \cup B) = Cardinality(A) + Cardinality(B) - Cardinality(A \cap B)
  BY <1>1, <1>2, FS_Union
<1>5. Cardinality(A \cap B) = 0
  BY <1>3, FS_EmptySet
<1> QED
  BY <1>1, <1>2, <1>4, <1>5 DEF A, B

(* CompactaBien, as a step.                                                 *)
BienCompactado ==
  /\ UNION {Direcciones(tabla_segmentos'[v[1]][v[2]]) : v \in Vivos} = 0..(MemoriaUsada - 1)
  /\ Cardinality(Reservado') = MemoriaUsada'
  /\ \A v, w \in Vivos :
       Segmento(v).base < Segmento(w).base =>
         tabla_segmentos'[v[1]][v[2]].base < tabla_segmentos'[w[1]][w[2]].base

LEMMA DireccionesSon ==
  ASSUME NEW t, t.base \in Nat, t.limite \in Nat
  PROVE  Direcciones(t) = t.base..(t.base + t.limite - 1)
  BY DEF Direcciones, Fin

LEMMA CompactadoBien ==
  ASSUME CuentaInv, UNCHANGED lista_procesos, NEW o \in Ordenes, NEW m \in Ordenados,
         VivoEn(m, tabla_segmentos, lista_procesos, peticion_eliminacion),
         m.op = "CREAR_SEGMENTO", NEW h \in Seq(Tramos), NEW i,
         \A j \in DOMAIN h : h[j].base >= MemoriaUsada, Ocupado(m, TablasCompactas(o), h, i)
  PROVE  BienCompactado
<1> DEFINE T == tabla_segmentos
           L == lista_procesos
           Q == TablasCompactas(o)
           s == Creado(m, h, i)
           R == [Q EXCEPT ![m.pid] = Append(@, s)]
           U == MemoriaUsada
           D == DOMAIN o
           P(j) == Previo(o, j)
           w(j) == Segmento(o[j]).limite
           A == 0..(U - 1)
           B == s.base..(s.base + s.limite - 1)
           l == Len(Q[m.pid]) + 1
           En(x) == \E j \in D : P(j) <= x /\ x < P(j) + w(j)
           N(v) == T'[v[1]][v[2]]
           E(v) == Direcciones(N(v))
<1>1. /\ TablasEn(T, L) /\ L \subseteq Procesos /\ m.pid \in L /\ m.pid \in Procesos
      /\ m.tam \in Nat \ {0} /\ m.id \notin IdsEn(T, m.pid)
  BY DEF CuentaInv, CuentaTablas, TablasEn, VivoEn
<1>2. /\ s \in Segs /\ s.limite = m.tam /\ s.id = m.id /\ s.base \in Nat /\ s.base >= U
      /\ T' = R
  <2>1. s \in Segs /\ s.limite = m.tam /\ s.id = m.id /\ s.base = h[i].base /\ i \in DOMAIN h
        /\ T' = R
    BY DEF Ocupado, Creado
  <2>2. s.base >= U
    BY <2>1
  <2>3. s.base \in Nat
    BY <2>1 DEF Segs
  <2> HIDE DEF s
  <2> QED
    BY <2>1, <2>2, <2>3
<1>3. U = UsadaDe(T, L) /\ U \in Nat /\ Vivos = VivosDe(T, L)
  BY <1>1, FinitosOK, UsadaSon, UsadaTipo DEF TablasEn
<1>4. /\ TablasEn(Q, L) /\ UsadaDe(Q, L) = U
      /\ \A p \in Procesos : DOMAIN Q[p] = DOMAIN T[p] /\ IdsEn(Q, p) = IdsEn(T, p)
                             /\ \A k \in DOMAIN Q[p] : Q[p][k].limite = T[p][k].limite
      /\ \A j \in D : Q[o[j][1]][o[j][2]].base = P(j)
  BY <1>1, CompactaTablas
<1>5. /\ \A j \in D : o[j] \in Vivos
      /\ \A v \in Vivos : \E j \in D : o[j] = v
      /\ D = 1..Cardinality(Vivos) /\ Cardinality(Vivos) \in Nat
  BY <1>1, OrdenBiyecta
<1>6. \A j \in D : j \in Nat /\ P(j) \in Nat /\ w(j) \in Nat /\ w(j) # 0
                   /\ P(j + 1) = P(j) + w(j)
  <2>1. \A j \in D : j \in Nat /\ P(j) \in Nat /\ w(j) \in Nat /\ P(j + 1) = P(j) + w(j)
    BY <1>1, PrevioPaso
  <2>2. \A v \in Vivos : Segmento(v).limite # 0
    BY <1>1 DEF TablasEn, Vivos, Segmento
  <2>3. \A j \in D : w(j) # 0
    BY <1>5, <2>2
  <2> HIDE DEF P, w
  <2> QED
    BY <2>1, <2>3
<1>7. \A x \in Nat : x < U <=> En(x)
  BY <1>1, PrevioCubre
<1>8. \A j, k \in D : j < k => P(j + 1) <= P(k)
  <2> SUFFICES ASSUME NEW j \in D, NEW k \in D, j < k
               PROVE  P(j + 1) <= P(k)
    OBVIOUS
  <2>1. j + 1 \in 1..(Cardinality(Vivos) + 1) /\ k \in 1..(Cardinality(Vivos) + 1) /\ j + 1 <= k
    BY <1>5
  <2> QED
    BY <1>1, <2>1, PrevioCrece
<1> HIDE DEF P, w, U, D
<1>9. \A v : v \in Vivos <=> \E p \in L : \E k \in DOMAIN T[p] : v = <<p, k>>
  BY <1>1, <1>3, VivosSon DEF TablasEn
<1>a. Q \in [Procesos -> Seq(Segs)]
  BY <1>4 DEF TablasEn, CabenTablas
<1> HIDE DEF Q, s
<1>b. /\ R[m.pid] = Append(Q[m.pid], s) /\ \A p \in Procesos : p # m.pid => R[p] = Q[p]
  BY <1>1, <1>a
<1>c. /\ DOMAIN R[m.pid] = DOMAIN Q[m.pid] \cup {l} /\ l \notin DOMAIN Q[m.pid]
      /\ R[m.pid][l] = s /\ \A k \in DOMAIN Q[m.pid] : R[m.pid][k] = Q[m.pid][k]
  <2>1. Q[m.pid] \in Seq(Segs)
    BY <1>1, <1>a
  <2> QED
    BY <1>2, <1>b, <2>1
<1> HIDE DEF R, l
<1>d. \A j \in D : T'[o[j][1]][o[j][2]].base = P(j) /\ T'[o[j][1]][o[j][2]].limite = w(j)
  <2> SUFFICES ASSUME NEW j \in D
               PROVE  T'[o[j][1]][o[j][2]].base = P(j) /\ T'[o[j][1]][o[j][2]].limite = w(j)
    OBVIOUS
  <2>0. PICK p \in L : \E k \in DOMAIN T[p] : o[j] = <<p, k>>
    BY <1>5, <1>9
  <2>1. PICK k \in DOMAIN T[p] : o[j] = <<p, k>>
    BY <2>0
  <2>a. p \in Procesos /\ k \in DOMAIN Q[p] /\ o[j][1] = p /\ o[j][2] = k
    BY <1>1, <1>4, <2>1
  <2>b. R[p][k] = Q[p][k]
    BY <1>b, <1>c, <2>a
  <2>2. R[p][k] = Q[p][k] /\ Q[p][k].base = P(j)
    BY <1>4, <2>a, <2>b
  <2>3. Q[p][k].limite = w(j)
    BY <1>1, <1>4, <2>1 DEF w, Segmento
  <2> QED
    BY <1>2, <2>1, <2>2, <2>3
<1>e. UNION {E(v) : v \in Vivos} = A
  <2>1. \A j \in D : E(o[j]) = P(j)..(P(j) + w(j) - 1)
    <3> SUFFICES ASSUME NEW j \in D
                 PROVE  E(o[j]) = P(j)..(P(j) + w(j) - 1)
      OBVIOUS
    <3>1. /\ N(o[j]).base = P(j) /\ N(o[j]).limite = w(j)
          /\ P(j) \in Nat /\ w(j) \in Nat
      BY <1>d, <1>6
    <3> HIDE DEF N
    <3>2. E(o[j]) = N(o[j]).base..(N(o[j]).base + N(o[j]).limite - 1)
      BY <3>1, DireccionesSon
    <3> QED
      BY <3>1, <3>2
  <2>2. ASSUME NEW j \in D, NEW x \in P(j)..(P(j) + w(j) - 1)
        PROVE  x \in A
    <3>1. x \in Nat /\ P(j) <= x /\ x < P(j) + w(j)
      BY <1>6
    <3>2. x < U
      BY <1>7, <3>1
    <3> QED
      BY <1>3, <3>1, <3>2
  <2>3. ASSUME NEW x \in A
        PROVE  \E j \in D : x \in P(j)..(P(j) + w(j) - 1)
    <3>1. x \in Nat /\ x < U
      BY <1>3
    <3>2. PICK j \in D : P(j) <= x /\ x < P(j) + w(j)
      BY <1>7, <3>1
    <3> QED
      BY <1>6, <3>1, <3>2
  <2> HIDE DEF A, E
  <2>4. ASSUME NEW v \in Vivos, NEW x \in E(v)
        PROVE  x \in A
    <3>1. PICK j \in D : o[j] = v
      BY <1>5
    <3> QED
      BY <2>1, <2>2, <2>4, <3>1
  <2>5. ASSUME NEW x \in A
        PROVE  \E v \in Vivos : x \in E(v)
    BY <1>5, <2>1, <2>3
  <2> QED
    BY <2>4, <2>5
<1>f. Vivos' = VivosDe(T', L') /\ U' = UsadaDe(T', L')
  BY UsadaSonSig DEF U
<1>g. TablasEn(T', L) /\ UsadaDe(T', L) = U + m.tam
  <2>1. s.id \notin IdsEn(Q, m.pid)
    BY <1>1, <1>2, <1>4
  <2>3. s.limite # 0 /\ s \in Segs /\ m.pid \in L /\ TablasEn(Q, L)
    BY <1>1, <1>2, <1>4
  <2>4. TablasEn(R, L) /\ UsadaDe(R, L) = UsadaDe(Q, L) + s.limite
    BY <2>1, <2>3, AgregaSegmento DEF R
  <2> QED
    BY <1>2, <1>4, <2>4
<1>h. \A v : v \in Vivos' <=> v \in Vivos \/ v = <<m.pid, l>>
  <2>1. \A v : v \in VivosDe(T', L) <=> \E p \in L : \E k \in DOMAIN T'[p] : v = <<p, k>>
    BY <1>1, <1>g, VivosSon DEF TablasEn
  <2>2. \A p \in L : DOMAIN T'[p] = IF p = m.pid THEN DOMAIN T[p] \cup {l} ELSE DOMAIN T[p]
    BY <1>1, <1>2, <1>4, <1>b, <1>c
  <2>3. \A v : v \in Vivos' <=> \E p \in L : \E k \in DOMAIN T'[p] : v = <<p, k>>
    BY <1>f, <2>1
  <2> QED
    BY <1>1, <1>9, <2>2, <2>3
<1>i. Reservado' = A \cup B
  <2>1. Reservado' = UNION {E(v) : v \in Vivos'}
    BY DEF Reservado, Segmento, Direcciones, Fin
  <2>2. E(<<m.pid, l>>) = B
    <3>1. N(<<m.pid, l>>) = s /\ s.base \in Nat /\ s.limite \in Nat
      BY <1>1, <1>2, <1>c
    <3> HIDE DEF N
    <3>2. E(<<m.pid, l>>) =
            N(<<m.pid, l>>).base..(N(<<m.pid, l>>).base + N(<<m.pid, l>>).limite - 1)
      BY <3>1, DireccionesSon
    <3> QED
      BY <3>1, <3>2
  <2> HIDE DEF A, B, E
  <2>3. UNION {E(v) : v \in Vivos'} = (UNION {E(v) : v \in Vivos}) \cup E(<<m.pid, l>>)
    BY <1>h
  <2> QED
    BY <1>e, <2>1, <2>2, <2>3
<1>j. Cardinality(Reservado') = U'
  <2>1. Cardinality(A \cup B) = U + s.limite
    <3>1. s.limite \in Nat /\ U <= s.base
      BY <1>1, <1>2, <1>3
    <3> QED
      BY <1>2, <1>3, <3>1, JuntoTramos
  <2> HIDE DEF A, B
  <2> QED
    BY <1>2, <1>f, <1>g, <1>i, <2>1
<1>k. ASSUME NEW v \in Vivos, NEW z \in Vivos, Segmento(v).base < Segmento(z).base
      PROVE  T'[v[1]][v[2]].base < T'[z[1]][z[2]].base
  <2>1. PICK j \in D : o[j] = v
    BY <1>5
  <2>2. PICK k \in D : o[k] = z
    BY <1>5
  <2>3. Segmento(v).base \in Nat /\ Segmento(z).base \in Nat
    <3>1. \A x \in Vivos : Segmento(x) \in Segs
      BY <1>1 DEF Vivos, Segmento, TablasEn, CabenTablas
    <3> QED
      BY <3>1 DEF Segs
  <2>4. j < k
    <3>1. \A a, b \in D : a < b => Segmento(o[a]).base <= Segmento(o[b]).base
      BY DEF Ordenes, D
    <3>2. j \in Nat /\ k \in Nat /\ j # k
      BY <1>6, <1>k, <2>1, <2>2, <2>3
    <3>3. ~ (k < j)
      BY <1>k, <2>1, <2>2, <2>3, <3>1
    <3> QED
      BY <3>2, <3>3
  <2>5. P(j) < P(j + 1) /\ P(j + 1) <= P(k) /\ P(j) \in Nat /\ P(j + 1) \in Nat /\ P(k) \in Nat
    BY <1>6, <1>8, <2>4
  <2> QED
    BY <1>d, <2>1, <2>2, <2>5
<1> QED
  BY <1>e, <1>j, <1>k DEF BienCompactado, U

LEMMA CompactaPaso ==
  ASSUME CuentaInv, [Next]_varsS, compactaciones' > compactaciones, viva'
  PROVE  BienCompactado
<1>1. compactaciones \in Nat
  BY DEF CuentaInv, TipoEntrada
<1>2. compactaciones' # compactaciones
  BY <1>1
<1>3. CASE CrearCompactar
  <2>0. PICK o \in Ordenes : \E h \in Seq(Tramos) : \E i :
          /\ \A j \in DOMAIN h : h[j].base >= MemoriaUsada
          /\ Ocupado(esperando, TablasCompactas(o), h, i)
    BY <1>3, EfectoCompactar, Zenon
  <2>1. PICK h \in Seq(Tramos) : \E i :
          /\ \A j \in DOMAIN h : h[j].base >= MemoriaUsada
          /\ Ocupado(esperando, TablasCompactas(o), h, i)
    BY <2>0
  <2>2. /\ esperando \in Ordenados /\ esperando.op = "CREAR_SEGMENTO"
        /\ VivoEn(esperando, tabla_segmentos, lista_procesos, peticion_eliminacion)
    BY <1>3 DEF CrearCompactar, CuentaInv, CuentaEspera, EsperaEn
  <2>3. UNCHANGED lista_procesos
    BY <1>3 DEF CrearCompactar
  <2>4. PICK i : Ocupado(esperando, TablasCompactas(o), h, i)
    BY <2>1
  <2> QED
    BY <2>1, <2>2, <2>3, <2>4, CompactadoBien
<1>4. CASE UNCHANGED varsS
  BY <1>2, <1>4 DEF varsS
<1>5. CASE ConectarMs \/ ConfirmarCompactacion \/ Eliminar \/ Finalizar
  BY <1>2, <1>5
  DEF ConectarMs, ConectarContar, ConectarListar, ConectarHueco, ConfirmarCompactacion, Eliminar,
      EliminarSegmento, EliminarInexistente, Finalizar, FinalizarInmediato, FinalizarDiferido
<1>6. CASE CrearRechazar \/ CrearEnHueco \/ CrearAvisar
  BY <1>2, <1>6 DEF CrearRechazar, CrearEnHueco, CrearAvisar
<1>7. ASSUME NEW p \in Procesos,
             CargarProceso(p) \/ Pedir(p) \/ ObtenerContexto(p) \/ ActualizarContexto(p)
      PROVE  FALSE
  BY <1>2, <1>7 DEF CargarProceso, Pedir, ObtenerContexto, ActualizarContexto
<1> QED
  BY <1>3, <1>4, <1>5, <1>6, <1>7 DEF Next, CrearSegmento

(* CompactacionCorrecta: compactacion leaves the segments of all processes  *)
(* one after another from address 0 in the order they were in, whatever     *)
(* overlap an earlier compaction led to, and the segment it made room for   *)
(* meets none of them, whether the new hole comes from a stick              *)
(* (HuecosPorStick) or from what is left (HuecoFinal).                      *)
THEOREM CompactacionCorrecta == Spec => CompactaBien
<1>1. CuentaInv /\ [Next]_varsS =>
        [compactaciones' > compactaciones /\ viva' =>
           /\ UNION {Direcciones(tabla_segmentos'[v[1]][v[2]]) : v \in Vivos}
                = 0..(MemoriaUsada - 1)
           /\ Cardinality(Reservado') = MemoriaUsada'
           /\ \A v, w \in Vivos :
                Segmento(v).base < Segmento(w).base =>
                  tabla_segmentos'[v[1]][v[2]].base < tabla_segmentos'[w[1]][w[2]].base]_varsS
  BY CompactaPaso DEF BienCompactado
<1> QED
  BY <1>1, CuentaSiempre, PTL DEF Spec, CompactaBien

=============================================================================

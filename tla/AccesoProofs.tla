----------------------------- MODULE AccesoProofs -----------------------------
(***************************************************************************)
(* The safety of the accesses to memory, for every number of CPUs,         *)
(* processes, sticks and segments, and every width; and that they          *)
(* implement MaquinaAbs, where every script has a machine of its own.      *)
(***************************************************************************)
EXTENDS AccesoMemoria, FiniteSetTheorems, TLAPS

(* RestoTipo, RestoChico: the remainders of 32-bit arithmetic.              *)
LEMMA RestoTipo == \A x \in Nat, m \in Nat \ {0} : x % m \in 0 .. m - 1
  BY SMT

LEMMA RestoChico == \A m \in Nat \ {0} : \A x \in 0 .. m - 1 : x % m = x
  BY SMT

(* CocienteTipo: num_segmento is a number.                                  *)
LEMMA CocienteTipo == \A x \in Nat, m \in Nat \ {0} : x \div m \in Nat
  BY SMT

-----------------------------------------------------------------------------
(* The operators on registers stay in t_registros.                          *)

(* BancoPoner: one register may take a value of its width.                  *)
LEMMA BancoPoner ==
  ASSUME NEW reg \in Banco, NEW r \in Registros, NEW x \in Palabras,
         r \in Registros8 => x < BYTE
  PROVE  [reg EXCEPT ![r] = x] \in Banco
<1> DEFINE nuevo == [reg EXCEPT ![r] = x]
<1>1. reg \in [Registros -> Palabras] /\ \A q \in Registros8 : reg[q] < BYTE
  BY DEF Banco
<1>2. nuevo \in [Registros -> Palabras]
  BY <1>1
<1>3. \A q \in Registros8 : nuevo[q] < BYTE
  BY <1>1 DEF Registros
<1> HIDE DEF nuevo
<1>4. nuevo \in Banco
  BY <1>2, <1>3 DEF Banco
<1> QED BY <1>4 DEF nuevo

(* BancoLeer: the value of a register is a word.                            *)
LEMMA BancoLeer == \A reg \in Banco, r \in Registros : reg[r] \in Palabras
  BY DEF Banco

LEMMA EscribirTipo ==
  ASSUME NEW reg \in Banco, NEW r \in Registros, NEW v \in Palabras
  PROVE  Escribir(reg, r, v) \in Banco
<1>1. Ancho(r) \in Nat \ {0} /\ Ancho(r) <= W
  BY AnchoOK DEF Ancho
<1>2. v % Ancho(r) \in 0 .. Ancho(r) - 1
  BY <1>1, RestoTipo, AnchoOK DEF Palabras
<1>3. v % Ancho(r) \in Palabras
  BY <1>1, <1>2, AnchoOK DEF Palabras
<1>4. r \in Registros8 => v % Ancho(r) < BYTE
  BY <1>2, AnchoOK DEF Ancho
<1> QED BY <1>3, <1>4, BancoPoner DEF Escribir

LEMMA AvanzarTipo ==
  ASSUME NEW reg \in Banco
  PROVE  Avanzar(reg) \in Banco
<1>1. "PC" \in Registros \ Registros8
  BY DEF Registros, Registros8
<1>2. reg["PC"] + 1 \in Nat
  BY <1>1, BancoLeer DEF Palabras
<1>3. (reg["PC"] + 1) % W \in Palabras
  BY <1>2, RestoTipo, AnchoOK DEF Palabras
<1> QED BY <1>1, <1>3, BancoPoner DEF Avanzar

LEMMA CalcularTipo ==
  ASSUME NEW reg \in Banco, NEW i \in Instrucciones, i.op \in Calculos
  PROVE  Calcular(i, reg) \in Banco
<1>0. i.r \in Registros /\ i.s \in Registros /\ i.v \in Palabras
  BY DEF Instrucciones
<1>1. reg[i.r] \in Palabras /\ reg[i.s] \in Palabras
  BY <1>0, BancoLeer
<1>2. (reg[i.r] + reg[i.s]) % W \in Palabras
  <2>1. reg[i.r] + reg[i.s] \in Nat
    BY <1>1 DEF Palabras
  <2> QED BY <2>1, RestoTipo, AnchoOK DEF Palabras
<1>3. (reg[i.r] + W - reg[i.s]) % W \in Palabras
  <2>1. reg[i.r] + W - reg[i.s] \in Nat
    BY <1>1, AnchoOK DEF Palabras
  <2> QED BY <2>1, RestoTipo, AnchoOK DEF Palabras
<1>4. CASE i.op = "NOOP"
  BY <1>4, AvanzarTipo DEF Calcular
<1>5. CASE i.op = "SET"
  BY <1>5, <1>0, AvanzarTipo, EscribirTipo DEF Calcular
<1>6. CASE i.op = "SUM"
  BY <1>6, <1>0, <1>2, AvanzarTipo, EscribirTipo DEF Calcular
<1>7. CASE i.op = "SUB"
  BY <1>7, <1>0, <1>3, AvanzarTipo, EscribirTipo DEF Calcular
<1>8. CASE i.op = "JNZ"
  <2>1. Calcular(i, reg) = IF reg[i.r] = 0 THEN Avanzar(reg) ELSE [reg EXCEPT !["PC"] = i.v]
    BY <1>8 DEF Calcular
  <2>2. [reg EXCEPT !["PC"] = i.v] \in Banco
    BY <1>0, BancoPoner DEF Registros, Registros8
  <2> QED BY <2>1, <2>2, AvanzarTipo
<1> QED BY <1>4, <1>5, <1>6, <1>7, <1>8 DEF Calculos

-----------------------------------------------------------------------------
(* TraducirDentro: a size that does not wrap is translated into bytes of    *)
(* one segment of the table.                                                *)
LEMMA TraducirDentro ==
  ASSUME NEW p \in Procesos, NEW dir \in Palabras, NEW tam \in Palabras,
         tam <= W - TAM_MAX, mmu_traducir(Tabla[p], dir, tam) # UINT32_MAX
  PROVE  \E n \in DOMAIN Tabla[p] :
           /\ Tabla[p][n].base <= mmu_traducir(Tabla[p], dir, tam)
           /\ mmu_traducir(Tabla[p], dir, tam) + tam <= Fin(Tabla[p][n])
<1> DEFINE n == dir \div TAM_MAX  d == dir % TAM_MAX
<1>1. d \in 0 .. TAM_MAX - 1
  BY RestoTipo, AnchoOK DEF Palabras
<1>2. n \in DOMAIN Tabla[p] /\ (d + tam) % W <= Tabla[p][n].limite
  BY DEF mmu_traducir
<1>3. d + tam \in 0 .. W - 1
  BY <1>1, AnchoOK DEF Palabras
<1>4. d + tam <= Tabla[p][n].limite
  BY <1>2, <1>3, RestoChico, AnchoOK
<1>5. /\ Tabla[p][n].base \in Nat /\ Tabla[p][n].limite \in Nat
      /\ Fin(Tabla[p][n]) < W
  BY <1>2, TablaOK, AnchoOK DEF UINT32_MAX, Fin
<1>6. Tabla[p][n].base + d \in 0 .. W - 1
  BY <1>1, <1>4, <1>5, AnchoOK DEF Fin, Palabras
<1>7. mmu_traducir(Tabla[p], dir, tam) = (Tabla[p][n].base + d) % W
  BY <1>2 DEF mmu_traducir
<1>8. (Tabla[p][n].base + d) % W = Tabla[p][n].base + d
  BY <1>6, RestoChico, AnchoOK
<1>9. Tabla[p][n].base + d + tam <= Fin(Tabla[p][n])
  BY <1>1, <1>4, <1>5 DEF Fin, Palabras
<1> HIDE DEF n, d
<1> QED BY <1>1, <1>2, <1>5, <1>7, <1>8, <1>9

(* TraducirTipo: a translation is a number.                                 *)
LEMMA TraducirTipo ==
  ASSUME NEW p \in Procesos, NEW dir \in Palabras, NEW tam \in Palabras
  PROVE  mmu_traducir(Tabla[p], dir, tam) \in Nat
<1> DEFINE n == dir \div TAM_MAX  d == dir % TAM_MAX
<1>1. d \in Nat
  BY RestoTipo, AnchoOK DEF Palabras
<1>2. CASE mmu_traducir(Tabla[p], dir, tam) = UINT32_MAX
  BY <1>2, AnchoOK DEF UINT32_MAX
<1>3. CASE mmu_traducir(Tabla[p], dir, tam) # UINT32_MAX
  <2>1. n \in DOMAIN Tabla[p] /\ mmu_traducir(Tabla[p], dir, tam) = (Tabla[p][n].base + d) % W
    BY <1>3 DEF mmu_traducir
  <2>2. Tabla[p][n].base + d \in Nat
    BY <1>1, <2>1, TablaOK
  <2> HIDE DEF n, d
  <2>3. (Tabla[p][n].base + d) % W \in Nat
    BY <2>2, RestoTipo, AnchoOK
  <2> QED BY <2>1, <2>3
<1> QED BY <1>2, <1>3

(* MsDentro: the stick a CPU picks has the address.                         *)
LEMMA MsDentro ==
  ASSUME NEW c \in Cpus, NEW d, MsDe(c, d) # NADIE
  PROVE  MsDe(c, d) \in DOMAIN Sticks /\ Dentro(d, Sticks[MsDe(c, d)])
  BY ConoceOK DEF MsDe

-----------------------------------------------------------------------------
(* The inductive invariant.  While a CPU waits for a stick its process and  *)
(* registers do not change, so the request is still the translation of the  *)
(* instruction it executes.                                                 *)

EnAcceso(c) == fase[c] \in {"lectura", "leido", "escritura", "escrito"}

(* TurnoBien: the CPU is inside an instruction of a process that may reach  *)
(* what it asks for.                                                        *)
TurnoBien(c) ==
  /\ fase[c] # "espera" => pid[c] \in Procesos
  /\ EnAcceso(c) => ctx[c]["PC"] < Len(programa[pid[c]]) /\ PuedeAcceder(c)
  /\ fase[c] \in {"lectura", "leido"} => Instr(c).op \in Lecturas
  /\ fase[c] \in {"escritura", "escrito"} => Instr(c).op \in Escrituras

DatosDe(n) == [1 .. n -> Bytes]

(* PedidoBien: what is on the socket is what the instruction asked for.     *)
PedidoBien(c) ==
  /\ fase[c] = "lectura" => pedido[c] = Solicitud(c, "SI", <<>>)
  /\ fase[c] = "leido" => pedido[c].datos \in DatosDe(Tamano(Instr(c), ctx[c]))
  /\ fase[c] = "escritura" =>
       \E bs \in DatosDe(Tamano(Instr(c), ctx[c])) : pedido[c] = Solicitud(c, "DI", bs)

Bien(c) == TurnoBien(c) /\ PedidoBien(c)

AccesoInv == TipoAcceso /\ \A c \in Cpus : Bien(c)

(* InstrTipo: what is fetched inside the script is an instruction.          *)
LEMMA InstrTipo ==
  ASSUME NEW c \in Cpus, TipoAcceso, pid[c] \in Procesos,
         ctx[c]["PC"] < Len(programa[pid[c]])
  PROVE  /\ Instr(c) \in Instrucciones
         /\ Tamano(Instr(c), ctx[c]) \in Palabras
<1>1. programa[pid[c]] \in Seq(Instrucciones)
  BY ProgramasOK DEF TipoAcceso
<1>2. ctx[c] \in Banco
  BY DEF TipoAcceso
<1>3. ctx[c]["PC"] \in Nat
  BY <1>2, BancoLeer DEF Registros, Palabras
<1>4. Instr(c) \in Instrucciones
  BY <1>1, <1>3 DEF Instr
<1>5. ctx[c][Instr(c).r] \in Palabras
  BY <1>2, <1>4, BancoLeer DEF Instrucciones
<1> QED BY <1>4, <1>5, AnchoOK DEF Tamano, Palabras

(* SolicitudTipo: a request built after the MMU and the list of sticks      *)
(* agreed is for a stick that has its first byte.                           *)
LEMMA SolicitudTipo ==
  ASSUME NEW c \in Cpus, TipoAcceso, pid[c] \in Procesos,
         ctx[c]["PC"] < Len(programa[pid[c]]),
         NEW r \in {"SI", "DI"}, Alcanza(c, r), NEW bs \in Seq(Bytes)
  PROVE  /\ Solicitud(c, r, bs) \in Solicitudes
         /\ Solicitud(c, r, bs).stick \in DOMAIN Sticks
         /\ Dentro(Traducir(c, r), Sticks[Solicitud(c, r, bs).stick])
         /\ Fisica(Solicitud(c, r, bs)) = Traducir(c, r)
         /\ Traducir(c, r) \in Nat
         /\ Solicitud(c, r, bs).tam = Tamano(Instr(c), ctx[c])
         /\ Solicitud(c, r, bs).datos = bs
<1>1. Tamano(Instr(c), ctx[c]) \in Palabras
  BY InstrTipo
<1>2. ctx[c][r] \in Palabras
  BY BancoLeer DEF TipoAcceso, Registros
<1>3. Traducir(c, r) \in Nat
  BY <1>1, <1>2, TraducirTipo DEF Traducir
<1> DEFINE s == MsDe(c, Traducir(c, r))
<1>4. s \in DOMAIN Sticks /\ Dentro(Traducir(c, r), Sticks[s])
  BY MsDentro DEF Alcanza
<1>5. Traducir(c, r) - Sticks[s].base \in Nat /\ Sticks[s].base \in Nat
  BY <1>3, <1>4, SticksOK DEF Dentro
<1>6. Solicitud(c, r, bs) = [stick |-> s, dir |-> Traducir(c, r) - Sticks[s].base,
                              tam |-> Tamano(Instr(c), ctx[c]), datos |-> bs]
  BY DEF Solicitud
<1> HIDE DEF s
<1>7. Solicitud(c, r, bs) \in Solicitudes
  BY <1>1, <1>4, <1>5, <1>6 DEF Solicitudes
<1> QED BY <1>3, <1>4, <1>5, <1>6, <1>7 DEF Fisica

-----------------------------------------------------------------------------
(* What the invariant gives.                                                *)

(* EnVueloTraducido: a request on its way is a translated one.              *)
LEMMA EnVueloTraducido ==
  ASSUME NEW c \in Cpus, AccesoInv, EnVuelo(c)
  PROVE  /\ pid[c] \in Procesos /\ ctx[c]["PC"] < Len(programa[pid[c]])
         /\ \E r \in {"SI", "DI"}, bs \in Seq(Bytes) :
              Alcanza(c, r) /\ pedido[c] = Solicitud(c, r, bs)
<1>1. Bien(c) /\ TipoAcceso
  BY DEF AccesoInv
<1>2. pid[c] \in Procesos /\ ctx[c]["PC"] < Len(programa[pid[c]]) /\ PuedeAcceder(c)
  BY <1>1 DEF Bien, TurnoBien, EnVuelo, EnAcceso
<1>3. CASE fase[c] = "lectura"
  <2>1. Alcanza(c, "SI")
    BY <1>1, <1>2, <1>3 DEF Bien, TurnoBien, PuedeAcceder
  <2>2. pedido[c] = Solicitud(c, "SI", <<>>) /\ <<>> \in Seq(Bytes)
    BY <1>1, <1>3 DEF Bien, PedidoBien
  <2> QED BY <1>2, <2>1, <2>2
<1>4. CASE fase[c] = "escritura"
  <2>1. Alcanza(c, "DI")
    BY <1>1, <1>2, <1>4 DEF Bien, TurnoBien, PuedeAcceder
  <2>2. PICK bs \in DatosDe(Tamano(Instr(c), ctx[c])) : pedido[c] = Solicitud(c, "DI", bs)
    BY <1>1, <1>4 DEF Bien, PedidoBien
  <2>3. Tamano(Instr(c), ctx[c]) \in Nat
    BY <1>1, <1>2, InstrTipo DEF Palabras
  <2>4. bs \in Seq(Bytes)
    BY <2>3 DEF DatosDe
  <2> QED BY <1>2, <2>1, <2>2, <2>4
<1> QED BY <1>3, <1>4 DEF EnVuelo

(* EnUnSegmento: a request whose size does not wrap lies inside one segment *)
(* of the process the CPU executes.                                         *)
LEMMA EnUnSegmento ==
  ASSUME NEW c \in Cpus, AccesoInv, EnVuelo(c), Normal(pedido[c])
  PROVE  \E n \in DOMAIN Tabla[pid[c]] :
           /\ Tabla[pid[c]][n].base <= Fisica(pedido[c])
           /\ Fisica(pedido[c]) + pedido[c].tam <= Fin(Tabla[pid[c]][n])
<1>1. PICK r \in {"SI", "DI"}, bs \in Seq(Bytes) :
        Alcanza(c, r) /\ pedido[c] = Solicitud(c, r, bs)
  BY EnVueloTraducido
<1>2. pid[c] \in Procesos /\ ctx[c]["PC"] < Len(programa[pid[c]]) /\ TipoAcceso
  BY EnVueloTraducido DEF AccesoInv
<1>3. /\ Fisica(pedido[c]) = Traducir(c, r)
      /\ pedido[c].tam = Tamano(Instr(c), ctx[c])
  BY <1>1, <1>2, SolicitudTipo
<1>4. ctx[c][r] \in Palabras /\ Tamano(Instr(c), ctx[c]) \in Palabras
  BY <1>2, BancoLeer, InstrTipo DEF TipoAcceso, Registros
<1>5. Traducir(c, r) # UINT32_MAX
  BY <1>1 DEF Alcanza
<1>6. Tamano(Instr(c), ctx[c]) <= W - TAM_MAX
  BY <1>3 DEF Normal
<1> QED BY <1>2, <1>3, <1>4, <1>5, <1>6, TraducirDentro DEF Traducir

(* InvPropio: the request covers no byte of another process.                *)
LEMMA InvPropio == AccesoInv => AccesoPropio
<1> SUFFICES ASSUME AccesoInv, NEW c \in Cpus, EnVuelo(c), Normal(pedido[c]),
                    NEW q \in Procesos \ {pid[c]}, NEW m \in DOMAIN Tabla[q],
                    NEW d \in Fisica(pedido[c]) .. Fisica(pedido[c]) + pedido[c].tam - 1
             PROVE  ~ Dentro(d, Tabla[q][m])
  BY DEF AccesoPropio
<1>1. pid[c] \in Procesos
  BY EnVueloTraducido
<1>2. PICK n \in DOMAIN Tabla[pid[c]] :
        /\ Tabla[pid[c]][n].base <= Fisica(pedido[c])
        /\ Fisica(pedido[c]) + pedido[c].tam <= Fin(Tabla[pid[c]][n])
  BY EnUnSegmento
<1>3. /\ Tabla[pid[c]][n].base \in Nat /\ Fin(Tabla[pid[c]][n]) \in Nat
      /\ Tabla[q][m].base \in Nat /\ Fin(Tabla[q][m]) \in Nat
  BY <1>1, TablaOK DEF Fin
<1>4. \/ Fin(Tabla[pid[c]][n]) <= Tabla[q][m].base
      \/ Fin(Tabla[q][m]) <= Tabla[pid[c]][n].base
  BY <1>1, SinSolapeOK
<1>5. Fisica(pedido[c]) \in Nat /\ pedido[c].tam \in Nat
  <2>1. PICK r \in {"SI", "DI"}, bs \in Seq(Bytes) :
          Alcanza(c, r) /\ pedido[c] = Solicitud(c, r, bs)
    BY EnVueloTraducido
  <2> QED BY <2>1, <1>1, EnVueloTraducido, SolicitudTipo, InstrTipo DEF AccesoInv, Palabras
<1> QED BY <1>2, <1>3, <1>4, <1>5 DEF Dentro

(* InvMuere: a request that leaves its stick is a COPY_MEM whose size wraps.*)
LEMMA InvMuere == AccesoInv => MuereSoloPorCopia
<1> SUFFICES ASSUME AccesoInv, NEW c \in Cpus, EnVuelo(c), ~ Cabe(pedido[c])
             PROVE  Instr(c).op = "COPY_MEM" /\ ~ Normal(pedido[c])
  BY DEF MuereSoloPorCopia
<1>1. PICK r \in {"SI", "DI"}, bs \in Seq(Bytes) :
        Alcanza(c, r) /\ pedido[c] = Solicitud(c, r, bs)
  BY EnVueloTraducido
<1>2. pid[c] \in Procesos /\ ctx[c]["PC"] < Len(programa[pid[c]]) /\ TipoAcceso
  BY EnVueloTraducido DEF AccesoInv
<1> DEFINE m == pedido[c]  t == Sticks[pedido[c].stick]
<1>3. /\ m.stick \in DOMAIN Sticks /\ Dentro(Fisica(m), t) /\ Fisica(m) \in Nat
      /\ m.tam = Tamano(Instr(c), ctx[c]) /\ m \in Solicitudes
  BY <1>1, <1>2, SolicitudTipo
<1>4. t.base \in Nat /\ t.limite \in Nat /\ m.dir \in Nat /\ m.tam \in Palabras
  BY <1>3, SticksOK DEF Solicitudes
<1>5. ~ Normal(m)
  <2> SUFFICES ASSUME Normal(m) PROVE FALSE
    OBVIOUS
  <2>1. PICK n \in DOMAIN Tabla[pid[c]] :
          /\ Tabla[pid[c]][n].base <= Fisica(m)
          /\ Fisica(m) + m.tam <= Fin(Tabla[pid[c]][n])
    BY EnUnSegmento
  <2>2. PICK u \in DOMAIN Sticks : /\ Sticks[u].base <= Tabla[pid[c]][n].base
                                   /\ Fin(Tabla[pid[c]][n]) <= Fin(Sticks[u])
    BY <1>2, TablaOK
  <2>3. /\ Tabla[pid[c]][n].base \in Nat /\ Fin(Tabla[pid[c]][n]) \in Nat
        /\ Sticks[u].base \in Nat /\ Fin(Sticks[u]) \in Nat /\ Fin(t) \in Nat
    <3>1. Tabla[pid[c]][n].base \in Nat /\ Tabla[pid[c]][n].limite \in Nat
      BY <1>2, TablaOK
    <3>2. Sticks[u].base \in Nat /\ Sticks[u].limite \in Nat
      BY SticksOK
    <3>3. Fin(t) \in Nat
      BY <1>4 DEF Fin
    <3>4. Fin(Tabla[pid[c]][n]) \in Nat
      BY <3>1 DEF Fin
    <3>5. Fin(Sticks[u]) \in Nat
      BY <3>2 DEF Fin
    <3> QED BY <3>1, <3>2, <3>3, <3>4, <3>5
  <2>6. Fisica(m) = t.base + m.dir /\ Fin(t) = t.base + t.limite /\ ~ (m.dir + m.tam <= t.limite)
    BY DEF Fisica, Fin, Cabe
  <2> HIDE DEF m, t
  <2>7. Fisica(m) + m.tam > Fin(t)
    BY <1>4, <2>6 DEF Palabras
  <2>4. CASE m.stick = u
    <3>1. Fin(t) = Fin(Sticks[u])
      BY <2>4 DEF t, m
    <3> QED BY <1>3, <1>4, <2>1, <2>2, <2>3, <2>7, <3>1 DEF Palabras
  <2>5. CASE m.stick # u
    <3>1. Fin(t) <= Sticks[u].base \/ Fin(Sticks[u]) <= t.base
      BY <1>3, <2>5, SticksOK DEF t, m
    <3> QED BY <1>3, <1>4, <2>1, <2>2, <2>3, <2>7, <3>1 DEF Dentro, Palabras
  <2> QED BY <2>4, <2>5
<1>6. Instr(c).op = "COPY_MEM"
  <2>1. Instr(c).op # "COPY_MEM" => m.tam = PALABRA
    BY <1>3 DEF Tamano
  <2> QED BY <1>5, <2>1, AnchoOK DEF Normal
<1> QED BY <1>5, <1>6

-----------------------------------------------------------------------------
(* The invariant is inductive.                                              *)

(* Marco: a CPU whose part of the state stays keeps its conjunct.           *)
LEMMA Marco ==
  ASSUME NEW x \in Cpus, Bien(x), programa' = programa, pid'[x] = pid[x], ctx'[x] = ctx[x],
         fase'[x] = fase[x], pedido'[x] = pedido[x]
  PROVE  Bien(x)'
<1>1. Instr(x)' = Instr(x)
  BY DEF Instr
<1>2. \A r : Traducir(x, r)' = Traducir(x, r)
  BY <1>1 DEF Traducir, Tamano
<1>3. \A r : Alcanza(x, r)' = Alcanza(x, r)
  BY <1>2 DEF Alcanza, MsDe
<1>4. PuedeAcceder(x)' = PuedeAcceder(x)
  BY <1>1, <1>3 DEF PuedeAcceder
<1>6. Tamano(Instr(x), ctx[x])' = Tamano(Instr(x), ctx[x])
  BY <1>1 DEF Tamano
<1>5. ASSUME NEW r, NEW bs PROVE Solicitud(x, r, bs)' = Solicitud(x, r, bs)
  <2>1. Traducir(x, r)' = Traducir(x, r)
    BY <1>2
  <2>2. MsDe(x, Traducir(x, r))' = MsDe(x, Traducir(x, r))
    BY <2>1 DEF MsDe
  <2> QED BY <2>1, <2>2, <1>6 DEF Solicitud
<1>7. TurnoBien(x)'
  BY <1>1, <1>4 DEF Bien, TurnoBien, EnAcceso
<1>8. PedidoBien(x)'
  BY <1>5, <1>6 DEF Bien, PedidoBien, DatosDe
<1> QED BY <1>7, <1>8 DEF Bien

Otros(c) == \A x \in Cpus \ {c} :
  pid'[x] = pid[x] /\ ctx'[x] = ctx[x] /\ fase'[x] = fase[x] /\ pedido'[x] = pedido[x]

(* PasoDeUno: it is enough to look at the CPU that moved.                   *)
LEMMA PasoDeUno ==
  ASSUME NEW c \in Cpus, AccesoInv, programa' = programa, Otros(c), TipoAcceso', Bien(c)'
  PROVE  AccesoInv'
<1>1. ASSUME NEW x \in Cpus \ {c} PROVE Bien(x)'
  BY <1>1, Marco DEF AccesoInv, Otros
<1> QED BY <1>1 DEF AccesoInv

(* BienFuera: outside an access there is nothing to say.                    *)
LEMMA BienFuera ==
  ASSUME NEW c \in Cpus, fase'[c] = "espera" \/ (fase'[c] = "ciclo" /\ pid'[c] \in Procesos)
  PROVE  Bien(c)'
  BY DEF Bien, TurnoBien, PedidoBien, EnAcceso

Estados == {"listo", "en_cpu", "fin"}

LEMMA VolverInv ==
  ASSUME NEW c \in Cpus, AccesoInv, pid[c] \in Procesos, NEW reg \in Banco,
         NEW e \in Estados, Volver(c, reg, e)
  PROVE  AccesoInv'
<1>1. TipoAcceso
  BY DEF AccesoInv
<1>2. EnCero \in Banco
  BY AnchoOK DEF EnCero, Banco, Palabras, Registros
<1>3. contexto' \in [Procesos -> Banco] /\ ctx' \in [Cpus -> Banco]
  BY <1>1, <1>2 DEF TipoAcceso, Volver
<1>4. TipoAcceso'
  BY <1>1, <1>3 DEF TipoAcceso, Volver, quietos, Estados
<1>5. fase'[c] = "espera" /\ Otros(c) /\ programa' = programa
  BY <1>1 DEF TipoAcceso, Volver, Otros, quietos
<1> QED BY <1>4, <1>5, BienFuera, PasoDeUno

LEMMA SeguirInv ==
  ASSUME NEW c \in Cpus, AccesoInv, pid[c] \in Procesos, NEW reg \in Banco, Seguir(c, reg),
         NEW m \in Solicitudes, pedido' = [pedido EXCEPT ![c] = m],
         UNCHANGED <<quietos, contexto, estado, pid, memoria>>
  PROVE  AccesoInv'
<1>1. TipoAcceso
  BY DEF AccesoInv
<1>2. ctx' \in [Cpus -> Banco] /\ pedido' \in [Cpus -> Solicitudes]
  BY <1>1 DEF TipoAcceso, Seguir
<1>3. TipoAcceso'
  BY <1>1, <1>2 DEF TipoAcceso, Seguir, quietos
<1>4. fase'[c] = "ciclo" /\ pid'[c] \in Procesos /\ Otros(c) /\ programa' = programa
  BY <1>1 DEF TipoAcceso, Seguir, Otros, quietos
<1> QED BY <1>3, <1>4, BienFuera, PasoDeUno

(* PedirInv: a request is put on the socket for what the CPU may reach.     *)
LEMMA PedirInv ==
  ASSUME NEW c \in Cpus, AccesoInv, pid[c] \in Procesos, ctx[c]["PC"] < Len(programa[pid[c]]),
         PuedeAcceder(c), NEW m \in Solicitudes, NEW f, Pedir(c, f, m),
         \/ /\ f = "lectura" /\ Instr(c).op \in Lecturas /\ m = Solicitud(c, "SI", <<>>)
         \/ /\ f = "escritura" /\ Instr(c).op \in Escrituras
            /\ \E bs \in DatosDe(Tamano(Instr(c), ctx[c])) : m = Solicitud(c, "DI", bs)
  PROVE  AccesoInv'
<1>1. TipoAcceso
  BY DEF AccesoInv
<1>2. /\ programa' = programa /\ pid' = pid /\ ctx' = ctx
      /\ fase'[c] = f /\ pedido'[c] = m /\ Otros(c)
  BY <1>1 DEF TipoAcceso, Pedir, Otros, quietos
<1>3. pedido' \in [Cpus -> Solicitudes]
  BY <1>1 DEF TipoAcceso, Pedir
<1>4. TipoAcceso'
  BY <1>1, <1>3 DEF TipoAcceso, Pedir, quietos
<1>5. Instr(c)' = Instr(c)
  BY <1>2 DEF Instr
<1>6. \A r : Traducir(c, r)' = Traducir(c, r)
  BY <1>2, <1>5 DEF Traducir, Tamano
<1>7. PuedeAcceder(c)'
  BY <1>5, <1>6 DEF PuedeAcceder, Alcanza, MsDe
<1>8. \A r, bs : Solicitud(c, r, bs)' = Solicitud(c, r, bs)
  BY <1>2, <1>5, <1>6 DEF Solicitud, MsDe, Tamano
<1>9. Tamano(Instr(c), ctx[c])' = Tamano(Instr(c), ctx[c])
  BY <1>2, <1>5 DEF Tamano
<1>10. TurnoBien(c)'
  BY <1>2, <1>5, <1>7 DEF TurnoBien
<1>11. PedidoBien(c)'
  BY <1>2, <1>8, <1>9 DEF PedidoBien, DatosDe
<1> QED BY <1>2, <1>4, <1>10, <1>11, PasoDeUno DEF Bien

-----------------------------------------------------------------------------
(* Each action.                                                             *)

LEMMA InitInv == Init => AccesoInv
<1> SUFFICES ASSUME Init PROVE AccesoInv
  OBVIOUS
<1>1. EnCero \in Banco /\ 0 \in Palabras /\ 0 \in Bytes
  BY AnchoOK DEF EnCero, Banco, Palabras, Bytes, Registros
<1>2. Sin \in Solicitudes
  BY <1>1 DEF Sin, Solicitudes
<1>3. \A s \in DOMAIN Sticks : memoria[s] \in [0 .. Sticks[s].limite - 1 -> Bytes]
  BY <1>1 DEF Init
<1>4. TipoAcceso
  BY <1>1, <1>2, <1>3 DEF Init, TipoAcceso
<1>5. \A c \in Cpus : Bien(c)
  BY DEF Init, Bien, TurnoBien, PedidoBien, EnAcceso
<1> QED BY <1>4, <1>5 DEF AccesoInv

(* EnElCiclo: a CPU with an instruction at hand has a process and registers.*)
LEMMA EnElCiclo ==
  ASSUME NEW c \in Cpus, AccesoInv, HayInstr(c)
  PROVE  /\ TipoAcceso /\ ctx[c] \in Banco /\ pid[c] \in Procesos
         /\ ctx[c]["PC"] < Len(programa[pid[c]]) /\ Instr(c) \in Instrucciones
<1>1. TipoAcceso /\ Bien(c) /\ ctx[c] \in Banco
  BY DEF AccesoInv, TipoAcceso
<1>2. pid[c] \in Procesos /\ ctx[c]["PC"] < Len(programa[pid[c]])
  BY <1>1 DEF Bien, TurnoBien, HayInstr
<1> QED BY <1>1, <1>2, InstrTipo

LEMMA DespacharInv ==
  ASSUME NEW c \in Cpus, NEW p \in Procesos, AccesoInv, Despachar(c, p)
  PROVE  AccesoInv'
<1>1. TipoAcceso
  BY DEF AccesoInv
<1>2. contexto[p] \in Banco
  BY <1>1 DEF TipoAcceso
<1>3. ctx' \in [Cpus -> Banco]
  BY <1>1, <1>2 DEF TipoAcceso, Despachar
<1>4. TipoAcceso'
  BY <1>1, <1>3 DEF TipoAcceso, Despachar, quietos
<1>5. fase'[c] = "ciclo" /\ pid'[c] \in Procesos /\ Otros(c) /\ programa' = programa
  BY <1>1 DEF TipoAcceso, Despachar, Otros, quietos
<1> QED BY <1>4, <1>5, BienFuera, PasoDeUno

LEMMA FinDeTurnoInv ==
  ASSUME NEW c \in Cpus, AccesoInv,
         \/ Llamar(c) \/ Salir(c) \/ SalirSinDecodificar(c)
         \/ FallarSegmento(c) \/ Interrumpir(c)
  PROVE  AccesoInv'
<1>1. CASE Llamar(c)
  <2>1. HayInstr(c) /\ Volver(c, Avanzar(ctx[c]), "listo")
    BY <1>1 DEF Llamar
  <2> QED BY <2>1, EnElCiclo, AvanzarTipo, VolverInv DEF Estados
<1>2. CASE Salir(c)
  <2>1. HayInstr(c) /\ Volver(c, Avanzar(ctx[c]), "fin")
    BY <1>2 DEF Salir
  <2> QED BY <2>1, EnElCiclo, AvanzarTipo, VolverInv DEF Estados
<1>3. CASE SalirSinDecodificar(c) \/ FallarSegmento(c)
  <2>1. HayInstr(c) /\ Volver(c, ctx[c], "fin")
    BY <1>3 DEF SalirSinDecodificar, FallarSegmento
  <2> QED BY <2>1, EnElCiclo, VolverInv DEF Estados
<1>4. CASE Interrumpir(c)
  <2>1. fase[c] = "ciclo" /\ Volver(c, ctx[c], "listo")
    BY <1>4 DEF Interrumpir
  <2>2. pid[c] \in Procesos /\ ctx[c] \in Banco
    BY <2>1 DEF AccesoInv, Bien, TurnoBien, TipoAcceso
  <2> QED BY <2>1, <2>2, VolverInv DEF Estados
<1> QED BY <1>1, <1>2, <1>3, <1>4

LEMMA EjecutarInv ==
  ASSUME NEW c \in Cpus, AccesoInv, Ejecutar(c)
  PROVE  AccesoInv'
<1>1. HayInstr(c) /\ Instr(c).op \in Calculos /\ Seguir(c, Calcular(Instr(c), ctx[c]))
  BY DEF Ejecutar
<1>2. Calcular(Instr(c), ctx[c]) \in Banco /\ pid[c] \in Procesos
  BY <1>1, EnElCiclo, CalcularTipo
<1>3. pedido[c] \in Solicitudes /\ pedido = [pedido EXCEPT ![c] = pedido[c]]
  BY DEF AccesoInv, TipoAcceso
<1>4. UNCHANGED <<quietos, contexto, estado, pid, memoria>> /\ pedido' = pedido
  BY DEF Ejecutar
<1>5. pedido' = [pedido EXCEPT ![c] = pedido[c]]
  BY <1>3, <1>4
<1> QED BY <1>1, <1>2, <1>3, <1>4, <1>5, SeguirInv

LEMMA PedirLecturaInv ==
  ASSUME NEW c \in Cpus, AccesoInv, PedirLectura(c)
  PROVE  AccesoInv'
<1>1. /\ HayInstr(c) /\ Instr(c).op \in Lecturas /\ PuedeAcceder(c)
      /\ Pedir(c, "lectura", Solicitud(c, "SI", <<>>))
  BY DEF PedirLectura
<1>2. Alcanza(c, "SI") /\ <<>> \in Seq(Bytes)
  BY <1>1 DEF PuedeAcceder
<1>3. Solicitud(c, "SI", <<>>) \in Solicitudes
  BY <1>1, <1>2, EnElCiclo, SolicitudTipo
<1> QED BY <1>1, <1>3, EnElCiclo, PedirInv

LEMMA PedirEscrituraInv ==
  ASSUME NEW c \in Cpus, AccesoInv, PedirEscritura(c)
  PROVE  AccesoInv'
<1> DEFINE bs == EnBytes(ctx[c][Instr(c).r])
<1>1. /\ HayInstr(c) /\ Instr(c).op = "MOV_OUT" /\ PuedeAcceder(c)
      /\ Pedir(c, "escritura", Solicitud(c, "DI", bs))
  BY DEF PedirEscritura
<1>2. Alcanza(c, "DI") /\ Instr(c).op \in Escrituras
  BY <1>1 DEF PuedeAcceder, Escrituras
<1>3. ctx[c][Instr(c).r] \in Palabras
  BY <1>1, EnElCiclo, BancoLeer DEF Instrucciones
<1>4. bs \in [1 .. PALABRA -> Bytes] /\ Tamano(Instr(c), ctx[c]) = PALABRA
  BY <1>1, <1>3, MemcpyOK DEF Tamano
<1> HIDE DEF bs
<1>5. bs \in DatosDe(Tamano(Instr(c), ctx[c])) /\ bs \in Seq(Bytes)
  BY <1>4, AnchoOK DEF DatosDe
<1>6. Solicitud(c, "DI", bs) \in Solicitudes
  BY <1>1, <1>2, <1>5, EnElCiclo, SolicitudTipo
<1> QED BY <1>1, <1>2, <1>5, <1>6, EnElCiclo, PedirInv

(* LeidoInv: the stick answers a read with as many bytes as were asked for. *)
LEMMA LeidoInv ==
  ASSUME NEW c \in Cpus, AccesoInv, lectura(c)
  PROVE  AccesoInv'
<1> DEFINE m == pedido[c]
           bs == [k \in 1 .. m.tam |-> memoria[m.stick][m.dir + k - 1]]
<1>1. TipoAcceso /\ Bien(c) /\ EnVuelo(c) /\ fase[c] = "lectura" /\ Cabe(m)
  BY DEF AccesoInv, lectura, EnVuelo
<1>2. PICK r \in {"SI", "DI"}, b \in Seq(Bytes) : Alcanza(c, r) /\ m = Solicitud(c, r, b)
  BY <1>1, EnVueloTraducido
<1>3. /\ m.stick \in DOMAIN Sticks /\ m.tam = Tamano(Instr(c), ctx[c])
      /\ m \in Solicitudes /\ m.dir \in Nat /\ m.tam \in Nat
  BY <1>1, <1>2, EnVueloTraducido, SolicitudTipo DEF Solicitudes, Palabras
<1>4. memoria[m.stick] \in [0 .. Sticks[m.stick].limite - 1 -> Bytes] /\ Sticks[m.stick].limite \in Nat
  BY <1>1, <1>3, SticksOK DEF TipoAcceso
<1>5. bs \in [1 .. m.tam -> Bytes]
  <2> HIDE DEF m
  <2>1. m.dir + m.tam <= Sticks[m.stick].limite
    BY <1>1 DEF Cabe
  <2>2. ASSUME NEW k \in 1 .. m.tam PROVE memoria[m.stick][m.dir + k - 1] \in Bytes
    <3>1. m.dir + k - 1 \in 0 .. Sticks[m.stick].limite - 1
      BY <1>3, <1>4, <2>1
    <3> QED BY <1>4, <3>1
  <2> QED BY <2>2
<1>6. /\ pedido' = [pedido EXCEPT ![c].datos = bs] /\ fase' = [fase EXCEPT ![c] = "leido"]
      /\ UNCHANGED <<quietos, contexto, estado, pid, ctx, reviso, memoria>>
  BY DEF lectura
<1> HIDE DEF m, bs
<1>7. pedido' = [pedido EXCEPT ![c] = [m EXCEPT !.datos = bs]]
  BY <1>6 DEF m
<1>8. bs \in Seq(Bytes)
  BY <1>3, <1>5
<1>9. [m EXCEPT !.datos = bs] \in Solicitudes
  BY <1>3, <1>8 DEF Solicitudes
<1>10. TipoAcceso'
  BY <1>1, <1>6, <1>7, <1>9 DEF TipoAcceso, quietos
<1>11. /\ programa' = programa /\ fase'[c] = "leido" /\ pedido'[c].datos = bs /\ Otros(c)
       /\ pid' = pid /\ ctx' = ctx
  BY <1>1, <1>3, <1>6, <1>7 DEF TipoAcceso, Otros, quietos, Solicitudes
<1>12. Instr(c)' = Instr(c)
  BY <1>11 DEF Instr
<1>13. PuedeAcceder(c)' = PuedeAcceder(c)
  BY <1>11, <1>12 DEF PuedeAcceder, Alcanza, Traducir, MsDe, Tamano
<1>14. TurnoBien(c)'
  BY <1>1, <1>11, <1>12, <1>13 DEF Bien, TurnoBien, EnAcceso
<1>15. PedidoBien(c)'
  BY <1>3, <1>5, <1>11, <1>12 DEF PedidoBien, DatosDe, Tamano
<1> QED BY <1>10, <1>11, <1>14, <1>15, PasoDeUno DEF Bien

(* EscritoInv: a write changes bytes of its stick and nothing else.         *)
LEMMA EscritoInv ==
  ASSUME NEW c \in Cpus, AccesoInv, escritura(c)
  PROVE  AccesoInv'
<1> DEFINE m == pedido[c]
<1>1. TipoAcceso /\ Bien(c) /\ EnVuelo(c) /\ fase[c] = "escritura"
  BY DEF AccesoInv, escritura, EnVuelo
<1>2. PICK bs \in DatosDe(Tamano(Instr(c), ctx[c])) : m = Solicitud(c, "DI", bs)
  BY <1>1 DEF Bien, PedidoBien
<1>3. /\ pid[c] \in Procesos /\ ctx[c]["PC"] < Len(programa[pid[c]]) /\ Alcanza(c, "DI")
      /\ Tamano(Instr(c), ctx[c]) \in Palabras
  <2>1. pid[c] \in Procesos /\ ctx[c]["PC"] < Len(programa[pid[c]])
    BY <1>1, EnVueloTraducido
  <2> QED BY <1>1, <2>1, InstrTipo DEF Bien, TurnoBien, EnAcceso, PuedeAcceder
<1>4. bs \in Seq(Bytes)
  BY <1>3 DEF DatosDe, Palabras
<1>5. /\ m.stick \in DOMAIN Sticks /\ m.tam = Tamano(Instr(c), ctx[c]) /\ m.datos = bs
      /\ m.dir \in Nat /\ m.tam \in Nat
  BY <1>1, <1>2, <1>3, <1>4, SolicitudTipo DEF Solicitudes, Palabras
<1>6. m.datos \in [1 .. m.tam -> Bytes]
  BY <1>5 DEF DatosDe
<1> DEFINE nueva == [d \in DOMAIN memoria[m.stick] |->
                      IF m.dir <= d /\ d < m.dir + m.tam THEN m.datos[d - m.dir + 1]
                      ELSE memoria[m.stick][d]]
<1>7. memoria[m.stick] \in [0 .. Sticks[m.stick].limite - 1 -> Bytes]
  BY <1>1, <1>5 DEF TipoAcceso
<1>8. Sticks[m.stick].limite \in Nat
  BY <1>5, SticksOK
<1>9. nueva \in [0 .. Sticks[m.stick].limite - 1 -> Bytes]
  BY <1>5, <1>6, <1>7, <1>8
<1>10. memoria' = [memoria EXCEPT ![m.stick] = nueva]
  BY DEF escritura
<1> HIDE DEF nueva
<1>11. /\ DOMAIN memoria' = DOMAIN Sticks
       /\ \A s \in DOMAIN Sticks : memoria'[s] \in [0 .. Sticks[s].limite - 1 -> Bytes]
  BY <1>1, <1>5, <1>9, <1>10 DEF TipoAcceso
<1>12. TipoAcceso'
  BY <1>1, <1>11 DEF TipoAcceso, escritura, quietos
<1>13. /\ programa' = programa /\ fase'[c] = "escrito" /\ Otros(c)
       /\ pid' = pid /\ ctx' = ctx
  BY <1>1 DEF TipoAcceso, Otros, escritura, quietos
<1>14. Instr(c)' = Instr(c)
  BY <1>13 DEF Instr
<1>15. PuedeAcceder(c)' = PuedeAcceder(c)
  BY <1>13, <1>14 DEF PuedeAcceder, Alcanza, Traducir, MsDe, Tamano
<1>16. TurnoBien(c)'
  BY <1>1, <1>13, <1>14, <1>15 DEF Bien, TurnoBien, EnAcceso
<1>17. PedidoBien(c)'
  BY <1>13 DEF PedidoBien
<1> QED BY <1>12, <1>13, <1>16, <1>17, PasoDeUno DEF Bien

LEMMA MorirInv ==
  ASSUME NEW c \in Cpus, AccesoInv, MorirStick(c)
  PROVE  AccesoInv'
<1>1. TipoAcceso'
  BY DEF AccesoInv, TipoAcceso, MorirStick
<1>2. ASSUME NEW x \in Cpus PROVE Bien(x)'
  BY <1>2, Marco DEF AccesoInv, MorirStick
<1> QED BY <1>1, <1>2 DEF AccesoInv

LEMMA SinTipo == Sin \in Solicitudes
  BY AnchoOK DEF Sin, Solicitudes, Palabras

LEMMA RecibirPalabraInv ==
  ASSUME NEW c \in Cpus, AccesoInv, RecibirPalabra(c)
  PROVE  AccesoInv'
<1> DEFINE i == Instr(c)
           reg == Avanzar(Escribir(ctx[c], i.r, EnPalabra(pedido[c].datos)))
<1>1. /\ TipoAcceso /\ Bien(c) /\ ctx[c] \in Banco /\ fase[c] = "leido" /\ i.op = "MOV_IN"
  BY DEF AccesoInv, TipoAcceso, RecibirPalabra
<1>2. pid[c] \in Procesos /\ ctx[c]["PC"] < Len(programa[pid[c]])
  BY <1>1 DEF Bien, TurnoBien, EnAcceso
<1>3. i.r \in Registros
  BY <1>1, <1>2, InstrTipo DEF Instrucciones
<1>4. pedido[c].datos \in [1 .. PALABRA -> Bytes]
  BY <1>1 DEF Bien, PedidoBien, DatosDe, Tamano
<1>5. EnPalabra(pedido[c].datos) \in Palabras
  BY <1>4, MemcpyOK DEF EnPalabra
<1>6. reg \in Banco
  BY <1>1, <1>3, <1>5, EscribirTipo, AvanzarTipo
<1>7. /\ Seguir(c, reg) /\ pedido' = [pedido EXCEPT ![c] = Sin]
      /\ UNCHANGED <<quietos, contexto, estado, pid, memoria>>
  BY DEF RecibirPalabra
<1> HIDE DEF reg
<1> QED BY <1>2, <1>6, <1>7, SinTipo, SeguirInv

LEMMA RecibirCopiaInv ==
  ASSUME NEW c \in Cpus, AccesoInv, RecibirCopia(c)
  PROVE  AccesoInv'
<1> DEFINE bs == pedido[c].datos
<1>1. /\ TipoAcceso /\ Bien(c) /\ fase[c] = "leido" /\ Instr(c).op = "COPY_MEM"
      /\ Pedir(c, "escritura", Solicitud(c, "DI", bs))
  BY DEF AccesoInv, RecibirCopia
<1>2. /\ pid[c] \in Procesos /\ ctx[c]["PC"] < Len(programa[pid[c]]) /\ PuedeAcceder(c)
      /\ bs \in DatosDe(Tamano(Instr(c), ctx[c]))
  BY <1>1 DEF Bien, TurnoBien, PedidoBien, EnAcceso
<1>3. Instr(c).op \in Escrituras /\ Alcanza(c, "DI")
  BY <1>1, <1>2 DEF PuedeAcceder, Escrituras
<1>4. bs \in Seq(Bytes)
  BY <1>1, <1>2, InstrTipo DEF DatosDe, Palabras
<1>5. Solicitud(c, "DI", bs) \in Solicitudes
  BY <1>1, <1>2, <1>3, <1>4, SolicitudTipo
<1> HIDE DEF bs
<1> QED BY <1>1, <1>2, <1>3, <1>5, PedirInv

LEMMA RecibirOkInv ==
  ASSUME NEW c \in Cpus, AccesoInv, RecibirOk(c)
  PROVE  AccesoInv'
<1>1. /\ TipoAcceso /\ Bien(c) /\ ctx[c] \in Banco /\ fase[c] = "escrito"
  BY DEF AccesoInv, TipoAcceso, RecibirOk
<1>2. pid[c] \in Procesos /\ Avanzar(ctx[c]) \in Banco
  BY <1>1, AvanzarTipo DEF Bien, TurnoBien
<1>3. /\ Seguir(c, Avanzar(ctx[c])) /\ pedido' = [pedido EXCEPT ![c] = Sin]
      /\ UNCHANGED <<quietos, contexto, estado, pid, memoria>>
  BY DEF RecibirOk
<1> QED BY <1>2, <1>3, SinTipo, SeguirInv

-----------------------------------------------------------------------------
LEMMA PasoInv == AccesoInv /\ [Next]_vars => AccesoInv'
<1> SUFFICES ASSUME AccesoInv, [Next]_vars PROVE AccesoInv'
  OBVIOUS
<1>1. CASE UNCHANGED vars
  <2>1. TipoAcceso'
    BY <1>1 DEF AccesoInv, TipoAcceso, vars
  <2>2. ASSUME NEW x \in Cpus PROVE Bien(x)'
    BY <1>1, <2>2, Marco DEF AccesoInv, vars
  <2> QED BY <2>1, <2>2 DEF AccesoInv
<1>2. ASSUME NEW c \in Cpus, Ciclo(c) PROVE AccesoInv'
  BY <1>2, EjecutarInv, FinDeTurnoInv, PedirLecturaInv, PedirEscrituraInv, RecibirPalabraInv,
     RecibirCopiaInv, RecibirOkInv DEF Ciclo
<1>3. ASSUME NEW c \in Cpus, Stick(c) PROVE AccesoInv'
  BY <1>3, LeidoInv, EscritoInv, MorirInv DEF Stick
<1>4. ASSUME NEW c \in Cpus, Interrumpir(c) PROVE AccesoInv'
  BY <1>4, FinDeTurnoInv
<1>5. ASSUME NEW c \in Cpus, NEW p \in Procesos, Despachar(c, p) PROVE AccesoInv'
  BY <1>5, DespacharInv
<1> QED BY <1>1, <1>2, <1>3, <1>4, <1>5 DEF Next

LEMMA AccesoInvariante == Spec => []AccesoInv
  BY InitInv, PasoInv, PTL DEF Spec

(* TipoDelAcceso: registers keep their width, memory its bytes and requests *)
(* their form in every run (ejecutar_proceso, lectura, escritura).          *)
THEOREM TipoDelAcceso == Spec => []TipoAcceso
<1>1. AccesoInv => TipoAcceso
  BY DEF AccesoInv
<1> QED BY <1>1, AccesoInvariante, PTL

(* AccesosPropios: no request of a CPU covers a byte of another process'    *)
(* segment, unless its size wraps in mmu_traducir.                          *)
THEOREM AccesosPropios == Spec => []AccesoPropio
  BY InvPropio, AccesoInvariante, PTL

(* MuertesPorCopia: only a COPY_MEM whose size wraps leaves its stick.      *)
THEOREM MuertesPorCopia == Spec => []MuereSoloPorCopia
  BY InvMuere, AccesoInvariante, PTL

-----------------------------------------------------------------------------
(* Every script runs as on a machine of its own.                            *)

(* DuenosBien: an idle CPU has no process, and a process is on one CPU.     *)
DuenosBien ==
  /\ \A c \in Cpus : fase[c] = "espera" => pid[c] = NADIE
  /\ \A c \in Cpus : pid[c] \in Procesos => estado[pid[c]] = "en_cpu"
  /\ \A c, d \in Cpus : pid[c] \in Procesos /\ pid[c] = pid[d] => c = d

BytesEn(d, n) == [k \in 1 .. n |-> ByteEn(d + k - 1)]

(* DatosBien: what a CPU has read is still in memory until it is used, and  *)
(* what MOV_OUT sends is its register.                                      *)
DatosBien(c) ==
  LET i == Instr(c) n == Tamano(i, ctx[c]) IN
  /\ fase[c] = "leido" \/ (fase[c] = "escritura" /\ i.op = "COPY_MEM") =>
       n <= W - TAM_MAX /\ pedido[c].datos = BytesEn(Traducir(c, "SI"), n)
  /\ fase[c] = "escritura" /\ i.op = "MOV_OUT" => pedido[c].datos = EnBytes(ctx[c][i.r])

MaquinaInv == AccesoInv /\ DuenosBien /\ \A c \in Cpus : DatosBien(c)

-----------------------------------------------------------------------------
(* Addresses.                                                               *)

\* The access is inside a segment, with the sum in Nat.
EnTabla(p, dir, tam) ==
  /\ dir \div TAM_MAX \in DOMAIN Tabla[p]
  /\ (dir % TAM_MAX) + tam <= Tabla[p][dir \div TAM_MAX].limite

(* SegmentoTipo: the numbers of a segment.                                  *)
LEMMA SegmentoTipo ==
  ASSUME NEW p \in Procesos, NEW n \in DOMAIN Tabla[p]
  PROVE  /\ n \in Nat /\ Tabla[p][n].base \in Nat /\ Tabla[p][n].limite \in Nat \ {0}
         /\ Tabla[p][n].limite <= TAM_MAX
         /\ Tabla[p][n].base + Tabla[p][n].limite < UINT32_MAX
         /\ \E s \in DOMAIN Sticks : /\ Sticks[s].base <= Tabla[p][n].base
                /\ Tabla[p][n].base + Tabla[p][n].limite <= Sticks[s].base + Sticks[s].limite
  BY TablaOK, AnchoOK DEF Fin

(* TraducirJusto: an access inside a segment is translated to its bytes,    *)
(* and one whose size does not wrap only then.                              *)
LEMMA TraducirJusto ==
  ASSUME NEW p \in Procesos, NEW dir \in Palabras, NEW tam \in Palabras
  PROVE  /\ EnTabla(p, dir, tam) =>
              /\ mmu_traducir(Tabla[p], dir, tam)
                   = Tabla[p][dir \div TAM_MAX].base + (dir % TAM_MAX)
              /\ mmu_traducir(Tabla[p], dir, tam) # UINT32_MAX
         /\ mmu_traducir(Tabla[p], dir, tam) # UINT32_MAX /\ tam <= W - TAM_MAX
              => EnTabla(p, dir, tam)
<1> DEFINE n == dir \div TAM_MAX  d == dir % TAM_MAX  t == mmu_traducir(Tabla[p], dir, tam)
<1>1. d \in 0 .. TAM_MAX - 1 /\ tam \in Nat /\ W \in Nat \ {0} /\ TAM_MAX <= W
  BY RestoTipo, AnchoOK DEF Palabras
<1>2. t = IF n \in DOMAIN Tabla[p] /\ (d + tam) % W <= Tabla[p][n].limite
            THEN (Tabla[p][n].base + d) % W ELSE UINT32_MAX
  BY DEF mmu_traducir
<1>3. EnTabla(p, dir, tam) <=> n \in DOMAIN Tabla[p] /\ d + tam <= Tabla[p][n].limite
  BY DEF EnTabla
<1> HIDE DEF n, d, t
<1>4. ASSUME n \in DOMAIN Tabla[p], d + tam <= Tabla[p][n].limite
      PROVE  t = Tabla[p][n].base + d /\ t # UINT32_MAX
  <2>1. /\ Tabla[p][n].base \in Nat /\ Tabla[p][n].limite \in Nat
        /\ Tabla[p][n].limite <= TAM_MAX /\ Tabla[p][n].base + Tabla[p][n].limite < W - 1
    BY <1>4, SegmentoTipo DEF UINT32_MAX
  <2>2. d + tam \in 0 .. W - 1 /\ Tabla[p][n].base + d \in 0 .. W - 1
        /\ Tabla[p][n].base + d # W - 1
    BY <1>1, <1>4, <2>1
  <2>3. (d + tam) % W = d + tam /\ (Tabla[p][n].base + d) % W = Tabla[p][n].base + d
    BY <1>1, <2>2, RestoChico
  <2> QED
    BY <1>2, <1>4, <2>2, <2>3 DEF UINT32_MAX
<1>5. ASSUME t # UINT32_MAX, tam <= W - TAM_MAX
      PROVE  n \in DOMAIN Tabla[p] /\ d + tam <= Tabla[p][n].limite
  <2>1. d + tam \in 0 .. W - 1
    BY <1>1, <1>5, AnchoOK
  <2>2. (d + tam) % W = d + tam
    BY <1>1, <2>1, RestoChico
  <2> QED
    BY <1>2, <1>5, <2>2
<1> QED
  BY <1>3, <1>4, <1>5 DEF n, d, t

(* ByteUnico: an address is in one stick.                                   *)
LEMMA ByteUnico ==
  ASSUME NEW s \in DOMAIN Sticks, NEW x \in Nat, Dentro(x, Sticks[s])
  PROVE  /\ ByteEn(x) = memoria[s][x - Sticks[s].base]
         /\ ByteEn(x)' = memoria'[s][x - Sticks[s].base]
<1>1. \A u \in DOMAIN Sticks : Dentro(x, Sticks[u]) => u = s
  <2> SUFFICES ASSUME NEW u \in DOMAIN Sticks, Dentro(x, Sticks[u]), u # s PROVE FALSE
    OBVIOUS
  <2>1. /\ Sticks[s].base \in Nat /\ Sticks[s].limite \in Nat
        /\ Sticks[u].base \in Nat /\ Sticks[u].limite \in Nat
        /\ Fin(Sticks[s]) <= Sticks[u].base \/ Fin(Sticks[u]) <= Sticks[s].base
    BY SticksOK
  <2> QED
    BY <2>1 DEF Dentro, Fin
<1>2. (CHOOSE u \in DOMAIN Sticks : Dentro(x, Sticks[u])) = s
  BY <1>1
<1> QED
  BY <1>2 DEF ByteEn

(* BytesDeSegmento: each byte of a segment is in a stick, and in no other   *)
(* segment.                                                                 *)
LEMMA BytesDeSegmento ==
  ASSUME NEW p \in Procesos, NEW n \in DOMAIN Tabla[p],
         NEW x \in Nat, Tabla[p][n].base <= x, x < Tabla[p][n].base + Tabla[p][n].limite
  PROVE  /\ \E s \in DOMAIN Sticks : Dentro(x, Sticks[s]) /\ Dentro(Tabla[p][n].base, Sticks[s])
         /\ \A q \in Procesos : \A m \in DOMAIN Tabla[q] :
              Tabla[q][m].base <= x /\ x < Tabla[q][m].base + Tabla[q][m].limite
                => q = p /\ m = n
<1>1. PICK s \in DOMAIN Sticks :
        /\ Sticks[s].base <= Tabla[p][n].base
        /\ Tabla[p][n].base + Tabla[p][n].limite <= Sticks[s].base + Sticks[s].limite
  BY SegmentoTipo
<1>2. /\ Sticks[s].base \in Nat /\ Sticks[s].limite \in Nat
      /\ Tabla[p][n].base \in Nat /\ Tabla[p][n].limite \in Nat \ {0}
  BY SticksOK, SegmentoTipo
<1>3. Dentro(x, Sticks[s]) /\ Dentro(Tabla[p][n].base, Sticks[s])
  BY <1>1, <1>2 DEF Dentro, Fin
<1>4. ASSUME NEW q \in Procesos, NEW m \in DOMAIN Tabla[q],
             Tabla[q][m].base <= x, x < Tabla[q][m].base + Tabla[q][m].limite
      PROVE  q = p /\ m = n
  <2>1. Tabla[q][m].base \in Nat /\ Tabla[q][m].limite \in Nat
    BY SegmentoTipo
  <2>2. \/ p = q /\ n = m
        \/ Tabla[p][n].base + Tabla[p][n].limite <= Tabla[q][m].base
        \/ Tabla[q][m].base + Tabla[q][m].limite <= Tabla[p][n].base
    BY SinSolapeOK DEF Fin
  <2> QED
    BY <1>2, <1>4, <2>1, <2>2
<1> QED
  BY <1>3, <1>4

-----------------------------------------------------------------------------
(* The processes and their CPUs.                                            *)

(* DuenosFijos: nobody takes or leaves a CPU.                               *)
LEMMA DuenosFijos ==
  ASSUME DuenosBien, pid' = pid, estado' = estado,
         \A c \in Cpus : fase'[c] = "espera" => fase[c] = "espera"
  PROVE  DuenosBien'
  BY DEF DuenosBien

(* DuenosVolver: the end of a turn.                                         *)
LEMMA DuenosVolver ==
  ASSUME NEW c \in Cpus, TipoAcceso, DuenosBien, pid[c] \in Procesos, NEW reg, NEW e,
         Volver(c, reg, e)
  PROVE  DuenosBien'
<1>1. /\ pid'[c] = NADIE /\ fase'[c] = "espera" /\ NADIE \notin Procesos
      /\ \A d \in Cpus \ {c} : pid'[d] = pid[d] /\ fase'[d] = fase[d]
      /\ \A q \in Procesos \ {pid[c]} : estado'[q] = estado[q]
  BY NadieOK DEF TipoAcceso, Volver
<1>2. \A d \in Cpus \ {c} : pid[d] \in Procesos => pid[d] # pid[c] /\ estado'[pid[d]] = "en_cpu"
  BY <1>1 DEF DuenosBien
<1> QED
  BY <1>1, <1>2 DEF DuenosBien

(* DuenosDespachar: the scheduler gives a CPU a process that has none.      *)
LEMMA DuenosDespachar ==
  ASSUME NEW c \in Cpus, NEW p \in Procesos, TipoAcceso, DuenosBien, Despachar(c, p)
  PROVE  DuenosBien'
<1>1. /\ pid'[c] = p /\ fase'[c] = "ciclo" /\ estado'[p] = "en_cpu" /\ estado[p] = "listo"
      /\ \A d \in Cpus \ {c} : pid'[d] = pid[d] /\ fase'[d] = fase[d]
      /\ \A q \in Procesos \ {p} : estado'[q] = estado[q]
  BY DEF TipoAcceso, Despachar
<1>2. \A d \in Cpus : pid[d] # p
  BY <1>1 DEF DuenosBien
<1> QED
  BY <1>1, <1>2 DEF DuenosBien

(* DuenosPaso: a process is on one CPU whatever the scheduler does.         *)
LEMMA DuenosPaso ==
  ASSUME AccesoInv, DuenosBien, [Next]_vars
  PROVE  DuenosBien'
<1>0. TipoAcceso /\ \A c \in Cpus : fase[c] # "espera" => pid[c] \in Procesos
  BY DEF AccesoInv, Bien, TurnoBien
<1>1. CASE UNCHANGED vars
  BY <1>1, DuenosFijos DEF vars
<1>2. ASSUME NEW c \in Cpus,
             \/ Ejecutar(c) \/ PedirLectura(c) \/ PedirEscritura(c)
             \/ RecibirPalabra(c) \/ RecibirCopia(c) \/ RecibirOk(c) \/ Stick(c)
      PROVE  DuenosBien'
  <2>1. pid' = pid /\ estado' = estado
    BY <1>2 DEF Ejecutar, PedirLectura, PedirEscritura, Pedir, RecibirPalabra, RecibirCopia,
       RecibirOk, Stick, lectura, escritura, MorirStick
  <2>2. \E f \in {"ciclo", "lectura", "leido", "escritura", "escrito"} :
          fase' = [fase EXCEPT ![c] = f] \/ fase' = fase
    BY <1>2 DEF Ejecutar, PedirLectura, PedirEscritura, Pedir, RecibirPalabra, RecibirCopia,
       RecibirOk, Stick, lectura, escritura, MorirStick, Seguir
  <2>3. \A d \in Cpus : fase'[d] = "espera" => fase[d] = "espera"
    BY <1>0, <2>2 DEF TipoAcceso
  <2> QED
    BY <2>1, <2>3, DuenosFijos
<1>3. ASSUME NEW c \in Cpus,
             \/ Llamar(c) \/ Salir(c) \/ SalirSinDecodificar(c) \/ FallarSegmento(c)
             \/ Interrumpir(c)
      PROVE  DuenosBien'
  <2>1. fase[c] = "ciclo" /\ \E reg, e : Volver(c, reg, e)
    BY <1>3 DEF Llamar, Salir, SalirSinDecodificar, FallarSegmento, Interrumpir, HayInstr
  <2> QED
    BY <1>0, <2>1, DuenosVolver
<1>4. ASSUME NEW c \in Cpus, NEW p \in Procesos, Despachar(c, p) PROVE DuenosBien'
  BY <1>0, <1>4, DuenosDespachar
<1> QED
  BY <1>1, <1>2, <1>3, <1>4 DEF Next, Ciclo

-----------------------------------------------------------------------------
(* The bytes of an access.                                                  *)

(* AccesoJusto: what the MMU translates and does not wrap is inside one     *)
(* segment of the process, and each of its bytes in some stick.             *)
LEMMA AccesoJusto ==
  ASSUME NEW c \in Cpus, TipoAcceso, pid[c] \in Procesos, ctx[c]["PC"] < Len(programa[pid[c]]),
         NEW r \in {"SI", "DI"}, Traducir(c, r) # UINT32_MAX,
         Tamano(Instr(c), ctx[c]) <= W - TAM_MAX
  PROVE  LET p == pid[c] dir == ctx[c][r] n == ctx[c][r] \div TAM_MAX
             tam == Tamano(Instr(c), ctx[c])
         IN  /\ EnTabla(p, dir, tam) /\ n \in DOMAIN Tabla[p]
             /\ dir \in Palabras /\ tam \in Palabras /\ dir % TAM_MAX \in Nat
             /\ Traducir(c, r) = Tabla[p][n].base + (dir % TAM_MAX)
             /\ Traducir(c, r) + tam <= Tabla[p][n].base + Tabla[p][n].limite
<1>1. ctx[c][r] \in Palabras /\ Tamano(Instr(c), ctx[c]) \in Palabras
  BY InstrTipo, BancoLeer DEF TipoAcceso, Registros
<1>2. /\ EnTabla(pid[c], ctx[c][r], Tamano(Instr(c), ctx[c]))
      /\ Traducir(c, r) = Tabla[pid[c]][ctx[c][r] \div TAM_MAX].base + (ctx[c][r] % TAM_MAX)
  BY <1>1, TraducirJusto DEF Traducir
<1>3. ctx[c][r] % TAM_MAX \in Nat
  <2>1. ctx[c][r] \in Nat /\ TAM_MAX \in Nat \ {0}
    BY <1>1, AnchoOK DEF Palabras
  <2>2. ctx[c][r] % TAM_MAX \in 0 .. TAM_MAX - 1
    BY <2>1, RestoTipo
  <2> QED
    BY <2>1, <2>2
<1>4. ctx[c][r] \div TAM_MAX \in DOMAIN Tabla[pid[c]]
  BY <1>2 DEF EnTabla
<1>5. /\ Tabla[pid[c]][ctx[c][r] \div TAM_MAX].base \in Nat
      /\ Tabla[pid[c]][ctx[c][r] \div TAM_MAX].limite \in Nat
  BY <1>4, SegmentoTipo
<1>6. (ctx[c][r] % TAM_MAX) + Tamano(Instr(c), ctx[c])
        <= Tabla[pid[c]][ctx[c][r] \div TAM_MAX].limite
  BY <1>2 DEF EnTabla
<1>7. Traducir(c, r) + Tamano(Instr(c), ctx[c])
        <= Tabla[pid[c]][ctx[c][r] \div TAM_MAX].base
             + Tabla[pid[c]][ctx[c][r] \div TAM_MAX].limite
  BY <1>1, <1>2, <1>3, <1>5, <1>6 DEF Palabras
<1> QED
  BY <1>1, <1>2, <1>3, <1>4, <1>7

(* CabeNormal: what fits in a stick does not wrap.                          *)
LEMMA CabeNormal ==
  ASSUME NEW c \in Cpus, AccesoInv, EnVuelo(c), Cabe(pedido[c])
  PROVE  /\ pedido[c].stick \in DOMAIN Sticks /\ pedido[c].dir \in Nat
         /\ pedido[c].tam \in Palabras
         /\ pedido[c].tam = Tamano(Instr(c), ctx[c]) /\ Normal(pedido[c])
         /\ Dentro(Fisica(pedido[c]), Sticks[pedido[c].stick])
<1>1. PICK r \in {"SI", "DI"}, bs \in Seq(Bytes) :
        Alcanza(c, r) /\ pedido[c] = Solicitud(c, r, bs)
  BY EnVueloTraducido
<1>2. pid[c] \in Procesos /\ ctx[c]["PC"] < Len(programa[pid[c]]) /\ TipoAcceso
  BY EnVueloTraducido DEF AccesoInv
<1>3. /\ pedido[c] \in Solicitudes /\ pedido[c].stick \in DOMAIN Sticks
      /\ Dentro(Fisica(pedido[c]), Sticks[pedido[c].stick])
      /\ pedido[c].tam = Tamano(Instr(c), ctx[c])
  BY <1>1, <1>2, SolicitudTipo
<1>4. pedido[c].dir \in Nat /\ pedido[c].tam \in Palabras
  BY <1>3 DEF Solicitudes
<1>5. Sticks[pedido[c].stick].limite \in Nat /\ Sticks[pedido[c].stick].limite <= W - TAM_MAX
  BY <1>3, SticksOK, SticksChicosOK
<1>6. pedido[c].dir + pedido[c].tam <= Sticks[pedido[c].stick].limite
  BY DEF Cabe
<1>7. pedido[c].tam <= W - TAM_MAX
  BY <1>4, <1>5, <1>6, AnchoOK DEF Palabras
<1> QED
  BY <1>3, <1>4, <1>7 DEF Normal

(* BytesTrasEscribir: a write changes the bytes of its request, which are   *)
(* bytes of one segment of the process of the CPU, and no others.           *)
LEMMA BytesTrasEscribir ==
  ASSUME NEW c \in Cpus, AccesoInv, escritura(c),
         NEW x \in Nat, NEW s \in DOMAIN Sticks, Dentro(x, Sticks[s])
  PROVE  LET m == pedido[c]
         IN  ByteEn(x)' = IF Fisica(m) <= x /\ x < Fisica(m) + m.tam
                            THEN m.datos[x - Fisica(m) + 1] ELSE ByteEn(x)
<1> DEFINE m == pedido[c]
           nueva == [d \in DOMAIN memoria[m.stick] |->
                      IF m.dir <= d /\ d < m.dir + m.tam THEN m.datos[d - m.dir + 1]
                      ELSE memoria[m.stick][d]]
<1>1. /\ m.stick \in DOMAIN Sticks /\ m.dir \in Nat /\ m.tam \in Nat
      /\ m.dir + m.tam <= Sticks[m.stick].limite
  <2>1. EnVuelo(c) /\ Cabe(m)
    BY DEF escritura, EnVuelo
  <2> QED
    BY <2>1, CabeNormal DEF Cabe, Palabras
<1>2. TipoAcceso
  BY DEF AccesoInv
<1>3. memoria' = [memoria EXCEPT ![m.stick] = nueva]
  BY DEF escritura
<1>4. /\ Sticks[s].base \in Nat /\ Sticks[s].limite \in Nat
      /\ Sticks[m.stick].base \in Nat /\ Sticks[m.stick].limite \in Nat
  BY <1>1, SticksOK
<1>5. Sticks[s].base <= x /\ x < Sticks[s].base + Sticks[s].limite
  BY DEF Dentro, Fin
<1>6. Fisica(m) = Sticks[m.stick].base + m.dir
  BY DEF Fisica
<1>7. ByteEn(x) = memoria[s][x - Sticks[s].base] /\ ByteEn(x)' = memoria'[s][x - Sticks[s].base]
  BY ByteUnico
<1>8. DOMAIN memoria = DOMAIN Sticks /\ DOMAIN memoria[s] = 0 .. Sticks[s].limite - 1
  BY <1>2 DEF TipoAcceso
<1>9. x - Sticks[s].base \in 0 .. Sticks[s].limite - 1
  BY <1>4, <1>5
<1>10. CASE s = m.stick
  <2>1. memoria'[s] = nueva
    BY <1>3, <1>8, <1>10
  <2>2. nueva[x - Sticks[s].base]
          = IF m.dir <= x - Sticks[s].base /\ x - Sticks[s].base < m.dir + m.tam
              THEN m.datos[x - Sticks[s].base - m.dir + 1] ELSE memoria[s][x - Sticks[s].base]
    BY <1>8, <1>9, <1>10
  <2> HIDE DEF nueva, m
  <2>3. m.dir <= x - Sticks[s].base <=> Fisica(m) <= x
    BY <1>1, <1>4, <1>6, <1>10
  <2>4. x - Sticks[s].base < m.dir + m.tam <=> x < Fisica(m) + m.tam
    BY <1>1, <1>4, <1>6, <1>10
  <2>5. x - Sticks[s].base - m.dir + 1 = x - Fisica(m) + 1
    BY <1>1, <1>4, <1>6, <1>10
  <2>6. ByteEn(x)' = IF Fisica(m) <= x /\ x < Fisica(m) + m.tam
                       THEN m.datos[x - Fisica(m) + 1] ELSE ByteEn(x)
    BY <1>7, <2>1, <2>2, <2>3, <2>4, <2>5
  <2> QED
    BY <2>6 DEF m
<1>11. CASE s # m.stick
  <2>1. memoria'[s] = memoria[s]
    BY <1>3, <1>8, <1>11
  <2>2. ~ (Fisica(m) <= x /\ x < Fisica(m) + m.tam)
    <3>1. Fin(Sticks[s]) <= Sticks[m.stick].base \/ Fin(Sticks[m.stick]) <= Sticks[s].base
      BY <1>1, <1>11, SticksOK
    <3> HIDE DEF nueva, m
    <3> QED
      BY <1>1, <1>4, <1>5, <1>6, <3>1 DEF Fin
  <2> QED
    BY <1>7, <2>1, <2>2
<1> QED
  BY <1>10, <1>11

(* EscrituraPropia: the bytes a write changes are in a segment of the       *)
(* process the CPU executes.                                                *)
LEMMA EscrituraPropia ==
  ASSUME NEW c \in Cpus, AccesoInv, escritura(c)
  PROVE  /\ pid[c] \in Procesos
         /\ \E n \in DOMAIN Tabla[pid[c]] : \A x \in Nat :
              Fisica(pedido[c]) <= x /\ x < Fisica(pedido[c]) + pedido[c].tam
                => /\ Tabla[pid[c]][n].base <= x
                   /\ x < Tabla[pid[c]][n].base + Tabla[pid[c]][n].limite
<1>1. EnVuelo(c) /\ Cabe(pedido[c])
  BY DEF escritura, EnVuelo
<1>2. Normal(pedido[c]) /\ pid[c] \in Procesos
  BY <1>1, CabeNormal, EnVueloTraducido
<1>3. PICK n \in DOMAIN Tabla[pid[c]] :
        /\ Tabla[pid[c]][n].base <= Fisica(pedido[c])
        /\ Fisica(pedido[c]) + pedido[c].tam <= Fin(Tabla[pid[c]][n])
  BY <1>1, <1>2, EnUnSegmento
<1>4. Tabla[pid[c]][n].base \in Nat /\ Tabla[pid[c]][n].limite \in Nat
  BY <1>2, SegmentoTipo
<1>5. Fisica(pedido[c]) \in Nat /\ pedido[c].tam \in Nat
  <2>1. /\ pedido[c].stick \in DOMAIN Sticks /\ pedido[c].dir \in Nat
        /\ pedido[c].tam \in Nat
    BY <1>1, CabeNormal DEF Palabras
  <2> QED
    BY <2>1, SticksOK DEF Fisica
<1> QED
  BY <1>2, <1>3, <1>4, <1>5 DEF Fin

(* BytesAjenos: no other process sees a byte of its segments change.        *)
LEMMA BytesAjenos ==
  ASSUME NEW c \in Cpus, AccesoInv, escritura(c),
         NEW q \in Procesos, q # pid[c], NEW n \in DOMAIN Tabla[q],
         NEW x \in Nat, Tabla[q][n].base <= x, x < Tabla[q][n].base + Tabla[q][n].limite
  PROVE  ByteEn(x)' = ByteEn(x)
<1>1. PICK s \in DOMAIN Sticks : Dentro(x, Sticks[s])
  BY BytesDeSegmento
<1>2. \A p \in Procesos : \A m \in DOMAIN Tabla[p] :
        Tabla[p][m].base <= x /\ x < Tabla[p][m].base + Tabla[p][m].limite
          => p = q /\ m = n
  BY BytesDeSegmento
<1>3. pid[c] \in Procesos /\ ~ (Fisica(pedido[c]) <= x /\ x < Fisica(pedido[c]) + pedido[c].tam)
  BY <1>2, EscrituraPropia
<1> QED
  BY <1>1, <1>3, BytesTrasEscribir

-----------------------------------------------------------------------------
(* What a CPU carries between two requests.                                 *)

(* LecturaEnCurso: the process of a CPU that has read reaches its bytes.    *)
LEMMA LecturaEnCurso ==
  ASSUME NEW c \in Cpus, AccesoInv,
         fase[c] = "leido" \/ (fase[c] = "escritura" /\ Instr(c).op = "COPY_MEM")
  PROVE  /\ pid[c] \in Procesos /\ ctx[c]["PC"] < Len(programa[pid[c]])
         /\ Alcanza(c, "SI") /\ Traducir(c, "SI") # UINT32_MAX
<1>1. Bien(c)
  BY DEF AccesoInv
<1>2. pid[c] \in Procesos /\ ctx[c]["PC"] < Len(programa[pid[c]]) /\ PuedeAcceder(c)
  BY <1>1 DEF Bien, TurnoBien, EnAcceso
<1>3. Instr(c).op \in Lecturas
  BY <1>1 DEF Bien, TurnoBien, Lecturas
<1> QED
  BY <1>2, <1>3 DEF PuedeAcceder, Alcanza

(* BytesQuietos: what a CPU reads is not changed by the others.             *)
LEMMA BytesQuietos ==
  ASSUME NEW c \in Cpus, NEW x \in Cpus \ {c}, AccesoInv, DuenosBien, escritura(c),
         pid[x] \in Procesos, ctx[x]["PC"] < Len(programa[pid[x]]),
         Traducir(x, "SI") # UINT32_MAX, Tamano(Instr(x), ctx[x]) <= W - TAM_MAX,
         NEW y \in Nat, Traducir(x, "SI") <= y,
         y < Traducir(x, "SI") + Tamano(Instr(x), ctx[x])
  PROVE  ByteEn(y)' = ByteEn(y)
<1>1. TipoAcceso
  BY DEF AccesoInv
<1> DEFINE n == ctx[x]["SI"] \div TAM_MAX
<1>2. /\ n \in DOMAIN Tabla[pid[x]] /\ ctx[x]["SI"] % TAM_MAX \in Nat
      /\ Tamano(Instr(x), ctx[x]) \in Nat
      /\ Traducir(x, "SI") = Tabla[pid[x]][n].base + (ctx[x]["SI"] % TAM_MAX)
      /\ Traducir(x, "SI") + Tamano(Instr(x), ctx[x])
           <= Tabla[pid[x]][n].base + Tabla[pid[x]][n].limite
  BY <1>1, AccesoJusto DEF Palabras
<1>3. Tabla[pid[x]][n].base \in Nat /\ Tabla[pid[x]][n].limite \in Nat
  BY <1>2, SegmentoTipo
<1> HIDE DEF n
<1>4. Tabla[pid[x]][n].base <= y /\ y < Tabla[pid[x]][n].base + Tabla[pid[x]][n].limite
  BY <1>2, <1>3
<1>5. pid[c] # pid[x]
  BY DEF DuenosBien
<1> QED
  BY <1>2, <1>4, <1>5, BytesAjenos

(* DatosFijos: a CPU that does not move carries the same bytes.             *)
LEMMA DatosFijos ==
  ASSUME NEW x \in Cpus, AccesoInv, DuenosBien, DatosBien(x), programa' = programa,
         pid'[x] = pid[x], ctx'[x] = ctx[x], fase'[x] = fase[x], pedido'[x] = pedido[x],
         memoria' = memoria \/ \E c \in Cpus \ {x} : escritura(c)
  PROVE  DatosBien(x)'
<1> DEFINE lee == fase[x] = "leido" \/ (fase[x] = "escritura" /\ Instr(x).op = "COPY_MEM")
<1>1. /\ Instr(x)' = Instr(x) /\ Tamano(Instr(x), ctx[x])' = Tamano(Instr(x), ctx[x])
      /\ Traducir(x, "SI")' = Traducir(x, "SI")
  BY DEF Instr, Tamano, Traducir
<1>2. ASSUME lee
      PROVE  /\ Tamano(Instr(x), ctx[x]) <= W - TAM_MAX
             /\ pedido[x].datos = BytesEn(Traducir(x, "SI"), Tamano(Instr(x), ctx[x]))'
  <2>1. /\ Tamano(Instr(x), ctx[x]) <= W - TAM_MAX
        /\ pedido[x].datos = BytesEn(Traducir(x, "SI"), Tamano(Instr(x), ctx[x]))
    BY <1>2 DEF DatosBien
  <2>2. TipoAcceso
    BY DEF AccesoInv
  <2>3. /\ pid[x] \in Procesos /\ ctx[x]["PC"] < Len(programa[pid[x]])
        /\ Traducir(x, "SI") # UINT32_MAX
    BY <1>2, LecturaEnCurso
  <2>4. /\ Tamano(Instr(x), ctx[x]) \in Nat /\ Traducir(x, "SI") \in Nat
    <3>1. /\ ctx[x]["SI"] \div TAM_MAX \in DOMAIN Tabla[pid[x]]
          /\ Tamano(Instr(x), ctx[x]) \in Palabras /\ ctx[x]["SI"] % TAM_MAX \in Nat
          /\ Traducir(x, "SI") = Tabla[pid[x]][ctx[x]["SI"] \div TAM_MAX].base
                                   + (ctx[x]["SI"] % TAM_MAX)
      BY <2>1, <2>2, <2>3, AccesoJusto
    <3>2. Tabla[pid[x]][ctx[x]["SI"] \div TAM_MAX].base \in Nat
      BY <2>3, <3>1, SegmentoTipo
    <3> QED
      BY <3>1, <3>2 DEF Palabras
  <2>5. PICK t \in Nat, n \in Nat : t = Traducir(x, "SI") /\ n = Tamano(Instr(x), ctx[x])
    BY <2>4
  <2>6. ASSUME NEW k \in 1 .. n PROVE ByteEn(t + k - 1)' = ByteEn(t + k - 1)
    <3>1. PICK y \in Nat : y = t + k - 1 /\ t <= y /\ y < t + n
      <4>1. t + k - 1 \in Nat /\ t <= t + k - 1 /\ t + k - 1 < t + n
        BY <2>5
      <4> QED
        BY <4>1
    <3>2. CASE memoria' = memoria
      BY <3>2 DEF ByteEn
    <3>3. CASE \E c \in Cpus \ {x} : escritura(c)
      <4>1. PICK c \in Cpus \ {x} : escritura(c)
        BY <3>3
      <4>2. ByteEn(y)' = ByteEn(y)
        BY <2>1, <2>3, <2>5, <3>1, <4>1, BytesQuietos
      <4> QED
        BY <3>1, <4>2
    <3> QED
      BY <3>2, <3>3
  <2>7. BytesEn(t, n)' = BytesEn(t, n)
    BY <2>6 DEF BytesEn
  <2>8. BytesEn(Traducir(x, "SI"), Tamano(Instr(x), ctx[x]))' = BytesEn(t, n)'
    BY <1>1, <2>5 DEF BytesEn
  <2> QED
    BY <2>1, <2>5, <2>7, <2>8
<1>3. lee' = lee
  BY <1>1
<1>4. lee' => /\ Tamano(Instr(x), ctx[x])' <= W - TAM_MAX
              /\ pedido'[x].datos = BytesEn(Traducir(x, "SI"), Tamano(Instr(x), ctx[x]))'
  BY <1>1, <1>2, <1>3
<1>5. (fase[x] = "escritura" /\ Instr(x).op = "MOV_OUT")'
        => (pedido[x].datos = EnBytes(ctx[x][Instr(x).r]))'
  BY <1>1 DEF DatosBien
<1> QED
  BY <1>4, <1>5 DEF DatosBien

(* DatosFuera: a CPU that carries nothing.                                  *)
LEMMA DatosFuera ==
  ASSUME NEW c \in Cpus, fase'[c] \notin {"leido", "escritura"}
  PROVE  DatosBien(c)'
  BY DEF DatosBien

(* DatosLeidos: the stick answers with the bytes of the translation.        *)
LEMMA DatosLeidos ==
  ASSUME NEW c \in Cpus, AccesoInv, lectura(c)
  PROVE  DatosBien(c)'
<1> DEFINE m == pedido[c]
           bs == [k \in 1 .. m.tam |-> memoria[m.stick][m.dir + k - 1]]
<1>1. TipoAcceso /\ Bien(c) /\ EnVuelo(c) /\ fase[c] = "lectura" /\ Cabe(m)
  BY DEF AccesoInv, lectura, EnVuelo
<1>2. /\ m.stick \in DOMAIN Sticks /\ m.dir \in Nat /\ m.tam \in Nat
      /\ m.tam = Tamano(Instr(c), ctx[c]) /\ m.tam <= W - TAM_MAX
      /\ m.dir + m.tam <= Sticks[m.stick].limite
  BY <1>1, CabeNormal DEF Normal, Cabe, Palabras
<1>3. Traducir(c, "SI") = Sticks[m.stick].base + m.dir
  <2>1. m = Solicitud(c, "SI", <<>>) /\ <<>> \in Seq(Bytes)
    BY <1>1 DEF Bien, PedidoBien
  <2>2. pid[c] \in Procesos /\ ctx[c]["PC"] < Len(programa[pid[c]])
    BY <1>1, EnVueloTraducido
  <2>3. Alcanza(c, "SI")
    BY <1>1 DEF Bien, TurnoBien, EnAcceso, PuedeAcceder
  <2>4. Fisica(m) = Traducir(c, "SI")
    BY <1>1, <2>1, <2>2, <2>3, SolicitudTipo
  <2> QED
    BY <2>4 DEF Fisica
<1>4. Sticks[m.stick].base \in Nat /\ Sticks[m.stick].limite \in Nat
  BY <1>2, SticksOK
<1>5. /\ programa' = programa /\ pid' = pid /\ ctx' = ctx /\ memoria' = memoria
      /\ pedido' = [pedido EXCEPT ![c].datos = bs] /\ fase' = [fase EXCEPT ![c] = "leido"]
  BY DEF lectura, quietos
<1> HIDE DEF m
<1>6. bs = BytesEn(Traducir(c, "SI"), m.tam)
  <2>1. ASSUME NEW k \in 1 .. m.tam
        PROVE  memoria[m.stick][m.dir + k - 1] = ByteEn(Traducir(c, "SI") + k - 1)
    <3> DEFINE x == Traducir(c, "SI") + k - 1
    <3>1. /\ x \in Nat /\ Sticks[m.stick].base <= x
          /\ x < Sticks[m.stick].base + Sticks[m.stick].limite
          /\ x - Sticks[m.stick].base = m.dir + k - 1
      BY <1>2, <1>3, <1>4
    <3> HIDE DEF x
    <3>3. Dentro(x, Sticks[m.stick])
      BY <3>1 DEF Dentro, Fin
    <3>2. ByteEn(x) = memoria[m.stick][x - Sticks[m.stick].base]
      BY <1>2, <3>1, <3>3, ByteUnico
    <3> QED
      BY <3>1, <3>2 DEF x
  <2> QED
    BY <2>1 DEF BytesEn
<1>7. pedido'[c].datos = bs /\ fase'[c] = "leido"
  BY <1>1, <1>5 DEF TipoAcceso, Solicitudes
<1> HIDE DEF bs
<1>8. /\ Tamano(Instr(c), ctx[c])' = m.tam
      /\ BytesEn(Traducir(c, "SI"), Tamano(Instr(c), ctx[c]))' = BytesEn(Traducir(c, "SI"), m.tam)
  BY <1>2, <1>5 DEF Instr, Tamano, Traducir, BytesEn, ByteEn
<1> QED
  BY <1>2, <1>6, <1>7, <1>8 DEF DatosBien

(* DatosCopia: COPY_MEM sends on what it read.                              *)
LEMMA DatosCopia ==
  ASSUME NEW c \in Cpus, AccesoInv, DatosBien(c), RecibirCopia(c)
  PROVE  DatosBien(c)'
<1>1. /\ TipoAcceso /\ fase[c] = "leido" /\ Instr(c).op = "COPY_MEM"
      /\ Pedir(c, "escritura", Solicitud(c, "DI", pedido[c].datos))
  BY DEF AccesoInv, RecibirCopia
<1>2. /\ programa' = programa /\ pid' = pid /\ ctx' = ctx /\ memoria' = memoria
      /\ fase'[c] = "escritura" /\ pedido'[c].datos = pedido[c].datos
  BY <1>1 DEF TipoAcceso, Pedir, quietos, Solicitud
<1>3. /\ Instr(c)' = Instr(c) /\ Tamano(Instr(c), ctx[c])' = Tamano(Instr(c), ctx[c])
      /\ BytesEn(Traducir(c, "SI"), Tamano(Instr(c), ctx[c]))'
           = BytesEn(Traducir(c, "SI"), Tamano(Instr(c), ctx[c]))
  BY <1>2 DEF Instr, Tamano, Traducir, BytesEn, ByteEn
<1> QED
  BY <1>1, <1>2, <1>3 DEF DatosBien

(* DatosPalabra: MOV_OUT sends its register.                                *)
LEMMA DatosPalabra ==
  ASSUME NEW c \in Cpus, AccesoInv, PedirEscritura(c)
  PROVE  DatosBien(c)'
<1>1. /\ TipoAcceso /\ Instr(c).op = "MOV_OUT"
      /\ Pedir(c, "escritura", Solicitud(c, "DI", EnBytes(ctx[c][Instr(c).r])))
  BY DEF AccesoInv, PedirEscritura
<1>2. /\ programa' = programa /\ pid' = pid /\ ctx' = ctx
      /\ fase'[c] = "escritura" /\ pedido'[c].datos = EnBytes(ctx[c][Instr(c).r])
  BY <1>1 DEF TipoAcceso, Pedir, quietos, Solicitud
<1>3. Instr(c)' = Instr(c)
  BY <1>2 DEF Instr
<1> QED
  BY <1>1, <1>2, <1>3 DEF DatosBien

(* DatosDeUno: the CPUs that do not move carry the same bytes.              *)
LEMMA DatosDeUno ==
  ASSUME NEW c \in Cpus, MaquinaInv, programa' = programa, Otros(c),
         memoria' = memoria \/ escritura(c), DatosBien(c)'
  PROVE  \A x \in Cpus : DatosBien(x)'
<1>1. ASSUME NEW x \in Cpus \ {c} PROVE DatosBien(x)'
  BY <1>1, DatosFijos DEF MaquinaInv, Otros
<1> QED
  BY <1>1

LEMMA DatosPaso == MaquinaInv /\ [Next]_vars => \A x \in Cpus : DatosBien(x)'
<1> SUFFICES ASSUME MaquinaInv, [Next]_vars PROVE \A x \in Cpus : DatosBien(x)'
  OBVIOUS
<1>0. AccesoInv /\ TipoAcceso /\ \A c \in Cpus : DatosBien(c)
  BY DEF MaquinaInv, AccesoInv
<1>1. CASE UNCHANGED vars
  BY <1>1, DatosFijos DEF MaquinaInv, vars
<1>2. ASSUME NEW c \in Cpus,
             \/ Ejecutar(c) \/ RecibirPalabra(c) \/ RecibirOk(c) \/ PedirLectura(c)
      PROVE  \A x \in Cpus : DatosBien(x)'
  <2>1. /\ fase'[c] \in {"ciclo", "lectura"} /\ Otros(c) /\ programa' = programa
        /\ memoria' = memoria
    BY <1>0, <1>2 DEF TipoAcceso, Ejecutar, RecibirPalabra, RecibirOk, PedirLectura, Pedir,
       Seguir, Otros, quietos
  <2> QED
    BY <2>1, DatosFuera, DatosDeUno
<1>3. ASSUME NEW c \in Cpus,
             \/ Llamar(c) \/ Salir(c) \/ SalirSinDecodificar(c) \/ FallarSegmento(c)
             \/ Interrumpir(c)
      PROVE  \A x \in Cpus : DatosBien(x)'
  <2>1. \E reg, e : Volver(c, reg, e)
    BY <1>3 DEF Llamar, Salir, SalirSinDecodificar, FallarSegmento, Interrumpir
  <2>2. fase'[c] = "espera" /\ Otros(c) /\ programa' = programa /\ memoria' = memoria
    BY <1>0, <2>1 DEF TipoAcceso, Volver, Otros, quietos
  <2> QED
    BY <2>2, DatosFuera, DatosDeUno
<1>4. ASSUME NEW c \in Cpus, NEW p \in Procesos, Despachar(c, p)
      PROVE  \A x \in Cpus : DatosBien(x)'
  <2>1. fase'[c] = "ciclo" /\ Otros(c) /\ programa' = programa /\ memoria' = memoria
    BY <1>0, <1>4 DEF TipoAcceso, Despachar, Otros, quietos
  <2> QED
    BY <2>1, DatosFuera, DatosDeUno
<1>5. ASSUME NEW c \in Cpus, \/ lectura(c) \/ RecibirCopia(c) \/ PedirEscritura(c)
      PROVE  \A x \in Cpus : DatosBien(x)'
  <2>1. Otros(c) /\ programa' = programa /\ memoria' = memoria
    BY <1>0, <1>5 DEF TipoAcceso, lectura, RecibirCopia, PedirEscritura, Pedir, Otros, quietos
  <2>2. DatosBien(c)'
    BY <1>0, <1>5, DatosLeidos, DatosCopia, DatosPalabra
  <2> QED
    BY <2>1, <2>2, DatosDeUno
<1>6. ASSUME NEW c \in Cpus, escritura(c) PROVE \A x \in Cpus : DatosBien(x)'
  <2>1. fase'[c] = "escrito" /\ Otros(c) /\ programa' = programa
    BY <1>0, <1>6 DEF TipoAcceso, escritura, Otros, quietos
  <2> QED
    BY <1>6, <2>1, DatosFuera, DatosDeUno
<1>7. ASSUME NEW c \in Cpus, MorirStick(c) PROVE \A x \in Cpus : DatosBien(x)'
  BY <1>7, DatosFijos DEF MaquinaInv, MorirStick
<1> QED
  BY <1>1, <1>2, <1>3, <1>4, <1>5, <1>6, <1>7 DEF Next, Ciclo, Stick

LEMMA MaquinaPaso == MaquinaInv /\ [Next]_vars => MaquinaInv'
<1> SUFFICES ASSUME MaquinaInv, [Next]_vars PROVE MaquinaInv'
  OBVIOUS
<1>1. AccesoInv' /\ DuenosBien'
  BY PasoInv, DuenosPaso DEF MaquinaInv
<1>2. \A x \in Cpus : DatosBien(x)'
  BY DatosPaso
<1> QED
  BY <1>1, <1>2 DEF MaquinaInv

LEMMA MaquinaInicial == Init => MaquinaInv
<1> SUFFICES ASSUME Init PROVE MaquinaInv
  OBVIOUS
<1>1. DuenosBien
  BY NadieOK DEF Init, DuenosBien
<1>2. \A c \in Cpus : DatosBien(c)
  BY DEF Init, DatosBien
<1> QED
  BY <1>1, <1>2, InitInv DEF MaquinaInv

-----------------------------------------------------------------------------
(* The abstract machine has the same instructions.                          *)

LEMMA MismosRegistros ==
  /\ Maquina!EnCero = EnCero
  /\ \A reg : Maquina!Avanzar(reg) = Avanzar(reg)
  /\ \A reg, r, v : Maquina!Escribir(reg, r, v) = Escribir(reg, r, v)
<1>1. Maquina!EnCero = EnCero
  BY DEF Maquina!EnCero, EnCero, Maquina!Registros, Registros, Maquina!Registros8, Registros8
<1>2. ASSUME NEW reg PROVE Maquina!Avanzar(reg) = Avanzar(reg)
  BY DEF Maquina!Avanzar, Avanzar
<1>3. ASSUME NEW reg, NEW r, NEW v PROVE Maquina!Escribir(reg, r, v) = Escribir(reg, r, v)
  BY DEF Maquina!Escribir, Escribir, Maquina!Ancho, Ancho, Maquina!Registros8, Registros8
<1> QED
  BY <1>1, <1>2, <1>3

LEMMA MismoCalculo == \A i, reg : Maquina!Calcular(i, reg) = Calcular(i, reg)
  BY MismosRegistros DEF Maquina!Calcular, Calcular

LEMMA MismosBytes ==
  /\ \A v : Maquina!EnBytes(v) = EnBytes(v)
  /\ \A bs : Maquina!EnPalabra(bs) = EnPalabra(bs)
<1>1. \A v : Maquina!EnBytes(v) = EnBytes(v)
  BY DEF Maquina!EnBytes, EnBytes
<1>2. Maquina!Palabras = Palabras
  BY DEF Maquina!Palabras, Palabras
<1>3. ASSUME NEW bs PROVE Maquina!EnPalabra(bs) = EnPalabra(bs)
  BY <1>1, <1>2 DEF Maquina!EnPalabra, EnPalabra
<1> QED
  BY <1>1, <1>3

LEMMA MismasClases ==
  /\ Maquina!Calculos = Calculos
  /\ Maquina!Lecturas = Lecturas
  /\ Maquina!Escrituras = Escrituras
  /\ \A i, reg : Maquina!Tamano(i, reg) = Tamano(i, reg)
  /\ \A d : Maquina!Segmento(d) = d \div TAM_MAX
  BY DEF Maquina!Calculos, Calculos, Maquina!Lecturas, Lecturas, Maquina!Escrituras, Escrituras,
     Maquina!Tamano, Tamano, Maquina!Segmento

(* CabeEnTabla: an access fits in the abstract segments when the table of   *)
(* Kernel Memory says so.                                                   *)
LEMMA CabeEnTabla ==
  ASSUME NEW p \in Procesos, NEW dir \in Palabras, NEW tam \in Nat
  PROVE  Maquina!Cabe(p, dir, tam) <=> EnTabla(p, dir, tam)
<1> DEFINE n == dir \div TAM_MAX
<1>1. \A S : Maquina!Cardinality(S) = Cardinality(S)
  BY DEF Maquina!Cardinality, Cardinality
<1>2. DOMAIN [q \in Procesos |-> SegmentosDe(q)][p] = DOMAIN Tabla[p]
  BY DEF SegmentosDe
<1>3. ASSUME n \in DOMAIN Tabla[p]
      PROVE  Cardinality(DOMAIN [q \in Procesos |-> SegmentosDe(q)][p][n]) = Tabla[p][n].limite
  <2>1. DOMAIN [q \in Procesos |-> SegmentosDe(q)][p][n] = 0 .. Tabla[p][n].limite - 1
    BY <1>3 DEF SegmentosDe
  <2>2. Tabla[p][n].limite \in Nat \ {0}
    BY <1>3, SegmentoTipo
  <2>3. Cardinality(0 .. Tabla[p][n].limite - 1) = Tabla[p][n].limite
    BY <2>2, FS_Interval
  <2> QED
    BY <2>1, <2>3
<1> QED
  BY <1>1, <1>2, <1>3 DEF Maquina!Cabe, Maquina!Segmento, EnTabla

(* ContenidoEnTabla: the abstract bytes of an access are those of memory.   *)
LEMMA ContenidoEnTabla ==
  ASSUME NEW p \in Procesos, NEW dir \in Palabras, NEW tam \in Nat, EnTabla(p, dir, tam)
  PROVE  Maquina!Contenido(p, dir, tam)
           = BytesEn(Tabla[p][dir \div TAM_MAX].base + (dir % TAM_MAX), tam)
<1> DEFINE n == dir \div TAM_MAX  d == dir % TAM_MAX
<1>1. n \in DOMAIN Tabla[p] /\ d + tam <= Tabla[p][n].limite
  BY DEF EnTabla
<1>2. Tabla[p][n].base \in Nat /\ Tabla[p][n].limite \in Nat
  BY <1>1, SegmentoTipo
<1>3. d \in Nat
  <2>1. dir \in Nat /\ TAM_MAX \in Nat \ {0}
    BY AnchoOK DEF Palabras
  <2>2. d \in 0 .. TAM_MAX - 1
    BY <2>1, RestoTipo
  <2> QED
    BY <2>1, <2>2
<1>4. Maquina!Contenido(p, dir, tam)
        = [k \in 1 .. tam |-> [q \in Procesos |-> SegmentosDe(q)][p][n][d + k - 1]]
  BY DEF Maquina!Contenido, Maquina!Segmento
<1> HIDE DEF n, d
<1>5. ASSUME NEW k \in 1 .. tam
      PROVE  [q \in Procesos |-> SegmentosDe(q)][p][n][d + k - 1]
               = ByteEn(Tabla[p][n].base + d + k - 1)
  <2>1. d + k - 1 \in 0 .. Tabla[p][n].limite - 1
    BY <1>1, <1>2, <1>3
  <2>2. SegmentosDe(p)[n][d + k - 1] = ByteEn(Tabla[p][n].base + (d + k - 1))
    BY <1>1, <2>1 DEF SegmentosDe
  <2>3. Tabla[p][n].base + (d + k - 1) = Tabla[p][n].base + d + k - 1
    BY <1>2, <1>3
  <2> QED
    BY <2>2, <2>3
<1>6. Maquina!Contenido(p, dir, tam) = BytesEn(Tabla[p][n].base + d, tam)
  BY <1>4, <1>5 DEF BytesEn
<1> QED
  BY <1>6 DEF n, d

(* EscrituraJusta: the request of a write is a whole access of the          *)
(* instruction, inside one segment.                                         *)
LEMMA EscrituraJusta ==
  ASSUME NEW c \in Cpus, AccesoInv, escritura(c)
  PROVE  LET p == pid[c] dir == ctx[c]["DI"] m == pedido[c]
         IN  /\ p \in Procesos /\ ctx[c]["PC"] < Len(programa[p])
             /\ dir \in Palabras /\ m.tam \in Nat /\ m.tam = Tamano(Instr(c), ctx[c])
             /\ m.tam <= W - TAM_MAX /\ EnTabla(p, dir, m.tam) /\ Len(m.datos) = m.tam
             /\ Fisica(m) = Tabla[p][dir \div TAM_MAX].base + (dir % TAM_MAX)
<1>1. TipoAcceso /\ Bien(c) /\ EnVuelo(c) /\ Cabe(pedido[c]) /\ fase[c] = "escritura"
  BY DEF AccesoInv, escritura, EnVuelo
<1>2. pid[c] \in Procesos /\ ctx[c]["PC"] < Len(programa[pid[c]])
  BY <1>1, EnVueloTraducido
<1>3. /\ pedido[c].tam \in Nat /\ pedido[c].tam = Tamano(Instr(c), ctx[c])
      /\ pedido[c].tam <= W - TAM_MAX
  BY <1>1, CabeNormal DEF Normal, Palabras
<1>4. Alcanza(c, "DI") /\ Traducir(c, "DI") # UINT32_MAX
  BY <1>1 DEF Bien, TurnoBien, EnAcceso, PuedeAcceder, Alcanza
<1>5. PICK bs \in DatosDe(Tamano(Instr(c), ctx[c])) : pedido[c] = Solicitud(c, "DI", bs)
  BY <1>1 DEF Bien, PedidoBien
<1>6. bs \in Seq(Bytes) /\ Len(bs) = pedido[c].tam
  BY <1>3 DEF DatosDe
<1>7. Fisica(pedido[c]) = Traducir(c, "DI") /\ pedido[c].datos = bs
  BY <1>1, <1>2, <1>4, <1>5, <1>6, SolicitudTipo
<1>8. /\ EnTabla(pid[c], ctx[c]["DI"], pedido[c].tam) /\ ctx[c]["DI"] \in Palabras
      /\ Traducir(c, "DI") = Tabla[pid[c]][ctx[c]["DI"] \div TAM_MAX].base
                               + (ctx[c]["DI"] % TAM_MAX)
  BY <1>1, <1>2, <1>3, <1>4, AccesoJusto
<1> QED
  BY <1>2, <1>3, <1>6, <1>7, <1>8

(* SegmentosTrasEscribir: the write of a stick is that of the abstract      *)
(* machine: the segment of the address changes where it must, and every     *)
(* other byte of every process stays.                                       *)
LEMMA SegmentosTrasEscribir ==
  ASSUME NEW c \in Cpus, AccesoInv, escritura(c)
  PROVE  [q \in Procesos |-> SegmentosDe(q)]'
           = Maquina!Con(pid[c], ctx[c]["DI"], pedido[c].datos)
<1> DEFINE p == pid[c]  dir == ctx[c]["DI"]  m == pedido[c]
           n == dir \div TAM_MAX  d == dir % TAM_MAX
           nueva == [k \in DOMAIN SegmentosDe(p)[n] |->
                      IF d <= k /\ k < d + Len(m.datos) THEN m.datos[k - d + 1]
                      ELSE SegmentosDe(p)[n][k]]
<1>1. /\ p \in Procesos /\ dir \in Palabras /\ m.tam \in Nat /\ EnTabla(p, dir, m.tam)
      /\ Len(m.datos) = m.tam /\ Fisica(m) = Tabla[p][n].base + d
  BY EscrituraJusta
<1>2. n \in DOMAIN Tabla[p] /\ d + m.tam <= Tabla[p][n].limite
  BY <1>1 DEF EnTabla
<1>3. d \in Nat
  <2>1. dir \in Nat /\ TAM_MAX \in Nat \ {0}
    BY <1>1, AnchoOK DEF Palabras
  <2>2. d \in 0 .. TAM_MAX - 1
    BY <2>1, RestoTipo
  <2> QED
    BY <2>1, <2>2
<1>4. Maquina!Con(p, dir, m.datos)
        = [[q \in Procesos |-> SegmentosDe(q)] EXCEPT ![p] = [SegmentosDe(p) EXCEPT ![n] = nueva]]
  BY <1>1 DEF Maquina!Con, Maquina!Segmento
<1> HIDE DEF p, dir, m, n, d, nueva
<1>5. ASSUME NEW q \in Procesos, NEW k \in DOMAIN Tabla[q],
             NEW j \in 0 .. Tabla[q][k].limite - 1
      PROVE  ByteEn(Tabla[q][k].base + j)'
               = IF q = p /\ k = n /\ d <= j /\ j < d + m.tam THEN m.datos[j - d + 1]
                 ELSE ByteEn(Tabla[q][k].base + j)
  <2>1. Tabla[q][k].base \in Nat /\ Tabla[q][k].limite \in Nat
    BY SegmentoTipo
  <2> DEFINE x == Tabla[q][k].base + j
  <2>2. x \in Nat /\ Tabla[q][k].base <= x /\ x < Tabla[q][k].base + Tabla[q][k].limite
    BY <2>1
  <2> HIDE DEF x
  <2>3. PICK s \in DOMAIN Sticks : Dentro(x, Sticks[s])
    BY <2>2, BytesDeSegmento
  <2>4. \A r \in Procesos : \A t \in DOMAIN Tabla[r] :
          Tabla[r][t].base <= x /\ x < Tabla[r][t].base + Tabla[r][t].limite => r = q /\ t = k
    BY <2>2, BytesDeSegmento
  <2>5. ByteEn(x)' = IF Fisica(m) <= x /\ x < Fisica(m) + m.tam
                       THEN m.datos[x - Fisica(m) + 1] ELSE ByteEn(x)
    BY <2>2, <2>3, BytesTrasEscribir DEF m
  <2>6. Tabla[p][n].base \in Nat /\ Tabla[p][n].limite \in Nat
    BY <1>1, <1>2, SegmentoTipo
  <2>7. CASE q = p /\ k = n
    <3>1. /\ Fisica(m) <= x <=> d <= j
          /\ x < Fisica(m) + m.tam <=> j < d + m.tam
          /\ x - Fisica(m) + 1 = j - d + 1
      BY <1>1, <1>3, <2>1, <2>7 DEF x
    <3> QED
      BY <2>5, <2>7, <3>1 DEF x
  <2>8. CASE ~ (q = p /\ k = n)
    <3>1. ~ (Tabla[p][n].base <= x /\ x < Tabla[p][n].base + Tabla[p][n].limite)
      BY <1>1, <1>2, <2>4, <2>8
    <3>2. ~ (Fisica(m) <= x /\ x < Fisica(m) + m.tam)
      BY <1>1, <1>2, <1>3, <2>2, <2>6, <3>1
    <3> QED
      BY <2>5, <2>8, <3>2 DEF x
  <2> QED
    BY <2>7, <2>8
<1>6. ASSUME NEW q \in Procesos
      PROVE  SegmentosDe(q)' = IF q = p THEN [SegmentosDe(p) EXCEPT ![n] = nueva]
                               ELSE SegmentosDe(q)
  <2>1. CASE q # p
    <3>1. ASSUME NEW k \in DOMAIN Tabla[q], NEW j \in 0 .. Tabla[q][k].limite - 1
          PROVE  ByteEn(Tabla[q][k].base + j)' = ByteEn(Tabla[q][k].base + j)
      BY <1>5, <2>1
    <3> QED
      BY <2>1, <3>1 DEF SegmentosDe
  <2>2. CASE q = p
    <3> DEFINE R == [SegmentosDe(p) EXCEPT ![n] = nueva]
    <3>1. SegmentosDe(q) = [k \in DOMAIN Tabla[q] |->
            [j \in 0 .. Tabla[q][k].limite - 1 |-> ByteEn(Tabla[q][k].base + j)]]
      BY DEF SegmentosDe
    <3>2. SegmentosDe(q)' = [k \in DOMAIN Tabla[q] |->
            [j \in 0 .. Tabla[q][k].limite - 1 |-> ByteEn(Tabla[q][k].base + j)']]
      BY DEF SegmentosDe
    <3>3. nueva = [j \in 0 .. Tabla[q][n].limite - 1 |->
            IF d <= j /\ j < d + m.tam THEN m.datos[j - d + 1]
            ELSE ByteEn(Tabla[q][n].base + j)]
      <4>1. SegmentosDe(p)[n] = [j \in 0 .. Tabla[q][n].limite - 1 |-> ByteEn(Tabla[q][n].base + j)]
        BY <1>2, <2>2, <3>1
      <4> QED
        BY <1>1, <4>1 DEF nueva
    <3>4. R = [k \in DOMAIN Tabla[q] |-> IF k = n THEN nueva ELSE SegmentosDe(q)[k]]
      BY <2>2, <3>1
    <3>5. ASSUME NEW k \in DOMAIN Tabla[q]
          PROVE  [j \in 0 .. Tabla[q][k].limite - 1 |-> ByteEn(Tabla[q][k].base + j)']
                   = IF k = n THEN nueva ELSE SegmentosDe(q)[k]
      <4>1. CASE k = n
        <5>1. \A j \in 0 .. Tabla[q][k].limite - 1 : ByteEn(Tabla[q][k].base + j)'
                = IF d <= j /\ j < d + m.tam THEN m.datos[j - d + 1]
                  ELSE ByteEn(Tabla[q][k].base + j)
          BY <1>5, <2>2, <4>1
        <5> QED
          BY <3>3, <4>1, <5>1
      <4>2. CASE k # n
        <5>1. \A j \in 0 .. Tabla[q][k].limite - 1 :
                ByteEn(Tabla[q][k].base + j)' = ByteEn(Tabla[q][k].base + j)
          BY <1>5, <4>2
        <5> QED
          BY <3>1, <4>2, <5>1
      <4> QED
        BY <4>1, <4>2
    <3> QED
      BY <2>2, <3>2, <3>4, <3>5
  <2> QED
    BY <2>1, <2>2
<1> QED
  BY <1>4, <1>6 DEF p, dir, m

-----------------------------------------------------------------------------
(* The registers of a process, wherever they are.                           *)

LEMMA RegistrosEnCpu ==
  ASSUME NEW c \in Cpus, NEW p \in Procesos
  PROVE  /\ DuenosBien /\ pid[c] = p => RegistrosDe(p)
                = IF fase[c] = "escrito" THEN Avanzar(ctx[c]) ELSE ctx[c]
         /\ DuenosBien' /\ pid'[c] = p => RegistrosDe(p)'
                = IF fase'[c] = "escrito" THEN Avanzar(ctx'[c]) ELSE ctx'[c]
<1>1. ASSUME DuenosBien, pid[c] = p
      PROVE  RegistrosDe(p) = IF fase[c] = "escrito" THEN Avanzar(ctx[c]) ELSE ctx[c]
  <2>1. EnCpu(p) = {c}
    BY <1>1 DEF DuenosBien, EnCpu
  <2> QED
    BY <2>1 DEF RegistrosDe
<1>2. ASSUME DuenosBien', pid'[c] = p
      PROVE  RegistrosDe(p)' = IF fase'[c] = "escrito" THEN Avanzar(ctx'[c]) ELSE ctx'[c]
  <2>1. EnCpu(p)' = {c}
    BY <1>2 DEF DuenosBien, EnCpu
  <2> QED
    BY <2>1 DEF RegistrosDe, Avanzar
<1> QED
  BY <1>1, <1>2

LEMMA RegistrosFuera ==
  ASSUME NEW p \in Procesos
  PROVE  /\ (\A c \in Cpus : pid[c] # p) => RegistrosDe(p) = contexto[p]
         /\ (\A c \in Cpus : pid'[c] # p) => RegistrosDe(p)' = contexto'[p]
  BY DEF RegistrosDe, EnCpu

(* RegistrosAjenos: a step of a CPU is none of another process' business.   *)
LEMMA RegistrosAjenos ==
  ASSUME NEW c \in Cpus, NEW q \in Procesos, pid[c] # q, pid'[c] # q, Otros(c),
         contexto'[q] = contexto[q]
  PROVE  RegistrosDe(q)' = RegistrosDe(q)
<1>1. EnCpu(q)' = EnCpu(q) /\ c \notin EnCpu(q) /\ EnCpu(q) \subseteq Cpus
  BY DEF EnCpu, Otros
<1>2. CASE EnCpu(q) = {}
  BY <1>1, <1>2 DEF RegistrosDe
<1>3. CASE EnCpu(q) # {}
  <2>1. PICK d \in Cpus \ {c} : d = CHOOSE x \in EnCpu(q) : TRUE
    BY <1>1, <1>3
  <2>2. /\ RegistrosDe(q) = IF fase[d] = "escrito" THEN Avanzar(ctx[d]) ELSE ctx[d]
        /\ RegistrosDe(q)' = IF fase'[d] = "escrito" THEN Avanzar(ctx'[d]) ELSE ctx'[d]
    BY <1>1, <1>3, <2>1 DEF RegistrosDe, Avanzar
  <2> QED
    BY <2>1, <2>2 DEF Otros
<1> QED
  BY <1>2, <1>3

(* RegistrosPaso: a step of a CPU sets the registers of its process only.   *)
LEMMA RegistrosPaso ==
  ASSUME NEW c \in Cpus, NEW p \in Procesos, Otros(c),
         pid[c] \in {p, NADIE}, pid'[c] \in {p, NADIE},
         \A q \in Procesos \ {p} : contexto'[q] = contexto[q]
  PROVE  /\ \A r : RegistrosDe(p)' = r =>
              [q \in Procesos |-> RegistrosDe(q)]'
                = [[q \in Procesos |-> RegistrosDe(q)] EXCEPT ![p] = r]
         /\ RegistrosDe(p)' = RegistrosDe(p) =>
              [q \in Procesos |-> RegistrosDe(q)]' = [q \in Procesos |-> RegistrosDe(q)]
<1>1. ASSUME NEW q \in Procesos \ {p} PROVE RegistrosDe(q)' = RegistrosDe(q)
  BY <1>1, RegistrosAjenos, NadieOK
<1> QED
  BY <1>1

-----------------------------------------------------------------------------
(* Each action is one instruction of the abstract machine or nothing.       *)

PasoAbs == (\E p \in Procesos : Maquina!Paso(p)) \/ UNCHANGED Maquina!varsA

Mismas == /\ programa' = programa
          /\ [q \in Procesos |-> SegmentosDe(q)]' = [q \in Procesos |-> SegmentosDe(q)]

(* MemoriaQuieta: the bytes of nobody change.                               *)
LEMMA MemoriaQuieta ==
  ASSUME programa' = programa, memoria' = memoria
  PROVE  Mismas
  BY DEF Mismas, SegmentosDe, ByteEn

(* NadaAbstracto: the abstract machine does nothing.                        *)
LEMMA NadaAbstracto ==
  ASSUME Mismas,
         [q \in Procesos |-> RegistrosDe(q)]' = [q \in Procesos |-> RegistrosDe(q)],
         [q \in Procesos |-> estado[q] = "fin"]' = [q \in Procesos |-> estado[q] = "fin"]
  PROVE  UNCHANGED Maquina!varsA
  BY DEF Mismas, Maquina!varsA

(* InstrAbstracta: the instruction at hand is that of the abstract machine. *)
LEMMA InstrAbstracta ==
  ASSUME NEW c \in Cpus, MaquinaInv, NEW p \in Procesos, p = pid[c],
         fase[c] # "escrito", ctx[c]["PC"] < Len(programa[p])
  PROVE  /\ [q \in Procesos |-> RegistrosDe(q)][p] = ctx[c]
         /\ Maquina!Instr(p) = Instr(c) /\ Maquina!Quedan(p)
<1>1. RegistrosDe(p) = ctx[c] /\ estado[p] = "en_cpu"
  BY RegistrosEnCpu DEF MaquinaInv, DuenosBien
<1>2. [q \in Procesos |-> RegistrosDe(q)][p] = ctx[c]
  BY <1>1
<1>3. ~ [q \in Procesos |-> estado[q] = "fin"][p]
  BY <1>1
<1> QED
  BY <1>2, <1>3 DEF Maquina!Instr, Maquina!Quedan, Instr

(* FinTurnoAbstracto: registers and end of a process whose turn ends.       *)
LEMMA FinTurnoAbstracto ==
  ASSUME NEW c \in Cpus, MaquinaInv, MaquinaInv', NEW p \in Procesos, p = pid[c],
         fase[c] # "escrito", NEW reg, NEW e \in Estados, Volver(c, reg, e)
  PROVE  /\ Mismas /\ Maquina!Fijar(p, reg)
         /\ reg = ctx[c] =>
              [q \in Procesos |-> RegistrosDe(q)]' = [q \in Procesos |-> RegistrosDe(q)]
         /\ e = "listo" =>
              [q \in Procesos |-> estado[q] = "fin"]' = [q \in Procesos |-> estado[q] = "fin"]
         /\ e = "fin" =>
              [q \in Procesos |-> estado[q] = "fin"]'
                = [[q \in Procesos |-> estado[q] = "fin"] EXCEPT ![p] = TRUE]
<1>1. TipoAcceso /\ DuenosBien /\ DuenosBien'
  BY DEF MaquinaInv, AccesoInv
<1>2. /\ programa' = programa /\ memoria' = memoria /\ Otros(c) /\ pid'[c] = NADIE
      /\ contexto'[p] = reg /\ \A q \in Procesos \ {p} : contexto'[q] = contexto[q]
      /\ estado' = [estado EXCEPT ![p] = e]
  BY <1>1 DEF TipoAcceso, Volver, Otros, quietos
<1>3. \A d \in Cpus : pid'[d] # p
  BY <1>1, <1>2, NadieOK DEF DuenosBien, Otros
<1>4. RegistrosDe(p)' = reg
  BY <1>2, <1>3, RegistrosFuera
<1>5. RegistrosDe(p) = ctx[c] /\ estado[p] = "en_cpu"
  BY <1>1, RegistrosEnCpu DEF DuenosBien
<1>6. Mismas
  BY <1>2, MemoriaQuieta
<1>7. Maquina!Fijar(p, reg)
  BY <1>2, <1>4, RegistrosPaso DEF Maquina!Fijar
<1>8. reg = ctx[c] => [q \in Procesos |-> RegistrosDe(q)]' = [q \in Procesos |-> RegistrosDe(q)]
  BY <1>2, <1>4, <1>5, RegistrosPaso
<1>9. \A q \in Procesos : estado'[q] = IF q = p THEN e ELSE estado[q]
  BY <1>1, <1>2 DEF TipoAcceso
<1>10. ASSUME e = "listo"
       PROVE  [q \in Procesos |-> estado[q] = "fin"]' = [q \in Procesos |-> estado[q] = "fin"]
  <2>1. \A q \in Procesos : estado'[q] = "fin" <=> estado[q] = "fin"
    BY <1>5, <1>9, <1>10
  <2> QED
    BY <2>1
<1>11. ASSUME e = "fin"
       PROVE  [q \in Procesos |-> estado[q] = "fin"]'
                = [[q \in Procesos |-> estado[q] = "fin"] EXCEPT ![p] = TRUE]
  <2>1. \A q \in Procesos : (estado'[q] = "fin") = IF q = p THEN TRUE ELSE estado[q] = "fin"
    BY <1>9, <1>11
  <2> QED
    BY <2>1
<1> QED
  BY <1>6, <1>7, <1>8, <1>10, <1>11

(* SeguirAbstracto: the end of a cycle sets the registers of its process.   *)
LEMMA SeguirAbstracto ==
  ASSUME NEW c \in Cpus, MaquinaInv, MaquinaInv', NEW p \in Procesos, p = pid[c],
         NEW reg, Seguir(c, reg), Otros(c), UNCHANGED <<programa, contexto, estado, pid, memoria>>
  PROVE  /\ Mismas /\ Maquina!Fijar(p, reg)
         /\ RegistrosDe(p) = reg =>
              [q \in Procesos |-> RegistrosDe(q)]' = [q \in Procesos |-> RegistrosDe(q)]
         /\ [q \in Procesos |-> estado[q] = "fin"]' = [q \in Procesos |-> estado[q] = "fin"]
<1>1. TipoAcceso /\ DuenosBien'
  BY DEF MaquinaInv, AccesoInv
<1>2. fase'[c] = "ciclo" /\ ctx'[c] = reg
  BY <1>1 DEF TipoAcceso, Seguir
<1>3. RegistrosDe(p)' = reg
  BY <1>1, <1>2, RegistrosEnCpu
<1>4. Mismas
  BY MemoriaQuieta
<1>5. Maquina!Fijar(p, reg)
  BY <1>3, RegistrosPaso DEF Maquina!Fijar
<1>6. RegistrosDe(p) = reg =>
        [q \in Procesos |-> RegistrosDe(q)]' = [q \in Procesos |-> RegistrosDe(q)]
  BY <1>3, RegistrosPaso
<1> QED
  BY <1>4, <1>5, <1>6

(* DentroDeUnAcceso: what a CPU inside an instruction knows.                *)
LEMMA DentroDeUnAcceso ==
  ASSUME NEW c \in Cpus, MaquinaInv, EnAcceso(c)
  PROVE  /\ pid[c] \in Procesos /\ ctx[c]["PC"] < Len(programa[pid[c]]) /\ TipoAcceso
         /\ Instr(c) \in Instrucciones /\ ctx[c] \in Banco
<1>1. AccesoInv /\ Bien(c) /\ TipoAcceso
  BY DEF MaquinaInv, AccesoInv
<1>2. pid[c] \in Procesos /\ ctx[c]["PC"] < Len(programa[pid[c]])
  BY <1>1 DEF Bien, TurnoBien, EnAcceso
<1> QED
  BY <1>1, <1>2, InstrTipo DEF TipoAcceso

(* EjecutarAbstracto: an instruction that stays inside the CPU.             *)
LEMMA EjecutarAbstracto ==
  ASSUME NEW c \in Cpus, MaquinaInv, MaquinaInv', Ejecutar(c)
  PROVE  PasoAbs
<1>1. /\ HayInstr(c) /\ Instr(c).op \in Calculos /\ Seguir(c, Calcular(Instr(c), ctx[c]))
      /\ UNCHANGED <<programa, contexto, estado, pid, memoria>> /\ pedido' = pedido
  BY DEF Ejecutar, quietos
<1>2. AccesoInv
  BY DEF MaquinaInv
<1>3. PICK p \in Procesos : p = pid[c] /\ fase[c] # "escrito" /\ ctx[c]["PC"] < Len(programa[p])
  BY <1>1, <1>2, EnElCiclo DEF HayInstr
<1>4. Otros(c)
  BY <1>1, <1>2 DEF AccesoInv, TipoAcceso, Seguir, Otros
<1>5. /\ Mismas /\ Maquina!Fijar(p, Calcular(Instr(c), ctx[c]))
      /\ [q \in Procesos |-> estado[q] = "fin"]' = [q \in Procesos |-> estado[q] = "fin"]
  BY <1>1, <1>3, <1>4, SeguirAbstracto
<1>6. /\ [q \in Procesos |-> RegistrosDe(q)][p] = ctx[c]
      /\ Maquina!Instr(p) = Instr(c) /\ Maquina!Quedan(p)
  BY <1>3, InstrAbstracta
<1>7. Maquina!Calculo(p)
  BY <1>1, <1>5, <1>6, MismoCalculo, MismasClases DEF Maquina!Calculo, Mismas
<1>8. Maquina!Paso(p)
  BY <1>5, <1>6, <1>7 DEF Maquina!Paso, Mismas
<1> QED
  BY <1>8 DEF PasoAbs

(* VolverAbstracto: the actions that end a turn, but for a fault.           *)
LEMMA VolverAbstracto ==
  ASSUME NEW c \in Cpus, MaquinaInv, MaquinaInv',
         \/ Llamar(c) \/ Salir(c) \/ SalirSinDecodificar(c) \/ Interrumpir(c)
  PROVE  PasoAbs
<1>1. AccesoInv /\ Bien(c)
  BY DEF MaquinaInv, AccesoInv
<1>2. fase[c] = "ciclo" /\ (HayInstr(c) \/ Interrumpir(c))
  BY DEF Llamar, Salir, SalirSinDecodificar, Interrumpir, HayInstr
<1>3. PICK p \in Procesos : p = pid[c]
  BY <1>1, <1>2 DEF Bien, TurnoBien
<1>4. CASE Interrumpir(c)
  <2>1. Volver(c, ctx[c], "listo")
    BY <1>4 DEF Interrumpir
  <2>2. /\ Mismas
        /\ [q \in Procesos |-> RegistrosDe(q)]' = [q \in Procesos |-> RegistrosDe(q)]
        /\ [q \in Procesos |-> estado[q] = "fin"]' = [q \in Procesos |-> estado[q] = "fin"]
    BY <1>2, <1>3, <2>1, FinTurnoAbstracto DEF Estados
  <2> QED
    BY <2>2, NadaAbstracto DEF PasoAbs
<1>5. ASSUME HayInstr(c)
      PROVE  /\ [q \in Procesos |-> RegistrosDe(q)][p] = ctx[c]
             /\ Maquina!Instr(p) = Instr(c) /\ Maquina!Quedan(p)
  BY <1>1, <1>2, <1>3, <1>5, EnElCiclo, InstrAbstracta
<1>6. CASE Llamar(c)
  <2>1. HayInstr(c) /\ Instr(c).op = "SYSCALL" /\ Volver(c, Avanzar(ctx[c]), "listo")
    BY <1>6 DEF Llamar
  <2>2. /\ Mismas /\ Maquina!Fijar(p, Avanzar(ctx[c]))
        /\ [q \in Procesos |-> estado[q] = "fin"]' = [q \in Procesos |-> estado[q] = "fin"]
    BY <1>2, <1>3, <2>1, FinTurnoAbstracto DEF Estados
  <2>3. Maquina!Llamada(p)
    BY <1>5, <2>1, <2>2, MismosRegistros DEF Maquina!Llamada, Mismas
  <2>4. Maquina!Paso(p)
    BY <1>5, <2>1, <2>2, <2>3 DEF Maquina!Paso, Mismas
  <2> QED
    BY <2>4 DEF PasoAbs
<1>7. CASE Salir(c)
  <2>1. HayInstr(c) /\ Instr(c).op = "EXIT" /\ Volver(c, Avanzar(ctx[c]), "fin")
    BY <1>7 DEF Salir
  <2>2. /\ Mismas /\ Maquina!Fijar(p, Avanzar(ctx[c]))
        /\ [q \in Procesos |-> estado[q] = "fin"]'
              = [[q \in Procesos |-> estado[q] = "fin"] EXCEPT ![p] = TRUE]
    BY <1>2, <1>3, <2>1, FinTurnoAbstracto DEF Estados
  <2>3. Maquina!Salir(p)
    BY <1>5, <2>1, <2>2, MismosRegistros DEF Maquina!Salir, Mismas
  <2>4. Maquina!Paso(p)
    BY <1>5, <2>1, <2>2, <2>3 DEF Maquina!Paso, Mismas
  <2> QED
    BY <2>4 DEF PasoAbs
<1>8. CASE SalirSinDecodificar(c)
  <2>1. HayInstr(c) /\ Instr(c).op = "DESCONOCIDA" /\ Volver(c, ctx[c], "fin")
    BY <1>8 DEF SalirSinDecodificar
  <2>2. /\ Mismas
        /\ [q \in Procesos |-> RegistrosDe(q)]' = [q \in Procesos |-> RegistrosDe(q)]
        /\ [q \in Procesos |-> estado[q] = "fin"]'
              = [[q \in Procesos |-> estado[q] = "fin"] EXCEPT ![p] = TRUE]
    BY <1>2, <1>3, <2>1, FinTurnoAbstracto DEF Estados
  <2>3. Maquina!Salir(p)
    BY <1>5, <2>1, <2>2 DEF Maquina!Salir, Mismas
  <2>4. Maquina!Paso(p)
    BY <1>5, <2>1, <2>2, <2>3 DEF Maquina!Paso, Mismas
  <2> QED
    BY <2>4 DEF PasoAbs
<1> QED
  BY <1>4, <1>6, <1>7, <1>8

(* SinStick: an access inside a segment whose stick the CPU does not know   *)
(* is one of a segment that some CPU cannot reach.                          *)
LEMMA SinStick ==
  ASSUME NEW c \in Cpus, NEW p \in Procesos, NEW n \in DOMAIN Tabla[p], NEW x \in Nat,
         Tabla[p][n].base <= x, x < Tabla[p][n].base + Tabla[p][n].limite, MsDe(c, x) = NADIE
  PROVE  Invisible(p, n)
<1>1. PICK s \in DOMAIN Sticks : Dentro(x, Sticks[s]) /\ Dentro(Tabla[p][n].base, Sticks[s])
  BY BytesDeSegmento
<1>2. ASSUME NEW u \in Conoce[c], Dentro(Tabla[p][n].base, Sticks[u]) PROVE FALSE
  <2>1. u \in DOMAIN Sticks /\ u # NADIE
    BY ConoceOK, NadieOK
  <2>2. u = s
    <3>1. /\ Sticks[s].base \in Nat /\ Sticks[s].limite \in Nat
          /\ Sticks[u].base \in Nat /\ Sticks[u].limite \in Nat
          /\ u = s \/ Fin(Sticks[u]) <= Sticks[s].base \/ Fin(Sticks[s]) <= Sticks[u].base
      BY <2>1, SticksOK
    <3>2. Tabla[p][n].base \in Nat
      BY SegmentoTipo
    <3> QED
      BY <1>1, <1>2, <3>1, <3>2 DEF Dentro, Fin
  <2>3. \E v \in Conoce[c] : Dentro(x, Sticks[v])
    BY <1>1, <2>2
  <2>4. MsDe(c, x) \in Conoce[c]
    BY <2>3 DEF MsDe
  <2>5. MsDe(c, x) \in DOMAIN Sticks
    BY <2>4, ConoceOK
  <2> QED
    BY <2>5, NadieOK
<1> QED
  BY <1>2 DEF Invisible

(* FaltaJustificada: the translation of an address fails, or its stick is   *)
(* not found, only where the abstract machine may fail.                     *)
LEMMA FaltaJustificada ==
  ASSUME NEW c \in Cpus, MaquinaInv, HayInstr(c), NEW p \in Procesos, p = pid[c],
         NEW r \in {"SI", "DI"}, ~ Alcanza(c, r)
  PROVE  Maquina!Justificada(p, ctx[c][r], Tamano(Instr(c), ctx[c]))
<1> DEFINE dir == ctx[c][r]  tam == Tamano(Instr(c), ctx[c])  n == dir \div TAM_MAX
<1>1. TipoAcceso /\ ctx[c] \in Banco /\ ctx[c]["PC"] < Len(programa[pid[c]])
  BY EnElCiclo DEF MaquinaInv
<1>2. dir \in Palabras /\ tam \in Palabras /\ tam \in Nat /\ dir \in Nat
  BY <1>1, InstrTipo, BancoLeer DEF Registros, Palabras
<1>3. Traducir(c, r) = mmu_traducir(Tabla[p], dir, tam)
  BY DEF Traducir
<1> HIDE DEF dir, tam
<1>4. CASE ~ EnTabla(p, dir, tam)
  BY <1>2, <1>4, CabeEnTabla DEF Maquina!Justificada, dir, tam
<1>5. CASE EnTabla(p, dir, tam) /\ tam # 0
  <2>1. /\ Traducir(c, r) = Tabla[p][n].base + (dir % TAM_MAX) /\ Traducir(c, r) # UINT32_MAX
    BY <1>2, <1>3, <1>5, TraducirJusto
  <2>2. MsDe(c, Traducir(c, r)) = NADIE
    BY <2>1 DEF Alcanza
  <2>3. n \in DOMAIN Tabla[p] /\ (dir % TAM_MAX) + tam <= Tabla[p][n].limite
    BY <1>5 DEF EnTabla
  <2>4. dir % TAM_MAX \in Nat
    <3>1. dir % TAM_MAX \in 0 .. TAM_MAX - 1
      BY <1>2, RestoTipo, AnchoOK
    <3> QED
      BY <3>1
  <2> HIDE DEF n
  <2>5. n \in Nat /\ Tabla[p][n].base \in Nat /\ Tabla[p][n].limite \in Nat
    BY <2>3, SegmentoTipo
  <2>6. /\ Traducir(c, r) \in Nat /\ Tabla[p][n].base <= Traducir(c, r)
        /\ Traducir(c, r) < Tabla[p][n].base + Tabla[p][n].limite
    BY <1>2, <1>5, <2>1, <2>3, <2>4, <2>5
  <2>7. Invisible(p, n)
    BY <2>2, <2>3, <2>6, SinStick
  <2>8. <<p, n>> \in {x \in Procesos \X Nat : x[2] \in DOMAIN Tabla[x[1]] /\ Invisible(x[1], x[2])}
    BY <2>3, <2>5, <2>7
  <2> QED
    BY <2>8 DEF Maquina!Justificada, Maquina!Segmento, dir, n
<1>6. CASE tam = 0
  BY <1>6 DEF Maquina!Justificada, tam
<1> QED
  BY <1>4, <1>5, <1>6

(* FallarAbstracto: a segmentation fault is a justified one.                *)
LEMMA FallarAbstracto ==
  ASSUME NEW c \in Cpus, MaquinaInv, MaquinaInv', FallarSegmento(c)
  PROVE  PasoAbs
<1>1. /\ HayInstr(c) /\ fase[c] = "ciclo" /\ ~ PuedeAcceder(c) /\ Volver(c, ctx[c], "fin")
  BY DEF FallarSegmento, HayInstr
<1>2. PICK p \in Procesos : p = pid[c] /\ ctx[c]["PC"] < Len(programa[p])
  BY <1>1, EnElCiclo DEF MaquinaInv
<1>3. /\ Mismas
      /\ [q \in Procesos |-> RegistrosDe(q)]' = [q \in Procesos |-> RegistrosDe(q)]
      /\ [q \in Procesos |-> estado[q] = "fin"]'
            = [[q \in Procesos |-> estado[q] = "fin"] EXCEPT ![p] = TRUE]
  BY <1>1, <1>2, FinTurnoAbstracto DEF Estados
<1>4. /\ [q \in Procesos |-> RegistrosDe(q)][p] = ctx[c]
      /\ Maquina!Instr(p) = Instr(c) /\ Maquina!Quedan(p)
  BY <1>1, <1>2, InstrAbstracta
<1>5. \/ /\ Instr(c).op \in Lecturas
         /\ Maquina!Justificada(p, ctx[c]["SI"], Tamano(Instr(c), ctx[c]))
      \/ /\ Instr(c).op \in Escrituras
         /\ Maquina!Justificada(p, ctx[c]["DI"], Tamano(Instr(c), ctx[c]))
  BY <1>1, <1>2, FaltaJustificada DEF PuedeAcceder
<1>6. Maquina!Fallar(p)
  BY <1>3, <1>4, <1>5, MismasClases DEF Maquina!Fallar, Mismas
<1>7. Maquina!Paso(p)
  BY <1>3, <1>4, <1>6 DEF Maquina!Paso, Mismas
<1> QED
  BY <1>7 DEF PasoAbs

(* LeidoAbstracto: what a CPU has read is what the abstract machine reads.  *)
LEMMA LeidoAbstracto ==
  ASSUME NEW c \in Cpus, MaquinaInv, NEW p \in Procesos, p = pid[c],
         fase[c] = "leido" \/ (fase[c] = "escritura" /\ Instr(c).op = "COPY_MEM")
  PROVE  /\ Maquina!Cabe(p, ctx[c]["SI"], Tamano(Instr(c), ctx[c]))
         /\ pedido[c].datos = Maquina!Contenido(p, ctx[c]["SI"], Tamano(Instr(c), ctx[c]))
<1>1. AccesoInv /\ TipoAcceso /\ DatosBien(c)
  BY DEF MaquinaInv, AccesoInv
<1>2. ctx[c]["PC"] < Len(programa[pid[c]]) /\ Traducir(c, "SI") # UINT32_MAX
  BY <1>1, LecturaEnCurso
<1>3. /\ Tamano(Instr(c), ctx[c]) <= W - TAM_MAX
      /\ pedido[c].datos = BytesEn(Traducir(c, "SI"), Tamano(Instr(c), ctx[c]))
  BY <1>1 DEF DatosBien
<1>4. /\ EnTabla(p, ctx[c]["SI"], Tamano(Instr(c), ctx[c]))
      /\ ctx[c]["SI"] \in Palabras /\ Tamano(Instr(c), ctx[c]) \in Nat
      /\ Traducir(c, "SI") = Tabla[p][ctx[c]["SI"] \div TAM_MAX].base + (ctx[c]["SI"] % TAM_MAX)
  BY <1>1, <1>2, <1>3, AccesoJusto DEF Palabras
<1> QED
  BY <1>3, <1>4, CabeEnTabla, ContenidoEnTabla

(* PalabraAbstracta: MOV_IN ends when the CPU takes the word.               *)
LEMMA PalabraAbstracta ==
  ASSUME NEW c \in Cpus, MaquinaInv, MaquinaInv', RecibirPalabra(c)
  PROVE  PasoAbs
<1> DEFINE reg == Avanzar(Escribir(ctx[c], Instr(c).r, EnPalabra(pedido[c].datos)))
<1>1. /\ fase[c] = "leido" /\ Instr(c).op = "MOV_IN" /\ Seguir(c, reg) /\ EnAcceso(c)
      /\ UNCHANGED <<programa, contexto, estado, pid, memoria>>
      /\ pedido' = [pedido EXCEPT ![c] = Sin]
  BY DEF RecibirPalabra, quietos, EnAcceso
<1>2. PICK p \in Procesos : p = pid[c] /\ ctx[c]["PC"] < Len(programa[p])
  BY <1>1, DentroDeUnAcceso
<1>3. Otros(c)
  BY <1>1, DentroDeUnAcceso DEF TipoAcceso, Seguir, Otros
<1>4. /\ Mismas /\ Maquina!Fijar(p, reg)
      /\ [q \in Procesos |-> estado[q] = "fin"]' = [q \in Procesos |-> estado[q] = "fin"]
  BY <1>1, <1>2, <1>3, SeguirAbstracto
<1>5. /\ [q \in Procesos |-> RegistrosDe(q)][p] = ctx[c]
      /\ Maquina!Instr(p) = Instr(c) /\ Maquina!Quedan(p)
  BY <1>1, <1>2, InstrAbstracta
<1>6. /\ Maquina!Cabe(p, ctx[c]["SI"], PALABRA)
      /\ pedido[c].datos = Maquina!Contenido(p, ctx[c]["SI"], PALABRA)
  <2>1. Tamano(Instr(c), ctx[c]) = PALABRA
    BY <1>1 DEF Tamano
  <2> QED
    BY <1>1, <1>2, <2>1, LeidoAbstracto
<1>7. Maquina!Leer(p)
  BY <1>1, <1>4, <1>5, <1>6, MismosRegistros, MismosBytes DEF Maquina!Leer, Mismas
<1>8. Maquina!Paso(p)
  BY <1>4, <1>5, <1>7 DEF Maquina!Paso, Mismas
<1> QED
  BY <1>8 DEF PasoAbs

(* EscrituraAbstracta: MOV_OUT and COPY_MEM take place when the stick       *)
(* serves the write.                                                        *)
LEMMA EscrituraAbstracta ==
  ASSUME NEW c \in Cpus, MaquinaInv, MaquinaInv', escritura(c)
  PROVE  PasoAbs
<1>1. /\ fase[c] = "escritura" /\ EnAcceso(c) /\ fase' = [fase EXCEPT ![c] = "escrito"]
      /\ UNCHANGED <<programa, contexto, estado, pid, ctx, pedido>>
  BY DEF escritura, quietos, EnAcceso
<1>2. AccesoInv /\ TipoAcceso /\ DuenosBien' /\ DatosBien(c) /\ Bien(c)
  BY DEF MaquinaInv, AccesoInv
<1>3. PICK p \in Procesos : p = pid[c] /\ ctx[c]["PC"] < Len(programa[p])
  BY <1>1, DentroDeUnAcceso
<1>4. Otros(c) /\ fase'[c] = "escrito"
  BY <1>1, <1>2 DEF TipoAcceso, Otros
<1>5. RegistrosDe(p)' = Avanzar(ctx[c])
  BY <1>1, <1>2, <1>3, <1>4, RegistrosEnCpu
<1>6. Maquina!Fijar(p, Avanzar(ctx[c]))
  BY <1>1, <1>3, <1>4, <1>5, RegistrosPaso DEF Maquina!Fijar
<1>7. [q \in Procesos |-> SegmentosDe(q)]' = Maquina!Con(p, ctx[c]["DI"], pedido[c].datos)
  BY <1>2, <1>3, SegmentosTrasEscribir
<1>8. /\ [q \in Procesos |-> RegistrosDe(q)][p] = ctx[c]
      /\ Maquina!Instr(p) = Instr(c) /\ Maquina!Quedan(p)
  BY <1>1, <1>3, InstrAbstracta
<1>9. Maquina!Cabe(p, ctx[c]["DI"], Tamano(Instr(c), ctx[c]))
  <2>1. /\ ctx[c]["DI"] \in Palabras /\ Tamano(Instr(c), ctx[c]) \in Nat
        /\ EnTabla(p, ctx[c]["DI"], Tamano(Instr(c), ctx[c]))
    BY <1>2, <1>3, EscrituraJusta
  <2> QED
    BY <2>1, CabeEnTabla
<1>10. [q \in Procesos |-> estado[q] = "fin"]' = [q \in Procesos |-> estado[q] = "fin"]
  BY <1>1
<1>11. Instr(c).op \in Escrituras
  BY <1>1, <1>2 DEF Bien, TurnoBien
<1>12. CASE Instr(c).op = "MOV_OUT"
  <2>1. pedido[c].datos = EnBytes(ctx[c][Instr(c).r]) /\ Tamano(Instr(c), ctx[c]) = PALABRA
    BY <1>1, <1>2, <1>12 DEF DatosBien, Tamano
  <2>2. Maquina!Guardar(p)
    BY <1>6, <1>7, <1>8, <1>9, <1>10, <1>12, <2>1, MismosRegistros, MismosBytes
       DEF Maquina!Guardar
  <2> QED
    BY <1>1, <1>8, <2>2 DEF Maquina!Paso, PasoAbs
<1>13. CASE Instr(c).op = "COPY_MEM"
  <2>1. /\ Maquina!Cabe(p, ctx[c]["SI"], Tamano(Instr(c), ctx[c]))
        /\ pedido[c].datos = Maquina!Contenido(p, ctx[c]["SI"], Tamano(Instr(c), ctx[c]))
    BY <1>1, <1>3, <1>13, LeidoAbstracto
  <2>2. Maquina!Copiar(p)
    BY <1>6, <1>7, <1>8, <1>9, <1>10, <1>13, <2>1, MismosRegistros, MismasClases
       DEF Maquina!Copiar
  <2> QED
    BY <1>1, <1>8, <2>2 DEF Maquina!Paso, PasoAbs
<1> QED
  BY <1>11, <1>12, <1>13 DEF Escrituras

(* EsperaAbstracta: what a CPU asks, a stick reads, and a CPU that goes on  *)
(* after its OK, are no step of the abstract machine.                       *)
LEMMA EsperaAbstracta ==
  ASSUME NEW c \in Cpus, MaquinaInv, MaquinaInv',
         \/ PedirLectura(c) \/ PedirEscritura(c) \/ lectura(c) \/ RecibirCopia(c)
  PROVE  PasoAbs
<1>1. /\ fase[c] \in {"ciclo", "lectura", "leido"}
      /\ \E f \in {"lectura", "escritura", "leido"} : fase' = [fase EXCEPT ![c] = f]
      /\ \E m : pedido' = [pedido EXCEPT ![c] = m]
      /\ UNCHANGED <<programa, contexto, estado, pid, ctx, memoria>>
  BY DEF PedirLectura, PedirEscritura, lectura, RecibirCopia, Pedir, HayInstr, quietos
<1>2. TipoAcceso /\ DuenosBien /\ DuenosBien' /\ Bien(c)
  BY DEF MaquinaInv, AccesoInv
<1>3. PICK p \in Procesos : p = pid[c]
  BY <1>1, <1>2 DEF Bien, TurnoBien
<1>4. Otros(c) /\ fase'[c] # "escrito"
  BY <1>1, <1>2 DEF TipoAcceso, Otros
<1>5. RegistrosDe(p) = ctx[c] /\ RegistrosDe(p)' = ctx[c]
  BY <1>1, <1>2, <1>3, <1>4, RegistrosEnCpu
<1>6. [q \in Procesos |-> RegistrosDe(q)]' = [q \in Procesos |-> RegistrosDe(q)]
  BY <1>1, <1>3, <1>4, <1>5, RegistrosPaso
<1>7. [q \in Procesos |-> estado[q] = "fin"]' = [q \in Procesos |-> estado[q] = "fin"]
  BY <1>1
<1> QED
  BY <1>1, <1>6, <1>7, MemoriaQuieta, NadaAbstracto DEF PasoAbs

(* OkAbstracto: the PC that the machine already had.                        *)
LEMMA OkAbstracto ==
  ASSUME NEW c \in Cpus, MaquinaInv, MaquinaInv', RecibirOk(c)
  PROVE  PasoAbs
<1>1. /\ fase[c] = "escrito" /\ EnAcceso(c) /\ Seguir(c, Avanzar(ctx[c]))
      /\ UNCHANGED <<programa, contexto, estado, pid, memoria>>
      /\ pedido' = [pedido EXCEPT ![c] = Sin]
  BY DEF RecibirOk, quietos, EnAcceso
<1>2. PICK p \in Procesos : p = pid[c]
  BY <1>1, DentroDeUnAcceso
<1>3. Otros(c)
  BY <1>1, DentroDeUnAcceso DEF TipoAcceso, Seguir, Otros
<1>4. RegistrosDe(p) = Avanzar(ctx[c])
  BY <1>1, <1>2, RegistrosEnCpu DEF MaquinaInv
<1>5. /\ Mismas
      /\ [q \in Procesos |-> RegistrosDe(q)]' = [q \in Procesos |-> RegistrosDe(q)]
      /\ [q \in Procesos |-> estado[q] = "fin"]' = [q \in Procesos |-> estado[q] = "fin"]
  BY <1>1, <1>2, <1>3, <1>4, SeguirAbstracto
<1> QED
  BY <1>5, NadaAbstracto DEF PasoAbs

(* DespachoAbstracto: the registers of Kernel Memory pass to the CPU.       *)
LEMMA DespachoAbstracto ==
  ASSUME NEW c \in Cpus, NEW p \in Procesos, MaquinaInv, MaquinaInv', Despachar(c, p)
  PROVE  PasoAbs
<1>1. TipoAcceso /\ DuenosBien /\ DuenosBien'
  BY DEF MaquinaInv, AccesoInv
<1>2. /\ fase[c] = "espera" /\ estado[p] = "listo" /\ estado' = [estado EXCEPT ![p] = "en_cpu"]
      /\ pid'[c] = p /\ ctx'[c] = contexto[p] /\ fase'[c] = "ciclo" /\ Otros(c)
      /\ UNCHANGED <<programa, contexto, memoria>>
  BY <1>1 DEF TipoAcceso, Despachar, Otros, quietos
<1>3. pid[c] = NADIE /\ \A d \in Cpus : pid[d] # p
  BY <1>1, <1>2 DEF DuenosBien
<1>4. RegistrosDe(p) = contexto[p]
  BY <1>3, RegistrosFuera
<1>5. RegistrosDe(p)' = contexto[p]
  BY <1>1, <1>2, RegistrosEnCpu
<1>6. [q \in Procesos |-> RegistrosDe(q)]' = [q \in Procesos |-> RegistrosDe(q)]
  BY <1>2, <1>3, <1>4, <1>5, RegistrosPaso
<1>7. [q \in Procesos |-> estado[q] = "fin"]' = [q \in Procesos |-> estado[q] = "fin"]
  <2>1. \A q \in Procesos : estado'[q] = "fin" <=> estado[q] = "fin"
    BY <1>1, <1>2 DEF TipoAcceso
  <2> QED
    BY <2>1
<1> QED
  BY <1>2, <1>6, <1>7, MemoriaQuieta, NadaAbstracto DEF PasoAbs

(* FijoAbstracto: the death of a stick, and steps that change nothing.      *)
LEMMA FijoAbstracto ==
  ASSUME UNCHANGED <<programa, contexto, estado, pid, ctx, fase, memoria>>
  PROVE  PasoAbs
<1>1. [q \in Procesos |-> RegistrosDe(q)]' = [q \in Procesos |-> RegistrosDe(q)]
  BY DEF RegistrosDe, EnCpu, Avanzar
<1>2. [q \in Procesos |-> estado[q] = "fin"]' = [q \in Procesos |-> estado[q] = "fin"]
  OBVIOUS
<1> QED
  BY <1>1, <1>2, MemoriaQuieta, NadaAbstracto DEF PasoAbs

LEMMA PasoRefina == MaquinaInv /\ MaquinaInv' /\ [Next]_vars => PasoAbs
<1> SUFFICES ASSUME MaquinaInv, MaquinaInv', [Next]_vars PROVE PasoAbs
  OBVIOUS
<1>1. CASE UNCHANGED vars
  BY <1>1, FijoAbstracto DEF vars
<1>2. ASSUME NEW c \in Cpus, Ciclo(c) PROVE PasoAbs
  BY <1>2, EjecutarAbstracto, VolverAbstracto, FallarAbstracto, PalabraAbstracta,
     EsperaAbstracta, OkAbstracto DEF Ciclo
<1>3. ASSUME NEW c \in Cpus, Stick(c) PROVE PasoAbs
  <2>1. MorirStick(c) => UNCHANGED <<programa, contexto, estado, pid, ctx, fase, memoria>>
    BY DEF MorirStick
  <2> QED
    BY <1>3, <2>1, EsperaAbstracta, EscrituraAbstracta, FijoAbstracto DEF Stick
<1>4. ASSUME NEW c \in Cpus, Interrumpir(c) PROVE PasoAbs
  BY <1>4, VolverAbstracto
<1>5. ASSUME NEW c \in Cpus, NEW p \in Procesos, Despachar(c, p) PROVE PasoAbs
  BY <1>5, DespachoAbstracto
<1> QED
  BY <1>1, <1>2, <1>3, <1>4, <1>5 DEF Next

LEMMA InicioRefina == Init => Maquina!AbsInit
<1> SUFFICES ASSUME Init PROVE Maquina!AbsInit
  OBVIOUS
<1>1. \A p \in Procesos : RegistrosDe(p) = EnCero
  <2>1. \A p \in Procesos, c \in Cpus : pid[c] # p
    BY NadieOK DEF Init
  <2> QED
    BY <2>1, RegistrosFuera DEF Init
<1>2. \A p \in Procesos : (estado[p] = "fin") = FALSE
  BY DEF Init
<1> QED
  BY <1>1, <1>2, MismosRegistros DEF Maquina!AbsInit

(* CadaUnoConLoSuyo: with any number of CPUs, sticks and processes, and     *)
(* turns cut anywhere, every script runs as on a machine of its own: the    *)
(* CPUs, Kernel Memory and the sticks implement MaquinaAbs.                 *)
THEOREM CadaUnoConLoSuyo == Spec => CadaUnoLoSuyo
<1>1. Spec => []MaquinaInv
  BY MaquinaInicial, MaquinaPaso, PTL DEF Spec
<1>2. MaquinaInv /\ MaquinaInv' /\ [Next]_vars
        => [\E p \in Procesos : Maquina!Paso(p)]_Maquina!varsA
  BY PasoRefina DEF PasoAbs
<1>3. Spec => Maquina!AbsSpec
  BY <1>1, <1>2, InicioRefina, PTL DEF Spec, Maquina!AbsSpec
<1> QED
  BY <1>3 DEF CadaUnoLoSuyo
=============================================================================

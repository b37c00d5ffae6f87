------------------------------ MODULE MaquinaAbs ------------------------------
(***************************************************************************)
(* What the CPUs, Kernel Memory and the memory sticks promise a script:    *)
(* a machine of its own.  Each process has its registers and its segments, *)
(* no other process can touch either, and an instruction is one step,      *)
(* whatever CPU runs it and wherever the interruptions fall.               *)
(***************************************************************************)
EXTENDS InstruccionesCPU, FiniteSets

CONSTANTS
  Procesos,
  Inalcanzables   \* pairs of a process and a segment some CPU cannot reach

VARIABLES programa, registros, segmentos, terminado
varsA == <<programa, registros, segmentos, terminado>>

Instr(p) == programa[p][registros[p]["PC"] + 1]
Quedan(p) == ~ terminado[p] /\ registros[p]["PC"] < Len(programa[p])

Segmento(dir) == dir \div TAM_MAX

Cabe(p, dir, tam) ==
  /\ Segmento(dir) \in DOMAIN segmentos[p]
  /\ (dir % TAM_MAX) + tam <= Cardinality(DOMAIN segmentos[p][Segmento(dir)])

Contenido(p, dir, tam) ==
  [k \in 1 .. tam |-> segmentos[p][Segmento(dir)][(dir % TAM_MAX) + k - 1]]

\* The segments of all processes once bs is written at dir in those of p.
Con(p, dir, bs) ==
  LET desde == dir % TAM_MAX
      nuevo(seg) == [k \in DOMAIN seg |-> IF desde <= k /\ k < desde + Len(bs)
                                            THEN bs[k - desde + 1] ELSE seg[k]]
  IN  [segmentos EXCEPT ![p][Segmento(dir)] = nuevo(@)]

Fijar(p, reg) == registros' = [registros EXCEPT ![p] = reg]

Calculo(p) ==
  /\ Instr(p).op \in Calculos
  /\ Fijar(p, Calcular(Instr(p), registros[p]))
  /\ UNCHANGED <<segmentos, terminado>>

Llamada(p) ==
  /\ Instr(p).op = "SYSCALL" /\ Fijar(p, Avanzar(registros[p]))
  /\ UNCHANGED <<segmentos, terminado>>

Leer(p) ==
  LET i == Instr(p) si == registros[p]["SI"] IN
  /\ i.op = "MOV_IN" /\ Cabe(p, si, PALABRA)
  /\ Fijar(p, Avanzar(Escribir(registros[p], i.r, EnPalabra(Contenido(p, si, PALABRA)))))
  /\ UNCHANGED <<segmentos, terminado>>

Guardar(p) ==
  LET i == Instr(p) di == registros[p]["DI"] IN
  /\ i.op = "MOV_OUT" /\ Cabe(p, di, PALABRA)
  /\ segmentos' = Con(p, di, EnBytes(registros[p][i.r]))
  /\ Fijar(p, Avanzar(registros[p])) /\ UNCHANGED terminado

\* All the bytes are read before the first is written.
Copiar(p) ==
  LET i == Instr(p) si == registros[p]["SI"] di == registros[p]["DI"] n == Tamano(i, registros[p])
  IN
  /\ i.op = "COPY_MEM" /\ Cabe(p, si, n) /\ Cabe(p, di, n)
  /\ segmentos' = Con(p, di, Contenido(p, si, n))
  /\ Fijar(p, Avanzar(registros[p])) /\ UNCHANGED terminado

Salir(p) ==
  /\ Instr(p).op \in {"EXIT", "DESCONOCIDA"}
  /\ terminado' = [terminado EXCEPT ![p] = TRUE]
  /\ \/ Instr(p).op = "EXIT" /\ Fijar(p, Avanzar(registros[p]))
     \/ Instr(p).op = "DESCONOCIDA" /\ UNCHANGED registros
  /\ UNCHANGED segmentos

\* A segment fault is justified: the access does not fit, or a CPU cannot
\* reach it, or it is of no bytes at the very end of a segment.
Justificada(p, dir, tam) ==
  \/ ~ Cabe(p, dir, tam)
  \/ <<p, Segmento(dir)>> \in Inalcanzables
  \/ tam = 0

Fallar(p) ==
  LET i == Instr(p) n == Tamano(i, registros[p]) IN
  /\ \/ i.op \in Lecturas /\ Justificada(p, registros[p]["SI"], n)
     \/ i.op \in Escrituras /\ Justificada(p, registros[p]["DI"], n)
  /\ terminado' = [terminado EXCEPT ![p] = TRUE]
  /\ UNCHANGED <<registros, segmentos>>

Paso(p) ==
  /\ Quedan(p) /\ UNCHANGED programa
  /\ \/ Calculo(p) \/ Llamada(p) \/ Leer(p) \/ Guardar(p) \/ Copiar(p)
     \/ Salir(p) \/ Fallar(p)

AbsInit ==
  /\ registros = [p \in Procesos |-> EnCero]
  /\ terminado = [p \in Procesos |-> FALSE]

AbsSpec == AbsInit /\ [][\E p \in Procesos : Paso(p)]_varsA
=============================================================================

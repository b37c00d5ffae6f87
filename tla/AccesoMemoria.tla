---------------------------- MODULE AccesoMemoria ----------------------------
(***************************************************************************)
(* The CPUs executing scripts on the bytes of the memory sticks: the       *)
(* context that comes from Kernel Memory and goes back at the end of a     *)
(* turn, the instruction cycle of ciclo.c with its MMU, the requests on    *)
(* the socket a CPU has with each stick, and the thread with which a stick *)
(* answers it (memory_stick.c).                                            *)
(*                                                                         *)
(* The scheduler is any scheduler that runs a process on one CPU at a      *)
(* time; when interruptions arrive is open, and they are looked at only    *)
(* after an instruction that was not a system call.  The segments are      *)
(* those of the tables Kernel Memory keeps, which do not change here.      *)
(***************************************************************************)
EXTENDS InstruccionesCPU, FiniteSets

CONSTANTS
  Cpus, Procesos,
  Programas,   \* the scripts INIT_PROC may name: sequences of instructions
  Tabla,       \* tabla_segmentos of each process, by segment id
  Sticks,      \* the memory sticks: a base and a limit each
  Conoce,      \* the sticks that were connected when each CPU was
  NADIE

Fin(t) == t.base + t.limite
Dentro(d, t) == t.base <= d /\ d < Fin(t)

\* crear_segmento takes a hole of one stick, and holes do not overlap.
ASSUME SticksOK ==
  /\ \A s \in DOMAIN Sticks : Sticks[s].base \in Nat /\ Sticks[s].limite \in Nat
  /\ \A s, t \in DOMAIN Sticks :
       s = t \/ Fin(Sticks[s]) <= Sticks[t].base \/ Fin(Sticks[t]) <= Sticks[s].base
ASSUME TablaOK ==
  \A p \in Procesos : \A n \in DOMAIN Tabla[p] :
    /\ n \in Nat /\ Tabla[p][n].base \in Nat /\ Tabla[p][n].limite \in 1 .. TAM_MAX
    /\ Fin(Tabla[p][n]) < UINT32_MAX
    /\ \E s \in DOMAIN Sticks : /\ Sticks[s].base <= Tabla[p][n].base
                                /\ Fin(Tabla[p][n]) <= Fin(Sticks[s])
ASSUME SinSolapeOK ==
  \A p, q \in Procesos : \A n \in DOMAIN Tabla[p], m \in DOMAIN Tabla[q] :
    \/ p = q /\ n = m
    \/ Fin(Tabla[p][n]) <= Tabla[q][m].base \/ Fin(Tabla[q][m]) <= Tabla[p][n].base
ASSUME ProgramasOK == Programas \subseteq Seq(Instrucciones)
ASSUME ConoceOK == \A c \in Cpus : Conoce[c] \subseteq DOMAIN Sticks
\* A stick is at least a segment smaller than what 32 bits address.
ASSUME SticksChicosOK == \A s \in DOMAIN Sticks : Sticks[s].limite <= W - TAM_MAX
ASSUME NadieOK == NADIE \notin Procesos \cup DOMAIN Sticks

VARIABLES
  programa,   \* the script of each process
  contexto,   \* the registers Kernel Memory keeps for each process
  estado,     \* the scheduler's view of each process
  pid,        \* pid_actual of each CPU
  ctx,        \* the registers of each CPU
  fase,       \* where each CPU is in ejecutar_proceso
  reviso,     \* the interruption check comes before the next instruction
  pedido,     \* what a CPU and a stick have on their socket
  memoria,    \* memoria_principal of each stick
  corrupta    \* a stick died: Kernel Memory reports it and the system stops

quietos == <<programa, corrupta>>
vars == <<programa, contexto, estado, pid, ctx, fase, reviso, pedido, memoria, corrupta>>

Sin == [stick |-> NADIE, dir |-> 0, tam |-> 0, datos |-> <<>>]

Init ==
  /\ programa \in [Procesos -> Programas]
  /\ contexto = [p \in Procesos |-> EnCero]
  /\ estado = [p \in Procesos |-> "listo"]
  /\ pid = [c \in Cpus |-> NADIE] /\ ctx = [c \in Cpus |-> EnCero]
  /\ fase = [c \in Cpus |-> "espera"] /\ reviso = [c \in Cpus |-> FALSE]
  /\ pedido = [c \in Cpus |-> Sin]
  /\ memoria = [s \in DOMAIN Sticks |-> [d \in 0 .. Sticks[s].limite - 1 |-> 0]]
  /\ corrupta = FALSE

-----------------------------------------------------------------------------
(* A turn of a CPU.                                                         *)

\* DESPACHAR_PROCESO, and the context Kernel Memory answers with.
Despachar(c, p) ==
  /\ ~ corrupta /\ fase[c] = "espera" /\ estado[p] = "listo"
  /\ estado' = [estado EXCEPT ![p] = "en_cpu"]
  /\ pid' = [pid EXCEPT ![c] = p] /\ ctx' = [ctx EXCEPT ![c] = contexto[p]]
  /\ fase' = [fase EXCEPT ![c] = "ciclo"]
  /\ UNCHANGED <<quietos, contexto, reviso, pedido, memoria>>

\* actualizar_contexto and the motive, which makes the process e.
Volver(c, reg, e) ==
  /\ contexto' = [contexto EXCEPT ![pid[c]] = reg]
  /\ estado' = [estado EXCEPT ![pid[c]] = e]
  /\ fase' = [fase EXCEPT ![c] = "espera"] /\ reviso' = [reviso EXCEPT ![c] = FALSE]
  /\ pid' = [pid EXCEPT ![c] = NADIE] /\ ctx' = [ctx EXCEPT ![c] = EnCero]
  /\ UNCHANGED <<quietos, pedido, memoria>>

\* The instruction fetched; past the end of the script Kernel Memory does
\* not answer.
Instr(c) == programa[pid[c]][ctx[c]["PC"] + 1]
HayInstr(c) == ~ corrupta /\ fase[c] = "ciclo" /\ ctx[c]["PC"] < Len(programa[pid[c]])

\* The end of the cycle: PC has its new value and the check comes next.
Seguir(c, reg) ==
  /\ ctx' = [ctx EXCEPT ![c] = reg]
  /\ fase' = [fase EXCEPT ![c] = "ciclo"] /\ reviso' = [reviso EXCEPT ![c] = TRUE]

Ejecutar(c) ==
  /\ HayInstr(c) /\ Instr(c).op \in Calculos
  /\ Seguir(c, Calcular(Instr(c), ctx[c]))
  /\ UNCHANGED <<quietos, contexto, estado, pid, pedido, memoria>>

\* The scheduler attends the call and the process is ready again.
Llamar(c) ==
  /\ HayInstr(c) /\ Instr(c).op = "SYSCALL"
  /\ Volver(c, Avanzar(ctx[c]), "listo")

Salir(c) ==
  /\ HayInstr(c) /\ Instr(c).op = "EXIT"
  /\ Volver(c, Avanzar(ctx[c]), "fin")

\* parsear_instruccion gives NULL: MOTIVO_EXIT, and PC stays.
SalirSinDecodificar(c) ==
  /\ HayInstr(c) /\ Instr(c).op = "DESCONOCIDA"
  /\ Volver(c, ctx[c], "fin")

\* Mutant: the check also comes before the first instruction of a turn.
InterrumpirSiempre(c) ==
  /\ ~ corrupta /\ fase[c] = "ciclo"
  /\ Volver(c, ctx[c], "listo")

Interrumpir(c) ==
  /\ ~ corrupta /\ fase[c] = "ciclo" /\ reviso[c]
  /\ Volver(c, ctx[c], "listo")

-----------------------------------------------------------------------------
(* The instructions on memory.                                              *)

Traducir(c, r) ==
  mmu_traducir(Tabla[pid[c]], ctx[c][r], Tamano(Instr(c), ctx[c]))

\* buscar_ms_por_base of the CPU; NADIE when no stick it knows has d.
MsDe(c, d) ==
  IF \E s \in Conoce[c] : Dentro(d, Sticks[s])
    THEN CHOOSE s \in Conoce[c] : Dentro(d, Sticks[s]) ELSE NADIE

Alcanza(c, r) == Traducir(c, r) # UINT32_MAX /\ MsDe(c, Traducir(c, r)) # NADIE

\* MOV_IN translates SI, MOV_OUT translates DI, COPY_MEM both.
PuedeAcceder(c) ==
  /\ Instr(c).op \in Lecturas => Alcanza(c, "SI")
  /\ Instr(c).op \in Escrituras => Alcanza(c, "DI")

\* Mutant: the physical address is sent, not the one inside the stick.
SolicitudFisica(c, r, bs) ==
  LET fis == Traducir(c, r) s == MsDe(c, fis) IN
  [stick |-> s, dir |-> fis, tam |-> Tamano(Instr(c), ctx[c]), datos |-> bs]

Solicitud(c, r, bs) ==
  LET fis == Traducir(c, r) s == MsDe(c, fis) IN
  [stick |-> s, dir |-> fis - Sticks[s].base, tam |-> Tamano(Instr(c), ctx[c]), datos |-> bs]

Pedir(c, f, m) ==
  /\ pedido' = [pedido EXCEPT ![c] = m] /\ fase' = [fase EXCEPT ![c] = f]
  /\ UNCHANGED <<quietos, contexto, estado, pid, ctx, reviso, memoria>>

PedirLectura(c) ==
  /\ HayInstr(c) /\ Instr(c).op \in Lecturas /\ PuedeAcceder(c)
  /\ Pedir(c, "lectura", Solicitud(c, "SI", <<>>))

PedirEscritura(c) ==
  /\ HayInstr(c) /\ Instr(c).op = "MOV_OUT" /\ PuedeAcceder(c)
  /\ Pedir(c, "escritura", Solicitud(c, "DI", EnBytes(ctx[c][Instr(c).r])))

\* EXEC_SEG_FAULT: nothing was sent, PC stays, the process ends.
FallarSegmento(c) ==
  /\ HayInstr(c) /\ Instr(c).op \in Accesos /\ ~ PuedeAcceder(c)
  /\ Volver(c, ctx[c], "fin")

-----------------------------------------------------------------------------
(* The thread of a stick for one CPU: a request is served whole, after      *)
(* MEMORY_DELAY.  memcpy checks no bound: past the end the stick dies.      *)

Cabe(m) == m.dir + m.tam <= Sticks[m.stick].limite

lectura(c) ==
  LET m == pedido[c] IN
  /\ ~ corrupta /\ fase[c] = "lectura" /\ Cabe(m)
  /\ pedido' = [pedido EXCEPT ![c].datos =
                  [k \in 1 .. m.tam |-> memoria[m.stick][m.dir + k - 1]]]
  /\ fase' = [fase EXCEPT ![c] = "leido"]
  /\ UNCHANGED <<quietos, contexto, estado, pid, ctx, reviso, memoria>>

\* Mutant: one byte more than was sent.
EscribirDeMas(c) ==
  LET m == pedido[c] IN
  /\ ~ corrupta /\ fase[c] = "escritura" /\ Cabe(m)
  /\ memoria' = [memoria EXCEPT ![m.stick] =
       [d \in DOMAIN @ |-> IF m.dir <= d /\ d < m.dir + m.tam THEN m.datos[d - m.dir + 1]
                           ELSE IF d = m.dir + m.tam THEN 0 ELSE @[d]]]
  /\ fase' = [fase EXCEPT ![c] = "escrito"]
  /\ UNCHANGED <<quietos, contexto, estado, pid, ctx, reviso, pedido>>

escritura(c) ==
  LET m == pedido[c] IN
  /\ ~ corrupta /\ fase[c] = "escritura" /\ Cabe(m)
  /\ memoria' = [memoria EXCEPT ![m.stick] =
       [d \in DOMAIN @ |-> IF m.dir <= d /\ d < m.dir + m.tam THEN m.datos[d - m.dir + 1]
                           ELSE @[d]]]
  /\ fase' = [fase EXCEPT ![c] = "escrito"]
  /\ UNCHANGED <<quietos, contexto, estado, pid, ctx, reviso, pedido>>

MorirStick(c) ==
  /\ ~ corrupta /\ fase[c] \in {"lectura", "escritura"} /\ ~ Cabe(pedido[c])
  /\ corrupta' = TRUE
  /\ UNCHANGED <<programa, contexto, estado, pid, ctx, fase, reviso, pedido, memoria>>

-----------------------------------------------------------------------------
(* The answers.                                                             *)

RecibirPalabra(c) ==
  /\ ~ corrupta /\ fase[c] = "leido" /\ Instr(c).op = "MOV_IN"
  /\ Seguir(c, Avanzar(Escribir(ctx[c], Instr(c).r, EnPalabra(pedido[c].datos))))
  /\ pedido' = [pedido EXCEPT ![c] = Sin]
  /\ UNCHANGED <<quietos, contexto, estado, pid, memoria>>

\* COPY_MEM sends on what it read.
RecibirCopia(c) ==
  /\ ~ corrupta /\ fase[c] = "leido" /\ Instr(c).op = "COPY_MEM"
  /\ Pedir(c, "escritura", Solicitud(c, "DI", pedido[c].datos))

RecibirOk(c) ==
  /\ ~ corrupta /\ fase[c] = "escrito"
  /\ Seguir(c, Avanzar(ctx[c]))
  /\ pedido' = [pedido EXCEPT ![c] = Sin]
  /\ UNCHANGED <<quietos, contexto, estado, pid, memoria>>

-----------------------------------------------------------------------------
Ciclo(c) ==
  \/ Ejecutar(c) \/ Llamar(c) \/ Salir(c) \/ SalirSinDecodificar(c)
  \/ PedirLectura(c) \/ PedirEscritura(c) \/ FallarSegmento(c)
  \/ RecibirPalabra(c) \/ RecibirCopia(c) \/ RecibirOk(c)

Stick(c) == lectura(c) \/ escritura(c) \/ MorirStick(c)

Next == \E c \in Cpus :
  Ciclo(c) \/ Stick(c) \/ Interrumpir(c) \/ \E p \in Procesos : Despachar(c, p)

Spec == Init /\ [][Next]_vars

\* Every thread goes on; the scheduler starves nobody.
FairSpec ==
  /\ Spec
  /\ \A c \in Cpus : WF_vars(Ciclo(c)) /\ WF_vars(Stick(c))
  /\ \A p \in Procesos : SF_vars(\E c \in Cpus : Despachar(c, p))

-----------------------------------------------------------------------------
(* Properties.                                                              *)

Solicitudes ==
  [stick : DOMAIN Sticks \cup {NADIE}, dir : Nat, tam : Palabras, datos : Seq(Bytes)]

(* TipoAcceso: the type of every variable; a register keeps its width.      *)
TipoAcceso ==
  /\ programa \in [Procesos -> Programas]
  /\ contexto \in [Procesos -> Banco]
  /\ estado \in [Procesos -> {"listo", "en_cpu", "fin"}]
  /\ pid \in [Cpus -> Procesos \cup {NADIE}]
  /\ ctx \in [Cpus -> Banco]
  /\ fase \in [Cpus -> {"espera", "ciclo", "lectura", "leido", "escritura", "escrito"}]
  /\ reviso \in [Cpus -> BOOLEAN]
  /\ pedido \in [Cpus -> Solicitudes]
  /\ DOMAIN memoria = DOMAIN Sticks
  /\ \A s \in DOMAIN Sticks : memoria[s] \in [0 .. Sticks[s].limite - 1 -> Bytes]
  /\ corrupta \in BOOLEAN

EnVuelo(c) == fase[c] \in {"lectura", "escritura"}
Fisica(m) == Sticks[m.stick].base + m.dir

(* The sizes whose sum with an offset does not wrap in 32 bits.             *)
Normal(m) == m.tam <= W - TAM_MAX

(* AccesoPropio: a request a CPU has sent to a stick never covers a byte of *)
(* another process' segment, whatever CPU the process was moved to and      *)
(* whatever the other CPU is doing (mmu_traducir, MOV_IN, MOV_OUT and the   *)
(* two requests of COPY_MEM).                                               *)
AccesoPropio ==
  \A c \in Cpus : EnVuelo(c) /\ Normal(pedido[c]) =>
    \A q \in Procesos \ {pid[c]} : \A n \in DOMAIN Tabla[q] :
      \A d \in Fisica(pedido[c]) .. Fisica(pedido[c]) + pedido[c].tam - 1 :
        ~ Dentro(d, Tabla[q][n])

(* MuereSoloPorCopia: a stick is only ever asked for bytes it does not have *)
(* by a COPY_MEM so large that desplazamiento + tamanio wraps in            *)
(* mmu_traducir; no other request ends the system.                          *)
MuereSoloPorCopia ==
  \A c \in Cpus : EnVuelo(c) /\ ~ Cabe(pedido[c]) =>
    Instr(c).op = "COPY_MEM" /\ ~ Normal(pedido[c])

(* Maquina: the abstract machine of MaquinaAbs.  A process that executes    *)
(* has its registers in its CPU; the step of a write is taken when the      *)
(* stick serves it, so until the CPU reads the OK its PC is one ahead.      *)
EnCpu(p) == {c \in Cpus : pid[c] = p}
RegistrosDe(p) ==
  IF EnCpu(p) = {} THEN contexto[p]
  ELSE LET c == CHOOSE c \in EnCpu(p) : TRUE
       IN  IF fase[c] = "escrito" THEN Avanzar(ctx[c]) ELSE ctx[c]
ByteEn(d) == LET s == CHOOSE s \in DOMAIN Sticks : Dentro(d, Sticks[s])
             IN  memoria[s][d - Sticks[s].base]
SegmentosDe(p) ==
  [n \in DOMAIN Tabla[p] |-> [k \in 0 .. Tabla[p][n].limite - 1 |-> ByteEn(Tabla[p][n].base + k)]]
Invisible(p, n) ==
  \E c \in Cpus : ~ \E s \in Conoce[c] : Dentro(Tabla[p][n].base, Sticks[s])

Maquina == INSTANCE MaquinaAbs WITH
  registros <- [p \in Procesos |-> RegistrosDe(p)],
  segmentos <- [p \in Procesos |-> SegmentosDe(p)],
  terminado <- [p \in Procesos |-> estado[p] = "fin"],
  Inalcanzables <- {x \in Procesos \X Nat : x[2] \in DOMAIN Tabla[x[1]] /\ Invisible(x[1], x[2])}

(* CadaUnoLoSuyo: with processes that share CPUs and sticks, and turns cut  *)
(* anywhere, every script runs as on a machine of its own: a step of the    *)
(* system is one instruction of one process on its own bytes, or nothing.   *)
CadaUnoLoSuyo == Maquina!AbsSpec

(* TodosAcaban: every script ends, however often it is interrupted, unless  *)
(* a stick dies: each turn executes at least one instruction.               *)
TodosAcaban == \A p \in Procesos : <>(estado[p] = "fin" \/ corrupta)
=============================================================================

--------------------------- MODULE InstruccionesCPU ---------------------------
(***************************************************************************)
(* What an instruction does to the registers of a CPU, the bytes of a      *)
(* register in memory, and the translation of the MMU (ciclo.c).  A script *)
(* is a sequence of instructions; PC counts from 0.  The widths are        *)
(* parameters: the program has BYTE = 256, PALABRA = 4, W = 2^32.          *)
(***************************************************************************)
EXTENDS Naturals, Sequences

CONSTANTS
  BYTE,      \* values of a uint8_t
  PALABRA,   \* bytes of a uint32_t
  W,         \* values of a uint32_t
  TAM_MAX    \* tam_max_segmento, SEGMENT_MAX_SIZE of the configuration

ASSUME AnchoOK ==
  /\ BYTE \in Nat \ {0} /\ PALABRA \in Nat \ {0} /\ W \in Nat \ {0}
  /\ BYTE <= W /\ TAM_MAX \in Nat \ {0} /\ TAM_MAX + PALABRA <= W
ASSUME PalabraOK == W = BYTE ^ PALABRA

Bytes == 0 .. BYTE - 1
Palabras == 0 .. W - 1
UINT32_MAX == W - 1

Registros8 == {"AX", "BX", "CX", "DX"}
Registros == Registros8 \cup {"PC", "EAX", "EBX", "ECX", "EDX", "SI", "DI"}

\* The values t_registros can hold.
Banco == {reg \in [Registros -> Palabras] : \A r \in Registros8 : reg[r] < BYTE}

\* An operation and up to two registers or a number; the operations that
\* stay inside the CPU, and those that read or write memory.
Calculos == {"NOOP", "SET", "SUM", "SUB", "JNZ"}
Lecturas == {"MOV_IN", "COPY_MEM"}
Escrituras == {"MOV_OUT", "COPY_MEM"}
Accesos == Lecturas \cup Escrituras
Operaciones == Calculos \cup Accesos \cup {"SYSCALL", "EXIT", "DESCONOCIDA"}
Instrucciones == [op : Operaciones, r : Registros, s : Registros, v : Palabras]

\* t_registros as it is created with its process.
EnCero == [r \in Registros |-> 0]

Ancho(r) == IF r \in Registros8 THEN BYTE ELSE W

\* Mutant: the width of the register is not looked at.
EscribirEntero(reg, r, v) == [reg EXCEPT ![r] = v]

\* escribir_registro: the high bytes are lost in AX .. DX.
Escribir(reg, r, v) == [reg EXCEPT ![r] = v % Ancho(r)]

Avanzar(reg) == [reg EXCEPT !["PC"] = (@ + 1) % W]

\* What the others do to the registers; SET and SUM may name PC.
Calcular(i, reg) ==
  CASE i.op = "NOOP" -> Avanzar(reg)
    [] i.op = "SET"  -> Avanzar(Escribir(reg, i.r, i.v))
    [] i.op = "SUM"  -> Avanzar(Escribir(reg, i.r, (reg[i.r] + reg[i.s]) % W))
    [] i.op = "SUB"  -> Avanzar(Escribir(reg, i.r, (reg[i.r] + W - reg[i.s]) % W))
    [] i.op = "JNZ"  -> IF reg[i.r] = 0 THEN Avanzar(reg) ELSE [reg EXCEPT !["PC"] = i.v]

\* The four bytes of a register, least significant first, and back.
EnBytes(v) == [k \in 1 .. PALABRA |-> (v \div BYTE ^ (k - 1)) % BYTE]

EnPalabra(bs) == CHOOSE v \in Palabras : EnBytes(v) = bs

\* memcpy between a uint32_t and its bytes loses nothing.
ASSUME MemcpyOK ==
  /\ \A v \in Palabras : EnBytes(v) \in [1 .. PALABRA -> Bytes]
  /\ \A bs \in [1 .. PALABRA -> Bytes] : \E v \in Palabras : EnBytes(v) = bs

\* The bytes an instruction asks for; for COPY_MEM, the value of a register.
Tamano(i, reg) == IF i.op = "COPY_MEM" THEN reg[i.r] ELSE PALABRA

\* Mutant: the size of the access is not added to the offset.
TraducirSinTamanio(tabla, dir, tam) ==
  LET num_segmento == dir \div TAM_MAX
      desplazamiento == dir % TAM_MAX
  IN  IF /\ num_segmento \in DOMAIN tabla
         /\ desplazamiento <= tabla[num_segmento].limite
        THEN (tabla[num_segmento].base + desplazamiento) % W
        ELSE UINT32_MAX

\* mmu_traducir; a table is a function from segment ids.  The sum is taken
\* in 32 bits, so a huge tam passes the test.
mmu_traducir(tabla, dir, tam) ==
  LET num_segmento == dir \div TAM_MAX
      desplazamiento == dir % TAM_MAX
  IN  IF /\ num_segmento \in DOMAIN tabla
         /\ (desplazamiento + tam) % W <= tabla[num_segmento].limite
        THEN (tabla[num_segmento].base + desplazamiento) % W
        ELSE UINT32_MAX
=============================================================================

------------------------------- MODULE MCAcceso -------------------------------
(* Instances of AccesoMemoria for TLC: words of two bytes of four values,   *)
(* segments of at most four bytes, two sticks of which cpu 2 knows one.     *)
EXTENDS AccesoMemoria, TLC

I(o, a, b, n) == [op |-> o, r |-> a, s |-> b, v |-> n]
SET(a, n) == I("SET", a, a, n)
De(o, a) == I(o, a, a, 0)
EXIT == De("EXIT", "AX")

MCSticks == <<[base |-> 0, limite |-> 6], [base |-> 6, limite |-> 6]>>
Seg(b, n) == [base |-> b, limite |-> n]
MCTabla == [p \in {1, 2} |->
  IF p = 1 THEN (0 :> Seg(0, 3)) @@ (1 :> Seg(6, 4))
  ELSE (0 :> Seg(3, 3)) @@ (1 :> Seg(10, 2))]
MCConoce == <<{1, 2}, {1}>>

\* Writes a word, reads it back one byte further, writes the sum.
Palabra == <<SET("EAX", 9), De("MOV_OUT", "EAX"), SET("SI", 1), De("MOV_IN", "BX"),
             I("SUM", "EAX", "BX", 0), SET("DI", 4), De("MOV_OUT", "EAX"), EXIT>>
\* Copies between two segments, which may be on two sticks.
Copia == <<SET("EAX", 6), SET("DI", 1), De("MOV_OUT", "EAX"), SET("SI", 1), SET("DI", 4),
           SET("AX", 2), De("COPY_MEM", "AX"), SET("SI", 4), De("MOV_IN", "EBX"), EXIT>>
\* A loop, a call, and a write that starts inside a segment and leaves it.
Bucle == <<SET("AX", 6), SET("CX", 1), I("SUB", "AX", "CX", 0), I("JNZ", "AX", "AX", 2),
           De("SYSCALL", "AX"), SET("DI", 2), De("MOV_OUT", "AX"), EXIT>>
\* The size wraps in the test of the MMU.
Enorme == <<SET("EAX", 15), SET("SI", 1), SET("DI", 1), De("COPY_MEM", "EAX"), EXIT>>
\* No bytes at the end of a segment; a jump through PC; no instruction.
Nada == <<De("NOOP", "AX"), SET("SI", 6), SET("PC", 3), EXIT, De("COPY_MEM", "DX"),
          De("DESCONOCIDA", "AX")>>

MCProgramas == {Palabra, Copia, Bucle, Enorme, Nada}
=============================================================================

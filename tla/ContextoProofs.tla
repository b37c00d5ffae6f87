--------------------------- MODULE ContextoProofs ---------------------------
(***************************************************************************)
(* With one CPU, for every number of processes and turns: the context of a *)
(* turn is never lost nor overtaken, and Kernel Memory does not exit.      *)
(*                                                                         *)
(* With one CPU its socket holds at most the context of the last turn and  *)
(* the request for the next one, and the scheduler sends a removal only    *)
(* while that CPU waits.  What each process looks like in Kernel Memory    *)
(* then depends on whether its last context is still in the socket.        *)
(***************************************************************************)
EXTENDS ContextoKM, SequenceTheorems, TLAPS

Actualizacion(p) == Mensaje("ACTUALIZAR_CONTEXTO", p, turnos[p])
Peticion(p) == Mensaje("PEDIDO_CONTEXTO", p, 0)
Final(p) == [op |-> "FINALIZAR_PROCESO", pid |-> p]

\* The last context of p has not been read.
Pendiente(c, p) == a_km[c] # <<>> /\ Head(a_km[c]) = Actualizacion(p)

(* Canal: what the sockets hold in each step of the CPU.                    *)
Ejecutando(c) ==
  /\ paso_cpu[c] = "ejecutar" /\ a_km[c] = <<>> /\ pedidos_ks = <<>>
  /\ ejecuta[c] \in Procesos /\ ctx[c] = turnos[ejecuta[c]]
  /\ ~ proceso_actulizado[ejecuta[c]]
Pidiendo(c) ==
  /\ paso_cpu[c] = "pedir_contexto" /\ pedidos_ks = <<>> /\ ejecuta[c] \in Procesos
  /\ \/ a_km[c] = <<Peticion(ejecuta[c])>>
     \/ \E q \in Procesos : a_km[c] = <<Actualizacion(q), Peticion(ejecuta[c])>>
Esperando(c) ==
  /\ paso_cpu[c] = "esperar"
  /\ a_km[c] = <<>> \/ \E q \in Procesos : a_km[c] = <<Actualizacion(q)>>
  /\ \/ ejecuta[c] = NADIE /\ pedidos_ks = <<>>
     \/ ejecuta[c] \in Procesos /\ pedidos_ks = <<Final(ejecuta[c])>>
Canal(c) == Ejecutando(c) \/ Pidiendo(c) \/ Esperando(c)

(* Ficha: what Kernel Memory and the scheduler keep for a process.          *)
Ficha(c, p) ==
  /\ situacion[p] = "en_cpu" <=> ejecuta[c] = p /\ paso_cpu[c] # "esperar"
  /\ situacion[p] = "saliendo" <=> ejecuta[c] = p /\ paso_cpu[c] = "esperar"
  /\ situacion[p] \in {"listo", "en_cpu", "saliendo"} => p \in lista_procesos
  /\ situacion[p] # "terminado" => ~ peticion_eliminacion[p]
  /\ situacion[p] = "sin_crear" => ~ Pendiente(c, p)
  /\ situacion[p] = "saliendo" /\ ~ Pendiente(c, p) => proceso_actulizado[p]
  /\ situacion[p] # "terminado" /\ ~ Pendiente(c, p) => registros[p] = turnos[p]
  /\ situacion[p] = "terminado" =>
       IF Pendiente(c, p) THEN peticion_eliminacion[p] ELSE p \notin lista_procesos
  /\ Pendiente(c, p) => p \in lista_procesos /\ ~ proceso_actulizado[p]

ContextoInv(c) ==
  /\ TipoContexto /\ viva /\ Canal(c)
  /\ \A p \in Procesos : Ficha(c, p)

-----------------------------------------------------------------------------
(* Messages, and sockets that hold one or two of them.                      *)

LEMMA AgregarAUno ==
  ASSUME NEW x, NEW y
  PROVE  Append(<<x>>, y) = <<x, y>>
<1> DEFINE S == {x, y}
           s == Append(<<x>>, y)
           t == <<x, y>>
<1>1. <<x>> \in Seq(S) /\ y \in S /\ Len(<<x>>) = 1
  OBVIOUS
<1>2. s \in Seq(S) /\ Len(s) = 2 /\ s[1] = x /\ s[2] = y
  BY <1>1
<1>3. t \in Seq(S) /\ Len(t) = 2 /\ t[1] = x /\ t[2] = y
  OBVIOUS
<1> HIDE DEF s, t, S
<1>4. \A i \in 1 .. Len(s) : s[i] = t[i]
  BY <1>2, <1>3
<1>5. s = t
  BY <1>2, <1>3, <1>4, SeqEqual
<1> QED
  BY <1>5 DEF s, t

LEMMA Tuplas ==
  ASSUME NEW x, NEW y
  PROVE  /\ <<x>> # <<>> /\ Head(<<x>>) = x /\ Tail(<<x>>) = <<>>
         /\ <<x, y>> # <<>> /\ Head(<<x, y>>) = x /\ Tail(<<x, y>>) = <<y>>
         /\ Append(<<>>, x) = <<x>> /\ Append(<<x>>, y) = <<x, y>>
<1>1. <<x>> # <<>> /\ Head(<<x>>) = x /\ Tail(<<x>>) = <<>>
  OBVIOUS
<1>2. <<x, y>> # <<>> /\ Head(<<x, y>>) = x /\ Tail(<<x, y>>) = <<y>>
  OBVIOUS
<1>3. Append(<<>>, x) = <<x>>
  OBVIOUS
<1> QED
  BY <1>1, <1>2, <1>3, AgregarAUno

LEMMA Campos ==
  ASSUME NEW p
  PROVE  /\ Peticion(p).op = "PEDIDO_CONTEXTO" /\ Peticion(p).pid = p
         /\ Actualizacion(p).op = "ACTUALIZAR_CONTEXTO" /\ Actualizacion(p).pid = p
         /\ Actualizacion(p).registros = turnos[p]
         /\ Final(p).op = "FINALIZAR_PROCESO" /\ Final(p).pid = p
  BY DEF Peticion, Actualizacion, Final, Mensaje

LEMMA MensajesDistintos ==
  ASSUME TipoContexto
  PROVE  /\ \A p, q : Peticion(p) # Actualizacion(q)
         /\ \A p, q : Actualizacion(p) = Actualizacion(q) => p = q
         /\ \A p \in Procesos :
              Peticion(p) \in MensajesCpu /\ Actualizacion(p) \in MensajesCpu
  BY DEF Peticion, Actualizacion, Mensaje, MensajesCpu, TipoContexto

(* A process has a context in the socket only as its first message.         *)
LEMMA Primero ==
  ASSUME NEW c \in Cpus, TipoContexto, NEW p
  PROVE  /\ a_km[c] = <<>> => ~ Pendiente(c, p)
         /\ \A q : a_km[c] = <<Peticion(q)>> => ~ Pendiente(c, p)
         /\ \A q : a_km[c] = <<Actualizacion(q)>> => (Pendiente(c, p) <=> p = q)
         /\ \A q, r : a_km[c] = <<Actualizacion(q), Peticion(r)>>
                        => (Pendiente(c, p) <=> p = q)
  BY MensajesDistintos DEF Pendiente

LEMMA InitContexto ==
  ASSUME NEW c, Cpus = {c}, Init
  PROVE  ContextoInv(c)
<1>1. TipoContexto
  BY DEF Init, TipoContexto, Situaciones
<1>2. Canal(c)
  BY DEF Init, Canal, Esperando
<1>3. \A p \in Procesos : Ficha(c, p)
  BY NadieOK DEF Init, Ficha, Pendiente
<1> QED
  BY <1>1, <1>2, <1>3 DEF ContextoInv, Init

-----------------------------------------------------------------------------
(* The scheduler.                                                           *)

LEMMA CargarInv ==
  ASSUME NEW c, Cpus = {c}, ContextoInv(c), NEW p \in Procesos, CargarProceso(p)
  PROVE  ContextoInv(c)'
<1>1. TipoContexto'
  BY DEF CargarProceso, ContextoInv, TipoContexto, Situaciones, canales, cpus
<1>2. Canal(c)'
  BY DEF CargarProceso, ContextoInv, Canal, Ejecutando, Pidiendo, Esperando, Actualizacion,
         canales, cpus
<1>3. ASSUME NEW q \in Procesos PROVE Ficha(c, q)'
  <2>1. Pendiente(c, q)' <=> Pendiente(c, q)
    BY DEF CargarProceso, Pendiente, Actualizacion, canales
  <2>2. situacion'[q] = IF q = p THEN "listo" ELSE situacion[q]
    BY DEF CargarProceso, ContextoInv, TipoContexto
  <2>3. Ficha(c, q)
    BY DEF ContextoInv
  <2> QED
    BY <2>1, <2>2, <2>3 DEF CargarProceso, Ficha, canales, cpus
<1> QED
  BY <1>1, <1>2, <1>3 DEF ContextoInv, CargarProceso

LEMMA DespacharInv ==
  ASSUME NEW c, Cpus = {c}, ContextoInv(c), NEW p \in Procesos, Despachar(p, c)
  PROVE  ContextoInv(c)'
<1>1. Esperando(c) /\ pedidos_ks = <<>>
  BY NadieOK DEF Despachar, ContextoInv, Canal, Ejecutando, Pidiendo, Esperando
<1>2. /\ ejecuta'[c] = p /\ paso_cpu'[c] = "pedir_contexto"
      /\ a_km'[c] = Append(a_km[c], Peticion(p)) /\ turnos' = turnos
      /\ \A q \in Procesos : situacion'[q] = IF q = p THEN "en_cpu" ELSE situacion[q]
  BY DEF Despachar, ContextoInv, TipoContexto, Peticion
<1>3. \/ a_km[c] = <<>> /\ a_km'[c] = <<Peticion(p)>>
      \/ \E q \in Procesos : /\ a_km[c] = <<Actualizacion(q)>>
                             /\ a_km'[c] = <<Actualizacion(q), Peticion(p)>>
  <2>1. CASE a_km[c] = <<>>
    BY <1>2, <2>1, Tuplas
  <2>2. ASSUME NEW q \in Procesos, a_km[c] = <<Actualizacion(q)>>
        PROVE  a_km'[c] = <<Actualizacion(q), Peticion(p)>>
    BY <1>2, <2>2, Tuplas
  <2> QED
    BY <1>1, <2>1, <2>2 DEF Esperando
<1>4. TipoContexto'
  <2>1. a_km' \in [Cpus -> Seq(MensajesCpu)]
    BY MensajesDistintos DEF Despachar, ContextoInv, TipoContexto, Peticion
  <2> QED
    BY <2>1 DEF Despachar, ContextoInv, TipoContexto, Situaciones, procesos_km
<1>5. \A q : Actualizacion(q)' = Actualizacion(q)
  BY <1>2 DEF Actualizacion
<1>6. Canal(c)'
  BY <1>1, <1>2, <1>3, <1>5 DEF Canal, Pidiendo, Despachar, Peticion
<1>7. ASSUME NEW q \in Procesos PROVE Ficha(c, q)'
  <2>1. Pendiente(c, q)' <=> Pendiente(c, q)
    BY <1>3, <1>4, <1>5, MensajesDistintos DEF Pendiente, ContextoInv
  <2>2. Ficha(c, q) /\ Ficha(c, p)
    BY DEF ContextoInv
  <2> QED
    BY <1>1, <1>2, <2>1, <2>2, NadieOK DEF Despachar, Ficha, Esperando, procesos_km
<1> QED
  BY <1>4, <1>6, <1>7 DEF ContextoInv, Despachar, procesos_km

(* The end of a turn: its context is what the socket now holds.             *)
LEMMA TurnoInv ==
  ASSUME NEW c, Cpus = {c}, ContextoInv(c), Turno(c)
  PROVE  ContextoInv(c)'
<1>1. Ejecutando(c) /\ TipoContexto /\ c \in Cpus
  BY DEF Turno, FinDeTurno, Salir, DevolverContexto, ContextoInv, Canal, Pidiendo, Esperando
<1>2. PICK p \in Procesos : p = ejecuta[c]
  BY <1>1 DEF Ejecutando
<1>3. /\ a_km[c] = <<>> /\ pedidos_ks = <<>> /\ paso_cpu[c] = "ejecutar"
      /\ ctx[c] = turnos[p] /\ turnos[p] \in Nat /\ ~ proceso_actulizado[p]
  BY <1>1, <1>2 DEF Ejecutando, TipoContexto
<1>4. /\ paso_cpu' = [paso_cpu EXCEPT ![c] = "esperar"]
      /\ turnos' = [turnos EXCEPT ![p] = @ + 1]
      /\ a_km' = [a_km EXCEPT
                   ![c] = Append(@, Mensaje("ACTUALIZAR_CONTEXTO", p, turnos[p] + 1))]
      /\ UNCHANGED <<procesos_km, ctx>>
  BY <1>2, <1>3 DEF Turno, FinDeTurno, Salir, DevolverContexto
<1>5. turnos'[p] = turnos[p] + 1 /\ \A q \in Procesos \ {p} : turnos'[q] = turnos[q]
  BY <1>1, <1>4 DEF TipoContexto
<1>6. a_km' = [a_km EXCEPT ![c] = <<Actualizacion(p)'>>]
  BY <1>3, <1>4, <1>5, Tuplas DEF Actualizacion
<1>7. \/ /\ ejecuta' = [ejecuta EXCEPT ![c] = NADIE] /\ pedidos_ks' = <<>>
         /\ situacion' = [situacion EXCEPT ![p] = "listo"]
      \/ /\ ejecuta' = ejecuta /\ pedidos_ks' = <<Final(p)>>
         /\ situacion' = [situacion EXCEPT ![p] = "saliendo"]
  <2>1. CASE FinDeTurno(c)
    BY <1>2, <1>3, <2>1 DEF FinDeTurno
  <2>2. CASE Salir(c)
    BY <1>2, <1>3, <2>2, Tuplas DEF Salir, Final
  <2> QED
    BY <2>1, <2>2 DEF Turno
<1>8. TipoContexto'
  <2>1. Mensaje("ACTUALIZAR_CONTEXTO", p, turnos[p] + 1) \in MensajesCpu
    BY <1>3 DEF Mensaje, MensajesCpu
  <2>2. a_km' \in [Cpus -> Seq(MensajesCpu)]
    BY <1>1, <1>4, <2>1 DEF TipoContexto
  <2>3. pedidos_ks' \in Seq([op : {"FINALIZAR_PROCESO"}, pid : Procesos])
    <3>1. Final(p) \in [op : {"FINALIZAR_PROCESO"}, pid : Procesos]
      BY DEF Final
    <3>2. <<>> \in Seq([op : {"FINALIZAR_PROCESO"}, pid : Procesos])
      OBVIOUS
    <3>3. <<Final(p)>> \in Seq([op : {"FINALIZAR_PROCESO"}, pid : Procesos])
      BY <3>1
    <3> QED
      BY <1>7, <3>2, <3>3
  <2>4. turnos' \in [Procesos -> Nat]
    BY <1>1, <1>4 DEF TipoContexto
  <2>5. situacion' \in [Procesos -> Situaciones] /\ ejecuta' \in [Cpus -> Procesos \cup {NADIE}]
    BY <1>1, <1>7 DEF TipoContexto, Situaciones
  <2> QED
    BY <1>1, <1>4, <2>2, <2>3, <2>4, <2>5 DEF TipoContexto, procesos_km
<1>9. Canal(c)'
  <2>1. /\ paso_cpu'[c] = "esperar" /\ a_km'[c] = <<Actualizacion(p)'>>
        /\ \/ ejecuta'[c] = NADIE /\ pedidos_ks' = <<>>
           \/ ejecuta'[c] = p /\ pedidos_ks' = <<Final(p)>>
    BY <1>1, <1>2, <1>4, <1>6, <1>7 DEF TipoContexto
  <2> QED
    BY <2>1 DEF Canal, Esperando, Final
<1>10. ASSUME NEW q \in Procesos PROVE Ficha(c, q)'
  <2>1. ~ Pendiente(c, q)
    BY <1>3 DEF Pendiente
  <2>2. Pendiente(c, q)' <=> q = p
    <3>1. a_km'[c] = <<Actualizacion(p)'>>
      BY <1>1, <1>6 DEF TipoContexto
    <3>2. Actualizacion(p)' = Actualizacion(q)' <=> p = q
      BY DEF Actualizacion, Mensaje
    <3> QED
      BY <3>1, <3>2, Tuplas DEF Pendiente
  <2>3. Ficha(c, q) /\ Ficha(c, p)
    BY DEF ContextoInv
  <2>4. CASE q # p
    <3>1. situacion'[q] = situacion[q] /\ turnos'[q] = turnos[q] /\ ejecuta'[c] # q
      BY <1>1, <1>2, <1>5, <1>7, <2>4, NadieOK DEF TipoContexto
    <3>2. ejecuta[c] # q
      BY <1>2, <2>4
    <3> QED
      BY <1>4, <2>1, <2>2, <2>3, <2>4, <3>1, <3>2 DEF Ficha, procesos_km
  <2>5. CASE q = p
    <3>1. /\ paso_cpu'[c] = "esperar" /\ Pendiente(c, p)'
          /\ \/ situacion'[p] = "listo" /\ ejecuta'[c] # p
             \/ situacion'[p] = "saliendo" /\ ejecuta'[c] = p
      BY <1>1, <1>2, <1>4, <1>7, <2>2, <2>5, NadieOK DEF TipoContexto
    <3>2. situacion[p] = "en_cpu" /\ p \in lista_procesos
      BY <1>2, <1>3, <2>3 DEF Ficha
    <3> QED
      BY <1>3, <1>4, <2>3, <2>5, <3>1, <3>2 DEF Ficha, procesos_km
  <2> QED
    BY <2>4, <2>5
<1> QED
  BY <1>4, <1>8, <1>9, <1>10 DEF ContextoInv, procesos_km

-----------------------------------------------------------------------------
(* Kernel Memory's thread for the CPU.                                      *)

LEMMA ObtenerInv ==
  ASSUME NEW c, Cpus = {c}, ContextoInv(c), ObtenerContexto(c)
  PROVE  ContextoInv(c)'
<1>1. /\ TipoContexto /\ c \in Cpus /\ Pidiendo(c)
      /\ a_km[c] = <<Peticion(ejecuta[c])>>
  <2>1. a_km[c] # <<>> /\ Head(a_km[c]).op = "PEDIDO_CONTEXTO"
    BY DEF ObtenerContexto
  <2>2. ~ \E q, m : a_km[c] = <<Actualizacion(q), m>> \/ a_km[c] = <<Actualizacion(q)>>
    BY <2>1, Tuplas, Campos
  <2>3. ~ Ejecutando(c) /\ ~ Esperando(c)
    BY <2>1, <2>2 DEF Ejecutando, Esperando
  <2> QED
    BY <2>2, <2>3 DEF ContextoInv, Canal, Pidiendo
<1>2. PICK p \in Procesos : p = ejecuta[c]
  BY <1>1 DEF Pidiendo
<1>3. /\ a_km[c] = <<Peticion(p)>> /\ Head(a_km[c]).pid = p /\ Tail(a_km[c]) = <<>>
      /\ pedidos_ks = <<>> /\ paso_cpu[c] = "pedir_contexto"
  BY <1>1, <1>2, Tuplas, Campos DEF Pidiendo
<1>4. \A q \in Procesos : Ficha(c, q) /\ ~ Pendiente(c, q)
  BY <1>1, <1>3, Primero DEF ContextoInv
<1>5. situacion[p] = "en_cpu" /\ p \in lista_procesos /\ registros[p] = turnos[p]
  BY <1>2, <1>3, <1>4 DEF Ficha
<1>6. /\ a_km' = [a_km EXCEPT ![c] = <<>>]
      /\ paso_cpu' = [paso_cpu EXCEPT ![c] = "ejecutar"]
      /\ ctx' = [ctx EXCEPT ![c] = turnos[p]]
      /\ proceso_actulizado' = [proceso_actulizado EXCEPT ![p] = FALSE]
      /\ UNCHANGED <<lista_procesos, peticion_eliminacion, registros, viva, pedidos_ks,
                     ejecuta, situacion, turnos>>
  BY <1>3, <1>5 DEF ObtenerContexto, ks
<1>7. TipoContexto'
  <2>1. turnos[p] \in Nat /\ <<>> \in Seq(MensajesCpu)
    BY <1>1 DEF TipoContexto
  <2>2. a_km' \in [Cpus -> Seq(MensajesCpu)] /\ ctx' \in [Cpus -> Nat]
    BY <1>1, <1>6, <2>1 DEF TipoContexto
  <2> QED
    BY <1>1, <1>6, <2>2 DEF TipoContexto
<1>8. Canal(c)'
  BY <1>1, <1>2, <1>3, <1>6 DEF Canal, Ejecutando, TipoContexto
<1>9. ASSUME NEW q \in Procesos PROVE Ficha(c, q)'
  <2>1. a_km'[c] = <<>> /\ paso_cpu'[c] = "ejecutar"
    BY <1>1, <1>6 DEF TipoContexto
  <2>2. ~ Pendiente(c, q)'
    BY <2>1 DEF Pendiente
  <2>3. q # p => proceso_actulizado'[q] = proceso_actulizado[q]
    BY <1>1, <1>6 DEF TipoContexto
  <2>4. Ficha(c, q) /\ ~ Pendiente(c, q)
    BY <1>4
  <2> QED
    BY <1>2, <1>3, <1>5, <1>6, <2>1, <2>2, <2>3, <2>4 DEF Ficha
<1> QED
  BY <1>6, <1>7, <1>8, <1>9 DEF ContextoInv

LEMMA ActualizarInv ==
  ASSUME NEW c, Cpus = {c}, ContextoInv(c), ActualizarContexto(c)
  PROVE  ContextoInv(c)'
<1>1. PICK p \in Procesos :
        \/ /\ Pidiendo(c) /\ a_km[c] = <<Actualizacion(p), Peticion(ejecuta[c])>>
        \/ /\ Esperando(c) /\ a_km[c] = <<Actualizacion(p)>>
  BY DEF ActualizarContexto, ContextoInv, Canal, Ejecutando, Pidiendo, Esperando, Peticion,
         Mensaje
<1>2. /\ Head(a_km[c]) = Actualizacion(p)
      /\ Head(a_km[c]).pid = p /\ Head(a_km[c]).registros = turnos[p]
  BY <1>1 DEF Actualizacion, Mensaje
<1>3. Ficha(c, p) /\ Pendiente(c, p) /\ p \in lista_procesos
  BY <1>1, <1>2 DEF ContextoInv, Ficha, Pendiente
<1>4. /\ registros' = [registros EXCEPT ![p] = turnos[p]]
      /\ proceso_actulizado' = [proceso_actulizado EXCEPT ![p] = TRUE]
      /\ lista_procesos' =
           IF peticion_eliminacion[p] THEN lista_procesos \ {p} ELSE lista_procesos
      /\ UNCHANGED <<viva, peticion_eliminacion, pedidos_ks, cpus, ks>>
      /\ a_km' = [a_km EXCEPT ![c] = Tail(@)]
  BY <1>2, <1>3 DEF ActualizarContexto
<1>5. \/ /\ Pidiendo(c) /\ a_km'[c] = <<Peticion(ejecuta[c])>>
      \/ /\ Esperando(c) /\ a_km'[c] = <<>>
  <2>1. c \in Cpus /\ a_km'[c] = Tail(a_km[c])
    BY <1>4 DEF ContextoInv, TipoContexto
  <2>2. CASE Pidiendo(c) /\ a_km[c] = <<Actualizacion(p), Peticion(ejecuta[c])>>
    BY <2>1, <2>2, Tuplas
  <2>3. CASE Esperando(c) /\ a_km[c] = <<Actualizacion(p)>>
    BY <2>1, <2>3, Tuplas
  <2> QED
    BY <1>1, <2>2, <2>3
<1>6. TipoContexto'
  <2>1. TipoContexto /\ c \in Cpus /\ a_km[c] # <<>> /\ a_km[c] \in Seq(MensajesCpu)
    BY <1>1, Tuplas DEF ContextoInv, TipoContexto
  <2>2. Tail(a_km[c]) \in Seq(MensajesCpu) /\ turnos[p] \in Nat
    BY <2>1 DEF TipoContexto
  <2>3. a_km' \in [Cpus -> Seq(MensajesCpu)] /\ registros' \in [Procesos -> Nat]
    BY <1>4, <2>1, <2>2 DEF TipoContexto
  <2> QED
    BY <1>4, <2>1, <2>3 DEF TipoContexto, cpus, ks
<1>7. Canal(c)'
  BY <1>4, <1>5 DEF Canal, Pidiendo, Esperando, Peticion, cpus, ks
<1>8. ASSUME NEW q \in Procesos PROVE Ficha(c, q)'
  <2>1. Pendiente(c, q) <=> q = p
    BY <1>2, <1>3, MensajesDistintos DEF Pendiente, ContextoInv
  <2>2. ~ Pendiente(c, q)'
    <3>1. Actualizacion(q)' = Actualizacion(q)
      BY <1>4 DEF Actualizacion, ks
    <3>2. a_km'[c] = <<>> \/ Head(a_km'[c]) # Actualizacion(q)
      BY <1>5, MensajesDistintos, Tuplas DEF ContextoInv
    <3> QED
      BY <3>1, <3>2 DEF Pendiente
  <2>3. Ficha(c, q)
    BY DEF ContextoInv
  <2>4. q # p => /\ proceso_actulizado'[q] = proceso_actulizado[q]
                 /\ registros'[q] = registros[q]
    BY <1>4 DEF ContextoInv, TipoContexto
  <2>5. proceso_actulizado'[p] /\ registros'[p] = turnos[p]
    BY <1>4 DEF ContextoInv, TipoContexto
  <2> QED
    BY <1>3, <1>4, <2>1, <2>2, <2>3, <2>4, <2>5 DEF Ficha, cpus, ks
<1> QED
  BY <1>4, <1>6, <1>7, <1>8 DEF ContextoInv

-----------------------------------------------------------------------------
(* Kernel Memory's thread for the scheduler.                                *)

LEMMA FinalizarInv ==
  ASSUME NEW c, Cpus = {c}, ContextoInv(c), AtenderKs
  PROVE  ContextoInv(c)'
<1>1. Esperando(c) /\ pedidos_ks # <<>> /\ TipoContexto /\ c \in Cpus
  BY DEF AtenderKs, DiferirEliminacion, EliminarProceso, Pedido, ContextoInv, Canal,
         Ejecutando, Pidiendo
<1>2. PICK p \in Procesos : p = ejecuta[c] /\ p # NADIE
  BY <1>1, NadieOK DEF Esperando
<1>3. pedidos_ks = <<Final(p)>> /\ Head(pedidos_ks).pid = p /\ Tail(pedidos_ks) = <<>>
  <2>1. pedidos_ks = <<Final(p)>>
    BY <1>1, <1>2 DEF Esperando
  <2> QED
    BY <2>1, Tuplas, Campos
<1>4. situacion[p] = "saliendo" /\ p \in lista_procesos /\ paso_cpu[c] = "esperar"
  BY <1>1, <1>2 DEF ContextoInv, Ficha, Esperando
<1>5. /\ pedidos_ks' = <<>> /\ ejecuta' = [d \in Cpus |-> NADIE]
      /\ situacion' = [situacion EXCEPT ![p] = "terminado"]
      /\ UNCHANGED <<proceso_actulizado, registros, viva, a_km, paso_cpu, ctx, turnos>>
  BY <1>2, <1>3 DEF AtenderKs, DiferirEliminacion, EliminarProceso, Responder
<1>6. \/ /\ Pendiente(c, p) /\ lista_procesos' = lista_procesos
         /\ peticion_eliminacion' = [peticion_eliminacion EXCEPT ![p] = TRUE]
      \/ /\ ~ Pendiente(c, p) /\ lista_procesos' = lista_procesos \ {p}
         /\ peticion_eliminacion' = peticion_eliminacion
  <2>1. Ficha(c, p)
    BY DEF ContextoInv
  <2>2. Pendiente(c, p) <=> ~ proceso_actulizado[p]
    BY <1>4, <2>1 DEF Ficha
  <2> QED
    BY <1>3, <1>4, <2>2 DEF AtenderKs, DiferirEliminacion, EliminarProceso
<1>7. TipoContexto'
  <2>1. ejecuta' \in [Cpus -> Procesos \cup {NADIE}]
    BY <1>5
  <2>2. situacion' \in [Procesos -> Situaciones]
    BY <1>1, <1>5 DEF TipoContexto, Situaciones
  <2>3. peticion_eliminacion' \in [Procesos -> BOOLEAN] /\ lista_procesos' \subseteq Procesos
    BY <1>1, <1>6 DEF TipoContexto
  <2>4. pedidos_ks' \in Seq([op : {"FINALIZAR_PROCESO"}, pid : Procesos])
    BY <1>5
  <2> QED
    BY <1>1, <1>5, <2>1, <2>2, <2>3, <2>4 DEF TipoContexto
<1>8. Canal(c)'
  BY <1>1, <1>5 DEF Canal, Esperando, Actualizacion
<1>9. ASSUME NEW q \in Procesos PROVE Ficha(c, q)'
  <2>1. Pendiente(c, q)' <=> Pendiente(c, q)
    BY <1>5 DEF Pendiente, Actualizacion
  <2>2. Ficha(c, q) /\ ejecuta'[c] # q
    BY <1>1, <1>5, NadieOK DEF ContextoInv
  <2>3. CASE q # p
    <3>1. /\ situacion'[q] = situacion[q] /\ ejecuta[c] # q
          /\ peticion_eliminacion'[q] = peticion_eliminacion[q]
          /\ q \in lista_procesos' <=> q \in lista_procesos
      BY <1>1, <1>2, <1>5, <1>6, <2>3 DEF TipoContexto
    <3> QED
      BY <1>5, <2>1, <2>2, <3>1 DEF Ficha
  <2>4. CASE q = p
    <3>1. /\ situacion'[q] = "terminado"
          /\ Pendiente(c, q) => peticion_eliminacion'[q] /\ q \in lista_procesos'
          /\ ~ Pendiente(c, q) => q \notin lista_procesos'
      BY <1>1, <1>4, <1>5, <1>6, <2>4 DEF TipoContexto
    <3> QED
      BY <1>5, <2>1, <2>2, <3>1 DEF Ficha
  <2> QED
    BY <2>3, <2>4
<1> QED
  BY <1>5, <1>7, <1>8, <1>9 DEF ContextoInv

-----------------------------------------------------------------------------
LEMMA PasoContexto ==
  ASSUME NEW c, Cpus = {c}, ContextoInv(c), [Next]_varsC
  PROVE  ContextoInv(c)'
<1>1. CASE Next
  BY <1>1, CargarInv, DespacharInv, TurnoInv, ObtenerInv, ActualizarInv, FinalizarInv
  DEF Next, AtenderCpu
<1>2. CASE UNCHANGED varsC
  <2>1. TipoContexto' /\ Canal(c)' /\ viva'
    BY <1>2 DEF varsC, procesos_km, canales, cpus, ks, ContextoInv, TipoContexto, Canal,
                Ejecutando, Pidiendo, Esperando, Actualizacion
  <2>2. \A p \in Procesos : Ficha(c, p)'
    BY <1>2 DEF varsC, procesos_km, canales, cpus, ks, ContextoInv, Ficha, Pendiente,
                Actualizacion
  <2> QED
    BY <2>1, <2>2 DEF ContextoInv
<1> QED
  BY <1>1, <1>2

(* ContextoInvariante: with one CPU, in every reachable state, the sockets  *)
(* and what Kernel Memory keeps of every process agree with its last turn.  *)
THEOREM ContextoInvariante ==
  ASSUME NEW CONSTANT c, Cpus = {c}
  PROVE  Spec => []ContextoInv(c)
<1>1. Init => ContextoInv(c)
  BY InitContexto
<1>2. ContextoInv(c) /\ [Next]_varsC => ContextoInv(c)'
  BY PasoContexto
<1> QED
  BY <1>1, <1>2, PTL DEF Spec

(* ContextosAlDia: with one CPU no turn is lost and none is run twice.      *)
THEOREM ContextosAlDia ==
  ASSUME NEW CONSTANT c, Cpus = {c}
  PROVE  Spec => []ContextoAlDia
<1>1. ContextoInv(c) => ContextoAlDia
  BY DEF ContextoInv, Canal, Ejecutando, Pidiendo, Esperando, ContextoAlDia
<1>2. Spec => []ContextoInv(c)
  BY ContextoInvariante
<1> QED
  BY <1>1, <1>2, PTL

(* KmNuncaSale: with one CPU a removal never overtakes a context, and       *)
(* actualizar_contexto never ends Kernel Memory.                            *)
THEOREM KmNuncaSale ==
  ASSUME NEW CONSTANT c, Cpus = {c}
  PROVE  Spec => []KmSigueViva
<1>1. ContextoInv(c) => KmSigueViva
  BY DEF ContextoInv, KmSigueViva
<1>2. Spec => []ContextoInv(c)
  BY ContextoInvariante
<1> QED
  BY <1>1, <1>2, PTL

(* TiposDelContexto: the type invariant, with one CPU.                      *)
THEOREM TiposDelContexto ==
  ASSUME NEW CONSTANT c, Cpus = {c}
  PROVE  Spec => []TipoContexto
<1>1. ContextoInv(c) => TipoContexto
  BY DEF ContextoInv
<1>2. Spec => []ContextoInv(c)
  BY ContextoInvariante
<1> QED
  BY <1>1, <1>2, PTL

=============================================================================

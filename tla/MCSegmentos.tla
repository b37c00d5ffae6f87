----------------------------- MODULE MCSegmentos -----------------------------
(* Instances of Segmentos for TLC.                                          *)
EXTENDS Segmentos, TLC

UnStick == <<Tramo(0, 2)>>
OtroStick == <<2>>

Simetria == Permutations(Procesos)
=============================================================================

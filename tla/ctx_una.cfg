SPECIFICATION FairSpec
CONSTANTS
  Procesos = {p1, p2, p3}
  Cpus = {c1}
  MaxTurnos = 2
  NADIE = NADIE
CHECK_DEADLOCK FALSE
INVARIANTS
  TipoContexto
  
  KmSigueViva
PROPERTY
  SeElimina

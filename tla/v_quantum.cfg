SPECIFICATION FairSpecI
CONSTANTS
  MaxPid = 1
  Cpus = {c1}
  Niveles = 2
  Desalojo = FALSE
  Presupuesto <- Uno
  Creadores = {0}
  ConSuspension = FALSE
  IoAlInicio = TRUE
  Rechaza = FALSE
  NADIE = NADIE
  Algoritmos = {"RR"}
  AceptaAntes = TRUE
CHECK_DEADLOCK FALSE
PROPERTY FinDeQuantum

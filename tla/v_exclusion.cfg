SPECIFICATION SpecM
CONSTANTS
  MaxPid = 2
  Cpus = {c1, c2}
  Niveles = 2
  Desalojo = TRUE
  Presupuesto <- NoUsado
  Creadores = {0}
  ConSuspension = FALSE
  IoAlInicio = TRUE
  Rechaza = FALSE
  NADIE = NADIE
  M1 = M1
  Mutexes = {M1}
  Guion <- PhpSale
CHECK_DEADLOCK FALSE
INVARIANT ExclusionMutua

SPECIFICATION Spec
CONSTANTS
  MaxPid = 1
  Cpus = {c1, c2}
  Niveles = 1
  Desalojo = FALSE
  Presupuesto <- Dos
  Creadores = {0}
  ConSuspension = TRUE
  IoAlInicio = TRUE
  Rechaza = TRUE
  NADIE = NADIE
CHECK_DEADLOCK FALSE
SYMMETRY Simetria
INVARIANT UnSoloLugar
PROPERTY CicloDeVida

SPECIFICATION SpecK
CONSTANTS
  MaxPid = 1
  Cpus = {c1}
  Niveles = 1
  Desalojo = FALSE
  Presupuesto <- DosUno
  Creadores = {0}
  ConSuspension = TRUE
  IoAlInicio = TRUE
  Rechaza = FALSE
  NADIE = NADIE
  Llamadas = {"S_STDIN", "S_STDOUT"}
  MaxCompactaciones = 0
  MaxSticks = 0
CHECK_DEADLOCK FALSE
INVARIANT EsperaSuDispositivo
PROPERTY CicloDeVidaK

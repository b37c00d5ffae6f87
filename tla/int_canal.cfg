SPECIFICATION FairSpecI
CONSTANTS
  MaxPid = 2
  Cpus = {c1}
  Niveles = 2
  Desalojo = FALSE
  Presupuesto <- TresCero
  Creadores = {0}
  ConSuspension = FALSE
  IoAlInicio = TRUE
  Rechaza = FALSE
  NADIE = NADIE
  Algoritmos = {"CMN", "RR"}
  AceptaAntes = TRUE
CHECK_DEADLOCK FALSE
INVARIANT TipoInterrupciones
PROPERTIES
  NoSePierde
  NoCedeElMejor
  Desaloja

SPECIFICATION SpecK
CONSTANTS
  MaxPid = 1
  Cpus = {c1, c2}
  Niveles = 1
  Desalojo = FALSE
  Presupuesto <- DosUno
  Creadores = {0}
  ConSuspension = FALSE
  IoAlInicio = TRUE
  Rechaza = FALSE
  NADIE = NADIE
  Llamadas = {"S_STDIN", "S_STDIN_0", "S_STDOUT", "S_MEM_ALLOC", "S_MEM_FREE"}
  MaxCompactaciones = 1
  MaxSticks = 1
CHECK_DEADLOCK FALSE
SYMMETRY Simetria
INVARIANTS
  TipoMemoria
  UnSoloLugarK
  PermisosCpuK
  PermisosReadyK

SPECIFICATION Spec
CONSTANTS
  MaxPid = 2
  Cpus = {c1, c2}
  Niveles = 2
  Desalojo = TRUE
  Presupuesto <- DosUno
  Creadores = {0}
  ConSuspension = FALSE
  IoAlInicio = FALSE
  Rechaza = FALSE
  NADIE = NADIE
CHECK_DEADLOCK FALSE
SYMMETRY Simetria
INVARIANTS
  TypeOK
  UnSoloLugar
  CpuDelHilo
  PermisosCpu
  PermisosReady
  MotivoDelQueEjecuta
  UnaCpuPorProceso
PROPERTY
  CicloDeVida

SPECIFICATION FairSpec
CONSTANTS
  BYTE = 4
  PALABRA = 2
  W = 16
  TAM_MAX = 4
  Cpus = {1, 2}
  Procesos = {1, 2}
  Programas <- MCProgramas
  Tabla <- MCTabla
  Sticks <- MCSticks
  Conoce <- MCConoce
  NADIE = NADIE
CHECK_DEADLOCK FALSE
INVARIANTS
  TipoAcceso
  AccesoPropio
  

  
  

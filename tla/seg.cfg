SPECIFICATION Spec
CONSTANTS
  Procesos = {p1, p2}
  Ids = {1, 2}
  Tamanos = {1, 3}
  Instalados <- UnStick
  Nuevos <- OtroStick
  TAMANO_MAXIMO = 3
  ESTRATEGIA = "BEST"
  MaxEntrada = 1
  MaxCompactaciones = 1
  NADA = NADA
SYMMETRY Simetria
CHECK_DEADLOCK FALSE
INVARIANTS
  TipoSegmentos
  
  SinSolape
  
  
PROPERTY
  CompactaBien

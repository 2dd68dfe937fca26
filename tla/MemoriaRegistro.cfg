SPECIFICATION Spec
CONSTANTS
  f1 = f1
  f2 = f2
  f3 = f3
  x = x
  y = y
  Nada = Nada
  FileTags = {f1}
  Bytes = {x}
  PAGE_SIZE = 2
  FRAMES = 2
  ALGORITMO = "CLOCK-M"
  RETARDO = 0
  Ajenos = FALSE
  NPAG = 3
  MaxReloj = 0
CHECK_DEADLOCK FALSE
PROPERTIES  VictimaJusta
INVARIANTS TypeOK

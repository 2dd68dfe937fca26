SPECIFICATION Spec
CONSTANTS
  f1 = f1
  f2 = f2
  f3 = f3
  x = x
  y = y
  Nada = Nada
  FileTags = {f1, f2, f3}
  Bytes = {x, y}
  PAGE_SIZE = 1
  FRAMES = 2
  ALGORITMO = "LRU"
  RETARDO = 1
  Ajenos = TRUE
  NPAG = 1
  MaxReloj = 4
CHECK_DEADLOCK FALSE
SYMMETRY Simetria
PROPERTIES VolcadoCompleto VictimaJusta
INVARIANTS NadaSePierde TablaCoherente

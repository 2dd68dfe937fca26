SPECIFICATION Spec
CONSTANTS
  f1 = f1
  f2 = f2
  f3 = f3
  x = x
  y = y
  Nada = Nada
  FileTags = {f1}
  Bytes = {x}
  PAGE_SIZE = 1
  FRAMES = 1
  ALGORITMO = "LRU"
  RETARDO = 0
  Ajenos = FALSE
  NPAG = 2
  MaxReloj = 0
CHECK_DEADLOCK FALSE
INVARIANT SinPaginasFueraDeRango

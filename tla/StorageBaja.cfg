SPECIFICATION SpecStorage
CONSTANTS
  Workers = {w1, w2}
  Nadie = Nadie
PROPERTIES
  SeRemueveDeLaLista
CHECK_DEADLOCK FALSE

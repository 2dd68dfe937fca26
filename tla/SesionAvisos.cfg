SPECIFICATION Spec
CONSTANTS
  Workers = {11, 12}
  Nadie = Nadie
  Queries = {0, 1}
  Guiones <- GuionesAvisos
  Algoritmo = "PRIORIDADES"
  Prioridad <- PrioridadesSesion
  LecturasFallan = TRUE
  Mortales = {11}
PROPERTIES
  TodasAvisadas
  HandshakeContestado
CHECK_DEADLOCK FALSE

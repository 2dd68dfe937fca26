SPECIFICATION Spec
CONSTANTS
  Workers = {11, 12}
  Nadie = Nadie
  Queries = {0, 1}
  Guiones <- GuionesSesion
  Algoritmo = "PRIORIDADES"
  Prioridad <- PrioridadesSesion
  LecturasFallan = TRUE
  Mortales = {11}
INVARIANTS
  TypeOK
  MismaQuery
  OrdenViejaNoAlcanza
  RestosConocidos
PROPERTIES
  ImplementaServicio
CHECK_DEADLOCK FALSE

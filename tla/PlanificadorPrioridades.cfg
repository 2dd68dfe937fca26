SPECIFICATION Spec
CONSTANTS
  q1 = q1
  q2 = q2
  q3 = q3
  w1 = w1
  w2 = w2
  Nada = Nada
  Queries = {q1, q2, q3}
  Workers = {w1}
  Algoritmo = "PRIORIDADES"
  ConAging = TRUE
  PrioridadInicial <- PrioridadesMixtas
  WorkersDesalojan = TRUE
  MaxPc = 1
  MaxCaidas = 0
CHECK_DEADLOCK FALSE
INVARIANTS ColaOrdenada
PROPERTIES AgingSinInanicion

SPECIFICATION Spec
CONSTANTS
  q1 = q1
  q2 = q2
  q3 = q3
  w1 = w1
  w2 = w2
  Nada = Nada
  Queries = {q1, q2}
  Workers = {w1, w2}
  Algoritmo = "PRIORIDADES"
  ConAging = TRUE
  PrioridadInicial <- PrioridadesMixtas
  WorkersDesalojan = TRUE
  MaxPc = 1
  MaxCaidas = 1
CHECK_DEADLOCK FALSE
SYMMETRY Simetria
INVARIANTS TypeOK TokensDeQueries ColaNuncaVacia NingunLibreOlvidado UnSoloLugar AsignacionCoherente SiempreHayWorker TokensDeWorkers

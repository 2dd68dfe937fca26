SPECIFICATION SpecJusta
CONSTANTS
  q1 = q1
  q2 = q2
  q3 = q3
  w1 = w1
  w2 = w2
  Nada = Nada
  Queries = {q1, q2}
  Workers = {w1, w2}
  Algoritmo = "FIFO"
  ConAging = FALSE
  PrioridadInicial <- PrioridadesIguales
  WorkersDesalojan = FALSE
  MaxPc = 0
  MaxCaidas = 0
CHECK_DEADLOCK FALSE
PROPERTIES ImplementaFIFO TodaQueryTermina

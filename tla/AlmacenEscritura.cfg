SPECIFICATION Spec
CONSTANTS
  h1 = h1
  h2 = h2
  alfa = alfa
  beta = beta
  x = x
  ceros = ceros
  nulos = nulos
  Nada = Nada
  BASE = BASE
  Hilos = {h1}
  FileTags = {BASE, alfa}
  Escrituras = {x}
  Inicial = ceros
  Vacio = nulos
  Discos = {2}
  BITS = 2
  TagRepetido = FALSE
  Reinicios = FALSE
  MaxBloques = 2
  MaxTags = 2
CHECK_DEADLOCK FALSE
SYMMETRY Simetria
VIEW Vista
PROPERTIES EscribeBloqueLogico

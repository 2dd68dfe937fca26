SPECIFICATION Spec
CONSTANTS
  h1 = h1
  h2 = h2
  alfa = alfa
  beta = beta
  x = x
  ceros = ceros
  nulos = nulos
  Nada = Nada
  BASE = BASE
  Hilos = {h1}
  FileTags = {BASE, alfa}
  Escrituras = {ceros}
  Inicial = ceros
  Vacio = nulos
  Discos = {2}
  BITS = 2
  TagRepetido = FALSE
  Reinicios = TRUE
  MaxBloques = 2
  MaxTags = 2
CHECK_DEADLOCK FALSE
VIEW Vista
INVARIANTS TypeOK ListaEsCarpeta RegistranBloque0
PROPERTIES ImplementaCatalogo

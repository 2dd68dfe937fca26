# MasterOfFiles: a verification project

TLA+ models of MasterOfFiles (`src/MasterOfFiles.main`), the configurations that
check them with TLC and the theorems about them that TLAPS checks. Paths below are
relative to `src/MasterOfFiles.main`.

## 1. The system

Four programs that talk over TCP, and a shared library.

| component | source | state it keeps | operations | talks to |
|---|---|---|---|---|
| Master: scheduling | `master/src/master_planificacion.c` | READY queue `colaReadyFIFO`, `listaWorkersConectados`, `semQueriesPendientes`, `semWorkersDisponibles` | `planificador_fifo`, `agregar_query_ready_fifo`, `registrar_worker_libre`, `obtener_worker_libre`, `aging_ready`, `verificar_desalojo`, `manejar_desconexion_worker` | Workers (sends queries) |
| Master: clients | `master/src/master.c` | one thread per connection, `queries_activas` | handshakes, `OP_QUERY_DESALOJADA`, `OP_RESP_READ_OK`, `OP_FIN_QUERY`, end of connection, SIGINT | both kinds of client |
| Master: queries | `master/src/master_query.c` | each `t_query` (state, priority, pc, Worker, socket), the qid counter | `crear_query`, `enviar_fin_query`, `manejar_desconexion_qc` | Query Control |
| Query Control | `query_control/src/query_control.c` | nothing | send one path, print answers | Master |
| Worker: main loop | `worker/src/worker.c` | `pc_actual`, `desalojado`, `query_cancelada`, paths known | read the Master, run or resume a query | Master, Storage |
| Worker: instructions | `worker/src/instrucciones.c` | none | CREATE, TRUNCATE, WRITE, READ, TAG, COMMIT, FLUSH, DELETE, END; implicit flush; preemption | Storage, memory |
| Worker: memory | `worker/src/memoria_Interna.c` | frames (page, dirty, U, M, last use), clock hand | `traer_pagina`, `acceder_memoria`, `flush_*`, LRU, CLOCK-M | Storage |
| Storage: connections | `storage/src/storage_conexiones.c` | list `workers` under `mutex_workers` | handshake, disconnection, dispatch; one thread per Worker | Workers |
| Storage: requests | `storage/src/atencion_worker.c` | none | decode, check, call, answer | Workers |
| Storage: operations | `storage/src/operaciones_storage.c` | files, tags, logical blocks, physical blocks and their counters, hash index; the same on disk | create, truncate, tag, commit, write, read, delete | disk |
| Storage: bitmap | `storage/src/storage_archivos.c` | bitmap under `mutex_bitmap` | find a free block, mark, clear | disk |
| Storage: start | `storage/src/f_fresh_stat.c`, `storage/src/storage.c` | all of the above | format, load from disk | disk |
| utils | `utils/src/utils/hello.c`, `protocolo.h` | none | packages, messages, sockets | all |

Configuration files, Makefiles and query scripts hold no logic; what they set is a
CONSTANT of a module.

### What is hard

* **Concurrency.** The Master has a planner thread, an aging thread and one thread per
  client. Two mutexes protect two lists, and the fields of a query or a Worker are
  also written with no mutex at all. Storage has one thread per Worker over shared
  lists, most of them read outside their mutex.
* **Counting.** Two semaphores mirror the length of the queue and the number of free
  Workers; they are posted outside the critical section that changes the list.
* **Failure.** A Worker may die while it is being assigned a query, before or after
  the send, with its thread cleaning up concurrently. A write to Storage can fail half
  way. Storage persists its state and is restarted from disk.
* **Ordering.** Priorities, aging, re-insertion at the head and preemption act on one
  queue. An answer must not overtake the assignment it answers.

### What makes each component correct

* Master: no query lost or in two places; each ended once; no free Worker forgotten;
  queue order kept; every query ends.
* Worker memory: a read returns the last write; a modified page reaches Storage
  before its frame is reused.
* Storage: a block in use is not handed out; a block nobody uses is free; a read
  returns the last write; a committed tag does not change; a restart finds what was
  there.

The list of hazards, each at its line and with the properties that watch it, is
`hazards` in `PROJECT.json`.

## 2. Plan

1. `Planificador` with `DespachoFIFO` (the abstract dispatcher), `MCPlanificador`,
   `PlanificadorProofs`, `PlanificadorSanoProofs`, `PlanificadorOrdenProofs`: the
   scheduler. **Done.**
2. `Memoria` with `MemoriaPlana` (the abstract memory), `MCMemoria`,
   `MemoriaProofs`: a Worker's frames, both replacement algorithms, flush, TRUNCATE;
   the refinement to "a read returns the last write". **Done.**
3. `Almacen` with `Catalogo` (the abstract catalogue), `MCAlmacen`, `AlmacenProofs`:
   Storage's operations on files, tags, links, bitmap, hash index and metadata, their
   answers, its stop and its restart from disk. **Done** with one thread; next,
   CREATE, TAG and DELETE cut at each disk write.
4. `StorageConexiones` with `StorageConexionesProofs`: `mutex_workers` and the threads
   that share it. **Done.**
5. `Sesion` with `Servicio` (what a client is promised), `MCSesion`, `SesionProofs`:
   Query Control, the Master's handlers, the Worker's loop and
   `verificar_desalojo` over the streams between them, composed with
   `StorageConexiones`. **Done**; next, the composition of `Memoria` with `Almacen`.

Every invariant of the passing runs is proved, and so are the victim of `Memoria`, the
refinements of `MemoriaPlana`, `Catalogo` and `Servicio` and the steps of that of
`DespachoFIFO`. Liveness is left to TLC. The theorems of
`Sesion` have hypotheses on the scripts and the number of queries, those of `Almacen` on
the threads, which sections 5 and 6 give and explain.

## 3. The scheduler: `Planificador`

### State and steps

A section under one mutex is one step; an access with no mutex and each semaphore
operation is a step of its own. Each thread has a program counter.

| variable | in the code |
|---|---|
| `cola`, `semQueries`, `semWorkers` | `colaReadyFIFO`, the two semaphores |
| `estado`, `workerAsignado`, `prioridad`, `qid`, `pc` | the fields of each `t_query`; `nextQid` is the counter of `generar_qid` |
| `conectados`, `libre`, `ejecutando` | `listaWorkersConectados` and the fields of each `t_worker` |
| `plan`, `qPlan`, `wPlan` | where the planner is and its local pointers |
| `hiloQ`, `hiloW`, `local` | where each client thread is and the query its handler holds |
| `vivo`, `canal` | each Worker process and what was sent to it and not answered |
| `fines`, `caidas` | history: calls of `enviar_fin_query` per query, Workers that died |

A Query Control thread goes `fuera → creada → encolada → atendida → cerrada`; a Worker
thread `fuera → alta → loop`, from there through the handlers `fin_*`
(`OP_FIN_QUERY`) or `des_*` (`OP_QUERY_DESALOJADA`) back to `loop`, or to `caida` and
`fuera` when the process dies. The planner goes through one `PasosPlan` per statement
of the loop of `planificador_fifo` that another thread can see.

What is abstracted: the path and the text of a query; the order of
`listaWorkersConectados` (any free Worker may be taken); the package built for a send
(`crear_paquete` does not return NULL without exhausting memory, so that branch is
left out); logging. A `t_worker` address may be reused by a later connection, as
malloc does; a `t_query` is not, so what the planner does with a freed query is seen as
acting on that query. SIGPIPE, raised by a second write to a reset socket, ends the
process and with it the behaviour.

Environment: a Query Control may leave once its query was accepted; a Worker may
connect, answer what it was sent, or die at any moment (at most `MaxCaidas` times).
`WorkersDesalojan` says whether Workers answer `OP_QUERY_DESALOJADA`: which query they
are asked to give back is decided in `verificar_desalojo` (section 6), outside this module, so any
running query may come back.

`DespachoFIFO` is what the Master promises under FIFO with Workers that stay up: one
line, its head to an idle Worker, each query ended once. `Planificador` defines the
mapping: a query in the planner's hand is still the head of the line, and a query whose
`OP_FIN_QUERY` was accepted has ended.

### Runs

`MCPlanificador` fixes the priorities and the symmetry of Workers.

| run | instance | what it shows |
|---|---|---|
| `PlanificadorFIFO` | 2 queries, 2 Workers, no deaths, fairness | the threads and semaphores implement `DespachoFIFO`, its fairness included; every query submitted with a Worker connected is ended exactly once |
| `PlanificadorPrioridades` | 3 queries (one less urgent, two tied), 1 Worker, aging, preemption | READY stays sorted; a query aged to 0 is not overtaken by a younger one |
| `PlanificadorCaidas` | 2 queries, 2 Workers, aging, preemption, one death at any step | always: types, exact count of queries, the planner never finds READY empty, no free Worker without a token; until the death: no query lost or in two places, records of an assignment agree, `semWorkers` is exact, the planner always finds a Worker |

Bounds. Two queries and two Workers are the fewest that let the planner hold one query
while another arrives, one Worker end a query while another is assigned, and one die
while the other works. Three queries with one Worker let two compete in READY while a
third comes back preempted, and include both a tie and an inversion of priorities. One
reported pc (`MaxPc = 1`) is one preemption per query. One death may hit a Worker idle, being
assigned, running or answering, and its address may be reused by the next connection.
No run checks deadlock: a server with
nothing to do stops.

Fairness (`Justicia`). The planner and each client thread are pthreads that keep being
scheduled: weak fairness of their own steps. `RecibirFin` is weakly fair because a
Worker that lives reaches the END of its script and reports it. Nothing is assumed of
arrivals, disconnections, preemptions or deaths.

Departures of the code seen in the model and not turned into runs: a query that ended
with the death of its Worker, and was freed, is put back in READY when the planner's
send fails after it (master_planificacion.c:248), so `UnSoloLugar` is stated until a
death; section 6 says what becomes of it and what its client is told; an idle Worker that
dies leaves its token in `semWorkersDisponibles`, so the planner later goes past it with
no Worker free, puts the query back and turns without waiting; a Worker whose send
failed stays `libre = false` until its connection ends; a Query Control that leaves
never cancels its query, since `buscar_query_por_socket` looks in lists that are never
created.

### Proofs

For any finite sets of queries and Workers, any priorities, either algorithm, any
number of deaths, from `SupuestosPlanificador` alone (`PlanificadorProofs`):

* `TypeCorrect`: `[]TypeOK`. The type of `cola` is not inductive alone, since the
  planner inserts a local pointer that might be NULL. The invariant proved is
  `Tipos == TypeOK /\ Punteros`, where `Punteros` says that each program counter whose
  next step dereferences a pointer has one.
* `QueriesContadas`: `[]TokensDeQueries`. Inductive given `Tipos`; each step moves one
  unit between the semaphore, a thread that is about to post, the planner's hand and
  the length of the queue. Sorting keeps the length (`OrdenacionesTipo`).
* `ColaConQuery`: `[]ColaNuncaVacia`, from the former: at `sacar` the planner holds a
  token, so the length is at least one. The branch that handles an empty queue is dead.
* `LibresContados`: `[]NingunLibreOlvidado`, an inequality because the death of an
  idle Worker leaves its token behind. Inductive given `Tipos`.

Until the first death, which is as far as the properties go
(`PlanificadorSanoProofs`): `SaludSiempre` is the invariant, `Sano == caidas = 0 =>
Salud` with `TokensDeWorkers`. None of the parts of `Salud` is inductive alone:

* `HilosSanos`: the record of a Worker agrees with where its thread is; a record is
  cleared only on an answer that is accepted, and that needs
* `Envios`: the channel of a Worker holds the query of its record, once, and the query
  points back to it, which needs
* `Unicos`: no query is in two of READY, the planner's hand, a record and a handler's
  local; an answer accepted takes it out of the record, and that needs `Envios`;
* `PlanSano`: the planner takes no error branch, since `TokensDeWorkers` gives it a free
  Worker and no send fails; `Presentes`: a query accepted and not ended is somewhere.

From it: `WorkersContados`, `HayWorker`, `AsignacionSiempreCoherente`, `LugarUnico`
(`[]` of `TokensDeWorkers`, `SiempreHayWorker`, `AsignacionCoherente`,
`UnSoloLugar`). `PlanificadorOrdenProofs` adds the order:

* `ColaSiempreOrdenada` (`ColaOrdenada`) and `SinInanicion` (`AgingSinInanicion`):
  only the error branch puts a query at the head of READY out of turn, and `PlanSano`
  excludes it; a sort keeps the relative order of equals.
* `DespachoEnOrden`: `Spec => Despacho!Spec` under FIFO, with no death and no query
  given back (`Algoritmo = "FIFO"`, `MaxCaidas = 0`, `~WorkersDesalojan`): the
  configuration of the run `PlanificadorFIFO`, for any number of queries and Workers.
  Each step of a thread is a step of `DespachoFIFO` or a stutter. Preemption and deaths
  are excluded because `DespachoFIFO` has no such step.

Only model-checked: `TodaQueryTermina` and the fairness half of `ImplementaFIFO`, since
TLAPS proves nothing of liveness or ENABLED.

## 4. The memory of a Worker: `Memoria`

### State and steps

A Worker has one thread, so two instructions never overlap; what can happen in
between is on the other side of its socket. A step is one visit to a frame or one call
to Storage.

| variable | in the code |
|---|---|
| `marcos`, `PUNTERO_RELOJ` | the frame table and the hand of CLOCK-M |
| `reloj` | `milisegundos_actual()`, the only clock of LRU |
| `op`, `fileTag`, `dir`, `fin`, `valor` | the instruction in course, the address it has reached, where it ends, the byte it writes |
| `marco` | the frame `traer_pagina` has obtained and not yet filled |
| `salida`, `rc` | the buffer of a READ, the value the instruction returned |
| `almacen` | Storage: the block each page would be answered with |
| `pendiente`, `antes` | history: bytes written that Storage has not taken, the order of the last accesses to the frames |

`AccederTramo` is one turn of the loop of `acceder_memoria` on a page present; `Falta`
and the actions built on it are `traer_pagina`, cut where Storage answers:
`TomarMarcoLibre` or `ReemplazarVictima` obtain a frame, `LlegaPagina` fills it, and
`VictimaRechazada` and `LecturaRechazada` are the two refusals, with what each leaves
changed. `Volcar`, `FlushPagina`, `FlushRechazado` and `Avisar*` are FLUSH, COMMIT,
DELETE and the flush that precedes `OP_QUERY_DESALOJADA`.

Storage is an environment that may refuse any call. With `Ajenos = FALSE` it is
assumed that a page written is the page read afterwards and that only this Worker
writes; with `Ajenos = TRUE` nothing is assumed of it. Where Storage itself departs
from the first assumption is the business of `Almacen` (section 2). A frame whose write
was refused stays dirty, a replaced frame whose read was refused stays occupied and
without a page, as in the code. A payload shorter or longer than a page, the failure of
malloc and the log lines are left out. A byte of a WRITE is repeated over its range,
which tells chunks apart well enough: two writes of different bytes can overlap in any
way.

`MemoriaPlana` is what a query may rely on: an array of bytes per File:Tag and one
instruction in course. A WRITE stores its byte over its range and nowhere else, a READ
copies what was stored last, and each succeeds only when it went over its whole range.
Bytes change for no other reason. `Memoria` maps to each byte the frame that holds its
page, else the block in Storage, and to the instruction in course the WRITE or READ
being executed. Bytes that TRUNCATE or DELETE cut off while a frame still held them
(`Vencido`) are outside the promise, since the code keeps answering them.

### Runs

| run | instance | what it shows |
|---|---|---|
| `MemoriaRegistro` | 1 File:Tag of 3 pages of 2 bytes in 2 frames, CLOCK-M | any access, aligned or not, over any refused calls, implements `MemoriaPlana` while pages are replaced; the victim of CLOCK-M is of the best class |
| `MemoriaAjenos` | 3 File:Tags of one page in 2 frames, 2 byte values, LRU, delay of one tick, Storage changes at any time | no byte written is lost before Storage took it; a flush that succeeds leaves none; the frame table stays consistent; the victim is the frame accessed longest ago |
| `MemTruncate` | 2 pages, 1 frame | violated: pages past the end stay after a successful TRUNCATE, and, for the same reason, after a DELETE |

Bounds. `NPAG`, `PAGE_SIZE` and `FRAMES` are the fewest that let an access cross pages,
evict the page of its own previous chunk, and let the two passes of CLOCK-M go round
the hand. `MemoriaRegistro` has one byte value besides the initial one, which tells a
byte that was stored from one that was not; `MemoriaAjenos` has two. The clock only
matters to LRU, where `MaxReloj` lets every frame be accessed, aged and replaced. LRU is
checked with `RETARDO = 1`: with no delay two accesses may fall in the same millisecond
and the code takes the first frame. Nothing here is fair: every property is a safety
property, because Storage may refuse for ever. No run checks deadlock: at `MaxReloj`
the instance stops.

### Proofs (`MemoriaProofs`)

For any File:Tags, bytes, page size, number of frames and pages, either algorithm,
from `SupuestosMemoria`, and with or without `Ajenos` but where it is said:

* `MemoriaTipada`: `[]TypeOK`, by `Tipos == TypeOK /\ Curso`: an instruction in course
  has a File:Tag and its address never passes its end. The work is in the arithmetic of
  addresses (`PagCota`, `DirEnRango`, `DirSiguiente`) and in that the victim is a frame
  (`VictimaEsMarco`, over `MinimoNat`: a set of naturals has a least element).
* `TablaSiempreCoherente`: `[]TablaCoherente`, by `Tabla == TablaCoherente /\ Espera`:
  the frame that waits for its page is clean and empty, and no frame holds that page,
  so its arrival makes no duplicate.
* `EscriturasConservadas`: `[]NadaSePierde`, inductive given the two above. The common
  part of its steps is `NadaNuevo`: a step that writes no byte must leave alone every
  frame that guards one, unless Storage takes it.
* `VolcadosCompletos`: `VolcadoCompleto`, from `NadaSePierde`.

* `VictimaSiempreJusta`: `VictimaJusta`. Under CLOCK-M it follows from what the passes
  return (`VictimaCLOCKMClase`: the frame found first from the hand on is of the class
  sought, by `VueltaDelReloj`). Under LRU it needs the invariant `Recencia`: `last_used`
  orders the frames as they were accessed, but for a page that arrived in the
  millisecond of the access before it and whose own access comes next. The hypothesis
  `LRU => RETARDO = 1` is the one of the run: with no delay two accesses fall in one
  millisecond and the property is false.
* `MemoriaEsPlana`: `ImplementaPlana`, for `Ajenos = FALSE`: with another writer in
  Storage a read does not return what this Worker wrote, so the hypothesis is needed.
  The lookup of a byte is given the frame table and Storage as arguments (`ByteEn`,
  `ViejoEn`), so that one lemma serves both ends of a step. Each byte is in one frame
  (`EnUnMarco`, from `TablaCoherente`) or in none (`EnNinguno`). One lemma per step then
  says what it does to a byte: `ReemplazoSigue`, `LlegadaSigue` and `FlushSigue` leave
  it alone unless it was cut off; `EscrituraCelda` and `LecturaCelda`, over the
  arithmetic of chunks (`TramoDePagina`, `OffDistintos`), store and copy those of the
  chunk and no other; `PlanaCrecer` and `PlanaRecortar` are the ends of the flushes,
  DELETE and TRUNCATE. `SinResto`, the buffer is empty between two instructions, is the
  only further invariant.

The refinement also uses `NadaAparte`: `Nada` is not one of the records that stand for
an instruction. Every property of the passing runs of `Memoria` is proved.



## 5. Storage: `Almacen`

### State and steps

Storage has one thread per Worker. Part of its state is on disk and survives a stop,
the rest is memory and is rebuilt by a restart.

| variable | in the code |
|---|---|
| `cant_block` | `FS_SIZE / BLOCK_SIZE` |
| `bitmap` | the bits of `bitmap.bin` that are set, those past the last block included |
| `contenido` | the files of `physical_blocks`, each by what `crypto_md5` is given |
| `hash_index_config` | `blocks_hash_index.config` |
| `carpeta` | the folder of each File:Tag: its `metadata.config` and the links of its `logical_blocks` |
| `levantado` | the process runs |
| `t_tag`, `lista` | the `t_tag` objects and the list that names them; `usado` is of which object the strings are that `blocks_fisicos_usados` holds |
| `hilo` | where each thread is in a TRUNCATE that grows or in a COMMIT |
| `pendiente` | the value an operation returned to each thread, until it is sent |
| `resp` | history: the last answer sent |

Each request is taken by `Pedido`, returns through `Responder` and is answered by
`Contestar`, a step of its own: what is between the last write of an operation
(`metadata.config` at operaciones_storage.c:261 and 494, the folder at 370 and 1168) and
the `send` of atencion_worker.c. A stop there (`Caer`) loses the answer and nothing else.

A TRUNCATE that grows is cut at each block, and within it at the search of a free bit,
its mark, the link, and the return of the bit when the link fails; COMMIT at each block;
both end with `Guardar`, which saves `metadata.config`. `Caer` stops the process between
any two steps, `Levantar` is `fresh_start_false` and the synchronisation of the bitmap
that follows it, `LevantarFalla` the restart that dereferences NULL because a hash is
not in the index. What CREATE, TAG, DELETE, a shrinking TRUNCATE, WRITE and READ do is one
step each: a stop, or another thread, between two of their writes to disk is not
modelled. Nor is a TRUNCATE to a negative length, which the code lets through when it is
a multiple of `BLOCK_SIZE`.

What is abstracted: a content is one of a few values, since only equality of hashes
matters; `blogico_asociados`, which decides whether a recorded block other than 0 is
freed, and none is ever recorded (`RegistranBloque0`); for the same reason the branch of
COMMIT that moves a logical block to another physical block is in the model but never
taken; `lista_files`; errors of the operating system other than a `link()` that fails;
what is read through a pointer already freed. A string freed twice may end the process
or go unnoticed (`DobleFree`). WRITE accepts a committed File:Tag, because its check is
commented out. It carries a whole block, as a Worker's does: the page size is the block
size of the handshake.

`Catalogo` is what Storage promises: which File:Tags exist, whether each is committed
and how long it is, and how every request is answered. A request happens at once,
before it is answered, and its answer says whether it did; what happened survives a
restart. A stop loses the answers owed, so that a client without an answer does not know
whether its request happened: in the code both are possible. `Almacen` maps to it the objects in memory, a COMMIT in course counted as not done yet, and, while
the process is down, the folders on disk.

### Runs

| run | instance | what it shows |
|---|---|---|
| `AlmacenReinicios` | BASE and 1 File:Tag, 2 blocks, stops and restarts at every step, also between a request and its answer | types; `Catalogo` is implemented across restarts; the pages listed are the links of the folder; block 0 is the only one recorded |
| `AlmacenEscritura` | 1 File:Tag, 2 blocks | violated: CREATE, TRUNCATE, WRITE and READ do not return what was written |

Bounds. Two blocks are the fewest with one that is free, since block 0 is taken: one
TRUNCATE of up to 2 blocks runs the disk out half way, and the next meets the links that
exist. The blocks are a whole number of bytes of the bitmap, as in `storage.config`. Only
a restart clears the bit of a block that is linked, so the retry that finds a free block,
meets a link that exists and gives the block back comes after one.
`MaxTags` bounds the `t_tag` alive at once and
is never short: an object nobody lists or uses is reused. `VIEW` leaves `resp` and what
is in `pendiente` out of the state's identity, and keeps which threads owe an answer: no
action reads more of them than `Contestar`, which sends whatever there is, and every
step to a seen state is checked against `Catalogo` when it is taken. No fairness is assumed: every property is a safety
property. No run checks deadlock: a Storage whose restart fails stays down.

Departures of the code seen in the model and not turned into runs. Each is seen with the
constants of `AlmacenReinicios.cfg`, changed as it says, and the definition named as the
only property:

* a restart clears the bit of a block that is linked, since it counts the block recorded,
  which is block 0 (storage.c:201): CREATE, TRUNCATE to one block, COMMIT, a stop and a
  restart. The next TRUNCATE links that block to another page. `EnlazadosOcupados`: while
  Storage is up the bit of a linked block is set, as storage_archivos.c:66 and 82 say of it;
* two TRUNCATEs of one File:Tag find the same block, the link of the second fails and it
  clears the bit of the first (operaciones_storage.c:149): `EnlazadosOcupados` with
  `Hilos = {h1, h2}`, `MaxTags = 3` and `Reinicios = FALSE`;
* with two threads a COMMIT is answered OK while another of the same File:Tag is in
  course: `ImplementaCatalogo` with `Hilos = {h1, h2}` and `MaxTags = 3`;
* a restart may list the pages in another order: `PaginaEsBloque`, page n is the logical
  block n;
* a disk whose blocks are no multiple of 8 hands out bits past the end, and TRUNCATE
  answers OK with fewer blocks: `PaginaEsBloque` with `Discos = {3}`, `BITS = 2` and
  `Reinicios = FALSE`;
* TAG onto a File:Tag that exists puts a second one behind it: `ImplementaCatalogo`
  with `TagRepetido = TRUE`;
* a shrunk or deleted File:Tag frees no block.

### Proofs (`AlmacenProofs`)

With no hypothesis on the constants but `SupuestosAlmacen` and `NadaAparte` (a model
value that stands for "none" is no value of the model), so for any number of threads,
any disk, restarts, and TAG onto anything:

* `AlmacenTipado`: `[]TypeOK`. The invariant is `Tipos`: beyond types, that every block
  recorded is block 0, that the index holds block 0 or nothing, that every File:Tag
  listed has its `t_tag`, and that the `t_tag` of a thread at work is not freed under
  it. The index must be part of it: COMMIT takes from the index the block it records,
  and a restart records what the index gives.
* `SoloBloque0`: `[]RegistranBloque0`, from it. A TRUNCATE never reaches the second
  lock of `mutex_bitmap`, and COMMIT never moves a logical block.

With one thread (`UnHilo`, any two threads are the same):

* `ListaSiempreEsCarpeta`: `[]ListaEsCarpeta`, across stops and restarts, with TAG only
  onto what does not exist. The invariant `Copia`: while Storage is up, each folder
  and its `t_tag` agree on names, length and state, a COMMIT in course not counted, and
  the File:Tag a thread works on is still listed. After a stop what is on disk is all
  there is, and the restart rebuilds `Copia` from it whatever readdir's order.
* `AlmacenEsCatalogo`: `Spec => ImplementaCatalogo`, under the same hypotheses: the
  whole refinement. `Copia` gives `Espejo`, that what a client can see is what
  the `metadata.config` files say, up or down. So a step is judged by what it does to
  the disk: `Levantar` writes none of it and is a stutter, `Caer` is the `Caer` of
  `Catalogo`, each request is its `Hacer`, at the step that writes `metadata.config` or
  refuses, and `Contestar` its `Contestar`. `Deudas` adds that a thread
  owes no answer while it works. So a stop after the save finds the request done, and one
  before it finds nothing of it. With two threads a second COMMIT is answered OK while
  the first is in course and nothing of it is on disk; with `TagRepetido` a second `t_tag` hides behind the first.

The hypotheses of the last two are those of the run `AlmacenReinicios`, except that
blocks, File:Tags, lengths and contents are now any; what happens outside them is in the
list of departures above.

## 6. A session: `Sesion`, `StorageConexiones`, `Servicio`

`Planificador` looks inside the planner, with messages that always arrive whole and
mean what they say. `Sesion` is the complement: each handler is one step, a turn of the
planner is two, the assignment and the send, and what is modelled is what travels
between the four programs, word by word.

### State and steps

| variable | in the code |
|---|---|
| `guion` | the script of each query, as lines that are a READ, an END or something the Master never hears of (`OTRA`) |
| `cola`, `conectados`, `ejecutando` | READY, `listaWorkersConectados`, `worker->ejecutando` (`libre` is that it is NULL) |
| `qPlan`, `wPlan` | the query and the Worker the planner holds between the assignment and the send |
| `hiloQ`, `mejor`, `peor`, `workerPeor` | the thread of a Query Control in `verificar_desalojo`, cut where it releases a lock, and its locals |
| `qc` | each Query Control process: `espera` in its loop, `finalizada` told so, `cerrada` when it took the connection for closed |
| `fase`, `qActual`, `linea`, `desalojado`, `query_cancelada` | each Worker process, the query it runs, its next line, its flags |
| `aWorker`, `aMaster`, `aQC` | the streams, as sequences of words |
| `cortado` | the clients whose socket the Master closed |
| `reenviadas`, `avisos` | history: what was forwarded to each client, and the notices of the end |
| `mutex_workers`, `workers`, `hilo`, `enlace` | of `StorageConexiones`: the mutex, the list, each thread of `atender_worker`, what each Worker did with its connection |

A word is an `int`, and a text counts as one word. `Paquete` builds what
`enviar_paquete` sends; `EsPaquete`, `Campo` and `TrasPaquete` are what
`recibir_paquete` makes of a stream. The reader decides what a word is: the Master
leaves behind the payload of a code it does not know (`RecibirDesconocida`), and a
Worker reads one `int` of a package (`RecibirOrden`). A Worker that takes for a package
what is none is `perdido`: it waits for more or dies.

`LlegaQuery`, `MirarMejor`, `buscar_peor_query_en_ejecucion`, `PedirDesalojo` are the
thread of a Query Control; `Asignar` and then `EnviarPath` or `EnvioFallido` a turn of
the planner; `RecibirLectura`, `RecibirFin`, `RecibirDesconocida`,
`manejar_desconexion_worker` the loop of the thread of a Worker; `RecibirQuery`, `RecibirOrden`, `RecibirInesperado`, `RecibirCierre`,
`ciclo_instruccion`, `Morir` the Worker; `LeerQC` the Query Control.
`StorageConexiones` has one step for each section of `atender_worker` from one
`pthread_mutex_lock` to the next; `Sesion` extends it, since a Worker that is not
answered by Storage never reaches the Master. The last notice and a READ are forwarded
to a client while its process is there and the Master has not closed its socket
(`SocketAbierto`).

Between `Asignar` and the send anything may happen. If the Worker dies there, or its
thread cuts it, its query is cancelled, its client told and the `t_query` freed; the
planner then sends the path, which is lost, or fails and puts the query back at the head
of READY, to be run by another Worker. A send to a Worker that died and was not yet
seen to may go either way, as TCP does.

What is abstracted: semaphores and the sections of the planner (they are
`Planificador`'s); aging; what a READ returns, which is identified by its query and its
line and is never of size 0 (with no third field the Master would drop it); the texts.
Left out, because the code never sends them: `OP_QUERY_DESALOJADA` (theorem
`NadieEsDesalojada`), hence `OP_REANUDAR_QUERY`, since no query ever has a pc;
`OP_QUERY_DESCONECTADA` is read (`RecibirOrden`) and never sent. What would happen to
the scheduler if a query did come back is in `Planificador`. Assumed: a descriptor
number is not reused while a thread of the Master still holds it, memory freed is read
as it was (so a freed query keeps the `socketQuery` of -1 that `enviar_fin_query` left in
it), and a write to a socket the other end closed kills a Worker (`Morir`) or is
lost, but does not kill the Master.

`Servicio` is what a client is promised: the results of the READs of its own script,
in order and with none missing, and then one notice; or a prefix of them and one notice
that its query was cancelled. Nothing follows the notice.

### Runs

| run | instance | what it shows |
|---|---|---|
| `Sesion` | 2 queries, the second more urgent, 2 Workers, PRIORIDADES, READs that may fail, one Worker that may die at any moment (`Mortales`); scripts `READ READ END` and `OTRA`, or `READ END` and `END` | below |
| `SesionAvisos` | the same, with fairness; scripts `READ END` and `OTRA` | below |
| `SesionLecturas` | as `Sesion` | violated: a Query Control says the Master closed the connection when it did not |
| `StorageBaja` | 2 Workers | violated: a Worker that leaves Storage is never removed from the list, since its thread waits for the mutex it holds |

`Sesion` shows that the code implements `Servicio` (`ImplementaServicio`); that the
Master and a Worker agree on what runs until its END, and no query runs on two Workers
(`MismaQuery`); that an order to leave which comes late reaches no other query
(`OrdenViejaNoAlcanza`); that exactly the known words are ever misread
(`RestosConocidos`). `SesionAvisos` shows that every query whose script has an END gets
its notice, if from some moment on there is always a Worker that is listed, not lost, and
not held by a script with no END (`TodasAvisadas`); and that Storage answers each
handshake as long as no Worker left (`HandshakeContestado`).

Bounds. Two queries and two Workers are the fewest in which an order can name a query
that ended and arrive where another runs, and in which one Worker is cut or held
and the other must serve. Workers start in the order of their numbers, which are
interchangeable. Worker 11 may die at any moment, listening or running; the other only
while it starts, when it misread a package or once it was cut (`Mortales = {11}`), so that
a query given back by one death finds who runs it. The second query is the one that arrives and preempts; its order
names query 0, whose number, read as a code, is dropped, while an order that named
query 1 would be read as `OP_ENVIAR_PATH` and leave the Worker `perdido`. That needs a
third query, for the words that follow: it is in the model (`RecibirQuery`) and out of
the run; with `Queries = {0, 1, 2}`, one Worker and query 1 the least urgent TLC reaches
it, and the invariants and `ImplementaServicio` hold there too. The two scripts differ in length, so that lines,
ENDs and failures fall apart, and the second pair has an END in both. No run checks
deadlock: a system with nothing to do stops, and so does one whose Workers are held.

Fairness (`Justicia`). The threads of Storage and of the Master that serve a Worker,
the Worker process and the planner keep running: weak fairness of each one's steps.
Nothing is assumed of arrivals, of the start or the death of a Worker, nor of the Query
Controls. `TodasAvisadas` has its hypothesis because without it the code makes no such
promise.

### Departures seen in the model

* A Query Control leaves at its first READ: `OP_MENSAJE` is 0 (`SesionLecturas`).
* A READ that fails costs the Worker: the Master reads the size of the empty
  `OP_RESP_READ_ERR` as a code, 0 is the end of the connection, the query is cancelled
  and the socket of a Worker that is alive is closed (`RestosConocidos`; master.c:445).
* Preemption never happens: a Worker reads the order only between queries
  (`NadieEsDesalojada`), and then reads it wrong: it is sent as a package
  (master_planificacion.c:349) and read as an `int` (worker.c:258), so that its length
  and the qid are taken for codes; a qid of 1 is `OP_ENVIAR_PATH`.
* After the first Worker leaves, no other can start, and none is removed from the list
  (`StorageBaja`, `NadieSaleDeLaLista`).
* A query cancelled by the death of its Worker before the path was sent is put back in
  READY, freed, and run again: `FinalizadaNoVuelve`, as the only property of
  `Sesion.cfg`, is violated in nine states. Its client is told nothing more only
  because the freed memory still holds a `socketQuery` of -1.
* A script with no END leaves its Worker busy for ever.
* END does not stop the loop of `procesar_query`: the lines behind it are run while the
  Master counts the Worker as free. With the script `END READ` and one Worker TLC finds
  the result of that READ forwarded to the query the Worker was given next.

### Proofs

* `StorageConexionesProofs`, for any set of Workers: `TiposStorage`
  (`[]TypeOKStorage`); `NadieSaleDeLaLista`, no thread gets past its second lock. The
  invariant is that a held mutex is held by a thread between its two locks, so the mutex
  once held stays held.
* `SesionProofs`, for any Workers, queries, priorities and scripts:
  - `BanderasBajas` (`[]OrdenViejaNoAlcanza`), inductive as it stands because only
    `RecibirQuery` starts a query and it clears the flags, and only a Worker that
    listens raises one; `NadieEsDesalojada`, from it: every line of every script is run,
    and nothing but what the instruction sends is sent.
  - `TiposSesion` (`[]TypeOK`) and `Restos` (`[]RestosConocidos`). A type says too little:
    the qid a Worker runs is a word it took from a stream. The invariant (`InvTipos`)
    says where the packages start in each stream (`Flujo`: a set of positions, each one
    followed by one of the packages the other side sends, up to the end), and where in a
    package the reader may stand: at its start, at the length or the qid that an order
    leaves behind (`ParaWorker`), or at the size of an `OP_RESP_READ_ERR` (`ParaMaster`).
    The packages are stated by position, so that no induction over the stream is needed:
    what is read cuts the set, what is sent adds to it.
  - `UnaQueryPorWorker` (`[]MismaQuery`). It is not inductive: the Master and the Worker
    agree because of what is on the way between them. `InvMisma` adds that a stream to a
    Worker holds at most one path and one to the Master at most one `OP_FIN_QUERY`; that
    the Master has given the Worker the query of that path, or of that end, and not both
    are on the way (`Conocida`); that no query is in two places among READY, the streams,
    the planner's hand and the scripts that run (`UnSolo`, `Espera`); that nothing but the
    path about to be sent can start a query on the Worker the planner holds, if it is
    still listed (`Apartado`); and that a Worker is in its loop only if it is listed or
    was cut (`Arranque`).
  - `SirveLoPedido` (`Spec => ImplementaServicio`). `InvServicio` counts the READs: what
    the Master forwarded to a query is a prefix of what its script reads (`Entregadas`),
    the stream of the Worker that has it holds the next results in order, up to the line
    it runs, and an `OP_FIN_QUERY` only after the last (`Relato`), and behind the size of
    a failed READ nothing more is forwarded, since the connection is cut there. A query
    that waits to be given has sent nothing, or its client was told its end; a Worker
    that still has it died before its path arrived (`SinServir`, `Perdido`), and is the
    only exception to a query being given to one Worker (`Unica`). A query that runs
    again after its cancellation is one whose client was told, and nothing of it is
    forwarded (`SocketAbierto`).
    `LlegaQuery` is `Pedir`, a `RecibirLectura` is `Entregar`, a `RecibirFin` is
    `Finalizar`, `manejar_desconexion_worker` with a query is `Cancelar`, and every
    other step changes nothing of `Servicio`.

  The hypotheses of the last four are limits of the code, not of the proofs. `QidsBajos`:
  no qid reaches 301; from the 302nd query on, the qid an order leaves in the stream may
  be read as `OP_DESALOJAR_QUERY`, which takes the word behind it.
  `UnSoloEnd`, of `UnaQueryPorWorker`: a script has one END at most; the Master frees the
  Worker at the first one it reads, and the query would still run towards the second.
  `EndAlFinal`, of `SirveLoPedido`: nothing follows the END of a script (see the
  departures); a script with no END satisfies it, and so do those of the runs.
  They are hypotheses of the theorems and not assumptions of `Sesion`, whose actions do
  what the code does in either case.

Only model-checked: both liveness properties.

## Not modelled

* Configuration, Makefiles and scripts hold no logic.
* Of the Master: the list `queries_activas` (changed by several threads with no mutex,
  and read only when the Master ends, which then frees again the queries that ended),
  the SIGINT handler, and the reuse of a descriptor number between `close` in
  `enviar_fin_query` and the end of the thread that reads from it.
* Of the Worker: `OP_REANUDAR_QUERY` and the paths kept for it (never sent; a qid of 303
  left by an order could be read as that code, beyond `QidsBajos`), the parsing of a
  line, CREATE and TAG beyond what Storage does with them.
* Of Storage: a stop or another thread between two writes to disk of one CREATE, TAG,
  DELETE, WRITE or shrinking TRUNCATE; a TRUNCATE to a negative length; a missing
  superblock; a format over a disk in use; functions nothing calls (`get_idWorker` and
  what it needs).
* Creating, accepting and closing sockets; errors of the operating system.
* `Memoria` over `Almacen`, and two of them: `Memoria` is checked over a Storage that
  changes at any time and refuses any call, `Almacen` under one client that asks
  anything.

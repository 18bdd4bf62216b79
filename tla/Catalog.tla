------------------------------- MODULE Catalog -------------------------------
(***************************************************************************)
(* From the catalogue of a store to the memory of one of its scales: the   *)
(* use cases that save products and label formats and then ask for a       *)
(* synchronisation (backend/src/application/usecases,                      *)
(* product-sync-dispatcher.service.ts, formatos-impressao.controller.ts,   *)
(* sync.controller.ts), the jobs the worker runs for it                    *)
(* (worker/src/processor.ts) and the rows the Agent Local writes           *)
(* (ScaleEncoding).  The way of a package from the worker to the agent is  *)
(* the subject of SyncSystem; here it may fail anywhere: before the write, *)
(* between two rows, or with every row written.                            *)
(*                                                                         *)
(* A save and the request it makes are two steps, and so are the two reads *)
(* of a job.  The write of a package, each reading back of a format over a *)
(* connection of its own and the record of the result are steps too:       *)
(* several jobs of one scale run at once (worker/src/index.ts), and any of *)
(* them may write between two steps of another.                            *)
(***************************************************************************)
EXTENDS ScaleEncoding

CONSTANTS
    Products, Formats,
    Before,      \* the active products there are when the scale is linked
    Codigo,      \* Product.codigo as a number, or NaoNumerico
    Preco,       \* price in cents of each version of a product
    FormatOf, TableOf, SectorOf, \* links of a product, Nulo for none
    Number,      \* numero of each format, unique in the store
    Name, Layout, \* nome and elementos of a format at a version
    Table,       \* the nutritional tables, [numero, nome, ingredientes, selos]
    Asked,       \* the sets of products an incremental request may name
    FactorySlots, \* label slots with a factory model: writes are discarded
    FactoryRow,  \* what the scale shows there
    Attempts,    \* attempts of a job, 3
    MaxJobs,     \* bounds: jobs enqueued in a behaviour; saves, deletions and
    MaxEvents    \* relinkings together with requests and writes that go wrong

ASSUME CatalogAssumption ==
    /\ IsFiniteSet(Products) /\ IsFiniteSet(Formats) /\ Before \subseteq Products
    /\ FormatOf \in [Products -> Formats \cup {Nulo}]
    /\ Nulo \notin Formats
    /\ \A p \in Products : SectorOf[p] # Nulo =>
           SectorOf[p].numero \in Nat \ {Nulo} /\ ClsRow(SectorOf[p]) # Nulo
    /\ Attempts \in Nat \ {0}
    /\ Asked \subseteq SUBSET Products
    /\ MaxJobs \in Nat
    /\ MaxEvents \in Nat

VARIABLES
    product,  \* rows of Product: [exists, ativo, versao]
    format,   \* the version of each FormatoImpressao
    linked,   \* whether the scale has an Agent Local (Device.agentId)
    requests, \* products and formats saved, their jobs not yet enqueued
    jobs,     \* the jobs that have not ended, by number
    created,  \* how many jobs were enqueued
    events,   \* how many changes and accidents there were
    ended,    \* status of the last SyncJob row of each job
    memory,   \* the scale: for a block and a number, the row or Nulo
    adrift,   \* packages given up, the rest of which the scale may still be taking
    over,     \* history: what others wrote since each job's own write
    excused   \* history: what is out of date on the scale for a known reason

vars == <<product, format, linked, requests, jobs, created, events, ended, memory, adrift, over,
          excused>>

Item == Products \cup Formats

\* What a job reads of a product, and of a format sent on its own.
ProductRead == [id : Products, versao : 0..(MaxEvents + 1), fv : 0..(MaxEvents + 1)]
FormatRead  == [id : Formats, versao : 1..(MaxEvents + 1)]
Job == [tipo : {"TOTAL", "INCREMENTAL"}, ids : SUBSET Products, fids : SUBSET Formats,
        tries : 0..(Attempts - 1), phase : {"waiting", "read", "sending", "reading"},
        read : Seq(ProductRead), loose : Seq(FormatRead),
        unread : SUBSET {Number[f] : f \in Formats}, missed : BOOLEAN]

\* What a job waits with: its data and the attempts made.
NewJob(tipo, ids, fids) ==
    [tipo |-> tipo, ids |-> ids, fids |-> fids, tries |-> 0, phase |-> "waiting",
     read |-> << >>, loose |-> << >>, unread |-> {}, missed |-> FALSE]

\* The places of the scale this store can reach.
Slots == {Codigo[p] : p \in {q \in Products : Codigo[q] # NaoNumerico}} \cup 1..Cardinality(Products)
Classes == {SectorOf[p].numero : p \in {q \in Products : SectorOf[q] # Nulo}}
TableNumbers == {Table[t].numero : t \in DOMAIN Table}
Address ==
    ({"PLU"} \X Slots) \cup ({"CLS"} \X {n \in Classes : n >= ClassMin})
    \cup ({"NU3", "IR2"} \X TableNumbers) \cup ({"BMP"} \X (1..BmpMax))
    \cup ({"LAB"} \X {Number[f] : f \in Formats})

\* A product whose slot is its own: no other code has the same value and no
\* position in a package reaches it.
HasOwnSlot(p) ==
    /\ Codigo[p] # NaoNumerico
    /\ Codigo[p] \in (Cardinality(Products) + 1)..PluMax
    /\ \A q \in Products \ {p} : Codigo[q] # Codigo[p]

Tracked == {p \in Products : HasOwnSlot(p)} \cup Formats

\* A scale just linked to a store that has its formats and some products already.
Init ==
    /\ product  = [p \in Products |-> IF p \in Before THEN [exists |-> TRUE, ativo |-> TRUE, versao |-> 1]
                                     ELSE [exists |-> FALSE, ativo |-> FALSE, versao |-> 0]]
    /\ format   = [f \in Formats |-> 1]
    /\ linked   = TRUE
    /\ requests = {}
    /\ jobs     = [j \in 1..MaxJobs |-> Nulo]
    /\ created  = 0
    /\ events   = 0
    /\ ended    = [j \in 1..MaxJobs |-> "none"]
    /\ memory   = [a \in Address |->
                      IF a[1] = "LAB" /\ a[2] \in FactorySlots THEN FactoryRow ELSE Nulo]
    /\ adrift   = {}
    /\ over     = [j \in 1..MaxJobs |-> {}]
    /\ excused  = (Before \cup Formats) \cap Tracked

-----------------------------------------------------------------------------
(* Payloads and what the scale should show.                                *)

FormatPayload(f, v) == [numero |-> Number[f], nome |-> Name[f][v], elementos |-> Layout[f][v]]

\* One element of payload.products; fv is the version of the product's format
\* at the read that joined it.
ProductPayload(r) ==
    LET p == r.id IN
    [id |-> p, codigo |-> Codigo[p], preco |-> Preco[r.versao], tara |-> 0,
     setor |-> SectorOf[p], texto4 |-> EmBrancoTxt,
     formato |-> IF FormatOf[p] = Nulo THEN Nulo ELSE FormatPayload(FormatOf[p], r.fv),
     tabela |-> IF TableOf[p] = Nulo THEN Nulo ELSE Table[TableOf[p]]]

\* The number of a format is unique in its store (schema.prisma, FormatoImpressao), a
\* product is no format, and no record is the absent value.  A format in a factory slot
\* does not have the name of the model there: the agent compares no more than names.
ASSUME RowsAssumption ==
    /\ Products \cap Formats = {}
    /\ Nulo \notin Job
    /\ \A f, g \in Formats : Number[f] = Number[g] => f = g
    /\ \A f \in Formats : Number[f] # Nulo
    /\ \A f \in Formats, v \in 1..(MaxEvents + 1) :
          /\ FormatPayload(f, v) # Nulo
          /\ \A b \in 0..BmpMax \cup {Nulo} : LabRow(FormatPayload(f, v), b) # Nulo
          /\ Number[f] \in FactorySlots => Name[f][v] # FactoryRow.nome
    /\ \A r \in ProductRead, n \in Slots :
          r.versao # 0 /\ (FormatOf[r.id] # Nulo => r.fv # 0) => PluRow(ProductPayload(r), n) # Nulo

\* A layout is a list of elements whose boxes have a size; the seals of a table are
\* known labels.
ASSUME LayoutAssumption ==
    /\ \A f \in Formats, v \in 1..(MaxEvents + 1) :
          /\ Len(Layout[f][v]) \in Nat /\ DOMAIN Layout[f][v] = 1..Len(Layout[f][v])
          /\ \A i \in DOMAIN Layout[f][v] : Layout[f][v][i].caixa \in Nat \X Nat
    /\ \A p \in Products : TableOf[p] # Nulo => Table[TableOf[p]].selos \in Seq(DOMAIN Palavras)

\* The table of a product is there; the number of a table is whole, and unique in its
\* store (schema.prisma, TabelaNutricional); no row for it is the absent value.
ASSUME TablesAssumption ==
    /\ \A p \in Products : TableOf[p] # Nulo => TableOf[p] \in DOMAIN Table
    /\ \A s, t \in DOMAIN Table : Table[s].numero = Table[t].numero => s = t
    /\ \A t \in DOMAIN Table : /\ Table[t].numero \in Int
                               /\ Nulo \notin {Table[t], Nu3Row(Table[t]), Ir2Row(Table[t])}
    /\ \A r \in ProductRead, b \in 1..BmpMax :
          r.versao # 0 /\ (FormatOf[r.id] # Nulo => r.fv # 0) => BmpRow(b, ProductPayload(r)) # Nulo

RowOf(p) ==
    [id |-> p, versao |-> product[p].versao,
     fv |-> IF FormatOf[p] = Nulo THEN 0 ELSE format[FormatOf[p]]]

TextosDe == [f \in Formats |-> [v \in 1..(MaxEvents + 1) |-> Textos(Layout[f][v])]]

\* The scale shows the row, with its present price, or the present layout.
Shown(x) ==
    IF x \in Products
    THEN LET row == memory[<<"PLU", Codigo[x]>>]
         IN  row # Nulo /\ row.id = x /\ row.preco = EncodePrice(Preco[product[x].versao])
    ELSE LET row == memory[<<"LAB", Number[x]>>]
         IN  row # Nulo /\ row.nome = Name[x][format[x]] /\ row.textos = TextosDe[x][format[x]]

Stale(x) ==
    /\ x \in Products => product[x].ativo
    /\ ~Shown(x)

\* What is out of date for a reason, S being the reasons of this step.
Excuse(S) == excused' = Tracked \cap (excused \cup S) \cap {x \in Tracked : Stale(x)}'

-----------------------------------------------------------------------------
(* Saving and asking.                                                      *)

Event == events < MaxEvents /\ events' = events + 1

\* CreateProductUseCase, UpdateProductUseCase up to the saved row: an active
\* product is going to be dispatched, an inactive one is not.  The id of a deleted
\* product does not return.
SaveProduct(p, ativo) ==
    /\ Event
    /\ product[p].versao = 0 \/ product[p].exists
    /\ product' = [product EXCEPT ![p] = [exists |-> TRUE, ativo |-> ativo, versao |-> @.versao + 1]]
    /\ requests' = IF ativo THEN requests \cup {p} ELSE requests
    /\ UNCHANGED <<format, linked, jobs, created, ended, memory, adrift, over>>
    /\ Excuse({})

\* repository.delete, deleteAll: nothing is asked of the scales.
DeleteProducts(P) ==
    /\ Event
    /\ P # {}
    /\ \A p \in P : product[p].exists
    /\ product' = [p \in Products |->
                      IF p \in P THEN [exists |-> FALSE, ativo |-> FALSE, versao |-> product[p].versao]
                      ELSE product[p]]
    /\ UNCHANGED <<format, linked, requests, jobs, created, ended, memory, adrift, over>>
    /\ Excuse({})

\* FormatosImpressaoController.create, update.
SaveFormat(f) ==
    /\ Event
    /\ format' = [format EXCEPT ![f] = @ + 1]
    /\ requests' = requests \cup {f}
    /\ UNCHANGED <<product, linked, jobs, created, ended, memory, adrift, over, excused>>

AddJob(job) ==
    /\ created < MaxJobs
    /\ created' = created + 1
    /\ jobs' = [jobs EXCEPT ![created + 1] = job]

\* Mutant: the job of a format names its products only.
JobForProductsOnly(x) ==
    NewJob("INCREMENTAL", IF x \in Products THEN {x}
                          ELSE {p \in Products : product[p].ativo /\ FormatOf[p] = x}, {})

\* syncToLinkedDevices, enfileirarSync: a job for the scale if an Agent Local
\* is linked to it, nothing otherwise.  A format takes its active products.
JobFor(x) ==
    IF x \in Products THEN NewJob("INCREMENTAL", {x}, {})
    ELSE NewJob("INCREMENTAL", {p \in Products : product[p].ativo /\ FormatOf[p] = x}, {x})

Enqueue(x) ==
    /\ x \in requests
    /\ requests' = requests \ {x}
    /\ UNCHANGED <<product, format, events, linked, ended, memory, adrift, over>>
    /\ \/ linked /\ AddJob(JobFor(x)) /\ Excuse({})
       \/ ~linked /\ UNCHANGED <<jobs, created>> /\ Excuse({x})

\* The process stops, or Redis does not answer, between the save and the
\* enqueueing.
LoseRequest(x) ==
    /\ Event
    /\ x \in requests
    /\ requests' = requests \ {x}
    /\ UNCHANGED <<product, format, linked, jobs, created, ended, memory, adrift, over>>
    /\ Excuse({x})

\* POST /sync.
AskSync(tipo, ids) ==
    /\ AddJob(NewJob(tipo, ids, {}))
    /\ UNCHANGED <<product, format, events, linked, requests, ended, memory, adrift, over, excused>>

\* DevicesController.update links and unlinks the agent.
Link ==
    /\ Event
    /\ linked' = ~linked
    /\ UNCHANGED <<product, format, requests, jobs, created, ended, memory, adrift, over, excused>>

-----------------------------------------------------------------------------
(* The worker.                                                             *)

\* What a job answers for when it ends without success.
Covered(job) ==
    job.ids \cup job.fids \cup
    (IF job.tipo = "TOTAL" THEN {p \in Products : product[p].ativo} ELSE {})

\* The attempt fails: the job waits for the next one, which reads everything
\* again, or is given up.
Fail(j, S) ==
    LET job == jobs[j]
        again == job.tries + 1 < Attempts
    IN  /\ jobs' = [jobs EXCEPT ![j] =
                        IF again THEN [NewJob(job.tipo, job.ids, job.fids)
                                          EXCEPT !.tries = job.tries + 1]
                        ELSE Nulo]
        /\ Excuse(S \cup (IF again THEN {} ELSE Covered(job)))

\* Sequences that list a set once, in any order: findMany promises none.
Orders(S) ==
    {s \in [1..Cardinality(S) -> S] : \A i, k \in 1..Cardinality(S) : i # k => s[i] # s[k]}

Wanted(job) ==
    IF job.tipo = "TOTAL" THEN {p \in Products : product[p].ativo}
    ELSE {p \in job.ids : product[p].exists}

\* processSyncJob up to the products; a scale without an agent fails before.
ReadProducts(j) ==
    /\ jobs[j] # Nulo
    /\ jobs[j].phase = "waiting"
    /\ UNCHANGED <<product, format, events, linked, requests, created, ended, memory, adrift, over>>
    /\ \/ /\ linked
          /\ \E order \in Orders(Wanted(jobs[j])) :
                 jobs' = [jobs EXCEPT ![j].phase = "read",
                                      ![j].read = [i \in DOMAIN order |-> RowOf(order[i])]]
          /\ UNCHANGED excused
       \/ ~linked /\ Fail(j, {})

\* The formats sent on their own, the empty package that is refused for good,
\* and the SyncJob row, whose items refer to products that must still exist.
OpenJob(j) ==
    /\ jobs[j] # Nulo
    /\ jobs[j].phase = "read"
    /\ UNCHANGED <<product, format, events, linked, requests, created, memory, adrift, over>>
    /\ LET loose == jobs[j].fids
           empty == jobs[j].read = << >> /\ loose = {}
           gone  == \E i \in DOMAIN jobs[j].read : ~product[jobs[j].read[i].id].exists
       IN  \/ /\ empty
              /\ jobs' = [jobs EXCEPT ![j] = Nulo]
              /\ ended' = [ended EXCEPT ![j] = "error"]
              /\ Excuse({})
           \/ gone /\ UNCHANGED ended /\ Fail(j, {})
           \/ /\ ~empty /\ ~gone
              /\ \E order \in Orders(loose) :
                     jobs' = [jobs EXCEPT ![j].phase = "sending",
                                 ![j].loose = [i \in DOMAIN order |->
                                                  [id |-> order[i], versao |-> format[order[i]]]]]
              /\ UNCHANGED <<ended, excused>>

Package(job) ==
    [products |-> [i \in DOMAIN job.read |-> ProductPayload(job.read[i])],
     loose |-> [i \in DOMAIN job.loose |-> FormatPayload(job.loose[i].id, job.loose[i].versao)]]

Body(job) == BuildSyncBody(Package(job).products, Package(job).loose)

-----------------------------------------------------------------------------
(* The scale (external) and the agent's verification.                      *)

\* The memory after some rows: the last row of a number stays; a factory slot
\* keeps its model.
Written(m, rows) ==
    [a \in Address |->
        LET I == {i \in DOMAIN rows : <<rows[i].bloco, rows[i].numero>> = a}
        IN  IF I = {} \/ (a[1] = "LAB" /\ a[2] \in FactorySlots) THEN m[a]
            ELSE rows[CHOOSE i \in I : \A k \in I : k <= i]]

\* An older package that lands over a newer one leaves the scale behind.
Overtaken == {x \in Tracked : ~Stale(x) /\ Stale(x)'}

Touched(rows) == {a \in Address : \E i \in DOMAIN rows : <<rows[i].bloco, rows[i].numero>> = a}

IsReading(j) == jobs[j] # Nulo /\ jobs[j].phase = "reading"

\* What the jobs that have written see others write after them.
OverBy(rows) ==
    over' = [k \in 1..MaxJobs |-> IF IsReading(k) THEN over[k] \cup Touched(rows) ELSE {}]

\* The formats of a package as sendProductsToScale lists them to read them back.
Sent(job) ==
    LET ps == Package(job).products
    IN  [i \in DOMAIN ps |-> ps[i].formato] \o Package(job).loose

SentNumbers(job) == {NumeroDe(Sent(job)[i]) : i \in DOMAIN Sent(job)} \ {Nulo}

\* The scale takes some rows.
Take(rows) == memory' = Written(memory, rows) /\ OverBy(rows)

\* What is left of a package, with its rows, when n of them came.
Left(package, body, n) ==
    IF n = Len(body) THEN {}
    ELSE {[read |-> package.read, loose |-> package.loose, body |-> body, came |-> n]}

\* escreverNaBalanca, the scale's answer received: every row was taken.
Write(j) ==
    /\ jobs[j] # Nulo
    /\ jobs[j].phase = "sending"
    /\ Take(Body(jobs[j]))
    /\ jobs' = [jobs EXCEPT ![j].phase = "reading", ![j].unread = SentNumbers(jobs[j])]
    /\ UNCHANGED <<product, format, events, linked, requests, created, ended, adrift>>
    /\ Excuse(Overtaken)

\* The command or the acknowledgement is lost, or is late: what rows have come so far
\* stay, and the scale may be taking the others when the attempt is over.
LoseWrite(j) ==
    /\ Event
    /\ jobs[j] # Nulo
    /\ jobs[j].phase = "sending"
    /\ LET body == Body(jobs[j]) IN
       \E n \in 0..Len(body) :
          Take(SubSeq(body, 1, n)) /\ adrift' = adrift \cup Left(jobs[j], body, n)
    /\ ended' = [ended EXCEPT ![j] = "error"]
    /\ UNCHANGED <<product, format, linked, requests, created>>
    /\ Fail(j, Overtaken)

\* More rows of an attempt given up arrive after all; others may still follow.
LandsLate(rest) ==
    /\ rest \in adrift
    /\ \E m \in (rest.came + 1)..Len(rest.body) :
          /\ Take(SubSeq(rest.body, rest.came + 1, m))
          /\ adrift' = (adrift \ {rest}) \cup Left(rest, rest.body, m)
    /\ UNCHANGED <<product, format, events, linked, requests, jobs, created, ended>>
    /\ Excuse(Overtaken)

\* Mutant: the acknowledgement is believed.
AckBelieved(slot, formato) == FALSE

\* No more than names are compared.
Diverges(slot, formato) == slot = Nulo \/ slot.nome # formato.nome

\* One turn of verificarFormatosGravados: the slots are read in the order of a Map, and
\* of two formats with one number the last counts.
ReadBack(j) ==
    /\ IsReading(j)
    /\ LET sent == Sent(jobs[j]) IN
       \E i \in DOMAIN sent :
          /\ NumeroDe(sent[i]) \in jobs[j].unread
          /\ \A k \in 1..(i - 1) : NumeroDe(sent[k]) \notin jobs[j].unread
          /\ LET n == sent[i].numero IN
             jobs' = [jobs EXCEPT
                 ![j].unread = @ \ {n},
                 ![j].missed = @ \/ Diverges(memory[<<"LAB", n>>], sent[UltimoUso(sent, NumeroDe, n)])]
    /\ UNCHANGED <<product, format, events, linked, requests, created, ended, memory, adrift, over,
                   excused>>

\* A slot cannot be read, or the result does not reach the worker in time.
LoseResult(j) ==
    /\ Event
    /\ IsReading(j)
    /\ ended' = [ended EXCEPT ![j] = "error"]
    /\ UNCHANGED <<product, format, linked, requests, created, memory, adrift, over>>
    /\ Fail(j, {})

\* The transaction of the result: every slot was read back.
EndJob(j) ==
    /\ IsReading(j)
    /\ jobs[j].unread = {}
    /\ UNCHANGED <<product, format, events, linked, requests, created, memory, adrift, over>>
    /\ \/ /\ ~jobs[j].missed
          /\ jobs' = [jobs EXCEPT ![j] = Nulo]
          /\ ended' = [ended EXCEPT ![j] = "success"]
          /\ Excuse({})
       \/ /\ jobs[j].missed
          /\ ended' = [ended EXCEPT ![j] = "error"]
          /\ Fail(j, {})

-----------------------------------------------------------------------------
Next ==
    \/ \E p \in Products, ativo \in BOOLEAN : SaveProduct(p, ativo)
    \/ \E P \in SUBSET Products : DeleteProducts(P)
    \/ \E f \in Formats : SaveFormat(f)
    \/ \E x \in Item : Enqueue(x) \/ LoseRequest(x)
    \/ AskSync("TOTAL", {}) \/ \E ids \in Asked : AskSync("INCREMENTAL", ids)
    \/ Link
    \/ \E j \in 1..MaxJobs : ReadProducts(j) \/ OpenJob(j) \/ Write(j) \/ LoseWrite(j)
    \/ \E rest \in adrift : LandsLate(rest)
    \/ \E j \in 1..MaxJobs : ReadBack(j) \/ LoseResult(j) \/ EndJob(j)

Spec == Init /\ [][Next]_vars

-----------------------------------------------------------------------------
(* Properties.                                                             *)

Row == [exists : BOOLEAN, ativo : BOOLEAN, versao : 0..(MaxEvents + 1)]

TypeOK ==
    /\ events   \in 0..MaxEvents
    /\ product  \in [Products -> Row] /\ \A p \in Products : product[p].versao <= events + 1
    /\ format   \in [Formats -> 1..(events + 1)]
    /\ linked   \in BOOLEAN
    /\ requests \subseteq Item
    /\ created  \in 0..MaxJobs
    /\ jobs     \in [1..MaxJobs -> Job \cup {Nulo}]
    /\ ended    \in [1..MaxJobs -> {"none", "error", "success"}]
    /\ DOMAIN memory = Address
    /\ over     \in [1..MaxJobs -> SUBSET Address]
    /\ excused  \subseteq Tracked

\* The version a job that has read its rows is going to write of a format.
Carries(job, f) ==
    LET users == {i \in DOMAIN job.read : FormatOf[job.read[i].id] = f}
    IN  IF users # {} THEN job.read[CHOOSE i \in users : \A k \in users : i <= k].fv = format[f]
        ELSE job.phase = "read" \/ \E i \in DOMAIN job.loose : job.loose[i] = [id |-> f, versao |-> format[f]]

OnItsWay(x) ==
    \/ x \in requests
    \/ \E j \in 1..MaxJobs :
          /\ jobs[j] # Nulo
          /\ x \in Covered(jobs[j]) /\ jobs[j].phase # "reading"
          /\ \/ jobs[j].phase = "waiting"
             \/ x \in Products /\ \E i \in DOMAIN jobs[j].read :
                                      jobs[j].read[i].id = x /\ jobs[j].read[i].versao = product[x].versao
             \/ x \in Formats /\ Carries(jobs[j], x)

\* A price or a layout the scale does not show yet is on its way, or one of
\* the known accidents befell it: its request was lost between the save and
\* the queue, no agent was linked, its job was given up, an older package
\* landed over it.  (ProductSyncDispatcher: every save reaches the scales.)
StaleHasACause == \A x \in Tracked : Stale(x) => x \in excused \/ OnItsWay(x)

\* Beyond the positions a package can have, a slot of the scale only ever holds
\* the product whose code it is.  (resolvePluNumber: the same product always in
\* the same slot.)
SlotIsItsOwners ==
    \A n \in Slots :
        n > Cardinality(Products) /\ memory[<<"PLU", n>>] # Nulo
        => Codigo[memory[<<"PLU", n>>].id] = n

\* However a write is cut, the class a product refers to is on the scale.
\* (buildClassRow: sent before the PLU block, for it must exist first.)
ClassBeforeProduct ==
    \A n \in Slots : LET row == memory[<<"PLU", n>>] IN
        row # Nulo /\ row.classe >= ClassMin => memory[<<"CLS", row.classe>>] # Nulo

Present(m, row) == m[<<row.bloco, row.numero>>] = row

Succeeds(j) == ended[j] # "success" /\ ended'[j] = "success"

\* When a SyncJob ends SUCCESS, each layout of its package is in its slot of the scale, or
\* another package wrote that slot after it; no layout of it went to a slot where the
\* scale keeps a factory model.  (sendProductsToScale: an accepted write is not a
\* written one.)
SuccessIsOnTheScale ==
    [][\A j \in 1..MaxJobs : Succeeds(j) =>
          LET rows == Body(jobs[j]) IN
          \A i \in DOMAIN rows : rows[i].bloco = "LAB" =>
              /\ rows[i].numero \notin FactorySlots
              /\ \/ Present(memory', rows[i])
                 \/ /\ <<"LAB", rows[i].numero>> \in over[j]
                    /\ memory'[<<"LAB", rows[i].numero>>] # Nulo]_vars

\* The seals a label prints in box e: those of the bitmap it refers to there, or none.
SealsPrinted(m, lab, e) ==
    LET item == lab.itens[e]
    IN  IF lab # Nulo /\ e \in DOMAIN lab.itens /\ item[1] = 6 /\ m[<<"BMP", item[2]>>] # Nulo
        THEN m[<<"BMP", item[2]>>].selos
        ELSE << >>

\* The size in dots of the bitmap a label refers to in box e.
SealsSize(m, lab, e) ==
    LET bmp == m[<<"BMP", lab.itens[e][2]>>] IN <<bmp.largura, bmp.altura>>

\* When a package with no more tables with seals than bitmaps succeeds, a product of it
\* whose format no other product of it uses prints the seals of its own table, as the
\* norm orders them, in the boxes its format has for them, from a bitmap of the size of
\* the first of these if the products of that table have boxes of one size; unless
\* another package wrote that label or that bitmap after this one.
\* (buildSyncBody: the bitmap of a format comes from the product that uses it.)
FreshSeals ==
    [][\A j \in 1..MaxJobs : Succeeds(j) =>
          LET ps == Package(jobs[j]).products IN
          \A i \in DOMAIN ps :
              /\ Selos(ps[i]) # << >> /\ ps[i].formato # Nulo
              /\ Cardinality({ps[k].tabela : k \in {l \in DOMAIN ps : Selos(ps[l]) # << >>}}) <= BmpMax
              /\ \A k \in DOMAIN ps \ {i} : NumeroDe(ps[k].formato) # ps[i].formato.numero
              /\ <<"LAB", ps[i].formato.numero>> \notin over[j]
              /\ <<"BMP", BmpDoProduto(ps, ps[i])>> \notin over[j]
              => LET lab == memory'[<<"LAB", ps[i].formato.numero>>] IN
                 \A e \in DOMAIN ps[i].formato.elementos : ps[i].formato.elementos[e].tipo = "selos" =>
                    /\ SealsPrinted(memory', lab, e) = OrdenarSelos(Selos(ps[i]))
                    /\ (\A k \in DOMAIN ps : ps[k].tabela = ps[i].tabela =>
                            CaixaDosSelos(ps[k]) = CaixaDosSelos(ps[i]))
                       => SealsSize(memory', lab, e) =
                              <<8 * CaixaDosSelos(ps[i])[1], 8 * CaixaDosSelos(ps[i])[2]>>]_vars

\* A label has each of its texts in its own box, up to the texts the header has
\* room for.
TextsInTheirBoxes ==
    \A f \in Formats : LET lab == memory[<<"LAB", Number[f]>>] IN
        lab # Nulo /\ Number[f] \notin FactorySlots =>
        \E v \in 1..format[f] : LET els == Layout[f][v] IN
            /\ DOMAIN lab.itens = DOMAIN els
            /\ \A i \in DOMAIN els : els[i].tipo = "texto" =>
                  \/ els[i].texto = EmBrancoTxt
                  \/ Cardinality({k \in 1..(i - 1) : TemTexto(els[k])}) >= MaxTextos
                  \/ /\ lab.itens[i][1] = 3
                     /\ lab.itens[i][2] + 1 \in DOMAIN lab.textos
                     /\ lab.textos[lab.itens[i][2] + 1] = els[i].texto

\* A strip that is drawn (one too small for its texts is left blank) does not run out of
\* its bitmap, and the text of an official seal stays inside its module.
StripsFit ==
    \A n \in 1..BmpMax : LET bmp == memory[<<"BMP", n>>] IN
        bmp # Nulo /\ bmp.faixa.escala > 0 =>
        LET s == bmp.faixa IN
        /\ s.x0 >= 0 /\ s.x0 + s.total <= bmp.largura
        /\ s.y0 >= 0 /\ s.y0 + AlturaBorda(s.escala) <= bmp.altura
        /\ \A r \in DOMAIN s.linhas : Oficial(bmp.selos[r]) =>
              \A i \in DOMAIN s.linhas[r] : LarguraTexto(s.linhas[r][i], s.escala) <= s.modulo

\* Whatever was deleted, renamed or sent in between, and wherever a write was cut, every
\* label the system wrote has its texts where the layout has them (buildLabelBlock), and
\* no strip of seals was cut at the edge of the bitmap it was drawn in: whether that
\* bitmap has the size of the label's box is the matter of FreshSeals.  (selos-anvisa.ts:
\* a cut text would be worse than a module out of proportion.)
LabelsPrintWhole == TextsInTheirBoxes /\ StripsFit

\* A class that a product on the scale refers to is one of the store's, so it has a
\* place there.
ClassesKnown ==
    \A n \in Slots : LET row == memory[<<"PLU", n>>] IN
        row # Nulo /\ row.classe >= ClassMin => row.classe \in Classes

\* No package is longer than the catalogue. Catalog_proofs shows that the parts of
\* IInv are inductive together.
ReadsFit ==
    \A j \in 1..MaxJobs : jobs[j] # Nulo => Len(jobs[j].read) <= Cardinality(Products)

\* The same of a package given up.
PackageFits(package) ==
    /\ package.read \in Seq(ProductRead) /\ package.loose \in Seq(FormatRead)
    /\ Len(package.read) <= Cardinality(Products)

\* The classes among the first rows of a package are on the scale.
ClassesCame(rows, n) ==
    \A i \in 1..n : LET a == <<rows[i].bloco, rows[i].numero>> IN
        a[1] = "CLS" /\ a \in Address => memory[a] # Nulo

\* What is adrift is the rest of such a package, and the classes before it came.
RestsFit ==
    \A rest \in adrift :
        /\ PackageFits(rest)
        /\ rest.body = Body(rest) /\ rest.came \in 0..Len(rest.body)
        /\ ClassesCame(rest.body, rest.came)

IInv == TypeOK /\ ReadsFit /\ RestsFit /\ SlotIsItsOwners /\ ClassesKnown /\ ClassBeforeProduct

\* A number is given to one job; what is active is there, and was saved.
JobsNumbered == \A j \in 1..MaxJobs : j > created => jobs[j] = Nulo
RowsSaved ==
    \A p \in Products : /\ product[p].ativo => product[p].exists
                        /\ product[p].exists => product[p].versao # 0

\* A job reads each row once, at a version there is or was.
ReadOnce(job) ==
    /\ \A i, k \in DOMAIN job.read : job.read[i].id = job.read[k].id => i = k
    /\ \A i, k \in DOMAIN job.loose : job.loose[i].id = job.loose[k].id => i = k
    /\ \A i \in DOMAIN job.read :
          /\ job.read[i].versao # 0
          /\ FormatOf[job.read[i].id] # Nulo => job.read[i].fv \in 1..format[FormatOf[job.read[i].id]]
    /\ \A i \in DOMAIN job.loose : job.loose[i].versao \in 1..format[job.loose[i].id]
ReadsOnce ==
    /\ \A j \in 1..MaxJobs : jobs[j] # Nulo => ReadOnce(jobs[j])
    /\ \A rest \in adrift : ReadOnce(rest)

\* What the scale's maker put in a slot stays there, and no format gets into it.
FactoryKept ==
    \A f \in Formats : Number[f] \in FactorySlots =>
        memory[<<"LAB", Number[f]>>] = FactoryRow /\ f \in excused

\* With these, StaleHasACause is inductive beside IInv.
CauseInv == JobsNumbered /\ RowsSaved /\ ReadsOnce /\ FactoryKept /\ StaleHasACause

\* A job that has written finds its labels and its bitmaps where it put them, but for what
\* others wrote since; of a factory slot it will learn, or has, that its model is there.
WroteItsRows ==
    \A j \in 1..MaxJobs : IsReading(j) =>
        LET rows == Body(jobs[j]) IN
        \A i \in DOMAIN rows : rows[i].bloco \in {"LAB", "BMP"} =>
            LET a == <<rows[i].bloco, rows[i].numero>> IN
            IF a \in {"LAB"} \X FactorySlots
            THEN rows[i].numero \in jobs[j].unread \/ jobs[j].missed
            ELSE /\ a \in over[j] \/ Present(memory, rows[i])
                 /\ rows[i].bloco = "LAB" => memory[a] # Nulo

-----------------------------------------------------------------------------
(* What fails (README.md); SuccessIsOnTheScale and FreshSeals say how alone.  *)

\* When a SyncJob ends SUCCESS the layouts of its package are those on the scale.
\* (ARCHITECTURE.md: only what was read back is proved.)
LayoutsAreThere ==
    [][\A j \in 1..MaxJobs : Succeeds(j) =>
          LET rows == Body(jobs[j]) IN
          \A i \in DOMAIN rows : rows[i].bloco = "LAB" => Present(memory', rows[i])]_vars

\* A label that one product uses never prints the seals of another product's table.
OwnSealsOnly ==
    \A p \in Products : LET lab == memory[<<"LAB", Number[FormatOf[p]]>>] IN
        /\ FormatOf[p] # Nulo /\ TableOf[p] # Nulo
        /\ \A q \in Products \ {p} : FormatOf[q] # FormatOf[p]
        /\ lab # Nulo
        => \A e \in DOMAIN lab.itens :
              SealsPrinted(memory, lab, e) \in {<< >>, OrdenarSelos(Table[TableOf[p]].selos)}
=============================================================================

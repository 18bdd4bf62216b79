---------------------------- MODULE ScaleEncoding ----------------------------
(***************************************************************************)
(* What the Agent Local writes to a scale for a package of products and    *)
(* label formats (agent-local/src/scale-client.ts, buildSyncBody and the   *)
(* builders it calls).  A row of the wire is a record with the block it    *)
(* belongs to, its number in it and the fields that link rows, hold        *)
(* amounts or decide what is printed; texts are opaque values.             *)
(*                                                                         *)
(* A product, as the worker sends it, is a record                          *)
(*   [id, codigo, preco, tara, setor, texto4, formato, tabela]             *)
(* whose amounts are in cents and grams; setor, formato and tabela may be  *)
(* Nulo.  A format is [numero, nome, elementos], a table is                *)
(* [numero, nome, ingredientes, selos].                                    *)
(***************************************************************************)
EXTENDS SealStrip

CONSTANTS
    Nulo,        \* an absent optional value
    NaoNumerico, \* what Number(codigo) is for a code that is no integer
    EmBrancoTxt, \* a text field left blank
    Palavras,    \* the lengths of the words of each seal's label
    PluMax,      \* PLU_NUMBER_MAX, 10000
    MaxTextos,   \* MAX_TEXTOS_CONSTANTES, 32
    BmpMax,      \* BMP_ID_SELOS_MAX, 15
    ClassMin     \* CLASS_ID_MIN_SAFE, 10

ASSUME EncodingAssumption ==
    /\ PluMax \in Nat \ {0}
    /\ MaxTextos \in Nat
    /\ BmpMax \in Nat
    /\ ClassMin \in Nat /\ ClassMin > 9 \* the class of the template, reserved
    /\ NaoNumerico \notin Int /\ Nulo \notin Int

\* The three official labels have one or two words, the longest "ADICIONADO".
ASSUME WordsAssumption ==
    \A s \in DOMAIN Palavras :
        /\ Palavras[s] \in Seq(Nat)
        /\ Oficial(s) => Len(Palavras[s]) \in 1..2 /\ \A i \in DOMAIN Palavras[s] : Palavras[s][i] <= 10

-----------------------------------------------------------------------------
(* Amounts and numbers.                                                    *)

Pow10 == [k \in 0..3 |-> CASE k = 0 -> 1 [] k = 1 -> 10 [] k = 2 -> 100 [] OTHER -> 1000]

\* The loop of encodePrice and encodeTara: v / 10^d with the zeros at the end
\* of the mantissa taken off, at most d of them.
Compacto(v, d) ==
    LET k == CHOOSE k \in 0..d :
                 v % Pow10[k] = 0 /\ \A j \in (k + 1)..d : v % Pow10[j] # 0
    IN  <<v \div Pow10[k], d - k>>

EncodePrice(cents) == Compacto(cents, 2)
EncodeTara(grams)  == Compacto(grams, 3)

\* Mutant: a code that does not fit is clamped instead.
ResolveClamped(codigo, i) ==
    IF codigo # NaoNumerico /\ codigo \in 1..PluMax THEN codigo ELSE PluMax

\* The PLU number of the i-th product of a package.
ResolvePluNumber(codigo, i) ==
    IF codigo # NaoNumerico /\ codigo \in 1..PluMax THEN codigo ELSE i

\* buildNu3Row: the field with the amount of the nutrient of that order, 0
\* when the row has no place for it; the next one holds its daily value, and
\* the one before an extra nutrient's amount its name.
CampoDoNutriente(ordem) ==
    IF ordem \in 1..10 THEN 7 + (ordem - 1) * 2
    ELSE IF ordem \in 11..20 THEN 27 + (ordem - 11) * 3 + 1
    ELSE 0

CamposDoNutriente(ordem) ==
    LET c == CampoDoNutriente(ordem)
    IN  IF ordem \in 1..10 THEN {c, c + 1}
        ELSE IF ordem \in 11..20 THEN {c - 1, c, c + 1}
        ELSE {}

-----------------------------------------------------------------------------
(* The insertion order of a JavaScript Map.                                *)

\* Indices at which a key that is not Nulo appears for the first time.
PrimeirosUsos(s, Chave(_)) ==
    Crescente({i \in DOMAIN s : /\ Chave(s[i]) # Nulo
                                /\ \A j \in 1..(i - 1) : Chave(s[j]) # Chave(s[i])})

UltimoUso(s, Chave(_), k) ==
    CHOOSE i \in DOMAIN s : /\ Chave(s[i]) = k
                            /\ \A j \in (i + 1)..Len(s) : Chave(s[j]) # k

NumeroDe(x) == IF x = Nulo THEN Nulo ELSE x.numero
Vinculo(x)  == IF x = Nulo THEN 0 ELSE x.numero
Selos(p)    == IF p.tabela = Nulo THEN << >> ELSE p.tabela.selos

-----------------------------------------------------------------------------
(* Rows.                                                                   *)

\* buildPluRow.  The template's class, 9, stands when the product has none or
\* one the scale reserves; the ingredients of the table travel in the fourth
\* extra text unless the user took it.
PluRow(p, n) ==
    [bloco |-> "PLU", numero |-> n, id |-> p.id,
     preco |-> EncodePrice(p.preco), tara |-> EncodeTara(p.tara),
     classe |-> IF p.setor # Nulo /\ p.setor.numero >= ClassMin THEN p.setor.numero ELSE 9,
     texto4 |-> IF p.texto4 = EmBrancoTxt /\ p.tabela # Nulo THEN p.tabela.ingredientes ELSE p.texto4,
     formato |-> Vinculo(p.formato),
     tabela |-> Vinculo(p.tabela),
     alergico |-> IF Selos(p) = << >> THEN 0 ELSE p.tabela.numero]

FlagPorTipo ==
    [nome |-> <<1, 0, 0>>, codigoBarras |-> <<0, 0, 0>>, preco |-> <<2, 8, 0>>,
     precoUnitario |-> <<1, 0, 4>>, peso |-> <<1, 0, 1>>, pesoBrutoLiquido |-> <<7, 3, 1>>,
     tara |-> <<1, 0, 2>>, dataEmbalagem |-> <<7, 3, 2>>, validade |-> <<7, 3, 3>>,
     tabelaNutricional |-> <<7, 0, 0>>, ingredientes |-> <<1, 0, 19>>,
     textoExtra5 |-> <<1, 0, 20>>, lote |-> <<1, 0, 21>>, textoExtra7 |-> <<1, 0, 22>>,
     borda |-> <<4, 2, 0>>, divisoria |-> <<5, 2, 0>>, selos |-> <<7, 2, 2>>,
     fornecedor |-> <<7, 1, 2>>]

\* An element of a layout is [tipo, texto, imagem, caixa]; texto is EmBrancoTxt
\* and imagem 0 when absent, caixa the width and height of its box in mm.  The
\* thickness of a border does not arrive: the worker's getLayoutElementos
\* leaves it out, and every border is 2.
TemTexto(e) == e.tipo = "texto" /\ e.texto # EmBrancoTxt

\* buildLabelBlock, first pass: the elements that take one of the constant
\* texts of the header, in order, as many as there are.
ComSlot(elementos) ==
    {i \in DOMAIN elementos :
        /\ TemTexto(elementos[i])
        /\ Cardinality({j \in 1..(i - 1) : TemTexto(elementos[j])}) < MaxTextos}

\* Mutant: the position of the element instead of that of its text.
SlotByPosition(elementos, i) == i - 1

SlotDe(elementos, i) == Cardinality({j \in ComSlot(elementos) : j < i})

\* Second pass: what the scale draws in the box of element i.
Flags(elementos, i, bmp) ==
    LET e == elementos[i]
    IN  IF i \in ComSlot(elementos) THEN <<3, SlotDe(elementos, i), 0>>
        ELSE IF e.tipo = "imagem" THEN <<6, e.imagem, 0>>
        ELSE IF e.tipo = "selos" /\ bmp # Nulo THEN <<6, bmp, 0>>
        ELSE IF e.tipo \in DOMAIN FlagPorTipo THEN FlagPorTipo[e.tipo]
        ELSE <<0, 0, 0>>

\* The constant texts of the header, those in use.
Textos(elementos) ==
    LET donos == Crescente(ComSlot(elementos))
    IN  [k \in DOMAIN donos |-> elementos[donos[k]].texto]

LabRow(f, bmp) ==
    [bloco |-> "LAB", numero |-> f.numero, nome |-> f.nome, textos |-> Textos(f.elementos),
     itens |-> [i \in DOMAIN f.elementos |-> Flags(f.elementos, i, bmp)]]

ClsRow(setor) == [bloco |-> "CLS", numero |-> setor.numero]
Nu3Row(t)     == [bloco |-> "NU3", numero |-> t.numero, nome |-> t.nome]
Ir2Row(t)     == [bloco |-> "IR2", numero |-> t.numero, selos |-> t.selos]

-----------------------------------------------------------------------------
(* buildSyncBody.                                                          *)

\* Mutant: the last id is never given out.
IdsShort(produtos) ==
    LET tabelas == {produtos[i].tabela.numero : i \in {j \in DOMAIN produtos : Selos(produtos[j]) # << >>}}
        posto(t) == Cardinality({u \in tabelas : u <= t})
    IN  [t \in {u \in tabelas : posto(u) < BmpMax} |-> posto(t)]

\* atribuirIdsDeSelo: the tables with seals, by number, share out the bitmap
\* ids from 1; those past BmpMax have none.
IdsDeSelo(produtos) ==
    LET tabelas == {produtos[i].tabela.numero : i \in {j \in DOMAIN produtos : Selos(produtos[j]) # << >>}}
        posto(t) == Cardinality({u \in tabelas : u <= t})
    IN  [t \in {u \in tabelas : posto(u) <= BmpMax} |-> posto(t)]

\* The bitmap a product asks of its format.
BmpDoProduto(produtos, p) ==
    LET ids == IdsDeSelo(produtos)
    IN  IF p.tabela # Nulo /\ p.tabela.numero \in DOMAIN ids THEN ids[p.tabela.numero] ELSE Nulo

\* The bitmap a format refers to: that of the first of its products with one.
BmpDoFormato(produtos, numero) ==
    LET donos == {i \in DOMAIN produtos : /\ NumeroDe(produtos[i].formato) = numero
                                          /\ BmpDoProduto(produtos, produtos[i]) # Nulo}
    IN  IF donos = {} THEN Nulo
        ELSE BmpDoProduto(produtos, produtos[CHOOSE i \in donos : \A j \in donos : i <= j])

ChaveSetor(p)   == IF p.setor # Nulo /\ p.setor.numero >= ClassMin THEN p.setor.numero ELSE Nulo
ChaveTabela(p)  == NumeroDe(p.tabela)
ChaveFormato(p) == NumeroDe(p.formato)

\* The box of the seals in the format of a product, in millimetres.
CaixaDosSelos(p) ==
    LET elementos == p.formato.elementos
        caixas == IF p.formato = Nulo THEN {} ELSE {i \in DOMAIN elementos : elementos[i].tipo = "selos"}
    IN  IF caixas = {} THEN <<56, 8>>
        ELSE elementos[CHOOSE i \in caixas : \A j \in caixas : i <= j].caixa

\* Eight dots a millimetre.
BmpRow(id, p) ==
    LET caixa  == CaixaDosSelos(p)
        rotulos == OrdenarSelos(Selos(p))
    IN  [bloco |-> "BMP", numero |-> id, selos |-> rotulos,
         largura |-> 8 * caixa[1], altura |-> 8 * caixa[2],
         faixa |-> FaixaSelos([i \in DOMAIN rotulos |-> Palavras[rotulos[i]]],
                              8 * caixa[1], 8 * caixa[2])]

\* One bitmap for each id, drawn for the first product that has it.
BlocoBmp(produtos) ==
    LET chave(p) == IF Selos(p) = << >> THEN Nulo ELSE BmpDoProduto(produtos, p)
        usos == PrimeirosUsos(produtos, chave)
    IN  [k \in DOMAIN usos |-> BmpRow(chave(produtos[usos[k]]), produtos[usos[k]])]

\* Classes and tables: each number once, with what its last product says.
BlocoCls(produtos) ==
    LET usos == PrimeirosUsos(produtos, ChaveSetor)
        fonte(k) == produtos[UltimoUso(produtos, ChaveSetor, ChaveSetor(produtos[usos[k]]))]
    IN  [k \in DOMAIN usos |-> ClsRow(fonte(k).setor)]

Tabelas(produtos) ==
    LET usos == PrimeirosUsos(produtos, ChaveTabela)
    IN  [k \in DOMAIN usos |->
            produtos[UltimoUso(produtos, ChaveTabela, ChaveTabela(produtos[usos[k]]))].tabela]

BlocoPlu(produtos) ==
    [i \in DOMAIN produtos |-> PluRow(produtos[i], ResolvePluNumber(produtos[i].codigo, i))]

BlocoNu3(produtos) == [k \in DOMAIN Tabelas(produtos) |-> Nu3Row(Tabelas(produtos)[k])]

BlocoIr2(produtos) ==
    LET comSelos == {k \in DOMAIN Tabelas(produtos) : Tabelas(produtos)[k].selos # << >>}
    IN  [k \in DOMAIN Crescente(comSelos) |-> Ir2Row(Tabelas(produtos)[Crescente(comSelos)[k]])]

\* Formats: each number once, with what its first product says; one sent on
\* its own counts only if no product brought it.
BlocoLab(produtos, avulsos) ==
    LET usos == PrimeirosUsos(produtos, ChaveFormato)
        novos == Crescente({i \in DOMAIN avulsos :
                     /\ \A j \in DOMAIN produtos : ChaveFormato(produtos[j]) # avulsos[i].numero
                     /\ \A j \in 1..(i - 1) : avulsos[j].numero # avulsos[i].numero})
        dono(k) == produtos[usos[k]].formato
    IN  [k \in DOMAIN usos |-> LabRow(dono(k), BmpDoFormato(produtos, dono(k).numero))]
        \o [k \in DOMAIN novos |-> LabRow(avulsos[novos[k]], Nulo)]

\* Mutant: the products first.
BodyProductsFirst(produtos, avulsos) ==
    BlocoBmp(produtos) \o BlocoPlu(produtos) \o BlocoCls(produtos) \o
    BlocoNu3(produtos) \o BlocoIr2(produtos) \o BlocoLab(produtos, avulsos)

\* Images and classes go before the products that refer to them.
BuildSyncBody(produtos, avulsos) ==
    BlocoBmp(produtos) \o BlocoCls(produtos) \o BlocoPlu(produtos) \o
    BlocoNu3(produtos) \o BlocoIr2(produtos) \o BlocoLab(produtos, avulsos)
=============================================================================

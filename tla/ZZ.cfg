\* Two products, each with a format and a table with seals of its own and one bitmap between
\* them, one of which the scale has a slot of its own for; a third format in a factory
\* slot; two jobs, and two accidents, saves or deletions.
CONSTANTS
    p1 = p1
    p2 = p2
    f1 = f1
    f2 = f2
    f3 = f3
    Nulo = Nulo
    NaoNumerico = NaoNumerico
    EmBrancoTxt = EmBrancoTxt
    Palavras <- MCPalavras
    PluMax = 5
    MaxTextos = 2
    BmpMax = 1
    ClassMin = 10
    Products = {p1, p2}
    Before = {p1}
    Formats = {f1, f2, f3}
    Codigo <- MCCodigo
    Preco <- MCPreco
    FormatOf <- MCFormat
    TableOf <- MCTableOf
    SectorOf <- MCSector
    Number <- MCNumber
    Name <- MCName
    Layout <- MCLayout
    Table <- MCTable
    FactorySlots = {3}
    FactoryRow <- MCFactory
    Asked <- MCAsked
    Attempts = 2
    MaxJobs = 2
    MaxEvents = 2
SPECIFICATION Spec
CHECK_DEADLOCK FALSE
CONSTANT EncodePrice <- FastE

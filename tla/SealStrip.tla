------------------------------ MODULE SealStrip ------------------------------
(***************************************************************************)
(* The strip of "ALTO EM ..." seals drawn as a bitmap for the scale        *)
(* (agent-local/src/selos-bitmap.ts, selos-anvisa.ts) and the way a bitmap *)
(* travels (bitmap-wire.ts).  A label is the sequence of the lengths of    *)
(* its words, the only thing of it the layout looks at; sizes are in dots  *)
(* of the printer.  The strokes of glyphs, boxes and magnifier are left    *)
(* out: what matters is where each part goes.                              *)
(***************************************************************************)
EXTENDS Integers, Sequences, FiniteSets

Escalas == 1..3

\* larguraTexto: four dots a glyph and one between two.
LarguraTexto(n, escala) == IF n = 0 THEN 0 ELSE (5 * n - 1) * escala

\* One turn of the loop of quebrarEmLinhas: the word joins the last line where it
\* fits; else it starts a line, however long it is.
JuntarPalavra(linhas, palavra, escala, disponivel) ==
    LET n == Len(linhas)
    IN  IF n > 0 /\ LarguraTexto(linhas[n] + 1 + palavra, escala) <= disponivel
        THEN [linhas EXCEPT ![n] = @ + 1 + palavra]
        ELSE Append(linhas, palavra)

\* quebrarEmLinhas: the words are packed greedily.
QuebrarEmLinhas(palavras, escala, disponivel) ==
    LET linhas[i \in 0..Len(palavras)] ==
            IF i = 0 THEN << >>
            ELSE JuntarPalavra(linhas[i - 1], palavras[i], escala, disponivel)
    IN  linhas[Len(palavras)]

Inteiro(palavras) ==
    LET soma[i \in 0..Len(palavras)] ==
            IF i = 0 THEN 0 ELSE soma[i - 1] + palavras[i] + (IF i = 1 THEN 0 ELSE 1)
    IN  soma[Len(palavras)]

\* ANVISA: a module is 3Y high and nominally 8Y wide, Y being seven dots.
Nominal(escala)     == 56 * escala
AlturaModulo(escala) == 21 * escala
AlturaBorda(escala) == AlturaModulo(escala) + 6 * escala

\* The lines of a label, two at most; a label that needs more is one line.
LinhasDoSelo(palavras, escala) ==
    LET linhas == QuebrarEmLinhas(palavras, escala, Nominal(escala))
    IN  IF Len(linhas) \in 1..2 THEN linhas ELSE <<Inteiro(palavras)>>

\* The widest line and its margins.
LarguraExigida(rotulos, escala) ==
    LET larguras == UNION {{LarguraTexto(linhas[i], escala) + 4 * escala : i \in DOMAIN linhas} :
                           linhas \in {LinhasDoSelo(rotulos[r], escala) : r \in DOMAIN rotulos}}
    IN  CHOOSE l \in larguras : \A m \in larguras : m <= l

\* Border, margins, magnifier (1.7Y and six tenths of a 1.3Y handle, rounded),
\* "ALTO EM" and the gaps: everything but the modules of n labels.
Fixo(n, escala) ==
    43 * escala + (1736 * escala + 50) \div 100 + (n - 1) * 2 * escala

Menor(a, b) == IF a <= b THEN a ELSE b

\* larguraModulo once the room left over is shared out.
LarguraModulo(exigida, n, largura, escala) ==
    Menor(Nominal(escala), exigida + (largura - Fixo(n, escala) - n * exigida) \div n)

Cabe(rotulos, largura, altura, escala) ==
    /\ AlturaBorda(escala) <= altura
    /\ Fixo(Len(rotulos), escala) + Len(rotulos) * LarguraExigida(rotulos, escala) <= largura

\* planejar
Planejar(rotulos, largura, altura, escala) ==
    LET n      == Len(rotulos)
        modulo == LarguraModulo(LarguraExigida(rotulos, escala), n, largura, escala)
        total  == Fixo(n, escala) + n * modulo
    IN  [escala |-> escala, modulo |-> modulo, total |-> total,
         linhas |-> [r \in 1..n |-> LinhasDoSelo(rotulos[r], escala)],
         x0 |-> (largura - total + 1) \div 2,
         y0 |-> (altura - AlturaBorda(escala) + 1) \div 2]

EmBranco == [escala |-> 0, modulo |-> 0, total |-> 0, linhas |-> << >>, x0 |-> 0, y0 |-> 0]

\* desenharFaixaSelos: the largest scale that fits; a blank bitmap when none
\* does or there is no label.
FaixaSelos(rotulos, largura, altura) ==
    LET cabem == {e \in Escalas : rotulos # << >> /\ Cabe(rotulos, largura, altura, e)}
    IN  IF cabem = {} THEN EmBranco
        ELSE Planejar(rotulos, largura, altura, CHOOSE e \in cabem : \A f \in cabem : f <= e)

\* A set of positions in order, and the elements of a sequence there.
Crescente(S) ==
    [k \in 1..Cardinality(S) |-> CHOOSE i \in S : Cardinality({j \in S : j <= i}) = k]

Escolhidos(s, I) == [k \in DOMAIN Crescente(I) |-> s[Crescente(I)[k]]]

\* rotuloOficial, ordenarSelos: the official labels a row has in any spelling,
\* in the order of the norm and once each, then the others as they come.
Oficiais == <<"acucar", "gordura", "sodio">>
Oficial(s) == \E i \in DOMAIN Oficiais : Oficiais[i] = s

OrdenarSelos(selos) ==
    Escolhidos(Oficiais, {i \in DOMAIN Oficiais : \E k \in DOMAIN selos : selos[k] = Oficiais[i]})
    \o Escolhidos(selos, {k \in DOMAIN selos : ~Oficial(selos[k])})

-----------------------------------------------------------------------------
(* The wire form of a bitmap.                                              *)

\* to42, to44: a byte as two characters from "@" to "O", 16 bits as two bytes,
\* the low one first.
To42(byte)  == <<64 + ((byte % 256) \div 16), 64 + (byte % 16)>>
To44(value) == To42(value % 256) \o To42((value \div 256) % 256)
=============================================================================

------------------------------ MODULE ZZMC ------------------------------
(* Instances of Catalog for TLC.                                           *)
EXTENDS Catalog, TLC

CONSTANTS p1, p2, f1, f2, f3

Texto(t) == [tipo |-> "texto", texto |-> t, imagem |-> 0, caixa |-> <<20, 4>>]
De(tipo) == [tipo |-> tipo, texto |-> EmBrancoTxt, imagem |-> 0, caixa |-> <<20, 4>>]
Caixa(l, a) == [De("selos") EXCEPT !.caixa = <<l, a>>]

MCPalavras == [acucar |-> <<6, 10>>, gordura |-> <<7, 8>>, sodio |-> <<5>>]

\* p1 has the slot of its code; p2, whose code is no number, takes its place in
\* the package.  Each has a format and a table with seals of its own, and there is one
\* bitmap: the seals of the one are renumbered over those of the other.
MCCodigo  == (p1 :> 5) @@ (p2 :> NaoNumerico)
MCPreco   == <<500, 150, 111, 120>>
MCFormat  == (p1 :> f1) @@ (p2 :> f2)
MCTable   == <<[numero |-> 1, nome |-> "t1", ingredientes |-> "i1",
                selos |-> <<"sodio", "acucar", "sodio">>],
               [numero |-> 2, nome |-> "t2", ingredientes |-> "i2", selos |-> <<"gordura">>]>>
MCTableOf == (p1 :> 1) @@ (p2 :> 2)
MCSector  == (p1 :> [numero |-> 10]) @@ (p2 :> [numero |-> 3])

\* The formats keep their names when their layouts change; the number of f3, which no
\* product uses, is a factory slot.
MCNumber  == (f1 :> 1) @@ (f2 :> 2) @@ (f3 :> 3)
MCName    == (f1 :> <<"n1", "n1", "n1", "n1">>) @@ (f2 :> <<"n2", "n2", "n2", "n2">>)
          @@ (f3 :> <<"n3", "n3", "n3", "n3">>)
MCLayout  == (f1 :> <<<<Texto("a"), Caixa(43, 8), Texto(EmBrancoTxt), Texto("b"), Texto("c")>>,
                      <<De("nome"), Texto("d"), Caixa(30, 10)>>,
                      <<Caixa(40, 5), Texto("d"), Texto("a")>>,
                      <<De("borda"), Texto("e"), Caixa(90, 12)>>>>)
          @@ (f2 :> <<<<Caixa(30, 6)>>, <<Caixa(50, 6)>>, <<Texto("g")>>, <<Texto("h")>>>>)
          @@ (f3 :> <<<<Texto("e")>>, <<Texto("f")>>, <<Texto("g")>>, <<Texto("h")>>>>)
MCAsked   == {{p2}}
MCFactory == [bloco |-> "LAB", numero |-> 3, nome |-> "PF-1", textos |-> << >>, itens |-> << >>]
A1 == Cardinality(adrift) <= 1
NoLink == linked
NoDel == \A p \in Products : product[p].versao > 0 => product[p].exists
Early == created < 2 \/ events = 2 \/ TRUE
FT == [c \in {0,500,150,111,120} |-> Compacto(c, 2)]
OldC(c) == c
FastE(c) == FT[c]
FB == [ps \in {}|-> 0]
=============================================================================

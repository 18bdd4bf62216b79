--------------------------- MODULE Catalog_proofs ---------------------------
(***************************************************************************)
(* What holds of the way from the catalogue to a scale for any catalogue,  *)
(* any codes and any number of jobs, and of the encoders for any amount.   *)
(***************************************************************************)
EXTENDS Catalog, FiniteSetTheorems, SequenceTheorems, WellFoundedInduction, TLAPS

-----------------------------------------------------------------------------
(* Amounts, numbers and bytes.                                              *)

LEMMA Exact ==
    ASSUME NEW v \in Nat, NEW m \in Nat \ {0}, v % m = 0 PROVE (v \div m) * m = v
  OBVIOUS

\* An amount is exact whatever zeros are taken off it: mantissa and decimals say
\* the cents or grams there were, and no more than d decimals are used.
THEOREM AmountsAreExact ==
    ASSUME NEW v \in Nat, NEW d \in {2, 3}
    PROVE  \E k \in 0..d : /\ Compacto(v, d) = <<v \div Pow10[k], d - k>>
                           /\ (v \div Pow10[k]) * Pow10[k] = v
<1> DEFINE Last(k) == v % Pow10[k] = 0 /\ \A j \in (k + 1)..d : v % Pow10[j] # 0
           k0 == CHOOSE k \in 0..d : Last(k)
<1>1. Pow10[0] = 1 /\ Pow10[1] = 10 /\ Pow10[2] = 100 /\ Pow10[3] = 1000
  BY DEF Pow10
<1>2. \E k \in 0..d : Last(k)
  <2>1. v % Pow10[0] = 0
    BY <1>1
  <2>2. CASE v % Pow10[d] = 0
    <3>1. Last(d)
      BY <2>2
    <3>2. QED
      BY <3>1
  <2>3. CASE d = 2 /\ v % Pow10[2] # 0
    <3>1. CASE v % Pow10[1] = 0
      BY <2>3, <3>1
    <3>2. CASE v % Pow10[1] # 0
      <4>1. \A j \in 1..2 : v % Pow10[j] # 0
        BY <2>3, <3>2
      <4>2. Last(0)
        BY <2>1, <2>3, <4>1
      <4>3. QED
        BY <4>2
    <3>3. QED
      BY <3>1, <3>2
  <2>4. CASE d = 3 /\ v % Pow10[3] # 0
    <3>1. CASE v % Pow10[2] = 0
      BY <2>4, <3>1
    <3>2. CASE v % Pow10[2] # 0 /\ v % Pow10[1] = 0
      <4>1. \A j \in 2..3 : v % Pow10[j] # 0
        BY <2>4, <3>2
      <4>2. Last(1)
        BY <2>4, <3>2, <4>1
      <4>3. QED
        BY <4>2
    <3>3. CASE v % Pow10[2] # 0 /\ v % Pow10[1] # 0
      <4>1. \A j \in 1..3 : v % Pow10[j] # 0
        BY <2>4, <3>3
      <4>2. Last(0)
        BY <2>1, <2>4, <4>1
      <4>3. QED
        BY <4>2
    <3>4. QED
      BY <3>1, <3>2, <3>3
  <2>5. QED
    BY <2>2, <2>3, <2>4
<1>3. k0 \in 0..d /\ v % Pow10[k0] = 0
  BY <1>2
<1>4. Compacto(v, d) = <<v \div Pow10[k0], d - k0>>
  BY DEF Compacto
<1>5. Pow10[k0] \in Nat \ {0}
  <2>1. k0 = 0 \/ k0 = 1 \/ k0 = 2 \/ k0 = 3
    BY <1>3
  <2>2. QED
    BY <1>1, <2>1
<1>6. (v \div Pow10[k0]) * Pow10[k0] = v
  BY <1>3, <1>5, Exact
<1>7. QED
  BY <1>3, <1>4, <1>6

\* No two nutrients share a field of a row of the nutritional table, and none takes one
\* of the fields before the seventh.
THEOREM NutrientsApart ==
    \A n, m \in 1..20 :
        /\ CamposDoNutriente(n) \subseteq 7..56
        /\ n # m => CamposDoNutriente(n) \cap CamposDoNutriente(m) = {}
<1>1. ASSUME NEW n \in 1..10
      PROVE  CamposDoNutriente(n) = {2 * n + 5, 2 * n + 6}
  BY DEF CamposDoNutriente, CampoDoNutriente
<1>2. ASSUME NEW n \in 11..20
      PROVE  CamposDoNutriente(n) = {3 * n - 6, 3 * n - 5, 3 * n - 4}
  BY DEF CamposDoNutriente, CampoDoNutriente
<1>3. ASSUME NEW n \in 1..20, NEW m \in 1..20, n # m, NEW c \in CamposDoNutriente(n)
      PROVE  c \in 7..56 /\ c \notin CamposDoNutriente(m)
  <2>1. CASE n \in 1..10 /\ m \in 1..10
    <3>1. c \in {2 * n + 5, 2 * n + 6} /\ CamposDoNutriente(m) = {2 * m + 5, 2 * m + 6}
      BY <1>1, <1>3, <2>1
    <3>2. QED
      BY <1>3, <2>1, <3>1
  <2>2. CASE n \in 11..20 /\ m \in 11..20
    <3>1. c \in {3 * n - 6, 3 * n - 5, 3 * n - 4} /\ CamposDoNutriente(m) = {3 * m - 6, 3 * m - 5, 3 * m - 4}
      BY <1>2, <1>3, <2>2
    <3>2. QED
      BY <1>3, <2>2, <3>1
  <2>3. CASE n \in 1..10 /\ m \in 11..20
    <3>1. c \in {2 * n + 5, 2 * n + 6} /\ CamposDoNutriente(m) = {3 * m - 6, 3 * m - 5, 3 * m - 4}
      BY <1>1, <1>2, <1>3, <2>3
    <3>2. QED
      BY <2>3, <3>1
  <2>4. CASE n \in 11..20 /\ m \in 1..10
    <3>1. c \in {3 * n - 6, 3 * n - 5, 3 * n - 4} /\ CamposDoNutriente(m) = {2 * m + 5, 2 * m + 6}
      BY <1>1, <1>2, <1>3, <2>4
    <3>2. QED
      BY <2>4, <3>1
  <2>5. QED
    BY <1>3, <2>1, <2>2, <2>3, <2>4
<1>4. ASSUME NEW n \in 1..20 PROVE CamposDoNutriente(n) \subseteq 7..56
  <2>1. PICK m \in 1..20 : m # n
    OBVIOUS
  <2>2. QED
    BY <1>3, <2>1
<1>5. QED
  BY <1>3, <1>4

LEMMA SmallRemainder == ASSUME NEW q \in Int, 0 <= q, q <= 255 PROVE q % 256 = q
  OBVIOUS

LEMMA ByteRange == ASSUME NEW v \in Nat PROVE v % 256 \in 0..255
  OBVIOUS

LEMMA ByteSplit == ASSUME NEW v \in Nat PROVE v = 256 * (v \div 256) + (v % 256)
  OBVIOUS

LEMMA ByteHigh == ASSUME NEW v \in Nat PROVE v \div 256 \in Int
  OBVIOUS

LEMMA NibbleRange == ASSUME NEW v \in Nat PROVE v % 16 \in 0..15
  OBVIOUS

LEMMA NibbleSplit == ASSUME NEW v \in Nat PROVE v = 16 * (v \div 16) + (v % 16)
  OBVIOUS

LEMMA NibbleHigh == ASSUME NEW v \in Nat PROVE v \div 16 \in Int
  OBVIOUS

LEMMA HighBound ==
    ASSUME NEW q \in Int, NEW r \in Int, 0 <= r, r <= 255, 0 <= 256 * q + r, 256 * q + r < 256 * 256
    PROVE  0 <= q /\ q <= 255
  OBVIOUS

LEMMA NibbleBound ==
    ASSUME NEW q \in Int, NEW r \in Int, 0 <= r, r <= 15, 0 <= 16 * q + r, 16 * q + r <= 255
    PROVE  0 <= q /\ q <= 15
  OBVIOUS

LEMMA Bytes ==
    ASSUME NEW v \in Nat, v < 256 * 256
    PROVE  /\ v % 256 \in 0..255 /\ v \div 256 \in 0..255
           /\ v = 256 * (v \div 256) + (v % 256)
           /\ (v % 256) % 256 = v % 256 /\ (v \div 256) % 256 = v \div 256
<1> DEFINE hi == v \div 256
           lo == v % 256
<1>1. lo \in 0..255 /\ v = 256 * hi + lo /\ hi \in Int
  BY ByteRange, ByteSplit, ByteHigh
<1> HIDE DEF hi, lo
<1>2. 0 <= lo /\ lo <= 255 /\ lo \in Int /\ 0 <= 256 * hi + lo /\ 256 * hi + lo < 256 * 256
  BY <1>1
<1>3. 0 <= hi /\ hi <= 255
  BY <1>1, <1>2, HighBound
<1>4. hi % 256 = hi /\ lo % 256 = lo
  BY <1>1, <1>2, <1>3, SmallRemainder
<1>5. hi \in 0..255
  BY <1>1, <1>3
<1>6. QED
  BY <1>1, <1>4, <1>5 DEF hi, lo

\* The halves of a byte.
Upper(b) == b \div 16
Lower(b) == b % 16

LEMMA Nibbles ==
    \A byte \in 0..255 :
        /\ To42(byte) = <<64 + Upper(byte), 64 + Lower(byte)>>
        /\ Upper(byte) \in 0..15 /\ Lower(byte) \in 0..15
        /\ byte = 16 * Upper(byte) + Lower(byte)
<1> SUFFICES ASSUME NEW b \in 0..255
             PROVE  /\ To42(b) = <<64 + Upper(b), 64 + Lower(b)>>
                    /\ Upper(b) \in 0..15 /\ Lower(b) \in 0..15 /\ b = 16 * Upper(b) + Lower(b)
  OBVIOUS
<1> DEFINE x == b \div 16
           y == b % 16
<1>1. b \in Nat /\ 0 <= b /\ b <= 255 /\ b \in Int
  OBVIOUS
<1>2. y \in 0..15 /\ b = 16 * x + y /\ x \in Int
  BY <1>1, NibbleRange, NibbleSplit, NibbleHigh
<1>3. b % 256 = b
  BY <1>1, SmallRemainder
<1>4. To42(b) = <<64 + x, 64 + y>>
  BY <1>3 DEF To42
<1> HIDE DEF x, y
<1>5. 0 <= y /\ y <= 15 /\ y \in Int /\ 0 <= 16 * x + y /\ 16 * x + y <= 255
  BY <1>1, <1>2
<1>6. x \in 0..15
  BY <1>2, <1>5, NibbleBound
<1>7. QED
  BY <1>2, <1>4, <1>6 DEF x, y, Upper, Lower

LEMMA Joined ==
    ASSUME NEW a \in Int, NEW b \in Int, NEW c \in Int, NEW d \in Int
    PROVE  <<a, b>> \o <<c, d>> = <<a, b, c, d>>
<1> DEFINE s == <<a, b>>
           t == <<c, d>>
           u == <<a, b, c, d>>
<1>1. s \in Seq(Int) /\ t \in Seq(Int) /\ u \in Seq(Int)
  OBVIOUS
<1>2. Len(s) = 2 /\ Len(t) = 2 /\ Len(u) = 4
  OBVIOUS
<1>3. /\ s[1] = a /\ s[2] = b /\ t[1] = c /\ t[2] = d
      /\ u[1] = a /\ u[2] = b /\ u[3] = c /\ u[4] = d
  OBVIOUS
<1> HIDE DEF s, t, u
<1>4. /\ s \o t \in Seq(Int) /\ Len(s \o t) = Len(s) + Len(t)
      /\ \A i \in 1 .. Len(s) + Len(t) : (s \o t)[i] = IF i <= Len(s) THEN s[i] ELSE t[i - Len(s)]
  BY <1>1, ConcatProperties, Zenon
<1> DEFINE w == s \o t
<1>5. \A i \in 1..4 : w[i] = IF i <= 2 THEN s[i] ELSE t[i - 2]
  BY <1>4, <1>2
<1>6. w \in Seq(Int) /\ Len(w) = 4
  BY <1>2, <1>4
<1> HIDE DEF w
<1>7. w[1] = s[1] /\ w[2] = s[2] /\ w[3] = t[1] /\ w[4] = t[2]
  BY <1>5
<1>8. \A i \in 1..4 : i = 1 \/ i = 2 \/ i = 3 \/ i = 4
  OBVIOUS
<1>9. \A i \in 1..4 : w[i] = u[i]
  BY <1>3, <1>7, <1>8, Zenon
<1>10. w = u
  BY <1>1, <1>2, <1>6, <1>9, SeqEqual
<1>11. QED
  BY <1>10 DEF s, t, u, w

\* The wire form of v, whose bytes are lo and hi: four characters from "@" to "O", low
\* byte first, that give v back.
WireForm(v, lo, hi) ==
    /\ To44(v) = <<64 + Upper(lo), 64 + Lower(lo), 64 + Upper(hi), 64 + Lower(hi)>>
    /\ Upper(lo) \in 0..15 /\ Lower(lo) \in 0..15 /\ Upper(hi) \in 0..15 /\ Lower(hi) \in 0..15
    /\ v = 256 * (16 * Upper(hi) + Lower(hi)) + (16 * Upper(lo) + Lower(lo))

LEMMA FourCharacters ==
    ASSUME NEW v \in Nat, NEW lo \in 0..255, NEW hi \in 0..255, v = 256 * hi + lo,
           To44(v) = To42(lo) \o To42(hi)
    PROVE  WireForm(v, lo, hi)
<1>1. /\ To42(lo) = <<64 + Upper(lo), 64 + Lower(lo)>>
      /\ Upper(lo) \in 0..15 /\ Lower(lo) \in 0..15 /\ lo = 16 * Upper(lo) + Lower(lo)
  BY Nibbles
<1>2. /\ To42(hi) = <<64 + Upper(hi), 64 + Lower(hi)>>
      /\ Upper(hi) \in 0..15 /\ Lower(hi) \in 0..15 /\ hi = 16 * Upper(hi) + Lower(hi)
  BY Nibbles
<1>3. /\ 64 + Upper(lo) \in Int /\ 64 + Lower(lo) \in Int
      /\ 64 + Upper(hi) \in Int /\ 64 + Lower(hi) \in Int
  BY <1>1, <1>2
<1>4. To44(v) = <<64 + Upper(lo), 64 + Lower(lo), 64 + Upper(hi), 64 + Lower(hi)>>
  BY <1>1, <1>2, <1>3, Joined
<1>5. v = 256 * (16 * Upper(hi) + Lower(hi)) + (16 * Upper(lo) + Lower(lo))
  BY <1>1, <1>2
<1>6. QED
  BY <1>1, <1>2, <1>4, <1>5 DEF WireForm

\* Sixteen bits survive the wire: every character is printable, from "@" to "O", and
\* the four of them give the value back, low byte first.
THEOREM WireKeepsValue ==
    ASSUME NEW v \in Nat, v < 256 * 256
    PROVE  WireForm(v, v % 256, v \div 256)
<1>1. v % 256 \in 0..255 /\ v \div 256 \in 0..255 /\ v = 256 * (v \div 256) + (v % 256)
  BY Bytes
<1>2. To44(v) = To42(v % 256) \o To42(v \div 256)
  BY Bytes DEF To44
<1>3. QED
  BY <1>1, <1>2, FourCharacters

LEMMA Monotone ==
    ASSUME NEW n \in Nat, NEW x \in Int, NEW y \in Int, x <= y PROVE n * x <= n * y
  OBVIOUS

LEMMA Centred == ASSUME NEW d \in Nat PROVE (d + 1) \div 2 \in Int /\ 0 <= (d + 1) \div 2 /\ (d + 1) \div 2 <= d
  OBVIOUS

\* A strip that was planned lies inside its bitmap, whatever the labels, the box and the
\* scale, and its modules are no narrower than the labels ask for up to the nominal width.
THEOREM StripStaysInside ==
    ASSUME NEW rotulos, NEW largura \in Nat, NEW altura \in Nat, NEW escala \in Escalas,
           Len(rotulos) \in Nat \ {0}, LarguraExigida(rotulos, escala) \in Nat,
           Cabe(rotulos, largura, altura, escala)
    PROVE  LET s == Planejar(rotulos, largura, altura, escala) IN
           /\ s.x0 >= 0 /\ s.x0 + s.total <= largura
           /\ s.y0 >= 0 /\ s.y0 + AlturaBorda(escala) <= altura
           /\ s.modulo = Nominal(escala) \/ s.modulo >= LarguraExigida(rotulos, escala)
<1> DEFINE n == Len(rotulos)
           exigida == LarguraExigida(rotulos, escala)
           fixo == Fixo(n, escala)
           sobra == largura - fixo - n * exigida
           modulo == LarguraModulo(exigida, n, largura, escala)
           total == fixo + n * modulo
           borda == AlturaBorda(escala)
           s == Planejar(rotulos, largura, altura, escala)
<1>1. /\ s.x0 = (largura - total + 1) \div 2 /\ s.y0 = (altura - borda + 1) \div 2
      /\ s.total = total /\ s.modulo = modulo
  BY DEF Planejar
<1>2. n \in Nat \ {0} /\ exigida \in Nat /\ fixo + n * exigida <= largura /\ borda <= altura
  BY DEF Cabe
<1>3. fixo \in Int /\ borda \in Int /\ Nominal(escala) \in Int
  BY <1>2 DEF Fixo, AlturaBorda, AlturaModulo, Nominal, Escalas
<1>4. modulo = Menor(Nominal(escala), exigida + (sobra \div n))
  BY DEF LarguraModulo
<1> HIDE DEF n, exigida, fixo, modulo, borda, s
<1>5. n * exigida \in Int /\ sobra \in Nat
  BY <1>2, <1>3
<1>6. n * (sobra \div n) <= sobra /\ sobra \div n \in Nat
  BY <1>2, <1>5
<1>7. modulo \in Int /\ modulo <= exigida + (sobra \div n)
      /\ (modulo = Nominal(escala) \/ modulo >= exigida)
  BY <1>2, <1>3, <1>4, <1>6 DEF Menor
<1>8. n * modulo <= n * exigida + n * (sobra \div n) /\ n * modulo \in Int
  <2> DEFINE parte == sobra \div n
             teto == exigida + parte
  <2>1. n \in Nat /\ exigida \in Nat /\ parte \in Nat /\ modulo \in Int /\ modulo <= teto
    BY <1>2, <1>6, <1>7
  <2> HIDE DEF parte
  <2>2. teto \in Int
    BY <2>1
  <2>3. n * teto = n * exigida + n * parte
    BY <2>1
  <2> HIDE DEF teto
  <2>4. n * modulo <= n * teto
    BY <2>1, <2>2, Monotone
  <2>5. n * modulo <= n * exigida + n * parte /\ n * modulo \in Int
    BY <2>1, <2>3, <2>4
  <2>6. QED
    BY <2>5 DEF parte
<1>9. total <= largura /\ total \in Int
  <2>1. n * (sobra \div n) \in Int
    BY <1>2, <1>6
  <2>2. n * modulo <= n * exigida + sobra
    BY <1>5, <1>6, <1>8, <2>1
  <2>3. QED
    BY <1>2, <1>3, <1>5, <1>8, <2>2
<1>10. largura - total \in Nat /\ altura - borda \in Nat
  BY <1>2, <1>3, <1>9
<1> HIDE DEF total
<1>11. /\ s.x0 \in Int /\ 0 <= s.x0 /\ s.x0 <= largura - total
       /\ s.y0 \in Int /\ 0 <= s.y0 /\ s.y0 <= altura - borda
  BY <1>1, <1>10, Centred
<1>12. s.x0 + s.total <= largura /\ s.y0 + borda <= altura
  BY <1>1, <1>3, <1>9, <1>11
<1>13. QED
  BY <1>1, <1>7, <1>11, <1>12 DEF borda, exigida, s

-----------------------------------------------------------------------------
(* The rows of a package.                                                   *)

LEMMA CrescenteDomain ==
    ASSUME NEW n \in Nat, NEW S, S \subseteq 1..n
    PROVE  \E c \in Nat : DOMAIN Crescente(S) = 1..c
<1>1. IsFiniteSet(S)
  <2>1. IsFiniteSet(1..n)
    BY FS_Interval
  <2>2. QED
    BY <2>1, FS_Subset
<1>2. Cardinality(S) \in Nat
  BY <1>1, FS_CardinalityType
<1>3. DOMAIN Crescente(S) = 1..Cardinality(S)
  BY DEF Crescente
<1>4. QED
  BY <1>2, <1>3

\* The rows of a block, which is a list.
Rows(b) == {b[i] : i \in DOMAIN b}
IsBlock(b, name) == b \in Seq(Rows(b)) /\ \A r \in Rows(b) : r.bloco = name

LEMMA BlockOf ==
    ASSUME NEW c \in Nat, NEW b, b = [i \in 1..c |-> b[i]], NEW name, \A i \in 1..c : b[i].bloco = name
    PROVE  IsBlock(b, name)
<1>1. DOMAIN b = 1..c
  OBVIOUS
<1>2. b \in [1..c -> Rows(b)]
  BY <1>1 DEF Rows
<1>3. b \in Seq(Rows(b))
  <2> DEFINE T == Rows(b)
  <2> HIDE DEF T
  <2>1. b \in [1..c -> T]
    BY <1>2 DEF T
  <2>2. b \in Seq(T)
    BY <2>1
  <2>3. QED
    BY <2>2 DEF T
<1>4. QED
  BY <1>1, <1>3 DEF IsBlock, Rows

\* Every block is a list of rows of its kind.
LEMMA Blocks ==
    ASSUME NEW m \in Nat, NEW k \in Nat, NEW ps, NEW fs, DOMAIN ps = 1..m, DOMAIN fs = 1..k
    PROVE  /\ IsBlock(BlocoBmp(ps), "BMP") /\ IsBlock(BlocoCls(ps), "CLS")
           /\ IsBlock(BlocoNu3(ps), "NU3") /\ IsBlock(BlocoIr2(ps), "IR2")
           /\ IsBlock(BlocoLab(ps, fs), "LAB")
<1> DEFINE bmp == BlocoBmp(ps)
           cls == BlocoCls(ps)
           nu3 == BlocoNu3(ps)
           ir2 == BlocoIr2(ps)
           lab == BlocoLab(ps, fs)
<1>1. IsBlock(bmp, "BMP")
  <2> DEFINE chave(p) == IF Selos(p) = << >> THEN Nulo ELSE BmpDoProduto(ps, p)
             S == {i \in DOMAIN ps : chave(ps[i]) # Nulo
                                      /\ \A j \in 1..(i - 1) : chave(ps[j]) # chave(ps[i])}
             usos == Crescente(S)
  <2>1. PICK c \in Nat : DOMAIN usos = 1..c
    <3>1. S \subseteq 1..m
      OBVIOUS
    <3> HIDE DEF S
    <3>2. QED
      BY <3>1, CrescenteDomain
  <2>2. bmp = [l \in DOMAIN usos |-> BmpRow(chave(ps[usos[l]]), ps[usos[l]])]
    BY Zenon DEF BlocoBmp, PrimeirosUsos
  <2> HIDE DEF usos, chave
  <2>3. bmp = [l \in 1..c |-> bmp[l]] /\ \A l \in 1..c : bmp[l].bloco = "BMP"
    BY <2>1, <2>2 DEF BmpRow
  <2> HIDE DEF bmp
  <2>4. QED
    BY <2>1, <2>3, BlockOf
<1>2. IsBlock(cls, "CLS")
  <2> DEFINE S == {i \in DOMAIN ps : ChaveSetor(ps[i]) # Nulo
                                      /\ \A j \in 1..(i - 1) : ChaveSetor(ps[j]) # ChaveSetor(ps[i])}
             usos == Crescente(S)
             fonte(l) == ps[UltimoUso(ps, ChaveSetor, ChaveSetor(ps[usos[l]]))]
  <2>1. PICK c \in Nat : DOMAIN usos = 1..c
    <3>1. S \subseteq 1..m
      OBVIOUS
    <3> HIDE DEF S
    <3>2. QED
      BY <3>1, CrescenteDomain
  <2>2. cls = [l \in DOMAIN usos |-> ClsRow(fonte(l).setor)]
    BY Zenon DEF BlocoCls, PrimeirosUsos
  <2> HIDE DEF usos, fonte
  <2>3. cls = [l \in 1..c |-> cls[l]] /\ \A l \in 1..c : cls[l].bloco = "CLS"
    BY <2>1, <2>2 DEF ClsRow
  <2> HIDE DEF cls
  <2>4. QED
    BY <2>1, <2>3, BlockOf
<1>3. IsBlock(nu3, "NU3") /\ IsBlock(ir2, "IR2")
  <2> DEFINE S == {i \in DOMAIN ps : ChaveTabela(ps[i]) # Nulo
                                      /\ \A j \in 1..(i - 1) : ChaveTabela(ps[j]) # ChaveTabela(ps[i])}
             tabelas == Tabelas(ps)
             R == {l \in DOMAIN tabelas : tabelas[l].selos # << >>}
  <2>1. PICK c \in Nat : DOMAIN tabelas = 1..c
    <3> DEFINE usos == Crescente(S)
               ultima(l) == ps[UltimoUso(ps, ChaveTabela, ChaveTabela(ps[usos[l]]))].tabela
    <3>1. S \subseteq 1..m
      OBVIOUS
    <3>2. tabelas = [l \in DOMAIN usos |-> ultima(l)]
      BY Zenon DEF Tabelas, PrimeirosUsos
    <3> HIDE DEF S, ultima, tabelas
    <3>3. \E c \in Nat : DOMAIN usos = 1..c
      BY <3>1, CrescenteDomain
    <3> HIDE DEF usos
    <3>4. QED
      BY <3>2, <3>3
  <2>2. nu3 = [l \in DOMAIN tabelas |-> Nu3Row(tabelas[l])]
    BY DEF BlocoNu3
  <2>3. ir2 = [l \in DOMAIN Crescente(R) |-> Ir2Row(tabelas[Crescente(R)[l]])]
    BY Zenon DEF BlocoIr2
  <2>4. R \subseteq 1..c
    BY <2>1
  <2> HIDE DEF tabelas, R
  <2>5. PICK d \in Nat : DOMAIN Crescente(R) = 1..d
    BY <2>4, CrescenteDomain
  <2>6. nu3 = [l \in 1..c |-> nu3[l]] /\ \A l \in 1..c : nu3[l].bloco = "NU3"
    BY <2>1, <2>2 DEF Nu3Row
  <2>7. ir2 = [l \in 1..d |-> ir2[l]] /\ \A l \in 1..d : ir2[l].bloco = "IR2"
    BY <2>5, <2>3 DEF Ir2Row
  <2> HIDE DEF nu3, ir2
  <2>8. QED
    BY <2>6, <2>7, BlockOf
<1>4. IsBlock(lab, "LAB")
  <2> DEFINE S == {i \in DOMAIN ps : ChaveFormato(ps[i]) # Nulo
                                      /\ \A j \in 1..(i - 1) : ChaveFormato(ps[j]) # ChaveFormato(ps[i])}
             R == {i \in DOMAIN fs :
                     /\ \A j \in DOMAIN ps : ChaveFormato(ps[j]) # fs[i].numero
                     /\ \A j \in 1..(i - 1) : fs[j].numero # fs[i].numero}
             usos == Crescente(S)
             novos == Crescente(R)
             dono(l) == ps[usos[l]].formato
             first == [l \in DOMAIN usos |-> LabRow(dono(l), BmpDoFormato(ps, dono(l).numero))]
             second == [l \in DOMAIN novos |-> LabRow(fs[novos[l]], Nulo)]
  <2>1. S \subseteq 1..m /\ R \subseteq 1..k
    OBVIOUS
  <2>2. lab = first \o second
    BY Zenon DEF BlocoLab, PrimeirosUsos
  <2> HIDE DEF S, R
  <2>3. (\E c \in Nat : DOMAIN usos = 1..c) /\ (\E d \in Nat : DOMAIN novos = 1..d)
    BY <2>1, CrescenteDomain
  <2> HIDE DEF usos, novos, dono
  <2>4. PICK c \in Nat, d \in Nat : DOMAIN usos = 1..c /\ DOMAIN novos = 1..d
    BY <2>3
  <2>5. first = [l \in 1..c |-> first[l]] /\ \A l \in 1..c : first[l].bloco = "LAB"
    BY <2>4 DEF LabRow
  <2>6. second = [l \in 1..d |-> second[l]] /\ \A l \in 1..d : second[l].bloco = "LAB"
    BY <2>4 DEF LabRow
  <2> HIDE DEF first, second, lab
  <2>7. IsBlock(first, "LAB") /\ IsBlock(second, "LAB")
    BY <2>5, <2>6, BlockOf
  <2> DEFINE U == Rows(first) \cup Rows(second)
  <2>8. \A r \in U : r.bloco = "LAB"
    BY <2>7 DEF IsBlock
  <2>9. first \in Seq(U) /\ second \in Seq(U)
    BY <2>7, SeqMonotonic DEF IsBlock
  <2> HIDE DEF U
  <2>10. lab \in Seq(U)
    BY <2>2, <2>9, ConcatProperties
  <2>11. \A i \in 1..Len(lab) : lab[i].bloco = "LAB"
    BY <2>8, <2>10, ElementOfSeq
  <2>12. lab = [i \in 1..Len(lab) |-> lab[i]] /\ Len(lab) \in Nat
    BY <2>10
  <2>13. QED
    BY <2>11, <2>12, BlockOf
<1>5. QED
  BY <1>1, <1>2, <1>3, <1>4

\* A package is a list of rows, and one of its block of products is that of the product
\* at some position.
LEMMA BodyRows ==
    ASSUME NEW m \in Nat, NEW k \in Nat, NEW ps, NEW fs, DOMAIN ps = 1..m, DOMAIN fs = 1..k
    PROVE  \E T : /\ BuildSyncBody(ps, fs) \in Seq(T)
                  /\ \A r \in T : r.bloco = "PLU" =>
                        \E j \in 1..m : r = PluRow(ps[j], ResolvePluNumber(ps[j].codigo, j))
<1> DEFINE Plu == {PluRow(ps[j], ResolvePluNumber(ps[j].codigo, j)) : j \in 1..m}
           bmp == BlocoBmp(ps)
           cls == BlocoCls(ps)
           plu == BlocoPlu(ps)
           nu3 == BlocoNu3(ps)
           ir2 == BlocoIr2(ps)
           lab == BlocoLab(ps, fs)
           T == Plu \cup Rows(bmp) \cup Rows(cls) \cup Rows(nu3) \cup Rows(ir2) \cup Rows(lab)
<1>1. IsBlock(bmp, "BMP") /\ IsBlock(cls, "CLS") /\ IsBlock(nu3, "NU3") /\ IsBlock(ir2, "IR2")
      /\ IsBlock(lab, "LAB")
  BY Blocks
<1>5. plu \in Seq(Plu)
  BY DEF BlocoPlu
<1> HIDE DEF bmp, cls, plu, nu3, ir2, lab, Plu
<1>6. bmp \in Seq(T) /\ cls \in Seq(T) /\ plu \in Seq(T) /\ nu3 \in Seq(T) /\ ir2 \in Seq(T) /\ lab \in Seq(T)
  <2>1. QED
    BY <1>1, <1>5, SeqMonotonic DEF IsBlock
<1> DEFINE body == BuildSyncBody(ps, fs)
<1>7. body \in Seq(T)
  <2> HIDE DEF T
  <2>1. bmp \o cls \in Seq(T)
    BY <1>6, ConcatProperties
  <2>2. (bmp \o cls) \o plu \in Seq(T)
    BY <1>6, <2>1, ConcatProperties
  <2>3. ((bmp \o cls) \o plu) \o nu3 \in Seq(T)
    BY <1>6, <2>2, ConcatProperties
  <2>4. (((bmp \o cls) \o plu) \o nu3) \o ir2 \in Seq(T)
    BY <1>6, <2>3, ConcatProperties
  <2>5. ((((bmp \o cls) \o plu) \o nu3) \o ir2) \o lab \in Seq(T)
    BY <1>6, <2>4, ConcatProperties
  <2>6. QED
    BY <2>5, Zenon DEF BuildSyncBody, bmp, cls, plu, nu3, ir2, lab
<1>8. \A r \in T : r.bloco = "PLU" => r \in Plu
  BY <1>1 DEF IsBlock
<1>9. \A r \in Plu : \E j \in 1..m : r = PluRow(ps[j], ResolvePluNumber(ps[j].codigo, j))
  BY DEF Plu
<1> HIDE DEF T, body
<1>10. \A r \in T : r.bloco = "PLU" =>
         \E j \in 1..m : r = PluRow(ps[j], ResolvePluNumber(ps[j].codigo, j))
  BY <1>8, <1>9
<1> HIDE DEF Plu
<1>11. QED
  BY <1>7, <1>10 DEF body

\* The rows of a package from the n + 1st to the q-th.
Segment(rows, body, n, q) ==
    /\ DOMAIN rows = 1..(q - n)
    /\ \A i \in 1..(q - n) : n + i \in 1..Len(body) /\ rows[i] = body[n + i]
PluOf(rows, d, ps, m) ==
    \A i \in 1..d : rows[i].bloco = "PLU" =>
        \E j \in 1..m : rows[i] = PluRow(ps[j], ResolvePluNumber(ps[j].codigo, j))

LEMMA PluRows ==
    ASSUME NEW m \in Nat, NEW k \in Nat, NEW ps, NEW fs, DOMAIN ps = 1..m, DOMAIN fs = 1..k,
           NEW n \in Nat, NEW q \in Nat, n <= q, q <= Len(BuildSyncBody(ps, fs))
    PROVE  /\ Segment(SubSeq(BuildSyncBody(ps, fs), n + 1, q), BuildSyncBody(ps, fs), n, q)
           /\ PluOf(SubSeq(BuildSyncBody(ps, fs), n + 1, q), q - n, ps, m)
<1> DEFINE body == BuildSyncBody(ps, fs)
           rows == SubSeq(body, n + 1, q)
<1>1. PICK T : /\ body \in Seq(T)
               /\ \A r \in T : r.bloco = "PLU" =>
                     \E j \in 1..m : r = PluRow(ps[j], ResolvePluNumber(ps[j].codigo, j))
  BY BodyRows
<1>2. rows \in Seq(T) /\ Len(rows) = q - n
      /\ \A i \in 1..(q - n) : n + i \in 1..Len(body) /\ rows[i] = body[n + i]
  <2>1. q <= Len(body)
    OBVIOUS
  <2> HIDE DEF body
  <2>2. Len(body) \in Nat
    BY <1>1
  <2>3. \A i \in (n + 1)..q : i \in 1..Len(body)
    BY <2>1, <2>2
  <2>4. \A i \in (n + 1)..q : body[i] \in T
    BY <1>1, <2>3, ElementOfSeq
  <2>5. rows \in Seq(T) /\ Len(rows) = (IF n + 1 <= q THEN q - (n + 1) + 1 ELSE 0)
        /\ \A i \in 1..(q - (n + 1) + 1) : rows[i] = body[(n + 1) + i - 1]
    BY <2>4, SubSeqProperties
  <2>6. (IF n + 1 <= q THEN q - (n + 1) + 1 ELSE 0) = q - n /\ q - (n + 1) + 1 = q - n
    OBVIOUS
  <2>7. \A i \in 1..(q - n) : (n + 1) + i - 1 = n + i /\ n + i \in (n + 1)..q
    OBVIOUS
  <2> HIDE DEF rows
  <2>8. QED
    BY <2>3, <2>5, <2>6, <2>7
<1> HIDE DEF rows
<1>3. DOMAIN rows = 1..(q - n) /\ \A i \in 1..(q - n) : rows[i] \in T
  BY <1>2
<1> HIDE DEF body
<1>4. QED
  BY <1>1, <1>2, <1>3 DEF rows, body, Segment, PluOf

LEMMA BodyIsList ==
    ASSUME NEW m \in Nat, NEW k \in Nat, NEW ps, NEW fs, DOMAIN ps = 1..m, DOMAIN fs = 1..k
    PROVE  Len(BuildSyncBody(ps, fs)) \in Nat
<1> DEFINE body == BuildSyncBody(ps, fs)
<1>1. PICK T : body \in Seq(T)
  BY BodyRows
<1> HIDE DEF body
<1>2. Len(body) \in Nat
  BY <1>1
<1>3. QED
  BY <1>2 DEF body

-----------------------------------------------------------------------------
(* From the first state to every other.                                     *)

LEMMA ListIsSeq ==
    ASSUME NEW s, NEW c \in Nat, NEW T, s \in [1..c -> T]
    PROVE  s \in Seq(T) /\ Len(s) = c
  OBVIOUS

LEMMA CatalogueIsFinite ==
    ASSUME NEW S, S \subseteq Products
    PROVE  Cardinality(S) \in Nat /\ Cardinality(S) <= Cardinality(Products) /\ Cardinality(Products) \in Nat
<1>1. IsFiniteSet(Products)
  BY CatalogAssumption
<1>2. IsFiniteSet(S) /\ Cardinality(S) <= Cardinality(Products)
  BY <1>1, FS_Subset
<1>3. QED
  BY <1>1, <1>2, FS_CardinalityType

LEMMA WaitingJob ==
    ASSUME NEW tipo \in {"TOTAL", "INCREMENTAL"}, NEW ids \in SUBSET Products, NEW fids \in SUBSET Formats,
           NEW tries \in 0..(Attempts - 1)
    PROVE  /\ [NewJob(tipo, ids, fids) EXCEPT !.tries = tries] \in Job
           /\ [NewJob(tipo, ids, fids) EXCEPT !.tries = tries].read = << >>
<1> DEFINE n == NewJob(tipo, ids, fids)
<1>1. n \in Job /\ n.read = << >>
  <2>1. 0 \in 0..(Attempts - 1)
    BY CatalogAssumption
  <2>2. QED
    BY <2>1 DEF NewJob, Job
<1> HIDE DEF n
<1>2. [n EXCEPT !.tries = tries] \in Job /\ [n EXCEPT !.tries = tries].read = n.read
  BY <1>1 DEF Job
<1>3. QED
  BY <1>1, <1>2 DEF n

\* The part of the invariant about the jobs.
JobsFit == jobs \in [1..MaxJobs -> Job \cup {Nulo}] /\ ReadsFit

LEMMA JobReplaced ==
    ASSUME JobsFit, NEW j \in 1..MaxJobs, NEW job \in Job \cup {Nulo},
           job # Nulo => Len(job.read) <= Cardinality(Products),
           jobs' = [jobs EXCEPT ![j] = job]
    PROVE  JobsFit'
  BY DEF JobsFit, ReadsFit

LEMMA NewJobFits ==
    ASSUME JobsFit, created \in 0..MaxJobs, NEW ids \in SUBSET Products, NEW fids \in SUBSET Formats,
           NEW tipo \in {"TOTAL", "INCREMENTAL"}, AddJob(NewJob(tipo, ids, fids))
    PROVE  JobsFit' /\ created' \in 0..MaxJobs
<1>1. MaxJobs \in Nat /\ Attempts \in Nat \ {0}
  BY CatalogAssumption
<1>2. NewJob(tipo, ids, fids) \in Job /\ Len(NewJob(tipo, ids, fids).read) = 0
  BY <1>1 DEF NewJob, Job
<1>3. created + 1 \in 1..MaxJobs /\ created' = created + 1
      /\ jobs' = [jobs EXCEPT ![created + 1] = NewJob(tipo, ids, fids)]
  BY <1>1 DEF AddJob
<1>4. 0 <= Cardinality(Products)
  BY CatalogueIsFinite
<1>5. JobsFit'
  <2> DEFINE job == NewJob(tipo, ids, fids)
  <2>1. job # Nulo => Len(job.read) <= Cardinality(Products)
    BY <1>2, <1>4
  <2> HIDE DEF job
  <2>2. job \in Job \cup {Nulo}
    BY <1>2 DEF job
  <2>3. QED
    BY <1>3, <2>1, <2>2, JobReplaced DEF job
<1>6. QED
  BY <1>1, <1>3, <1>5

LEMMA FailFits ==
    ASSUME JobsFit, NEW j \in 1..MaxJobs, jobs[j] # Nulo, NEW S, Fail(j, S)
    PROVE  JobsFit'
<1>1. jobs[j] \in Job
  BY DEF JobsFit
<1> DEFINE again == jobs[j].tries + 1 < Attempts
           retry == [NewJob(jobs[j].tipo, jobs[j].ids, jobs[j].fids) EXCEPT !.tries = jobs[j].tries + 1]
           job == IF again THEN retry ELSE Nulo
<1>2. jobs' = [jobs EXCEPT ![j] = job]
  BY DEF Fail
<1>3. again => retry \in Job /\ Len(retry.read) = 0
  <2>1. Attempts \in Nat \ {0}
    BY CatalogAssumption
  <2>2. /\ jobs[j].tipo \in {"TOTAL", "INCREMENTAL"} /\ jobs[j].ids \in SUBSET Products
        /\ jobs[j].fids \in SUBSET Formats /\ jobs[j].tries \in 0..(Attempts - 1)
    BY <1>1 DEF Job
  <2>3. again => jobs[j].tries + 1 \in 0..(Attempts - 1)
    BY <2>1, <2>2
  <2>4. again => retry \in Job /\ retry.read = << >>
    BY <2>2, <2>3, WaitingJob
  <2>5. QED
    BY <2>4
<1>4. 0 <= Cardinality(Products)
  BY CatalogueIsFinite
<1> HIDE DEF again, retry
<1>5. job \in Job \cup {Nulo} /\ (job # Nulo => Len(job.read) <= Cardinality(Products))
  BY <1>3, <1>4
<1> HIDE DEF job
<1>6. QED
  BY <1>2, <1>5, JobReplaced
\* What a job has read stands for rows there are.
LEMMA ReadingFits ==
    ASSUME JobsFit, product \in [Products -> Row], format \in [Formats -> 1..(MaxEvents + 1)],
           NEW j \in 1..MaxJobs, jobs[j] # Nulo,
           NEW order \in Orders(Wanted(jobs[j])),
           jobs' = [jobs EXCEPT ![j].phase = "read",
                                ![j].read = [i \in DOMAIN order |-> RowOf(order[i])]]
    PROVE  JobsFit' /\ jobs'[j] \in Job
<1> DEFINE S == Wanted(jobs[j])
           c == Cardinality(S)
           read == [i \in DOMAIN order |-> RowOf(order[i])]
           job == [jobs[j] EXCEPT !.phase = "read", !.read = read]
<1>1. jobs[j] \in Job
  BY DEF JobsFit
<1>2. S \subseteq Products
  BY <1>1 DEF Wanted, Job
<1>3. c \in Nat /\ c <= Cardinality(Products)
  BY <1>2, CatalogueIsFinite
<1>4. order \in [1..c -> S]
  BY DEF Orders
<1>5. \A p \in Products : RowOf(p) \in ProductRead
  <2>1. MaxEvents \in Nat /\ FormatOf \in [Products -> Formats \cup {Nulo}]
    BY CatalogAssumption
  <2>2. ASSUME NEW p \in Products PROVE RowOf(p) \in ProductRead
    <3>1. product[p].versao \in 0..(MaxEvents + 1)
      BY DEF Row
    <3>2. FormatOf[p] # Nulo => format[FormatOf[p]] \in 0..(MaxEvents + 1)
      BY <2>1
    <3>3. 0 \in 0..(MaxEvents + 1)
      BY <2>1
    <3>4. QED
      BY <3>1, <3>2, <3>3 DEF RowOf, ProductRead
  <2>3. QED
    BY <2>2
<1> HIDE DEF S, c
<1>6. read \in [1..c -> ProductRead]
  BY <1>2, <1>4, <1>5
<1> HIDE DEF read
<1>7. read \in Seq(ProductRead) /\ Len(read) = c
  BY <1>3, <1>6, ListIsSeq
<1>8. job \in Job /\ job.read = read
  BY <1>1, <1>7 DEF Job
<1>9. jobs' = [jobs EXCEPT ![j] = job]
  BY <1>1 DEF JobsFit, read
<1> HIDE DEF job
<1>10. jobs'[j] = job
  BY <1>9 DEF JobsFit
<1>11. QED
  BY <1>3, <1>7, <1>8, <1>9, <1>10, JobReplaced

LEMMA OpeningFits ==
    ASSUME JobsFit, format \in [Formats -> 1..(MaxEvents + 1)],
           NEW j \in 1..MaxJobs, jobs[j] # Nulo, IsFiniteSet(jobs[j].fids),
           NEW order \in Orders(jobs[j].fids),
           jobs' = [jobs EXCEPT ![j].phase = "sending",
                       ![j].loose = [i \in DOMAIN order |->
                                        [id |-> order[i], versao |-> format[order[i]]]]]
    PROVE  JobsFit' /\ jobs'[j] \in Job
<1> DEFINE S == jobs[j].fids
           c == Cardinality(S)
           loose == [i \in DOMAIN order |-> [id |-> order[i], versao |-> format[order[i]]]]
           job == [jobs[j] EXCEPT !.phase = "sending", !.loose = loose]
<1>1. jobs[j] \in Job /\ Len(jobs[j].read) <= Cardinality(Products)
  BY DEF JobsFit, ReadsFit
<1>2. S \subseteq Formats
  BY <1>1 DEF Job
<1>3. c \in Nat
  BY FS_CardinalityType
<1>4. order \in [1..c -> S]
  BY DEF Orders
<1> HIDE DEF S, c
<1>5. loose \in [1..c -> FormatRead]
  BY <1>2, <1>4 DEF FormatRead
<1> HIDE DEF loose
<1>6. loose \in Seq(FormatRead)
  BY <1>3, <1>5, ListIsSeq
<1>7. job \in Job /\ job.read = jobs[j].read
  BY <1>1, <1>6 DEF Job
<1>8. jobs' = [jobs EXCEPT ![j] = job]
  BY <1>1 DEF JobsFit, loose
<1> HIDE DEF job
<1>9. jobs'[j] = job
  BY <1>8 DEF JobsFit
<1>10. QED
  BY <1>1, <1>7, <1>8, <1>9, JobReplaced

LEMMA LastOf ==
    ASSUME NEW n \in Nat, NEW I, I \subseteq 1..n, I # {}
    PROVE  \E i \in I : \A k \in I : k <= i
<1> DEFINE T == {n - i : i \in I}
<1>1. T \subseteq Nat /\ T # {}
  <2>1. ASSUME NEW i \in I PROVE n - i \in Nat
    <3>1. i \in 1..n
      OBVIOUS
    <3>2. QED
      BY <3>1
  <2>2. QED
    BY <2>1
<1>2. IsWellFoundedOn(OpToRel(<, Nat), Nat)
  BY NatLessThanWellFounded
<1>3. PICK t \in T : \A u \in T : ~(<<u, t>> \in OpToRel(<, Nat))
  BY <1>1, <1>2, WFMin
<1>4. \A u \in T : t <= u
  <2>1. ASSUME NEW u \in T PROVE t <= u
    <3> HIDE DEF T
    <3>1. u \in Nat /\ t \in Nat /\ ~(<<u, t>> \in OpToRel(<, Nat))
      BY <1>1, <1>3
    <3>2. ~(u < t)
      BY <3>1 DEF OpToRel
    <3>3. u \in Nat /\ t \in Nat
      BY <3>1
    <3>4. QED
      BY <3>2, <3>3
  <2>2. QED
    BY <2>1
<1>5. PICK i \in I : t = n - i
  OBVIOUS
<1>6. ASSUME NEW k \in I PROVE k <= i
  <2>1. i \in 1..n /\ k \in 1..n /\ n - i <= n - k
    BY <1>4, <1>5
  <2>2. QED
    BY <2>1
<1>7. QED
  BY <1>6

\* Crescente lists every member of its set.
LEMMA CrescenteCovers ==
    ASSUME NEW n \in Nat, NEW S, S \subseteq 1..n, NEW i \in S
    PROVE  \E k \in DOMAIN Crescente(S) : Crescente(S)[k] = i
<1> DEFINE below(x) == {j \in S : j <= x}
           k == Cardinality(below(i))
<1>1. IsFiniteSet(S)
  <2>1. IsFiniteSet(1..n)
    BY FS_Interval
  <2>2. QED
    BY <2>1, FS_Subset
<1>2. \A x \in S : IsFiniteSet(below(x)) /\ Cardinality(below(x)) <= Cardinality(S)
  BY <1>1, FS_Subset
<1>3. Cardinality(S) \in Nat /\ k \in Nat /\ k <= Cardinality(S)
  BY <1>1, <1>2, FS_CardinalityType
<1>4. k # 0
  <2>1. i \in below(i)
    <3>1. i \in 1..n
      OBVIOUS
    <3>2. QED
      BY <3>1
  <2>2. QED
    BY <1>2, <2>1, FS_EmptySet
<1>5. ASSUME NEW x \in S, NEW y \in S, x < y, Cardinality(below(x)) = Cardinality(below(y)) PROVE FALSE
  <2>1. x \in 1..n /\ y \in 1..n
    OBVIOUS
  <2>2. below(x) \subseteq below(y)
    <3>1. ASSUME NEW j \in S, j <= x PROVE j <= y
      <4>1. j \in 1..n
        OBVIOUS
      <4>2. QED
        BY <1>5, <2>1, <3>1, <4>1
    <3>2. QED
      BY <3>1
  <2>3. y \in below(y) /\ y \notin below(x)
    BY <1>5, <2>1
  <2>4. IsFiniteSet(below(y))
    BY <1>2
  <2> HIDE DEF below
  <2>5. below(y) = below(x)
    BY <1>5, <2>2, <2>4, FS_Subset
  <2>6. QED
    BY <2>3, <2>5
<1>6. \A x \in S : Cardinality(below(x)) = k => x = i
  <2>1. ASSUME NEW x \in S, Cardinality(below(x)) = k PROVE x = i
    <3>1. x \in 1..n /\ i \in 1..n
      OBVIOUS
    <3>2. ~(x < i) /\ ~(i < x)
      BY <1>5, <2>1
    <3>3. QED
      BY <3>1, <3>2
  <2>2. QED
    BY <2>1
<1>7. (CHOOSE x \in S : Cardinality(below(x)) = k) = i
  <2> HIDE DEF below
  <2>1. QED
    BY <1>6 DEF k
<1>8. k \in 1..Cardinality(S)
  <2> HIDE DEF k
  <2>1. QED
    BY <1>3, <1>4
<1>9. k \in DOMAIN Crescente(S) /\ Crescente(S)[k] = i
  <2> DEFINE c == Cardinality(S)
             e(l) == CHOOSE x \in S : Cardinality(below(x)) = l
  <2>1. Crescente(S) = [l \in 1..c |-> e(l)]
    BY Zenon DEF Crescente
  <2>2. e(k) = i
    BY <1>7
  <2> HIDE DEF e, k, c
  <2>3. QED
    BY <1>8, <2>1, <2>2 DEF c
<1>10. QED
  BY <1>9

\* A set of positions has a first one.
LEMMA FirstOf ==
    ASSUME NEW n \in Nat, NEW I, I \subseteq 1..n, I # {}
    PROVE  \E i \in I : \A k \in I : i <= k
<1> DEFINE J == {n + 1 - i : i \in I}
<1>1. J \subseteq 1..n /\ J # {}
  <2>1. ASSUME NEW i \in I PROVE n + 1 - i \in 1..n
    <3>1. i \in 1..n
      OBVIOUS
    <3>2. QED
      BY <3>1
  <2>2. QED
    BY <2>1
<1>2. PICK j \in J : \A u \in J : u <= j
  <2> HIDE DEF J
  <2>1. QED
    BY <1>1, LastOf
<1>3. PICK i \in I : j = n + 1 - i
  OBVIOUS
<1>4. ASSUME NEW k \in I PROVE i <= k
  <2>1. i \in 1..n /\ k \in 1..n /\ n + 1 - k <= n + 1 - i
    BY <1>2, <1>3
  <2>2. QED
    BY <2>1
<1>5. QED
  BY <1>4

\* The class of every product of a package is in the block of classes.
LEMMA ClassListed ==
    ASSUME NEW m \in Nat, NEW ps, DOMAIN ps = 1..m, Len(ps) = m,
           NEW l \in 1..m, ChaveSetor(ps[l]) # Nulo
    PROVE  \E k \in DOMAIN BlocoCls(ps) : BlocoCls(ps)[k].numero = ChaveSetor(ps[l])
<1> DEFINE key == ChaveSetor(ps[l])
           I == {i \in 1..m : ChaveSetor(ps[i]) = key}
           S == {i \in DOMAIN ps : ChaveSetor(ps[i]) # Nulo
                                   /\ \A j \in 1..(i - 1) : ChaveSetor(ps[j]) # ChaveSetor(ps[i])}
           usos == Crescente(S)
           ultimo(x) == UltimoUso(ps, ChaveSetor, x)
           fonte(x) == ps[ultimo(ChaveSetor(ps[usos[x]]))]
<1>1. I \subseteq 1..m /\ I # {}
  OBVIOUS
<1>2. PICK f \in I : \A i \in I : f <= i
  <2> HIDE DEF I
  <2>1. QED
    BY <1>1, FirstOf
<1>3. f \in S
  <2>1. f \in 1..m /\ ChaveSetor(ps[f]) = key
    OBVIOUS
  <2>2. ASSUME NEW j \in 1..(f - 1) PROVE ChaveSetor(ps[j]) # key
    <3>1. j \in 1..m /\ ~(f <= j)
      BY <2>1
    <3>2. QED
      BY <1>2, <3>1
  <2>3. QED
    BY <2>1, <2>2
<1>4. PICK k \in DOMAIN usos : usos[k] = f
  <2>1. S \subseteq 1..m
    OBVIOUS
  <2> HIDE DEF S
  <2>2. QED
    BY <1>3, <2>1, CrescenteCovers
<1>5. ChaveSetor(ps[ultimo(key)]) = key
  <2>1. PICK t \in I : \A i \in I : i <= t
    <3> HIDE DEF I
    <3>1. QED
      BY <1>1, LastOf
  <2> DEFINE P(i) == ChaveSetor(ps[i]) = key /\ \A j \in (i + 1)..m : ChaveSetor(ps[j]) # key
  <2>2. t \in DOMAIN ps /\ P(t)
    <3>1. t \in 1..m /\ ChaveSetor(ps[t]) = key
      OBVIOUS
    <3>2. ASSUME NEW j \in (t + 1)..m PROVE ChaveSetor(ps[j]) # key
      <4>1. j \in 1..m /\ ~(j <= t)
        BY <3>1
      <4>2. QED
        BY <2>1, <4>1
    <3>3. QED
      BY <3>1, <3>2
  <2>3. ultimo(key) = CHOOSE i \in DOMAIN ps : P(i)
    BY Zenon DEF UltimoUso
  <2> HIDE DEF ultimo, key
  <2>4. P(ultimo(key))
    <3> HIDE DEF P
    <3>1. QED
      BY <2>2, <2>3
  <2>5. QED
    BY <2>4
<1>6. ChaveSetor(ps[f]) = key
  OBVIOUS
<1>7. fonte(k).setor.numero = key
  <2>1. fonte(k) = ps[ultimo(key)]
    BY <1>4, <1>6
  <2> DEFINE p == ps[ultimo(key)]
  <2>2. ChaveSetor(p) = key /\ key # Nulo
    BY <1>5
  <2> HIDE DEF p, key, fonte
  <2>3. p.setor.numero = key
    BY <2>2 DEF ChaveSetor
  <2>4. QED
    BY <2>1, <2>3 DEF p
<1>8. BlocoCls(ps) = [x \in DOMAIN usos |-> ClsRow(fonte(x).setor)]
  BY Zenon DEF BlocoCls, PrimeirosUsos
<1> HIDE DEF usos, fonte, key
<1>9. k \in DOMAIN BlocoCls(ps) /\ BlocoCls(ps)[k].numero = key
  BY <1>4, <1>7, <1>8 DEF ClsRow
<1>10. QED
  BY <1>9 DEF key

\* What is put before stays where it is.
LEMMA Extends ==
    ASSUME NEW T, NEW s \in Seq(T), NEW t \in Seq(T)
    PROVE  s \o t \in Seq(T) /\ Len(s) <= Len(s \o t) /\ \A i \in 1..Len(s) : (s \o t)[i] = s[i]
<1>1. /\ s \o t \in Seq(T) /\ Len(s \o t) = Len(s) + Len(t)
      /\ \A i \in 1..(Len(s) + Len(t)) : (s \o t)[i] = IF i <= Len(s) THEN s[i] ELSE t[i - Len(s)]
  BY ConcatProperties
<1> DEFINE u == s \o t
<1>2. Len(s) \in Nat /\ Len(t) \in Nat
  OBVIOUS
<1> HIDE DEF u
<1>3. u \in Seq(T) /\ Len(s) <= Len(u) /\ \A i \in 1..Len(s) : u[i] = s[i]
  BY <1>1, <1>2 DEF u
<1>4. QED
  BY <1>3 DEF u

\* A package begins with its images and its classes, in this order, and has no class
\* anywhere else.
LEMMA ClassesLead ==
    ASSUME NEW m \in Nat, NEW k \in Nat, NEW ps, NEW fs, DOMAIN ps = 1..m, DOMAIN fs = 1..k
    PROVE  LET body == BuildSyncBody(ps, fs)
               b == Len(BlocoBmp(ps))
               c == Len(BlocoCls(ps))
           IN  /\ b \in Nat /\ c \in Nat /\ DOMAIN BlocoCls(ps) = 1..c
               /\ b + c <= Len(body)
               /\ \A i \in 1..c : body[b + i] = BlocoCls(ps)[i] /\ body[b + i].bloco = "CLS"
               /\ \A i \in 1..(b + c) : body[i].bloco # "PLU"
               /\ \A i \in 1..Len(body) : body[i].bloco = "CLS" =>
                      body[i] \in Rows(BlocoCls(ps))
<1> DEFINE bmp == BlocoBmp(ps)
           cls == BlocoCls(ps)
           plu == BlocoPlu(ps)
           nu3 == BlocoNu3(ps)
           ir2 == BlocoIr2(ps)
           lab == BlocoLab(ps, fs)
           T == Rows(plu) \cup Rows(bmp) \cup Rows(cls) \cup Rows(nu3) \cup Rows(ir2) \cup Rows(lab)
           body == BuildSyncBody(ps, fs)
           h1 == bmp \o cls
           h2 == h1 \o plu
           h3 == h2 \o nu3
           h4 == h3 \o ir2
           h5 == h4 \o lab
<1>1. /\ IsBlock(bmp, "BMP") /\ IsBlock(cls, "CLS") /\ IsBlock(nu3, "NU3")
      /\ IsBlock(ir2, "IR2") /\ IsBlock(lab, "LAB")
  BY Blocks
<1>2. IsBlock(plu, "PLU")
  <2>1. plu = [i \in 1..m |-> plu[i]] /\ \A i \in 1..m : plu[i].bloco = "PLU"
    BY DEF BlocoPlu, PluRow
  <2> HIDE DEF plu
  <2>2. QED
    BY <2>1, BlockOf
<1>3. body = h5
  BY Zenon DEF BuildSyncBody
<1> HIDE DEF bmp, cls, plu, nu3, ir2, lab, body
<1>4. bmp \in Seq(T) /\ cls \in Seq(T) /\ plu \in Seq(T) /\ nu3 \in Seq(T) /\ ir2 \in Seq(T) /\ lab \in Seq(T)
  BY <1>1, <1>2, SeqMonotonic DEF IsBlock
<1>5. \A r \in T : r.bloco = "CLS" => r \in Rows(cls)
  BY <1>1, <1>2 DEF IsBlock
<1>6. (\A r \in Rows(bmp) : r.bloco = "BMP") /\ (\A r \in Rows(cls) : r.bloco = "CLS")
  BY <1>1 DEF IsBlock
<1> HIDE DEF T
<1>7. /\ h1 \in Seq(T) /\ Len(h1) = Len(bmp) + Len(cls)
      /\ \A i \in 1..(Len(bmp) + Len(cls)) : h1[i] = IF i <= Len(bmp) THEN bmp[i] ELSE cls[i - Len(bmp)]
  BY <1>4, ConcatProperties
<1> HIDE DEF h1
<1>8. h2 \in Seq(T) /\ Len(h1) <= Len(h2) /\ \A i \in 1..Len(h1) : h2[i] = h1[i]
  BY <1>4, <1>7, Extends
<1> HIDE DEF h2
<1>9. h3 \in Seq(T) /\ Len(h2) <= Len(h3) /\ \A i \in 1..Len(h2) : h3[i] = h2[i]
  BY <1>4, <1>8, Extends
<1> HIDE DEF h3
<1>10. h4 \in Seq(T) /\ Len(h3) <= Len(h4) /\ \A i \in 1..Len(h3) : h4[i] = h3[i]
  BY <1>4, <1>9, Extends
<1> HIDE DEF h4
<1>11. h5 \in Seq(T) /\ Len(h4) <= Len(h5) /\ \A i \in 1..Len(h4) : h5[i] = h4[i]
  BY <1>4, <1>10, Extends
<1> HIDE DEF h5
<1> DEFINE b == Len(bmp)
           c == Len(cls)
<1>12. /\ b \in Nat /\ c \in Nat /\ DOMAIN cls = 1..c /\ DOMAIN bmp = 1..b
       /\ Len(h1) \in Nat /\ Len(h2) \in Nat /\ Len(h3) \in Nat /\ Len(h4) \in Nat /\ Len(h5) \in Nat
  <2>1. \A s \in Seq(T) : Len(s) \in Nat /\ DOMAIN s = 1..Len(s)
    BY LenProperties
  <2>2. QED
    BY <2>1, <1>4, <1>7, <1>8, <1>9, <1>10, <1>11
<1>13. Len(h1) = b + c /\ \A i \in 1..(b + c) : h1[i] = IF i <= b THEN bmp[i] ELSE cls[i - b]
  BY <1>7
<1> HIDE DEF b, c
<1>14. \A i \in 1..b : h1[i] = bmp[i]
  <2>1. \A i \in 1..b : i \in 1..(b + c) /\ i <= b
    BY <1>12
  <2>2. QED
    BY <1>13, <2>1
<1>15. \A i \in 1..c : h1[b + i] = cls[i]
  <2>1. \A i \in 1..c : b + i \in 1..(b + c) /\ ~(b + i <= b) /\ (b + i) - b = i
    BY <1>12
  <2>2. QED
    BY <1>13, <2>1
<1>16. b + c <= Len(h5) /\ \A i \in 1..(b + c) : h5[i] = h1[i]
  <2>1. Len(h1) <= Len(h2) /\ Len(h2) <= Len(h3) /\ Len(h3) <= Len(h4) /\ Len(h4) <= Len(h5)
    BY <1>8, <1>9, <1>10, <1>11
  <2>2. b + c <= Len(h5)
    BY <2>1, <1>12, <1>13
  <2>3. ASSUME NEW i \in 1..(b + c) PROVE h5[i] = h1[i]
    <3>1. i \in 1..Len(h1) /\ i \in 1..Len(h2) /\ i \in 1..Len(h3) /\ i \in 1..Len(h4)
      BY <2>1, <1>12, <1>13
    <3>2. QED
      BY <3>1, <1>8, <1>9, <1>10, <1>11
  <2>4. QED
    BY <2>2, <2>3
<1>17. \A i \in 1..c : b + i \in 1..(b + c)
  BY <1>12
<1>18. \A i \in 1..c : h5[b + i] = cls[i] /\ cls[i].bloco = "CLS"
  BY <1>6, <1>12, <1>15, <1>16, <1>17 DEF Rows
<1>19. ASSUME NEW i \in 1..(b + c) PROVE h5[i].bloco # "PLU"
  <2>1. CASE i <= b
    <3>1. i \in 1..b
      BY <1>12, <2>1
    <3>2. h5[i] = bmp[i] /\ bmp[i] \in Rows(bmp)
      BY <1>12, <1>14, <1>16, <3>1 DEF Rows
    <3>3. QED
      BY <1>6, <3>2
  <2>2. CASE ~(i <= b)
    <3>1. i - b \in 1..c /\ b + (i - b) = i
      BY <1>12, <2>2
    <3>2. h5[b + (i - b)].bloco = "CLS"
      BY <1>18, <3>1
    <3>3. QED
      BY <3>1, <3>2
  <2>3. QED
    BY <2>1, <2>2
<1>20. \A i \in 1..Len(h5) : h5[i].bloco = "CLS" => h5[i] \in Rows(cls)
  BY <1>5, <1>11, ElementOfSeq
<1>21. QED
  BY <1>3, <1>12, <1>16, <1>18, <1>19, <1>20 DEF bmp, cls, b, c, body

\* Whatever prefix of a package the scale takes, in a slot that no position reaches it
\* finds a product whose code it is.
LEMMA DeliveryKeepsSlots ==
    ASSUME DOMAIN memory = Address, SlotIsItsOwners, NEW job, PackageFits(job),
           NEW n \in Nat, NEW q \in Nat, n <= q, q <= Len(Body(job)),
           memory' = Written(memory, SubSeq(Body(job), n + 1, q))
    PROVE  DOMAIN memory' = Address /\ SlotIsItsOwners'
<1> DEFINE read == job.read
           ps == Package(job).products
           fs == Package(job).loose
           rows == SubSeq(Body(job), n + 1, q)
           m == Len(read)
           d == q - n
<1>1. /\ m \in Nat /\ m <= Cardinality(Products) /\ Len(job.loose) \in Nat
      /\ DOMAIN read = 1..m /\ DOMAIN job.loose = 1..Len(job.loose)
  BY DEF PackageFits
<1>2. DOMAIN ps = 1..m /\ DOMAIN fs = 1..Len(job.loose)
  BY <1>1 DEF Package
<1>3. \A i \in 1..m : ps[i].id = read[i].id /\ ps[i].codigo = Codigo[ps[i].id]
  BY <1>1 DEF Package, ProductPayload
<1>4. Body(job) = BuildSyncBody(ps, fs)
  BY DEF Body
<1> HIDE DEF ps, fs
<1>5. /\ DOMAIN rows = 1..d /\ d \in Nat
      /\ \A i \in 1..d : rows[i].bloco = "PLU" =>
           \E l \in 1..m : rows[i] = PluRow(ps[l], ResolvePluNumber(ps[l].codigo, l))
  <2> DEFINE k == Len(job.loose)
  <2>1. m \in Nat /\ k \in Nat /\ DOMAIN ps = 1..m /\ DOMAIN fs = 1..k /\ q <= Len(BuildSyncBody(ps, fs))
    BY <1>1, <1>2, <1>4
  <2>2. d \in Nat
    OBVIOUS
  <2> HIDE DEF m, k, read
  <2>3. Segment(rows, Body(job), n, q) /\ PluOf(rows, q - n, ps, m)
    BY <1>4, <2>1, PluRows
  <2> HIDE DEF rows
  <2>4. QED
    BY <2>2, <2>3 DEF Segment, PluOf
<1>6. DOMAIN memory' = Address
  BY DEF Written
<1> HIDE DEF rows, d
<1>7. Cardinality(Products) \in Nat
  BY CatalogueIsFinite
<1>8. ASSUME NEW s \in Slots, s > Cardinality(Products), memory'[<<"PLU", s>>] # Nulo
      PROVE  Codigo[memory'[<<"PLU", s>>].id] = s
  <2> DEFINE a == <<"PLU", s>>
             I == {i \in DOMAIN rows : <<rows[i].bloco, rows[i].numero>> = a}
             last == CHOOSE i \in I : \A k \in I : k <= i
  <2>1. a \in Address
    BY DEF Address
  <2>2. memory'[a] = IF I = {} THEN memory[a] ELSE rows[last]
    <3>1. memory' = Written(memory, rows)
      BY DEF rows
    <3>2. memory'[a] = IF I = {} \/ (a[1] = "LAB" /\ a[2] \in FactorySlots) THEN memory[a] ELSE rows[last]
      BY <2>1, <3>1, Zenon DEF Written
    <3>3. a[1] = "PLU"
      OBVIOUS
    <3> HIDE DEF a, I, last
    <3>4. QED
      BY <3>2, <3>3
  <2>3. CASE I = {}
    BY <1>8, <2>2, <2>3 DEF SlotIsItsOwners
  <2>4. CASE I # {}
    <3>1. last \in I
      <4>1. I \subseteq 1..d
        BY <1>5
      <4>2. \E i \in I : \A k \in I : k <= i
        <5> HIDE DEF I, d
        <5>1. QED
          BY <1>5, <4>1, <2>4, LastOf
      <4>3. QED
        BY <4>2
    <3>2. rows[last].bloco = "PLU" /\ rows[last].numero = s /\ last \in 1..d
      BY <3>1, <1>5
    <3> HIDE DEF I, last
    <3>3. PICK l \in 1..m : rows[last] = PluRow(ps[l], ResolvePluNumber(ps[l].codigo, l))
      BY <3>2, <1>5
    <3>4. rows[last].id = ps[l].id /\ s = ResolvePluNumber(ps[l].codigo, l)
      BY <3>2, <3>3 DEF PluRow
    <3>5. l # s
      BY <1>1, <1>7, <1>8
    <3>6. ps[l].codigo = s
      BY <3>4, <3>5 DEF ResolvePluNumber
    <3>7. QED
      BY <1>3, <2>2, <2>4, <3>4, <3>6
  <2>5. QED
    BY <2>3, <2>4
<1>9. SlotIsItsOwners'
  BY <1>8 DEF SlotIsItsOwners
<1>10. QED
  BY <1>6, <1>9

\* What a write leaves at an address outside the layouts: what was there, or one of
\* the rows for it.
LEMMA WrittenRow ==
    ASSUME NEW mem, NEW rows, NEW n \in Nat, DOMAIN rows = 1..n, NEW a \in Address, a[1] # "LAB"
    PROVE  \/ /\ \A i \in 1..n : <<rows[i].bloco, rows[i].numero>> # a
              /\ Written(mem, rows)[a] = mem[a]
           \/ \E i \in 1..n : /\ <<rows[i].bloco, rows[i].numero>> = a
                              /\ Written(mem, rows)[a] = rows[i]
<1> DEFINE I == {i \in DOMAIN rows : <<rows[i].bloco, rows[i].numero>> = a}
           last == CHOOSE i \in I : \A k \in I : k <= i
<1>1. Written(mem, rows)[a] = IF I = {} \/ (a[1] = "LAB" /\ a[2] \in FactorySlots) THEN mem[a] ELSE rows[last]
  BY Zenon DEF Written
<1>2. CASE I = {}
  BY <1>1, <1>2
<1>3. CASE I # {}
  <2>1. I \subseteq 1..n
    OBVIOUS
  <2>2. last \in I
    <3>1. \E i \in I : \A k \in I : k <= i
      <4> HIDE DEF I
      <4>1. QED
        BY <1>3, <2>1, LastOf
    <3> HIDE DEF I
    <3>2. QED
      BY <3>1
  <2>3. Written(mem, rows)[a] = rows[last]
    BY <1>1, <1>3
  <2> HIDE DEF last
  <2>4. last \in 1..n /\ <<rows[last].bloco, rows[last].numero>> = a
    BY <2>2
  <2>5. QED
    BY <2>3, <2>4
<1>4. QED
  BY <1>2, <1>3

\* A row of the block of classes says no more than its number.
LEMMA ClassRow ==
    ASSUME NEW ps, NEW r \in Rows(BlocoCls(ps))
    PROVE  r = [bloco |-> "CLS", numero |-> r.numero]
<1> DEFINE usos == PrimeirosUsos(ps, ChaveSetor)
           fonte(k) == ps[UltimoUso(ps, ChaveSetor, ChaveSetor(ps[usos[k]]))]
<1>1. BlocoCls(ps) = [k \in DOMAIN usos |-> ClsRow(fonte(k).setor)]
  BY Zenon DEF BlocoCls
<1> HIDE DEF usos, fonte
<1>2. PICK k \in DOMAIN usos : r = ClsRow(fonte(k).setor)
  BY <1>1 DEF Rows
<1>3. QED
  BY <1>2 DEF ClsRow

\* The rows a package begins with, and those after them; its classes say no more than
\* their numbers.
LEMMA PackageRows ==
    ASSUME NEW job, PackageFits(job), NEW n \in Nat, NEW q \in Nat, n <= q, q <= Len(Body(job))
    PROVE  LET body == Body(job)
               rows == SubSeq(body, n + 1, q) IN
           /\ Len(body) \in Nat /\ q - n \in Nat /\ DOMAIN rows = 1..(q - n)
           /\ \A i \in 1..(q - n) : n + i \in 1..Len(body) /\ rows[i] = body[n + i]
           /\ \A i \in 1..Len(body) : body[i].bloco = "CLS" =>
                 body[i] = [bloco |-> "CLS", numero |-> body[i].numero]
<1> DEFINE ps == Package(job).products
           fs == Package(job).loose
           m == Len(job.read)
           k == Len(job.loose)
           body == BuildSyncBody(ps, fs)
<1>1. m \in Nat /\ k \in Nat /\ DOMAIN ps = 1..m /\ DOMAIN fs = 1..k
  BY DEF PackageFits, Package
<1>2. Body(job) = body
  BY DEF Body
<1> HIDE DEF ps, fs, m, k
<1>3. Len(body) \in Nat
  BY <1>1, BodyIsList
<1>4. \A i \in 1..Len(body) : body[i].bloco = "CLS" => body[i] \in Rows(BlocoCls(ps))
  BY <1>1, ClassesLead
<1>5. /\ DOMAIN SubSeq(body, n + 1, q) = 1..(q - n)
      /\ \A i \in 1..(q - n) : n + i \in 1..Len(body) /\ SubSeq(body, n + 1, q)[i] = body[n + i]
  <2>1. q <= Len(BuildSyncBody(ps, fs))
    BY <1>2
  <2>2. Segment(SubSeq(body, n + 1, q), body, n, q)
    BY <1>1, <2>1, PluRows
  <2> HIDE DEF body
  <2>3. QED
    BY <2>2 DEF Segment
<1> HIDE DEF body
<1>6. \A i \in 1..Len(body) : body[i].bloco = "CLS" =>
          body[i] = [bloco |-> "CLS", numero |-> body[i].numero]
  BY <1>4, ClassRow
<1>7. q - n \in Nat
  OBVIOUS
<1>8. QED
  BY <1>2, <1>3, <1>5, <1>6, <1>7

\* A class that has a place on the scale and is there, or comes, is there afterwards.
LEMMA ClassStays ==
    ASSUME NEW job, PackageFits(job), NEW n \in Nat, NEW q \in Nat, n <= q, q <= Len(Body(job)),
           memory' = Written(memory, SubSeq(Body(job), n + 1, q)),
           NEW x, <<"CLS", x>> \in Address,
           \/ memory[<<"CLS", x>>] # Nulo
           \/ \E i \in (n + 1)..q : Body(job)[i].bloco = "CLS" /\ Body(job)[i].numero = x
    PROVE  memory'[<<"CLS", x>>] # Nulo
<1> DEFINE body == Body(job)
           rows == SubSeq(body, n + 1, q)
           d == q - n
           a == <<"CLS", x>>
<1>1. /\ DOMAIN rows = 1..d /\ d \in Nat /\ memory' = Written(memory, rows)
      /\ \A i \in 1..d : n + i \in 1..Len(body) /\ rows[i] = body[n + i]
      /\ \A i \in 1..Len(body) : body[i].bloco = "CLS" =>
            body[i] = [bloco |-> "CLS", numero |-> body[i].numero]
  BY PackageRows
<1>2. memory[a] # Nulo \/ \E i \in 1..d : rows[i].bloco = "CLS" /\ rows[i].numero = x
  <2>1. CASE memory[a] # Nulo
    BY <2>1
  <2>2. CASE \E i \in (n + 1)..q : body[i].bloco = "CLS" /\ body[i].numero = x
    <3>1. PICK i \in (n + 1)..q : body[i].bloco = "CLS" /\ body[i].numero = x
      BY <2>2
    <3>2. i - n \in 1..d /\ n + (i - n) = i
      OBVIOUS
    <3> HIDE DEF rows, body, d
    <3>3. QED
      BY <1>1, <3>1, <3>2
  <2>3. QED
    BY <2>1, <2>2
<1>3. a[1] # "LAB" /\ x \in Classes
  BY DEF Address
<1> HIDE DEF rows, body, d
<1>4. CASE (\A i \in 1..d : <<rows[i].bloco, rows[i].numero>> # a) /\ memory'[a] = memory[a]
  BY <1>2, <1>4
<1>5. CASE \E i \in 1..d : <<rows[i].bloco, rows[i].numero>> = a /\ memory'[a] = rows[i]
  <2>1. PICK i \in 1..d : <<rows[i].bloco, rows[i].numero>> = a /\ memory'[a] = rows[i]
    BY <1>5
  <2>2. rows[i].bloco = "CLS" /\ rows[i].numero = x
    BY <2>1
  <2>3. rows[i] = [bloco |-> "CLS", numero |-> x]
    BY <1>1, <2>2
  <2>4. PICK p \in Products : SectorOf[p] # Nulo /\ x = SectorOf[p].numero
    BY <1>3 DEF Classes
  <2>5. rows[i] = ClsRow(SectorOf[p])
    BY <2>3, <2>4 DEF ClsRow
  <2>6. QED
    BY <2>1, <2>4, <2>5, CatalogAssumption
<1>6. a \in Address
  OBVIOUS
<1> HIDE DEF a
<1>7. \/ (\A i \in 1..d : <<rows[i].bloco, rows[i].numero>> # a) /\ memory'[a] = memory[a]
      \/ \E i \in 1..d : <<rows[i].bloco, rows[i].numero>> = a /\ memory'[a] = rows[i]
  BY <1>1, <1>3, <1>6, WrittenRow
<1>8. QED
  BY <1>4, <1>5, <1>7 DEF a

\* Whatever rows of a package the scale takes next, the classes its products refer to are
\* among them or on the scale already.
LEMMA DeliveryKeepsClasses ==
    ASSUME DOMAIN memory = Address, ClassesKnown, ClassBeforeProduct,
           NEW job, PackageFits(job),
           NEW n \in Nat, NEW q \in Nat, n <= q, q <= Len(Body(job)), ClassesCame(Body(job), n),
           memory' = Written(memory, SubSeq(Body(job), n + 1, q))
    PROVE  ClassesKnown' /\ ClassBeforeProduct'
<1> DEFINE read == job.read
           ps == Package(job).products
           fs == Package(job).loose
           body == BuildSyncBody(ps, fs)
           rows == SubSeq(body, n + 1, q)
           d == q - n
           m == Len(read)
           k == Len(job.loose)
           b == Len(BlocoBmp(ps))
           c == Len(BlocoCls(ps))
<1>1. /\ m \in Nat /\ k \in Nat
      /\ DOMAIN read = 1..m /\ DOMAIN job.loose = 1..k /\ \A i \in 1..m : read[i].id \in Products
  <2>2. read \in Seq(ProductRead) /\ job.loose \in Seq(FormatRead)
    BY DEF PackageFits
  <2> HIDE DEF read
  <2>3. m \in Nat /\ k \in Nat /\ DOMAIN read = 1..m /\ DOMAIN job.loose = 1..k
    BY <2>2, LenProperties
  <2>4. \A i \in 1..m : read[i] \in ProductRead
    BY <2>2, ElementOfSeq
  <2>5. \A i \in 1..m : read[i].id \in Products
    BY <2>4 DEF ProductRead
  <2>6. QED
    BY <2>3, <2>5
<1>2. ps = [i \in 1..m |-> ProductPayload(read[i])] /\ DOMAIN fs = 1..k
  BY <1>1 DEF Package
<1>3. DOMAIN ps = 1..m /\ Len(ps) = m
  <2> DEFINE e(i) == ProductPayload(read[i])
  <2>1. ps = [i \in 1..m |-> e(i)] /\ m \in Nat
    BY <1>1, <1>2
  <2> HIDE DEF ps, m, e
  <2>2. QED
    BY <2>1
<1>4. \A i \in 1..m : ps[i].setor = SectorOf[read[i].id] /\ read[i].id \in Products
  <2> HIDE DEF ps, m, read
  <2>1. \A i \in 1..m : ps[i] = ProductPayload(read[i])
    BY <1>2
  <2>2. ASSUME NEW x PROVE ProductPayload(x).setor = SectorOf[x.id]
    BY DEF ProductPayload
  <2>3. \A i \in 1..m : ps[i].setor = SectorOf[read[i].id]
    BY <2>1, <2>2
  <2>4. QED
    BY <1>1, <2>3
<1>5. Body(job) = body /\ memory' = Written(memory, rows) /\ q <= Len(body)
  BY DEF Body
<1> HIDE DEF ps, fs, m, k, read
<1>6. /\ b \in Nat /\ c \in Nat /\ DOMAIN BlocoCls(ps) = 1..c /\ b + c <= Len(body)
      /\ \A i \in 1..c : body[b + i] = BlocoCls(ps)[i] /\ body[b + i].bloco = "CLS"
      /\ \A i \in 1..(b + c) : body[i].bloco # "PLU"
      /\ \A i \in 1..Len(body) : body[i].bloco = "CLS" => body[i] \in Rows(BlocoCls(ps))
  BY <1>1, <1>2, <1>3, ClassesLead
<1>7. /\ DOMAIN rows = 1..d
      /\ \A i \in 1..d : n + i \in 1..Len(body) /\ rows[i] = body[n + i]
      /\ \A i \in 1..d : rows[i].bloco = "PLU" =>
            \E l \in 1..m : rows[i] = PluRow(ps[l], ResolvePluNumber(ps[l].codigo, l))
  <2>1. m \in Nat /\ k \in Nat /\ DOMAIN ps = 1..m /\ DOMAIN fs = 1..k /\ q <= Len(BuildSyncBody(ps, fs))
    BY <1>1, <1>2, <1>3, <1>5
  <2>2. Segment(rows, body, n, q) /\ PluOf(rows, q - n, ps, m)
    BY <2>1, PluRows
  <2> HIDE DEF rows, body
  <2>3. QED
    BY <2>2 DEF Segment, PluOf
<1>8. Len(body) \in Nat /\ d \in Nat
  BY <1>1, <1>2, <1>3, BodyIsList
<1>9. ASSUME NEW x \in Classes, x >= ClassMin,
             memory[<<"CLS", x>>] # Nulo
             \/ \E i \in (n + 1)..q : Body(job)[i].bloco = "CLS" /\ Body(job)[i].numero = x
      PROVE  memory'[<<"CLS", x>>] # Nulo
  <2>1. <<"CLS", x>> \in Address
    BY <1>9 DEF Address
  <2>2. QED
    BY <1>9, <2>1, ClassStays
<1> HIDE DEF rows, body, b, c, d
<1>10. ASSUME NEW s \in Slots, memory'[<<"PLU", s>>] # Nulo, memory'[<<"PLU", s>>].classe >= ClassMin
       PROVE  /\ memory'[<<"PLU", s>>].classe \in Classes
              /\ memory'[<<"CLS", memory'[<<"PLU", s>>].classe>>] # Nulo
  <2> DEFINE a == <<"PLU", s>>
  <2>1. a \in Address /\ a[1] # "LAB"
    BY DEF Address
  <2>2. CASE memory'[a] = memory[a]
    <3>1. memory[a].classe \in Classes /\ memory[<<"CLS", memory[a].classe>>] # Nulo
      BY <1>10, <2>2 DEF ClassesKnown, ClassBeforeProduct
    <3>2. QED
      BY <1>9, <1>10, <2>2, <3>1
  <2>3. CASE \E i \in 1..d : <<rows[i].bloco, rows[i].numero>> = a /\ memory'[a] = rows[i]
    <3>1. PICK i \in 1..d : <<rows[i].bloco, rows[i].numero>> = a /\ memory'[a] = rows[i]
      BY <2>3
    <3>2. rows[i].bloco = "PLU"
      BY <3>1
    <3>3. PICK l \in 1..m : rows[i] = PluRow(ps[l], ResolvePluNumber(ps[l].codigo, l))
      BY <1>7, <3>2
    <3> DEFINE x == rows[i].classe
    <3>4. ps[l].setor # Nulo /\ ps[l].setor.numero >= ClassMin /\ x = ps[l].setor.numero
      <4>1. x = IF ps[l].setor # Nulo /\ ps[l].setor.numero >= ClassMin THEN ps[l].setor.numero ELSE 9
        BY <3>3 DEF PluRow
      <4>2. x >= ClassMin
        BY <1>10, <3>1
      <4>3. ClassMin \in Nat /\ ~(9 >= ClassMin)
        BY EncodingAssumption
      <4> HIDE DEF x
      <4>4. QED
        BY <4>1, <4>2, <4>3
    <3>5. x \in Classes /\ x # Nulo
      <4>1. ps[l].setor = SectorOf[read[l].id] /\ read[l].id \in Products
        BY <1>4
      <4>2. QED
        BY <3>4, <4>1, CatalogAssumption DEF Classes
    <3>6. ChaveSetor(ps[l]) = x
      BY <3>4 DEF ChaveSetor
    <3>7. PICK e \in 1..c : BlocoCls(ps)[e].numero = x
      <4>1. ChaveSetor(ps[l]) # Nulo
        BY <3>5, <3>6
      <4>2. \E e \in DOMAIN BlocoCls(ps) : BlocoCls(ps)[e].numero = ChaveSetor(ps[l])
        <5>1. m \in Nat
          BY <1>1
        <5>2. QED
          BY <1>3, <4>1, <5>1, ClassListed, SMTT(60)
      <4> HIDE DEF x
      <4>3. QED
        BY <1>6, <3>6, <4>2
    <3>8. body[b + e].bloco = "CLS" /\ body[b + e].numero = x
      BY <1>6, <3>7
    <3>9. b + e \in 1..n \/ b + e \in (n + 1)..q
      <4>1. n + i \in 1..Len(body) /\ n + i \notin 1..(b + c)
        BY <1>6, <1>7, <3>2
      <4>2. d = q - n /\ i \in 1..d
        BY DEF d
      <4>3. QED
        BY <1>6, <1>8, <4>1, <4>2
    <3>10. memory[<<"CLS", x>>] # Nulo
           \/ \E y \in (n + 1)..q : Body(job)[y].bloco = "CLS" /\ Body(job)[y].numero = x
      <4>1. CASE b + e \in 1..n
        <5>1. Body(job)[b + e].bloco = "CLS" /\ Body(job)[b + e].numero = x
          BY <1>5, <3>8
        <5>2. <<"CLS", x>> \in Address
          BY <3>4, <3>5 DEF Address
        <5> HIDE DEF x
        <5>3. QED
          BY <4>1, <5>1, <5>2 DEF ClassesCame
      <4>2. CASE b + e \in (n + 1)..q
        BY <1>5, <3>8, <4>2
      <4>3. QED
        BY <3>9, <4>1, <4>2
    <3>11. memory'[a].classe = x /\ x >= ClassMin
      BY <1>10, <3>1
    <3> HIDE DEF x
    <3>12. QED
      BY <1>9, <3>5, <3>10, <3>11
  <2> HIDE DEF a
  <2>4. memory'[a] = memory[a] \/ \E i \in 1..d : <<rows[i].bloco, rows[i].numero>> = a /\ memory'[a] = rows[i]
    BY <1>5, <1>7, <1>8, <2>1, WrittenRow
  <2>5. QED
    BY <2>2, <2>3, <2>4
<1>11. QED
  BY <1>10 DEF ClassesKnown, ClassBeforeProduct

\* What of a package came keeps its classes there, whatever lands.
LEMMA ClassesGrow ==
    ASSUME NEW job, PackageFits(job), NEW n \in Nat, NEW q \in Nat, n <= q, q <= Len(Body(job)),
           memory' = Written(memory, SubSeq(Body(job), n + 1, q)),
           NEW rows, NEW k \in Nat, ClassesCame(rows, k)
    PROVE  ClassesCame(rows, k)'
<1>1. ASSUME NEW i \in 1..k, rows[i].bloco = "CLS", <<rows[i].bloco, rows[i].numero>> \in Address
      PROVE  memory'[<<rows[i].bloco, rows[i].numero>>] # Nulo
  <2>1. memory[<<"CLS", rows[i].numero>>] # Nulo /\ <<"CLS", rows[i].numero>> \in Address
    BY <1>1 DEF ClassesCame
  <2>2. QED
    BY <1>1, <2>1, ClassStays
<1>2. QED
  BY <1>1 DEF ClassesCame

\* And so does the package that lands.
LEMMA ClassesLand ==
    ASSUME NEW job, PackageFits(job), NEW n \in Nat, NEW q \in Nat, n <= q, q <= Len(Body(job)),
           memory' = Written(memory, SubSeq(Body(job), n + 1, q)), ClassesCame(Body(job), n)
    PROVE  ClassesCame(Body(job), q)'
<1> DEFINE rows == Body(job)
<1>1. ASSUME NEW i \in 1..q, rows[i].bloco = "CLS", <<rows[i].bloco, rows[i].numero>> \in Address
      PROVE  memory'[<<rows[i].bloco, rows[i].numero>>] # Nulo
  <2>1. \/ memory[<<"CLS", rows[i].numero>>] # Nulo
        \/ \E y \in (n + 1)..q : rows[y].bloco = "CLS" /\ rows[y].numero = rows[i].numero
    <3>1. CASE i <= n
      <4>1. i \in 1..n
        BY <3>1
      <4>2. QED
        BY <1>1, <4>1 DEF ClassesCame
    <3>2. CASE ~(i <= n)
      <4>1. i \in (n + 1)..q
        BY <3>2
      <4>2. QED
        BY <1>1, <4>1
    <3>3. QED
      BY <3>1, <3>2
  <2>2. QED
    BY <1>1, <2>1, ClassStays
<1>2. QED
  BY <1>1 DEF ClassesCame

\* The part of the invariant about the scale.
ScaleFits == DOMAIN memory = Address /\ SlotIsItsOwners /\ ClassesKnown /\ ClassBeforeProduct /\ RestsFit

LEMMA JobFits ==
    ASSUME JobsFit, NEW j \in 1..MaxJobs, jobs[j] # Nulo PROVE PackageFits(jobs[j])
  BY DEF JobsFit, ReadsFit, PackageFits, Job

\* A whole package.
LEMMA WholePackage ==
    ASSUME NEW job, PackageFits(job)
    PROVE  SubSeq(Body(job), 1, Len(Body(job))) = Body(job) /\ Len(Body(job)) \in Nat
<1> DEFINE ps == Package(job).products
           fs == Package(job).loose
           m == Len(job.read)
           k == Len(job.loose)
           body == BuildSyncBody(ps, fs)
<1>1. m \in Nat /\ k \in Nat /\ DOMAIN ps = 1..m /\ DOMAIN fs = 1..k
  BY DEF PackageFits, Package
<1>2. Body(job) = body
  BY DEF Body
<1> HIDE DEF ps, fs, m, k
<1>3. PICK T : body \in Seq(T)
  BY <1>1, BodyRows
<1> HIDE DEF body
<1>4. SubSeq(body, 1, Len(body)) = body
  BY <1>3, SubSeqFull
<1>5. QED
  BY <1>2, <1>3, <1>4

\* The rows of a package from n + 1 to q land, what came of it being what the scale
\* has; of the rest no more is kept than that.
LEMMA Lands ==
    ASSUME ScaleFits, NEW job, PackageFits(job), NEW n \in Nat, NEW q \in Nat, n <= q, q <= Len(Body(job)),
           ClassesCame(Body(job), n), Take(SubSeq(Body(job), n + 1, q)),
           adrift' \subseteq adrift \cup Left(job, Body(job), q)
    PROVE  ScaleFits'
<1> DEFINE body == Body(job)
<1>1. memory' = Written(memory, SubSeq(body, n + 1, q))
  BY DEF Take
<1>2. DOMAIN memory = Address /\ SlotIsItsOwners /\ ClassesKnown /\ ClassBeforeProduct /\ RestsFit
  BY DEF ScaleFits
<1>3. DOMAIN memory' = Address /\ SlotIsItsOwners'
  BY <1>1, <1>2, DeliveryKeepsSlots
<1>4. ClassesKnown' /\ ClassBeforeProduct'
  BY <1>1, <1>2, DeliveryKeepsClasses
<1>5. ASSUME NEW r \in adrift
      PROVE  PackageFits(r) /\ r.body = Body(r) /\ r.came \in 0..Len(r.body) /\ ClassesCame(r.body, r.came)'
  <2>1. PackageFits(r) /\ r.body = Body(r) /\ r.came \in 0..Len(r.body) /\ ClassesCame(r.body, r.came)
    BY <1>2 DEF RestsFit
  <2>2. r.came \in Nat
    BY <2>1
  <2>3. QED
    BY <1>1, <2>1, <2>2, ClassesGrow
<1>6. ASSUME NEW r \in Left(job, body, q)
      PROVE  PackageFits(r) /\ r.body = Body(r) /\ r.came \in 0..Len(r.body) /\ ClassesCame(r.body, r.came)'
  <2>1. r = [read |-> job.read, loose |-> job.loose, body |-> body, came |-> q]
    BY DEF Left
  <2>2. r.read = job.read /\ r.loose = job.loose /\ r.body = body /\ r.came = q
    BY <2>1
  <2>3. PackageFits(r)
    BY <2>2 DEF PackageFits
  <2>4. Body(r) = body
    BY <2>2 DEF Body, Package
  <2>5. Len(body) \in Nat /\ q <= Len(body)
    BY WholePackage
  <2>6. ClassesCame(body, q)'
    BY <1>1, ClassesLand
  <2> HIDE DEF body
  <2>7. r.came \in 0..Len(r.body)
    BY <2>2, <2>5
  <2>8. ClassesCame(r.body, r.came)'
    BY <2>2, <2>6
  <2>9. QED
    BY <2>2, <2>3, <2>4, <2>7, <2>8
<1> HIDE DEF body
<1>7. RestsFit'
  BY <1>5, <1>6 DEF RestsFit, body
<1>8. QED
  BY <1>3, <1>4, <1>7 DEF ScaleFits

LEMMA Starts == Init => IInv
<1> SUFFICES ASSUME Init PROVE IInv
  OBVIOUS
<1>1. MaxEvents \in Nat /\ MaxJobs \in Nat
  BY CatalogAssumption
<1>2. TypeOK
  <2>1. excused \subseteq Tracked
    BY DEF Init, Tracked
  <2>2. DOMAIN memory = Address
    BY DEF Init
  <2>3. product \in [Products -> Row] /\ \A p \in Products : product[p].versao <= events + 1
    <3> DEFINE row(p) == IF p \in Before THEN [exists |-> TRUE, ativo |-> TRUE, versao |-> 1]
                         ELSE [exists |-> FALSE, ativo |-> FALSE, versao |-> 0]
    <3>1. \A p \in Products : row(p) \in Row /\ row(p).versao <= 1
      BY <1>1 DEF Row
    <3>2. product = [p \in Products |-> row(p)] /\ events = 0
      BY DEF Init
    <3> HIDE DEF row
    <3>3. QED
      BY <3>1, <3>2
  <2>4. QED
    BY <1>1, <2>1, <2>2, <2>3 DEF Init, TypeOK
<1>3. ReadsFit /\ RestsFit
  BY DEF Init, ReadsFit, RestsFit
<1>4. SlotIsItsOwners /\ ClassesKnown /\ ClassBeforeProduct
  <2>1. ASSUME NEW n \in Slots PROVE memory[<<"PLU", n>>] = Nulo
    <3>1. <<"PLU", n>> \in Address
      BY DEF Address
    <3>2. QED
      BY <3>1 DEF Init
  <2>2. QED
    BY <2>1 DEF SlotIsItsOwners, ClassesKnown, ClassBeforeProduct
<1>5. QED
  BY <1>2, <1>3, <1>4 DEF IInv

\* The part of the invariant about the scale, when nothing is written to it.
LEMMA MemoryKept ==
    ASSUME ScaleFits, UNCHANGED <<memory, adrift>>
    PROVE  ScaleFits'
<1>1. UNCHANGED memory /\ UNCHANGED adrift
  OBVIOUS
<1>2. RestsFit'
  <2>1. ASSUME NEW r \in adrift PROVE ClassesCame(r.body, r.came)'
    <3>1. ClassesCame(r.body, r.came)
      BY DEF ScaleFits, RestsFit
    <3>2. QED
      BY <1>1, <3>1 DEF ClassesCame
  <2>2. QED
    BY <1>1, <2>1 DEF ScaleFits, RestsFit
<1>3. QED
  BY <1>1, <1>2 DEF ScaleFits, SlotIsItsOwners, ClassesKnown, ClassBeforeProduct

LEMMA ExcusesTracked == ASSUME NEW S, Excuse(S) PROVE excused' \subseteq Tracked
  BY DEF Excuse

\* A package lists what its job has read.
LEMMA PackageOf ==
    ASSUME NEW job, PackageFits(job)
    PROVE  LET ps == Package(job).products
               fs == Package(job).loose
               m == Len(job.read)
               k == Len(job.loose)
           IN  /\ m \in Nat /\ DOMAIN job.read = 1..m /\ DOMAIN ps = 1..m
               /\ k \in Nat /\ DOMAIN job.loose = 1..k /\ DOMAIN fs = 1..k
               /\ \A i \in 1..m : job.read[i] \in ProductRead /\ ps[i] = ProductPayload(job.read[i])
               /\ \A i \in 1..k : /\ job.loose[i] \in FormatRead
                                  /\ fs[i] = FormatPayload(job.loose[i].id, job.loose[i].versao)
               /\ Body(job) = BuildSyncBody(ps, fs)
<1>1. job.read \in Seq(ProductRead) /\ job.loose \in Seq(FormatRead)
  BY DEF PackageFits
<1>2. /\ Len(job.read) \in Nat /\ DOMAIN job.read = 1..Len(job.read)
      /\ Len(job.loose) \in Nat /\ DOMAIN job.loose = 1..Len(job.loose)
      /\ \A i \in 1..Len(job.read) : job.read[i] \in ProductRead
      /\ \A i \in 1..Len(job.loose) : job.loose[i] \in FormatRead
  BY <1>1
<1>3. Body(job) = BuildSyncBody(Package(job).products, Package(job).loose)
  BY DEF Body
<1>4. /\ Package(job).products = [i \in DOMAIN job.read |-> ProductPayload(job.read[i])]
      /\ Package(job).loose = [i \in DOMAIN job.loose |->
                                  FormatPayload(job.loose[i].id, job.loose[i].versao)]
  BY DEF Package
<1>5. QED
  BY <1>2, <1>3, <1>4

\* The formats of a package, those of its products first.
LEMMA SentListed ==
    ASSUME NEW job, PackageFits(job)
    PROVE  LET m == Len(job.read)
               k == Len(job.loose)
           IN  /\ m \in Nat /\ k \in Nat /\ DOMAIN Sent(job) = 1..(m + k)
               /\ \A i \in 1..m : Sent(job)[i] = ProductPayload(job.read[i]).formato
               /\ \A i \in 1..k : Sent(job)[m + i] = FormatPayload(job.loose[i].id, job.loose[i].versao)
<1> DEFINE m == Len(job.read)
           k == Len(job.loose)
           ps == Package(job).products
           fs == Package(job).loose
           own == [i \in DOMAIN ps |-> ps[i].formato]
           T == {own[i] : i \in DOMAIN own} \cup {fs[i] : i \in DOMAIN fs}
<1>1. /\ m \in Nat /\ DOMAIN ps = 1..m /\ k \in Nat /\ DOMAIN fs = 1..k
      /\ \A i \in 1..m : ps[i] = ProductPayload(job.read[i])
      /\ \A i \in 1..k : fs[i] = FormatPayload(job.loose[i].id, job.loose[i].versao)
  BY PackageOf
<1>2. fs = [i \in 1..k |-> fs[i]]
  <2>1. fs = [i \in DOMAIN job.loose |-> FormatPayload(job.loose[i].id, job.loose[i].versao)]
    BY DEF Package
  <2> HIDE DEF fs
  <2>2. QED
    BY <1>1, <2>1
<1>3. Sent(job) = own \o fs
  BY DEF Sent
<1> HIDE DEF ps, fs, m, k
<1>4. own \in [1..m -> T] /\ fs \in [1..k -> T]
  BY <1>1, <1>2
<1>5. \A i \in 1..m : own[i] = ProductPayload(job.read[i]).formato
  BY <1>1
<1> HIDE DEF own, T
<1>6. own \in Seq(T) /\ Len(own) = m /\ fs \in Seq(T) /\ Len(fs) = k
  BY <1>1, <1>4, ListIsSeq
<1>7. /\ own \o fs \in Seq(T) /\ Len(own \o fs) = m + k
      /\ \A i \in 1..(m + k) : (own \o fs)[i] = IF i <= m THEN own[i] ELSE fs[i - m]
  BY <1>6, ConcatProperties
<1> DEFINE all == own \o fs
<1> HIDE DEF all
<1>8. DOMAIN all = 1..(m + k) /\ \A i \in 1..(m + k) : all[i] = IF i <= m THEN own[i] ELSE fs[i - m]
  BY <1>7 DEF all
<1>9. \A i \in 1..m : i \in 1..(m + k) /\ i <= m
  BY <1>1
<1>10. \A i \in 1..k : m + i \in 1..(m + k) /\ ~(m + i <= m) /\ (m + i) - m = i
  BY <1>1
<1>11. /\ \A i \in 1..m : all[i] = ProductPayload(job.read[i]).formato
       /\ \A i \in 1..k : all[m + i] = FormatPayload(job.loose[i].id, job.loose[i].versao)
  BY <1>1, <1>5, <1>8, <1>9, <1>10
<1>12. QED
  BY <1>1, <1>3, <1>8, <1>11 DEF all, m, k

\* Each is a format of the store, or none.
LEMMA SentFormats ==
    ASSUME NEW job, PackageFits(job), NEW i \in DOMAIN Sent(job), Sent(job)[i] # Nulo
    PROVE  \/ \E l \in DOMAIN job.read : LET f == FormatOf[job.read[l].id] IN
                 f \in Formats /\ Sent(job)[i] = FormatPayload(f, job.read[l].fv)
           \/ \E l \in DOMAIN job.loose :
                 /\ job.loose[l].id \in Formats
                 /\ Sent(job)[i] = FormatPayload(job.loose[l].id, job.loose[l].versao)
<1> DEFINE m == Len(job.read)
           k == Len(job.loose)
<1>1. /\ m \in Nat /\ k \in Nat /\ DOMAIN job.read = 1..m /\ DOMAIN job.loose = 1..k
      /\ \A l \in 1..m : job.read[l] \in ProductRead
      /\ \A l \in 1..k : job.loose[l] \in FormatRead
  BY PackageOf
<1>2. /\ DOMAIN Sent(job) = 1..(m + k)
      /\ \A l \in 1..m : Sent(job)[l] = ProductPayload(job.read[l]).formato
      /\ \A l \in 1..k : Sent(job)[m + l] = FormatPayload(job.loose[l].id, job.loose[l].versao)
  BY SentListed
<1> HIDE DEF m, k
<1>3. CASE i <= m
  <2>1. i \in 1..m
    BY <1>1, <1>2, <1>3
  <2>2. job.read[i].id \in Products
    BY <1>1, <2>1 DEF ProductRead
  <2>3. FormatOf[job.read[i].id] \in Formats \cup {Nulo}
    BY <2>2, CatalogAssumption
  <2> DEFINE r == job.read[i]
  <2>4. Sent(job)[i] = ProductPayload(r).formato
    BY <1>2, <2>1
  <2>5. ProductPayload(r).formato = IF FormatOf[r.id] = Nulo THEN Nulo ELSE FormatPayload(FormatOf[r.id], r.fv)
    BY DEF ProductPayload
  <2>6. FormatOf[r.id] # Nulo
    BY <2>4, <2>5
  <2>7. QED
    BY <1>1, <2>1, <2>3, <2>4, <2>5, <2>6
<1>4. CASE ~(i <= m)
  <2>1. i - m \in 1..k /\ m + (i - m) = i
    BY <1>1, <1>2, <1>4
  <2>2. job.loose[i - m].id \in Formats
    BY <1>1, <2>1 DEF FormatRead
  <2>3. QED
    BY <1>1, <1>2, <2>1, <2>2
<1>5. QED
  BY <1>3, <1>4

LEMMA NumbersKnown ==
    ASSUME NEW job, PackageFits(job) PROVE SentNumbers(job) \subseteq {Number[f] : f \in Formats}
<1>1. ASSUME NEW i \in DOMAIN Sent(job), NumeroDe(Sent(job)[i]) # Nulo
      PROVE  NumeroDe(Sent(job)[i]) \in {Number[f] : f \in Formats}
  <2>1. Sent(job)[i] # Nulo /\ NumeroDe(Sent(job)[i]) = Sent(job)[i].numero
    BY <1>1 DEF NumeroDe
  <2>2. \E f \in Formats : \E v : Sent(job)[i] = FormatPayload(f, v)
    BY <2>1, SentFormats
  <2>3. QED
    BY <2>1, <2>2 DEF FormatPayload
<1>2. QED
  BY <1>1 DEF SentNumbers

\* A package written, and a slot read back, leave jobs that fit.
LEMMA WritingFits ==
    ASSUME JobsFit, NEW j \in 1..MaxJobs, jobs[j] # Nulo,
           jobs' = [jobs EXCEPT ![j].phase = "reading", ![j].unread = SentNumbers(jobs[j])]
    PROVE  JobsFit'
<1> DEFINE numbers == SentNumbers(jobs[j])
           job == [jobs[j] EXCEPT !.phase = "reading", !.unread = numbers]
<1>1. jobs[j] \in Job /\ Len(jobs[j].read) <= Cardinality(Products)
  BY DEF JobsFit, ReadsFit
<1>2. numbers \in SUBSET {Number[f] : f \in Formats}
  BY JobFits, NumbersKnown
<1> HIDE DEF numbers
<1>3. job \in Job /\ job.read = jobs[j].read
  BY <1>1, <1>2 DEF Job
<1>4. jobs' = [jobs EXCEPT ![j] = job]
  BY <1>1 DEF JobsFit, numbers
<1> HIDE DEF job
<1>5. QED
  BY <1>1, <1>3, <1>4, JobReplaced

LEMMA ReadingBackFits ==
    ASSUME JobsFit, NEW j \in 1..MaxJobs, ReadBack(j)
    PROVE  JobsFit'
<1>1. jobs[j] # Nulo /\ \E n : \E missed \in BOOLEAN :
        jobs' = [jobs EXCEPT ![j].unread = @ \ {n}, ![j].missed = @ \/ missed]
  BY DEF ReadBack, IsReading, Diverges
<1>a. PICK n : \E missed \in BOOLEAN : jobs' = [jobs EXCEPT ![j].unread = @ \ {n}, ![j].missed = @ \/ missed]
  BY <1>1
<1>2. PICK missed \in BOOLEAN : jobs' = [jobs EXCEPT ![j].unread = @ \ {n}, ![j].missed = @ \/ missed]
  BY <1>a
<1> DEFINE job == [jobs[j] EXCEPT !.unread = @ \ {n}, !.missed = @ \/ missed]
<1>3. jobs[j] \in Job /\ Len(jobs[j].read) <= Cardinality(Products)
  BY <1>1 DEF JobsFit, ReadsFit
<1>4. job \in Job /\ job.read = jobs[j].read
  <2>1. (jobs[j].missed \/ missed) \in BOOLEAN
    OBVIOUS
  <2>2. QED
    BY <1>3, <2>1 DEF Job
<1>5. jobs' = [jobs EXCEPT ![j] = job]
  BY <1>2, <1>3 DEF JobsFit
<1> HIDE DEF job
<1>6. QED
  BY <1>1, <1>3, <1>4, <1>5, JobReplaced

LEMMA Stays == IInv /\ [Next]_vars => IInv'
<1> SUFFICES ASSUME IInv, [Next]_vars PROVE IInv'
  OBVIOUS
<1>0. /\ MaxEvents \in Nat /\ MaxJobs \in Nat /\ Asked \subseteq SUBSET Products
      /\ JobsFit /\ ScaleFits
      /\ format \in [Formats -> 1..(MaxEvents + 1)] /\ events \in 0..MaxEvents
      /\ product \in [Products -> Row] /\ created \in 0..MaxJobs /\ requests \subseteq Item
  <2>1. MaxEvents \in Nat /\ MaxJobs \in Nat /\ Asked \subseteq SUBSET Products
    BY CatalogAssumption
  <2>2. events \in 0..MaxEvents /\ format \in [Formats -> 1..(events + 1)]
    BY DEF IInv, TypeOK
  <2>3. 1..(events + 1) \subseteq 1..(MaxEvents + 1)
    BY <2>1, <2>2
  <2>4. format \in [Formats -> 1..(MaxEvents + 1)]
    BY <2>2, <2>3
  <2>5. QED
    BY <2>1, <2>2, <2>4 DEF IInv, TypeOK, JobsFit, ScaleFits
\* Everything but the jobs and the scale.
<1> DEFINE Rest ==
             /\ events   \in 0..MaxEvents
             /\ product  \in [Products -> Row] /\ \A p \in Products : product[p].versao <= events + 1
             /\ format   \in [Formats -> 1..(events + 1)]
             /\ linked   \in BOOLEAN
             /\ requests \subseteq Item
             /\ created  \in 0..MaxJobs
             /\ ended    \in [1..MaxJobs -> {"none", "error", "success"}]
             /\ over     \in [1..MaxJobs -> SUBSET Address]
             /\ excused  \subseteq Tracked
           Goal == Rest' /\ JobsFit' /\ ScaleFits'
<1>a. Rest
  BY DEF IInv, TypeOK
<1>b. ASSUME UNCHANGED <<memory, adrift>> PROVE ScaleFits'
  BY <1>0, <1>b, MemoryKept
<1>c. ASSUME UNCHANGED jobs PROVE JobsFit'
  BY <1>0, <1>c DEF JobsFit, ReadsFit
<1>d. ASSUME Event PROVE /\ events \in 0..MaxEvents /\ events' = events + 1 /\ events' \in 0..MaxEvents
                         /\ 1..(events + 1) \subseteq 1..(events' + 1)
  BY <1>0, <1>d DEF Event
<1>1. ASSUME NEW p \in Products, NEW ativo \in BOOLEAN, SaveProduct(p, ativo) PROVE Goal
  <2>1. Event /\ UNCHANGED <<format, linked, jobs, created, ended, memory, adrift, over>> /\ Excuse({})
    BY <1>1 DEF SaveProduct
  <2>2. product' \in [Products -> Row] /\ \A q \in Products : product'[q].versao <= events' + 1
    <3>1. product' = [product EXCEPT ![p] = [exists |-> TRUE, ativo |-> ativo, versao |-> product[p].versao + 1]]
      BY <1>1 DEF SaveProduct
    <3>2. /\ [exists |-> TRUE, ativo |-> ativo, versao |-> product[p].versao + 1] \in Row
          /\ product[p].versao + 1 <= events' + 1
      BY <1>0, <1>a, <1>d, <2>1 DEF Row
    <3>3. \A q \in Products : product[q].versao <= events' + 1 /\ product[q].versao \in Nat
      BY <1>0, <1>a, <1>d, <2>1 DEF Row
    <3>4. QED
      BY <1>0, <3>1, <3>2, <3>3
  <2>3. requests' \subseteq Item
    BY <1>0, <1>1 DEF SaveProduct, Item
  <2>4. excused' \subseteq Tracked
    BY <2>1, ExcusesTracked
  <2>5. format' \in [Formats -> 1..(events' + 1)]
    BY <1>a, <1>d, <2>1
  <2>6. QED
    BY <1>a, <1>b, <1>c, <1>d, <2>1, <2>2, <2>3, <2>4, <2>5
<1>2. ASSUME NEW P \in SUBSET Products, DeleteProducts(P) PROVE Goal
  <2>1. Event /\ UNCHANGED <<format, linked, requests, jobs, created, ended, memory, adrift, over>> /\ Excuse({})
    BY <1>2 DEF DeleteProducts
  <2>2. product' \in [Products -> Row] /\ \A q \in Products : product'[q].versao <= events' + 1
    <3>1. product' = [p \in Products |->
                         IF p \in P THEN [exists |-> FALSE, ativo |-> FALSE, versao |-> product[p].versao]
                         ELSE product[p]]
      BY <1>2 DEF DeleteProducts
    <3>2. \A p \in Products : [exists |-> FALSE, ativo |-> FALSE, versao |-> product[p].versao] \in Row
      BY <1>0 DEF Row
    <3>3. \A q \in Products : product[q].versao <= events' + 1
      BY <1>0, <1>a, <1>d, <2>1 DEF Row
    <3>4. QED
      BY <1>0, <3>1, <3>2, <3>3
  <2>3. excused' \subseteq Tracked
    BY <2>1, ExcusesTracked
  <2>4. format' \in [Formats -> 1..(events' + 1)]
    BY <1>a, <1>d, <2>1
  <2>5. QED
    BY <1>a, <1>b, <1>c, <1>d, <2>1, <2>2, <2>3, <2>4
<1>3. ASSUME NEW f \in Formats, SaveFormat(f) PROVE Goal
  <2>1. Event /\ UNCHANGED <<product, linked, jobs, created, ended, memory, adrift, over, excused>>
    BY <1>3 DEF SaveFormat
  <2>2. format' \in [Formats -> 1..(events' + 1)]
    <3>1. format' = [format EXCEPT ![f] = format[f] + 1]
      BY <1>3 DEF SaveFormat
    <3>2. format[f] \in 1..(events + 1)
      BY <1>a
    <3>3. format[f] + 1 \in 1..(events' + 1)
      BY <1>d, <2>1, <3>2
    <3>4. QED
      BY <1>a, <1>d, <2>1, <3>1, <3>3
  <2>3. requests' \subseteq Item
    BY <1>0, <1>3 DEF SaveFormat, Item
  <2>4. \A p \in Products : product'[p].versao <= events' + 1
    BY <1>0, <1>a, <1>d, <2>1 DEF Row
  <2>5. QED
    BY <1>a, <1>b, <1>c, <1>d, <2>1, <2>2, <2>3, <2>4
<1>4. ASSUME NEW x \in Item, Enqueue(x) PROVE Goal
  <2>1. /\ UNCHANGED <<product, format, events, linked, ended, memory, adrift, over>>
        /\ requests' \subseteq Item
    BY <1>0, <1>4 DEF Enqueue
  <2>2. excused' \subseteq Tracked
    BY <1>4, ExcusesTracked DEF Enqueue
  <2>3. CASE linked /\ AddJob(JobFor(x))
    <3>1. \E ids \in SUBSET Products, fids \in SUBSET Formats : JobFor(x) = NewJob("INCREMENTAL", ids, fids)
      BY DEF JobFor, Item
    <3>2. JobsFit' /\ created' \in 0..MaxJobs
      BY <1>0, <2>3, <3>1, NewJobFits
    <3>3. QED
      BY <1>a, <1>b, <2>1, <2>2, <3>2
  <2>4. CASE UNCHANGED <<jobs, created>>
    BY <1>a, <1>b, <1>c, <2>1, <2>2, <2>4
  <2>5. QED
    BY <1>4, <2>3, <2>4 DEF Enqueue
<1>5. ASSUME NEW x \in Item, LoseRequest(x) PROVE Goal
  <2>1. /\ Event /\ requests' \subseteq Item
        /\ UNCHANGED <<product, format, linked, jobs, created, ended, memory, adrift, over>> /\ Excuse({x})
    BY <1>0, <1>5 DEF LoseRequest
  <2>2. excused' \subseteq Tracked
    BY <2>1, ExcusesTracked
  <2>3. \A p \in Products : product'[p].versao <= events' + 1
    BY <1>0, <1>a, <1>d, <2>1 DEF Row
  <2>4. format' \in [Formats -> 1..(events' + 1)]
    BY <1>a, <1>d, <2>1
  <2>5. QED
    BY <1>a, <1>b, <1>c, <1>d, <2>1, <2>2, <2>3, <2>4
<1>6. ASSUME NEW tipo \in {"TOTAL", "INCREMENTAL"}, NEW ids \in SUBSET Products, AskSync(tipo, ids)
      PROVE  Goal
  <2>1. UNCHANGED <<product, format, events, linked, requests, ended, memory, adrift, over, excused>>
        /\ AddJob(NewJob(tipo, ids, {}))
    BY <1>6 DEF AskSync
  <2>2. JobsFit' /\ created' \in 0..MaxJobs
    BY <1>0, <2>1, NewJobFits
  <2>3. QED
    BY <1>a, <1>b, <2>1, <2>2
<1>7. ASSUME Link PROVE Goal
  <2>1. Event /\ UNCHANGED <<product, format, requests, jobs, created, ended, memory, adrift, over, excused>>
        /\ linked' \in BOOLEAN
    BY <1>7 DEF Link
  <2>2. \A p \in Products : product'[p].versao <= events' + 1
    BY <1>0, <1>a, <1>d, <2>1 DEF Row
  <2>3. format' \in [Formats -> 1..(events' + 1)]
    BY <1>a, <1>d, <2>1
  <2>4. QED
    BY <1>a, <1>b, <1>c, <1>d, <2>1, <2>2, <2>3
<1>8. ASSUME NEW j \in 1..MaxJobs, ReadProducts(j) PROVE Goal
  <2>1. /\ UNCHANGED <<product, format, events, linked, requests, created, ended, memory, adrift, over>>
        /\ jobs[j] # Nulo
    BY <1>8 DEF ReadProducts
  <2>2. CASE /\ \E order \in Orders(Wanted(jobs[j])) :
                    jobs' = [jobs EXCEPT ![j].phase = "read",
                                         ![j].read = [i \in DOMAIN order |-> RowOf(order[i])]]
             /\ UNCHANGED excused
    <3>1. JobsFit'
      BY <1>0, <2>1, <2>2, ReadingFits
    <3>2. QED
      BY <1>a, <1>b, <2>1, <2>2, <3>1
  <2>3. CASE Fail(j, {})
    <3>1. JobsFit'
      BY <1>0, <2>1, <2>3, FailFits
    <3>2. excused' \subseteq Tracked
      BY <2>3, ExcusesTracked DEF Fail
    <3>3. QED
      BY <1>a, <1>b, <2>1, <3>1, <3>2
  <2>4. QED
    BY <1>8, <2>2, <2>3 DEF ReadProducts
<1>9. ASSUME NEW j \in 1..MaxJobs, OpenJob(j) PROVE Goal
  <2>1. /\ UNCHANGED <<product, format, events, linked, requests, created, memory, adrift, over>>
        /\ jobs[j] # Nulo
    BY <1>9 DEF OpenJob
  <2>2. CASE jobs' = [jobs EXCEPT ![j] = Nulo] /\ ended' = [ended EXCEPT ![j] = "error"] /\ Excuse({})
    <3>1. JobsFit'
      BY <1>0, <2>2, JobReplaced
    <3>2. excused' \subseteq Tracked
      BY <2>2, ExcusesTracked
    <3>3. QED
      BY <1>a, <1>b, <2>1, <2>2, <3>1, <3>2
  <2>3. CASE UNCHANGED ended /\ Fail(j, {})
    <3>1. JobsFit'
      BY <1>0, <2>1, <2>3, FailFits
    <3>2. excused' \subseteq Tracked
      BY <2>3, ExcusesTracked DEF Fail
    <3>3. QED
      BY <1>a, <1>b, <2>1, <2>3, <3>1, <3>2
  <2>4. CASE /\ \E order \in Orders(jobs[j].fids) :
                    jobs' = [jobs EXCEPT ![j].phase = "sending",
                                ![j].loose = [i \in DOMAIN order |->
                                                 [id |-> order[i], versao |-> format[order[i]]]]]
             /\ UNCHANGED <<ended, excused>>
    <3>1. IsFiniteSet(jobs[j].fids)
      <4>1. jobs[j].fids \subseteq Formats
        BY <1>0, <2>1 DEF JobsFit, Job
      <4>2. QED
        BY <4>1, CatalogAssumption, FS_Subset
    <3>2. JobsFit'
      BY <1>0, <2>1, <2>4, <3>1, OpeningFits
    <3>3. QED
      BY <1>a, <1>b, <2>1, <2>4, <3>2
  <2>5. QED
    BY <1>9, <2>2, <2>3, <2>4 DEF OpenJob
\* Rows land; Event or no other event.
<1>e. ASSUME NEW rows, OverBy(rows) PROVE over' \in [1..MaxJobs -> SUBSET Address]
  <2>1. \A k \in 1..MaxJobs : (IF IsReading(k) THEN over[k] \cup Touched(rows) ELSE {}) \in SUBSET Address
    BY <1>a DEF Touched
  <2>2. QED
    BY <1>e, <2>1 DEF OverBy
<1>f. ASSUME Event, UNCHANGED <<product, format>>
      PROVE  /\ events' \in 0..MaxEvents /\ \A p \in Products : product'[p].versao <= events' + 1
             /\ format' \in [Formats -> 1..(events' + 1)]
  <2>1. \A p \in Products : product'[p].versao <= events' + 1
    BY <1>0, <1>a, <1>d, <1>f DEF Row
  <2>2. format' \in [Formats -> 1..(events' + 1)]
    BY <1>a, <1>d, <1>f
  <2>3. QED
    BY <1>d, <1>f, <2>1, <2>2
<1>10. ASSUME NEW j \in 1..MaxJobs, Write(j) PROVE Goal
  <2>1. /\ UNCHANGED <<product, format, events, linked, requests, created, ended, adrift>>
        /\ jobs[j] # Nulo /\ Take(Body(jobs[j])) /\ Excuse(Overtaken)
        /\ jobs' = [jobs EXCEPT ![j].phase = "reading", ![j].unread = SentNumbers(jobs[j])]
    BY <1>10 DEF Write
  <2>2. PackageFits(jobs[j])
    BY <1>0, <2>1, JobFits
  <2>3. ScaleFits'
    <3> DEFINE q == Len(Body(jobs[j]))
    <3>1. q \in Nat /\ SubSeq(Body(jobs[j]), 0 + 1, q) = Body(jobs[j])
      BY <2>2, WholePackage
    <3>2. ClassesCame(Body(jobs[j]), 0)
      BY DEF ClassesCame
    <3>2a. q <= Len(Body(jobs[j])) /\ 0 <= q
      BY <3>1
    <3> HIDE DEF q
    <3>3. Take(SubSeq(Body(jobs[j]), 0 + 1, q)) /\ 0 <= q /\ q <= Len(Body(jobs[j]))
      BY <2>1, <3>1, <3>2a
    <3>4. QED
      BY <1>0, <2>1, <2>2, <3>1, <3>2, <3>3, Lands
  <2>4. JobsFit'
    BY <1>0, <2>1, WritingFits
  <2>5. excused' \subseteq Tracked /\ over' \in [1..MaxJobs -> SUBSET Address]
    BY <1>e, <2>1, ExcusesTracked DEF Take
  <2>6. QED
    BY <1>a, <2>1, <2>3, <2>4, <2>5
<1>13. ASSUME NEW j \in 1..MaxJobs, LoseWrite(j) PROVE Goal
  <2>1. /\ Event /\ UNCHANGED <<product, format, linked, requests, created>>
        /\ jobs[j] # Nulo /\ ended' = [ended EXCEPT ![j] = "error"] /\ Fail(j, Overtaken)
    BY <1>13 DEF LoseWrite
  <2>2. PackageFits(jobs[j])
    BY <1>0, <2>1, JobFits
  <2>3. PICK n \in 0..Len(Body(jobs[j])) :
           Take(SubSeq(Body(jobs[j]), 1, n)) /\ adrift' = adrift \cup Left(jobs[j], Body(jobs[j]), n)
    BY <1>13 DEF LoseWrite
  <2>4. ScaleFits'
    <3>1. ClassesCame(Body(jobs[j]), 0)
      BY DEF ClassesCame
    <3>2. Len(Body(jobs[j])) \in Nat
      BY <2>2, WholePackage
    <3>3. Take(SubSeq(Body(jobs[j]), 0 + 1, n)) /\ n \in Nat /\ 0 <= n /\ n <= Len(Body(jobs[j]))
      BY <2>3, <3>2
    <3>4. QED
      BY <1>0, <2>2, <2>3, <3>1, <3>3, Lands
  <2>5. JobsFit'
    BY <1>0, <2>1, FailFits
  <2>6. excused' \subseteq Tracked /\ over' \in [1..MaxJobs -> SUBSET Address]
    BY <1>e, <2>1, <2>3, ExcusesTracked DEF Take, Fail
  <2>7. QED
    BY <1>a, <1>f, <2>1, <2>4, <2>5, <2>6
<1>14. ASSUME NEW r \in adrift, LandsLate(r) PROVE Goal
  <2>1. /\ UNCHANGED <<product, format, events, linked, requests, jobs, created, ended>>
        /\ Excuse(Overtaken)
    BY <1>14 DEF LandsLate
  <2>2. PackageFits(r) /\ r.body = Body(r) /\ r.came \in 0..Len(r.body) /\ ClassesCame(r.body, r.came)
    BY <1>0 DEF ScaleFits, RestsFit
  <2>3. PICK m \in (r.came + 1)..Len(r.body) :
           Take(SubSeq(r.body, r.came + 1, m)) /\ adrift' = (adrift \ {r}) \cup Left(r, r.body, m)
    BY <1>14 DEF LandsLate
  <2>4. ScaleFits'
    <3>1. Len(Body(r)) \in Nat
      BY <2>2, WholePackage
    <3>2. r.came \in Nat /\ m \in Nat /\ r.came <= m /\ m <= Len(Body(r))
      BY <2>2, <2>3, <3>1
    <3>3. Take(SubSeq(Body(r), r.came + 1, m)) /\ adrift' \subseteq adrift \cup Left(r, Body(r), m)
      BY <2>2, <2>3
    <3>4. QED
      BY <1>0, <2>2, <3>2, <3>3, Lands
  <2>5. excused' \subseteq Tracked /\ over' \in [1..MaxJobs -> SUBSET Address]
    BY <1>e, <2>1, <2>3, ExcusesTracked DEF Take
  <2>6. QED
    BY <1>a, <1>c, <2>1, <2>4, <2>5
<1>15. ASSUME NEW j \in 1..MaxJobs, ReadBack(j) PROVE Goal
  <2>1. UNCHANGED <<product, format, events, linked, requests, created, ended, memory, adrift, over, excused>>
    BY <1>15 DEF ReadBack
  <2>2. JobsFit'
    BY <1>0, <1>15, ReadingBackFits
  <2>3. QED
    BY <1>a, <1>b, <2>1, <2>2
<1>16. ASSUME NEW j \in 1..MaxJobs, LoseResult(j) PROVE Goal
  <2>1. /\ Event /\ UNCHANGED <<product, format, linked, requests, created, memory, adrift, over>>
        /\ jobs[j] # Nulo /\ ended' = [ended EXCEPT ![j] = "error"] /\ Fail(j, {})
    BY <1>16 DEF LoseResult, IsReading
  <2>2. JobsFit' /\ excused' \subseteq Tracked
    BY <1>0, <2>1, FailFits, ExcusesTracked DEF Fail
  <2>3. QED
    BY <1>a, <1>b, <1>f, <2>1, <2>2
<1>17. ASSUME NEW j \in 1..MaxJobs, EndJob(j) PROVE Goal
  <2>1. /\ UNCHANGED <<product, format, events, linked, requests, created, memory, adrift, over>>
        /\ jobs[j] # Nulo
    BY <1>17 DEF EndJob, IsReading
  <2>2. CASE jobs' = [jobs EXCEPT ![j] = Nulo] /\ ended' = [ended EXCEPT ![j] = "success"] /\ Excuse({})
    <3>1. JobsFit' /\ excused' \subseteq Tracked
      BY <1>0, <2>2, JobReplaced, ExcusesTracked
    <3>2. QED
      BY <1>a, <1>b, <2>1, <2>2, <3>1
  <2>3. CASE ended' = [ended EXCEPT ![j] = "error"] /\ Fail(j, {})
    <3>1. JobsFit' /\ excused' \subseteq Tracked
      BY <1>0, <2>1, <2>3, FailFits, ExcusesTracked DEF Fail
    <3>2. QED
      BY <1>a, <1>b, <2>1, <2>3, <3>1
  <2>4. QED
    BY <1>17, <2>2, <2>3 DEF EndJob
<1>11. ASSUME UNCHANGED vars PROVE Goal
  <2>1. UNCHANGED <<product, format, linked, requests, jobs, created, events, ended, memory, adrift, over, excused>>
    BY <1>11 DEF vars
  <2>2. QED
    BY <1>a, <1>b, <1>c, <2>1
<1>12. Goal
  <2> HIDE DEF Goal
  <2>1. CASE \/ \E p \in Products, ativo \in BOOLEAN : SaveProduct(p, ativo)
             \/ \E P \in SUBSET Products : DeleteProducts(P)
             \/ \E f \in Formats : SaveFormat(f)
             \/ \E x \in Item : Enqueue(x) \/ LoseRequest(x)
    BY <1>1, <1>2, <1>3, <1>4, <1>5, <2>1
  <2>2. CASE AskSync("TOTAL", {}) \/ \E ids \in Asked : AskSync("INCREMENTAL", ids)
    <3>1. {} \in SUBSET Products /\ \A ids \in Asked : ids \in SUBSET Products
      BY <1>0
    <3>2. QED
      BY <1>6, <2>2, <3>1
  <2>3. CASE \/ \E j \in 1..MaxJobs : ReadProducts(j) \/ OpenJob(j) \/ Write(j) \/ LoseWrite(j)
             \/ \E r \in adrift : LandsLate(r)
             \/ \E j \in 1..MaxJobs : ReadBack(j) \/ LoseResult(j) \/ EndJob(j)
    BY <1>8, <1>9, <1>10, <1>13, <1>14, <1>15, <1>16, <1>17, <2>3
  <2>4. QED
    BY <1>7, <1>11, <2>1, <2>2, <2>3 DEF Next
<1>18. QED
  BY <1>12 DEF IInv, TypeOK, JobsFit, ScaleFits

\* IInv holds of every run.
THEOREM Invariant == Spec => []IInv
<1>1. QED
  BY Starts, Stays, PTL DEF Spec

\* The type invariant of the catalogue, the jobs and the scale.
THEOREM TypeCorrect == Spec => []TypeOK
<1>1. IInv => TypeOK
  BY DEF IInv
<1>2. QED
  BY <1>1, Invariant, PTL

\* Beyond the positions a package can have, a slot of the scale only ever holds the
\* product whose code it is, whatever package was cut, lost, repeated or overtaken
\* (resolvePluNumber).
THEOREM SlotTheorem == Spec => []SlotIsItsOwners
<1>1. IInv => SlotIsItsOwners
  BY DEF IInv
<1>2. QED
  BY <1>1, Invariant, PTL

\* However a write is cut, and whichever packages overtake one another, the class a
\* product on the scale refers to is there (buildSyncBody puts the classes first).
THEOREM ClassTheorem == Spec => []ClassBeforeProduct
<1>1. IInv => ClassBeforeProduct
  BY DEF IInv
<1>2. QED
  BY <1>1, Invariant, PTL

-----------------------------------------------------------------------------
(* What a whole package leaves on the scale.                                *)

\* The rank of a member of a set of positions.
LEMMA Ranks ==
    ASSUME NEW n \in Nat, NEW S, S \subseteq 1..n
    PROVE  /\ Cardinality(S) \in Nat /\ IsFiniteSet(S)
           /\ \A i \in S : Cardinality({j \in S : j <= i}) \in 1..Cardinality(S)
           /\ \A i, k \in S : Cardinality({j \in S : j <= i}) = Cardinality({j \in S : j <= k}) => i = k
<1> DEFINE below(x) == {j \in S : j <= x}
<1>1. IsFiniteSet(S)
  <2>1. IsFiniteSet(1..n)
    BY FS_Interval
  <2>2. QED
    BY <2>1, FS_Subset
<1>2. \A x \in S : IsFiniteSet(below(x)) /\ Cardinality(below(x)) <= Cardinality(S)
  BY <1>1, FS_Subset
<1>3. Cardinality(S) \in Nat /\ \A x \in S : Cardinality(below(x)) \in Nat
  BY <1>1, <1>2, FS_CardinalityType
<1>4. ASSUME NEW i \in S PROVE Cardinality(below(i)) # 0
  <2>1. i \in below(i)
    <3>1. i \in 1..n
      OBVIOUS
    <3>2. QED
      BY <3>1
  <2>2. QED
    BY <1>2, <2>1, FS_EmptySet
<1>5. ASSUME NEW x \in S, NEW y \in S, x < y, Cardinality(below(x)) = Cardinality(below(y)) PROVE FALSE
  <2>1. x \in 1..n /\ y \in 1..n
    OBVIOUS
  <2>2. below(x) \subseteq below(y)
    <3>1. ASSUME NEW j \in S, j <= x PROVE j <= y
      <4>1. j \in 1..n
        OBVIOUS
      <4>2. QED
        BY <1>5, <2>1, <3>1, <4>1
    <3>2. QED
      BY <3>1
  <2>3. y \in below(y) /\ y \notin below(x)
    BY <1>5, <2>1
  <2>4. IsFiniteSet(below(y))
    BY <1>2
  <2> HIDE DEF below
  <2>5. below(y) = below(x)
    BY <1>5, <2>2, <2>4, FS_Subset
  <2>6. QED
    BY <2>3, <2>5
<1>6. ASSUME NEW i \in S, NEW k \in S, Cardinality(below(i)) = Cardinality(below(k)) PROVE i = k
  <2>1. i \in 1..n /\ k \in 1..n
    OBVIOUS
  <2>2. ~(i < k) /\ ~(k < i)
    BY <1>5, <1>6
  <2>3. QED
    BY <2>1, <2>2
<1>7. \A i \in S : Cardinality(below(i)) \in 1..Cardinality(S)
  <2> HIDE DEF below
  <2>1. QED
    BY <1>2, <1>3, <1>4
<1>8. QED
  BY <1>1, <1>3, <1>6, <1>7

\* A list that has each member of a finite set at most once, and as many places as the
\* set has members, has them all.
LEMMA ListsAll ==
    ASSUME NEW S, IsFiniteSet(S), NEW f \in [S -> 1..Cardinality(S)],
           \A x, y \in S : f[x] = f[y] => x = y
    PROVE  \A k \in 1..Cardinality(S) : \E x \in S : f[x] = k
<1> DEFINE c == Cardinality(S)
           T == 1..c
<1>1. c \in Nat
  BY FS_CardinalityType
<1> HIDE DEF c
<1>2. IsFiniteSet(T) /\ Cardinality(T) = c
  BY <1>1, FS_Interval
<1> HIDE DEF T
<1>3. f \in Injection(S, T)
  BY DEF Injection, IsInjective, T, c
<1>4. f \in Surjection(S, T)
  BY <1>2, <1>3, FS_Injection DEF c
<1>5. QED
  BY <1>4 DEF Surjection, T, c

\* Crescente lists its set in order: each member at its rank.
LEMMA CrescenteLists ==
    ASSUME NEW n \in Nat, NEW S, S \subseteq 1..n
    PROVE  /\ \A i \in S : /\ Cardinality({j \in S : j <= i}) \in DOMAIN Crescente(S)
                           /\ Crescente(S)[Cardinality({j \in S : j <= i})] = i
           /\ \A k \in DOMAIN Crescente(S) : Crescente(S)[k] \in S
<1> DEFINE rank(x) == Cardinality({j \in S : j <= x})
           c == Cardinality(S)
           e(k) == CHOOSE x \in S : rank(x) = k
           f == [x \in S |-> rank(x)]
<1>1. /\ c \in Nat /\ IsFiniteSet(S)
      /\ \A i \in S : rank(i) \in 1..c
      /\ \A i, k \in S : rank(i) = rank(k) => i = k
  BY Ranks
<1>2. Crescente(S) = [k \in 1..c |-> e(k)]
  BY Zenon DEF Crescente
<1> HIDE DEF rank
<1>3. \A i \in S : e(rank(i)) = i
  <2>1. ASSUME NEW i \in S PROVE e(rank(i)) = i
    <3>1. \A x \in S : rank(x) = rank(i) <=> x = i
      BY <1>1
    <3>2. QED
      BY <3>1
  <2>2. QED
    BY <2>1
<1>4. \A k \in 1..c : \E x \in S : rank(x) = k
  <2>1. f \in [S -> 1..c] /\ \A x, y \in S : f[x] = f[y] => x = y
    BY <1>1
  <2>2. \A k \in 1..c : \E x \in S : f[x] = k
    <3> HIDE DEF f
    <3>1. QED
      BY <1>1, <2>1, ListsAll
  <2>3. QED
    BY <2>2
<1>5. \A k \in 1..c : e(k) \in S
  BY <1>4
<1> HIDE DEF e, c
<1>6. \A i \in S : rank(i) \in DOMAIN Crescente(S) /\ Crescente(S)[rank(i)] = i
  BY <1>1, <1>2, <1>3
<1>7. \A k \in DOMAIN Crescente(S) : Crescente(S)[k] \in S
  BY <1>2, <1>5
<1>8. QED
  BY <1>6, <1>7 DEF rank

LEMMA CrescenteIsOnto ==
    ASSUME NEW n \in Nat, NEW S, S \subseteq 1..n
    PROVE  /\ \A i \in S : \E k \in DOMAIN Crescente(S) : Crescente(S)[k] = i
           /\ \A k \in DOMAIN Crescente(S) : Crescente(S)[k] \in S
<1>1. \A i \in S : \E k \in DOMAIN Crescente(S) : Crescente(S)[k] = i
  <2>1. ASSUME NEW i \in S PROVE \E k \in DOMAIN Crescente(S) : Crescente(S)[k] = i
    BY CrescenteCovers
  <2>2. QED
    BY <2>1
<1>2. \A k \in DOMAIN Crescente(S) : Crescente(S)[k] \in S
  BY CrescenteLists
<1>3. QED
  BY <1>1, <1>2

LEMMA RowsJoined ==
    ASSUME NEW T, NEW s \in Seq(T), NEW t \in Seq(T)
    PROVE  s \o t \in Seq(T) /\ Rows(s \o t) = Rows(s) \cup Rows(t)
<1>1. /\ s \o t \in Seq(T) /\ Len(s \o t) = Len(s) + Len(t)
      /\ \A i \in 1..(Len(s) + Len(t)) : (s \o t)[i] = IF i <= Len(s) THEN s[i] ELSE t[i - Len(s)]
  BY ConcatProperties
<1> DEFINE u == s \o t
           a == Len(s)
           b == Len(t)
<1>2. a \in Nat /\ b \in Nat /\ DOMAIN s = 1..a /\ DOMAIN t = 1..b
  BY LenProperties
<1> HIDE DEF u
<1>3. DOMAIN u = 1..(a + b)
  BY <1>1, LenProperties DEF u
<1>4. \A i \in 1..(a + b) : u[i] = IF i <= a THEN s[i] ELSE t[i - a]
  BY <1>1 DEF u
<1> HIDE DEF a, b
<1>5. \A i \in 1..a : i \in 1..(a + b) /\ u[i] = s[i]
  BY <1>2, <1>4
<1>6. \A i \in 1..b : a + i \in 1..(a + b) /\ u[a + i] = t[i]
  <2>1. \A i \in 1..b : a + i \in 1..(a + b) /\ ~(a + i <= a) /\ (a + i) - a = i
    BY <1>2
  <2>2. QED
    BY <1>4, <2>1
<1>7. \A i \in 1..(a + b) : i \in 1..a \/ i - a \in 1..b
  BY <1>2
<1>8. Rows(s) \subseteq Rows(u) /\ Rows(t) \subseteq Rows(u)
  BY <1>2, <1>3, <1>5, <1>6 DEF Rows
<1>9. Rows(u) \subseteq Rows(s) \cup Rows(t)
  <2>1. ASSUME NEW i \in 1..(a + b) PROVE u[i] \in Rows(s) \cup Rows(t)
    <3>1. CASE i \in 1..a
      BY <1>2, <1>5, <3>1 DEF Rows
    <3>2. CASE i \notin 1..a
      <4>1. i - a \in 1..b /\ ~(i <= a)
        BY <1>2, <1>7, <3>2
      <4>2. u[i] = t[i - a]
        BY <1>4, <4>1
      <4>3. QED
        BY <1>2, <4>1, <4>2 DEF Rows
    <3>3. QED
      BY <3>1, <3>2
  <2>2. QED
    BY <1>3, <2>1 DEF Rows
<1>10. QED
  BY <1>1, <1>8, <1>9 DEF u

\* The rows of a package are those of its blocks.
LEMMA BodyIsItsBlocks ==
    ASSUME NEW m \in Nat, NEW k \in Nat, NEW ps, NEW fs, DOMAIN ps = 1..m, DOMAIN fs = 1..k
    PROVE  LET body == BuildSyncBody(ps, fs) IN
           /\ body \in Seq(Rows(body))
           /\ Rows(body) = Rows(BlocoBmp(ps)) \cup Rows(BlocoCls(ps)) \cup Rows(BlocoPlu(ps))
                           \cup Rows(BlocoNu3(ps)) \cup Rows(BlocoIr2(ps)) \cup Rows(BlocoLab(ps, fs))
<1> DEFINE bmp == BlocoBmp(ps)
           cls == BlocoCls(ps)
           plu == BlocoPlu(ps)
           nu3 == BlocoNu3(ps)
           ir2 == BlocoIr2(ps)
           lab == BlocoLab(ps, fs)
           T == Rows(plu) \cup Rows(bmp) \cup Rows(cls) \cup Rows(nu3) \cup Rows(ir2) \cup Rows(lab)
           body == BuildSyncBody(ps, fs)
           h1 == bmp \o cls
           h2 == h1 \o plu
           h3 == h2 \o nu3
           h4 == h3 \o ir2
           h5 == h4 \o lab
<1>1. /\ IsBlock(bmp, "BMP") /\ IsBlock(cls, "CLS") /\ IsBlock(nu3, "NU3")
      /\ IsBlock(ir2, "IR2") /\ IsBlock(lab, "LAB")
  BY Blocks
<1>2. IsBlock(plu, "PLU")
  <2>1. plu = [i \in 1..m |-> plu[i]] /\ \A i \in 1..m : plu[i].bloco = "PLU"
    BY DEF BlocoPlu, PluRow
  <2> HIDE DEF plu
  <2>2. QED
    BY <2>1, BlockOf
<1>3. body = h5
  BY Zenon DEF BuildSyncBody
<1> HIDE DEF bmp, cls, plu, nu3, ir2, lab, body
<1>4. bmp \in Seq(T) /\ cls \in Seq(T) /\ plu \in Seq(T) /\ nu3 \in Seq(T) /\ ir2 \in Seq(T) /\ lab \in Seq(T)
  BY <1>1, <1>2, SeqMonotonic DEF IsBlock
<1> HIDE DEF T
<1>5. h1 \in Seq(T) /\ Rows(h1) = Rows(bmp) \cup Rows(cls)
  BY <1>4, RowsJoined
<1> HIDE DEF h1
<1>6. h2 \in Seq(T) /\ Rows(h2) = Rows(h1) \cup Rows(plu)
  BY <1>4, <1>5, RowsJoined
<1> HIDE DEF h2
<1>7. h3 \in Seq(T) /\ Rows(h3) = Rows(h2) \cup Rows(nu3)
  BY <1>4, <1>6, RowsJoined
<1> HIDE DEF h3
<1>8. h4 \in Seq(T) /\ Rows(h4) = Rows(h3) \cup Rows(ir2)
  BY <1>4, <1>7, RowsJoined
<1> HIDE DEF h4
<1>9. h5 \in Seq(T) /\ Rows(h5) = Rows(h4) \cup Rows(lab)
  BY <1>4, <1>8, RowsJoined
<1> HIDE DEF h5
<1>10. Rows(h5) = Rows(bmp) \cup Rows(cls) \cup Rows(plu) \cup Rows(nu3) \cup Rows(ir2) \cup Rows(lab)
  BY <1>5, <1>6, <1>7, <1>8, <1>9
<1>11. h5 \in Seq(Rows(h5))
  <2>1. DOMAIN h5 = 1..Len(h5) /\ Len(h5) \in Nat /\ h5 = [i \in 1..Len(h5) |-> h5[i]]
    BY <1>9
  <2>2. \A i \in 1..Len(h5) : h5[i] \in Rows(h5)
    BY <2>1 DEF Rows
  <2>3. QED
    BY <2>1, <2>2, IsASeq
<1>12. QED
  BY <1>3, <1>10, <1>11 DEF bmp, cls, plu, nu3, ir2, lab, body

\* The positions at which a package first uses a format, and those of the formats sent
\* on their own that no product brings.
FirstUses(ps) ==
    {i \in DOMAIN ps : /\ ChaveFormato(ps[i]) # Nulo
                       /\ \A j \in 1..(i - 1) : ChaveFormato(ps[j]) # ChaveFormato(ps[i])}
OnlyLoose(ps, fs) ==
    {i \in DOMAIN fs : /\ \A j \in DOMAIN ps : ChaveFormato(ps[j]) # fs[i].numero
                       /\ \A j \in 1..(i - 1) : fs[j].numero # fs[i].numero}

LEMMA LabListed ==
    ASSUME NEW m \in Nat, NEW k \in Nat, NEW ps, NEW fs, DOMAIN ps = 1..m, DOMAIN fs = 1..k
    PROVE  Rows(BlocoLab(ps, fs)) =
             {LabRow(ps[i].formato, BmpDoFormato(ps, ps[i].formato.numero)) : i \in FirstUses(ps)}
             \cup {LabRow(fs[i], Nulo) : i \in OnlyLoose(ps, fs)}
<1> DEFINE S == FirstUses(ps)
           R == OnlyLoose(ps, fs)
           usos == Crescente(S)
           novos == Crescente(R)
           dono(l) == ps[usos[l]].formato
           F == [i \in S |-> LabRow(ps[i].formato, BmpDoFormato(ps, ps[i].formato.numero))]
           G == [i \in R |-> LabRow(fs[i], Nulo)]
           first == [l \in DOMAIN usos |-> LabRow(dono(l), BmpDoFormato(ps, dono(l).numero))]
           second == [l \in DOMAIN novos |-> LabRow(fs[novos[l]], Nulo)]
           lab == BlocoLab(ps, fs)
<1>1. S \subseteq 1..m /\ R \subseteq 1..k
  BY DEF FirstUses, OnlyLoose
<1>2. lab = first \o second
  BY Zenon DEF BlocoLab, PrimeirosUsos, FirstUses, OnlyLoose
<1> HIDE DEF S, R, lab
<1>3. /\ (\A l \in DOMAIN usos : usos[l] \in S) /\ \A i \in S : \E l \in DOMAIN usos : usos[l] = i
      /\ (\A l \in DOMAIN novos : novos[l] \in R) /\ \A i \in R : \E l \in DOMAIN novos : novos[l] = i
  BY <1>1, CrescenteIsOnto
<1>4. (\E c \in Nat : DOMAIN usos = 1..c) /\ (\E d \in Nat : DOMAIN novos = 1..d)
  BY <1>1, CrescenteDomain
<1> HIDE DEF usos, novos
<1>5. first = [l \in DOMAIN usos |-> F[usos[l]]] /\ second = [l \in DOMAIN novos |-> G[novos[l]]]
  BY <1>3
<1>6. PICK c \in Nat, d \in Nat : DOMAIN usos = 1..c /\ DOMAIN novos = 1..d
  BY <1>4
<1>7. IsBlock(first, "LAB") /\ IsBlock(second, "LAB")
  <2>1. first = [l \in 1..c |-> first[l]] /\ \A l \in 1..c : first[l].bloco = "LAB"
    BY <1>6 DEF LabRow
  <2>2. second = [l \in 1..d |-> second[l]] /\ \A l \in 1..d : second[l].bloco = "LAB"
    BY <1>6 DEF LabRow
  <2> HIDE DEF first, second
  <2>3. QED
    BY <1>6, <2>1, <2>2, BlockOf
<1> HIDE DEF first, second, F, G
<1>8. Rows(first) = {F[i] : i \in S} /\ Rows(second) = {G[i] : i \in R}
  <2>1. ASSUME NEW r \in Rows(first) PROVE \E i \in S : r = F[i]
    <3>1. PICK l \in DOMAIN first : r = first[l]
      BY DEF Rows
    <3>2. usos[l] \in S /\ r = F[usos[l]]
      BY <1>3, <1>5, <3>1
    <3>3. QED
      BY <3>2
  <2>2. ASSUME NEW i \in S PROVE F[i] \in Rows(first)
    <3>1. PICK l \in DOMAIN usos : usos[l] = i
      BY <1>3
    <3>2. l \in DOMAIN first /\ first[l] = F[i]
      BY <1>5, <3>1
    <3>3. QED
      BY <3>2 DEF Rows
  <2>3. ASSUME NEW r \in Rows(second) PROVE \E i \in R : r = G[i]
    <3>1. PICK l \in DOMAIN second : r = second[l]
      BY DEF Rows
    <3>2. novos[l] \in R /\ r = G[novos[l]]
      BY <1>3, <1>5, <3>1
    <3>3. QED
      BY <3>2
  <2>4. ASSUME NEW i \in R PROVE G[i] \in Rows(second)
    <3>1. PICK l \in DOMAIN novos : novos[l] = i
      BY <1>3
    <3>2. l \in DOMAIN second /\ second[l] = G[i]
      BY <1>5, <3>1
    <3>3. QED
      BY <3>2 DEF Rows
  <2>5. QED
    BY <2>1, <2>2, <2>3, <2>4
<1>9. Rows(lab) = Rows(first) \cup Rows(second)
  <2> DEFINE T == Rows(first) \cup Rows(second)
  <2>1. first \in Seq(T) /\ second \in Seq(T)
    BY <1>7, SeqMonotonic DEF IsBlock
  <2> HIDE DEF T
  <2>2. QED
    BY <1>2, <2>1, RowsJoined
<1>10. /\ \A i \in S : F[i] = LabRow(ps[i].formato, BmpDoFormato(ps, ps[i].formato.numero))
       /\ \A i \in R : G[i] = LabRow(fs[i], Nulo)
  BY DEF F, G
<1>11. Rows(lab) = {LabRow(ps[i].formato, BmpDoFormato(ps, ps[i].formato.numero)) : i \in S}
                   \cup {LabRow(fs[i], Nulo) : i \in R}
  BY <1>8, <1>9, <1>10
<1>12. QED
  BY <1>11 DEF S, R, lab

\* What a write leaves at an address that is no factory slot: a row for it, or what was
\* there when there is none.
LEMMA WholeWritten ==
    ASSUME NEW mem, NEW rows, rows \in Seq(Rows(rows)), NEW a \in Address,
           ~(a[1] = "LAB" /\ a[2] \in FactorySlots)
    PROVE  \/ \E r \in Rows(rows) : <<r.bloco, r.numero>> = a /\ Written(mem, rows)[a] = r
           \/ (\A r \in Rows(rows) : <<r.bloco, r.numero>> # a) /\ Written(mem, rows)[a] = mem[a]
<1> DEFINE I == {i \in DOMAIN rows : <<rows[i].bloco, rows[i].numero>> = a}
           last == CHOOSE i \in I : \A k \in I : k <= i
           n == Len(rows)
<1>1. Written(mem, rows)[a] = IF I = {} \/ (a[1] = "LAB" /\ a[2] \in FactorySlots) THEN mem[a] ELSE rows[last]
  BY Zenon DEF Written
<1>2. n \in Nat /\ DOMAIN rows = 1..n
  BY LenProperties
<1> HIDE DEF n
<1>3. CASE I = {}
  <2>1. Written(mem, rows)[a] = mem[a]
    BY <1>1, <1>3
  <2>2. \A i \in DOMAIN rows : <<rows[i].bloco, rows[i].numero>> # a
    BY <1>3
  <2>3. QED
    BY <2>1, <2>2 DEF Rows
<1>4. CASE I # {}
  <2>1. I \subseteq 1..n
    BY <1>2
  <2>2. last \in I
    <3>1. \E i \in I : \A k \in I : k <= i
      <4> HIDE DEF I
      <4>1. QED
        BY <1>2, <1>4, <2>1, LastOf
    <3> HIDE DEF I
    <3>2. QED
      BY <3>1
  <2>3. Written(mem, rows)[a] = rows[last]
    BY <1>1, <1>4
  <2> HIDE DEF last
  <2>4. last \in DOMAIN rows /\ <<rows[last].bloco, rows[last].numero>> = a
    BY <2>2
  <2>5. rows[last] \in Rows(rows)
    BY <2>4 DEF Rows
  <2>6. QED
    BY <2>3, <2>4, <2>5
<1>5. QED
  BY <1>3, <1>4

\* The bitmap a format refers to is one of those there are, or none.
LEMMA BitmapsInRange ==
    ASSUME NEW m \in Nat, NEW ps, DOMAIN ps = 1..m, NEW numero
    PROVE  BmpDoFormato(ps, numero) \in 0..BmpMax \cup {Nulo}
<1> DEFINE D == {j \in DOMAIN ps : Selos(ps[j]) # << >>}
           tabelas == {ps[i].tabela.numero : i \in D}
           posto(t) == Cardinality({u \in tabelas : u <= t})
           g == [i \in D |-> ps[i].tabela.numero]
<1>1. IsFiniteSet(D)
  <2>1. IsFiniteSet(1..m) /\ D \subseteq 1..m
    BY FS_Interval
  <2> HIDE DEF D
  <2>2. QED
    BY <2>1, FS_Subset
<1>2. IsFiniteSet(tabelas)
  <2>1. g \in Surjection(D, tabelas)
    BY DEF Surjection
  <2> HIDE DEF D, g, tabelas
  <2>2. QED
    BY <1>1, <2>1, FS_Surjection
<1>3. \A t : posto(t) \in Nat
  <2> HIDE DEF D, tabelas
  <2>1. \A t : IsFiniteSet({u \in tabelas : u <= t})
    BY <1>2, FS_Subset
  <2>2. QED
    BY <2>1, FS_CardinalityType
<1>4. IdsDeSelo(ps) = [t \in {u \in tabelas : posto(u) <= BmpMax} |-> posto(t)]
  BY Zenon DEF IdsDeSelo
<1> HIDE DEF posto, tabelas
<1>5. BmpMax \in Nat
  BY EncodingAssumption
<1>6. \A t \in DOMAIN IdsDeSelo(ps) : IdsDeSelo(ps)[t] \in 0..BmpMax
  BY <1>3, <1>4, <1>5
<1>7. \A p : BmpDoProduto(ps, p) \in 0..BmpMax \cup {Nulo}
  BY <1>6 DEF BmpDoProduto
<1>8. QED
  BY <1>7 DEF BmpDoFormato

\* The format of a product in a package is that of the product, at the version read.
LEMMA FormatSent ==
    ASSUME NEW r
    PROVE  /\ FormatOf[r.id] = Nulo => ProductPayload(r).formato = Nulo /\ ChaveFormato(ProductPayload(r)) = Nulo
           /\ FormatOf[r.id] # Nulo => ProductPayload(r).formato = FormatPayload(FormatOf[r.id], r.fv)
  BY DEF ProductPayload, ChaveFormato, NumeroDe

\* The versions a job has read are versions there are.
LEMMA VersionsThereAre ==
    ASSUME format \in [Formats -> 1..(MaxEvents + 1)], NEW job, PackageFits(job), ReadOnce(job)
    PROVE  /\ \A i \in DOMAIN job.read : LET f == FormatOf[job.read[i].id] IN
                 f # Nulo => f \in Formats /\ job.read[i].fv \in 1..(MaxEvents + 1)
           /\ \A i \in DOMAIN job.loose :
                 job.loose[i].id \in Formats /\ job.loose[i].versao \in 1..(MaxEvents + 1)
<1>1. /\ FormatOf \in [Products -> Formats \cup {Nulo}] /\ MaxEvents \in Nat
      /\ \A f \in Formats : 1..format[f] \subseteq 1..(MaxEvents + 1)
  <2>1. FormatOf \in [Products -> Formats \cup {Nulo}] /\ MaxEvents \in Nat
    BY CatalogAssumption
  <2>2. ASSUME NEW f \in Formats PROVE 1..format[f] \subseteq 1..(MaxEvents + 1)
    <3>1. format[f] \in 1..(MaxEvents + 1)
      OBVIOUS
    <3> DEFINE v == format[f]
    <3> HIDE DEF v
    <3>2. 1..v \subseteq 1..(MaxEvents + 1)
      BY <2>1, <3>1 DEF v
    <3>3. QED
      BY <3>2 DEF v
  <2>3. QED
    BY <2>1, <2>2
<1>2. /\ \A i \in DOMAIN job.read : job.read[i].id \in Products
      /\ \A i \in DOMAIN job.loose : job.loose[i].id \in Formats
  BY PackageOf DEF ProductRead, FormatRead
<1>3. ASSUME NEW i \in DOMAIN job.read, FormatOf[job.read[i].id] # Nulo
      PROVE  FormatOf[job.read[i].id] \in Formats /\ job.read[i].fv \in 1..(MaxEvents + 1)
  <2> DEFINE f == FormatOf[job.read[i].id]
  <2>1. f \in Formats /\ job.read[i].fv \in 1..format[f]
    BY <1>1, <1>2, <1>3 DEF ReadOnce
  <2>2. QED
    BY <1>1, <2>1
<1>4. ASSUME NEW i \in DOMAIN job.loose PROVE job.loose[i].versao \in 1..(MaxEvents + 1)
  <2>1. job.loose[i].versao \in 1..format[job.loose[i].id]
    BY DEF ReadOnce
  <2>2. QED
    BY <1>1, <1>2, <2>1
<1>5. QED
  BY <1>2, <1>3, <1>4

\* A whole package leaves, in a slot that is a product's own, the row it has for it.
LEMMA PriceLands ==
    ASSUME NEW job, PackageFits(job), ReadOnce(job), NEW mem, NEW x \in Products, HasOwnSlot(x),
           NEW i \in DOMAIN job.read, job.read[i].id = x
    PROVE  Written(mem, Body(job))[<<"PLU", Codigo[x]>>] = PluRow(ProductPayload(job.read[i]), Codigo[x])
<1> DEFINE ps == Package(job).products
           fs == Package(job).loose
           m == Len(job.read)
           k == Len(job.loose)
           n == Codigo[x]
           a == <<"PLU", n>>
           body == Body(job)
<1>1. /\ m \in Nat /\ DOMAIN job.read = 1..m /\ DOMAIN ps = 1..m
      /\ k \in Nat /\ DOMAIN fs = 1..k
      /\ \A l \in 1..m : job.read[l] \in ProductRead /\ ps[l] = ProductPayload(job.read[l])
      /\ body = BuildSyncBody(ps, fs)
  BY PackageOf
<1>2. /\ n # NaoNumerico /\ n \in (Cardinality(Products) + 1)..PluMax
      /\ \A q \in Products \ {x} : Codigo[q] # n
  BY DEF HasOwnSlot
<1>3. Cardinality(Products) \in Nat /\ PluMax \in Nat
  BY CatalogueIsFinite, EncodingAssumption
<1> HIDE DEF ps, fs, body, m, k
<1>4. \A l \in 1..m : ps[l].codigo = Codigo[job.read[l].id] /\ job.read[l].id \in Products
  <2>1. \A r : ProductPayload(r).codigo = Codigo[r.id]
    BY DEF ProductPayload
  <2>2. QED
    BY <1>1, <2>1 DEF ProductRead
<1>5. /\ body \in Seq(Rows(body))
      /\ Rows(body) = Rows(BlocoBmp(ps)) \cup Rows(BlocoCls(ps)) \cup Rows(BlocoPlu(ps))
                      \cup Rows(BlocoNu3(ps)) \cup Rows(BlocoIr2(ps)) \cup Rows(BlocoLab(ps, fs))
  BY <1>1, BodyIsItsBlocks
<1>6. \A r \in Rows(body) : r.bloco = "PLU" => r \in Rows(BlocoPlu(ps))
  <2>1. /\ IsBlock(BlocoBmp(ps), "BMP") /\ IsBlock(BlocoCls(ps), "CLS")
        /\ IsBlock(BlocoNu3(ps), "NU3") /\ IsBlock(BlocoIr2(ps), "IR2")
        /\ IsBlock(BlocoLab(ps, fs), "LAB")
    BY <1>1, Blocks
  <2>2. QED
    BY <1>5, <2>1 DEF IsBlock
<1>7. /\ DOMAIN BlocoPlu(ps) = 1..m
      /\ \A l \in 1..m : BlocoPlu(ps)[l] = PluRow(ps[l], ResolvePluNumber(ps[l].codigo, l))
  BY <1>1 DEF BlocoPlu
<1>8. ASSUME NEW l \in 1..m, ResolvePluNumber(ps[l].codigo, l) = n PROVE l = i
  <2>1. l # n
    BY <1>1, <1>2, <1>3 DEF m, PackageFits
  <2>2. ps[l].codigo = n
    BY <1>8, <2>1 DEF ResolvePluNumber
  <2>3. job.read[l].id = x
    BY <1>2, <1>4, <2>2
  <2>4. l \in DOMAIN job.read /\ i \in DOMAIN job.read
    BY <1>1
  <2>5. QED
    BY <2>3, <2>4 DEF ReadOnce
<1>9. i \in 1..m /\ ResolvePluNumber(ps[i].codigo, i) = n
  <2>1. i \in 1..m
    BY <1>1
  <2>2. ps[i].codigo = n
    BY <1>4, <2>1
  <2>3. n \in 1..PluMax
    BY <1>2, <1>3
  <2>4. QED
    BY <1>2, <2>1, <2>2, <2>3 DEF ResolvePluNumber
<1>10. a \in Address
  <2>1. n \in Slots
    BY <1>2 DEF Slots
  <2>2. QED
    BY <2>1 DEF Address
<1>11. \A r \in Rows(body) : <<r.bloco, r.numero>> = a => r = PluRow(ps[i], n)
  <2>1. ASSUME NEW r \in Rows(body), <<r.bloco, r.numero>> = a PROVE r = PluRow(ps[i], n)
    <3>1. r.bloco = "PLU" /\ r.numero = n
      BY <2>1
    <3>2. PICK l \in 1..m : r = PluRow(ps[l], ResolvePluNumber(ps[l].codigo, l))
      BY <1>6, <1>7, <3>1 DEF Rows
    <3>3. ResolvePluNumber(ps[l].codigo, l) = n
      BY <3>1, <3>2 DEF PluRow
    <3>4. QED
      BY <1>8, <3>2, <3>3
  <2>2. QED
    BY <2>1
<1>12. PluRow(ps[i], n) \in Rows(body) /\ <<PluRow(ps[i], n).bloco, PluRow(ps[i], n).numero>> = a
  <2>1. PluRow(ps[i], n) \in Rows(BlocoPlu(ps))
    BY <1>7, <1>9 DEF Rows
  <2>2. PluRow(ps[i], n).bloco = "PLU" /\ PluRow(ps[i], n).numero = n
    BY DEF PluRow
  <2>3. QED
    BY <1>5, <2>1, <2>2
<1>13. a[1] = "PLU"
  OBVIOUS
<1> HIDE DEF a, n
<1>14. Written(mem, body)[a] = PluRow(ps[i], n)
  <2>1. ~(a[1] = "LAB" /\ a[2] \in FactorySlots)
    BY <1>13
  <2>2. \/ \E r \in Rows(body) : <<r.bloco, r.numero>> = a /\ Written(mem, body)[a] = r
        \/ (\A r \in Rows(body) : <<r.bloco, r.numero>> # a) /\ Written(mem, body)[a] = mem[a]
    BY <1>5, <1>10, <2>1, WholeWritten
  <2>3. QED
    BY <1>11, <1>12, <2>2
<1>15. ps[i] = ProductPayload(job.read[i])
  BY <1>1, <1>9
<1>16. QED
  BY <1>14, <1>15 DEF a, n, body

\* The layout a package carries of a format: that of the first product that uses it, or the
\* one sent on its own.
LayoutOf(job, f, v) ==
    LET users == {i \in DOMAIN job.read : FormatOf[job.read[i].id] = f}
    IN  IF users # {} THEN \E i \in users : (\A k \in users : i <= k) /\ job.read[i].fv = v
        ELSE \E i \in DOMAIN job.loose : job.loose[i] = [id |-> f, versao |-> v]

\* A whole package leaves, where a format has its slot, the layout it carries of it.
LEMMA LayoutLands ==
    ASSUME format \in [Formats -> 1..(MaxEvents + 1)],
           NEW job, PackageFits(job), ReadOnce(job), NEW mem,
           NEW f \in Formats, Number[f] \notin FactorySlots, NEW v, LayoutOf(job, f, v)
    PROVE  \E b \in 0..BmpMax \cup {Nulo} :
              Written(mem, Body(job))[<<"LAB", Number[f]>>] = LabRow(FormatPayload(f, v), b)
<1> DEFINE ps == Package(job).products
           fs == Package(job).loose
           m == Len(job.read)
           k == Len(job.loose)
           n == Number[f]
           a == <<"LAB", n>>
           body == Body(job)
           users == {i \in DOMAIN job.read : FormatOf[job.read[i].id] = f}
           Bitmaps == 0..BmpMax \cup {Nulo}
           Good(r) == \E b \in Bitmaps : r = LabRow(FormatPayload(f, v), b)
<1>1. /\ m \in Nat /\ DOMAIN job.read = 1..m /\ DOMAIN ps = 1..m
      /\ k \in Nat /\ DOMAIN job.loose = 1..k /\ DOMAIN fs = 1..k
      /\ \A l \in 1..m : job.read[l] \in ProductRead /\ ps[l] = ProductPayload(job.read[l])
      /\ \A l \in 1..k : fs[l] = FormatPayload(job.loose[l].id, job.loose[l].versao)
      /\ body = BuildSyncBody(ps, fs)
  BY PackageOf
<1>2. /\ \A l \in 1..m : FormatOf[job.read[l].id] # Nulo =>
              FormatOf[job.read[l].id] \in Formats /\ job.read[l].fv \in 1..(MaxEvents + 1)
      /\ \A l \in 1..k : job.loose[l].id \in Formats /\ job.loose[l].versao \in 1..(MaxEvents + 1)
  BY <1>1, VersionsThereAre
<1>3. /\ \A g, h \in Formats : Number[g] = Number[h] => g = h
      /\ \A g \in Formats : Number[g] # Nulo
      /\ \A g \in Formats, w \in 1..(MaxEvents + 1) : FormatPayload(g, w) # Nulo
      /\ Nulo \notin Formats
  BY RowsAssumption, CatalogAssumption
<1>4. \A g, w : FormatPayload(g, w).numero = Number[g]
  BY DEF FormatPayload
\* The number of a product's format.
<1>5. ASSUME NEW l \in 1..m
      PROVE  /\ ChaveFormato(ps[l]) = n <=> l \in users
             /\ ChaveFormato(ps[l]) = n => ps[l].formato = FormatPayload(f, job.read[l].fv)
  <2> DEFINE g == FormatOf[job.read[l].id]
  <2>1. CASE g = Nulo
    <3>1. ChaveFormato(ps[l]) = Nulo
      BY <1>1, <2>1, FormatSent
    <3>2. QED
      BY <1>1, <1>3, <2>1, <3>1
  <2>2. CASE g # Nulo
    <3>1. ps[l].formato = FormatPayload(g, job.read[l].fv)
      BY <1>1, <2>2, FormatSent
    <3>2. ChaveFormato(ps[l]) = Number[g] /\ g \in Formats
      BY <1>2, <1>3, <1>4, <2>2, <3>1 DEF ChaveFormato, NumeroDe
    <3>3. QED
      BY <1>1, <1>3, <3>1, <3>2
  <2>3. QED
    BY <2>1, <2>2
<1> HIDE DEF ps, fs, m, k, body
<1>6. /\ body \in Seq(Rows(body))
      /\ Rows(body) = Rows(BlocoBmp(ps)) \cup Rows(BlocoCls(ps)) \cup Rows(BlocoPlu(ps))
                      \cup Rows(BlocoNu3(ps)) \cup Rows(BlocoIr2(ps)) \cup Rows(BlocoLab(ps, fs))
  BY <1>1, BodyIsItsBlocks
<1>7. \A r \in Rows(body) : r.bloco = "LAB" => r \in Rows(BlocoLab(ps, fs))
  <2>1. /\ IsBlock(BlocoBmp(ps), "BMP") /\ IsBlock(BlocoCls(ps), "CLS")
        /\ IsBlock(BlocoNu3(ps), "NU3") /\ IsBlock(BlocoIr2(ps), "IR2")
    BY <1>1, Blocks
  <2>2. \A r \in Rows(BlocoPlu(ps)) : r.bloco = "PLU"
    BY DEF Rows, BlocoPlu, PluRow
  <2>3. QED
    BY <1>6, <2>1, <2>2 DEF IsBlock
<1>8. Rows(BlocoLab(ps, fs)) =
        {LabRow(ps[i].formato, BmpDoFormato(ps, ps[i].formato.numero)) : i \in FirstUses(ps)}
        \cup {LabRow(fs[i], Nulo) : i \in OnlyLoose(ps, fs)}
  BY <1>1, LabListed
<1>9. \A g, b : LabRow(g, b).bloco = "LAB" /\ LabRow(g, b).numero = g.numero
  BY DEF LabRow
\* Rows for the slot come from the first product that uses the format...
<1>10. ASSUME NEW i \in FirstUses(ps), ps[i].formato.numero = n
       PROVE  i \in users /\ (\A l \in users : i <= l) /\ ps[i].formato = FormatPayload(f, job.read[i].fv)
  <2>1. i \in 1..m /\ ChaveFormato(ps[i]) # Nulo /\ \A j \in 1..(i - 1) : ChaveFormato(ps[j]) # ChaveFormato(ps[i])
    BY <1>1 DEF FirstUses
  <2>2. ChaveFormato(ps[i]) = n
    BY <1>10, <2>1 DEF ChaveFormato, NumeroDe
  <2>3. ASSUME NEW l \in users PROVE i <= l
    <3>1. l \in 1..m /\ ChaveFormato(ps[l]) = n
      BY <1>1, <1>5
    <3>2. l \notin 1..(i - 1)
      BY <2>1, <2>2, <3>1
    <3>3. QED
      BY <1>1, <2>1, <3>1, <3>2
  <2>4. QED
    BY <1>5, <2>1, <2>2, <2>3
\* ...or else from the format sent on its own.
<1>11. ASSUME NEW i \in OnlyLoose(ps, fs), fs[i].numero = n
       PROVE  users = {} /\ i \in DOMAIN job.loose /\ job.loose[i].id = f
              /\ fs[i] = FormatPayload(f, job.loose[i].versao)
  <2>1. i \in 1..k /\ \A j \in 1..m : ChaveFormato(ps[j]) # n
    BY <1>1, <1>11 DEF OnlyLoose
  <2>2. users = {}
    BY <1>1, <1>5, <2>1
  <2>3. job.loose[i].id = f
    BY <1>1, <1>2, <1>3, <1>4, <1>11, <2>1
  <2>4. QED
    BY <1>1, <2>1, <2>2, <2>3
<1>12. \A r \in Rows(body) : <<r.bloco, r.numero>> = a => Good(r)
  <2>1. ASSUME NEW r \in Rows(body), <<r.bloco, r.numero>> = a PROVE Good(r)
    <3>1. r \in Rows(BlocoLab(ps, fs)) /\ r.numero = n
      BY <1>7, <2>1
    <3>2. CASE \E i \in FirstUses(ps) : r = LabRow(ps[i].formato, BmpDoFormato(ps, ps[i].formato.numero))
      <4>1. PICK i \in FirstUses(ps) : r = LabRow(ps[i].formato, BmpDoFormato(ps, ps[i].formato.numero))
        BY <3>2
      <4> DEFINE b == BmpDoFormato(ps, ps[i].formato.numero)
      <4>2. ps[i].formato.numero = n
        BY <1>9, <3>1, <4>1
      <4>3. i \in users /\ (\A l \in users : i <= l) /\ ps[i].formato = FormatPayload(f, job.read[i].fv)
        BY <1>10, <4>2
      <4>4. job.read[i].fv = v
        <5>1. PICK i0 \in users : (\A l \in users : i0 <= l) /\ job.read[i0].fv = v
          BY <4>3 DEF LayoutOf
        <5>2. i0 <= i /\ i <= i0 /\ i0 \in 1..m /\ i \in 1..m
          BY <1>1, <4>3, <5>1
        <5>3. QED
          BY <5>1, <5>2
      <4>5. b \in Bitmaps
        BY <1>1, BitmapsInRange
      <4>6. QED
        BY <4>1, <4>3, <4>4, <4>5
    <3>3. CASE \E i \in OnlyLoose(ps, fs) : r = LabRow(fs[i], Nulo)
      <4>1. PICK i \in OnlyLoose(ps, fs) : r = LabRow(fs[i], Nulo)
        BY <3>3
      <4>2. fs[i].numero = n
        BY <1>9, <3>1, <4>1
      <4>3. users = {} /\ i \in DOMAIN job.loose /\ job.loose[i].id = f
            /\ fs[i] = FormatPayload(f, job.loose[i].versao)
        BY <1>11, <4>2
      <4>4. PICK i0 \in DOMAIN job.loose : job.loose[i0] = [id |-> f, versao |-> v]
        BY <4>3 DEF LayoutOf
      <4>5. i0 = i
        <5>1. job.loose[i0].id = job.loose[i].id
          BY <4>3, <4>4
        <5>2. QED
          BY <4>3, <5>1 DEF ReadOnce
      <4>6. job.loose[i].versao = v
        BY <4>4, <4>5
      <4>7. QED
        BY <4>1, <4>3, <4>6
    <3>4. QED
      BY <1>8, <3>1, <3>2, <3>3
  <2>2. QED
    BY <2>1
<1>13. \E r \in Rows(body) : <<r.bloco, r.numero>> = a
  <2>1. CASE users # {}
    <3>1. PICK i \in users : \A l \in users : i <= l
      BY <2>1 DEF LayoutOf
    <3>2. i \in 1..m /\ ChaveFormato(ps[i]) = n /\ ps[i].formato.numero = n
      BY <1>1, <1>4, <1>5
    <3>3. \A j \in 1..(i - 1) : ChaveFormato(ps[j]) # n
      <4>1. ASSUME NEW j \in 1..(i - 1), ChaveFormato(ps[j]) = n PROVE FALSE
        <5>1. j \in 1..m /\ ~(i <= j)
          BY <1>1, <3>2
        <5>2. j \in users
          BY <1>5, <4>1, <5>1
        <5>3. QED
          BY <3>1, <5>1, <5>2
      <4>2. QED
        BY <4>1
    <3>4. i \in FirstUses(ps)
      BY <1>1, <1>3, <3>2, <3>3 DEF FirstUses
    <3> DEFINE r == LabRow(ps[i].formato, BmpDoFormato(ps, ps[i].formato.numero))
    <3>5. r \in Rows(body)
      BY <1>6, <1>8, <3>4
    <3>6. r.bloco = "LAB" /\ r.numero = n
      BY <1>9, <3>2
    <3> HIDE DEF r
    <3>7. QED
      BY <3>5, <3>6
  <2>2. CASE users = {}
    <3>1. PICK i \in DOMAIN job.loose : job.loose[i] = [id |-> f, versao |-> v]
      BY <2>2 DEF LayoutOf
    <3>2. i \in 1..k /\ fs[i].numero = n /\ job.loose[i].id = f
      BY <1>1, <1>4, <3>1
    <3>3. \A j \in 1..m : ChaveFormato(ps[j]) # n
      BY <1>1, <1>5, <2>2
    <3>4. \A j \in 1..(i - 1) : fs[j].numero # n
      <4>1. ASSUME NEW j \in 1..(i - 1), fs[j].numero = n PROVE FALSE
        <5>1. j \in 1..k /\ j # i
          BY <1>1, <3>2
        <5>2. job.loose[j].id = f
          BY <1>1, <1>2, <1>3, <1>4, <4>1, <5>1
        <5>3. QED
          BY <1>1, <3>2, <5>1, <5>2 DEF ReadOnce
      <4>2. QED
        BY <4>1
    <3>5. i \in OnlyLoose(ps, fs)
      BY <1>1, <3>2, <3>3, <3>4 DEF OnlyLoose
    <3> DEFINE r == LabRow(fs[i], Nulo)
    <3>6. r \in Rows(body)
      BY <1>6, <1>8, <3>5
    <3>7. r.bloco = "LAB" /\ r.numero = n
      BY <1>9, <3>2
    <3> HIDE DEF r
    <3>8. QED
      BY <3>6, <3>7
  <2>3. QED
    BY <2>1, <2>2
<1>14. a \in Address /\ a[1] = "LAB" /\ a[2] = n
  BY DEF Address
<1> HIDE DEF a, Good
<1>15. Good(Written(mem, body)[a])
  <2>1. ~(a[1] = "LAB" /\ a[2] \in FactorySlots)
    BY <1>14
  <2>2. \/ \E r \in Rows(body) : <<r.bloco, r.numero>> = a /\ Written(mem, body)[a] = r
        \/ (\A r \in Rows(body) : <<r.bloco, r.numero>> # a) /\ Written(mem, body)[a] = mem[a]
    BY <1>6, <1>14, <2>1, WholeWritten
  <2>3. QED
    BY <1>12, <1>13, <2>2
<1>16. QED
  BY <1>15 DEF Good, a, body

-----------------------------------------------------------------------------
(* What is out of date.                                                     *)

LEMMA OrdersListAll ==
    ASSUME NEW S, IsFiniteSet(S), NEW s \in Orders(S)
    PROVE  /\ \A x \in S : \E i \in DOMAIN s : s[i] = x
           /\ \A i \in DOMAIN s : s[i] \in S
           /\ \A i, k \in DOMAIN s : s[i] = s[k] => i = k
<1> DEFINE c == Cardinality(S)
           T == 1..c
<1>1. c \in Nat
  BY FS_CardinalityType
<1>2. s \in [T -> S] /\ \A i, k \in T : s[i] = s[k] => i = k
  BY DEF Orders
<1> HIDE DEF c
<1>3. IsFiniteSet(T) /\ Cardinality(T) = c
  BY <1>1, FS_Interval
<1> HIDE DEF T
<1>4. s \in Injection(T, S)
  BY <1>2 DEF Injection, IsInjective
<1>5. s \in Surjection(T, S)
  BY <1>3, <1>4, FS_Injection DEF c
<1>6. QED
  BY <1>2, <1>5 DEF Surjection

\* The state the steps below start from.
LEMMA Facts ==
    ASSUME IInv
    PROVE  /\ MaxEvents \in Nat /\ MaxJobs \in Nat
           /\ events \in 0..MaxEvents /\ created \in 0..MaxJobs
           /\ product \in [Products -> Row] /\ format \in [Formats -> 1..(MaxEvents + 1)]
           /\ \A f \in Formats : format[f] \in Nat
           /\ jobs \in [1..MaxJobs -> Job \cup {Nulo}] /\ JobsFit
           /\ DOMAIN memory = Address
           /\ FormatOf \in [Products -> Formats \cup {Nulo}]
<1>1. MaxEvents \in Nat /\ MaxJobs \in Nat /\ FormatOf \in [Products -> Formats \cup {Nulo}]
  BY CatalogAssumption
<1>2. events \in 0..MaxEvents /\ format \in [Formats -> 1..(events + 1)]
  BY DEF IInv, TypeOK
<1>3. 1..(events + 1) \subseteq 1..(MaxEvents + 1) /\ 1..(MaxEvents + 1) \subseteq Nat
  BY <1>1, <1>2
<1>4. format \in [Formats -> 1..(MaxEvents + 1)] /\ \A f \in Formats : format[f] \in Nat
  BY <1>2, <1>3
<1>5. QED
  BY <1>1, <1>2, <1>4 DEF IInv, TypeOK, JobsFit

\* A failed attempt leaves the job waiting again, or no job.
LEMMA FailLeaves ==
    ASSUME JobsFit, NEW j \in 1..MaxJobs, jobs[j] # Nulo, NEW S, Fail(j, S)
    PROVE  /\ jobs'[j] # Nulo =>
                /\ jobs'[j].phase = "waiting" /\ jobs'[j].read = << >> /\ jobs'[j].loose = << >>
                /\ jobs'[j].tipo = jobs[j].tipo /\ jobs'[j].ids = jobs[j].ids /\ jobs'[j].fids = jobs[j].fids
           /\ \A i \in 1..MaxJobs \ {j} : jobs'[i] = jobs[i]
           /\ jobs[j].tries + 1 < Attempts => jobs'[j] # Nulo
           /\ ~(jobs[j].tries + 1 < Attempts) => Excuse(S \cup Covered(jobs[j]))
<1>1. jobs[j] \in Job /\ jobs \in [1..MaxJobs -> Job \cup {Nulo}]
  BY DEF JobsFit
<1> DEFINE again == jobs[j].tries + 1 < Attempts
           retry == [NewJob(jobs[j].tipo, jobs[j].ids, jobs[j].fids) EXCEPT !.tries = jobs[j].tries + 1]
<1>2. jobs' = [jobs EXCEPT ![j] = IF again THEN retry ELSE Nulo]
  BY DEF Fail
<1>3. /\ retry.phase = "waiting" /\ retry.read = << >> /\ retry.loose = << >>
      /\ retry.tipo = jobs[j].tipo /\ retry.ids = jobs[j].ids /\ retry.fids = jobs[j].fids
  BY DEF NewJob
<1>4. again => retry # Nulo
  <2>1. Attempts \in Nat \ {0} /\ Nulo \notin Job
    BY CatalogAssumption, RowsAssumption
  <2>2. /\ jobs[j].tipo \in {"TOTAL", "INCREMENTAL"} /\ jobs[j].ids \in SUBSET Products
        /\ jobs[j].fids \in SUBSET Formats /\ jobs[j].tries \in 0..(Attempts - 1)
    BY <1>1 DEF Job
  <2>3. again => jobs[j].tries + 1 \in 0..(Attempts - 1)
    BY <2>1, <2>2
  <2>4. again => retry \in Job
    BY <2>2, <2>3, WaitingJob
  <2> HIDE DEF retry
  <2>5. QED
    BY <2>1, <2>4
<1> HIDE DEF retry
<1>5. ~again => Excuse(S \cup Covered(jobs[j]))
  BY DEF Fail
<1>6. QED
  BY <1>1, <1>2, <1>3, <1>4, <1>5

\* Nothing but rows reaches the scale, and what is excused is kept or found anew.
LEMMA ScaleSteps ==
    ASSUME [Next]_vars
    PROVE  /\ UNCHANGED memory \/ \E rows : memory' = Written(memory, rows)
           /\ UNCHANGED excused \/ \E S : Excuse(S)
<1>1. ASSUME NEW j \in 1..MaxJobs, Write(j) \/ LoseWrite(j)
      PROVE  (\E rows : memory' = Written(memory, rows)) /\ \E S : Excuse(S)
  BY <1>1 DEF Write, LoseWrite, Take, Fail
<1>2. ASSUME NEW rest \in adrift, LandsLate(rest)
      PROVE  (\E rows : memory' = Written(memory, rows)) /\ \E S : Excuse(S)
  BY <1>2 DEF LandsLate, Take
<1>3. ASSUME NEW j \in 1..MaxJobs, ReadProducts(j) \/ OpenJob(j) \/ ReadBack(j) \/ LoseResult(j) \/ EndJob(j)
      PROVE  UNCHANGED memory /\ (UNCHANGED excused \/ \E S : Excuse(S))
  BY <1>3 DEF ReadProducts, OpenJob, ReadBack, LoseResult, EndJob, Fail
<1>4. ASSUME \/ \E p \in Products, ativo \in BOOLEAN : SaveProduct(p, ativo)
             \/ \E P \in SUBSET Products : DeleteProducts(P)
             \/ \E f \in Formats : SaveFormat(f)
             \/ \E x \in Item : Enqueue(x) \/ LoseRequest(x)
             \/ AskSync("TOTAL", {}) \/ \E ids \in Asked : AskSync("INCREMENTAL", ids)
             \/ Link \/ UNCHANGED vars
      PROVE  UNCHANGED memory /\ (UNCHANGED excused \/ \E S : Excuse(S))
  BY <1>4 DEF SaveProduct, DeleteProducts, SaveFormat, Enqueue, LoseRequest, AskSync, Link, vars
<1>5. QED
  BY <1>1, <1>2, <1>3, <1>4 DEF Next

LEMMA Excused ==
    ASSUME NEW S, Excuse(S), NEW x \in Tracked, Stale(x)', x \in excused \/ x \in S
    PROVE  x \in excused'
  BY DEF Excuse

LEMMA FactoryStays == IInv /\ FactoryKept /\ [Next]_vars => FactoryKept'
<1> SUFFICES ASSUME IInv, FactoryKept, [Next]_vars PROVE FactoryKept'
  OBVIOUS
<1>1. ASSUME NEW f \in Formats, Number[f] \in FactorySlots
      PROVE  memory'[<<"LAB", Number[f]>>] = FactoryRow
  <2> DEFINE a == <<"LAB", Number[f]>>
  <2>1. memory[a] = FactoryRow
    BY <1>1 DEF FactoryKept
  <2>2. a \in Address /\ a[1] = "LAB" /\ a[2] \in FactorySlots
    BY <1>1 DEF Address
  <2> HIDE DEF a
  <2>3. \A mem, rows : Written(mem, rows)[a] = mem[a]
    BY <2>2, Zenon DEF Written
  <2>4. UNCHANGED memory \/ \E rows : memory' = Written(memory, rows)
    BY ScaleSteps
  <2>5. memory'[a] = memory[a]
    BY <2>3, <2>4
  <2>6. QED
    BY <2>1, <2>5 DEF a
\* Its name is not that of a format, so the format that asks for the slot is out of date.
<1>2. ASSUME NEW f \in Formats, Number[f] \in FactorySlots PROVE f \in excused'
  <2>1. IInv' /\ MaxEvents \in Nat
    BY Stays, CatalogAssumption
  <2>2. events' \in 0..MaxEvents /\ format'[f] \in 1..(events' + 1)
    BY <2>1 DEF IInv, TypeOK
  <2>3. format'[f] \in 1..(MaxEvents + 1)
    BY <2>1, <2>2
  <2>4. Name[f][format'[f]] # FactoryRow.nome
    BY <1>2, <2>3, RowsAssumption
  <2>5. f \notin Products /\ f \in Tracked
    BY RowsAssumption DEF Tracked
  <2>6. Stale(f)'
    BY <1>1, <1>2, <2>4, <2>5 DEF Stale, Shown
  <2>7. f \in excused
    BY <1>2 DEF FactoryKept
  <2>8. UNCHANGED excused \/ \E S : Excuse(S)
    BY ScaleSteps
  <2>9. QED
    BY <2>5, <2>6, <2>7, <2>8, Excused
<1>3. QED
  BY <1>1, <1>2 DEF FactoryKept

LEMMA SavedStays == IInv /\ RowsSaved /\ [Next]_vars => RowsSaved'
<1> SUFFICES ASSUME IInv, RowsSaved, [Next]_vars PROVE RowsSaved'
  OBVIOUS
<1>1. product \in [Products -> Row] /\ \A p \in Products : product[p].versao \in Nat
  BY Facts DEF Row
<1>2. ASSUME NEW p \in Products, NEW ativo \in BOOLEAN, SaveProduct(p, ativo) PROVE RowsSaved'
  <2>1. product' = [product EXCEPT ![p] = [exists |-> TRUE, ativo |-> ativo, versao |-> product[p].versao + 1]]
    BY <1>2 DEF SaveProduct
  <2>2. product[p].versao + 1 # 0
    BY <1>1
  <2>3. ASSUME NEW q \in Products
        PROVE  (product'[q].ativo => product'[q].exists) /\ (product'[q].exists => product'[q].versao # 0)
    <3>1. CASE q = p
      BY <1>1, <2>1, <2>2, <3>1
    <3>2. CASE q # p
      <4>1. product'[q] = product[q]
        BY <1>1, <2>1, <3>2
      <4>2. QED
        BY <4>1 DEF RowsSaved
    <3>3. QED
      BY <3>1, <3>2
  <2>4. QED
    BY <2>3 DEF RowsSaved
<1>3. ASSUME NEW P \in SUBSET Products, DeleteProducts(P) PROVE RowsSaved'
  <2>1. \A q \in Products : product'[q] = IF q \in P THEN [exists |-> FALSE, ativo |-> FALSE, versao |-> product[q].versao]
                                           ELSE product[q]
    BY <1>3 DEF DeleteProducts
  <2>2. ASSUME NEW q \in Products
        PROVE  (product'[q].ativo => product'[q].exists) /\ (product'[q].exists => product'[q].versao # 0)
    <3>1. CASE q \in P
      <4>1. product'[q] = [exists |-> FALSE, ativo |-> FALSE, versao |-> product[q].versao]
        BY <2>1, <3>1
      <4>2. ~product'[q].ativo /\ ~product'[q].exists
        BY <4>1
      <4>3. QED
        BY <4>2
    <3>2. CASE q \notin P
      <4>1. product'[q] = product[q]
        BY <2>1, <3>2
      <4>2. QED
        BY <4>1 DEF RowsSaved
    <3>3. QED
      BY <3>1, <3>2
  <2>3. QED
    BY <2>2 DEF RowsSaved
<1>4. ASSUME UNCHANGED product PROVE RowsSaved'
  BY <1>4 DEF RowsSaved
<1>5. \/ \E p \in Products, ativo \in BOOLEAN : SaveProduct(p, ativo)
      \/ \E P \in SUBSET Products : DeleteProducts(P)
      \/ UNCHANGED product
  BY DEF Next, vars, SaveFormat, Enqueue, LoseRequest, AskSync, Link, ReadProducts, OpenJob,
         Write, LoseWrite, LandsLate, ReadBack, LoseResult, EndJob
<1>6. QED
  BY <1>2, <1>3, <1>4, <1>5

\* The two reads of a job.
HasRead(j) ==
    /\ jobs[j].phase = "waiting"
    /\ \E order \in Orders(Wanted(jobs[j])) :
          jobs' = [jobs EXCEPT ![j].phase = "read",
                               ![j].read = [i \in DOMAIN order |-> RowOf(order[i])]]
HasOpened(j) ==
    /\ jobs[j].phase = "read"
    /\ \E order \in Orders(jobs[j].fids) :
          jobs' = [jobs EXCEPT ![j].phase = "sending",
                      ![j].loose = [i \in DOMAIN order |->
                                       [id |-> order[i], versao |-> format[order[i]]]]]

\* The write of a package, and the reading back of a slot.
HasWritten(j) ==
    /\ jobs[j].phase = "sending"
    /\ jobs' = [jobs EXCEPT ![j].phase = "reading", ![j].unread = SentNumbers(jobs[j])]
HasReadBack(j) ==
    /\ jobs[j].phase = "reading"
    /\ \E n : \E d \in BOOLEAN : jobs' = [jobs EXCEPT ![j].unread = @ \ {n}, ![j].missed = @ \/ d]

\* What may become of a job there is.
JobChanges(j) ==
    \/ HasRead(j)
    \/ HasOpened(j)
    \/ HasWritten(j)
    \/ HasReadBack(j)
    \/ jobs' = [jobs EXCEPT ![j] = Nulo]
    \/ \E S : Fail(j, S)

\* Every step leaves the jobs alone, adds one, or changes one there is.
LEMMA JobSteps ==
    ASSUME IInv, [Next]_vars
    PROVE  \/ UNCHANGED <<jobs, created>>
           \/ /\ UNCHANGED format
              /\ \E ids \in SUBSET Products, fids \in SUBSET Formats, tipo \in {"TOTAL", "INCREMENTAL"} :
                    AddJob(NewJob(tipo, ids, fids))
           \/ \E j \in 1..MaxJobs :
                 jobs[j] # Nulo /\ UNCHANGED <<created, format, product>> /\ JobChanges(j)
<1>1. ASSUME NEW x \in Item, Enqueue(x)
      PROVE  \/ UNCHANGED <<jobs, created>>
             \/ /\ UNCHANGED format
                /\ \E ids \in SUBSET Products, fids \in SUBSET Formats, tipo \in {"TOTAL", "INCREMENTAL"} :
                      AddJob(NewJob(tipo, ids, fids))
  <2>1. \E ids \in SUBSET Products, fids \in SUBSET Formats : JobFor(x) = NewJob("INCREMENTAL", ids, fids)
    BY DEF JobFor, Item
  <2>2. UNCHANGED format /\ (AddJob(JobFor(x)) \/ UNCHANGED <<jobs, created>>)
    BY <1>1 DEF Enqueue
  <2>3. QED
    BY <2>1, <2>2
<1>2. ASSUME NEW ids \in SUBSET Products, NEW tipo \in {"TOTAL", "INCREMENTAL"}, AskSync(tipo, ids)
      PROVE  /\ UNCHANGED format
             /\ \E i \in SUBSET Products, fids \in SUBSET Formats, t \in {"TOTAL", "INCREMENTAL"} :
                    AddJob(NewJob(t, i, fids))
  <2>1. UNCHANGED format /\ AddJob(NewJob(tipo, ids, {})) /\ {} \in SUBSET Formats
    BY <1>2 DEF AskSync
  <2>2. QED
    BY <2>1
<1>3. ASSUME NEW j \in 1..MaxJobs, ReadProducts(j)
      PROVE  jobs[j] # Nulo /\ UNCHANGED <<created, format, product>> /\ JobChanges(j)
  BY <1>3 DEF ReadProducts, HasRead, JobChanges
<1>4. ASSUME NEW j \in 1..MaxJobs, OpenJob(j)
      PROVE  jobs[j] # Nulo /\ UNCHANGED <<created, format, product>> /\ JobChanges(j)
  BY <1>4 DEF OpenJob, HasOpened, JobChanges
<1>5. ASSUME NEW j \in 1..MaxJobs, Write(j) \/ LoseWrite(j) \/ LoseResult(j) \/ EndJob(j)
      PROVE  jobs[j] # Nulo /\ UNCHANGED <<created, format, product>> /\ JobChanges(j)
  BY <1>5 DEF Write, LoseWrite, LoseResult, EndJob, IsReading, HasWritten, JobChanges
<1>13. ASSUME NEW j \in 1..MaxJobs, ReadBack(j)
       PROVE  jobs[j] # Nulo /\ UNCHANGED <<created, format, product>> /\ JobChanges(j)
  <2>1. jobs[j] # Nulo /\ UNCHANGED <<created, format, product>>
    BY <1>13 DEF ReadBack, IsReading
  <2>2. HasReadBack(j)
    BY <1>13 DEF ReadBack, IsReading, Diverges, HasReadBack
  <2>3. QED
    BY <2>1, <2>2 DEF JobChanges
<1>14. ASSUME NEW rest \in adrift, LandsLate(rest) PROVE UNCHANGED <<jobs, created>>
  BY <1>14 DEF LandsLate
<1>6. ASSUME \/ \E p \in Products, ativo \in BOOLEAN : SaveProduct(p, ativo)
             \/ \E P \in SUBSET Products : DeleteProducts(P)
             \/ \E f \in Formats : SaveFormat(f)
             \/ \E x \in Item : LoseRequest(x)
             \/ Link \/ UNCHANGED vars
      PROVE  UNCHANGED <<jobs, created>>
  BY <1>6 DEF SaveProduct, DeleteProducts, SaveFormat, LoseRequest, Link, vars
<1>7. {} \in SUBSET Products /\ \A ids \in Asked : ids \in SUBSET Products
  BY CatalogAssumption
<1>8. CASE \E x \in Item : Enqueue(x)
  BY <1>1, <1>8
<1>9. CASE AskSync("TOTAL", {}) \/ \E ids \in Asked : AskSync("INCREMENTAL", ids)
  BY <1>2, <1>7, <1>9
<1>10. CASE \E j \in 1..MaxJobs : ReadProducts(j) \/ OpenJob(j)
  BY <1>3, <1>4, <1>10
<1>11. CASE \/ \E j \in 1..MaxJobs : Write(j) \/ LoseWrite(j)
            \/ \E rest \in adrift : LandsLate(rest)
            \/ \E j \in 1..MaxJobs : ReadBack(j) \/ LoseResult(j) \/ EndJob(j)
  BY <1>5, <1>11, <1>13, <1>14
<1>12. QED
  BY <1>6, <1>8, <1>9, <1>10, <1>11 DEF Next

LEMMA OthersStay ==
    ASSUME JobsFit, NEW j \in 1..MaxJobs, jobs[j] # Nulo, JobChanges(j)
    PROVE  \A i \in 1..MaxJobs \ {j} : jobs'[i] = jobs[i]
<1>1. CASE \E S : Fail(j, S)
  BY <1>1, FailLeaves
<1>2. \A job : jobs' = [jobs EXCEPT ![j] = job] => \A i \in 1..MaxJobs \ {j} : jobs'[i] = jobs[i]
  BY DEF JobsFit
<1>3. CASE HasRead(j)
  BY <1>2, <1>3 DEF HasRead
<1>4. CASE HasOpened(j)
  BY <1>2, <1>4 DEF HasOpened
<1>5. CASE HasWritten(j)
  BY <1>2, <1>5 DEF HasWritten
<1>6. CASE HasReadBack(j)
  BY <1>2, <1>6 DEF HasReadBack
<1>7. QED
  BY <1>1, <1>2, <1>3, <1>4, <1>5, <1>6 DEF JobChanges

\* A job that writes or reads back keeps what it has read.
LEMMA PackageStays ==
    ASSUME JobsFit, NEW j \in 1..MaxJobs, jobs[j] # Nulo, HasWritten(j) \/ HasReadBack(j)
    PROVE  jobs'[j].read = jobs[j].read /\ jobs'[j].loose = jobs[j].loose /\ jobs'[j].phase = "reading"
<1>1. jobs[j] \in Job /\ jobs \in [1..MaxJobs -> Job \cup {Nulo}]
  BY DEF JobsFit
<1>2. CASE HasWritten(j)
  BY <1>1, <1>2 DEF HasWritten, Job
<1>3. CASE HasReadBack(j)
  <2>1. PICK n : \E d \in BOOLEAN : jobs' = [jobs EXCEPT ![j].unread = @ \ {n}, ![j].missed = @ \/ d]
    BY <1>3 DEF HasReadBack
  <2>2. PICK d \in BOOLEAN : jobs' = [jobs EXCEPT ![j].unread = @ \ {n}, ![j].missed = @ \/ d]
    BY <2>1
  <2> DEFINE job == [jobs[j] EXCEPT !.unread = @ \ {n}, !.missed = @ \/ d]
  <2>3. job.read = jobs[j].read /\ job.loose = jobs[j].loose /\ job.phase = jobs[j].phase
    BY <1>1 DEF Job
  <2>4. jobs' = [jobs EXCEPT ![j] = job]
    BY <1>1, <2>2
  <2> HIDE DEF job
  <2>5. QED
    BY <1>1, <1>3, <2>3, <2>4 DEF HasReadBack
<1>4. QED
  BY <1>2, <1>3

LEMMA NumberedStays == IInv /\ JobsNumbered /\ [Next]_vars => JobsNumbered'
<1> SUFFICES ASSUME IInv, JobsNumbered, [Next]_vars PROVE JobsNumbered'
  OBVIOUS
<1>1. MaxJobs \in Nat /\ created \in 0..MaxJobs /\ jobs \in [1..MaxJobs -> Job \cup {Nulo}] /\ JobsFit
  BY Facts
<1>2. CASE UNCHANGED <<jobs, created>>
  BY <1>2 DEF JobsNumbered
<1>3. ASSUME NEW job, AddJob(job) PROVE JobsNumbered'
  <2>1. created' = created + 1 /\ jobs' = [jobs EXCEPT ![created + 1] = job]
    BY <1>3 DEF AddJob
  <2>2. ASSUME NEW i \in 1..MaxJobs, i > created' PROVE jobs'[i] = Nulo
    <3>1. i > created /\ i # created + 1
      BY <1>1, <2>1, <2>2
    <3>2. jobs[i] = Nulo
      BY <3>1 DEF JobsNumbered
    <3>3. QED
      BY <1>1, <2>1, <3>1, <3>2
  <2>3. QED
    BY <2>2 DEF JobsNumbered
<1>4. ASSUME NEW j \in 1..MaxJobs, jobs[j] # Nulo, UNCHANGED created, \A i \in 1..MaxJobs \ {j} : jobs'[i] = jobs[i]
      PROVE  JobsNumbered'
  BY <1>4 DEF JobsNumbered
<1>5. ASSUME NEW j \in 1..MaxJobs, jobs[j] # Nulo, JobChanges(j)
      PROVE  \A i \in 1..MaxJobs \ {j} : jobs'[i] = jobs[i]
  BY <1>1, <1>5, OthersStay
<1>6. QED
  BY <1>2, <1>3, <1>4, <1>5, JobSteps

\* ReadOnce(job) with the versions of the formats named.
OnceWith(job, versions) ==
    /\ \A i, k \in DOMAIN job.read : job.read[i].id = job.read[k].id => i = k
    /\ \A i, k \in DOMAIN job.loose : job.loose[i].id = job.loose[k].id => i = k
    /\ \A i \in DOMAIN job.read :
          /\ job.read[i].versao # 0
          /\ FormatOf[job.read[i].id] # Nulo => job.read[i].fv \in 1..versions[FormatOf[job.read[i].id]]
    /\ \A i \in DOMAIN job.loose : job.loose[i].versao \in 1..versions[job.loose[i].id]

LEMMA OnceKept ==
    ASSUME NEW job, PackageFits(job), NEW v, NEW w,
           \A f \in Formats : v[f] \in Nat /\ w[f] \in Nat /\ v[f] <= w[f],
           OnceWith(job, v)
    PROVE  OnceWith(job, w)
<1>1. FormatOf \in [Products -> Formats \cup {Nulo}]
  BY CatalogAssumption
<1>2. /\ \A i \in DOMAIN job.read : job.read[i].id \in Products
      /\ \A i \in DOMAIN job.loose : job.loose[i].id \in Formats
  BY PackageOf DEF ProductRead, FormatRead
<1>3. \A f \in Formats : 1..v[f] \subseteq 1..w[f]
  OBVIOUS
<1>4. ASSUME NEW i \in DOMAIN job.read, FormatOf[job.read[i].id] # Nulo
      PROVE  job.read[i].fv \in 1..w[FormatOf[job.read[i].id]]
  <2>1. FormatOf[job.read[i].id] \in Formats /\ job.read[i].fv \in 1..v[FormatOf[job.read[i].id]]
    BY <1>1, <1>2, <1>4 DEF OnceWith
  <2>2. QED
    BY <1>3, <2>1
<1>5. ASSUME NEW i \in DOMAIN job.loose PROVE job.loose[i].versao \in 1..w[job.loose[i].id]
  BY <1>2, <1>3 DEF OnceWith
<1>6. QED
  BY <1>4, <1>5 DEF OnceWith

\* What the first read of a job leaves in it.
LEMMA ReadForm ==
    ASSUME IInv, RowsSaved, NEW j \in 1..MaxJobs, jobs[j] # Nulo, HasRead(j)
    PROVE  /\ jobs'[j] \in Job /\ jobs'[j].phase = "read" /\ jobs'[j].tipo = jobs[j].tipo
           /\ jobs'[j].ids = jobs[j].ids /\ jobs'[j].fids = jobs[j].fids /\ jobs'[j].loose = jobs[j].loose
           /\ \A x \in Wanted(jobs[j]) : \E i \in DOMAIN jobs'[j].read : jobs'[j].read[i].id = x
           /\ \A i \in DOMAIN jobs'[j].read :
                 /\ jobs'[j].read[i].id \in Products
                 /\ jobs'[j].read[i].versao # 0
                 /\ jobs'[j].read[i].versao = product[jobs'[j].read[i].id].versao
                 /\ FormatOf[jobs'[j].read[i].id] # Nulo =>
                       jobs'[j].read[i].fv = format[FormatOf[jobs'[j].read[i].id]]
           /\ \A i, k \in DOMAIN jobs'[j].read : jobs'[j].read[i].id = jobs'[j].read[k].id => i = k
<1> DEFINE W == Wanted(jobs[j])
<1>1. jobs \in [1..MaxJobs -> Job \cup {Nulo}] /\ jobs[j] \in Job
  BY Facts DEF JobsFit
<1>2. W \subseteq Products /\ \A p \in W : product[p].versao # 0
  BY <1>1 DEF Wanted, Job, RowsSaved
<1>3. IsFiniteSet(W)
  BY <1>2, CatalogAssumption, FS_Subset
<1>4. PICK order \in Orders(W) :
         jobs' = [jobs EXCEPT ![j].phase = "read", ![j].read = [i \in DOMAIN order |-> RowOf(order[i])]]
  BY DEF HasRead
<1> DEFINE rows == [i \in DOMAIN order |-> RowOf(order[i])]
<1>5. /\ \A x \in W : \E i \in DOMAIN order : order[i] = x
      /\ \A i \in DOMAIN order : order[i] \in W
      /\ \A i, k \in DOMAIN order : order[i] = order[k] => i = k
  <2> HIDE DEF W
  <2>1. QED
    BY <1>3, OrdersListAll
<1>6. /\ DOMAIN rows = DOMAIN order
      /\ \A i \in DOMAIN order : /\ rows[i].id = order[i] /\ rows[i].versao = product[order[i]].versao
                                 /\ FormatOf[order[i]] # Nulo => rows[i].fv = format[FormatOf[order[i]]]
  BY DEF RowOf
<1> HIDE DEF rows, W
<1>7. jobs' = [jobs EXCEPT ![j].phase = "read", ![j].read = rows]
  BY <1>4 DEF rows
<1>8. /\ jobs'[j].phase = "read" /\ jobs'[j].tipo = jobs[j].tipo /\ jobs'[j].read = rows
      /\ jobs'[j].ids = jobs[j].ids /\ jobs'[j].fids = jobs[j].fids /\ jobs'[j].loose = jobs[j].loose
  BY <1>1, <1>7 DEF Job
<1>9. \A x \in W : \E i \in DOMAIN rows : rows[i].id = x
  BY <1>5, <1>6
<1>10. \A i \in DOMAIN rows : /\ rows[i].id \in Products /\ rows[i].versao # 0
                              /\ rows[i].versao = product[rows[i].id].versao
                              /\ FormatOf[rows[i].id] # Nulo => rows[i].fv = format[FormatOf[rows[i].id]]
  BY <1>2, <1>5, <1>6
<1>11. \A i, k \in DOMAIN rows : rows[i].id = rows[k].id => i = k
  BY <1>5, <1>6
<1>12. jobs'[j] \in Job
  <2>1. JobsFit /\ product \in [Products -> Row] /\ format \in [Formats -> 1..(MaxEvents + 1)]
    BY Facts
  <2>2. QED
    BY <2>1, ReadingFits DEF HasRead
<1>13. QED
  BY <1>8, <1>9, <1>10, <1>11, <1>12 DEF W

\* What the second read leaves in it.
LEMMA OpenForm ==
    ASSUME IInv, NEW j \in 1..MaxJobs, jobs[j] # Nulo, HasOpened(j)
    PROVE  /\ jobs'[j] \in Job /\ jobs'[j].phase = "sending" /\ jobs'[j].tipo = jobs[j].tipo
           /\ jobs'[j].ids = jobs[j].ids /\ jobs'[j].fids = jobs[j].fids /\ jobs'[j].read = jobs[j].read
           /\ \A f \in jobs[j].fids : \E i \in DOMAIN jobs'[j].loose : jobs'[j].loose[i].id = f
           /\ \A i \in DOMAIN jobs'[j].loose :
                 /\ jobs'[j].loose[i].id \in Formats
                 /\ jobs'[j].loose[i].versao = format[jobs'[j].loose[i].id]
                 /\ jobs'[j].loose[i] = [id |-> jobs'[j].loose[i].id, versao |-> format[jobs'[j].loose[i].id]]
           /\ \A i, k \in DOMAIN jobs'[j].loose : jobs'[j].loose[i].id = jobs'[j].loose[k].id => i = k
<1> DEFINE W == jobs[j].fids
<1>1. jobs \in [1..MaxJobs -> Job \cup {Nulo}] /\ jobs[j] \in Job
  BY Facts DEF JobsFit
<1>2. W \subseteq Formats
  BY <1>1 DEF Job
<1>3. IsFiniteSet(W)
  BY <1>2, CatalogAssumption, FS_Subset
<1>4. PICK order \in Orders(W) :
         jobs' = [jobs EXCEPT ![j].phase = "sending",
                     ![j].loose = [i \in DOMAIN order |-> [id |-> order[i], versao |-> format[order[i]]]]]
  BY DEF HasOpened
<1> DEFINE rows == [i \in DOMAIN order |-> [id |-> order[i], versao |-> format[order[i]]]]
<1>5. /\ \A x \in W : \E i \in DOMAIN order : order[i] = x
      /\ \A i \in DOMAIN order : order[i] \in W
      /\ \A i, k \in DOMAIN order : order[i] = order[k] => i = k
  <2> HIDE DEF W
  <2>1. QED
    BY <1>3, OrdersListAll
<1>6. /\ DOMAIN rows = DOMAIN order
      /\ \A i \in DOMAIN order : /\ rows[i].id = order[i] /\ rows[i].versao = format[order[i]]
                                 /\ rows[i] = [id |-> order[i], versao |-> format[order[i]]]
  OBVIOUS
<1> HIDE DEF rows, W
<1>7. jobs' = [jobs EXCEPT ![j].phase = "sending", ![j].loose = rows]
  BY <1>4 DEF rows
<1>8. /\ jobs'[j].phase = "sending" /\ jobs'[j].tipo = jobs[j].tipo /\ jobs'[j].loose = rows
      /\ jobs'[j].ids = jobs[j].ids /\ jobs'[j].fids = jobs[j].fids /\ jobs'[j].read = jobs[j].read
  BY <1>1, <1>7 DEF Job
<1>9. \A x \in W : \E i \in DOMAIN rows : rows[i].id = x
  BY <1>5, <1>6
<1>10. \A i \in DOMAIN rows : /\ rows[i].id \in Formats /\ rows[i].versao = format[rows[i].id]
                              /\ rows[i] = [id |-> rows[i].id, versao |-> format[rows[i].id]]
  BY <1>2, <1>5, <1>6
<1>11. \A i, k \in DOMAIN rows : rows[i].id = rows[k].id => i = k
  BY <1>5, <1>6
<1>12. jobs'[j] \in Job
  <2>1. JobsFit /\ format \in [Formats -> 1..(MaxEvents + 1)]
    BY Facts
  <2>2. QED
    BY <1>3, <2>1, OpeningFits DEF HasOpened, W
<1>13. QED
  BY <1>8, <1>9, <1>10, <1>11, <1>12 DEF W

LEMMA FormatsGrow ==
    ASSUME IInv, [Next]_vars
    PROVE  \A f \in Formats : format[f] \in Nat /\ format'[f] \in Nat /\ format[f] <= format'[f]
<1>1. format \in [Formats -> 1..(MaxEvents + 1)] /\ \A f \in Formats : format[f] \in Nat
  BY Facts
<1>2. ASSUME NEW g \in Formats, SaveFormat(g) PROVE format' = [format EXCEPT ![g] = @ + 1]
  BY <1>2 DEF SaveFormat
<1>3. UNCHANGED format \/ \E g \in Formats : SaveFormat(g)
  BY DEF Next, vars, SaveProduct, DeleteProducts, Enqueue, LoseRequest, AskSync, Link, ReadProducts,
         OpenJob, Write, LoseWrite, LandsLate, ReadBack, LoseResult, EndJob
<1>4. QED
  BY <1>1, <1>2, <1>3

\* What is adrift was, or comes of a job's package.
LEMMA AdriftSteps ==
    ASSUME [Next]_vars, NEW r \in adrift'
    PROVE  \/ \E rest \in adrift : r.read = rest.read /\ r.loose = rest.loose
           \/ \E j \in 1..MaxJobs : jobs[j] # Nulo /\ r.read = jobs[j].read /\ r.loose = jobs[j].loose
<1>1. ASSUME NEW package, NEW body, NEW n, r \in Left(package, body, n)
      PROVE  r.read = package.read /\ r.loose = package.loose
  <2>1. r = [read |-> package.read, loose |-> package.loose, body |-> body, came |-> n]
    BY <1>1 DEF Left
  <2>2. QED
    BY <2>1
<1>2. ASSUME NEW j \in 1..MaxJobs, LoseWrite(j)
      PROVE  jobs[j] # Nulo /\ \E n : adrift' = adrift \cup Left(jobs[j], Body(jobs[j]), n)
  BY <1>2 DEF LoseWrite
<1>3. ASSUME NEW rest \in adrift, LandsLate(rest)
      PROVE  \E m : adrift' = (adrift \ {rest}) \cup Left(rest, rest.body, m)
  BY <1>3 DEF LandsLate
<1>4. \/ UNCHANGED adrift
      \/ \E j \in 1..MaxJobs : LoseWrite(j)
      \/ \E rest \in adrift : LandsLate(rest)
  BY DEF Next, vars, SaveProduct, DeleteProducts, SaveFormat, Enqueue, LoseRequest, AskSync, Link,
         ReadProducts, OpenJob, Write, ReadBack, LoseResult, EndJob
<1>5. QED
  BY <1>1, <1>2, <1>3, <1>4

LEMMA ReadsStay == IInv /\ RowsSaved /\ ReadsOnce /\ [Next]_vars => ReadsOnce'
<1> SUFFICES ASSUME IInv, RowsSaved, ReadsOnce, [Next]_vars PROVE ReadsOnce'
  OBVIOUS
<1>1. /\ MaxJobs \in Nat /\ created \in 0..MaxJobs /\ jobs \in [1..MaxJobs -> Job \cup {Nulo}] /\ JobsFit
      /\ FormatOf \in [Products -> Formats \cup {Nulo}]
      /\ format \in [Formats -> 1..(MaxEvents + 1)] /\ \A f \in Formats : format[f] \in Nat
  BY Facts
<1>2. \A i \in 1..MaxJobs : jobs[i] # Nulo => jobs[i] \in Job /\ OnceWith(jobs[i], format)
  BY <1>1 DEF ReadsOnce, ReadOnce, OnceWith
<1>3. ASSUME NEW i \in 1..MaxJobs, jobs[i] # Nulo, jobs'[i] = jobs[i] PROVE OnceWith(jobs'[i], format')
  <2>1. jobs[i] \in Job /\ OnceWith(jobs[i], format)
    BY <1>2, <1>3
  <2>2. \A f \in Formats : format[f] \in Nat /\ format'[f] \in Nat /\ format[f] <= format'[f]
    BY FormatsGrow
  <2>3. OnceWith(jobs[i], format')
    BY <1>1, <1>3, <2>1, <2>2, JobFits, OnceKept
  <2>4. QED
    BY <1>3, <2>3
<1>4. ASSUME NEW job, job.read = << >>, job.loose = << >> PROVE OnceWith(job, format')
  BY <1>4 DEF OnceWith
<1>5. \A f \in Formats : format[f] \in 1..format[f]
  BY <1>1
<1>6. ASSUME NEW j \in 1..MaxJobs, jobs[j] # Nulo, UNCHANGED format, HasRead(j) PROVE OnceWith(jobs'[j], format')
  <2>1. OnceWith(jobs[j], format) /\ jobs'[j].loose = jobs[j].loose
    BY <1>2, <1>6, ReadForm
  <2>2. \A i \in DOMAIN jobs'[j].read :
           /\ jobs'[j].read[i].versao # 0
           /\ FormatOf[jobs'[j].read[i].id] # Nulo => jobs'[j].read[i].fv \in 1..format'[FormatOf[jobs'[j].read[i].id]]
    BY <1>1, <1>5, <1>6, ReadForm
  <2>3. \A i, k \in DOMAIN jobs'[j].read : jobs'[j].read[i].id = jobs'[j].read[k].id => i = k
    BY <1>6, ReadForm
  <2>4. QED
    BY <1>6, <2>1, <2>2, <2>3 DEF OnceWith
<1>7. ASSUME NEW j \in 1..MaxJobs, jobs[j] # Nulo, UNCHANGED format, HasOpened(j) PROVE OnceWith(jobs'[j], format')
  <2>1. OnceWith(jobs[j], format) /\ jobs'[j].read = jobs[j].read
    BY <1>2, <1>7, OpenForm
  <2>2. \A i \in DOMAIN jobs'[j].loose : jobs'[j].loose[i].versao \in 1..format'[jobs'[j].loose[i].id]
    <3>1. ASSUME NEW i \in DOMAIN jobs'[j].loose
          PROVE  jobs'[j].loose[i].versao \in 1..format'[jobs'[j].loose[i].id]
      <4>1. jobs'[j].loose[i].id \in Formats /\ jobs'[j].loose[i].versao = format[jobs'[j].loose[i].id]
        BY <1>7, OpenForm
      <4>2. QED
        BY <1>5, <1>7, <4>1
    <3>2. QED
      BY <3>1
  <2>3. \A i, k \in DOMAIN jobs'[j].loose : jobs'[j].loose[i].id = jobs'[j].loose[k].id => i = k
    BY <1>7, OpenForm
  <2>4. QED
    BY <1>7, <2>1, <2>2, <2>3 DEF OnceWith
<1>8. ASSUME NEW i \in 1..MaxJobs, jobs'[i] # Nulo PROVE OnceWith(jobs'[i], format')
  <2>1. CASE jobs'[i] = jobs[i]
    BY <1>3, <1>8, <2>1
  <2>2. CASE jobs'[i] # jobs[i]
    <3>1. CASE \E ids \in SUBSET Products, fids \in SUBSET Formats, tipo \in {"TOTAL", "INCREMENTAL"} :
                  AddJob(NewJob(tipo, ids, fids))
      <4>1. PICK ids \in SUBSET Products, fids \in SUBSET Formats, tipo \in {"TOTAL", "INCREMENTAL"} :
               AddJob(NewJob(tipo, ids, fids))
        BY <3>1
      <4>2. jobs'[i] = NewJob(tipo, ids, fids)
        BY <1>1, <2>2, <4>1 DEF AddJob
      <4>3. jobs'[i].read = << >> /\ jobs'[i].loose = << >>
        BY <4>2 DEF NewJob
      <4>4. QED
        BY <1>4, <4>3
    <3>2. ASSUME NEW j \in 1..MaxJobs, jobs[j] # Nulo, UNCHANGED format, JobChanges(j)
          PROVE  OnceWith(jobs'[i], format')
      <4>1. i = j
        BY <1>1, <2>2, <3>2, OthersStay
      <4>2. CASE jobs' = [jobs EXCEPT ![j] = Nulo]
        BY <1>1, <1>8, <4>1, <4>2
      <4>3. CASE \E S : Fail(j, S)
        <5>1. jobs'[i].read = << >> /\ jobs'[i].loose = << >>
          BY <1>1, <1>8, <3>2, <4>1, <4>3, FailLeaves
        <5>2. QED
          BY <1>4, <5>1
      <4>4. CASE HasWritten(j) \/ HasReadBack(j)
        <5>1. OnceWith(jobs[j], format') /\ jobs'[j].read = jobs[j].read /\ jobs'[j].loose = jobs[j].loose
          BY <1>1, <1>2, <3>2, <4>4, PackageStays
        <5>2. QED
          BY <4>1, <5>1 DEF OnceWith
      <4>5. QED
        BY <1>6, <1>7, <3>2, <4>1, <4>2, <4>3, <4>4 DEF JobChanges
    <3>3. QED
      BY <2>2, <3>1, <3>2, JobSteps
  <2>3. QED
    BY <2>1, <2>2
<1>9. ASSUME NEW r \in adrift' PROVE OnceWith(r, format')
  <2>1. ASSUME NEW package, PackageFits(package), OnceWith(package, format),
               r.read = package.read, r.loose = package.loose
        PROVE  OnceWith(r, format')
    <3>1. OnceWith(package, format')
      BY <2>1, FormatsGrow, OnceKept
    <3>2. QED
      BY <2>1, <3>1 DEF OnceWith
  <2>2. ASSUME NEW rest \in adrift PROVE PackageFits(rest) /\ OnceWith(rest, format)
    BY DEF IInv, RestsFit, ReadsOnce, ReadOnce, OnceWith
  <2>3. \A j \in 1..MaxJobs : jobs[j] # Nulo => PackageFits(jobs[j]) /\ OnceWith(jobs[j], format)
    BY <1>1, <1>2, JobFits
  <2>4. QED
    BY <2>1, <2>2, <2>3, AdriftSteps
<1>10. QED
  BY <1>8, <1>9 DEF ReadsOnce, ReadOnce, OnceWith

\* Carries(job, f) when v is the version to carry, and whether a job is going to bring what
\* there is of x: OnItsWay with the catalogue named.
CarriesAt(job, f, v) ==
    LET users == {i \in DOMAIN job.read : FormatOf[job.read[i].id] = f}
    IN  IF users # {} THEN job.read[CHOOSE i \in users : \A k \in users : i <= k].fv = v
        ELSE job.phase = "read" \/ \E i \in DOMAIN job.loose : job.loose[i] = [id |-> f, versao |-> v]
Brings(job, x, rows, versions) ==
    /\ job # Nulo /\ job.phase # "reading"
    /\ x \in job.ids \/ x \in job.fids \/ (job.tipo = "TOTAL" /\ x \in Products /\ rows[x].ativo)
    /\ \/ job.phase = "waiting"
       \/ x \in Products /\ \E i \in DOMAIN job.read :
                                job.read[i].id = x /\ job.read[i].versao = rows[x].versao
       \/ x \in Formats /\ CarriesAt(job, x, versions[x])

LEMMA WayForm ==
    ASSUME NEW x
    PROVE  /\ OnItsWay(x) <=> x \in requests \/ \E j \in 1..MaxJobs : Brings(jobs[j], x, product, format)
           /\ OnItsWay(x)' <=> x \in requests' \/ \E j \in 1..MaxJobs : Brings(jobs'[j], x, product', format')
<1>1. OnItsWay(x) <=> x \in requests \/ \E j \in 1..MaxJobs : Brings(jobs[j], x, product, format)
  <2>1. ASSUME NEW j \in 1..MaxJobs
        PROVE  x \in Covered(jobs[j]) <=>
                  \/ x \in jobs[j].ids \/ x \in jobs[j].fids
                  \/ jobs[j].tipo = "TOTAL" /\ x \in Products /\ product[x].ativo
    BY DEF Covered
  <2>2. ASSUME NEW j \in 1..MaxJobs PROVE Carries(jobs[j], x) <=> CarriesAt(jobs[j], x, format[x])
    BY DEF Carries, CarriesAt
  <2>3. QED
    BY <2>1, <2>2 DEF OnItsWay, Brings
<1>2. OnItsWay(x)' <=> x \in requests' \/ \E j \in 1..MaxJobs : Brings(jobs'[j], x, product', format')
  <2>1. ASSUME NEW j \in 1..MaxJobs
        PROVE  Covered(jobs[j])' = jobs'[j].ids \cup jobs'[j].fids \cup
                  (IF jobs'[j].tipo = "TOTAL" THEN {p \in Products : product'[p].ativo} ELSE {})
    BY DEF Covered
  <2>2. ASSUME NEW j \in 1..MaxJobs PROVE Carries(jobs[j], x)' <=> CarriesAt(jobs'[j], x, format'[x])
    BY DEF Carries, CarriesAt
  <2>3. OnItsWay(x)' <=>
           \/ x \in requests'
           \/ \E j \in 1..MaxJobs :
                 /\ jobs'[j] # Nulo
                 /\ x \in Covered(jobs[j])' /\ jobs'[j].phase # "reading"
                 /\ \/ jobs'[j].phase = "waiting"
                    \/ x \in Products /\ \E i \in DOMAIN jobs'[j].read :
                             jobs'[j].read[i].id = x /\ jobs'[j].read[i].versao = product'[x].versao
                    \/ x \in Formats /\ Carries(jobs[j], x)'
    BY DEF OnItsWay
  <2>4. ASSUME NEW j \in 1..MaxJobs
        PROVE  x \in Covered(jobs[j])' <=>
                  \/ x \in jobs'[j].ids \/ x \in jobs'[j].fids
                  \/ jobs'[j].tipo = "TOTAL" /\ x \in Products /\ product'[x].ativo
    BY <2>1
  <2>5. QED
    BY <2>2, <2>3, <2>4 DEF Brings
<1>3. QED
  BY <1>1, <1>2

\* What is tracked, and what a job brings when the rows of x stay.
LEMMA TrackedItems ==
    /\ \A x \in Tracked : x \in Formats \/ (x \in Products /\ HasOwnSlot(x))
    /\ \A x \in Formats : x \notin Products /\ x \in Tracked
  BY RowsAssumption DEF Tracked

LEMMA BringsStill ==
    ASSUME NEW job, NEW x, NEW rows, NEW versions, NEW rows2, NEW versions2,
           x \in Products => rows2[x] = rows[x],
           x \in Formats => versions2[x] = versions[x],
           Brings(job, x, rows, versions)
    PROVE  Brings(job, x, rows2, versions2)
  BY DEF Brings

\* What was on its way still is, unless its request was taken up, or the job that had it
\* changes.
LEMMA WayStays ==
    ASSUME NEW x, OnItsWay(x),
           x \in Products => product'[x] = product[x],
           x \in Formats => format'[x] = format[x]
    PROVE  \/ OnItsWay(x)'
           \/ x \in requests /\ x \notin requests'
           \/ \E j \in 1..MaxJobs : /\ jobs[j] # Nulo /\ jobs'[j] # jobs[j]
                                    /\ Brings(jobs[j], x, product, format)
<1>1. CASE x \in requests
  BY <1>1, WayForm
<1>2. CASE \E j \in 1..MaxJobs : Brings(jobs[j], x, product, format)
  <2>1. PICK j \in 1..MaxJobs : Brings(jobs[j], x, product, format)
    BY <1>2
  <2>2. CASE jobs'[j] = jobs[j]
    <3>1. Brings(jobs'[j], x, product', format')
      BY <2>1, <2>2, BringsStill
    <3>2. QED
      BY <3>1, WayForm
  <2>3. CASE jobs'[j] # jobs[j]
    <3>1. jobs[j] # Nulo
      BY <2>1 DEF Brings
    <3>2. QED
      BY <2>1, <2>3, <3>1
  <2>4. QED
    BY <2>2, <2>3
<1>3. QED
  BY <1>1, <1>2, WayForm

LEMMA StaleIsActive ==
    ASSUME NEW x \in Products
    PROVE  (Stale(x) => product[x].ativo) /\ (Stale(x)' => product'[x].ativo)
  BY DEF Stale, Shown

LEMMA StaleSame ==
    ASSUME NEW x, UNCHANGED memory,
           x \in Products => product'[x] = product[x],
           x \notin Products => format'[x] = format[x]
    PROVE  Stale(x)' <=> Stale(x)
  BY DEF Stale, Shown

\* A failed attempt keeps its job waiting for what it was to bring, or gives the reason.
LEMMA FailKeeps ==
    ASSUME JobsFit, NEW j \in 1..MaxJobs, jobs[j] # Nulo, NEW S, Fail(j, S),
           UNCHANGED product,
           NEW x \in Tracked, Stale(x)', Brings(jobs[j], x, product, format)
    PROVE  x \in excused' \/ OnItsWay(x)'
<1>1. CASE jobs[j].tries + 1 < Attempts
  <2>1. /\ jobs'[j] # Nulo /\ jobs'[j].phase = "waiting" /\ jobs'[j].tipo = jobs[j].tipo
        /\ jobs'[j].ids = jobs[j].ids /\ jobs'[j].fids = jobs[j].fids
    BY <1>1, FailLeaves
  <2>2. Brings(jobs'[j], x, product', format')
    BY <2>1 DEF Brings
  <2>3. QED
    BY <2>2, WayForm
<1>2. CASE ~(jobs[j].tries + 1 < Attempts)
  <2>1. Excuse(S \cup Covered(jobs[j]))
    BY <1>2, FailLeaves
  <2>2. x \in Covered(jobs[j])
    BY DEF Brings, Covered
  <2>3. QED
    BY <2>1, <2>2, Excused
<1>3. QED
  BY <1>1, <1>2

\* The first of the places of a set.
LEMMA FirstPlace ==
    ASSUME NEW job, PackageFits(job), NEW I, I \subseteq DOMAIN job.read, I # {}
    PROVE  LET i == CHOOSE i \in I : \A k \in I : i <= k IN i \in I /\ \A k \in I : i <= k
<1>1. Len(job.read) \in Nat /\ DOMAIN job.read = 1..Len(job.read)
  BY PackageOf
<1>2. \E i \in I : \A k \in I : i <= k
  BY <1>1, FirstOf
<1>3. QED
  BY <1>2

\* The two reads of a job keep what it was to bring: they find the present versions.
LEMMA ReadingBrings ==
    ASSUME IInv, RowsSaved, NEW j \in 1..MaxJobs, jobs[j] # Nulo, HasRead(j), UNCHANGED <<product, format>>,
           NEW x \in Tracked, Stale(x), Brings(jobs[j], x, product, format)
    PROVE  Brings(jobs'[j], x, product', format')
<1>1. /\ jobs'[j] \in Job /\ jobs'[j].phase = "read" /\ jobs'[j].tipo = jobs[j].tipo
      /\ jobs'[j].ids = jobs[j].ids /\ jobs'[j].fids = jobs[j].fids
      /\ \A p \in Wanted(jobs[j]) : \E i \in DOMAIN jobs'[j].read : jobs'[j].read[i].id = p
      /\ \A i \in DOMAIN jobs'[j].read :
            /\ jobs'[j].read[i].id \in Products
            /\ jobs'[j].read[i].versao = product[jobs'[j].read[i].id].versao
            /\ FormatOf[jobs'[j].read[i].id] # Nulo => jobs'[j].read[i].fv = format[FormatOf[jobs'[j].read[i].id]]
  BY ReadForm
<1>2. jobs[j] \in Job /\ Nulo \notin Job /\ Nulo \notin Formats
  BY Facts, RowsAssumption, CatalogAssumption DEF JobsFit
<1>6. PackageFits(jobs'[j])
  <2>1. IInv /\ product \in [Products -> Row] /\ format \in [Formats -> 1..(MaxEvents + 1)] /\ JobsFit
    BY Facts
  <2>2. JobsFit'
    BY <2>1, ReadingFits DEF HasRead
  <2>3. jobs'[j] # Nulo
    BY <1>1, <1>2
  <2>4. QED
    BY <2>2, <2>3 DEF JobsFit, ReadsFit, PackageFits, Job
<1>3. CASE x \in Products
  <2>1. product[x].ativo /\ product[x].exists
    BY <1>3, StaleIsActive DEF RowsSaved
  <2>2. x \notin jobs[j].fids
    BY <1>2, <1>3, TrackedItems DEF Job
  <2>3. x \in Wanted(jobs[j])
    BY <1>3, <2>1, <2>2 DEF Wanted, Brings
  <2>4. \E i \in DOMAIN jobs'[j].read : /\ jobs'[j].read[i].id = x
                                        /\ jobs'[j].read[i].versao = product'[x].versao
    BY <1>1, <2>3
  <2>5. QED
    BY <1>1, <1>2, <1>3, <2>4 DEF Brings
<1>4. CASE x \in Formats
  <2> DEFINE new == jobs'[j]
             users == {i \in DOMAIN new.read : FormatOf[new.read[i].id] = x}
             i == CHOOSE i \in users : \A k \in users : i <= k
  <2>1. users # {} => new.read[i].fv = format[x]
    <3>1. ASSUME users # {} PROVE i \in users
      <4>1. users \subseteq DOMAIN new.read /\ PackageFits(new)
        BY <1>6
      <4> HIDE DEF users, new
      <4>2. QED
        BY <3>1, <4>1, FirstPlace
    <3> HIDE DEF i
    <3>2. QED
      BY <1>1, <1>2, <1>4, <3>1
  <2>2. CarriesAt(new, x, format[x])
    BY <1>1, <2>1 DEF CarriesAt
  <2> HIDE DEF users, i
  <2>3. QED
    BY <1>1, <1>2, <1>4, <2>2 DEF Brings
<1>5. QED
  BY <1>3, <1>4, TrackedItems

LEMMA OpeningBrings ==
    ASSUME IInv, NEW j \in 1..MaxJobs, jobs[j] # Nulo, HasOpened(j), UNCHANGED <<product, format>>,
           NEW x \in Tracked, Brings(jobs[j], x, product, format)
    PROVE  Brings(jobs'[j], x, product', format')
<1>1. /\ jobs'[j] \in Job /\ jobs'[j].phase = "sending" /\ jobs'[j].tipo = jobs[j].tipo
      /\ jobs'[j].ids = jobs[j].ids /\ jobs'[j].fids = jobs[j].fids /\ jobs'[j].read = jobs[j].read
      /\ \A f \in jobs[j].fids : \E i \in DOMAIN jobs'[j].loose : jobs'[j].loose[i].id = f
      /\ \A i \in DOMAIN jobs'[j].loose :
            jobs'[j].loose[i] = [id |-> jobs'[j].loose[i].id, versao |-> format[jobs'[j].loose[i].id]]
  BY OpenForm
<1>2. jobs[j] \in Job /\ Nulo \notin Job /\ jobs[j].phase = "read"
  BY Facts, RowsAssumption DEF JobsFit, HasOpened
<1>3. CASE x \in Products
  <2>1. x \notin Formats
    BY <1>3, TrackedItems
  <2>2. QED
    BY <1>1, <1>2, <1>3, <2>1 DEF Brings
<1>4. CASE x \in Formats
  <2>1. x \notin Products
    BY <1>4, TrackedItems
  <2>2. x \in jobs[j].fids \/ x \in jobs[j].ids
    BY <2>1 DEF Brings
  <2>3. x \in jobs[j].fids
    BY <1>2, <2>1, <2>2 DEF Job
  <2>4. CarriesAt(jobs[j], x, format[x])
    BY <1>2, <2>1 DEF Brings
  <2>5. \E i \in DOMAIN jobs'[j].loose : jobs'[j].loose[i] = [id |-> x, versao |-> format[x]]
    BY <1>1, <2>3
  <2> DEFINE users == {i \in DOMAIN jobs[j].read : FormatOf[jobs[j].read[i].id] = x}
             first == CHOOSE i \in users : \A k \in users : i <= k
  <2>6. users # {} => jobs[j].read[first].fv = format[x]
    BY <2>4 DEF CarriesAt
  <2>7. CarriesAt(jobs'[j], x, format[x]) <=>
           IF users # {} THEN jobs[j].read[first].fv = format[x]
           ELSE jobs'[j].phase = "read" \/ \E i \in DOMAIN jobs'[j].loose :
                                               jobs'[j].loose[i] = [id |-> x, versao |-> format[x]]
    BY <1>1 DEF CarriesAt
  <2> HIDE DEF users, first
  <2>8. CarriesAt(jobs'[j], x, format'[x])
    BY <2>5, <2>6, <2>7
  <2>9. QED
    BY <1>1, <1>2, <1>4, <2>2, <2>8 DEF Brings
<1>5. QED
  BY <1>3, <1>4, TrackedItems

\* A whole package leaves the scale showing what its job was to bring, but for a format
\* whose slot has a factory model, which is excused.
LEMMA WriteShows ==
    ASSUME IInv, ReadsOnce, FactoryKept,
           NEW j \in 1..MaxJobs, jobs[j] # Nulo, jobs[j].phase = "sending",
           memory' = Written(memory, Body(jobs[j])),
           UNCHANGED <<product, format>>,
           NEW x \in Tracked, x \notin excused, Brings(jobs[j], x, product, format), Stale(x)'
    PROVE  FALSE
<1>1. /\ PackageFits(jobs[j]) /\ ReadOnce(jobs[j])
      /\ format \in [Formats -> 1..(MaxEvents + 1)]
      /\ FormatOf \in [Products -> Formats \cup {Nulo}]
  BY Facts, JobFits DEF ReadsOnce
<1>2. CASE x \in Products
  <2>1. HasOwnSlot(x) /\ x \notin Formats
    BY <1>2, TrackedItems
  <2>2. PICK i \in DOMAIN jobs[j].read : jobs[j].read[i].id = x /\ jobs[j].read[i].versao = product[x].versao
    BY <2>1 DEF Brings
  <2> DEFINE r == jobs[j].read[i]
             row == PluRow(ProductPayload(r), Codigo[x])
  <2>3. memory'[<<"PLU", Codigo[x]>>] = row
    <3> DEFINE job == jobs[j]
    <3>1. /\ PackageFits(job) /\ ReadOnce(job)
          /\ i \in DOMAIN job.read /\ job.read[i].id = x
      BY <1>1, <2>2
    <3> HIDE DEF job
    <3>2. Written(memory, Body(job))[<<"PLU", Codigo[x]>>] = PluRow(ProductPayload(job.read[i]), Codigo[x])
      BY <1>2, <2>1, <3>1, PriceLands
    <3>3. QED
      BY <3>2 DEF job
  <2>4. row.id = x /\ row.preco = EncodePrice(Preco[product[x].versao])
    BY <2>2 DEF PluRow, ProductPayload
  <2>5. row # Nulo
    <3>1. r \in ProductRead
      BY <1>1, PackageOf
    <3>2. r.versao # 0 /\ (FormatOf[r.id] # Nulo => r.fv # 0)
      <4>1. r.versao # 0 /\ (FormatOf[r.id] # Nulo => r.fv \in 1..format[FormatOf[r.id]])
        BY <1>1 DEF ReadOnce
      <4>2. QED
        BY <4>1
    <3>3. Codigo[x] \in Slots
      BY <1>2, <2>1 DEF Slots, HasOwnSlot
    <3> HIDE DEF r
    <3>4. QED
      BY <3>1, <3>2, <3>3, RowsAssumption
  <2> HIDE DEF r, row
  <2>6. QED
    BY <1>2, <2>3, <2>4, <2>5 DEF Stale, Shown
<1>3. CASE x \in Formats
  <2>1. x \notin Products
    BY <1>3, TrackedItems
  <2>2. CarriesAt(jobs[j], x, format[x]) /\ (x \in jobs[j].fids \/ x \in jobs[j].ids)
    BY <2>1 DEF Brings
  <2> DEFINE users == {i \in DOMAIN jobs[j].read : FormatOf[jobs[j].read[i].id] = x}
             first == CHOOSE i \in users : \A k \in users : i <= k
  <2>3. LayoutOf(jobs[j], x, format[x])
    <3>1. users # {} => first \in users /\ \A k \in users : first <= k
      <4>1. users \subseteq DOMAIN jobs[j].read
        OBVIOUS
      <4> HIDE DEF users
      <4>2. QED
        BY <1>1, <4>1, FirstPlace
    <3>2. users # {} => jobs[j].read[first].fv = format[x]
      BY <2>2 DEF CarriesAt
    <3>3. users = {} => \E i \in DOMAIN jobs[j].loose : jobs[j].loose[i] = [id |-> x, versao |-> format[x]]
      BY <2>2 DEF CarriesAt
    <3>4. LayoutOf(jobs[j], x, format[x]) <=>
             IF users # {} THEN \E i \in users : (\A k \in users : i <= k) /\ jobs[j].read[i].fv = format[x]
             ELSE \E i \in DOMAIN jobs[j].loose : jobs[j].loose[i] = [id |-> x, versao |-> format[x]]
      BY DEF LayoutOf
    <3> HIDE DEF users, first
    <3>5. QED
      BY <3>1, <3>2, <3>3, <3>4
  <2>4. Number[x] \notin FactorySlots
    BY <1>3 DEF FactoryKept
  <2>5. PICK b \in 0..BmpMax \cup {Nulo} :
           memory'[<<"LAB", Number[x]>>] = LabRow(FormatPayload(x, format[x]), b)
    <3> DEFINE job == jobs[j]
               v == format[x]
    <3>1. PackageFits(job) /\ ReadOnce(job) /\ LayoutOf(job, x, v) /\ format \in [Formats -> 1..(MaxEvents + 1)]
      BY <1>1, <2>3
    <3> HIDE DEF job, v
    <3>2. \E b \in 0..BmpMax \cup {Nulo} :
             Written(memory, Body(job))[<<"LAB", Number[x]>>] = LabRow(FormatPayload(x, v), b)
      BY <1>3, <2>4, <3>1, LayoutLands
    <3>3. QED
      BY <3>2 DEF job, v
  <2> DEFINE row == LabRow(FormatPayload(x, format[x]), b)
  <2>6. row.nome = Name[x][format[x]] /\ row.textos = TextosDe[x][format[x]]
    <3>1. row.nome = Name[x][format[x]] /\ row.textos = Textos(Layout[x][format[x]])
      BY DEF LabRow, FormatPayload
    <3>2. format[x] \in 1..(MaxEvents + 1)
      BY <1>1, <1>3
    <3>3. TextosDe[x][format[x]] = Textos(Layout[x][format[x]])
      BY <1>3, <3>2 DEF TextosDe
    <3> HIDE DEF row
    <3>4. QED
      BY <3>1, <3>3
  <2>7. row # Nulo
    BY <1>1, <1>3, RowsAssumption
  <2> HIDE DEF row
  <2>8. memory'[<<"LAB", Number[x]>>] = row
    BY <2>5 DEF row
  <2>9. QED
    BY <2>1, <2>6, <2>7, <2>8 DEF Stale, Shown
<1>4. QED
  BY <1>2, <1>3, TrackedItems

\* What a step that changes no row of x and not the scale leaves of the claim about x.
LEMMA CauseKept ==
    ASSUME StaleHasACause, NEW x \in Tracked, Stale(x)', UNCHANGED memory,
           x \in Products => product'[x] = product[x],
           x \in Formats => format'[x] = format[x],
           UNCHANGED excused \/ \E S : Excuse(S)
    PROVE  \/ x \in excused' \/ OnItsWay(x)'
           \/ x \in requests /\ x \notin requests'
           \/ \E j \in 1..MaxJobs : /\ jobs[j] # Nulo /\ jobs'[j] # jobs[j]
                                    /\ Brings(jobs[j], x, product, format)
<1>1. Stale(x)
  BY StaleSame, TrackedItems
<1>2. x \in excused \/ OnItsWay(x)
  BY <1>1 DEF StaleHasACause
<1>3. CASE x \in excused
  BY <1>3, Excused
<1>4. CASE OnItsWay(x)
  BY <1>4, WayStays
<1>5. QED
  BY <1>2, <1>3, <1>4

LEMMA JobAdded ==
    ASSUME IInv, JobsNumbered, NEW job, AddJob(job)
    PROVE  /\ created + 1 \in 1..MaxJobs /\ jobs'[created + 1] = job
           /\ \A i \in 1..MaxJobs : jobs[i] # Nulo => jobs'[i] = jobs[i]
<1>1. MaxJobs \in Nat /\ created \in 0..MaxJobs /\ jobs \in [1..MaxJobs -> Job \cup {Nulo}]
  BY Facts
<1>2. created + 1 \in 1..MaxJobs /\ jobs' = [jobs EXCEPT ![created + 1] = job]
  BY <1>1 DEF AddJob
<1>3. jobs[created + 1] = Nulo
  BY <1>1, <1>2 DEF JobsNumbered
<1>4. QED
  BY <1>1, <1>2, <1>3

LEMMA NewJobThere ==
    ASSUME NEW ids \in SUBSET Products, NEW fids \in SUBSET Formats
    PROVE  NewJob("INCREMENTAL", ids, fids) # Nulo
<1>1. Attempts \in Nat \ {0} /\ Nulo \notin Job
  BY CatalogAssumption, RowsAssumption
<1>2. 0 \in 0..(Attempts - 1)
  BY <1>1
<1>3. NewJob("INCREMENTAL", ids, fids) \in Job
  BY <1>2 DEF NewJob, Job
<1>4. QED
  BY <1>1, <1>3

LEMMA SavingKeepsCause ==
    ASSUME IInv, StaleHasACause,
           \/ \E p \in Products, ativo \in BOOLEAN : SaveProduct(p, ativo)
           \/ \E P \in SUBSET Products : DeleteProducts(P)
           \/ \E f \in Formats : SaveFormat(f)
           \/ Link \/ UNCHANGED vars
    PROVE  StaleHasACause'
<1> SUFFICES ASSUME NEW x \in Tracked, Stale(x)' PROVE x \in excused' \/ OnItsWay(x)'
  BY DEF StaleHasACause
<1>0. product \in [Products -> Row] /\ format \in [Formats -> 1..(MaxEvents + 1)]
  BY Facts
<1>1. ASSUME NEW p \in Products, NEW ativo \in BOOLEAN, SaveProduct(p, ativo)
      PROVE  x \in excused' \/ OnItsWay(x)'
  <2>1. /\ product' = [product EXCEPT ![p] = [exists |-> TRUE, ativo |-> ativo, versao |-> product[p].versao + 1]]
        /\ requests' = IF ativo THEN requests \cup {p} ELSE requests
        /\ UNCHANGED <<format, jobs, memory>> /\ Excuse({})
    BY <1>1 DEF SaveProduct
  <2>2. CASE x = p
    <3>1. product'[x].ativo
      BY <2>2, StaleIsActive
    <3>2. product'[x].ativo = ativo
      BY <1>0, <2>1, <2>2
    <3>3. x \in requests'
      BY <2>1, <2>2, <3>1, <3>2
    <3>4. QED
      BY <3>3, WayForm
  <2>3. CASE x # p
    <3>1. x \in Products => product'[x] = product[x]
      BY <1>0, <2>1, <2>3
    <3>2. requests \subseteq requests'
      BY <2>1
    <3>3. QED
      BY <2>1, <3>1, <3>2, CauseKept
  <2>4. QED
    BY <2>2, <2>3
<1>2. ASSUME NEW P \in SUBSET Products, DeleteProducts(P)
      PROVE  x \in excused' \/ OnItsWay(x)'
  <2>1. /\ product' = [p \in Products |->
                          IF p \in P THEN [exists |-> FALSE, ativo |-> FALSE, versao |-> product[p].versao]
                          ELSE product[p]]
        /\ UNCHANGED <<format, requests, jobs, memory>> /\ Excuse({})
    BY <1>2 DEF DeleteProducts
  <2>2. ASSUME x \in Products, x \in P PROVE FALSE
    <3>1. product'[x] = [exists |-> FALSE, ativo |-> FALSE, versao |-> product[x].versao]
      BY <2>1, <2>2
    <3>2. product'[x].ativo
      BY <2>2, StaleIsActive
    <3>3. QED
      BY <3>1, <3>2
  <2>3. x \in Products => product'[x] = product[x]
    BY <2>1, <2>2
  <2>4. QED
    BY <2>1, <2>3, CauseKept
<1>3. ASSUME NEW f \in Formats, SaveFormat(f) PROVE x \in excused' \/ OnItsWay(x)'
  <2>1. /\ format' = [format EXCEPT ![f] = @ + 1] /\ requests' = requests \cup {f}
        /\ UNCHANGED <<product, jobs, memory, excused>>
    BY <1>3 DEF SaveFormat
  <2>2. CASE x = f
    BY <2>1, <2>2, WayForm
  <2>3. CASE x # f
    <3>1. x \in Formats => format'[x] = format[x]
      BY <1>0, <2>1, <2>3
    <3>2. QED
      BY <2>1, <3>1, CauseKept
  <2>4. QED
    BY <2>2, <2>3
<1>4. CASE Link \/ UNCHANGED vars
  <2>1. UNCHANGED <<product, format, requests, jobs, memory, excused>>
    BY <1>4 DEF Link, vars
  <2>2. QED
    BY <2>1, CauseKept
<1>5. QED
  BY <1>1, <1>2, <1>3, <1>4

LEMMA AskingKeepsCause ==
    ASSUME IInv, JobsNumbered, StaleHasACause,
           \/ \E x \in Item : Enqueue(x) \/ LoseRequest(x)
           \/ AskSync("TOTAL", {}) \/ \E ids \in Asked : AskSync("INCREMENTAL", ids)
    PROVE  StaleHasACause'
<1> SUFFICES ASSUME NEW x \in Tracked, Stale(x)' PROVE x \in excused' \/ OnItsWay(x)'
  BY DEF StaleHasACause
<1>1. ASSUME NEW y \in Item, Enqueue(y) PROVE x \in excused' \/ OnItsWay(x)'
  <2>1. requests' = requests \ {y} /\ UNCHANGED <<product, format, memory>>
    BY <1>1 DEF Enqueue
  <2>2. CASE AddJob(JobFor(y)) /\ Excuse({})
    <3>1. /\ created + 1 \in 1..MaxJobs /\ jobs'[created + 1] = JobFor(y)
          /\ \A i \in 1..MaxJobs : jobs[i] # Nulo => jobs'[i] = jobs[i]
      BY <2>2, JobAdded
    <3>2. ASSUME x = y PROVE OnItsWay(x)'
      <4>1. JobFor(x).phase = "waiting" /\ (x \in JobFor(x).ids \/ x \in JobFor(x).fids)
        BY DEF JobFor, NewJob
      <4>2. JobFor(x) # Nulo
        <5>1. \E ids \in SUBSET Products, fids \in SUBSET Formats : JobFor(x) = NewJob("INCREMENTAL", ids, fids)
          BY TrackedItems DEF JobFor
        <5>2. \A ids \in SUBSET Products, fids \in SUBSET Formats : NewJob("INCREMENTAL", ids, fids) # Nulo
          BY NewJobThere
        <5>3. QED
          BY <5>1, <5>2
      <4>3. Brings(JobFor(x), x, product', format')
        BY <4>1, <4>2 DEF Brings
      <4>4. QED
        BY <3>1, <3>2, <4>3, WayForm
    <3>3. QED
      BY <2>1, <2>2, <3>1, <3>2, CauseKept
  <2>3. CASE UNCHANGED jobs /\ Excuse({y})
    <3>1. x = y => x \in excused'
      BY <2>3, Excused
    <3>2. QED
      BY <2>1, <2>3, <3>1, CauseKept
  <2>4. QED
    BY <1>1, <2>2, <2>3 DEF Enqueue
<1>2. ASSUME NEW y \in Item, LoseRequest(y) PROVE x \in excused' \/ OnItsWay(x)'
  <2>1. requests' = requests \ {y} /\ UNCHANGED <<product, format, jobs, memory>> /\ Excuse({y})
    BY <1>2 DEF LoseRequest
  <2>2. x = y => x \in excused'
    BY <2>1, Excused
  <2>3. QED
    BY <2>1, <2>2, CauseKept
<1>3. ASSUME NEW tipo, NEW ids, AskSync(tipo, ids) PROVE x \in excused' \/ OnItsWay(x)'
  <2>1. UNCHANGED <<product, format, requests, memory, excused>> /\ AddJob(NewJob(tipo, ids, {}))
    BY <1>3 DEF AskSync
  <2>2. \A i \in 1..MaxJobs : jobs[i] # Nulo => jobs'[i] = jobs[i]
    BY <2>1, JobAdded
  <2>3. QED
    BY <2>1, <2>2, CauseKept
<1>4. QED
  BY <1>1, <1>2, <1>3

LEMMA ReadingKeepsCause ==
    ASSUME IInv, RowsSaved, StaleHasACause, NEW j \in 1..MaxJobs, ReadProducts(j) \/ OpenJob(j)
    PROVE  StaleHasACause'
<1> SUFFICES ASSUME NEW x \in Tracked, Stale(x)' PROVE x \in excused' \/ OnItsWay(x)'
  BY DEF StaleHasACause
<1>1. /\ JobsFit /\ jobs[j] # Nulo /\ UNCHANGED <<product, format, requests, memory>>
      /\ jobs \in [1..MaxJobs -> Job \cup {Nulo}]
  BY Facts DEF ReadProducts, OpenJob
<1>2. Stale(x)
  BY <1>1, StaleSame
<1>3. UNCHANGED excused \/ \E S : Excuse(S)
  BY DEF ReadProducts, OpenJob, Fail
\* It is enough to look at what the job itself was to bring.
<1>4. \/ x \in excused' \/ OnItsWay(x)'
      \/ \E i \in 1..MaxJobs : /\ jobs[i] # Nulo /\ jobs'[i] # jobs[i]
                               /\ Brings(jobs[i], x, product, format)
  BY <1>1, <1>3, CauseKept
<1>5. JobChanges(j)
  BY DEF ReadProducts, OpenJob, HasRead, HasOpened, JobChanges
<1>6. \A i \in 1..MaxJobs \ {j} : jobs'[i] = jobs[i]
  BY <1>1, <1>5, OthersStay
<1>7. x \in excused' \/ OnItsWay(x)' \/ Brings(jobs[j], x, product, format)
  BY <1>4, <1>6
<1>8. ASSUME Brings(jobs[j], x, product, format) PROVE x \in excused' \/ OnItsWay(x)'
  <2>1. CASE \E S : Fail(j, S)
    BY <1>1, <1>8, <2>1, FailKeeps
  <2>2. CASE HasRead(j)
    <3>1. Brings(jobs'[j], x, product', format')
      BY <1>1, <1>2, <1>8, <2>2, ReadingBrings
    <3>2. QED
      BY <3>1, WayForm
  <2>3. CASE HasOpened(j)
    <3>1. Brings(jobs'[j], x, product', format')
      BY <1>1, <1>8, <2>3, OpeningBrings
    <3>2. QED
      BY <3>1, WayForm
  \* An empty package was to bring nothing.
  <2>4. CASE jobs[j].phase = "read" /\ jobs[j].read = << >> /\ jobs[j].fids = {}
    <3>1. CASE x \in Products
      <4>1. x \notin Formats
        BY <3>1, TrackedItems
      <4>2. QED
        BY <1>8, <2>4, <4>1 DEF Brings
    <3>2. CASE x \in Formats
      <4>1. x \notin Products /\ jobs[j].ids \subseteq Products
        BY <1>1, <3>2, TrackedItems DEF Job
      <4>2. QED
        BY <1>8, <2>4, <4>1 DEF Brings
    <3>3. QED
      BY <3>1, <3>2, TrackedItems
  <2>5. QED
    BY <2>1, <2>2, <2>3, <2>4 DEF ReadProducts, OpenJob, HasRead, HasOpened
<1>9. QED
  BY <1>7, <1>8

\* What rows that land leave of the claim about x.
LEMMA LandingKeepsCause ==
    ASSUME StaleHasACause, NEW S, Overtaken \subseteq S, Excuse(S), UNCHANGED <<product, format, requests>>,
           NEW x \in Tracked, Stale(x)'
    PROVE  \/ x \in excused' \/ OnItsWay(x)'
           \/ /\ x \notin excused
              /\ \E j \in 1..MaxJobs : /\ jobs[j] # Nulo /\ jobs'[j] # jobs[j]
                                       /\ Brings(jobs[j], x, product, format)
<1>1. CASE ~Stale(x)
  <2>1. x \in Overtaken
    BY <1>1 DEF Overtaken
  <2>2. QED
    BY <2>1, Excused
<1>2. CASE Stale(x)
  <2>1. x \in excused \/ OnItsWay(x)
    BY <1>2 DEF StaleHasACause
  <2>2. CASE x \in excused
    BY <2>2, Excused
  <2>3. CASE x \notin excused
    BY <2>1, <2>3, WayStays
  <2>4. QED
    BY <2>2, <2>3
<1>3. QED
  BY <1>1, <1>2

LEMMA LandingsKeepCause ==
    ASSUME IInv, ReadsOnce, FactoryKept, StaleHasACause,
           \/ \E j \in 1..MaxJobs : Write(j) \/ LoseWrite(j)
           \/ \E rest \in adrift : LandsLate(rest)
    PROVE  StaleHasACause'
<1> SUFFICES ASSUME NEW x \in Tracked, Stale(x)' PROVE x \in excused' \/ OnItsWay(x)'
  BY DEF StaleHasACause
<1>1. JobsFit
  BY Facts
<1>2. ASSUME NEW j \in 1..MaxJobs, Write(j) PROVE x \in excused' \/ OnItsWay(x)'
  <2>1. /\ jobs[j] # Nulo /\ jobs[j].phase = "sending" /\ memory' = Written(memory, Body(jobs[j]))
        /\ UNCHANGED <<product, format, requests>> /\ Excuse(Overtaken) /\ JobChanges(j)
    BY <1>2 DEF Write, Take, HasWritten, JobChanges
  <2>2. \/ x \in excused' \/ OnItsWay(x)'
        \/ x \notin excused /\ Brings(jobs[j], x, product, format)
    BY <1>1, <2>1, OthersStay, LandingKeepsCause
  <2>3. QED
    BY <2>1, <2>2, WriteShows
<1>3. ASSUME NEW j \in 1..MaxJobs, LoseWrite(j) PROVE x \in excused' \/ OnItsWay(x)'
  <2>1. /\ jobs[j] # Nulo /\ UNCHANGED <<product, format, requests>>
        /\ Fail(j, Overtaken) /\ JobChanges(j)
    BY <1>3 DEF LoseWrite, JobChanges
  <2>2. \E S : Overtaken \subseteq S /\ Excuse(S)
    BY <2>1 DEF Fail
  <2>3. x \in excused' \/ OnItsWay(x)' \/ Brings(jobs[j], x, product, format)
    BY <1>1, <2>1, <2>2, OthersStay, LandingKeepsCause
  <2>4. QED
    BY <1>1, <2>1, <2>3, FailKeeps
<1>4. ASSUME NEW rest \in adrift, LandsLate(rest) PROVE x \in excused' \/ OnItsWay(x)'
  <2>1. UNCHANGED <<product, format, requests, jobs>> /\ Excuse(Overtaken)
    BY <1>4 DEF LandsLate
  <2>2. QED
    BY <2>1, LandingKeepsCause
<1>5. QED
  BY <1>2, <1>3, <1>4

\* A job that reads back has brought what it could.
LEMMA EndingKeepsCause ==
    ASSUME IInv, StaleHasACause, NEW j \in 1..MaxJobs, ReadBack(j) \/ LoseResult(j) \/ EndJob(j)
    PROVE  StaleHasACause'
<1> SUFFICES ASSUME NEW x \in Tracked, Stale(x)' PROVE x \in excused' \/ OnItsWay(x)'
  BY DEF StaleHasACause
<1>1. /\ jobs[j] # Nulo /\ jobs[j].phase = "reading"
      /\ UNCHANGED <<product, format, requests, memory>>
  BY DEF ReadBack, LoseResult, EndJob, IsReading
<1>2. UNCHANGED excused \/ \E S : Excuse(S)
  BY DEF ReadBack, LoseResult, EndJob, Fail
<1>3. JobChanges(j)
  <2>1. CASE ReadBack(j)
    BY <1>1, <2>1 DEF ReadBack, Diverges, HasReadBack, JobChanges
  <2>2. CASE LoseResult(j) \/ EndJob(j)
    BY <2>2 DEF LoseResult, EndJob, JobChanges
  <2>3. QED
    BY <2>1, <2>2
<1>4. \A i \in 1..MaxJobs \ {j} : jobs'[i] = jobs[i]
  BY <1>1, <1>3, Facts, OthersStay
<1>5. ~Brings(jobs[j], x, product, format)
  BY <1>1 DEF Brings
<1>6. QED
  BY <1>1, <1>2, <1>4, <1>5, CauseKept

LEMMA CauseStarts == Init => CauseInv
<1> SUFFICES ASSUME Init PROVE CauseInv
  OBVIOUS
<1>1. JobsNumbered /\ ReadsOnce
  BY DEF Init, JobsNumbered, ReadsOnce
<1>2. ASSUME NEW p \in Products
      PROVE  /\ product[p].ativo => product[p].exists /\ p \in Before
             /\ product[p].exists => product[p].versao # 0
  <2>1. CASE p \in Before
    <3>1. product[p] = [exists |-> TRUE, ativo |-> TRUE, versao |-> 1]
      BY <2>1 DEF Init
    <3>2. product[p].exists /\ product[p].versao # 0
      BY <3>1
    <3>3. QED
      BY <2>1, <3>2
  <2>2. CASE p \notin Before
    <3>1. product[p] = [exists |-> FALSE, ativo |-> FALSE, versao |-> 0]
      BY <2>2 DEF Init
    <3>2. ~product[p].exists /\ ~product[p].ativo
      BY <3>1
    <3>3. QED
      BY <3>2
  <2>3. QED
    BY <2>1, <2>2
<1>4. RowsSaved
  BY <1>2 DEF RowsSaved
<1>5. FactoryKept
  <2>1. ASSUME NEW f \in Formats, Number[f] \in FactorySlots PROVE memory[<<"LAB", Number[f]>>] = FactoryRow
    <3>1. <<"LAB", Number[f]>> \in Address
      BY DEF Address
    <3> DEFINE a == <<"LAB", Number[f]>>
    <3>2. a[1] = "LAB" /\ a[2] = Number[f]
      OBVIOUS
    <3> HIDE DEF a
    <3>3. memory[a] = FactoryRow
      BY <2>1, <3>1, <3>2 DEF Init, a
    <3>4. QED
      BY <3>3 DEF a
  <2>2. \A f \in Formats : f \in excused
    BY TrackedItems DEF Init
  <2>3. QED
    BY <2>1, <2>2 DEF FactoryKept
<1>6. StaleHasACause
  <2>1. ASSUME NEW x \in Tracked, Stale(x) PROVE x \in excused
    <3>1. x \in Products => x \in Before
      BY <1>2, <2>1, StaleIsActive
    <3>2. QED
      BY <3>1, TrackedItems DEF Init
  <2>2. QED
    BY <2>1 DEF StaleHasACause
<1>7. QED
  BY <1>1, <1>4, <1>5, <1>6 DEF CauseInv

LEMMA CauseStays == IInv /\ CauseInv /\ [Next]_vars => CauseInv'
<1> SUFFICES ASSUME IInv, CauseInv, [Next]_vars PROVE CauseInv'
  OBVIOUS
<1>1. JobsNumbered /\ RowsSaved /\ ReadsOnce /\ FactoryKept /\ StaleHasACause
  BY DEF CauseInv
<1>2. JobsNumbered' /\ RowsSaved' /\ ReadsOnce' /\ FactoryKept'
  BY <1>1, NumberedStays, SavedStays, ReadsStay, FactoryStays
<1>3. StaleHasACause'
  <2>1. CASE \/ \E p \in Products, ativo \in BOOLEAN : SaveProduct(p, ativo)
             \/ \E P \in SUBSET Products : DeleteProducts(P)
             \/ \E f \in Formats : SaveFormat(f)
             \/ Link \/ UNCHANGED vars
    BY <1>1, <2>1, SavingKeepsCause
  <2>2. CASE \/ \E x \in Item : Enqueue(x) \/ LoseRequest(x)
             \/ AskSync("TOTAL", {}) \/ \E ids \in Asked : AskSync("INCREMENTAL", ids)
    BY <1>1, <2>2, AskingKeepsCause
  <2>3. CASE \E j \in 1..MaxJobs : ReadProducts(j) \/ OpenJob(j)
    BY <1>1, <2>3, ReadingKeepsCause
  <2>4. CASE \/ \E j \in 1..MaxJobs : Write(j) \/ LoseWrite(j)
             \/ \E rest \in adrift : LandsLate(rest)
    BY <1>1, <2>4, LandingsKeepCause
  <2>5. CASE \E j \in 1..MaxJobs : ReadBack(j) \/ LoseResult(j) \/ EndJob(j)
    BY <1>1, <2>5, EndingKeepsCause
  <2>6. QED
    BY <2>1, <2>2, <2>3, <2>4, <2>5 DEF Next
<1>4. QED
  BY <1>2, <1>3 DEF CauseInv

\* What makes StaleHasACause inductive beside IInv: jobs have numbers of their own, what
\* is active is there and was saved, a job reads every row once at a version there is or
\* was, and the models of the scale's maker stay in their slots.
THEOREM CauseInvariant == Spec => []CauseInv
<1>1. QED
  BY CauseStarts, CauseStays, Invariant, PTL DEF Spec

\* Every save reaches the scales, or there is a reason that it does not
\* (ProductSyncDispatcher): a price or layout the scale does not show yet is in a request
\* or a job that is going to bring it, unless the request was lost, no agent was linked,
\* the job was given up or an older package landed over it.  It holds for any catalogue,
\* any number of jobs of one scale at once and packages cut anywhere.
THEOREM StaleTheorem == Spec => []StaleHasACause
<1>1. CauseInv => StaleHasACause
  BY DEF CauseInv
<1>2. QED
  BY <1>1, CauseInvariant, PTL

-----------------------------------------------------------------------------
(* Labels and seals print whole.                                            *)

\* Induction over a range, a set standing for what is to be shown.
LEMMA Inducted ==
    ASSUME NEW n \in Nat, NEW B, 0 \in B, \A i \in 1..n : i - 1 \in B => i \in B
    PROVE  \A i \in 0..n : i \in B
<1> DEFINE T == {i \in 0..n : i \notin B}
<1>1. SUFFICES ASSUME T # {} PROVE FALSE
  OBVIOUS
<1>2. T \subseteq Nat
  OBVIOUS
<1>3. IsWellFoundedOn(OpToRel(<, Nat), Nat)
  BY NatLessThanWellFounded
<1>4. PICK t \in T : \A u \in T : ~(<<u, t>> \in OpToRel(<, Nat))
  BY <1>1, <1>2, <1>3, WFMin
<1>5. t \in 1..n /\ t - 1 \in 0..n /\ t - 1 < t /\ t - 1 \in Nat /\ t \in Nat
  OBVIOUS
<1>6. t - 1 \notin T
  BY <1>4, <1>5 DEF OpToRel
<1>7. t - 1 \in B
  BY <1>5, <1>6
<1>8. QED
  BY <1>4, <1>5, <1>7

\* A finite set of naturals that is not empty has a largest member.
LEMMA Largest ==
    ASSUME NEW S, IsFiniteSet(S), S \subseteq Nat, S # {}
    PROVE  \E m \in S : \A s \in S : s <= m
<1> DEFINE n == Cardinality(S)
           Has(U) == \E m \in U : \A s \in U : s <= m
           B == {i \in 0..n : \A U \in SUBSET S : Cardinality(U) = i /\ U # {} => Has(U)}
<1>1. n \in Nat
  BY FS_CardinalityType
<1>2. \A U \in SUBSET S : IsFiniteSet(U)
  BY FS_Subset
<1>3. 0 \in B
  BY <1>1, <1>2, FS_EmptySet
<1>4. ASSUME NEW i \in 1..n, i - 1 \in B PROVE i \in B
  <2>1. ASSUME NEW U \in SUBSET S, Cardinality(U) = i, U # {} PROVE Has(U)
    <3>1. PICK x \in U : TRUE
      BY <2>1
    <3> DEFINE R == U \ {x}
    <3>2. R \in SUBSET S /\ Cardinality(R) = i - 1 /\ x \in Nat
      BY <1>2, <2>1, FS_RemoveElement
    <3>3. CASE R = {}
      <4>1. \A s \in U : s <= x
        BY <3>2, <3>3
      <4>2. QED
        BY <4>1
    <3>4. CASE R # {}
      <4>1. Has(R)
        BY <1>4, <3>2, <3>4
      <4>2. PICK m \in R : \A s \in R : s <= m
        BY <4>1
      <4>3. m \in Nat /\ x \in Nat
        BY <3>2
      <4>4. \A s \in U : s \in R \/ s = x
        OBVIOUS
      <4> HIDE DEF R
      <4>5. CASE x <= m
        BY <4>2, <4>4, <4>5 DEF R
      <4>6. CASE m <= x
        <5>1. \A s \in R : s \in Nat
          BY <3>2
        <5>2. \A s \in R : s <= x
          BY <4>2, <4>3, <4>6, <5>1
        <5>3. \A s \in U : s <= x
          BY <3>2, <4>4, <5>2
        <5>4. QED
          BY <5>3
      <4>7. QED
        BY <4>3, <4>5, <4>6
    <3>5. QED
      BY <3>3, <3>4
  <2>2. i \in 0..n
    BY <1>1
  <2> HIDE DEF Has
  <2>3. QED
    BY <2>1, <2>2
<1> HIDE DEF B
<1>5. n \in B
  <2>1. \A i \in 0..n : i \in B
    <3> HIDE DEF n
    <3>1. QED
      BY <1>1, <1>3, <1>4, Inducted
  <2>2. QED
    BY <1>1, <2>1
<1>6. QED
  BY <1>5 DEF B

\* What n steps make of a value: a recursive function that exists.
Repeats(g, n, T, x, F) == g \in [0..n -> T] /\ g[0] = x /\ \A i \in 1..n : g[i] = F[i][g[i - 1]]

LEMMA Repeated ==
    ASSUME NEW n \in Nat, NEW T, NEW x \in T, NEW F \in [1..n -> [T -> T]]
    PROVE  \E g : Repeats(g, n, T, x, F)
<1> DEFINE Steps(g, k) == g \in [0..k -> T] /\ g[0] = x /\ \A i \in 1..k : g[i] = F[i][g[i - 1]]
           B == {k \in 0..n : \E g : Steps(g, k)}
<1>1. 0 \in B
  <2> DEFINE g == [i \in 0..0 |-> x]
  <2>1. Steps(g, 0)
    OBVIOUS
  <2> HIDE DEF Steps
  <2>2. QED
    BY <2>1
<1>2. ASSUME NEW k \in 1..n, k - 1 \in B PROVE k \in B
  <2>1. PICK g : Steps(g, k - 1)
    BY <1>2
  <2> DEFINE h == [i \in 0..k |-> IF i = k THEN F[k][g[k - 1]] ELSE g[i]]
  <2>2. k - 1 \in 0..(k - 1) /\ k - 1 \in 0..k /\ k # 0 /\ k - 1 # k /\ 0 \in 0..k
    OBVIOUS
  <2>3. F[k] \in [T -> T] /\ g[k - 1] \in T
    BY <2>1, <2>2
  <2>4. F[k][g[k - 1]] \in T
    BY <2>3
  <2>5. ASSUME NEW i \in 0..k PROVE h[i] \in T
    <3>1. i = k \/ i \in 0..(k - 1)
      OBVIOUS
    <3>2. QED
      BY <2>1, <2>4, <3>1
  <2>6. h \in [0..k -> T] /\ h[0] = x
    BY <2>1, <2>2, <2>5
  <2>7. ASSUME NEW i \in 1..k PROVE h[i] = F[i][h[i - 1]]
    <3>1. i - 1 \in 0..k /\ i - 1 # k /\ i \in 0..k
      OBVIOUS
    <3>2. h[i - 1] = g[i - 1]
      BY <3>1
    <3>3. CASE i = k
      BY <3>1, <3>2, <3>3
    <3>4. CASE i # k
      <4>1. i \in 1..(k - 1) /\ h[i] = g[i]
        BY <3>1, <3>4
      <4>2. g[i] = F[i][g[i - 1]]
        BY <2>1, <4>1
      <4> HIDE DEF h
      <4>3. QED
        BY <3>2, <4>1, <4>2
    <3>5. QED
      BY <3>3, <3>4
  <2> HIDE DEF h
  <2>8. Steps(h, k)
    BY <2>6, <2>7
  <2> HIDE DEF Steps
  <2>9. k \in 0..n
    OBVIOUS
  <2>10. QED
    BY <2>8, <2>9
<1> HIDE DEF B
<1>3. \A i \in 0..n : i \in B
  BY <1>1, <1>2, Inducted
<1>4. QED
  BY <1>3 DEF B, Repeats

\* A line is no wider than the room there is, or is one word.
Packs(linhas, palavras, escala, disponivel) ==
    /\ linhas \in Seq(Nat)
    /\ \A k \in DOMAIN linhas :
          \/ LarguraTexto(linhas[k], escala) <= disponivel
          \/ \E j \in DOMAIN palavras : linhas[k] = palavras[j]

LEMMA WordJoined ==
    ASSUME NEW palavras \in Seq(Nat), NEW escala, NEW disponivel,
           NEW linhas, Packs(linhas, palavras, escala, disponivel), NEW j \in DOMAIN palavras
    PROVE  LET nova == JuntarPalavra(linhas, palavras[j], escala, disponivel) IN
           /\ Packs(nova, palavras, escala, disponivel)
           /\ Len(nova) <= Len(linhas) + 1 /\ Len(nova) # 0
<1> DEFINE n == Len(linhas)
           w == palavras[j]
           junta == linhas[n] + 1 + w
           nova == JuntarPalavra(linhas, w, escala, disponivel)
<1>1. linhas \in Seq(Nat) /\ n \in Nat /\ DOMAIN linhas = 1..n /\ w \in Nat
  BY DEF Packs
<1>2. nova = IF n > 0 /\ LarguraTexto(junta, escala) <= disponivel
             THEN [linhas EXCEPT ![n] = junta] ELSE Append(linhas, w)
  BY DEF JuntarPalavra
<1> HIDE DEF nova
<1>3. CASE n > 0 /\ LarguraTexto(junta, escala) <= disponivel
  <2>1. nova = [linhas EXCEPT ![n] = junta] /\ n \in 1..n /\ junta \in Nat
    BY <1>1, <1>2, <1>3
  <2> HIDE DEF n, w, junta
  <2>2. nova \in Seq(Nat) /\ Len(nova) = n /\ DOMAIN nova = 1..n
    BY <1>1, <2>1 DEF n
  <2>3. ASSUME NEW k \in 1..n
        PROVE  \/ LarguraTexto(nova[k], escala) <= disponivel
               \/ \E i \in DOMAIN palavras : nova[k] = palavras[i]
    <3>1. CASE k = n
      <4>1. nova[k] = junta
        BY <1>1, <2>1, <3>1
      <4>2. QED
        BY <1>3, <4>1
    <3>2. CASE k # n
      <4>1. nova[k] = linhas[k]
        BY <1>1, <2>1, <3>2
      <4>2. QED
        BY <1>1, <4>1 DEF Packs
    <3>3. QED
      BY <3>1, <3>2
  <2>4. Len(nova) <= n + 1 /\ Len(nova) # 0
    BY <1>1, <1>3, <2>2 DEF n
  <2>5. QED
    BY <2>2, <2>3, <2>4 DEF Packs, nova, n, w
<1>4. CASE ~(n > 0 /\ LarguraTexto(junta, escala) <= disponivel)
  <2>1. nova = Append(linhas, w)
    BY <1>2, <1>4
  <2> HIDE DEF n, junta
  <2>2. /\ nova \in Seq(Nat) /\ Len(nova) = n + 1 /\ DOMAIN nova = 1..(n + 1)
        /\ \A k \in 1..n : nova[k] = linhas[k]
        /\ nova[n + 1] = w
    BY <1>1, <2>1 DEF n
  <2>3. ASSUME NEW k \in 1..(n + 1)
        PROVE  \/ LarguraTexto(nova[k], escala) <= disponivel
               \/ \E i \in DOMAIN palavras : nova[k] = palavras[i]
    <3>1. k \in 1..n \/ k = n + 1
      BY <1>1
    <3>2. CASE k \in 1..n
      BY <1>1, <2>2, <3>2 DEF Packs
    <3>3. CASE k = n + 1
      BY <2>2, <3>3
    <3>4. QED
      BY <3>1, <3>2, <3>3
  <2>4. Len(nova) <= n + 1 /\ Len(nova) # 0
    BY <1>1, <2>2
  <2>5. QED
    BY <2>2, <2>3, <2>4 DEF Packs, nova, n, w
<1>5. QED
  BY <1>3, <1>4

\* quebrarEmLinhas makes no more lines than there are words, and one if there are any.
LEMMA LinesPacked ==
    ASSUME NEW palavras \in Seq(Nat), NEW escala, NEW disponivel
    PROVE  LET linhas == QuebrarEmLinhas(palavras, escala, disponivel) IN
           /\ Packs(linhas, palavras, escala, disponivel)
           /\ Len(linhas) <= Len(palavras) /\ (Len(palavras) # 0 => Len(linhas) # 0)
<1> DEFINE n == Len(palavras)
           J(linhas, i) == JuntarPalavra(linhas, palavras[i], escala, disponivel)
           Turns(g, k) == g = [i \in 0..k |-> IF i = 0 THEN << >> ELSE J(g[i - 1], i)]
<1>1. n \in Nat /\ DOMAIN palavras = 1..n
  OBVIOUS
<1> HIDE DEF n
<1>2. \E g : Turns(g, n)
  <2> DEFINE T == {linhas \in Seq(Nat) : Packs(linhas, palavras, escala, disponivel)}
             F == [i \in 1..n |-> [linhas \in T |-> J(linhas, i)]]
  <2>1. << >> \in T
    BY DEF Packs
  <2>2. ASSUME NEW i \in 1..n, NEW linhas \in T PROVE J(linhas, i) \in T
    <3> DEFINE nova == JuntarPalavra(linhas, palavras[i], escala, disponivel)
    <3>1. Packs(nova, palavras, escala, disponivel)
      BY <1>1, WordJoined
    <3> HIDE DEF nova
    <3>2. nova \in T
      BY <3>1 DEF Packs
    <3>3. QED
      BY <3>2 DEF nova
  <2> HIDE DEF J, T
  <2>3. F \in [1..n -> [T -> T]]
    BY <2>2
  <2>4. \A i \in 1..n, linhas \in T : F[i][linhas] = J(linhas, i)
    OBVIOUS
  <2> HIDE DEF F
  <2> DEFINE nenhuma == << >>
  <2>5. PICK g : g \in [0..n -> T] /\ g[0] = nenhuma /\ \A i \in 1..n : g[i] = F[i][g[i - 1]]
    <3> HIDE DEF nenhuma
    <3>1. nenhuma \in T
      BY <2>1 DEF nenhuma
    <3>2. \E g : Repeats(g, n, T, nenhuma, F)
      BY <1>1, <2>3, <3>1, Repeated
    <3>3. QED
      BY <3>2 DEF Repeats
  <2>6. \A i \in 0..n : g[i] = IF i = 0 THEN << >> ELSE J(g[i - 1], i)
    <3>1. \A i \in 1..n : i - 1 \in 0..n /\ i # 0
      BY <1>1
    <3>2. \A i \in 1..n : g[i] = J(g[i - 1], i)
      BY <2>4, <2>5, <3>1
    <3>3. \A i \in 0..n : i = 0 \/ i \in 1..n
      BY <1>1
    <3>4. QED
      BY <2>5, <3>1, <3>2, <3>3
  <2>7. g = [i \in 0..n |-> g[i]]
    BY <2>5
  <2>8. Turns(g, n)
    BY <2>6, <2>7
  <2> HIDE DEF Turns
  <2>9. QED
    BY <2>8
<1> DEFINE l == CHOOSE g : Turns(g, n)
<1>3. QuebrarEmLinhas(palavras, escala, disponivel) = l[n]
  BY Zenon DEF QuebrarEmLinhas, n
<1>4. Turns(l, n)
  <2> HIDE DEF Turns
  <2>1. QED
    BY <1>2
<1> HIDE DEF l, J
<1>5. l[0] = << >> /\ \A i \in 1..n : l[i] = J(l[i - 1], i)
  <2>1. 0 \in 0..n /\ \A i \in 1..n : i \in 0..n /\ i # 0
    BY <1>1
  <2>2. QED
    BY <1>4, <2>1
<1> DEFINE Good(i) == /\ Packs(l[i], palavras, escala, disponivel)
                      /\ Len(l[i]) <= i /\ (i # 0 => Len(l[i]) # 0)
           B == {i \in 0..n : Good(i)}
<1>6. 0 \in B
  <2>1. << >> \in Seq(Nat) /\ Len(<< >>) = 0 /\ DOMAIN << >> = {}
    OBVIOUS
  <2>2. Good(0)
    BY <1>5, <2>1 DEF Packs
  <2> HIDE DEF Good
  <2>3. QED
    BY <1>1, <2>2
<1>7. ASSUME NEW i \in 1..n, i - 1 \in B PROVE i \in B
  <2> DEFINE p == l[i - 1]
  <2>1. Packs(p, palavras, escala, disponivel) /\ Len(p) <= i - 1
    BY <1>7
  <2>2. l[i] = JuntarPalavra(p, palavras[i], escala, disponivel)
    BY <1>5 DEF J
  <2> HIDE DEF p
  <2> DEFINE q == l[i]
  <2>3. Packs(q, palavras, escala, disponivel) /\ Len(q) <= Len(p) + 1 /\ Len(q) # 0
    BY <1>1, <2>1, <2>2, WordJoined
  <2> HIDE DEF q
  <2>4. Len(p) \in Nat /\ Len(q) \in Nat
    BY <2>1, <2>3 DEF Packs
  <2>5. i \in 0..n /\ Len(q) <= i
    BY <1>1, <2>1, <2>3, <2>4
  <2>6. QED
    BY <2>3, <2>5 DEF q
<1> HIDE DEF B
<1>8. \A i \in 0..n : i \in B
  BY <1>1, <1>6, <1>7, Inducted
<1>9. Good(n)
  BY <1>1, <1>8 DEF B
<1>10. QED
  BY <1>3, <1>9 DEF n

LEMMA WholeLabel == ASSUME NEW palavras \in Seq(Nat) PROVE Inteiro(palavras) \in Nat
<1> DEFINE n == Len(palavras)
           J(x, i) == x + palavras[i] + (IF i = 1 THEN 0 ELSE 1)
           Turns(g) == g = [i \in 0..n |-> IF i = 0 THEN 0 ELSE J(g[i - 1], i)]
           F == [i \in 1..n |-> [x \in Nat |-> J(x, i)]]
           l == CHOOSE g : Turns(g)
<1>1. n \in Nat /\ \A i \in 1..n : palavras[i] \in Nat
  OBVIOUS
<1>2. \A i \in 1..n, x \in Nat : J(x, i) \in Nat
  BY <1>1
<1>3. Inteiro(palavras) = l[n]
  BY Zenon DEF Inteiro
<1> HIDE DEF n, J
<1>4. F \in [1..n -> [Nat -> Nat]]
  BY <1>2
<1>5. \A i \in 1..n, x \in Nat : F[i][x] = J(x, i)
  OBVIOUS
<1> HIDE DEF F
<1>6. PICK g : g \in [0..n -> Nat] /\ g[0] = 0 /\ \A i \in 1..n : g[i] = F[i][g[i - 1]]
  <2>1. \E g : Repeats(g, n, Nat, 0, F)
    BY <1>1, <1>4, Repeated
  <2>2. QED
    BY <2>1 DEF Repeats
<1>7. Turns(g)
  <2>1. \A i \in 1..n : i - 1 \in 0..n /\ i # 0
    BY <1>1
  <2>2. \A i \in 1..n : g[i] = J(g[i - 1], i)
    BY <1>5, <1>6, <2>1
  <2>3. \A i \in 0..n : i = 0 \/ i \in 1..n
    BY <1>1
  <2>4. \A i \in 0..n : g[i] = IF i = 0 THEN 0 ELSE J(g[i - 1], i)
    BY <1>6, <2>1, <2>2, <2>3
  <2>5. g = [i \in 0..n |-> g[i]]
    BY <1>6
  <2>6. QED
    BY <2>4, <2>5
<1>8. Turns(l)
  <2> HIDE DEF Turns
  <2>1. QED
    BY <1>7
<1> HIDE DEF l
<1>9. l[0] = 0 /\ \A i \in 1..n : l[i] = J(l[i - 1], i)
  <2>1. 0 \in 0..n /\ \A i \in 1..n : i \in 0..n /\ i # 0
    BY <1>1
  <2>2. QED
    BY <1>8, <2>1
<1> DEFINE B == {i \in 0..n : l[i] \in Nat}
<1>10. 0 \in B /\ \A i \in 1..n : i - 1 \in B => i \in B
  <2>1. 0 \in B
    BY <1>1, <1>9
  <2>2. ASSUME NEW i \in 1..n, i - 1 \in B PROVE i \in B
    <3>1. i \in 0..n
      BY <1>1
    <3>2. QED
      BY <1>2, <1>9, <2>2, <3>1
  <2>3. QED
    BY <2>1, <2>2
<1> HIDE DEF B
<1>11. \A i \in 0..n : i \in B
  BY <1>1, <1>10, Inducted
<1>12. n \in B
  BY <1>1, <1>11
<1>13. QED
  BY <1>3, <1>12 DEF B

\* The lines of a label: one at least, and those of an official label within the
\* nominal width of a module.
LEMMA LabelLines ==
    ASSUME NEW palavras \in Seq(Nat), NEW escala \in Escalas
    PROVE  LET linhas == LinhasDoSelo(palavras, escala) IN
           /\ linhas \in Seq(Nat) /\ Len(linhas) # 0
           /\ Len(palavras) \in 1..2 /\ (\A j \in DOMAIN palavras : palavras[j] <= 10) =>
                \A i \in DOMAIN linhas : LarguraTexto(linhas[i], escala) <= Nominal(escala)
<1> DEFINE q == QuebrarEmLinhas(palavras, escala, Nominal(escala))
           w == Inteiro(palavras)
           linhas == LinhasDoSelo(palavras, escala)
<1>1. /\ Packs(q, palavras, escala, Nominal(escala)) /\ w \in Nat
      /\ Len(q) <= Len(palavras) /\ (Len(palavras) # 0 => Len(q) # 0)
  BY LinesPacked, WholeLabel
<1>2. linhas = IF Len(q) \in 1..2 THEN q ELSE <<w>>
  BY DEF LinhasDoSelo
<1> HIDE DEF q, w, linhas
<1>3. q \in Seq(Nat) /\ Len(q) \in Nat /\ Len(palavras) \in Nat
  BY <1>1 DEF Packs
<1>4. linhas \in Seq(Nat) /\ Len(linhas) # 0
  <2>1. CASE Len(q) \in 1..2
    <3>1. linhas = q
      BY <1>2, <2>1
    <3> DEFINE n == Len(q)
    <3> HIDE DEF n
    <3>2. n \in 1..2
      BY <2>1 DEF n
    <3>3. n # 0
      BY <3>2
    <3>4. QED
      BY <1>3, <3>1, <3>3 DEF n
  <2>2. CASE Len(q) \notin 1..2
    <3>1. linhas = <<w>>
      BY <1>2, <2>2
    <3>2. <<w>> \in Seq(Nat) /\ Len(<<w>>) = 1
      BY <1>1
    <3> DEFINE s == <<w>>
    <3> HIDE DEF s
    <3>3. linhas = s /\ s \in Seq(Nat) /\ Len(s) = 1
      BY <3>1, <3>2 DEF s
    <3>4. QED
      BY <3>3
  <2>3. QED
    BY <2>1, <2>2
\* A word of ten letters is 49 dots wide, a module 56.
<1>5. ASSUME NEW n \in Nat, n <= 10 PROVE LarguraTexto(n, escala) <= Nominal(escala)
  <2>1. CASE n = 0
    BY <2>1 DEF LarguraTexto, Nominal, Escalas
  <2>2. CASE n # 0
    <3>1. 5 * n - 1 \in Int /\ 5 * n - 1 <= 56
      BY <1>5
    <3>2. LarguraTexto(n, escala) = (5 * n - 1) * escala /\ Nominal(escala) = 56 * escala
      BY <2>2 DEF LarguraTexto, Nominal
    <3>3. escala = 1 \/ escala = 2 \/ escala = 3
      BY DEF Escalas
    <3>4. QED
      BY <3>1, <3>2, <3>3
  <2>3. QED
    BY <2>1, <2>2
<1>6. ASSUME Len(palavras) \in 1..2, \A j \in DOMAIN palavras : palavras[j] <= 10, NEW i \in DOMAIN linhas
      PROVE  LarguraTexto(linhas[i], escala) <= Nominal(escala)
  <2>1. CASE Len(q) \in 1..2
    <3>1. linhas = q
      BY <1>2, <2>1
    <3>2. CASE LarguraTexto(q[i], escala) <= Nominal(escala)
      BY <3>1, <3>2
    <3>3. CASE \E j \in DOMAIN palavras : q[i] = palavras[j]
      <4>1. PICK j \in DOMAIN palavras : q[i] = palavras[j]
        BY <3>3
      <4>2. palavras[j] \in Nat /\ palavras[j] <= 10
        BY <1>6
      <4>3. QED
        BY <1>5, <3>1, <4>1, <4>2
    <3>4. QED
      BY <1>1, <3>1, <3>2, <3>3 DEF Packs
  <2>2. CASE Len(q) \notin 1..2
    <3> DEFINE n == Len(q)
               m == Len(palavras)
    <3> HIDE DEF n, m
    <3>1. n \in Nat /\ m \in 1..2 /\ n <= m /\ (m # 0 => n # 0) /\ n \notin 1..2
      BY <1>1, <1>3, <1>6, <2>2 DEF n, m
    <3>2. QED
      BY <3>1
  <2>3. QED
    BY <2>1, <2>2
<1>7. QED
  BY <1>4, <1>6 DEF linhas

LEMMA ListIsFinite == ASSUME NEW n \in Nat, NEW g PROVE IsFiniteSet({g[i] : i \in 1..n})
<1> DEFINE T == {g[i] : i \in 1..n}
           h == [i \in 1..n |-> g[i]]
<1>1. IsFiniteSet(1..n)
  BY FS_Interval
<1>2. h \in [1..n -> T] /\ \A t \in T : \E i \in 1..n : h[i] = t
  OBVIOUS
<1> HIDE DEF h, T
<1>3. h \in Surjection(1..n, T)
  BY <1>2 DEF Surjection
<1>4. IsFiniteSet(T)
  BY <1>1, <1>3, FS_Surjection
<1>5. QED
  BY <1>4 DEF T

LEMMA TextWidth ==
    ASSUME NEW n \in Nat, NEW escala \in Escalas
    PROVE  LarguraTexto(n, escala) \in Nat /\ 4 * escala \in Nat
<1>1. escala = 1 \/ escala = 2 \/ escala = 3
  BY DEF Escalas
<1>2. CASE n = 0
  BY <1>1, <1>2 DEF LarguraTexto
<1>3. CASE n # 0
  <2>1. 5 * n - 1 \in Nat
    BY <1>3
  <2>2. LarguraTexto(n, escala) = (5 * n - 1) * escala
    BY <1>3 DEF LarguraTexto
  <2>3. QED
    BY <1>1, <2>1, <2>2
<1>4. QED
  BY <1>2, <1>3

\* The width the labels ask for: there is one, and every line of every label has room in it.
LEMMA WidestLine ==
    ASSUME NEW rotulos \in Seq(Seq(Nat)), Len(rotulos) # 0, NEW escala \in Escalas
    PROVE  /\ LarguraExigida(rotulos, escala) \in Nat
           /\ \A r \in DOMAIN rotulos : \A i \in DOMAIN LinhasDoSelo(rotulos[r], escala) :
                 LarguraTexto(LinhasDoSelo(rotulos[r], escala)[i], escala) <= LarguraExigida(rotulos, escala)
<1> DEFINE n == Len(rotulos)
           L(r) == LinhasDoSelo(rotulos[r], escala)
           W(linhas) == {LarguraTexto(linhas[i], escala) + 4 * escala : i \in DOMAIN linhas}
           todas == {L(r) : r \in DOMAIN rotulos}
           S == {W(linhas) : linhas \in todas}
           larguras == UNION S
           exigida == LarguraExigida(rotulos, escala)
<1>1. n \in Nat /\ n # 0 /\ DOMAIN rotulos = 1..n /\ \A r \in 1..n : rotulos[r] \in Seq(Nat)
  OBVIOUS
<1>2. exigida = CHOOSE l \in larguras : \A m \in larguras : m <= l
  BY Zenon DEF LarguraExigida
<1> HIDE DEF n, exigida
<1>3. \A r \in 1..n : L(r) \in Seq(Nat) /\ Len(L(r)) # 0
  BY <1>1, LabelLines
<1> HIDE DEF L
<1>4. \A linhas \in todas : linhas \in Seq(Nat) /\ Len(linhas) # 0
  BY <1>1, <1>3
<1>5. IsFiniteSet(todas)
  <2> DEFINE g == [r \in 1..n |-> L(r)]
  <2>1. todas = {g[r] : r \in 1..n}
    BY <1>1
  <2> HIDE DEF g, todas
  <2>2. QED
    BY <1>1, <2>1, ListIsFinite
<1>6. ASSUME NEW linhas \in todas PROVE IsFiniteSet(W(linhas)) /\ W(linhas) \subseteq Nat
  <2> DEFINE c == Len(linhas)
             g == [i \in 1..c |-> LarguraTexto(linhas[i], escala) + 4 * escala]
             T == W(linhas)
  <2>1. c \in Nat /\ DOMAIN linhas = 1..c /\ \A i \in 1..c : linhas[i] \in Nat
    <3>1. linhas \in Seq(Nat)
      BY <1>4
    <3> HIDE DEF todas
    <3>2. QED
      BY <3>1
  <2> HIDE DEF c, todas
  <2>2. \A i \in 1..c : LarguraTexto(linhas[i], escala) + 4 * escala \in Nat
    <3>1. ASSUME NEW i \in 1..c PROVE LarguraTexto(linhas[i], escala) + 4 * escala \in Nat
      <4> DEFINE a == LarguraTexto(linhas[i], escala)
                 b == 4 * escala
      <4>1. a \in Nat /\ b \in Nat
        BY <2>1, TextWidth
      <4> HIDE DEF a, b
      <4>2. a + b \in Nat
        BY <4>1
      <4>3. QED
        BY <4>2 DEF a, b
    <3>2. QED
      BY <3>1
  <2>3. T = {LarguraTexto(linhas[i], escala) + 4 * escala : i \in 1..c}
    BY <2>1
  <2>4. T = {g[i] : i \in 1..c}
    BY <2>3
  <2> HIDE DEF g, T
  <2>5. IsFiniteSet(T)
    BY <2>1, <2>4, ListIsFinite
  <2>6. T \subseteq Nat
    BY <2>2, <2>3
  <2>7. QED
    BY <2>5, <2>6 DEF T
<1>7. IsFiniteSet(S)
  <2> DEFINE g == [linhas \in todas |-> W(linhas)]
  <2> HIDE DEF W, todas
  <2>1. g \in Surjection(todas, S)
    BY DEF Surjection
  <2> HIDE DEF g, S
  <2>2. QED
    BY <1>5, <2>1, FS_Surjection
<1>8. IsFiniteSet(larguras) /\ larguras \subseteq Nat
  <2> HIDE DEF W, todas
  <2>1. \A T \in S : IsFiniteSet(T) /\ T \subseteq Nat
    BY <1>6
  <2> HIDE DEF S
  <2>2. QED
    BY <1>7, <2>1, FS_UNION
<1>9. \A r \in 1..n : L(r) \in todas
  BY <1>1
<1>10. ASSUME NEW r \in 1..n, NEW i \in DOMAIN L(r)
       PROVE  LarguraTexto(L(r)[i], escala) + 4 * escala \in larguras
  <2> DEFINE linhas == L(r)
  <2>1. linhas \in todas
    BY <1>9
  <2> HIDE DEF linhas, todas
  <2>2. LarguraTexto(linhas[i], escala) + 4 * escala \in W(linhas)
    BY <1>10 DEF linhas
  <2> HIDE DEF W
  <2>3. QED
    BY <2>1, <2>2 DEF linhas
<1>11. larguras # {}
  <2>1. 1 \in 1..n
    BY <1>1
  <2> DEFINE linhas == L(1)
  <2>2. linhas \in Seq(Nat) /\ Len(linhas) # 0
    BY <1>3, <2>1
  <2>3. 1 \in DOMAIN linhas
    <3> HIDE DEF linhas
    <3>1. QED
      BY <2>2
  <2> HIDE DEF larguras
  <2>4. QED
    BY <1>10, <2>1, <2>3
<1> HIDE DEF larguras
<1>12. exigida \in larguras /\ \A m \in larguras : m <= exigida
  <2>1. \E l \in larguras : \A m \in larguras : m <= l
    BY <1>8, <1>11, Largest
  <2>2. QED
    BY <1>2, <2>1
<1>13. ASSUME NEW r \in 1..n, NEW i \in DOMAIN L(r) PROVE LarguraTexto(L(r)[i], escala) <= exigida
  <2> DEFINE a == LarguraTexto(L(r)[i], escala)
             b == 4 * escala
  <2>1. a + b <= exigida
    BY <1>10, <1>12
  <2>2. L(r)[i] \in Nat
    <3> DEFINE linhas == L(r)
    <3>1. linhas \in Seq(Nat) /\ i \in DOMAIN linhas
      BY <1>3
    <3> HIDE DEF linhas
    <3>2. linhas[i] \in Nat
      BY <3>1
    <3>3. QED
      BY <3>2 DEF linhas
  <2>3. a \in Nat /\ b \in Nat /\ exigida \in Nat
    BY <1>8, <1>12, <2>2, TextWidth
  <2> HIDE DEF a, b
  <2>4. a <= exigida
    BY <2>1, <2>3
  <2>5. QED
    BY <2>4 DEF a
<1>14. exigida \in Nat
  BY <1>8, <1>12
<1>15. QED
  BY <1>1, <1>13, <1>14 DEF exigida, L

\* The strip lies in its bitmap, and the text of labels as short as the official ones in
\* their modules.
WholeStrip(s, rotulos, largura, altura) ==
    /\ s.x0 >= 0 /\ s.x0 + s.total <= largura
    /\ s.y0 >= 0 /\ s.y0 + AlturaBorda(s.escala) <= altura
    /\ DOMAIN s.linhas = DOMAIN rotulos
    /\ \A r \in DOMAIN rotulos :
          Len(rotulos[r]) \in 1..2 /\ (\A j \in DOMAIN rotulos[r] : rotulos[r][j] <= 10) =>
          \A i \in DOMAIN s.linhas[r] : LarguraTexto(s.linhas[r][i], s.escala) <= s.modulo

\* It is so of every strip that is not blank.
LEMMA StripDrawn ==
    ASSUME NEW rotulos \in Seq(Seq(Nat)), NEW largura \in Nat, NEW altura \in Nat,
           NEW s, s = FaixaSelos(rotulos, largura, altura), s.escala > 0
    PROVE  WholeStrip(s, rotulos, largura, altura)
<1> DEFINE cabem == {e \in Escalas : rotulos # << >> /\ Cabe(rotulos, largura, altura, e)}
           escala == CHOOSE e \in cabem : \A f \in cabem : f <= e
           n == Len(rotulos)
<1>1. s = IF cabem = {} THEN EmBranco ELSE Planejar(rotulos, largura, altura, escala)
  BY Zenon DEF FaixaSelos
<1>2. cabem # {}
  <2>1. EmBranco.escala = 0
    BY DEF EmBranco
  <2> HIDE DEF cabem
  <2>2. ASSUME cabem = {} PROVE FALSE
    <3>1. s = EmBranco
      BY <1>1, <2>2
    <3>2. s.escala = 0
      BY <2>1, <3>1
    <3>3. QED
      BY <3>2
  <2>3. QED
    BY <2>2
<1>3. escala \in cabem
  <2>1. cabem \subseteq 1..3
    BY DEF Escalas
  <2> HIDE DEF cabem
  <2>2. \E e \in cabem : \A f \in cabem : f <= e
    BY <1>2, <2>1, LastOf
  <2>3. QED
    BY <2>2
<1>4. s = Planejar(rotulos, largura, altura, escala)
  BY <1>1, <1>2
<1>5. escala \in Escalas /\ rotulos # << >> /\ Cabe(rotulos, largura, altura, escala)
  BY <1>3
<1> HIDE DEF cabem, escala
<1>6. n \in Nat \ {0} /\ DOMAIN rotulos = 1..n
  BY <1>5
<1>7. LarguraExigida(rotulos, escala) \in Nat
  BY <1>5, <1>6, WidestLine
<1> DEFINE plano == Planejar(rotulos, largura, altura, escala)
<1>8. /\ plano.x0 >= 0 /\ plano.x0 + plano.total <= largura
      /\ plano.y0 >= 0 /\ plano.y0 + AlturaBorda(escala) <= altura
      /\ plano.modulo = Nominal(escala) \/ plano.modulo >= LarguraExigida(rotulos, escala)
  BY <1>5, <1>6, <1>7, StripStaysInside
<1>9. /\ plano.escala = escala /\ DOMAIN plano.linhas = 1..n
      /\ \A r \in 1..n : plano.linhas[r] = LinhasDoSelo(rotulos[r], escala)
      /\ plano.modulo = LarguraModulo(LarguraExigida(rotulos, escala), n, largura, escala)
  BY DEF Planejar
<1>10. plano.modulo \in Int
  <2> DEFINE exigida == LarguraExigida(rotulos, escala)
             folga == largura - Fixo(n, escala) - n * exigida
  <2>1. exigida \in Int /\ n \in Int /\ escala \in Int
    BY <1>5, <1>6, <1>7 DEF Escalas
  <2>2. Fixo(n, escala) \in Int
    BY <2>1 DEF Fixo
  <2> HIDE DEF exigida
  <2>3. folga \in Int
    BY <2>1, <2>2
  <2>4. Nominal(escala) \in Int
    BY <2>1 DEF Nominal
  <2>5. plano.modulo = Menor(Nominal(escala), exigida + folga \div n)
    BY <1>9 DEF LarguraModulo, exigida
  <2> HIDE DEF folga, plano
  <2>6. folga \div n \in Int
    BY <1>6, <2>3
  <2>7. exigida + folga \div n \in Int
    BY <2>1, <2>6
  <2>8. QED
    BY <2>4, <2>5, <2>7 DEF Menor
<1> HIDE DEF plano
<1>11. ASSUME NEW r \in 1..n, Len(rotulos[r]) \in 1..2, \A j \in DOMAIN rotulos[r] : rotulos[r][j] <= 10,
              NEW i \in DOMAIN plano.linhas[r]
       PROVE  LarguraTexto(plano.linhas[r][i], escala) <= plano.modulo
  <2> DEFINE linhas == LinhasDoSelo(rotulos[r], escala)
             a == LarguraTexto(linhas[i], escala)
             exigida == LarguraExigida(rotulos, escala)
  <2>1. plano.linhas[r] = linhas /\ rotulos[r] \in Seq(Nat)
    BY <1>6, <1>9
  <2>2. linhas \in Seq(Nat) /\ i \in DOMAIN linhas /\ a <= Nominal(escala)
    BY <1>5, <1>11, <2>1, LabelLines
  <2>3. a <= exigida
    BY <1>5, <1>6, <2>1, <1>11, WidestLine
  <2>4. a \in Nat /\ exigida \in Nat
    <3> HIDE DEF linhas
    <3>1. linhas[i] \in Nat
      BY <2>2
    <3>2. QED
      BY <1>5, <1>7, <3>1, TextWidth
  <2> HIDE DEF a, exigida
  <2>5. a <= plano.modulo
    BY <1>8, <1>10, <2>2, <2>3, <2>4 DEF exigida
  <2>6. QED
    BY <2>1, <2>5 DEF a
<1>12. s = plano /\ s.escala = escala
  BY <1>4, <1>9 DEF plano
<1>13. QED
  BY <1>6, <1>8, <1>9, <1>11, <1>12 DEF WholeStrip

\* The elements chosen from a list make a list.
LEMMA Chosen ==
    ASSUME NEW n \in Nat, NEW I, I \subseteq 1..n, NEW s, NEW T, \A i \in I : s[i] \in T
    PROVE  Escolhidos(s, I) \in Seq(T)
<1> DEFINE c == Crescente(I)
<1>1. PICK m \in Nat : DOMAIN c = 1..m
  BY CrescenteDomain
<1>2. \A k \in 1..m : c[k] \in I
  BY <1>1, CrescenteLists
<1> HIDE DEF c
<1>3. Escolhidos(s, I) = [k \in 1..m |-> s[c[k]]]
  BY <1>1 DEF Escolhidos, c
<1>4. [k \in 1..m |-> s[c[k]]] \in [1..m -> T]
  BY <1>2
<1> DEFINE e == Escolhidos(s, I)
<1>5. e \in [1..m -> T]
  BY <1>3, <1>4
<1> HIDE DEF e
<1>6. e \in Seq(T)
  BY <1>1, <1>5, ListIsSeq
<1>7. QED
  BY <1>6 DEF e

\* The seals of a strip are some of those of the table.
LEMMA SealsOrdered ==
    ASSUME NEW T, NEW selos \in Seq(T) PROVE OrdenarSelos(selos) \in Seq(T)
<1> DEFINE I == {i \in DOMAIN Oficiais : \E k \in DOMAIN selos : selos[k] = Oficiais[i]}
           K == {k \in DOMAIN selos : ~Oficial(selos[k])}
           a == Escolhidos(Oficiais, I)
           b == Escolhidos(selos, K)
<1>1. Len(selos) \in Nat /\ DOMAIN selos = 1..Len(selos) /\ \A k \in 1..Len(selos) : selos[k] \in T
  OBVIOUS
<1>2. I \subseteq 1..3
  BY DEF Oficiais
<1>3. \A i \in I : Oficiais[i] \in T
  BY <1>1
<1>4. K \subseteq 1..Len(selos) /\ \A k \in K : selos[k] \in T
  BY <1>1
<1>5. OrdenarSelos(selos) = a \o b
  BY Zenon DEF OrdenarSelos
<1> HIDE DEF I, K
<1>6. a \in Seq(T)
  BY <1>2, <1>3, Chosen
<1>7. b \in Seq(T)
  BY <1>1, <1>4, Chosen
<1> HIDE DEF a, b
<1>8. QED
  BY <1>5, <1>6, <1>7, ConcatProperties

\* The claim of StripsFit about one bitmap, that of TextsInTheirBoxes about one label.
DrawnWhole(bmp) ==
    bmp.faixa.escala > 0 =>
    LET s == bmp.faixa IN
    /\ s.x0 >= 0 /\ s.x0 + s.total <= bmp.largura
    /\ s.y0 >= 0 /\ s.y0 + AlturaBorda(s.escala) <= bmp.altura
    /\ \A r \in DOMAIN s.linhas : Oficial(bmp.selos[r]) =>
          \A i \in DOMAIN s.linhas[r] : LarguraTexto(s.linhas[r][i], s.escala) <= s.modulo
TextsPlaced(lab, els) ==
    /\ DOMAIN lab.itens = DOMAIN els
    /\ \A i \in DOMAIN els : els[i].tipo = "texto" =>
          \/ els[i].texto = EmBrancoTxt
          \/ Cardinality({k \in 1..(i - 1) : TemTexto(els[k])}) >= MaxTextos
          \/ /\ lab.itens[i][1] = 3
             /\ lab.itens[i][2] + 1 \in DOMAIN lab.textos
             /\ lab.textos[lab.itens[i][2] + 1] = els[i].texto

LEMMA PrintsWhole ==
    /\ StripsFit <=> \A n \in 1..BmpMax : memory[<<"BMP", n>>] # Nulo => DrawnWhole(memory[<<"BMP", n>>])
    /\ StripsFit' <=> \A n \in 1..BmpMax : memory'[<<"BMP", n>>] # Nulo => DrawnWhole(memory'[<<"BMP", n>>])
    /\ TextsInTheirBoxes <=>
         \A f \in Formats : memory[<<"LAB", Number[f]>>] # Nulo /\ Number[f] \notin FactorySlots =>
             \E v \in 1..format[f] : TextsPlaced(memory[<<"LAB", Number[f]>>], Layout[f][v])
    /\ TextsInTheirBoxes' <=>
         \A f \in Formats : memory'[<<"LAB", Number[f]>>] # Nulo /\ Number[f] \notin FactorySlots =>
             \E v \in 1..format'[f] : TextsPlaced(memory'[<<"LAB", Number[f]>>], Layout[f][v])
  BY DEF StripsFit, TextsInTheirBoxes, DrawnWhole, TextsPlaced

\* The bitmap of a product is drawn whole.
LEMMA BitmapDrawn ==
    ASSUME NEW p, Selos(p) \in Seq(DOMAIN Palavras), CaixaDosSelos(p) \in Nat \X Nat, NEW id
    PROVE  DrawnWhole(BmpRow(id, p))
<1> DEFINE D == DOMAIN Palavras
           selos == OrdenarSelos(Selos(p))
           caixa == CaixaDosSelos(p)
           rotulos == [i \in DOMAIN selos |-> Palavras[selos[i]]]
           l == 8 * caixa[1]
           a == 8 * caixa[2]
           s == FaixaSelos(rotulos, l, a)
           bmp == BmpRow(id, p)
           n == Len(selos)
<1>1. /\ bmp.selos = selos /\ bmp.largura = l /\ bmp.altura = a /\ bmp.faixa = s
  BY Zenon DEF BmpRow
<1>2. l \in Nat /\ a \in Nat
  <2> HIDE DEF caixa
  <2>1. caixa[1] \in Nat /\ caixa[2] \in Nat
    BY DEF caixa
  <2>2. QED
    BY <2>1
<1>3. \A w \in D : /\ Palavras[w] \in Seq(Nat)
                   /\ Oficial(w) => Len(Palavras[w]) \in 1..2 /\ \A i \in DOMAIN Palavras[w] : Palavras[w][i] <= 10
  BY WordsAssumption
<1>4. selos \in Seq(D)
  <2> DEFINE t == Selos(p)
  <2> HIDE DEF t, D
  <2>1. t \in Seq(D)
    BY DEF t, D
  <2>2. OrdenarSelos(t) \in Seq(D)
    BY <2>1, SealsOrdered
  <2>3. QED
    BY <2>2 DEF t
<1> HIDE DEF selos, l, a, bmp, D
<1>5. n \in Nat /\ DOMAIN selos = 1..n /\ \A i \in 1..n : selos[i] \in D
  BY <1>4
<1> HIDE DEF n
<1>6. rotulos \in Seq(Seq(Nat)) /\ DOMAIN rotulos = 1..n /\ \A i \in 1..n : rotulos[i] = Palavras[selos[i]]
  <2>1. rotulos \in [1..n -> Seq(Nat)]
    BY <1>3, <1>5
  <2>2. DOMAIN rotulos = 1..n /\ \A i \in 1..n : rotulos[i] = Palavras[selos[i]]
    BY <1>5
  <2> HIDE DEF rotulos
  <2> DEFINE T == Seq(Nat)
  <2>3. rotulos \in [1..n -> T]
    BY <2>1
  <2> HIDE DEF T
  <2>4. rotulos \in Seq(T)
    BY <1>5, <2>3, ListIsSeq
  <2>5. QED
    BY <2>2, <2>4 DEF T
<1> HIDE DEF rotulos, s
<1>7. ASSUME s.escala > 0
      PROVE  /\ s.x0 >= 0 /\ s.x0 + s.total <= l
             /\ s.y0 >= 0 /\ s.y0 + AlturaBorda(s.escala) <= a
             /\ \A r \in DOMAIN s.linhas : Oficial(selos[r]) =>
                   \A i \in DOMAIN s.linhas[r] : LarguraTexto(s.linhas[r][i], s.escala) <= s.modulo
  <2>1. s = FaixaSelos(rotulos, l, a)
    BY DEF s
  <2>2. WholeStrip(s, rotulos, l, a)
    BY <1>2, <1>6, <1>7, <2>1, StripDrawn
  <2>3. ASSUME NEW r \in DOMAIN s.linhas, Oficial(selos[r])
        PROVE  \A i \in DOMAIN s.linhas[r] : LarguraTexto(s.linhas[r][i], s.escala) <= s.modulo
    <3>1. r \in 1..n /\ r \in DOMAIN rotulos
      BY <1>6, <2>2 DEF WholeStrip
    <3> DEFINE w == selos[r]
    <3>2. w \in D /\ Oficial(w) /\ rotulos[r] = Palavras[w]
      BY <1>5, <1>6, <2>3, <3>1
    <3> HIDE DEF w
    <3>3. Len(Palavras[w]) \in 1..2 /\ \A j \in DOMAIN Palavras[w] : Palavras[w][j] <= 10
      BY <1>3, <3>2
    <3>4. Len(rotulos[r]) \in 1..2 /\ \A j \in DOMAIN rotulos[r] : rotulos[r][j] <= 10
      BY <3>2, <3>3
    <3>5. QED
      BY <2>2, <3>1, <3>4 DEF WholeStrip
  <2>4. QED
    BY <2>2, <2>3 DEF WholeStrip
<1>8. QED
  BY <1>1, <1>7 DEF DrawnWhole, bmp

\* What a job has read of a product has seals that are known and a box for them.
LEMMA SealsSent ==
    ASSUME NEW r \in ProductRead,
           FormatOf[r.id] # Nulo => FormatOf[r.id] \in Formats /\ r.fv \in 1..(MaxEvents + 1)
    PROVE  /\ Selos(ProductPayload(r)) \in Seq(DOMAIN Palavras)
           /\ CaixaDosSelos(ProductPayload(r)) \in Nat \X Nat
<1> DEFINE p == ProductPayload(r)
           f == FormatOf[r.id]
           t == TableOf[r.id]
           els == Layout[f][r.fv]
<1>1. r.id \in Products
  BY DEF ProductRead
<1>2. /\ f # Nulo => /\ Len(els) \in Nat /\ DOMAIN els = 1..Len(els)
                     /\ \A i \in DOMAIN els : els[i].caixa \in Nat \X Nat
      /\ t # Nulo => Table[t].selos \in Seq(DOMAIN Palavras)
  BY <1>1, LayoutAssumption
<1>3. Selos(p) \in Seq(DOMAIN Palavras)
  <2>1. p.tabela = IF t = Nulo THEN Nulo ELSE Table[t]
    BY DEF ProductPayload
  <2> HIDE DEF p
  <2>2. << >> \in Seq(DOMAIN Palavras)
    OBVIOUS
  <2>3. CASE t = Nulo
    BY <2>1, <2>2, <2>3 DEF Selos
  <2>4. CASE t # Nulo
    BY <1>2, <2>1, <2>2, <2>4 DEF Selos
  <2>5. QED
    BY <2>3, <2>4
<1>4. CaixaDosSelos(p) \in Nat \X Nat
  <2>1. /\ f = Nulo => p.formato = Nulo
        /\ f # Nulo => p.formato = FormatPayload(f, r.fv)
    BY FormatSent
  <2>2. FormatPayload(f, r.fv).elementos = els
    BY DEF FormatPayload
  <2> DEFINE E == {i \in DOMAIN p.formato.elementos : p.formato.elementos[i].tipo = "selos"}
             caixas == IF p.formato = Nulo THEN {} ELSE E
             primeira == CHOOSE i \in caixas : \A j \in caixas : i <= j
  <2>3. CaixaDosSelos(p) = IF caixas = {} THEN <<56, 8>> ELSE p.formato.elementos[primeira].caixa
    BY Zenon DEF CaixaDosSelos
  <2>4. CASE caixas = {}
    <3>1. CaixaDosSelos(p) = <<56, 8>>
      BY <2>3, <2>4
    <3>2. QED
      BY <3>1
  <2>5. CASE caixas # {}
    <3>1. f # Nulo /\ p.formato # Nulo
      BY <2>1, <2>5
    <3>2. p.formato.elementos = els
      BY <2>1, <2>2, <3>1
    <3> HIDE DEF p, els
    <3>3. caixas \subseteq DOMAIN els /\ DOMAIN els = 1..Len(els) /\ Len(els) \in Nat
      BY <1>2, <3>1, <3>2
    <3> HIDE DEF caixas
    <3>4. primeira \in caixas
      <4>1. \E i \in caixas : \A j \in caixas : i <= j
        BY <2>5, <3>3, FirstOf
      <4>2. QED
        BY <4>1
    <3> HIDE DEF primeira
    <3>5. els[primeira].caixa \in Nat \X Nat
      BY <1>2, <3>1, <3>3, <3>4
    <3>6. QED
      BY <2>3, <2>5, <3>2, <3>5 DEF p
  <2>6. QED
    BY <2>4, <2>5
<1>5. QED
  BY <1>3, <1>4

\* A label row has its texts in their boxes.
LEMMA LabelPlaced ==
    ASSUME NEW els, Len(els) \in Nat, DOMAIN els = 1..Len(els), NEW numero, NEW nome, NEW b
    PROVE  TextsPlaced(LabRow([numero |-> numero, nome |-> nome, elementos |-> els], b), els)
<1> DEFINE n == Len(els)
           lab == LabRow([numero |-> numero, nome |-> nome, elementos |-> els], b)
           C == ComSlot(els)
           donos == Crescente(C)
<1>1. n \in Nat /\ DOMAIN els = 1..n
  OBVIOUS
<1>2. lab.textos = Textos(els) /\ lab.itens = [i \in DOMAIN els |-> Flags(els, i, b)]
  BY DEF LabRow
<1> HIDE DEF n, lab
<1>3. DOMAIN lab.itens = 1..n /\ \A i \in 1..n : lab.itens[i] = Flags(els, i, b)
  BY <1>1, <1>2
<1>4. C \subseteq 1..n
  BY <1>1 DEF ComSlot
<1>5. ASSUME NEW i \in C
      PROVE  /\ lab.itens[i][1] = 3
             /\ lab.itens[i][2] + 1 \in DOMAIN lab.textos
             /\ lab.textos[lab.itens[i][2] + 1] = els[i].texto
  <2> DEFINE A == {j \in C : j < i}
             k == Cardinality({j \in C : j <= i})
  <2>1. k = SlotDe(els, i) + 1
    <3>1. IsFiniteSet(A)
      <4>1. IsFiniteSet(1..n)
        BY <1>1, FS_Interval
      <4>2. A \subseteq 1..n
        BY <1>4
      <4> HIDE DEF A
      <4>3. QED
        BY <4>1, <4>2, FS_Subset
    <3>2. i \notin A
      BY <1>1, <1>4
    <3>3. {j \in C : j <= i} = A \cup {i}
      BY <1>1, <1>4
    <3>4. SlotDe(els, i) = Cardinality(A)
      BY DEF SlotDe
    <3> HIDE DEF A, C
    <3>5. Cardinality(A \cup {i}) = Cardinality(A) + 1
      BY <3>1, <3>2, FS_AddElement
    <3>6. QED
      BY <3>3, <3>4, <3>5
  <2>2. k \in DOMAIN donos /\ donos[k] = i
    BY <1>1, <1>4, CrescenteLists
  <2>3. DOMAIN Textos(els) = DOMAIN donos /\ \A l \in DOMAIN donos : Textos(els)[l] = els[donos[l]].texto
    BY DEF Textos
  <2>4. lab.itens[i] = <<3, SlotDe(els, i), 0>>
    BY <1>3, <1>4 DEF Flags
  <2> HIDE DEF k, donos, C
  <2>5. lab.itens[i][1] = 3 /\ lab.itens[i][2] = SlotDe(els, i)
    BY <2>4
  <2>6. QED
    BY <1>2, <2>1, <2>2, <2>3, <2>5
<1>6. ASSUME NEW i \in 1..n, els[i].tipo = "texto", els[i].texto # EmBrancoTxt, i \notin C
      PROVE  Cardinality({k \in 1..(i - 1) : TemTexto(els[k])}) >= MaxTextos
  <2> DEFINE A == {k \in 1..(i - 1) : TemTexto(els[k])}
  <2>1. IsFiniteSet(A)
    <3>1. A \subseteq 1..(i - 1)
      OBVIOUS
    <3>2. 1 \in Int /\ i - 1 \in Int
      BY <1>1
    <3> DEFINE u == i - 1
    <3> HIDE DEF A, u
    <3>3. IsFiniteSet(1..u)
      BY <3>2, FS_Interval DEF u
    <3>4. QED
      BY <3>1, <3>3, FS_Subset DEF u
  <2>2. TemTexto(els[i])
    BY <1>6 DEF TemTexto
  <2>3. ~(Cardinality(A) < MaxTextos)
    BY <1>1, <1>6, <2>2 DEF ComSlot
  <2> DEFINE c == Cardinality(A)
  <2>4. c \in Nat /\ MaxTextos \in Nat
    <3> HIDE DEF A
    <3>1. QED
      BY <2>1, FS_CardinalityType, EncodingAssumption
  <2> HIDE DEF c
  <2>5. c >= MaxTextos
    BY <2>3, <2>4 DEF c
  <2>6. QED
    BY <2>5 DEF c
<1>7. QED
  BY <1>1, <1>3, <1>5, <1>6 DEF TextsPlaced, lab

\* A bitmap of a package is that of one of its products.
LEMMA BitmapsListed ==
    ASSUME NEW m \in Nat, NEW ps, DOMAIN ps = 1..m, NEW r \in Rows(BlocoBmp(ps))
    PROVE  \E i \in 1..m : \E id : r = BmpRow(id, ps[i])
<1> DEFINE chave(p) == IF Selos(p) = << >> THEN Nulo ELSE BmpDoProduto(ps, p)
           S == {i \in DOMAIN ps : chave(ps[i]) # Nulo
                                    /\ \A j \in 1..(i - 1) : chave(ps[j]) # chave(ps[i])}
           usos == Crescente(S)
           bmp == BlocoBmp(ps)
<1>1. S \subseteq 1..m
  OBVIOUS
<1>2. bmp = [l \in DOMAIN usos |-> BmpRow(chave(ps[usos[l]]), ps[usos[l]])]
  BY Zenon DEF BlocoBmp, PrimeirosUsos
<1>3. \A l \in DOMAIN usos : usos[l] \in S
  <2> HIDE DEF S
  <2>1. QED
    BY <1>1, CrescenteLists
<1> HIDE DEF S, usos, chave, bmp
<1>4. PICK l \in DOMAIN bmp : r = bmp[l]
  BY DEF Rows, bmp
<1>5. l \in DOMAIN usos /\ r = BmpRow(chave(ps[usos[l]]), ps[usos[l]])
  BY <1>2, <1>4
<1>6. usos[l] \in 1..m
  BY <1>1, <1>3, <1>5
<1>7. QED
  BY <1>5, <1>6

\* What a label or a bitmap of a package is, wherever the package is cut.
LEMMA PrintedRows ==
    ASSUME format \in [Formats -> 1..(MaxEvents + 1)], NEW job, PackageFits(job), ReadOnce(job),
           NEW r \in Rows(Body(job))
    PROVE  /\ r.bloco = "BMP" => DrawnWhole(r)
           /\ r.bloco = "LAB" => r # Nulo /\ \E f \in Formats :
                 /\ r.numero = Number[f]
                 /\ \E v \in 1..format[f] : TextsPlaced(r, Layout[f][v])
<1> DEFINE ps == Package(job).products
           fs == Package(job).loose
           m == Len(job.read)
           k == Len(job.loose)
           body == Body(job)
<1>1. /\ m \in Nat /\ DOMAIN job.read = 1..m /\ DOMAIN ps = 1..m
      /\ k \in Nat /\ DOMAIN job.loose = 1..k /\ DOMAIN fs = 1..k
      /\ \A l \in 1..m : job.read[l] \in ProductRead /\ ps[l] = ProductPayload(job.read[l])
      /\ \A l \in 1..k : /\ job.loose[l] \in FormatRead
                         /\ fs[l] = FormatPayload(job.loose[l].id, job.loose[l].versao)
      /\ body = BuildSyncBody(ps, fs)
  BY PackageOf
<1>2. /\ \A l \in 1..m : FormatOf[job.read[l].id] # Nulo =>
              FormatOf[job.read[l].id] \in Formats /\ job.read[l].fv \in 1..(MaxEvents + 1)
      /\ \A l \in 1..k : job.loose[l].id \in Formats /\ job.loose[l].versao \in 1..(MaxEvents + 1)
  BY <1>1, VersionsThereAre
\* ReadOnce bounds the versions by those there are now.
<1>3. /\ \A l \in 1..m : FormatOf[job.read[l].id] # Nulo => job.read[l].fv \in 1..format[FormatOf[job.read[l].id]]
      /\ \A l \in 1..k : job.loose[l].versao \in 1..format[job.loose[l].id]
  BY <1>1 DEF ReadOnce
<1> HIDE DEF ps, fs, m, k, body
<1>4. Rows(body) = Rows(BlocoBmp(ps)) \cup Rows(BlocoCls(ps)) \cup Rows(BlocoPlu(ps))
                   \cup Rows(BlocoNu3(ps)) \cup Rows(BlocoIr2(ps)) \cup Rows(BlocoLab(ps, fs))
  BY <1>1, BodyIsItsBlocks
<1>5. /\ \A x \in Rows(BlocoBmp(ps)) : x.bloco = "BMP"
      /\ \A x \in Rows(BlocoCls(ps)) : x.bloco = "CLS"
      /\ \A x \in Rows(BlocoPlu(ps)) : x.bloco = "PLU"
      /\ \A x \in Rows(BlocoNu3(ps)) : x.bloco = "NU3"
      /\ \A x \in Rows(BlocoIr2(ps)) : x.bloco = "IR2"
      /\ \A x \in Rows(BlocoLab(ps, fs)) : x.bloco = "LAB"
  <2>1. /\ IsBlock(BlocoBmp(ps), "BMP") /\ IsBlock(BlocoCls(ps), "CLS")
        /\ IsBlock(BlocoNu3(ps), "NU3") /\ IsBlock(BlocoIr2(ps), "IR2")
        /\ IsBlock(BlocoLab(ps, fs), "LAB")
    BY <1>1, Blocks
  <2>2. \A x \in Rows(BlocoPlu(ps)) : x.bloco = "PLU"
    BY DEF Rows, BlocoPlu, PluRow
  <2>3. QED
    BY <2>1, <2>2 DEF IsBlock
<1>6. r \in Rows(body)
  BY DEF body
<1>7. ASSUME r.bloco = "BMP" PROVE DrawnWhole(r)
  <2>1. r \in Rows(BlocoBmp(ps))
    BY <1>4, <1>5, <1>6, <1>7
  <2>2. PICK i \in 1..m : \E id : r = BmpRow(id, ps[i])
    <3>1. m \in Nat /\ DOMAIN ps = 1..m
      BY <1>1
    <3>2. QED
      BY <2>1, <3>1, BitmapsListed, Zenon
  <2> DEFINE read == job.read[i]
  <2>3. /\ read \in ProductRead /\ ps[i] = ProductPayload(read)
        /\ FormatOf[read.id] # Nulo => FormatOf[read.id] \in Formats /\ read.fv \in 1..(MaxEvents + 1)
    BY <1>1, <1>2
  <2> HIDE DEF read
  <2>4. Selos(ps[i]) \in Seq(DOMAIN Palavras) /\ CaixaDosSelos(ps[i]) \in Nat \X Nat
    BY <2>3, SealsSent
  <2>5. QED
    BY <2>2, <2>4, BitmapDrawn
\* A layout of the store in a row for its number.
<1>8. ASSUME NEW f \in Formats, NEW v \in 1..(MaxEvents + 1), v \in 1..format[f],
             NEW b \in 0..BmpMax \cup {Nulo}, r = LabRow(FormatPayload(f, v), b)
      PROVE  /\ r # Nulo /\ r.numero = Number[f]
             /\ \E w \in 1..format[f] : TextsPlaced(r, Layout[f][w])
  <2> DEFINE els == Layout[f][v]
  <2>1. Len(els) \in Nat /\ DOMAIN els = 1..Len(els)
    BY LayoutAssumption
  <2>2. FormatPayload(f, v) = [numero |-> Number[f], nome |-> Name[f][v], elementos |-> els]
    BY DEF FormatPayload
  <2> HIDE DEF els
  <2>3. TextsPlaced(LabRow([numero |-> Number[f], nome |-> Name[f][v], elementos |-> els], b), els)
    BY <2>1, LabelPlaced
  <2>4. TextsPlaced(r, els)
    BY <1>8, <2>2, <2>3
  <2>5. r.numero = Number[f]
    BY <1>8, <2>2 DEF LabRow
  <2>6. r # Nulo
    BY <1>8, RowsAssumption
  <2>7. QED
    BY <1>8, <2>4, <2>5, <2>6 DEF els
<1>9. ASSUME r.bloco = "LAB"
      PROVE  r # Nulo /\ \E f \in Formats : r.numero = Number[f] /\ \E v \in 1..format[f] : TextsPlaced(r, Layout[f][v])
  <2>1. r \in Rows(BlocoLab(ps, fs))
    BY <1>4, <1>5, <1>6, <1>9
  <2>2. \/ \E i \in FirstUses(ps) : r = LabRow(ps[i].formato, BmpDoFormato(ps, ps[i].formato.numero))
        \/ \E i \in OnlyLoose(ps, fs) : r = LabRow(fs[i], Nulo)
    BY <1>1, <2>1, LabListed
  <2>3. CASE \E i \in FirstUses(ps) : r = LabRow(ps[i].formato, BmpDoFormato(ps, ps[i].formato.numero))
    <3>1. PICK i \in FirstUses(ps) : r = LabRow(ps[i].formato, BmpDoFormato(ps, ps[i].formato.numero))
      BY <2>3
    <3>2. i \in 1..m /\ ChaveFormato(ps[i]) # Nulo
      BY <1>1 DEF FirstUses
    <3> DEFINE f == FormatOf[job.read[i].id]
               v == job.read[i].fv
    <3>3. f # Nulo
      BY <1>1, <3>2, FormatSent
    <3>4. ps[i].formato = FormatPayload(f, v)
      BY <1>1, <3>2, <3>3, FormatSent
    <3>5. f \in Formats /\ v \in 1..(MaxEvents + 1) /\ v \in 1..format[f]
      BY <1>2, <1>3, <3>2, <3>3
    <3> HIDE DEF f, v
    <3> DEFINE b == BmpDoFormato(ps, ps[i].formato.numero)
    <3>6. b \in 0..BmpMax \cup {Nulo} /\ r = LabRow(FormatPayload(f, v), b)
      BY <1>1, <3>1, <3>4, BitmapsInRange
    <3> HIDE DEF b
    <3>7. QED
      BY <1>8, <3>5, <3>6
  <2>4. CASE \E i \in OnlyLoose(ps, fs) : r = LabRow(fs[i], Nulo)
    <3>1. PICK i \in OnlyLoose(ps, fs) : r = LabRow(fs[i], Nulo)
      BY <2>4
    <3>2. i \in 1..k
      BY <1>1 DEF OnlyLoose
    <3> DEFINE f == job.loose[i].id
               v == job.loose[i].versao
    <3>3. fs[i] = FormatPayload(f, v) /\ f \in Formats /\ v \in 1..(MaxEvents + 1) /\ v \in 1..format[f]
      BY <1>1, <1>2, <1>3, <3>2
    <3> HIDE DEF f, v
    <3>4. QED
      BY <1>8, <3>1, <3>3
  <2>5. QED
    BY <2>2, <2>3, <2>4
<1>10. QED
  BY <1>7, <1>9

\* What some rows of a package leave: one of them, or what was there.
LEMMA CutWritten ==
    ASSUME NEW job, PackageFits(job), NEW mem, NEW n \in Nat, NEW q \in Nat, n <= q, q <= Len(Body(job)),
           NEW a \in Address, ~(a[1] = "LAB" /\ a[2] \in FactorySlots)
    PROVE  \/ \E r \in Rows(Body(job)) : /\ <<r.bloco, r.numero>> = a
                                         /\ Written(mem, SubSeq(Body(job), n + 1, q))[a] = r
           \/ Written(mem, SubSeq(Body(job), n + 1, q))[a] = mem[a]
<1> DEFINE body == Body(job)
           cut == SubSeq(body, n + 1, q)
           d == q - n
<1>1. /\ Len(body) \in Nat /\ d \in Nat /\ DOMAIN cut = 1..d
      /\ \A i \in 1..d : n + i \in 1..Len(body) /\ cut[i] = body[n + i]
  BY PackageRows
<1>2. body \in Seq(Rows(body))
  BY PackageOf, BodyIsItsBlocks
<1> HIDE DEF body
<1>3. DOMAIN body = 1..Len(body)
  BY <1>2
<1>4. cut = [i \in 1..d |-> cut[i]]
  <2> DEFINE T == Rows(body)
             l == Len(body)
  <2>1. body \in Seq(T) /\ l \in Nat /\ q <= l /\ \A i \in (n + 1)..q : i \in 1..l
    BY <1>1, <1>2 DEF body
  <2> HIDE DEF T, l
  <2>2. cut \in Seq(T)
    BY <2>1 DEF l
  <2>3. cut = [i \in DOMAIN cut |-> cut[i]]
    BY <2>2
  <2>4. QED
    BY <1>1, <2>3
<1> HIDE DEF cut, d
<1>5. \A i \in 1..d : cut[i] \in Rows(cut) /\ cut[i] \in Rows(body)
  BY <1>1, <1>3 DEF Rows
<1>6. Rows(cut) \subseteq Rows(body)
  BY <1>1, <1>5 DEF Rows
<1>7. cut \in Seq(Rows(cut))
  <2> DEFINE R == Rows(cut)
  <2>1. cut \in [1..d -> R]
    BY <1>4, <1>5
  <2> HIDE DEF R
  <2>2. cut \in Seq(R)
    BY <1>1, <2>1, ListIsSeq
  <2>3. QED
    BY <2>2 DEF R
<1>8. \/ \E r \in Rows(cut) : <<r.bloco, r.numero>> = a /\ Written(mem, cut)[a] = r
      \/ Written(mem, cut)[a] = mem[a]
  BY <1>7, WholeWritten
<1>9. QED
  BY <1>6, <1>8 DEF cut, body

LEMMA RowsKeepLabels ==
    ASSUME LabelsPrintWhole, format \in [Formats -> 1..(MaxEvents + 1)], UNCHANGED format,
           NEW job, PackageFits(job), ReadOnce(job),
           NEW n \in Nat, NEW q \in Nat, n <= q, q <= Len(Body(job)),
           memory' = Written(memory, SubSeq(Body(job), n + 1, q))
    PROVE  LabelsPrintWhole'
<1> DEFINE body == Body(job)
<1>5. ASSUME NEW a \in Address, ~(a[1] = "LAB" /\ a[2] \in FactorySlots), memory'[a] # memory[a]
      PROVE  \E r \in Rows(body) : <<r.bloco, r.numero>> = a /\ memory'[a] = r
  <2> DEFINE rows == SubSeq(body, n + 1, q)
  <2>1. \/ \E r \in Rows(body) : <<r.bloco, r.numero>> = a /\ Written(memory, rows)[a] = r
        \/ Written(memory, rows)[a] = memory[a]
    BY <1>5, CutWritten
  <2>2. memory' = Written(memory, rows)
    OBVIOUS
  <2> HIDE DEF rows, body
  <2>3. QED
    BY <1>5, <2>1, <2>2
<1> HIDE DEF body
<1>6. StripsFit /\ TextsInTheirBoxes
  BY DEF LabelsPrintWhole
<1>7. ASSUME NEW i \in 1..BmpMax, memory'[<<"BMP", i>>] # Nulo PROVE DrawnWhole(memory'[<<"BMP", i>>])
  <2> DEFINE a == <<"BMP", i>>
  <2>1. a \in Address /\ a[1] = "BMP" /\ a[2] = i
    BY DEF Address
  <2>2. CASE memory'[a] = memory[a]
    BY <1>6, <1>7, <2>2, PrintsWhole
  <2>3. CASE memory'[a] # memory[a]
    <3> HIDE DEF a
    <3>1. PICK r \in Rows(body) : <<r.bloco, r.numero>> = a /\ memory'[a] = r
      BY <1>5, <2>1, <2>3
    <3>2. r.bloco = "BMP"
      BY <2>1, <3>1
    <3>3. DrawnWhole(r)
      BY <3>2, PrintedRows DEF body
    <3>4. QED
      BY <3>1, <3>3 DEF a
  <2>4. QED
    BY <2>2, <2>3
<1>8. ASSUME NEW f \in Formats, memory'[<<"LAB", Number[f]>>] # Nulo, Number[f] \notin FactorySlots
      PROVE  \E v \in 1..format'[f] : TextsPlaced(memory'[<<"LAB", Number[f]>>], Layout[f][v])
  <2> DEFINE a == <<"LAB", Number[f]>>
  <2>1. a \in Address /\ a[1] = "LAB" /\ a[2] = Number[f]
    BY DEF Address
  <2>2. CASE memory'[a] = memory[a]
    BY <1>6, <1>8, <2>2, PrintsWhole
  <2>3. CASE memory'[a] # memory[a]
    <3> HIDE DEF a
    <3>1. PICK r \in Rows(body) : <<r.bloco, r.numero>> = a /\ memory'[a] = r
      BY <1>5, <1>8, <2>1, <2>3
    <3>2. r.bloco = "LAB" /\ r.numero = Number[f]
      BY <2>1, <3>1
    <3>3. PICK g \in Formats : r.numero = Number[g] /\ \E v \in 1..format[g] : TextsPlaced(r, Layout[g][v])
      BY <3>2, PrintedRows DEF body
    <3>4. g = f
      BY <3>2, <3>3, RowsAssumption
    <3>5. QED
      BY <3>1, <3>3, <3>4 DEF a
  <2>4. QED
    BY <2>2, <2>3
<1>9. QED
  BY <1>7, <1>8, PrintsWhole DEF LabelsPrintWhole

\* What reaches the scale in a step: rows of one package, one after the other.
Arriving(job, n, q) ==
    /\ PackageFits(job) /\ ReadOnce(job)
    /\ n \in Nat /\ q \in Nat /\ n <= q /\ q <= Len(Body(job))
    /\ memory' = Written(memory, SubSeq(Body(job), n + 1, q))
    /\ OverBy(SubSeq(Body(job), n + 1, q))
    /\ UNCHANGED format

LEMMA WriteArrives ==
    ASSUME IInv, ReadsOnce, NEW j \in 1..MaxJobs, Write(j)
    PROVE  Arriving(jobs[j], 0, Len(Body(jobs[j])))
<1> DEFINE job == jobs[j]
           body == Body(job)
           c == Len(body)
<1>1. jobs[j] # Nulo /\ memory' = Written(memory, body) /\ OverBy(body) /\ UNCHANGED format
  BY DEF Write, Take
<1>2. PackageFits(job) /\ ReadOnce(job)
  BY <1>1, Facts, JobFits DEF ReadsOnce
<1>3. SubSeq(body, 0 + 1, c) = body /\ c \in Nat
  BY <1>2, WholePackage
<1> HIDE DEF body
<1>4. 0 \in Nat /\ 0 <= c /\ c <= c
  BY <1>3
<1>5. QED
  BY <1>1, <1>2, <1>3, <1>4 DEF Arriving, body

LEMMA LostArrives ==
    ASSUME IInv, ReadsOnce, NEW j \in 1..MaxJobs, LoseWrite(j)
    PROVE  \E q : Arriving(jobs[j], 0, q)
<1> DEFINE job == jobs[j]
           body == Body(job)
           c == Len(body)
<1>1. jobs[j] # Nulo /\ UNCHANGED format
  BY DEF LoseWrite
<1>2. PackageFits(job) /\ ReadOnce(job)
  BY <1>1, Facts, JobFits DEF ReadsOnce
<1>3. c \in Nat
  BY <1>2, WholePackage
<1>4. \E q \in 0..c : memory' = Written(memory, SubSeq(body, 1, q)) /\ OverBy(SubSeq(body, 1, q))
  BY DEF LoseWrite, Take
<1> HIDE DEF body, c
<1>5. PICK q \in 0..c : memory' = Written(memory, SubSeq(body, 1, q)) /\ OverBy(SubSeq(body, 1, q))
  BY <1>4
<1>6. 0 \in Nat /\ q \in Nat /\ 0 <= q /\ q <= c /\ 0 + 1 = 1
  BY <1>3, <1>5
<1>7. Arriving(job, 0, q)
  BY <1>1, <1>2, <1>5, <1>6 DEF Arriving, body, c
<1>8. QED
  BY <1>7

LEMMA LateArrives ==
    ASSUME IInv, ReadsOnce, NEW rest \in adrift, LandsLate(rest)
    PROVE  \E n, q : Arriving(rest, n, q)
<1> DEFINE body == Body(rest)
           c == Len(body)
           n == rest.came
<1>1. /\ PackageFits(rest) /\ ReadOnce(rest) /\ rest.body = body /\ n \in 0..Len(rest.body)
      /\ UNCHANGED format
  BY DEF IInv, RestsFit, ReadsOnce, LandsLate
<1>2. c \in Nat
  BY <1>1, WholePackage
<1>3. \E q \in (n + 1)..c : memory' = Written(memory, SubSeq(body, n + 1, q)) /\ OverBy(SubSeq(body, n + 1, q))
  BY <1>1 DEF LandsLate, Take
<1> HIDE DEF body, c
<1>4. PICK q \in (n + 1)..c : memory' = Written(memory, SubSeq(body, n + 1, q)) /\ OverBy(SubSeq(body, n + 1, q))
  BY <1>3
<1>5. n \in 0..c
  BY <1>1 DEF c
<1> HIDE DEF n
<1>6. n \in Nat /\ q \in Nat /\ n <= q /\ q <= c
  BY <1>2, <1>4, <1>5
<1>7. Arriving(rest, n, q)
  BY <1>1, <1>4, <1>6 DEF Arriving, body, c
<1>8. QED
  BY <1>7

LEMMA LabelsStart == Init => LabelsPrintWhole
<1> SUFFICES ASSUME Init PROVE LabelsPrintWhole
  OBVIOUS
<1>1. ASSUME NEW a \in Address, ~(a[1] = "LAB" /\ a[2] \in FactorySlots) PROVE memory[a] = Nulo
  BY <1>1 DEF Init
<1>2. ASSUME NEW i \in 1..BmpMax PROVE memory[<<"BMP", i>>] = Nulo
  <2> DEFINE a == <<"BMP", i>>
  <2>1. a \in Address /\ a[1] = "BMP"
    BY DEF Address
  <2> HIDE DEF a
  <2>2. memory[a] = Nulo
    BY <1>1, <2>1
  <2>3. QED
    BY <2>2 DEF a
<1>3. ASSUME NEW f \in Formats, Number[f] \notin FactorySlots PROVE memory[<<"LAB", Number[f]>>] = Nulo
  <2> DEFINE a == <<"LAB", Number[f]>>
  <2>1. a \in Address /\ a[2] = Number[f]
    BY DEF Address
  <2> HIDE DEF a
  <2>2. memory[a] = Nulo
    BY <1>1, <1>3, <2>1
  <2>3. QED
    BY <2>2 DEF a
<1>4. QED
  BY <1>2, <1>3, PrintsWhole DEF LabelsPrintWhole

LEMMA LabelsStay == IInv /\ ReadsOnce /\ LabelsPrintWhole /\ [Next]_vars => LabelsPrintWhole'
<1> SUFFICES ASSUME IInv, ReadsOnce, LabelsPrintWhole, [Next]_vars PROVE LabelsPrintWhole'
  OBVIOUS
<1>1. ASSUME \/ \E j \in 1..MaxJobs : Write(j) \/ LoseWrite(j)
             \/ \E rest \in adrift : LandsLate(rest)
      PROVE  LabelsPrintWhole'
  <2>1. format \in [Formats -> 1..(MaxEvents + 1)]
    BY Facts
  <2>2. \E job, n, q : Arriving(job, n, q)
    BY <1>1, WriteArrives, LostArrives, LateArrives
  <2>3. QED
    BY <2>1, <2>2, RowsKeepLabels DEF Arriving
\* Any other step leaves the scale alone; the versions there were are still some.
<1>2. ASSUME UNCHANGED memory PROVE LabelsPrintWhole'
  <2>1. \A f \in Formats : 1..format[f] \subseteq 1..format'[f]
    <3>1. ASSUME NEW f \in Formats PROVE 1..format[f] \subseteq 1..format'[f]
      <4> DEFINE v == format[f]
                 w == format'[f]
      <4>1. v \in Nat /\ w \in Nat /\ v <= w
        BY FormatsGrow
      <4> HIDE DEF v, w
      <4>2. 1..v \subseteq 1..w
        BY <4>1
      <4>3. QED
        BY <4>2 DEF v, w
    <3>2. QED
      BY <3>1
  <2>2. StripsFit /\ TextsInTheirBoxes
    BY DEF LabelsPrintWhole
  <2>3. StripsFit'
    BY <1>2, <2>2, PrintsWhole
  <2>4. TextsInTheirBoxes'
    BY <1>2, <2>1, <2>2, PrintsWhole
  <2>5. QED
    BY <2>3, <2>4 DEF LabelsPrintWhole
<1>3. QED
  BY <1>1, <1>2 DEF Next, vars, SaveProduct, DeleteProducts, SaveFormat, Enqueue, LoseRequest, AskSync, Link,
                    ReadProducts, OpenJob, ReadBack, LoseResult, EndJob

\* Every label the system wrote prints whole, whatever was saved, renamed, deleted or sent
\* in between and wherever a write was cut: the texts in the boxes the layout has for them
\* (buildLabelBlock), the strip of seals inside its bitmap and the official texts inside
\* their modules (selos-bitmap.ts).  It holds for layouts and tables of any size, and for
\* labels of any words.
THEOREM LabelTheorem == Spec => []LabelsPrintWhole
<1>1. CauseInv => ReadsOnce
  BY DEF CauseInv
<1>2. QED
  BY <1>1, LabelsStart, LabelsStay, Invariant, CauseInvariant, PTL DEF Spec

-----------------------------------------------------------------------------
(* What a success is worth.                                                 *)

\* What a package says of a product's table.
LEMMA TableSent ==
    ASSUME NEW r \in ProductRead
    PROVE  LET p == ProductPayload(r) IN
           /\ p.tabela = Nulo => Selos(p) = << >> /\ ChaveTabela(p) = Nulo
           /\ p.tabela # Nulo => /\ p.tabela \in {Table[t] : t \in DOMAIN Table}
                                 /\ Selos(p) = p.tabela.selos
                                 /\ ChaveTabela(p) = p.tabela.numero
<1> DEFINE p == ProductPayload(r)
<1>1. p.tabela = IF TableOf[r.id] = Nulo THEN Nulo ELSE Table[TableOf[r.id]]
  BY DEF ProductPayload
<1>2. r.id \in Products /\ (TableOf[r.id] # Nulo => TableOf[r.id] \in DOMAIN Table)
  BY TablesAssumption DEF ProductRead
<1> HIDE DEF p
<1>3. p.tabela # Nulo => p.tabela \in {Table[t] : t \in DOMAIN Table}
  BY <1>1, <1>2
<1>4. QED
  BY <1>3 DEF Selos, ChaveTabela, NumeroDe, p

\* The tables of the store are told apart by their numbers.
LEMMA TablesApart ==
    \A s, t \in {Table[u] : u \in DOMAIN Table} :
        /\ s.numero = t.numero => s = t
        /\ s.numero \in Int /\ s.numero # Nulo /\ s.numero \in TableNumbers
        /\ s # Nulo /\ Nu3Row(s) # Nulo /\ Ir2Row(s) # Nulo
  BY TablesAssumption, EncodingAssumption DEF TableNumbers

\* A list of products as a package has it.
Listed(ps, m) ==
    /\ DOMAIN ps = 1..m /\ Len(ps) = m
    /\ \A i \in 1..m :
          /\ ps[i].tabela = Nulo => Selos(ps[i]) = << >> /\ ChaveTabela(ps[i]) = Nulo
          /\ ps[i].tabela # Nulo => /\ ps[i].tabela \in {Table[t] : t \in DOMAIN Table}
                                    /\ Selos(ps[i]) = ps[i].tabela.selos
                                    /\ ChaveTabela(ps[i]) = ps[i].tabela.numero

LEMMA PackageListed ==
    ASSUME NEW job, PackageFits(job)
    PROVE  Len(job.read) \in Nat /\ Listed(Package(job).products, Len(job.read))
<1> DEFINE ps == Package(job).products
           m == Len(job.read)
<1>1. /\ m \in Nat /\ DOMAIN ps = 1..m
      /\ \A i \in 1..m : job.read[i] \in ProductRead /\ ps[i] = ProductPayload(job.read[i])
  BY PackageOf
<1>2. ps = [i \in DOMAIN ps |-> ps[i]]
  BY DEF Package
<1> HIDE DEF ps, m
<1>3. ps \in [1..m -> Rows(ps)]
  BY <1>1, <1>2 DEF Rows
<1>4. Len(ps) = m
  BY <1>1, <1>3, ListIsSeq
<1>5. ASSUME NEW i \in 1..m
      PROVE  /\ ps[i].tabela = Nulo => Selos(ps[i]) = << >> /\ ChaveTabela(ps[i]) = Nulo
             /\ ps[i].tabela # Nulo => /\ ps[i].tabela \in {Table[t] : t \in DOMAIN Table}
                                       /\ Selos(ps[i]) = ps[i].tabela.selos
                                       /\ ChaveTabela(ps[i]) = ps[i].tabela.numero
  BY <1>1, TableSent
<1>6. QED
  BY <1>1, <1>4, <1>5 DEF Listed, ps, m

\* The rows of a package, by block.
LEMMA RowsByBlock ==
    ASSUME NEW m \in Nat, NEW k \in Nat, NEW ps, NEW fs, DOMAIN ps = 1..m, DOMAIN fs = 1..k
    PROVE  LET body == BuildSyncBody(ps, fs) IN
           /\ body \in Seq(Rows(body))
           /\ \A r : r \in Rows(body) /\ r.bloco = "BMP" <=> r \in Rows(BlocoBmp(ps))
           /\ \A r : r \in Rows(body) /\ r.bloco = "LAB" <=> r \in Rows(BlocoLab(ps, fs))
<1> DEFINE body == BuildSyncBody(ps, fs)
<1>1. /\ body \in Seq(Rows(body))
      /\ Rows(body) = Rows(BlocoBmp(ps)) \cup Rows(BlocoCls(ps)) \cup Rows(BlocoPlu(ps))
                      \cup Rows(BlocoNu3(ps)) \cup Rows(BlocoIr2(ps)) \cup Rows(BlocoLab(ps, fs))
  BY BodyIsItsBlocks
<1>2. /\ \A r \in Rows(BlocoBmp(ps)) : r.bloco = "BMP"
      /\ \A r \in Rows(BlocoCls(ps)) : r.bloco = "CLS"
      /\ \A r \in Rows(BlocoNu3(ps)) : r.bloco = "NU3"
      /\ \A r \in Rows(BlocoIr2(ps)) : r.bloco = "IR2"
      /\ \A r \in Rows(BlocoLab(ps, fs)) : r.bloco = "LAB"
  BY Blocks DEF IsBlock
<1>3. \A r \in Rows(BlocoPlu(ps)) :
          r.bloco = "PLU" /\ \E i \in 1..m : r = PluRow(ps[i], ResolvePluNumber(ps[i].codigo, i))
  BY DEF Rows, BlocoPlu, PluRow
<1> HIDE DEF body
<1>4. QED
  BY <1>1, <1>2, <1>3 DEF body

\* A package has one row for each number of a format.
LEMMA LabelsApart ==
    ASSUME NEW m \in Nat, NEW k \in Nat, NEW ps, NEW fs, DOMAIN ps = 1..m, DOMAIN fs = 1..k,
           NEW r \in Rows(BlocoLab(ps, fs)), NEW s \in Rows(BlocoLab(ps, fs)), r.numero = s.numero
    PROVE  r = s
<1> DEFINE F(i) == LabRow(ps[i].formato, BmpDoFormato(ps, ps[i].formato.numero))
           G(i) == LabRow(fs[i], Nulo)
<1>1. Rows(BlocoLab(ps, fs)) = {F(i) : i \in FirstUses(ps)} \cup {G(i) : i \in OnlyLoose(ps, fs)}
  BY LabListed
<1>2. ASSUME NEW i \in FirstUses(ps)
      PROVE  /\ i \in 1..m /\ F(i).numero = ChaveFormato(ps[i])
             /\ \A j \in 1..(i - 1) : ChaveFormato(ps[j]) # ChaveFormato(ps[i])
  BY DEF FirstUses, ChaveFormato, NumeroDe, LabRow
<1>3. ASSUME NEW i \in OnlyLoose(ps, fs)
      PROVE  /\ i \in 1..k /\ G(i).numero = fs[i].numero
             /\ \A j \in 1..m : ChaveFormato(ps[j]) # fs[i].numero
             /\ \A j \in 1..(i - 1) : fs[j].numero # fs[i].numero
  BY DEF OnlyLoose, LabRow
<1> HIDE DEF F, G
<1>4. ASSUME NEW i \in FirstUses(ps), NEW l \in FirstUses(ps), F(i).numero = F(l).numero PROVE i = l
  <2>1. /\ i \in 1..m /\ l \in 1..m /\ ChaveFormato(ps[i]) = ChaveFormato(ps[l])
        /\ i \notin 1..(l - 1) /\ l \notin 1..(i - 1)
    BY <1>2, <1>4
  <2>2. QED
    BY <2>1
<1>5. ASSUME NEW i \in OnlyLoose(ps, fs), NEW l \in OnlyLoose(ps, fs), G(i).numero = G(l).numero PROVE i = l
  <2>1. /\ i \in 1..k /\ l \in 1..k /\ fs[i].numero = fs[l].numero
        /\ i \notin 1..(l - 1) /\ l \notin 1..(i - 1)
    BY <1>3, <1>5
  <2>2. QED
    BY <2>1
<1>6. ASSUME NEW i \in FirstUses(ps), NEW l \in OnlyLoose(ps, fs) PROVE F(i).numero # G(l).numero
  BY <1>2, <1>3
<1>7. QED
  BY <1>1, <1>4, <1>5, <1>6

\* A label of a package is that of the first of its products with the format, or of a
\* format sent on its own.
LabelFrom(ps, fs, r) ==
    \/ \E i \in FirstUses(ps) : r = LabRow(ps[i].formato, BmpDoFormato(ps, ps[i].formato.numero))
    \/ \E i \in OnlyLoose(ps, fs) : r = LabRow(fs[i], Nulo)
LEMMA LabelSource ==
    ASSUME NEW m \in Nat, NEW k \in Nat, NEW ps, NEW fs, DOMAIN ps = 1..m, DOMAIN fs = 1..k, NEW r
    PROVE  LabelFrom(ps, fs, r) <=> r \in Rows(BlocoLab(ps, fs))
  BY LabListed DEF LabelFrom

\* A label of a package for the format of that number, which products of it have.
LabelFor(r, ps, m, key) ==
    /\ r.numero = key
    /\ \E l \in 1..m : ChaveFormato(ps[l]) = key /\ r = LabRow(ps[l].formato, BmpDoFormato(ps, key))

\* The format of a product of a package has a label in it.
LEMMA FormatListed ==
    ASSUME NEW m \in Nat, NEW k \in Nat, NEW ps, NEW fs, DOMAIN ps = 1..m, DOMAIN fs = 1..k,
           NEW i \in 1..m, NEW key, ChaveFormato(ps[i]) = key, key # Nulo
    PROVE  \E r \in Rows(BlocoLab(ps, fs)) : LabelFor(r, ps, m, key)
<1> DEFINE I == {l \in 1..m : ChaveFormato(ps[l]) = key}
<1>1. PICK l \in I : \A u \in I : l <= u
  <2>1. I \subseteq 1..m /\ i \in I
    OBVIOUS
  <2> HIDE DEF I
  <2>2. QED
    BY <2>1, FirstOf
<1>2. \A j \in 1..(l - 1) : ChaveFormato(ps[j]) # key
  <2>1. ASSUME NEW j \in 1..(l - 1), ChaveFormato(ps[j]) = key PROVE FALSE
    <3>1. j \in I /\ ~(l <= j)
      BY <2>1
    <3>2. QED
      BY <1>1, <3>1
  <2>2. QED
    BY <2>1
<1>3. l \in 1..m /\ ChaveFormato(ps[l]) = key /\ key # Nulo
  BY <1>1
<1> HIDE DEF I
<1>4. l \in FirstUses(ps) /\ ps[l].formato.numero = key
  BY <1>2, <1>3 DEF FirstUses, ChaveFormato, NumeroDe
<1> DEFINE r == LabRow(ps[l].formato, BmpDoFormato(ps, ps[l].formato.numero))
<1>5. r \in Rows(BlocoLab(ps, fs))
  <2>1. LabelFrom(ps, fs, r)
    BY <1>4 DEF LabelFrom
  <2> HIDE DEF r
  <2>2. QED
    BY <2>1, LabelSource
<1>6. r.numero = key /\ r = LabRow(ps[l].formato, BmpDoFormato(ps, key))
  BY <1>4 DEF LabRow
<1> HIDE DEF r
<1>7. QED
  BY <1>3, <1>5, <1>6 DEF LabelFor

\* Of a finite set of numbers, each has a place of its own.
LEMMA Places ==
    ASSUME NEW A, IsFiniteSet(A), A \subseteq Int
    PROVE  /\ \A s \in A : Cardinality({u \in A : u <= s}) \in 1..Cardinality(A)
           /\ \A s, t \in A : Cardinality({u \in A : u <= s}) = Cardinality({u \in A : u <= t}) => s = t
<1> DEFINE B(s) == {u \in A : u <= s}
<1>1. ASSUME NEW s \in A PROVE Cardinality(B(s)) \in 1..Cardinality(A) /\ IsFiniteSet(B(s))
  <2> DEFINE C == B(s)
  <2>1. C \subseteq A /\ s \in C
    OBVIOUS
  <2> HIDE DEF C
  <2>2. IsFiniteSet(C) /\ Cardinality(C) <= Cardinality(A)
    BY <2>1, FS_Subset
  <2>3. Cardinality(C) \in Nat /\ Cardinality(A) \in Nat
    BY <2>2, FS_CardinalityType
  <2>4. Cardinality(C) # 0
    BY <2>1, <2>2, FS_EmptySet
  <2>5. Cardinality(C) \in 1..Cardinality(A)
    BY <2>2, <2>3, <2>4
  <2>6. QED
    BY <2>2, <2>5 DEF C
<1>2. ASSUME NEW s \in A, NEW t \in A, s < t PROVE Cardinality(B(s)) # Cardinality(B(t))
  <2> DEFINE C == B(s)
             D == B(t)
  <2>1. C \subseteq D /\ t \in D /\ t \notin C
    <3>1. s \in Int /\ t \in Int /\ \A u \in A : u \in Int
      OBVIOUS
    <3>2. \A u \in A : u <= s => u <= t
      BY <1>2, <3>1
    <3>3. ~(t <= s) /\ t <= t
      BY <1>2, <3>1
    <3>4. QED
      BY <3>2, <3>3
  <2>2. IsFiniteSet(D)
    BY <1>1
  <2> HIDE DEF C, D
  <2>3. Cardinality(C) # Cardinality(D)
    BY <2>1, <2>2, FS_Subset
  <2>4. QED
    BY <2>3 DEF C, D
<1> HIDE DEF B
<1>3. ASSUME NEW s \in A, NEW t \in A, Cardinality(B(s)) = Cardinality(B(t)) PROVE s = t
  <2>1. s \in Int /\ t \in Int
    OBVIOUS
  <2>2. ~(s < t) /\ ~(t < s)
    BY <1>2, <1>3
  <2>3. QED
    BY <2>1, <2>2
<1>4. QED
  BY <1>1, <1>3 DEF B

\* The products of a package with seals, and their tables.
WithSeals(ps) == {l \in DOMAIN ps : Selos(ps[l]) # << >>}
TablesOf(ps) == {ps[k].tabela : k \in WithSeals(ps)}

\* Products with one bitmap have one table, and when there are no more tables with seals
\* than bitmaps every product with seals has one.
LEMMA BitmapsShared ==
    ASSUME NEW m \in Nat, NEW ps, Listed(ps, m)
    PROVE  /\ \A i \in WithSeals(ps) : BmpDoProduto(ps, ps[i]) \in 1..BmpMax \cup {Nulo}
           /\ \A i, k \in WithSeals(ps) :
                 BmpDoProduto(ps, ps[i]) # Nulo /\ BmpDoProduto(ps, ps[i]) = BmpDoProduto(ps, ps[k])
                 => ps[i].tabela = ps[k].tabela
           /\ Cardinality(TablesOf(ps)) <= BmpMax =>
                 \A i \in WithSeals(ps) : BmpDoProduto(ps, ps[i]) # Nulo
<1> DEFINE W == WithSeals(ps)
           T == TablesOf(ps)
           A == {ps[k].tabela.numero : k \in W}
           posto(t) == Cardinality({u \in A : u <= t})
<1>1. /\ DOMAIN ps = 1..m
      /\ \A i \in 1..m :
            /\ ps[i].tabela = Nulo => Selos(ps[i]) = << >>
            /\ ps[i].tabela # Nulo => ps[i].tabela \in {Table[t] : t \in DOMAIN Table}
  BY DEF Listed
<1>2. W \subseteq 1..m /\ \A i \in W : ps[i].tabela # Nulo /\ ps[i].tabela \in {Table[t] : t \in DOMAIN Table}
  BY <1>1 DEF WithSeals
<1>3. T = {ps[k].tabela : k \in W}
  BY DEF TablesOf
<1>4. A = {ps[k].tabela.numero : k \in {j \in DOMAIN ps : Selos(ps[j]) # << >>}}
  BY DEF WithSeals
<1>5. \A i \in W : BmpDoProduto(ps, ps[i]) =
         LET ids == [t \in {u \in A : posto(u) <= BmpMax} |-> posto(t)]
         IN  IF ps[i].tabela # Nulo /\ ps[i].tabela.numero \in DOMAIN ids
             THEN ids[ps[i].tabela.numero] ELSE Nulo
  BY Zenon DEF BmpDoProduto, IdsDeSelo, WithSeals
<1> HIDE DEF W, T
<1>6. IsFiniteSet(W)
  <2>1. IsFiniteSet(1..m)
    BY FS_Interval
  <2>2. QED
    BY <1>2, <2>1, FS_Subset
<1>7. IsFiniteSet(T)
  <2> DEFINE g == [k \in W |-> ps[k].tabela]
  <2>1. g \in Surjection(W, T)
    BY <1>3 DEF Surjection
  <2> HIDE DEF g
  <2>2. QED
    BY <1>6, <2>1, FS_Surjection
<1>8. IsFiniteSet(A) /\ Cardinality(A) <= Cardinality(T)
  <2> DEFINE g == [t \in T |-> t.numero]
  <2>1. \A t \in T : t.numero \in A
    BY <1>3
  <2>2. \A n \in A : \E t \in T : t.numero = n
    BY <1>3
  <2> HIDE DEF A
  <2>3. g \in Surjection(T, A)
    BY <2>1, <2>2 DEF Surjection
  <2> HIDE DEF g
  <2>4. QED
    BY <1>7, <2>3, FS_Surjection
<1>9. A \subseteq Int
  <2>1. \A i \in W : ps[i].tabela.numero \in Int
    BY <1>2, TablesApart
  <2>2. QED
    BY <2>1
<1>10. \A i \in W : ps[i].tabela.numero \in A
  OBVIOUS
<1> HIDE DEF A
<1>11. Cardinality(A) \in Nat /\ Cardinality(T) \in Nat /\ BmpMax \in Nat /\ Nulo \notin Int
  BY <1>7, <1>8, FS_CardinalityType, EncodingAssumption
<1>12. /\ \A s \in A : posto(s) \in 1..Cardinality(A)
       /\ \A s, t \in A : posto(s) = posto(t) => s = t
  BY <1>8, <1>9, Places
<1> HIDE DEF posto
<1>13. ASSUME NEW i \in W
       PROVE  BmpDoProduto(ps, ps[i]) =
                 IF posto(ps[i].tabela.numero) <= BmpMax THEN posto(ps[i].tabela.numero) ELSE Nulo
  <2>1. ps[i].tabela # Nulo /\ ps[i].tabela.numero \in A
    BY <1>2, <1>10
  <2> DEFINE C == {u \in A : posto(u) <= BmpMax}
  <2>2. ps[i].tabela.numero \in C <=> posto(ps[i].tabela.numero) <= BmpMax
    BY <2>1
  <2> HIDE DEF C
  <2>3. BmpDoProduto(ps, ps[i]) =
           IF ps[i].tabela.numero \in C THEN posto(ps[i].tabela.numero) ELSE Nulo
    BY <1>5, <2>1 DEF C
  <2>4. QED
    BY <2>2, <2>3
<1>14. ASSUME NEW i \in W PROVE BmpDoProduto(ps, ps[i]) \in 1..BmpMax \cup {Nulo}
  <2> DEFINE d == posto(ps[i].tabela.numero)
  <2>1. d \in 1..Cardinality(A)
    BY <1>10, <1>12
  <2>2. BmpDoProduto(ps, ps[i]) = IF d <= BmpMax THEN d ELSE Nulo
    BY <1>13
  <2> HIDE DEF d
  <2>3. QED
    BY <1>11, <2>1, <2>2
<1>15. ASSUME NEW i \in W, NEW k \in W, BmpDoProduto(ps, ps[i]) # Nulo,
              BmpDoProduto(ps, ps[i]) = BmpDoProduto(ps, ps[k])
       PROVE  ps[i].tabela = ps[k].tabela
  <2>1. posto(ps[i].tabela.numero) = posto(ps[k].tabela.numero)
    BY <1>13, <1>15
  <2>2. ps[i].tabela.numero = ps[k].tabela.numero
    BY <1>10, <1>12, <2>1
  <2>3. QED
    BY <1>2, <2>2, TablesApart
<1>16. ASSUME Cardinality(TablesOf(ps)) <= BmpMax, NEW i \in W PROVE BmpDoProduto(ps, ps[i]) # Nulo
  <2> DEFINE d == posto(ps[i].tabela.numero)
  <2>1. d \in 1..Cardinality(A)
    BY <1>10, <1>12
  <2>2. BmpDoProduto(ps, ps[i]) = IF d <= BmpMax THEN d ELSE Nulo
    BY <1>13
  <2>3. Cardinality(T) <= BmpMax
    BY <1>16 DEF T
  <2> HIDE DEF d
  <2>4. d <= BmpMax /\ d \in Int
    BY <1>8, <1>11, <2>1, <2>3
  <2>5. QED
    BY <1>11, <2>2, <2>4
<1>17. QED
  BY <1>14, <1>15, <1>16 DEF W

\* The bitmaps of a package: one for each id its products with seals have, and no two.
LEMMA BitmapsOfProducts ==
    ASSUME NEW m \in Nat, NEW ps, DOMAIN ps = 1..m
    PROVE  /\ \A r \in Rows(BlocoBmp(ps)) : \E i \in WithSeals(ps) :
                 /\ BmpDoProduto(ps, ps[i]) # Nulo
                 /\ r = BmpRow(BmpDoProduto(ps, ps[i]), ps[i]) /\ r.numero = BmpDoProduto(ps, ps[i])
           /\ \A i \in WithSeals(ps) : BmpDoProduto(ps, ps[i]) # Nulo =>
                 \E r \in Rows(BlocoBmp(ps)) : r.numero = BmpDoProduto(ps, ps[i])
           /\ \A r, q \in Rows(BlocoBmp(ps)) : r.numero = q.numero => r = q
<1> DEFINE chave(p) == IF Selos(p) = << >> THEN Nulo ELSE BmpDoProduto(ps, p)
           S == {i \in DOMAIN ps : chave(ps[i]) # Nulo
                                    /\ \A j \in 1..(i - 1) : chave(ps[j]) # chave(ps[i])}
           usos == Crescente(S)
           bmp == BlocoBmp(ps)
<1>1. S \subseteq 1..m
  OBVIOUS
<1>2. bmp = [l \in DOMAIN usos |-> BmpRow(chave(ps[usos[l]]), ps[usos[l]])]
  BY Zenon DEF BlocoBmp, PrimeirosUsos
<1>3. \A i \in S : /\ i \in 1..m /\ chave(ps[i]) # Nulo
                   /\ \A j \in 1..(i - 1) : chave(ps[j]) # chave(ps[i])
  OBVIOUS
<1>4. \A i \in 1..m : chave(ps[i]) # Nulo /\ (\A j \in 1..(i - 1) : chave(ps[j]) # chave(ps[i])) => i \in S
  OBVIOUS
<1>5. \A i \in 1..m : /\ chave(ps[i]) # Nulo => i \in WithSeals(ps) /\ chave(ps[i]) = BmpDoProduto(ps, ps[i])
                      /\ i \in WithSeals(ps) => chave(ps[i]) = BmpDoProduto(ps, ps[i])
  BY DEF WithSeals
<1> HIDE DEF S
<1>6. /\ \A l \in DOMAIN usos : usos[l] \in S
      /\ \A i \in S : \E l \in DOMAIN usos : usos[l] = i
  BY <1>1, CrescenteIsOnto
<1> HIDE DEF usos, chave, bmp
<1>7. ASSUME NEW r \in Rows(bmp)
      PROVE  \E i \in WithSeals(ps) :
                /\ i \in S /\ BmpDoProduto(ps, ps[i]) # Nulo
                /\ r = BmpRow(BmpDoProduto(ps, ps[i]), ps[i]) /\ r.numero = BmpDoProduto(ps, ps[i])
  <2>1. PICK l \in DOMAIN bmp : r = bmp[l]
    BY DEF Rows
  <2>2. l \in DOMAIN usos /\ r = BmpRow(chave(ps[usos[l]]), ps[usos[l]])
    BY <1>2, <2>1
  <2>3. /\ usos[l] \in S /\ usos[l] \in WithSeals(ps) /\ BmpDoProduto(ps, ps[usos[l]]) # Nulo
        /\ r = BmpRow(BmpDoProduto(ps, ps[usos[l]]), ps[usos[l]])
    BY <1>3, <1>5, <1>6, <2>2
  <2>4. r.numero = BmpDoProduto(ps, ps[usos[l]])
    BY <2>3 DEF BmpRow
  <2>5. QED
    BY <2>3, <2>4
<1>8. ASSUME NEW i \in WithSeals(ps), BmpDoProduto(ps, ps[i]) # Nulo
      PROVE  \E r \in Rows(bmp) : r.numero = BmpDoProduto(ps, ps[i])
  <2> DEFINE key == BmpDoProduto(ps, ps[i])
             I == {l \in 1..m : chave(ps[l]) = key}
  <2>1. i \in 1..m /\ chave(ps[i]) = key
    BY <1>5 DEF WithSeals
  <2>2. PICK l \in I : \A u \in I : l <= u
    <3>1. I \subseteq 1..m /\ i \in I
      BY <2>1
    <3> HIDE DEF I
    <3>2. QED
      BY <3>1, FirstOf
  <2>3. \A j \in 1..(l - 1) : chave(ps[j]) # key
    <3>1. ASSUME NEW j \in 1..(l - 1), chave(ps[j]) = key PROVE FALSE
      <4>1. j \in I /\ ~(l <= j)
        BY <3>1
      <4>2. QED
        BY <2>2, <4>1
    <3>2. QED
      BY <3>1
  <2>4. l \in S /\ chave(ps[l]) = key
    BY <1>4, <1>8, <2>2, <2>3
  <2>5. PICK c \in DOMAIN usos : usos[c] = l
    BY <1>6, <2>4
  <2>6. c \in DOMAIN bmp /\ bmp[c] = BmpRow(key, ps[l])
    BY <1>2, <2>4, <2>5
  <2>7. bmp[c].numero = key /\ bmp[c] \in Rows(bmp)
    <3>1. BmpRow(key, ps[l]).numero = key
      BY DEF BmpRow
    <3>2. QED
      BY <2>6, <3>1 DEF Rows
  <2>8. QED
    BY <2>7
<1>9. ASSUME NEW r \in Rows(bmp), NEW q \in Rows(bmp), r.numero = q.numero PROVE r = q
  <2>1. PICK i \in WithSeals(ps) :
           /\ i \in S /\ r = BmpRow(BmpDoProduto(ps, ps[i]), ps[i]) /\ r.numero = BmpDoProduto(ps, ps[i])
    BY <1>7
  <2>2. PICK l \in WithSeals(ps) :
           /\ l \in S /\ q = BmpRow(BmpDoProduto(ps, ps[l]), ps[l]) /\ q.numero = BmpDoProduto(ps, ps[l])
    BY <1>7
  <2>3. /\ i \in 1..m /\ l \in 1..m /\ chave(ps[i]) = chave(ps[l])
    BY <1>3, <1>5, <1>9, <2>1, <2>2
  <2>4. i \notin 1..(l - 1) /\ l \notin 1..(i - 1)
    BY <1>3, <2>1, <2>2, <2>3
  <2>5. i = l
    BY <2>3, <2>4
  <2>6. QED
    BY <2>1, <2>2, <2>5
<1>10. QED
  BY <1>7, <1>8, <1>9 DEF bmp

\* Whether the product i of a package shares neither bitmap nor format.
Fresh(ps, i) ==
    /\ Selos(ps[i]) # << >> /\ ps[i].formato # Nulo
    /\ Cardinality(TablesOf(ps)) <= BmpMax
    /\ \A k \in DOMAIN ps \ {i} : NumeroDe(ps[k].formato) # ps[i].formato.numero

\* The bitmap its format refers to is the product's own.
LEMMA FormatsBitmap ==
    ASSUME NEW m \in Nat, NEW ps, DOMAIN ps = 1..m, NEW i \in 1..m, Fresh(ps, i),
           BmpDoProduto(ps, ps[i]) # Nulo
    PROVE  BmpDoFormato(ps, ps[i].formato.numero) = BmpDoProduto(ps, ps[i])
<1> DEFINE n == ps[i].formato.numero
           donos == {l \in DOMAIN ps : /\ NumeroDe(ps[l].formato) = n
                                       /\ BmpDoProduto(ps, ps[l]) # Nulo}
<1>1. BmpDoFormato(ps, n) =
         IF donos = {} THEN Nulo
         ELSE BmpDoProduto(ps, ps[CHOOSE l \in donos : \A j \in donos : l <= j])
  BY Zenon DEF BmpDoFormato
<1>2. NumeroDe(ps[i].formato) = n
  BY DEF Fresh, NumeroDe
<1>3. donos = {i}
  BY <1>2 DEF Fresh
<1> HIDE DEF donos, n
<1>4. (CHOOSE l \in donos : \A j \in donos : l <= j) = i
  BY <1>3
<1>5. QED
  BY <1>1, <1>3, <1>4 DEF n

\* The box for the seals of a label refers to its bitmap.
LEMMA SealBox ==
    ASSUME NEW f, NEW b, b # Nulo, NEW e \in DOMAIN f.elementos, f.elementos[e].tipo = "selos"
    PROVE  /\ DOMAIN LabRow(f, b).itens = DOMAIN f.elementos
           /\ LabRow(f, b).itens[e] = <<6, b, 0>>
<1> DEFINE els == f.elementos
<1>1. /\ DOMAIN LabRow(f, b).itens = DOMAIN els
      /\ LabRow(f, b).itens[e] = Flags(els, e, b)
  BY DEF LabRow
<1>2. ~TemTexto(els[e])
  BY DEF TemTexto
<1>3. e \notin ComSlot(els)
  BY <1>2 DEF ComSlot
<1>4. Flags(els, e, b) = <<6, b, 0>>
  BY <1>3 DEF Flags
<1>5. QED
  BY <1>1, <1>4

-----------------------------------------------------------------------------
(* What a job that has written finds on the scale.                          *)

Place(r) == <<r.bloco, r.numero>>

\* A label or a bitmap of a package has a place on the scale, and no other row of the
\* package is for it.
LEMMA RowPlaces ==
    ASSUME format \in [Formats -> 1..(MaxEvents + 1)], NEW job, PackageFits(job), ReadOnce(job),
           NEW r \in Rows(Body(job)), r.bloco \in {"LAB", "BMP"}
    PROVE  /\ Place(r) \in Address
           /\ \A s \in Rows(Body(job)) : Place(s) = Place(r) => s = r
           /\ r.bloco = "LAB" => \E f \in Formats : r.numero = Number[f]
<1> DEFINE ps == Package(job).products
           fs == Package(job).loose
           m == Len(job.read)
           k == Len(job.loose)
           body == Body(job)
<1>1. /\ m \in Nat /\ k \in Nat /\ DOMAIN ps = 1..m /\ DOMAIN fs = 1..k
      /\ body = BuildSyncBody(ps, fs) /\ Listed(ps, m)
  BY PackageOf, PackageListed
<1>2. r \in Rows(body)
  OBVIOUS
<1>3. r.bloco = "LAB" => \E f \in Formats : r.numero = Number[f]
  BY PrintedRows
<1> HIDE DEF ps, fs, m, k, body
<1>4. /\ \A s : s \in Rows(body) /\ s.bloco = "BMP" <=> s \in Rows(BlocoBmp(ps))
      /\ \A s : s \in Rows(body) /\ s.bloco = "LAB" <=> s \in Rows(BlocoLab(ps, fs))
  BY <1>1, RowsByBlock
<1>5. ASSUME NEW s \in Rows(body), Place(s) = Place(r) PROVE s = r
  <2>1. s.bloco = r.bloco /\ s.numero = r.numero
    BY <1>5 DEF Place
  <2>2. CASE r.bloco = "LAB"
    BY <1>1, <1>2, <1>4, <2>1, <2>2, LabelsApart
  <2>3. CASE r.bloco = "BMP"
    <3>1. r \in Rows(BlocoBmp(ps)) /\ s \in Rows(BlocoBmp(ps))
      BY <1>2, <1>4, <2>1, <2>3
    <3>2. QED
      BY <1>1, <2>1, <3>1, BitmapsOfProducts
  <2>4. QED
    BY <2>2, <2>3
<1>6. Place(r) \in Address
  <2>1. CASE r.bloco = "LAB"
    BY <1>3, <2>1 DEF Place, Address
  <2>2. CASE r.bloco = "BMP"
    <3>1. PICK i \in WithSeals(ps) : r.numero = BmpDoProduto(ps, ps[i]) /\ BmpDoProduto(ps, ps[i]) # Nulo
      BY <1>1, <1>2, <1>4, <2>2, BitmapsOfProducts
    <3>2. r.numero \in 1..BmpMax
      BY <1>1, <3>1, BitmapsShared
    <3>3. QED
      BY <2>2, <3>2 DEF Place, Address
  <2>3. QED
    BY <2>1, <2>2
<1>7. QED
  BY <1>3, <1>5, <1>6 DEF body

\* Rows leave what they are not for.
LEMMA Untouched ==
    ASSUME NEW mem, NEW rows, NEW a \in Address, a \notin Touched(rows)
    PROVE  Written(mem, rows)[a] = mem[a]
<1> DEFINE I == {i \in DOMAIN rows : <<rows[i].bloco, rows[i].numero>> = a}
           last == CHOOSE i \in I : \A k \in I : k <= i
<1>1. Written(mem, rows)[a] = IF I = {} \/ (a[1] = "LAB" /\ a[2] \in FactorySlots) THEN mem[a] ELSE rows[last]
  BY Zenon DEF Written
<1>2. I = {}
  BY DEF Touched
<1>3. QED
  BY <1>1, <1>2

\* What WroteItsRows says of one row of a job.
Holds(mem, unread, missed, others, r) ==
    IF Place(r) \in {"LAB"} \X FactorySlots THEN r.numero \in unread \/ missed
    ELSE /\ Place(r) \in others \/ Present(mem, r)
         /\ r.bloco = "LAB" => mem[Place(r)] # Nulo

\* What it says of a job.
Kept(mem, others, job) ==
    \A r \in Rows(Body(job)) : r.bloco \in {"LAB", "BMP"} => Holds(mem, job.unread, job.missed, others, r)

LEMMA WroteForm ==
    /\ WroteItsRows <=> \A j \in 1..MaxJobs : IsReading(j) => Kept(memory, over[j], jobs[j])
    /\ WroteItsRows' <=> \A j \in 1..MaxJobs : IsReading(j)' => Kept(memory', over'[j], jobs'[j])
  BY DEF WroteItsRows, Kept, Holds, Place, Rows

\* It still holds after rows of any package.
LEMMA ArrivingKeeps ==
    ASSUME format \in [Formats -> 1..(MaxEvents + 1)], NEW p, NEW n, NEW q, Arriving(p, n, q),
           NEW j \in 1..MaxJobs, IsReading(j), PackageFits(jobs[j]), ReadOnce(jobs[j]),
           Kept(memory, over[j], jobs[j])
    PROVE  Kept(memory', over'[j], jobs[j])
<1> DEFINE rows == SubSeq(Body(p), n + 1, q)
           job == jobs[j]
<1>1. /\ PackageFits(p) /\ ReadOnce(p) /\ n \in Nat /\ q \in Nat /\ n <= q /\ q <= Len(Body(p))
      /\ memory' = Written(memory, rows) /\ over'[j] = over[j] \cup Touched(rows)
  BY DEF Arriving, OverBy
<1>2. ASSUME NEW a \in Address, ~(a[1] = "LAB" /\ a[2] \in FactorySlots)
      PROVE  \/ \E s \in Rows(Body(p)) : <<s.bloco, s.numero>> = a /\ memory'[a] = s
             \/ memory'[a] = memory[a]
  <2>1. \/ \E s \in Rows(Body(p)) : <<s.bloco, s.numero>> = a /\ Written(memory, rows)[a] = s
        \/ Written(memory, rows)[a] = memory[a]
    BY <1>1, <1>2, CutWritten
  <2> HIDE DEF rows
  <2>2. QED
    BY <1>1, <2>1
<1>3. ASSUME NEW a \in Address, a \notin Touched(rows) PROVE memory'[a] = memory[a]
  BY <1>1, <1>3, Untouched
<1> HIDE DEF rows
<1>4. SUFFICES ASSUME NEW r \in Rows(Body(job)), r.bloco \in {"LAB", "BMP"}
               PROVE  Holds(memory', job.unread, job.missed, over'[j], r)
  BY DEF Kept
<1>5. Holds(memory, job.unread, job.missed, over[j], r)
  BY <1>4 DEF Kept
<1>6. Place(r) \in Address
  BY <1>4, RowPlaces
<1> HIDE DEF job
<1> DEFINE a == Place(r)
<1>7. CASE a \in {"LAB"} \X FactorySlots
  BY <1>5, <1>7 DEF Holds
<1>8. CASE a \notin {"LAB"} \X FactorySlots
  <2>1. a = <<r.bloco, r.numero>> /\ a[1] = r.bloco /\ ~(a[1] = "LAB" /\ a[2] \in FactorySlots)
    BY <1>8 DEF Place
  <2>2. /\ a \in over[j] \/ Present(memory, r)
        /\ r.bloco = "LAB" => memory[a] # Nulo
    BY <1>5, <1>8 DEF Holds
  <2> HIDE DEF a
  <2>3. a \in over'[j] \/ Present(memory', r)
    BY <1>1, <1>3, <1>6, <2>1, <2>2 DEF Present, a
  <2>4. ASSUME r.bloco = "LAB" PROVE memory'[a] # Nulo
    <3>1. CASE memory'[a] = memory[a]
      BY <2>2, <2>4, <3>1
    <3>2. CASE \E s \in Rows(Body(p)) : <<s.bloco, s.numero>> = a /\ memory'[a] = s
      <4>1. PICK s \in Rows(Body(p)) : <<s.bloco, s.numero>> = a /\ memory'[a] = s
        BY <3>2
      <4>2. s.bloco = "LAB"
        BY <2>1, <2>4, <4>1
      <4>3. s # Nulo
        BY <1>1, <4>2, PrintedRows
      <4>4. QED
        BY <4>1, <4>3
    <3>3. QED
      BY <1>2, <1>6, <2>1, <3>1, <3>2 DEF a
  <2>5. QED
    BY <1>8, <2>3, <2>4 DEF Holds, a
<1>9. QED
  BY <1>7, <1>8 DEF job

\* The formats of the labels are among those to be read back.
LEMMA LabelsToRead ==
    ASSUME format \in [Formats -> 1..(MaxEvents + 1)], NEW job, PackageFits(job), ReadOnce(job),
           NEW r \in Rows(Body(job)), r.bloco = "LAB"
    PROVE  r.numero \in SentNumbers(job)
<1> DEFINE ps == Package(job).products
           fs == Package(job).loose
           m == Len(job.read)
           k == Len(job.loose)
           sent == Sent(job)
<1>1. /\ m \in Nat /\ DOMAIN job.read = 1..m /\ DOMAIN ps = 1..m
      /\ k \in Nat /\ DOMAIN job.loose = 1..k /\ DOMAIN fs = 1..k
      /\ \A i \in 1..m : ps[i] = ProductPayload(job.read[i])
      /\ \A i \in 1..k : fs[i] = FormatPayload(job.loose[i].id, job.loose[i].versao)
      /\ Body(job) = BuildSyncBody(ps, fs)
  BY PackageOf
<1>2. /\ DOMAIN sent = 1..(m + k)
      /\ \A i \in 1..m : sent[i] = ps[i].formato
      /\ \A i \in 1..k : sent[m + i] = fs[i]
  BY <1>1, SentListed
<1>3. \A i \in 1..k : job.loose[i].id \in Formats /\ job.loose[i].versao \in 1..(MaxEvents + 1)
  BY <1>1, VersionsThereAre
<1>4. r \in Rows(BlocoLab(ps, fs))
  <2> HIDE DEF ps, fs, m, k
  <2>1. QED
    BY <1>1, RowsByBlock
<1> HIDE DEF ps, fs, m, k, sent
<1>5. LabelFrom(ps, fs, r)
  BY <1>1, <1>4, LabelSource
<1>6. CASE \E i \in FirstUses(ps) : r = LabRow(ps[i].formato, BmpDoFormato(ps, ps[i].formato.numero))
  <2>1. PICK i \in FirstUses(ps) : r = LabRow(ps[i].formato, BmpDoFormato(ps, ps[i].formato.numero))
    BY <1>6
  <2>2. i \in 1..m /\ NumeroDe(ps[i].formato) # Nulo
    BY <1>1 DEF FirstUses, ChaveFormato
  <2>3. r.numero = NumeroDe(ps[i].formato)
    BY <2>1, <2>2 DEF LabRow, NumeroDe
  <2>4. i \in 1..(m + k)
    BY <1>1, <2>2
  <2>5. QED
    BY <1>2, <2>2, <2>3, <2>4 DEF SentNumbers, sent
<1>7. CASE \E i \in OnlyLoose(ps, fs) : r = LabRow(fs[i], Nulo)
  <2>1. PICK i \in OnlyLoose(ps, fs) : r = LabRow(fs[i], Nulo)
    BY <1>7
  <2>2. i \in 1..k
    BY <1>1 DEF OnlyLoose
  <2>3. PICK f \in Formats, v \in 1..(MaxEvents + 1) : fs[i] = FormatPayload(f, v)
    BY <1>1, <1>3, <2>2
  <2>4. FormatPayload(f, v) # Nulo /\ Number[f] # Nulo
    BY RowsAssumption
  <2>5. fs[i].numero = Number[f]
    BY <2>3 DEF FormatPayload
  <2>6. r.numero = NumeroDe(fs[i]) /\ NumeroDe(fs[i]) # Nulo
    BY <2>1, <2>3, <2>4, <2>5 DEF LabRow, NumeroDe
  <2>7. m + i \in 1..(m + k)
    BY <1>1, <2>2
  <2>8. QED
    BY <1>2, <2>2, <2>6, <2>7 DEF SentNumbers, sent
<1>8. QED
  BY <1>5, <1>6, <1>7 DEF LabelFrom

\* The package just written is there.
LEMMA WritingHolds ==
    ASSUME IInv, ReadsOnce, NEW j \in 1..MaxJobs, Write(j)
    PROVE  Kept(memory', over'[j], jobs'[j])
<1> DEFINE job == jobs[j]
           body == Body(job)
<1>1. /\ job # Nulo /\ memory' = Written(memory, body)
      /\ jobs' = [jobs EXCEPT ![j].phase = "reading", ![j].unread = SentNumbers(job)]
  BY DEF Write, Take
<1>2. /\ job \in Job /\ jobs \in [1..MaxJobs -> Job \cup {Nulo}] /\ PackageFits(job) /\ ReadOnce(job)
      /\ format \in [Formats -> 1..(MaxEvents + 1)]
  BY <1>1, Facts, JobFits DEF ReadsOnce
<1> DEFINE numbers == SentNumbers(job)
<1> HIDE DEF numbers
<1>3. jobs'[j].read = job.read /\ jobs'[j].loose = job.loose /\ jobs'[j].unread = numbers
  BY <1>1, <1>2 DEF Job, numbers
<1>4. Body(jobs'[j]) = body
  BY <1>3 DEF Body, Package
<1>5. body \in Seq(Rows(body))
  BY <1>2, PackageOf, BodyIsItsBlocks
<1> HIDE DEF job
<1>6. ASSUME NEW r \in Rows(body), r.bloco \in {"LAB", "BMP"}
      PROVE  Holds(memory', numbers, jobs'[j].missed, over'[j], r)
  <2> DEFINE a == Place(r)
  <2>1. a \in Address /\ \A s \in Rows(body) : Place(s) = a => s = r
    BY <1>2, <1>6, RowPlaces
  <2>2. CASE a \in {"LAB"} \X FactorySlots
    <3>1. r.bloco = "LAB"
      BY <2>2 DEF Place
    <3>2. r.numero \in numbers
      BY <1>2, <1>6, <3>1, LabelsToRead DEF numbers
    <3>3. QED
      BY <2>2, <3>2 DEF Holds
  <2>3. CASE a \notin {"LAB"} \X FactorySlots
    <3>1. a = <<r.bloco, r.numero>> /\ ~(a[1] = "LAB" /\ a[2] \in FactorySlots)
      BY <2>3 DEF Place
    <3> HIDE DEF a, body
    <3>2. \/ \E s \in Rows(body) : <<s.bloco, s.numero>> = a /\ memory'[a] = s
          \/ \A s \in Rows(body) : <<s.bloco, s.numero>> # a
      BY <1>1, <1>5, <2>1, <3>1, WholeWritten
    <3>3. memory'[a] = r
      BY <1>6, <2>1, <3>1, <3>2 DEF Place
    <3>4. r.bloco = "LAB" => r # Nulo
      BY <1>2, <1>6, PrintedRows DEF body
    <3>5. QED
      BY <2>3, <3>1, <3>3, <3>4 DEF Holds, Present, a
  <2>4. QED
    BY <2>2, <2>3
<1>7. QED
  BY <1>3, <1>4, <1>6 DEF Kept

\* A slot with a factory model is found not to have the format sent to it.
LEMMA FactoryDiverges ==
    ASSUME IInv, ReadsOnce, FactoryKept, NEW job, PackageFits(job), ReadOnce(job),
           NEW i \in DOMAIN Sent(job), NEW f \in Formats, Number[f] \in FactorySlots,
           NumeroDe(Sent(job)[i]) = Number[f]
    PROVE  Diverges(memory[<<"LAB", Number[f]>>], Sent(job)[UltimoUso(Sent(job), NumeroDe, Number[f])])
<1> DEFINE sent == Sent(job)
           n == Number[f]
           u == CHOOSE l \in DOMAIN sent : /\ NumeroDe(sent[l]) = n
                                           /\ \A k \in (l + 1)..Len(sent) : NumeroDe(sent[k]) # n
           m == Len(job.read)
           w == Len(job.loose)
           c == m + w
<1>1. c \in Nat /\ DOMAIN sent = 1..c
  <2>1. m \in Nat /\ w \in Nat /\ DOMAIN sent = 1..(m + w)
    BY SentListed
  <2> HIDE DEF sent, m, w
  <2>2. m + w \in Nat
    BY <2>1
  <2>3. QED
    BY <2>1, <2>2
<1>2. Len(sent) = c
  <2> DEFINE own == [l \in DOMAIN Package(job).products |-> Package(job).products[l].formato]
             fs == Package(job).loose
             T == {own[l] : l \in DOMAIN own} \cup {fs[l] : l \in DOMAIN fs}
  <2>1. /\ m \in Nat /\ DOMAIN Package(job).products = 1..m
        /\ w \in Nat /\ DOMAIN fs = 1..w
    BY PackageOf
  <2>2. DOMAIN own = 1..m /\ own = [l \in DOMAIN own |-> own[l]] /\ fs = [l \in DOMAIN fs |-> fs[l]]
    BY <2>1 DEF Package
  <2>3. sent = own \o fs
    BY DEF Sent
  <2> HIDE DEF own, fs, sent
  <2>4. own \in [1..m -> T] /\ fs \in [1..w -> T]
    BY <2>1, <2>2
  <2> HIDE DEF T
  <2>5. own \in Seq(T) /\ Len(own) = m /\ fs \in Seq(T) /\ Len(fs) = w
    BY <2>1, <2>4, ListIsSeq
  <2> HIDE DEF m, w
  <2>6. Len(own \o fs) = Len(own) + Len(fs)
    BY <2>5
  <2>7. QED
    BY <2>3, <2>5, <2>6
<1>3. n # Nulo /\ \A g, h \in Formats : Number[g] = Number[h] => g = h
  BY RowsAssumption
<1> HIDE DEF sent, c, n, m, w
<1> DEFINE I == {l \in 1..c : NumeroDe(sent[l]) = n}
<1>4. PICK l \in I : \A k \in I : k <= l
  <2>1. I \subseteq 1..c /\ i \in I
    BY <1>1 DEF sent, n
  <2> HIDE DEF I
  <2>2. QED
    BY <1>1, <2>1, LastOf
<1>5. \A k \in (l + 1)..c : NumeroDe(sent[k]) # n
  <2>1. ASSUME NEW k \in (l + 1)..c, NumeroDe(sent[k]) = n PROVE FALSE
    <3>1. k \in I /\ ~(k <= l)
      BY <1>1, <1>4, <2>1
    <3>2. QED
      BY <1>4, <3>1
  <2>2. QED
    BY <2>1
<1>6. u \in DOMAIN sent /\ NumeroDe(sent[u]) = n
  BY <1>1, <1>2, <1>4, <1>5
<1>7. UltimoUso(sent, NumeroDe, n) = u
  BY Zenon DEF UltimoUso
<1> HIDE DEF u, I
<1>8. sent[u] # Nulo /\ sent[u].numero = n
  BY <1>3, <1>6 DEF NumeroDe
<1>9. \E g \in Formats, v \in 1..(MaxEvents + 1) : sent[u] = FormatPayload(g, v)
  <2>1. format \in [Formats -> 1..(MaxEvents + 1)]
    BY Facts
  <2>2. /\ \A k \in DOMAIN job.read : FormatOf[job.read[k].id] # Nulo =>
              FormatOf[job.read[k].id] \in Formats /\ job.read[k].fv \in 1..(MaxEvents + 1)
        /\ \A k \in DOMAIN job.loose : job.loose[k].id \in Formats /\ job.loose[k].versao \in 1..(MaxEvents + 1)
    BY <2>1, VersionsThereAre
  <2>3. \/ \E k \in DOMAIN job.read : LET g == FormatOf[job.read[k].id] IN
              g \in Formats /\ sent[u] = FormatPayload(g, job.read[k].fv)
        \/ \E k \in DOMAIN job.loose :
              job.loose[k].id \in Formats /\ sent[u] = FormatPayload(job.loose[k].id, job.loose[k].versao)
    BY <1>6, <1>8, SentFormats DEF sent
  <2>4. Nulo \notin Formats
    BY CatalogAssumption
  <2>5. QED
    BY <2>2, <2>3, <2>4
<1>10. PICK g \in Formats, v \in 1..(MaxEvents + 1) : sent[u] = FormatPayload(g, v)
  BY <1>9
<1>11. g = f
  BY <1>3, <1>8, <1>10 DEF FormatPayload, n
<1>12. sent[u].nome = Name[f][v]
  BY <1>10, <1>11 DEF FormatPayload
<1>13. Name[f][v] # FactoryRow.nome
  BY RowsAssumption
<1>14. memory[<<"LAB", n>>] = FactoryRow
  BY DEF FactoryKept, n
<1>15. Diverges(memory[<<"LAB", n>>], sent[UltimoUso(sent, NumeroDe, n)])
  BY <1>7, <1>12, <1>13, <1>14 DEF Diverges
<1>16. QED
  BY <1>15 DEF sent, n

\* A turn of the reading back.
LEMMA ReadingHolds ==
    ASSUME IInv, ReadsOnce, FactoryKept, NEW j \in 1..MaxJobs, ReadBack(j), Kept(memory, over[j], jobs[j])
    PROVE  Kept(memory', over'[j], jobs'[j])
<1> DEFINE job == jobs[j]
           sent == Sent(job)
<1>1. IsReading(j) /\ job # Nulo /\ UNCHANGED <<memory, over>>
  BY DEF ReadBack, IsReading
<1>2. job \in Job /\ jobs \in [1..MaxJobs -> Job \cup {Nulo}] /\ PackageFits(job) /\ ReadOnce(job)
  BY <1>1, Facts, JobFits DEF ReadsOnce
<1>3. PICK i \in DOMAIN sent :
         /\ NumeroDe(sent[i]) \in job.unread
         /\ LET n == sent[i].numero IN
            jobs' = [jobs EXCEPT
                ![j].unread = @ \ {n},
                ![j].missed = @ \/ Diverges(memory[<<"LAB", n>>], sent[UltimoUso(sent, NumeroDe, n)])]
  BY DEF ReadBack
<1> DEFINE n == sent[i].numero
           d == Diverges(memory[<<"LAB", n>>], sent[UltimoUso(sent, NumeroDe, n)])
<1>4. d \in BOOLEAN
  BY DEF Diverges
<1>5. jobs' = [jobs EXCEPT ![j].unread = @ \ {n}, ![j].missed = @ \/ d]
  BY <1>3
<1>6. ASSUME NEW f \in Formats, Number[f] \in FactorySlots, Number[f] = NumeroDe(sent[i]), Number[f] = n PROVE d
  BY <1>2, <1>6, FactoryDiverges
<1> HIDE DEF d, n, sent
<1> DEFINE new == [job EXCEPT !.unread = @ \ {n}, !.missed = @ \/ d]
<1>7. /\ new.read = job.read /\ new.loose = job.loose
      /\ new.unread = job.unread \ {n} /\ new.missed = (job.missed \/ d) /\ job.missed \in BOOLEAN
  BY <1>2 DEF Job
<1>8. jobs'[j] = new
  BY <1>2, <1>5
<1> HIDE DEF new
<1>9. Body(new) = Body(job)
  BY <1>7 DEF Body, Package
<1>10. ASSUME NEW r \in Rows(Body(job)), r.bloco \in {"LAB", "BMP"}
       PROVE  Holds(memory, new.unread, new.missed, over[j], r)
  <2>1. Holds(memory, job.unread, job.missed, over[j], r)
    BY <1>10 DEF Kept
  <2>2. CASE Place(r) \notin {"LAB"} \X FactorySlots
    BY <2>1, <2>2 DEF Holds
  <2>3. CASE Place(r) \in {"LAB"} \X FactorySlots
    <3>1. r.numero \in job.unread \/ job.missed
      BY <2>1, <2>3 DEF Holds
    <3>2. r.bloco = "LAB" /\ r.numero \in FactorySlots
      BY <2>3 DEF Place
    <3>3. PICK f \in Formats : r.numero = Number[f]
      BY <1>2, <1>10, <3>2, Facts, RowPlaces
    <3>4. ASSUME r.numero = n PROVE d
      <4>1. Number[f] = n /\ Number[f] # Nulo
        BY <3>3, <3>4, RowsAssumption
      <4>2. NumeroDe(sent[i]) = n
        <5>1. job.unread \subseteq {Number[g] : g \in Formats}
          BY <1>2 DEF Job
        <5>2. NumeroDe(sent[i]) # Nulo
          BY <1>3, <5>1, RowsAssumption
        <5>3. QED
          BY <5>2 DEF NumeroDe, n
      <4>3. QED
        BY <1>6, <3>2, <3>3, <4>1, <4>2
    <3>5. r.numero \in new.unread \/ new.missed
      BY <1>4, <1>7, <3>1, <3>4
    <3>6. QED
      BY <2>3, <3>5 DEF Holds
  <2>4. QED
    BY <2>2, <2>3
<1>11. QED
  BY <1>1, <1>8, <1>9, <1>10 DEF Kept

\* A job that reads back after a step did so before it, or wrote, or read a slot.
LEMMA StillReading ==
    ASSUME IInv, [Next]_vars, NEW j \in 1..MaxJobs, IsReading(j)'
    PROVE  (IsReading(j) /\ jobs'[j] = jobs[j]) \/ Write(j) \/ ReadBack(j)
<1>1. JobsFit /\ jobs \in [1..MaxJobs -> Job \cup {Nulo}]
  BY Facts
<1>2. jobs'[j] # Nulo /\ jobs'[j].phase = "reading"
  BY DEF IsReading
<1>3. CASE jobs'[j] = jobs[j]
  BY <1>2, <1>3 DEF IsReading
<1>4. SUFFICES ASSUME jobs'[j] # jobs[j] PROVE Write(j) \/ ReadBack(j)
  BY <1>3
<1>5. ASSUME NEW tipo, NEW ids, NEW fids, AddJob(NewJob(tipo, ids, fids)) PROVE FALSE
  <2>1. jobs' = [jobs EXCEPT ![created + 1] = NewJob(tipo, ids, fids)]
    BY <1>5 DEF AddJob
  <2>2. NewJob(tipo, ids, fids).phase = "waiting"
    BY DEF NewJob
  <2> DEFINE job == NewJob(tipo, ids, fids)
  <2> HIDE DEF job
  <2>3. jobs'[j] = job
    BY <1>1, <1>4, <2>1 DEF job
  <2>4. QED
    BY <1>2, <2>2, <2>3 DEF job
<1>6. ASSUME jobs[j] # Nulo, HasRead(j) PROVE FALSE
  <2>1. jobs[j] \in Job
    BY <1>1, <1>6
  <2>2. jobs'[j].phase = "read"
    BY <1>1, <1>6, <2>1 DEF HasRead, Job
  <2>3. QED
    BY <1>2, <2>2
<1>7. ASSUME jobs[j] # Nulo, HasOpened(j) PROVE FALSE
  <2>1. jobs[j] \in Job
    BY <1>1, <1>7
  <2>2. jobs'[j].phase = "sending"
    BY <1>1, <1>7, <2>1 DEF HasOpened, Job
  <2>3. QED
    BY <1>2, <2>2
<1>8. ASSUME jobs[j] # Nulo, NEW S, Fail(j, S) PROVE FALSE
  BY <1>1, <1>2, <1>8, FailLeaves
<1>9. ASSUME jobs' = [jobs EXCEPT ![j] = Nulo] PROVE FALSE
  BY <1>1, <1>2, <1>9
<1>10. ASSUME NEW i \in 1..MaxJobs,
              ReadProducts(i) \/ OpenJob(i) \/ Write(i) \/ LoseWrite(i) \/ ReadBack(i) \/ LoseResult(i) \/ EndJob(i)
       PROVE  i = j /\ jobs[i] # Nulo
  <2>1. jobs[i] # Nulo
    BY <1>10 DEF ReadProducts, OpenJob, Write, LoseWrite, ReadBack, LoseResult, EndJob, IsReading
  <2>2. JobChanges(i)
    <3>1. CASE ReadProducts(i)
      BY <3>1 DEF ReadProducts, HasRead, JobChanges
    <3>2. CASE OpenJob(i)
      BY <3>2 DEF OpenJob, HasOpened, JobChanges
    <3>3. CASE Write(i) \/ LoseWrite(i) \/ LoseResult(i) \/ EndJob(i)
      BY <3>3 DEF Write, LoseWrite, LoseResult, EndJob, HasWritten, JobChanges
    <3>4. CASE ReadBack(i)
      BY <3>4 DEF ReadBack, IsReading, Diverges, HasReadBack, JobChanges
    <3>5. QED
      BY <1>10, <3>1, <3>2, <3>3, <3>4
  <2>3. QED
    BY <1>1, <1>4, <2>1, <2>2, OthersStay
<1>11. ASSUME NEW i \in 1..MaxJobs, ReadProducts(i) PROVE FALSE
  BY <1>6, <1>8, <1>10, <1>11 DEF ReadProducts, HasRead
<1>12. ASSUME NEW i \in 1..MaxJobs, OpenJob(i) PROVE FALSE
  BY <1>7, <1>8, <1>9, <1>10, <1>12 DEF OpenJob, HasOpened
<1>13. ASSUME NEW i \in 1..MaxJobs, LoseWrite(i) \/ LoseResult(i) \/ EndJob(i) PROVE FALSE
  BY <1>8, <1>9, <1>10, <1>13 DEF LoseWrite, LoseResult, EndJob
<1>14. ASSUME NEW x \in Item, Enqueue(x) PROVE FALSE
  <2>1. \E tipo, ids, fids : JobFor(x) = NewJob(tipo, ids, fids)
    BY DEF JobFor
  <2>2. UNCHANGED jobs \/ AddJob(JobFor(x))
    BY <1>14 DEF Enqueue
  <2>3. QED
    BY <1>4, <1>5, <2>1, <2>2
<1>15. ASSUME NEW tipo, NEW ids, AskSync(tipo, ids) PROVE FALSE
  BY <1>5, <1>15 DEF AskSync
<1>16. ~UNCHANGED jobs
  BY <1>4
<1>17. QED
  BY <1>10, <1>11, <1>12, <1>13, <1>14, <1>15, <1>16
     DEF Next, vars, SaveProduct, DeleteProducts, SaveFormat, LoseRequest, Link, LandsLate

\* Rows of one package reach the scale in a step, or none.
LEMMA ScaleMoves ==
    ASSUME IInv, ReadsOnce, [Next]_vars
    PROVE  UNCHANGED <<memory, over>> \/ \E p, n, q : Arriving(p, n, q)
<1>1. ASSUME \/ \E j \in 1..MaxJobs : Write(j) \/ LoseWrite(j)
             \/ \E rest \in adrift : LandsLate(rest)
      PROVE  \E p, n, q : Arriving(p, n, q)
  BY <1>1, WriteArrives, LostArrives, LateArrives
<1>2. QED
  BY <1>1 DEF Next, vars, SaveProduct, DeleteProducts, SaveFormat, Enqueue, LoseRequest, AskSync, Link,
              ReadProducts, OpenJob, ReadBack, LoseResult, EndJob

LEMMA WroteStays == IInv /\ ReadsOnce /\ FactoryKept /\ WroteItsRows /\ [Next]_vars => WroteItsRows'
<1> SUFFICES ASSUME IInv, ReadsOnce, FactoryKept, WroteItsRows, [Next]_vars, NEW j \in 1..MaxJobs, IsReading(j)'
             PROVE  Kept(memory', over'[j], jobs'[j])
  BY WroteForm
<1>1. IsReading(j) => Kept(memory, over[j], jobs[j])
  BY WroteForm
<1>2. CASE IsReading(j) /\ jobs'[j] = jobs[j]
  <2>1. PackageFits(jobs[j]) /\ ReadOnce(jobs[j]) /\ format \in [Formats -> 1..(MaxEvents + 1)]
    BY <1>2, Facts, JobFits DEF IsReading, ReadsOnce
  <2>2. CASE UNCHANGED <<memory, over>>
    BY <1>1, <1>2, <2>2
  <2>3. CASE \E p, n, q : Arriving(p, n, q)
    BY <1>1, <1>2, <2>1, <2>3, ArrivingKeeps
  <2>4. QED
    BY <2>2, <2>3, ScaleMoves
<1>3. CASE Write(j)
  BY <1>3, WritingHolds
<1>4. CASE ReadBack(j)
  <2>1. IsReading(j)
    BY <1>4 DEF ReadBack
  <2>2. QED
    BY <1>1, <1>4, <2>1, ReadingHolds
<1>5. QED
  BY <1>2, <1>3, <1>4, StillReading

LEMMA WroteStarts == Init => WroteItsRows
  BY DEF Init, WroteItsRows, IsReading

\* Of every job of a scale that reads back: whatever other jobs write, and whatever of
\* packages given up arrives in the meantime, each of its labels and bitmaps is where it
\* put it or was written over; in the slot of a factory model it finds, or has found, that
\* the model is there (scale-client.ts, verificarFormatosGravados).
THEOREM WroteTheorem == Spec => []WroteItsRows
<1>1. CauseInv => ReadsOnce /\ FactoryKept
  BY DEF CauseInv
<1>2. QED
  BY <1>1, WroteStarts, WroteStays, Invariant, CauseInvariant, PTL DEF Spec

\* A job becomes a success at its end only, every slot read back and none astray.
LEMMA Succeeding ==
    ASSUME IInv, WroteItsRows, [Next]_vars, NEW j \in 1..MaxJobs, Succeeds(j)
    PROVE  /\ IsReading(j) /\ UNCHANGED memory
           /\ \A r \in Rows(Body(jobs[j])) : r.bloco \in {"LAB", "BMP"} =>
                /\ Place(r) \notin {"LAB"} \X FactorySlots
                /\ Place(r) \in over[j] \/ Present(memory, r)
                /\ r.bloco = "LAB" => memory[Place(r)] # Nulo
<1>1. /\ ended \in [1..MaxJobs -> {"none", "error", "success"}]
      /\ ended'[j] = "success" /\ ended[j] # "success"
  BY DEF Succeeds, IInv, TypeOK
<1>2. ASSUME NEW i \in 1..MaxJobs, ended' = [ended EXCEPT ![i] = "error"] PROVE FALSE
  BY <1>1, <1>2
<1>3. ASSUME UNCHANGED ended PROVE FALSE
  BY <1>1, <1>3
<1>4. ASSUME NEW i \in 1..MaxJobs, OpenJob(i) \/ LoseWrite(i) \/ LoseResult(i) PROVE FALSE
  BY <1>2, <1>3, <1>4 DEF OpenJob, LoseWrite, LoseResult
<1>5. ASSUME NEW i \in 1..MaxJobs, EndJob(i)
      PROVE  /\ i = j /\ IsReading(i) /\ UNCHANGED memory
             /\ jobs[i].unread = {} /\ ~jobs[i].missed
  <2>1. /\ IsReading(i) /\ UNCHANGED memory /\ jobs[i].unread = {}
        /\ ~jobs[i].missed /\ ended' = [ended EXCEPT ![i] = "success"]
    BY <1>2, <1>5 DEF EndJob
  <2>2. i = j
    BY <1>1, <2>1
  <2>3. QED
    BY <2>1, <2>2
<1>6. EndJob(j)
  <2>1. \E i \in 1..MaxJobs : EndJob(i)
    BY <1>3, <1>4 DEF Next, vars, SaveProduct, DeleteProducts, SaveFormat, Enqueue, LoseRequest, AskSync,
                      Link, ReadProducts, Write, LandsLate, ReadBack
  <2>2. QED
    BY <1>5, <2>1
<1>7. IsReading(j) /\ UNCHANGED memory /\ jobs[j].unread = {} /\ ~jobs[j].missed
  BY <1>5, <1>6
<1>8. Kept(memory, over[j], jobs[j])
  BY <1>7, WroteForm
<1>9. QED
  BY <1>7, <1>8 DEF Kept, Holds

-----------------------------------------------------------------------------
(* What a success is worth.                                                 *)

\* When a SyncJob ends SUCCESS, each label of its package is in its slot as it was sent,
\* or another package wrote that slot after this one did, and none was for a factory
\* model's slot: for any number of jobs that write and read back in turns, and with rows
\* of attempts given up that still arrive.  (sendProductsToScale: an accepted write is not
\* a written one.)
THEOREM SuccessTheorem == Spec => SuccessIsOnTheScale
<1> DEFINE OnTheScale(j) ==
              LET rows == Body(jobs[j]) IN
              \A i \in DOMAIN rows : rows[i].bloco = "LAB" =>
                  /\ rows[i].numero \notin FactorySlots
                  /\ \/ Present(memory', rows[i])
                     \/ /\ <<"LAB", rows[i].numero>> \in over[j]
                        /\ memory'[<<"LAB", rows[i].numero>>] # Nulo
<1>1. ASSUME IInv, WroteItsRows, [Next]_vars, NEW j \in 1..MaxJobs, Succeeds(j)
      PROVE  OnTheScale(j)
  <2> DEFINE rows == Body(jobs[j])
  <2>1. /\ UNCHANGED memory
        /\ \A r \in Rows(rows) : r.bloco \in {"LAB", "BMP"} =>
             /\ Place(r) \notin {"LAB"} \X FactorySlots
             /\ Place(r) \in over[j] \/ Present(memory, r)
             /\ r.bloco = "LAB" => memory[Place(r)] # Nulo
    BY <1>1, Succeeding
  <2> HIDE DEF rows
  <2>2. ASSUME NEW i \in DOMAIN rows, rows[i].bloco = "LAB"
        PROVE  /\ rows[i].numero \notin FactorySlots
               /\ \/ Present(memory', rows[i])
                  \/ /\ <<"LAB", rows[i].numero>> \in over[j]
                     /\ memory'[<<"LAB", rows[i].numero>>] # Nulo
    <3> DEFINE r == rows[i]
    <3>1. r \in Rows(rows) /\ r.bloco = "LAB"
      BY <2>2 DEF Rows
    <3> HIDE DEF r
    <3>2. Place(r) = <<"LAB", r.numero>>
      BY <3>1 DEF Place
    <3>3. /\ Place(r) \notin {"LAB"} \X FactorySlots
          /\ Place(r) \in over[j] \/ Present(memory', r)
          /\ memory'[Place(r)] # Nulo
      BY <2>1, <3>1 DEF Present
    <3>4. QED
      BY <3>2, <3>3 DEF r
  <2>3. QED
    BY <2>2 DEF rows
<1>2. ASSUME IInv, WroteItsRows, [Next]_vars
      PROVE  [\A j \in 1..MaxJobs : Succeeds(j) => OnTheScale(j)]_vars
  BY <1>1, <1>2
<1>3. QED
  BY <1>2, Invariant, WroteTheorem, PTL DEF Spec, SuccessIsOnTheScale

-----------------------------------------------------------------------------
(* The seals of a success.                                                  *)

\* The bitmap of a product with seals, on a scale that has it.
LEMMA BitmapFound ==
    ASSUME format \in [Formats -> 1..(MaxEvents + 1)], NEW job, PackageFits(job), ReadOnce(job),
           NEW i \in WithSeals(Package(job).products),
           Cardinality(TablesOf(Package(job).products)) <= BmpMax
    PROVE  LET ps == Package(job).products
               b == BmpDoProduto(ps, ps[i])
           IN  /\ b \in 1..BmpMax
               /\ \E r \in Rows(Body(job)), l \in DOMAIN ps :
                     /\ r.bloco = "BMP" /\ r.numero = b /\ r # Nulo
                     /\ ps[l].tabela = ps[i].tabela
                     /\ r.selos = OrdenarSelos(Selos(ps[i]))
                     /\ r.largura = 8 * CaixaDosSelos(ps[l])[1] /\ r.altura = 8 * CaixaDosSelos(ps[l])[2]
<1> DEFINE ps == Package(job).products
           fs == Package(job).loose
           m == Len(job.read)
           k == Len(job.loose)
           body == Body(job)
           b == BmpDoProduto(ps, ps[i])
<1>1. /\ m \in Nat /\ DOMAIN job.read = 1..m /\ DOMAIN ps = 1..m /\ k \in Nat /\ DOMAIN fs = 1..k
      /\ \A l \in 1..m : job.read[l] \in ProductRead /\ ps[l] = ProductPayload(job.read[l])
      /\ body = BuildSyncBody(ps, fs) /\ Listed(ps, m)
  BY PackageOf, PackageListed
<1>2. i \in WithSeals(ps) /\ Cardinality(TablesOf(ps)) <= BmpMax
  OBVIOUS
<1>3. ASSUME NEW l \in 1..m PROVE \A d \in 1..BmpMax : BmpRow(d, ps[l]) # Nulo
  <2> DEFINE r == job.read[l]
  <2>1. r \in ProductRead /\ r.versao # 0 /\ (FormatOf[r.id] # Nulo => r.fv # 0)
    <3>1. r \in ProductRead /\ r.versao # 0 /\ (FormatOf[r.id] # Nulo => r.fv \in 1..format[FormatOf[r.id]])
      BY <1>1 DEF ReadOnce
    <3> HIDE DEF r
    <3>2. QED
      BY <3>1
  <2>2. ps[l] = ProductPayload(r)
    BY <1>1
  <2> HIDE DEF r, ps
  <2>3. \A d \in 1..BmpMax : BmpRow(d, ProductPayload(r)) # Nulo
    BY <2>1, TablesAssumption
  <2>4. QED
    BY <2>2, <2>3
<1> HIDE DEF ps, fs, m, k, body
<1>4. \A r : r \in Rows(body) /\ r.bloco = "BMP" <=> r \in Rows(BlocoBmp(ps))
  BY <1>1, RowsByBlock
<1>5. /\ \A l \in WithSeals(ps) : BmpDoProduto(ps, ps[l]) \in 1..BmpMax
      /\ \A l \in WithSeals(ps) : b = BmpDoProduto(ps, ps[l]) => ps[i].tabela = ps[l].tabela
  <2>1. /\ \A l \in WithSeals(ps) : BmpDoProduto(ps, ps[l]) \in 1..BmpMax \cup {Nulo}
        /\ \A l, h \in WithSeals(ps) :
              BmpDoProduto(ps, ps[l]) # Nulo /\ BmpDoProduto(ps, ps[l]) = BmpDoProduto(ps, ps[h])
              => ps[l].tabela = ps[h].tabela
        /\ \A l \in WithSeals(ps) : BmpDoProduto(ps, ps[l]) # Nulo
    BY <1>1, <1>2, BitmapsShared
  <2>2. QED
    BY <1>2, <2>1
<1>6. b \in 1..BmpMax /\ b # Nulo
  BY <1>2, <1>5, EncodingAssumption
<1>7. WithSeals(ps) \subseteq 1..m
  BY <1>1 DEF WithSeals
<1>8. \A l \in WithSeals(ps) : Selos(ps[l]) = ps[l].tabela.selos
  BY <1>1, <1>7 DEF Listed, WithSeals
<1> HIDE DEF b
<1>9. PICK r \in Rows(BlocoBmp(ps)) : r.numero = b
  BY <1>1, <1>2, <1>6, BitmapsOfProducts DEF b
<1>10. PICK l \in WithSeals(ps) : r = BmpRow(BmpDoProduto(ps, ps[l]), ps[l]) /\ r.numero = BmpDoProduto(ps, ps[l])
  BY <1>1, BitmapsOfProducts
<1>11. r.bloco = "BMP" /\ r \in Rows(body)
  BY <1>4
<1>12. ps[l].tabela = ps[i].tabela
  BY <1>5, <1>9, <1>10
<1>13. Selos(ps[l]) = Selos(ps[i])
  BY <1>2, <1>8, <1>12
<1>14. /\ r.selos = OrdenarSelos(Selos(ps[l]))
       /\ r.largura = 8 * CaixaDosSelos(ps[l])[1] /\ r.altura = 8 * CaixaDosSelos(ps[l])[2]
  BY <1>10, Zenon DEF BmpRow
<1>15. r # Nulo
  BY <1>3, <1>5, <1>7, <1>10
<1>16. l \in DOMAIN ps
  BY <1>1, <1>7
<1>17. \E x \in Rows(body), h \in DOMAIN ps :
          /\ x.bloco = "BMP" /\ x.numero = b /\ x # Nulo
          /\ ps[h].tabela = ps[i].tabela
          /\ x.selos = OrdenarSelos(Selos(ps[i]))
          /\ x.largura = 8 * CaixaDosSelos(ps[h])[1] /\ x.altura = 8 * CaixaDosSelos(ps[h])[2]
  BY <1>9, <1>11, <1>12, <1>13, <1>14, <1>15, <1>16
<1>18. QED
  BY <1>6, <1>17 DEF b, ps, body

\* The label of a product that shares neither bitmap nor format refers to its bitmap.
LEMMA LabelFound ==
    ASSUME format \in [Formats -> 1..(MaxEvents + 1)], NEW job, PackageFits(job), ReadOnce(job),
           NEW i \in DOMAIN Package(job).products, Fresh(Package(job).products, i)
    PROVE  LET p == Package(job).products[i] IN
           \E r \in Rows(Body(job)) :
              /\ r.bloco = "LAB" /\ r.numero = p.formato.numero /\ r # Nulo
              /\ r = LabRow(p.formato, BmpDoProduto(Package(job).products, p))
<1> DEFINE ps == Package(job).products
           fs == Package(job).loose
           m == Len(job.read)
           k == Len(job.loose)
           body == Body(job)
           p == ps[i]
           n == p.formato.numero
           b == BmpDoProduto(ps, p)
<1>1. /\ m \in Nat /\ k \in Nat /\ DOMAIN ps = 1..m /\ DOMAIN fs = 1..k /\ DOMAIN job.read = 1..m
      /\ \A l \in 1..m : job.read[l] \in ProductRead /\ ps[l] = ProductPayload(job.read[l])
      /\ body = BuildSyncBody(ps, fs)
  BY PackageOf
<1>2. i \in 1..m /\ Fresh(ps, i)
  BY <1>1
<1>3. b # Nulo
  <2>1. i \in WithSeals(ps) /\ Cardinality(TablesOf(ps)) <= BmpMax
    BY DEF Fresh, WithSeals
  <2>2. b \in 1..BmpMax
    BY <2>1, BitmapFound
  <2>3. QED
    BY <2>2, EncodingAssumption
<1>4. \A r \in Rows(body) : r.bloco = "LAB" => r # Nulo
  BY PrintedRows
<1> HIDE DEF ps, fs, m, k, body
<1>5. BmpDoFormato(ps, n) = b
  BY <1>1, <1>2, <1>3, FormatsBitmap
<1>6. p.formato # Nulo /\ ChaveFormato(p) = n
  BY <1>2 DEF Fresh, NumeroDe, ChaveFormato
<1>7. n # Nulo
  <2> DEFINE f == FormatOf[job.read[i].id]
             v == job.read[i].fv
  <2>1. f # Nulo /\ p.formato = FormatPayload(f, v)
    BY <1>1, <1>2, <1>6, FormatSent
  <2>2. f \in Formats
    BY <1>1, <1>2, <2>1, CatalogAssumption DEF ProductRead
  <2>3. n = Number[f]
    BY <2>1 DEF FormatPayload
  <2>4. \A g \in Formats : Number[g] # Nulo
    BY RowsAssumption
  <2>5. QED
    BY <2>2, <2>3, <2>4
<1>8. \E s \in Rows(BlocoLab(ps, fs)) : LabelFor(s, ps, m, n)
  <2>1. /\ m \in Nat /\ k \in Nat /\ DOMAIN ps = 1..m /\ DOMAIN fs = 1..k /\ i \in 1..m
        /\ ChaveFormato(ps[i]) = n /\ n # Nulo
    BY <1>1, <1>2, <1>6, <1>7
  <2> HIDE DEF n
  <2>2. QED
    BY <2>1, FormatListed
<1>9. PICK s \in Rows(BlocoLab(ps, fs)), l \in 1..m :
          /\ s.numero = n /\ ChaveFormato(ps[l]) = n /\ s = LabRow(ps[l].formato, BmpDoFormato(ps, n))
  BY <1>8 DEF LabelFor
<1>10. l = i
  <2>1. NumeroDe(ps[l].formato) = n
    BY <1>9 DEF ChaveFormato
  <2>2. QED
    BY <1>1, <1>2, <2>1 DEF Fresh
<1>11. s \in Rows(body) /\ s.bloco = "LAB"
  BY <1>1, RowsByBlock
<1>12. s # Nulo /\ s = LabRow(p.formato, b)
  BY <1>4, <1>5, <1>9, <1>10, <1>11
<1>13. QED
  BY <1>9, <1>11, <1>12 DEF ps, body

\* When both are there, the label prints them.
LEMMA SealsFound ==
    ASSUME NEW mem, NEW f, NEW b, b # Nulo, mem[<<"LAB", f.numero>>] = LabRow(f, b), LabRow(f, b) # Nulo,
           NEW bmp, mem[<<"BMP", b>>] = bmp, bmp # Nulo,
           NEW e \in DOMAIN f.elementos, f.elementos[e].tipo = "selos"
    PROVE  /\ SealsPrinted(mem, mem[<<"LAB", f.numero>>], e) = bmp.selos
           /\ SealsSize(mem, mem[<<"LAB", f.numero>>], e) = <<bmp.largura, bmp.altura>>
<1> DEFINE row == mem[<<"LAB", f.numero>>]
<1>1. DOMAIN row.itens = DOMAIN f.elementos /\ row.itens[e] = <<6, b, 0>> /\ row # Nulo
  BY SealBox
<1> HIDE DEF row
<1>2. e \in DOMAIN row.itens /\ row.itens[e][1] = 6 /\ row.itens[e][2] = b
  BY <1>1
<1>3. SealsPrinted(mem, row, e) = bmp.selos
  BY <1>1, <1>2 DEF SealsPrinted
<1>4. SealsSize(mem, row, e) = <<bmp.largura, bmp.altura>>
  BY <1>2, Zenon DEF SealsSize
<1>5. QED
  BY <1>3, <1>4 DEF row

\* What a product's label prints for its seals, and how large.
PrintsOwnSeals(mem, ps, i) ==
    \A e \in DOMAIN ps[i].formato.elementos : ps[i].formato.elementos[e].tipo = "selos" =>
        /\ SealsPrinted(mem, mem[<<"LAB", ps[i].formato.numero>>], e) = OrdenarSelos(Selos(ps[i]))
        /\ (\A k \in DOMAIN ps : ps[k].tabela = ps[i].tabela => CaixaDosSelos(ps[k]) = CaixaDosSelos(ps[i]))
           => SealsSize(mem, mem[<<"LAB", ps[i].formato.numero>>], e) =
                  <<8 * CaixaDosSelos(ps[i])[1], 8 * CaixaDosSelos(ps[i])[2]>>

LEMMA SealsLanded ==
    ASSUME format \in [Formats -> 1..(MaxEvents + 1)], NEW job, PackageFits(job), ReadOnce(job),
           NEW i \in DOMAIN Package(job).products, Fresh(Package(job).products, i), NEW mem,
           \A r \in Rows(Body(job)) :
              \/ r.bloco = "LAB" /\ r.numero = Package(job).products[i].formato.numero
              \/ r.bloco = "BMP" /\ r.numero = BmpDoProduto(Package(job).products, Package(job).products[i])
              => Present(mem, r)
    PROVE  PrintsOwnSeals(mem, Package(job).products, i)
<1> DEFINE ps == Package(job).products
           p == ps[i]
           f == p.formato
           b == BmpDoProduto(ps, p)
<1>1. i \in WithSeals(ps) /\ Cardinality(TablesOf(ps)) <= BmpMax
  BY DEF Fresh, WithSeals
<1>2. /\ b \in 1..BmpMax
      /\ \E r \in Rows(Body(job)), l \in DOMAIN ps :
            /\ r.bloco = "BMP" /\ r.numero = b /\ r # Nulo
            /\ ps[l].tabela = p.tabela
            /\ r.selos = OrdenarSelos(Selos(p))
            /\ r.largura = 8 * CaixaDosSelos(ps[l])[1] /\ r.altura = 8 * CaixaDosSelos(ps[l])[2]
  BY <1>1, BitmapFound
<1>3. \E r \in Rows(Body(job)) :
         r.bloco = "LAB" /\ r.numero = f.numero /\ r # Nulo /\ r = LabRow(f, b)
  BY LabelFound
<1>4. \A r \in Rows(Body(job)) :
         (r.bloco = "LAB" /\ r.numero = f.numero) \/ (r.bloco = "BMP" /\ r.numero = b) => Present(mem, r)
  OBVIOUS
<1>5. b # Nulo
  BY <1>2, EncodingAssumption
<1> HIDE DEF ps, p, b, f
<1>6. mem[<<"LAB", f.numero>>] = LabRow(f, b) /\ LabRow(f, b) # Nulo
  <2>1. PICK r \in Rows(Body(job)) : r.bloco = "LAB" /\ r.numero = f.numero /\ r # Nulo /\ r = LabRow(f, b)
    BY <1>3
  <2>2. mem[<<r.bloco, r.numero>>] = r
    BY <1>4, <2>1 DEF Present
  <2>3. QED
    BY <2>1, <2>2
<1>7. PICK r \in Rows(Body(job)), l \in DOMAIN ps :
         /\ r.bloco = "BMP" /\ r.numero = b /\ r # Nulo
         /\ ps[l].tabela = p.tabela
         /\ r.selos = OrdenarSelos(Selos(p))
         /\ r.largura = 8 * CaixaDosSelos(ps[l])[1] /\ r.altura = 8 * CaixaDosSelos(ps[l])[2]
  BY <1>2
<1>8. mem[<<"BMP", b>>] = r
  BY <1>4, <1>7 DEF Present
<1>9. ASSUME NEW e \in DOMAIN f.elementos, f.elementos[e].tipo = "selos"
      PROVE  /\ SealsPrinted(mem, mem[<<"LAB", f.numero>>], e) = OrdenarSelos(Selos(p))
             /\ (\A k \in DOMAIN ps : ps[k].tabela = p.tabela => CaixaDosSelos(ps[k]) = CaixaDosSelos(p))
                => SealsSize(mem, mem[<<"LAB", f.numero>>], e) =
                       <<8 * CaixaDosSelos(p)[1], 8 * CaixaDosSelos(p)[2]>>
  <2>1. /\ SealsPrinted(mem, mem[<<"LAB", f.numero>>], e) = r.selos
        /\ SealsSize(mem, mem[<<"LAB", f.numero>>], e) = <<r.largura, r.altura>>
    BY <1>5, <1>6, <1>7, <1>8, <1>9, SealsFound
  <2>2. QED
    BY <1>7, <2>1
<1>10. QED
  BY <1>9 DEF PrintsOwnSeals, f, p, ps

\* After a package with no more tables with seals than bitmaps succeeds, a product whose
\* format no other product of it uses prints the seals of its own table, in the order of
\* the norm, in every box its format has for them, and of the size of that box when the
\* products of its table have one box size (buildSyncBody); unless another package wrote
\* that label or took that bitmap after this one's write.
THEOREM SealsTheorem == Spec => FreshSeals
<1> DEFINE FreshOf(j) ==
              LET ps == Package(jobs[j]).products IN
              \A i \in DOMAIN ps :
                  /\ Selos(ps[i]) # << >> /\ ps[i].formato # Nulo
                  /\ Cardinality({ps[k].tabela : k \in {l \in DOMAIN ps : Selos(ps[l]) # << >>}}) <= BmpMax
                  /\ \A k \in DOMAIN ps \ {i} : NumeroDe(ps[k].formato) # ps[i].formato.numero
                  /\ <<"LAB", ps[i].formato.numero>> \notin over[j]
                  /\ <<"BMP", BmpDoProduto(ps, ps[i])>> \notin over[j]
                  => PrintsOwnSeals(memory', ps, i)
<1>1. ASSUME IInv, CauseInv, WroteItsRows, [Next]_vars, NEW j \in 1..MaxJobs, Succeeds(j)
      PROVE  FreshOf(j)
  <2> DEFINE job == jobs[j]
             ps == Package(job).products
  <2>1. /\ IsReading(j) /\ UNCHANGED memory
        /\ \A r \in Rows(Body(job)) : r.bloco \in {"LAB", "BMP"} => Place(r) \in over[j] \/ Present(memory', r)
    <3>1. /\ IsReading(j) /\ UNCHANGED memory
          /\ \A r \in Rows(Body(job)) : r.bloco \in {"LAB", "BMP"} => Place(r) \in over[j] \/ Present(memory, r)
      BY <1>1, Succeeding
    <3>2. QED
      BY <3>1
  <2>2. format \in [Formats -> 1..(MaxEvents + 1)] /\ PackageFits(job) /\ ReadOnce(job)
    BY <1>1, <2>1, Facts, JobFits DEF IsReading, CauseInv, ReadsOnce
  <2> HIDE DEF job
  <2>3. ASSUME NEW i \in DOMAIN ps, Fresh(ps, i), <<"LAB", ps[i].formato.numero>> \notin over[j],
               <<"BMP", BmpDoProduto(ps, ps[i])>> \notin over[j]
        PROVE  PrintsOwnSeals(memory', ps, i)
    <3>1. \A r \in Rows(Body(job)) :
             \/ r.bloco = "LAB" /\ r.numero = ps[i].formato.numero
             \/ r.bloco = "BMP" /\ r.numero = BmpDoProduto(ps, ps[i])
             => Present(memory', r)
      <4> HIDE DEF ps
      <4>1. QED
        BY <2>1, <2>3 DEF Place
    <3>2. QED
      BY <2>2, <2>3, <3>1, SealsLanded
  <2> HIDE DEF ps
  <2>4. \A i \in DOMAIN ps :
            /\ Selos(ps[i]) # << >> /\ ps[i].formato # Nulo
            /\ Cardinality({ps[k].tabela : k \in {l \in DOMAIN ps : Selos(ps[l]) # << >>}}) <= BmpMax
            /\ \A k \in DOMAIN ps \ {i} : NumeroDe(ps[k].formato) # ps[i].formato.numero
            /\ <<"LAB", ps[i].formato.numero>> \notin over[j]
            /\ <<"BMP", BmpDoProduto(ps, ps[i])>> \notin over[j]
            => PrintsOwnSeals(memory', ps, i)
    BY <2>3 DEF Fresh, TablesOf, WithSeals
  <2>5. QED
    BY <2>4 DEF ps, job
<1>2. ASSUME IInv, CauseInv, WroteItsRows, [Next]_vars
      PROVE  [\A j \in 1..MaxJobs : Succeeds(j) => FreshOf(j)]_vars
  BY <1>1, <1>2
<1>3. FreshSeals <=> [][\A j \in 1..MaxJobs : Succeeds(j) => FreshOf(j)]_vars
  BY PTL DEF FreshSeals, PrintsOwnSeals
<1>4. QED
  BY <1>2, <1>3, Invariant, CauseInvariant, WroteTheorem, PTL DEF Spec
=============================================================================
